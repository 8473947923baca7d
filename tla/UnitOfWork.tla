----------------------------- MODULE UnitOfWork -----------------------------
(***************************************************************************)
(* What the modules of the service need of SQLAlchemy's unit of work: an   *)
(* object is read once and then kept in the session's identity map, and a  *)
(* flush writes, by primary key, the columns whose new value differs from  *)
(* the value that was read.                                                *)
(***************************************************************************)

(* The column a row has after the flush: `stored` before it, `read` by the *)
(* session, set to `new`.                                                  *)
Column(stored, read, new) == IF new = read THEN stored ELSE new
===============================================================================
