----------------------------- MODULE Attachments -----------------------------
(***************************************************************************)
(* Uploads of project attachments: a file in the storage directory and a   *)
(* row that names it, which no transaction spans.  An upload is a          *)
(* coroutine that awaits the body and then runs to its answer; what it can *)
(* meet there is an error of the disk or the database, a lost answer to    *)
(* its COMMIT, and the end of the process.                                 *)
(***************************************************************************)
EXTENDS Integers

CONSTANTS
  Uploads,              \* calls of the endpoint; each has a file name of its own (uuid4)
  Sizes,
  AttachmentMax,        \* attachment_max_mb of the settings
  DbMax                 \* 20 MB, the CHECK of the table

ASSUME SizeAssumption == AttachmentMax \in Nat /\ DbMax \in Nat /\ Sizes \subseteq Nat

VARIABLES
  files,                \* of each upload, what is on the disk: "none", "partial", "whole"
  attached,             \* uploads with a committed row in attachments
  uploadPc,
  body,                 \* [size, genuine]: do name, MIME type and signature agree?
  unopened              \* uploads the verify endpoint has found without a file

attachmentVars == <<files, attached, uploadPc, body, unopened>>

-------------------------------------------------------------------------------
NoBody == [size |-> -1]

AttachmentInit ==
  /\ files = [u \in Uploads |-> "none"] /\ attached = {} /\ unopened = {}
  /\ uploadPc = [u \in Uploads |-> "idle"]
  /\ body = [u \in Uploads |-> NoBody]

Turn(u, from, to) ==
  /\ uploadPc[u] = from
  /\ uploadPc' = [uploadPc EXCEPT ![u] = to]

Disk(u, content) == files' = [files EXCEPT ![u] = content]

(* The access check, and then file.read() is awaited.                      *)
Ask(u, b) ==
  /\ \/ Turn(u, "idle", "reading") \/ Turn(u, "idle", "refused")
  /\ body' = [body EXCEPT ![u] = b]
  /\ UNCHANGED <<files, attached, unopened>>

(* save_attachment up to the file.                                         *)
Acceptable(b) == b.genuine /\ b.size <= AttachmentMax

Reject(u) ==
  /\ Turn(u, "reading", "refused") /\ ~Acceptable(body[u])
  /\ UNCHANGED <<files, attached, body, unopened>>

WriteFile(u) ==
  /\ Turn(u, "reading", "written") /\ Acceptable(body[u])
  /\ Disk(u, "whole")
  /\ UNCHANGED <<attached, body, unopened>>

WriteBreaks(u) ==
  /\ Turn(u, "reading", "unwritten") /\ Acceptable(body[u])
  /\ Disk(u, "partial")
  /\ UNCHANGED <<attached, body, unopened>>

(* The flush.  When it fails the handler has no row yet, and so no path to *)
(* unlink.                                                                 *)
Flush(u) ==
  /\ Turn(u, "written", "flushed") /\ body[u].size <= DbMax
  /\ UNCHANGED <<files, attached, body, unopened>>

FlushFails(u) ==
  /\ Turn(u, "written", "unflushed")
  /\ UNCHANGED <<files, attached, body, unopened>>

CommitUpload(u) ==
  /\ Turn(u, "flushed", "committed")
  /\ attached' = attached \cup {u}
  /\ UNCHANGED <<files, body, unopened>>

(* The commit has expired the row, and the answer reads it again.          *)
Answer(u) ==
  /\ Turn(u, "committed", "stored")
  /\ UNCHANGED <<files, attached, body, unopened>>

(* When that read fails, the handler too reads the row, for its path, and  *)
(* if it can it unlinks the file of a committed row.                       *)
AnswerBreaks(u) ==
  /\ Turn(u, "committed", "doubtful")
  /\ \/ Disk(u, "none") \/ UNCHANGED files
  /\ UNCHANGED <<attached, body, unopened>>

(* The commit raises: the file is unlinked, except for an error of the     *)
(* disk, which is suppressed.                                              *)
(* Mutant of CommitRaises: the file is left to a clean-up.                 *)
CommitRaisesOnly(u) ==
  /\ Turn(u, "flushed", "undone")
  /\ UNCHANGED <<files, attached, body, unopened>>

CommitRaises(u) ==
  /\ \/ Turn(u, "flushed", "undone") /\ Disk(u, "none")
     \/ Turn(u, "flushed", "kept") /\ UNCHANGED files
  /\ UNCHANGED <<attached, body, unopened>>

(* It raises although the database has committed: the connection broke     *)
(* before the answer.                                                      *)
CommitInDoubt(u) ==
  /\ Turn(u, "flushed", "doubtful")
  /\ attached' = attached \cup {u}
  /\ \/ Disk(u, "none") \/ UNCHANGED files
  /\ UNCHANGED <<body, unopened>>

(* verify_attachment: opening a file that is not there raises.             *)
Verify(u) ==
  /\ u \in attached
  /\ unopened' = IF files[u] = "none" THEN unopened \cup {u} ELSE unopened
  /\ UNCHANGED <<files, attached, uploadPc, body>>

(* The end of the process, at any line of an upload that has begun.        *)
Killed == {"reading", "written", "flushed", "committed"}

Crash ==
  /\ \E u \in Uploads : uploadPc[u] \in Killed
  /\ uploadPc' = [u \in Uploads |-> IF uploadPc[u] \in Killed THEN "killed" ELSE uploadPc[u]]
  /\ \E broken \in SUBSET {u \in Uploads : uploadPc[u] = "reading" /\ Acceptable(body[u])} :
       files' = [u \in Uploads |-> IF u \in broken THEN "partial" ELSE files[u]]
  /\ UNCHANGED <<attached, body, unopened>>

Bodies == [size : Sizes, genuine : BOOLEAN]

AttachmentNext ==
  \/ \E u \in Uploads :
       \/ \E b \in Bodies : Ask(u, b)
       \/ Reject(u) \/ WriteFile(u) \/ WriteBreaks(u) \/ Flush(u) \/ FlushFails(u)
       \/ CommitUpload(u) \/ Answer(u) \/ AnswerBreaks(u)
       \/ CommitRaises(u) \/ CommitInDoubt(u) \/ Verify(u)
  \/ Crash

AttachmentSpec == AttachmentInit /\ [][AttachmentNext]_attachmentVars

-------------------------------------------------------------------------------
Failures == {"unwritten", "unflushed", "kept", "killed"}

(* Every variable has its type.                                            *)
AttachmentTypeOK ==
  /\ files \in [Uploads -> {"none", "partial", "whole"}]
  /\ attached \subseteq Uploads /\ unopened \subseteq Uploads
  /\ uploadPc \in [Uploads -> {"idle", "refused", "reading", "written", "flushed", "committed",
                               "stored", "undone", "doubtful"} \cup Failures]
  /\ body \in [Uploads -> {NoBody} \cup Bodies]

(* Disk and table agree, with the exceptions the code leaves: a row has    *)
(* its whole file, and verifies, unless the answer to its commit was lost  *)
(* or the row could not be read again after it; a file has its row unless  *)
(* the upload is still running, was killed, or failed before the row could *)
(* be flushed or while the file was unlinked.                              *)
FilesMatchRows ==
  \A u \in Uploads :
    /\ u \in attached /\ uploadPc[u] # "doubtful" => files[u] = "whole" /\ u \notin unopened
    /\ files[u] # "none" /\ u \notin attached => uploadPc[u] \in {"written", "flushed"} \cup Failures
===============================================================================
