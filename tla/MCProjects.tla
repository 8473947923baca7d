------------------------------ MODULE MCProjects ------------------------------
(***************************************************************************)
(* Instances of Projects for TLC: an applicant, a reviewer, and an         *)
(* administrator, who also submits and edits for the applicant; and beside *)
(* them the components around the staff (MCStaff), of which Projects sees  *)
(* no more than a revoked binding (Revoke).  A behaviour works on one of   *)
(* them.                                                                   *)
(***************************************************************************)
EXTENDS Projects, MCStaff, Sequences

CONSTANTS r1, r2, r3, r4, s1, s2, s3, s4, p1, t1, c1, c2, ana, rev, adm

MCApplicant == [p \in Projects |-> ana]
MCCallerOf == [r \in Requests |-> IF r = r4 THEN adm ELSE ana]
MCBindings == {[id |-> 1, user |-> rev], [id |-> 2, user |-> adm]}

MCInit ==
  /\ part \in StaffParts \cup {"projects"}
  /\ Init /\ LoginInit /\ PermissionInit /\ ShiftInit
  /\ passwordOf = [u \in Accounts |-> "p"]

(* Requests of the same caller are interchangeable, and so are the calls   *)
(* of the staff, the contents and the passwords.  It is enough to let the  *)
(* calls begin in the order of their numbers, with one password, and the   *)
(* project with one content: this leaves one behaviour of those that       *)
(* differ in names only.  A shift begins with the longest window there is. *)
BeginInTurn(place, calls) ==
  \A i \in 2..Len(calls) :
    {calls[i - 1], calls[i]} \subseteq DOMAIN place /\ place[calls[i]] # "idle"
      => place[calls[i - 1]] # "idle"

MCNext ==
  /\ \/ StaffNext /\ UNCHANGED vars
     \/ part = "projects" /\ Next /\ UNCHANGED <<part, staffVars>>
  /\ versions = {} => \A v \in versions' : v.content = c1
  /\ \A s \in ShiftIds : shifts[s] = NoShift /\ shifts'[s] # NoShift =>
       \A from, to \in Times : shifts'[s].starts <= from /\ to <= shifts'[s].ends
  /\ BeginInTurn(pc', <<r1, r2, r3>>)
  /\ BeginInTurn(loginPc', <<s1, s2, s3, s4>>)
  /\ BeginInTurn(changePc', <<s1, s2, s3, s4>>)
  /\ BeginInTurn(shiftPc', <<s1, s2, s3>>)

MCSpec == MCInit /\ [][MCNext]_<<part, vars, staffVars>>
===============================================================================
