------------------------------- MODULE MCStaff -------------------------------
(***************************************************************************)
(* The three components around the staff: Logins, Permissions and Shifts.  *)
(* They share no table that any of them writes, so their steps commute, and*)
(* a behaviour works on one of them: the state spaces add up instead of    *)
(* multiplying.  MCProjects has the instance for TLC.                      *)
(***************************************************************************)
EXTENDS Logins, Permissions, Shifts

VARIABLE part

StaffParts == {"logins", "permissions", "shifts"}
staffVars == <<loginVars, permissionVars, shiftVars>>

StaffInit == part \in StaffParts /\ LoginInit /\ PermissionInit /\ ShiftInit

StaffNext ==
  /\ UNCHANGED part
  /\ \/ part = "logins" /\ LoginNext /\ UNCHANGED <<permissionVars, shiftVars>>
     \/ part = "permissions" /\ PermissionNext /\ UNCHANGED <<loginVars, shiftVars>>
     \/ part = "shifts" /\ ShiftNext /\ UNCHANGED <<loginVars, permissionVars>>

StaffSpec == StaffInit /\ [][StaffNext]_<<part, staffVars>>

(* The types of all three.                                                 *)
StaffTypeOK == LoginTypeOK /\ PermissionTypeOK /\ ShiftTypeOK
===============================================================================
