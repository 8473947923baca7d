------------------------------ MODULE Permissions ------------------------------
(***************************************************************************)
(* Who may do what: the bootstrap of the first administrator, new users,   *)
(* and the granting, revoking and updating of role bindings, each with an  *)
(* entry of the permission log in the same transaction.  Every call but    *)
(* the bootstrap is let in by the actor's bindings as they are when it     *)
(* starts; what it has read is then used at its commit.                    *)
(***************************************************************************)
EXTENDS Integers, FiniteSets

CONSTANTS
  Changes,              \* calls; each is made once
  Staff,                \* the names users may have
  Roles

ASSUME RolesAssumption == "op_admin" \in Roles /\ "no role" \notin Roles

VARIABLES
  \* the database
  users,
  roleBindings,         \* user_role_bindings: [id, user, role]
  permissionLog,        \* permission_change_logs: [no, user, from, to]
  \* one session per call
  changePc,
  change,               \* what the call asks: [op, user, role]
  found,                \* the binding it has read
  \* history
  born,                 \* the bindings users were made with: <<user, role>>
  roleRaced,            \* users one of whose bindings two calls were about to change
  bootRaced             \* has a bootstrap overlapped with another change?

permissionTables == <<users, roleBindings, permissionLog>>
permissionVars == <<permissionTables, changePc, change, found, born, roleRaced, bootRaced>>

-------------------------------------------------------------------------------
NoChange == [op |-> "none"]
NoBinding == [id |-> "none"]
NoRole == "no role"

Bound(u, r) == \E b \in roleBindings : b.user = u /\ b.role = r
Administrators == {u \in Staff : Bound(u, "op_admin")}

Ready(c) == changePc[c] = "ready"
Rebinding(c, u) == Ready(c) /\ change[c].op \in {"grant", "revoke", "update"} /\ change[c].user = u

PermissionInit ==
  /\ users = {} /\ roleBindings = {} /\ permissionLog = {} /\ born = {}
  /\ changePc = [c \in Changes |-> "idle"]
  /\ change = [c \in Changes |-> NoChange]
  /\ found = [c \in Changes |-> NoBinding]
  /\ roleRaced = [u \in Staff |-> FALSE]
  /\ bootRaced = FALSE

-------------------------------------------------------------------------------
Start(c, op, u, r, accepted) ==
  /\ changePc[c] = "idle"
  /\ changePc' = [changePc EXCEPT ![c] = IF accepted THEN "ready" ELSE "refused"]
  /\ change' = [change EXCEPT ![c] = [op |-> op, user |-> u, role |-> r]]
  /\ UNCHANGED <<permissionTables, born>>

(* seed_admin first looks for an administrator.                            *)
(* Mutant of SeedStart: it looks for a user of that name.                  *)
SeedStartByName(c, u) ==
  /\ Start(c, "seed", u, "op_admin", u \notin users)
  /\ bootRaced' = (bootRaced \/ \E d \in Changes : Ready(d))
  /\ UNCHANGED <<found, roleRaced>>

SeedStart(c, u) ==
  /\ Start(c, "seed", u, "op_admin", Administrators = {})
  /\ bootRaced' = (bootRaced \/ \E d \in Changes : Ready(d))
  /\ UNCHANGED <<found, roleRaced>>

CreateStart(c, u, r) ==
  /\ Administrators # {} /\ Start(c, "create", u, r, TRUE)
  /\ UNCHANGED <<found, roleRaced, bootRaced>>

Rebind(c, op, u, r, b, accepted) ==
  /\ Administrators # {} /\ Start(c, op, u, r, accepted)
  /\ found' = [found EXCEPT ![c] = b]
  /\ roleRaced' = [roleRaced EXCEPT ![u] = @ \/ (accepted /\ \E d \in Changes : Rebinding(d, u))]
  /\ UNCHANGED bootRaced

GrantStart(c, u, r) == Rebind(c, "grant", u, r, NoBinding, u \in users)

RevokeStart(c, u, r) ==
  \/ \E b \in roleBindings : b.user = u /\ b.role = r /\ Rebind(c, "revoke", u, r, b, TRUE)
  \/ ~Bound(u, r) /\ Rebind(c, "revoke", u, r, NoBinding, FALSE)

UpdateStart(c, r) ==
  \E b \in roleBindings : Rebind(c, "update", b.user, r, b, b.role # r)

-------------------------------------------------------------------------------
Finish(c, outcome) ==
  /\ Ready(c)
  /\ changePc' = [changePc EXCEPT ![c] = outcome]
  /\ UNCHANGED <<change, found, roleRaced, bootRaced>>

Log(u, from, to) ==
  permissionLog' = permissionLog \cup
    {[no |-> Cardinality(permissionLog) + 1, user |-> u, from |-> from, to |-> to]}

(* The user, its first binding and the audit entry are one transaction.    *)
UserCommit(c) ==
  LET u == change[c].user
  IN /\ change[c].op \in {"seed", "create"} /\ u \notin users
     /\ Finish(c, "done")
     /\ users' = users \cup {u}
     /\ roleBindings' = roleBindings \cup {[id |-> c, user |-> u, role |-> change[c].role]}
     /\ born' = born \cup {<<u, change[c].role>>}
     /\ UNCHANGED permissionLog

(* Mutant of GrantCommit: the log is written in a transaction of its own,  *)
(* which fails.                                                            *)
GrantCommitUnlogged(c) ==
  LET u == change[c].user
  IN /\ change[c].op = "grant" /\ ~Bound(u, change[c].role)
     /\ Finish(c, "done")
     /\ roleBindings' = roleBindings \cup {[id |-> c, user |-> u, role |-> change[c].role]}
     /\ UNCHANGED <<users, born, permissionLog>>

GrantCommit(c) ==
  LET u == change[c].user
  IN /\ change[c].op = "grant" /\ ~Bound(u, change[c].role)
     /\ Finish(c, "done")
     /\ roleBindings' = roleBindings \cup {[id |-> c, user |-> u, role |-> change[c].role]}
     /\ Log(u, NoRole, change[c].role)
     /\ UNCHANGED <<users, born>>

(* The binding that was read goes, by its id; when it is gone already, the *)
(* statement deletes nothing, and SQLAlchemy only warns.                   *)
RevokeCommit(c) ==
  /\ change[c].op = "revoke" /\ Finish(c, "done")
  /\ roleBindings' = {b \in roleBindings : b.id # found[c].id}
  /\ Log(change[c].user, change[c].role, NoRole)
  /\ UNCHANGED <<users, born>>

(* The log has the role that was read.                                     *)
(* Mutant of UpdateCommit: the old role is taken after the assignment.     *)
UpdateCommitLate(c) ==
  LET r == change[c].role
      row == {b \in roleBindings : b.id = found[c].id}
  IN /\ change[c].op = "update" /\ row # {}
     /\ \A b \in roleBindings \ row : b.user = change[c].user => b.role # r
     /\ Finish(c, "done")
     /\ roleBindings' = (roleBindings \ row) \cup {[b EXCEPT !.role = r] : b \in row}
     /\ Log(change[c].user, r, r)
     /\ UNCHANGED <<users, born>>

UpdateCommit(c) ==
  LET r == change[c].role
      row == {b \in roleBindings : b.id = found[c].id}
  IN /\ change[c].op = "update" /\ row # {}
     /\ \A b \in roleBindings \ row : b.user = change[c].user => b.role # r
     /\ Finish(c, "done")
     /\ roleBindings' = (roleBindings \ row) \cup {[b EXCEPT !.role = r] : b \in row}
     /\ Log(change[c].user, found[c].role, r)
     /\ UNCHANGED <<users, born>>

(* A unique constraint (user name, user and role), an UPDATE that matches  *)
(* no row, or an error: the transaction is rolled back.                    *)
ChangeFails(c) ==
  Finish(c, "failed") /\ UNCHANGED <<permissionTables, born>>

PermissionNext ==
  \E c \in Changes :
    \/ \E u \in Staff : SeedStart(c, u)
    \/ \E u \in Staff, r \in Roles : CreateStart(c, u, r) \/ GrantStart(c, u, r) \/ RevokeStart(c, u, r)
    \/ \E r \in Roles : UpdateStart(c, r)
    \/ UserCommit(c) \/ GrantCommit(c) \/ RevokeCommit(c) \/ UpdateCommit(c) \/ ChangeFails(c)

PermissionSpec == PermissionInit /\ [][PermissionNext]_permissionVars

-------------------------------------------------------------------------------
Binding == [id : Changes, user : Staff, role : Roles]
Entries(u, r) == {e \in permissionLog : e.user = u /\ r \in {e.from, e.to}}

(* Every variable has its type.                                            *)
PermissionTypeOK ==
  /\ users \subseteq Staff /\ roleBindings \subseteq Binding
  /\ permissionLog \subseteq
       [no : Nat, user : Staff, from : Roles \cup {NoRole}, to : Roles \cup {NoRole}]
  /\ changePc \in [Changes -> {"idle", "refused", "ready", "done", "failed"}]
  /\ change \in [Changes -> {NoChange} \cup
       [op : {"seed", "create", "grant", "revoke", "update"}, user : Staff, role : Roles]]
  /\ found \in [Changes -> {NoBinding} \cup Binding]
  /\ born \subseteq Staff \X Roles
  /\ roleRaced \in [Staff -> BOOLEAN] /\ bootRaced \in BOOLEAN

(* For a user whose changes did not overlap, the log replays to the        *)
(* bindings: a role is held if its latest entry gave it, or if the user    *)
(* was made with it and no entry speaks of it.                             *)
LogReplays ==
  \A u \in Staff, r \in Roles : ~roleRaced[u] =>
    IF Entries(u, r) = {}
    THEN Bound(u, r) <=> <<u, r>> \in born
    ELSE \E e \in Entries(u, r) :
           /\ \A f \in Entries(u, r) : f.no <= e.no
           /\ Bound(u, r) <=> e.to = r

(* Whatever overlaps, nobody holds a role that neither an entry of the log *)
(* nor the making of the user accounts for.                                *)
RolesAreGranted ==
  \A b \in roleBindings :
    \/ <<b.user, b.role>> \in born
    \/ \E e \in permissionLog : e.user = b.user /\ e.to = b.role

(* A bootstrap that overlapped with nothing makes an administrator only    *)
(* where there is none: the look for one and the insert are two steps.     *)
BootstrapsOnlyWithoutAdmin ==
  [][\A c \in Changes :
       changePc[c] = "ready" /\ changePc'[c] = "done" /\ change[c].op = "seed" =>
         bootRaced \/ Administrators = {}]_permissionVars
===============================================================================
