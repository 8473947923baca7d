----------------------------- MODULE StaffProofs ------------------------------
(***************************************************************************)
(* Theorems about the components around the staff, for any accounts, roles,*)
(* shifts, calls and points in time: first Logins, then Permissions, then  *)
(* Shifts, and last the three side by side.                                *)
(***************************************************************************)
EXTENDS MCStaff, FiniteSetTheorems, TLAPS

(* Logins: any limit of failures and any length of the lock.               *)

(* Two calls that check one account have marked it as raced; what a call   *)
(* that is alone has read still holds; and a login has read no lock that   *)
(* lasts.                                                                  *)
OneChecker ==
  \A a, b \in Attempts, u \in Accounts :
    Checking(a, u) /\ Checking(b, u) /\ a # b => loginRaced[u]
LoginCurrent ==
  \A a \in Attempts, u \in Accounts : Checking(a, u) /\ ~loginRaced[u] =>
    /\ account[a].password = passwordOf[u]
    /\ account[a].failed = failedAttempts[u]
    /\ account[a].until = lockedUntil[u]
ReadUnlocked ==
  \A a \in Attempts : loginPc[a] = "checking" /\ asks[a].op = "login" => account[a].until <= minute

LoginInv == LoginTypeOK /\ OneChecker /\ LoginCurrent /\ ReadUnlocked /\ CountsConsecutive

LoginAsked == [op : {"login", "change"}, user : Accounts, typed : Passwords, new : Passwords]
LoginCopied == [password : Passwords, required : BOOLEAN, failed : Nat, until : Nat]

LEMMA InitLoginInv == LoginInit => LoginInv
BY LoginAssumption
DEF LoginInit, LoginInv, LoginTypeOK, OneChecker, LoginCurrent, ReadUnlocked,
    CountsConsecutive, Checking

(* A call that checks has asked and read.                                  *)
LEMMA LoginSessions ==
  ASSUME LoginTypeOK, NEW a \in Attempts, loginPc[a] = "checking"
  PROVE  asks[a] \in LoginAsked /\ account[a] \in LoginCopied
BY DEF LoginTypeOK, LoginAsked, LoginCopied

-------------------------------------------------------------------------------
LEMMA LoginReadKeeps ==
  ASSUME LoginInv, NEW a \in Attempts, NEW ask \in LoginAsked, ReadAccount(a, ask),
         ask.op = "login" => ~Locked(ask.user)
  PROVE  LoginInv'
<1> DEFINE u == ask.user
           copy == [password |-> passwordOf[u], required |-> changeRequired[u],
                    failed |-> failedAttempts[u], until |-> lockedUntil[u]]
<1>1. /\ u \in Accounts /\ loginPc[a] = "idle"
      /\ loginPc' = [loginPc EXCEPT ![a] = "checking"]
      /\ asks' = [asks EXCEPT ![a] = ask] /\ account' = [account EXCEPT ![a] = copy]
      /\ loginRaced' = [loginRaced EXCEPT ![u] = @ \/ \E b \in Attempts : Checking(b, u)]
      /\ UNCHANGED <<userRows, minute, streak>>
  BY DEF ReadAccount, LoginAsked
<1>2. copy \in LoginCopied
  BY <1>1 DEF LoginInv, LoginTypeOK, LoginCopied
<1>3. LoginTypeOK'
  <2>1. asks' \in [Attempts -> {NoAsk} \cup LoginAsked] /\ account' \in [Attempts -> {NoAccount} \cup LoginCopied]
    BY <1>1, <1>2 DEF LoginInv, LoginTypeOK, LoginAsked, LoginCopied
  <2>2. loginRaced' \in [Accounts -> BOOLEAN]
    BY <1>1 DEF LoginInv, LoginTypeOK
  <2>3. ASSUME NEW b \in Attempts, loginPc'[b] \in {"checking", "wrong", "entered", "changed"}
        PROVE  asks'[b] # NoAsk /\ account'[b] # NoAccount
    BY <1>1, <1>2, <2>3 DEF LoginInv, LoginTypeOK, LoginAsked, LoginCopied, NoAsk, NoAccount
  <2> QED
    BY <1>1, <2>1, <2>2, <2>3 DEF LoginInv, LoginTypeOK, userRows, LoginAsked, LoginCopied
<1>4. /\ loginPc'[a] = "checking" /\ asks'[a] = ask /\ account'[a] = copy
      /\ \A b \in Attempts \ {a} :
           loginPc'[b] = loginPc[b] /\ asks'[b] = asks[b] /\ account'[b] = account[b]
      /\ \A v \in Accounts : loginRaced[v] => loginRaced'[v]
      /\ (\E b \in Attempts : Checking(b, u)) => loginRaced'[u]
  BY <1>1 DEF LoginInv, LoginTypeOK
<1>5. OneChecker'
  <2> SUFFICES ASSUME NEW b \in Attempts, NEW c \in Attempts, NEW v \in Accounts,
                      Checking(b, v)', Checking(c, v)', b # c
               PROVE  loginRaced'[v]
    BY DEF OneChecker
  <2>1. CASE b # a /\ c # a
    BY <1>4, <2>1 DEF LoginInv, OneChecker, Checking
  <2>2. CASE b = a
    BY <1>4, <2>2 DEF Checking
  <2>3. CASE c = a
    BY <1>4, <2>3 DEF Checking
  <2> QED BY <2>1, <2>2, <2>3
<1>6. LoginCurrent'
  <2> SUFFICES ASSUME NEW b \in Attempts, NEW v \in Accounts, Checking(b, v)', ~loginRaced'[v]
               PROVE  /\ account'[b].password = passwordOf'[v]
                      /\ account'[b].failed = failedAttempts'[v]
                      /\ account'[b].until = lockedUntil'[v]
    BY DEF LoginCurrent
  <2>1. CASE b # a
    BY <1>1, <1>4, <2>1 DEF LoginInv, LoginCurrent, Checking, userRows
  <2>2. CASE b = a
    BY <1>1, <1>4, <2>2 DEF Checking, userRows
  <2> QED BY <2>1, <2>2
<1>7. ReadUnlocked'
  BY <1>1, <1>4 DEF LoginInv, LoginTypeOK, ReadUnlocked, Locked
<1>8. CountsConsecutive'
  BY <1>1, <1>4 DEF LoginInv, CountsConsecutive, userRows
<1> QED
  BY <1>3, <1>5, <1>6, <1>7, <1>8 DEF LoginInv

(* A call that writes ends with it; the others check as before, and alone  *)
(* with the account it has read what is there.                             *)
LoginWrites(a, u) ==
  /\ loginPc[a] = "checking" /\ asks[a].user = u
  /\ \E end \in {"wrong", "entered", "changed"} : loginPc' = [loginPc EXCEPT ![a] = end]
  /\ UNCHANGED <<minute, asks, account, loginRaced>>

LEMMA LoginWriteLeaves ==
  ASSUME LoginInv, NEW a \in Attempts, NEW u \in Accounts, LoginWrites(a, u), LoginTypeOK',
         \A v \in Accounts \ {u} : /\ passwordOf'[v] = passwordOf[v]
                                   /\ failedAttempts'[v] = failedAttempts[v]
                                   /\ lockedUntil'[v] = lockedUntil[v]
  PROVE  OneChecker' /\ LoginCurrent' /\ ReadUnlocked'
<1>1. \A b \in Attempts : loginPc'[b] = "checking" => loginPc[b] = "checking" /\ b # a
  BY DEF LoginWrites, LoginInv, LoginTypeOK
<1>2. \A b \in Attempts, v \in Accounts : Checking(b, v)' => Checking(b, v) /\ b # a
  BY <1>1 DEF Checking, LoginWrites
<1>3. OneChecker'
  BY <1>2 DEF OneChecker, LoginInv, LoginWrites
<1>4. LoginCurrent'
  <2> SUFFICES ASSUME NEW b \in Attempts, NEW v \in Accounts, Checking(b, v)', ~loginRaced'[v]
               PROVE  /\ account'[b].password = passwordOf'[v]
                      /\ account'[b].failed = failedAttempts'[v]
                      /\ account'[b].until = lockedUntil'[v]
    BY DEF LoginCurrent
  <2>1. Checking(b, v) /\ b # a /\ ~loginRaced[v]
    BY <1>2 DEF LoginWrites
  <2>2. v # u
    BY <2>1 DEF LoginWrites, Checking, LoginInv, OneChecker
  <2> QED
    BY <2>1, <2>2 DEF LoginWrites, LoginInv, LoginCurrent
<1>5. ReadUnlocked'
  BY <1>1 DEF ReadUnlocked, LoginInv, LoginWrites
<1> QED BY <1>3, <1>4, <1>5

LEMMA LoginFailsKeeps ==
  ASSUME LoginInv, NEW a \in Attempts, LoginFails(a)
  PROVE  LoginInv'
<1> DEFINE u == asks[a].user
           failed == account[a].failed + 1
           locks == failed >= FailedLoginLimit
<1>1. /\ loginPc[a] = "checking" /\ asks[a] \in LoginAsked /\ account[a] \in LoginCopied
      /\ failedAttempts' = [failedAttempts EXCEPT ![u] =
           Column(@, account[a].failed, IF locks THEN 0 ELSE failed)]
      /\ lockedUntil' = [lockedUntil EXCEPT ![u] = IF locks THEN minute + AccountLockMinutes ELSE @]
      /\ streak' = [streak EXCEPT ![u] = IF locks THEN 0 ELSE @ + 1]
      /\ loginPc' = [loginPc EXCEPT ![a] = "wrong"]
      /\ UNCHANGED <<passwordOf, changeRequired, minute, asks, account, loginRaced>>
  BY LoginSessions DEF LoginFails, LoginInv
<1>2. u \in Accounts /\ account[a].failed \in Nat
  BY <1>1 DEF LoginAsked, LoginCopied
<1>3. LoginTypeOK'
  BY <1>1, <1>2, LoginAssumption DEF LoginInv, LoginTypeOK, Column
<1>4. LoginWrites(a, u)
  BY <1>1 DEF LoginWrites
<1>5. OneChecker' /\ LoginCurrent' /\ ReadUnlocked'
  BY <1>1, <1>2, <1>3, <1>4, LoginWriteLeaves DEF LoginInv, LoginTypeOK
<1>6. CountsConsecutive'
  <2> SUFFICES ASSUME NEW v \in Accounts, ~loginRaced[v]
               PROVE  failedAttempts'[v] = streak'[v] /\ streak'[v] < FailedLoginLimit
    BY <1>1 DEF CountsConsecutive
  <2>1. CASE v # u
    BY <1>1, <2>1 DEF LoginInv, LoginTypeOK, CountsConsecutive
  <2>2. CASE v = u
    <3>1. account[a].failed = failedAttempts[u] /\ failedAttempts[u] = streak[u]
      BY <1>1, <1>2, <2>2 DEF LoginInv, LoginCurrent, Checking, CountsConsecutive
    <3> QED
      BY <1>1, <1>2, <2>2, <3>1, LoginAssumption DEF LoginInv, LoginTypeOK, Column
  <2> QED BY <2>1, <2>2
<1> QED
  BY <1>3, <1>5, <1>6 DEF LoginInv

LEMMA LoginEntersKeeps ==
  ASSUME LoginInv, NEW a \in Attempts, LoginEnters(a)
  PROVE  LoginInv'
<1> DEFINE u == asks[a].user
<1>1. /\ loginPc[a] = "checking" /\ asks[a] \in LoginAsked /\ account[a] \in LoginCopied
      /\ failedAttempts' = [failedAttempts EXCEPT ![u] = Column(@, account[a].failed, 0)]
      /\ lockedUntil' = [lockedUntil EXCEPT ![u] = Column(@, account[a].until, 0)]
      /\ streak' = [streak EXCEPT ![u] = 0]
      /\ loginPc' = [loginPc EXCEPT ![a] = "entered"]
      /\ UNCHANGED <<passwordOf, changeRequired, minute, asks, account, loginRaced>>
  BY LoginSessions DEF LoginEnters, LoginInv
<1>2. u \in Accounts
  BY <1>1 DEF LoginAsked
<1>3. LoginTypeOK'
  BY <1>1, <1>2 DEF LoginInv, LoginTypeOK, Column
<1>4. LoginWrites(a, u)
  BY <1>1 DEF LoginWrites
<1>5. OneChecker' /\ LoginCurrent' /\ ReadUnlocked'
  BY <1>1, <1>2, <1>3, <1>4, LoginWriteLeaves DEF LoginInv, LoginTypeOK
<1>6. CountsConsecutive'
  BY <1>1, <1>2, LoginAssumption
  DEF LoginInv, LoginTypeOK, CountsConsecutive, LoginCurrent, Checking, Column
<1> QED
  BY <1>3, <1>5, <1>6 DEF LoginInv

LEMMA PasswordChangeKeeps ==
  ASSUME LoginInv, NEW a \in Attempts, ChangeCommit(a)
  PROVE  LoginInv'
<1> DEFINE u == asks[a].user
<1>1. /\ loginPc[a] = "checking" /\ asks[a] \in LoginAsked
      /\ passwordOf' = [passwordOf EXCEPT ![u] = asks[a].new]
      /\ changeRequired' = [changeRequired EXCEPT ![u] = Column(@, account[a].required, FALSE)]
      /\ loginPc' = [loginPc EXCEPT ![a] = "changed"]
      /\ UNCHANGED <<failedAttempts, lockedUntil, minute, asks, account, streak, loginRaced>>
  BY LoginSessions DEF ChangeCommit, LoginInv
<1>2. u \in Accounts /\ asks[a].new \in Passwords
  BY <1>1 DEF LoginAsked
<1>3. LoginTypeOK'
  BY <1>1, <1>2 DEF LoginInv, LoginTypeOK, Column
<1>4. LoginWrites(a, u)
  BY <1>1 DEF LoginWrites
<1>5. OneChecker' /\ LoginCurrent' /\ ReadUnlocked'
  BY <1>1, <1>2, <1>3, <1>4, LoginWriteLeaves DEF LoginInv, LoginTypeOK
<1>6. CountsConsecutive'
  BY <1>1 DEF LoginInv, CountsConsecutive
<1> QED
  BY <1>3, <1>5, <1>6 DEF LoginInv

(* Refusals, errors and the clock leave the accounts alone.                *)
LEMMA LoginRestKeeps ==
  ASSUME LoginInv,
         \/ \E a \in Attempts : LoginEnds(a) \/ \E u \in Accounts : LoginLocked(a, u)
         \/ LoginTick
         \/ UNCHANGED loginVars
  PROVE  LoginInv'
<1>1. /\ UNCHANGED <<userRows, asks, account, streak, loginRaced>>
      /\ minute' \in 1..MaxMinute /\ minute <= minute'
      /\ \A b \in Attempts : loginPc'[b] \in {loginPc[b], "ended", "locked"}
      /\ loginPc' \in [Attempts -> {"idle", "checking", "locked", "wrong", "entered", "changed", "ended"}]
  BY LoginAssumption DEF LoginEnds, LoginLocked, LoginTick, loginVars, LoginInv, LoginTypeOK
<1>2. LoginTypeOK'
  BY <1>1 DEF LoginInv, LoginTypeOK, userRows
<1>3. \A b \in Attempts, v \in Accounts : Checking(b, v)' => Checking(b, v)
  BY <1>1 DEF Checking
<1>4. OneChecker' /\ LoginCurrent' /\ CountsConsecutive'
  BY <1>1, <1>3 DEF LoginInv, OneChecker, LoginCurrent, CountsConsecutive, userRows
<1>5. ReadUnlocked'
  <2> SUFFICES ASSUME NEW a \in Attempts, loginPc'[a] = "checking", asks'[a].op = "login"
               PROVE  account'[a].until <= minute'
    BY DEF ReadUnlocked
  <2>1. loginPc[a] = "checking" /\ account[a].until <= minute
    BY <1>1 DEF LoginInv, ReadUnlocked
  <2>2. account[a].until \in Nat
    BY <2>1, LoginSessions DEF LoginInv, LoginCopied
  <2> QED
    BY <1>1, <2>1, <2>2 DEF LoginInv, LoginTypeOK
<1> QED
  BY <1>2, <1>4, <1>5 DEF LoginInv

LEMMA StepLoginInv == LoginInv /\ [LoginNext]_loginVars => LoginInv'
<1> SUFFICES ASSUME LoginInv, [LoginNext]_loginVars PROVE LoginInv'
  OBVIOUS
<1>1. ASSUME NEW a \in Attempts, NEW u \in Accounts, NEW p \in Passwords, LoginRead(a, u, p)
      PROVE  LoginInv'
  BY <1>1, LoginReadKeeps DEF LoginRead, LoginAsked
<1>2. ASSUME NEW a \in Attempts, NEW u \in Accounts, NEW p \in Passwords, NEW new \in Passwords,
             ChangeRead(a, u, p, new)
      PROVE  LoginInv'
  BY <1>2, LoginReadKeeps DEF ChangeRead, LoginAsked
<1> QED
  BY <1>1, <1>2, LoginFailsKeeps, LoginEntersKeeps, PasswordChangeKeeps, LoginRestKeeps
  DEF LoginNext

LEMMA LoginInvariance == LoginSpec => []LoginInv
BY InitLoginInv, StepLoginInv, PTL DEF LoginSpec

-------------------------------------------------------------------------------
(* Accounts and sessions keep their types.                                 *)
THEOREM LoginTypes == LoginSpec => []LoginTypeOK
BY LoginInvariance, PTL DEF LoginInv

(* Where calls do not overlap, the counter counts the failures in a row    *)
(* and stays below the limit.                                              *)
THEOREM FailuresCounted == LoginSpec => []CountsConsecutive
BY LoginInvariance, PTL DEF LoginInv

(* Where calls do not overlap, whoever enters typed the password of that   *)
(* moment on an account that is not locked, and a lock lasts its time.     *)
THEOREM Earned == LoginSpec => EntriesAreEarned
<1> DEFINE Fair == /\ \A a \in Attempts :
                        loginPc'[a] = "entered" /\ loginPc[a] # "entered" /\ ~loginRaced'[asks'[a].user] =>
                          /\ asks'[a].typed = passwordOf[asks'[a].user]
                          /\ ~Locked(asks'[a].user)
                   /\ \A u \in Accounts : Locked(u) /\ ~loginRaced'[u] =>
                        lockedUntil'[u] = lockedUntil[u]
<1>1. LoginInv /\ [LoginNext]_loginVars => [Fair]_loginVars
  <2> SUFFICES ASSUME LoginInv, LoginNext PROVE Fair
    OBVIOUS
  <2>1. ASSUME NEW a \in Attempts, loginPc[a] = "checking", asks[a].op = "login",
               ~loginRaced[asks[a].user]
        PROVE  /\ asks[a].user \in Accounts
               /\ account[a].password = passwordOf[asks[a].user]
               /\ ~Locked(asks[a].user)
    <3>1. asks[a].user \in Accounts /\ account[a].until \in Nat
      BY <2>1, LoginSessions DEF LoginInv, LoginAsked, LoginCopied
    <3>2. Checking(a, asks[a].user)
      BY <2>1 DEF Checking
    <3>3. account[a].until = lockedUntil[asks[a].user] /\ account[a].until <= minute
      BY <2>1, <3>1, <3>2 DEF LoginInv, LoginCurrent, ReadUnlocked
    <3> QED
      BY <2>1, <3>1, <3>2, <3>3 DEF LoginInv, LoginCurrent, Locked, LoginTypeOK
  <2>2. ASSUME NEW a \in Attempts, LoginFails(a) \/ LoginEnters(a)
        PROVE  Fair
    <3>1. /\ loginPc[a] = "checking" /\ asks[a].op = "login"
          /\ loginRaced' = loginRaced /\ asks' = asks
          /\ \A v \in Accounts \ {asks[a].user} : lockedUntil'[v] = lockedUntil[v]
          /\ \A b \in Attempts \ {a} : loginPc'[b] = loginPc[b]
          /\ loginPc'[a] = "entered" => Right(a)
      BY <2>2 DEF LoginFails, LoginEnters, LoginInv, LoginTypeOK
    <3> QED
      BY <2>1, <3>1 DEF Right
  <2>3. CASE \E a \in Attempts :
               \/ ChangeCommit(a) \/ LoginEnds(a)
               \/ \E u \in Accounts : LoginLocked(a, u)
               \/ \E u \in Accounts, p \in Passwords : LoginRead(a, u, p)
               \/ \E u \in Accounts, p, new \in Passwords : ChangeRead(a, u, p, new)
    <3> PICK a \in Attempts :
               \/ ChangeCommit(a) \/ LoginEnds(a)
               \/ \E u \in Accounts : LoginLocked(a, u)
               \/ \E u \in Accounts, p \in Passwords : LoginRead(a, u, p)
               \/ \E u \in Accounts, p, new \in Passwords : ChangeRead(a, u, p, new)
      BY <2>3
    <3>1. /\ lockedUntil' = lockedUntil
          /\ \E end \in {"changed", "ended", "locked", "checking"} :
               loginPc' = [loginPc EXCEPT ![a] = end]
      BY DEF ChangeCommit, LoginEnds, LoginLocked, LoginRead, ChangeRead, ReadAccount, userRows
    <3>2. \A b \in Attempts : loginPc'[b] \in {loginPc[b], "changed", "ended", "locked", "checking"}
      BY <3>1 DEF LoginInv, LoginTypeOK
    <3> QED
      BY <3>1, <3>2
  <2>4. CASE LoginTick
    BY <2>4 DEF LoginTick, userRows
  <2> QED
    BY <2>2, <2>3, <2>4 DEF LoginNext
<1>2. LoginSpec => [][Fair]_loginVars
  BY <1>1, LoginInvariance, PTL DEF LoginSpec
<1> QED
  BY <1>2 DEF EntriesAreEarned

-------------------------------------------------------------------------------
(* Permissions: any staff, roles and calls.                                *)

PermissionOps == {"seed", "create", "grant", "revoke", "update"}
PermissionOrders == [op : PermissionOps, user : Staff, role : Roles]
LogEntries == [no : Nat, user : Staff, from : Roles \cup {NoRole}, to : Roles \cup {NoRole}]
OwnsUser(d, u) == changePc[d] = "done" /\ change[d].user = u

(* A binding has the name of the finished call that inserted it, which     *)
(* tells its user; no two have one name, or one user and role.             *)
BindingsOK ==
  /\ \A b \in roleBindings : OwnsUser(b.id, b.user) /\ b.user \in users
  /\ \A a, b \in roleBindings : a.id = b.id \/ (a.user = b.user /\ a.role = b.role) => a = b
  /\ \A u \in Staff, r \in Roles : <<u, r>> \in born => u \in users

(* The log is numbered in the order of its entries.                        *)
LogOK ==
  /\ IsFiniteSet(permissionLog)
  /\ \A e \in permissionLog : e.user \in users /\ e.no <= Cardinality(permissionLog)

(* What a call in flight asks, and what it has read.                       *)
ChangeSessions ==
  \A c \in Changes : Ready(c) =>
    /\ change[c] \in PermissionOrders
    /\ change[c].op \in {"grant", "revoke", "update"} => change[c].user \in users
    /\ change[c].op \in {"revoke", "update"} =>
         /\ found[c] \in Binding /\ found[c].user = change[c].user
         /\ OwnsUser(found[c].id, change[c].user)
    /\ change[c].op = "revoke" => found[c].role = change[c].role
    /\ change[c].op = "update" => found[c].role # change[c].role

(* Two calls that rebind one user have marked it as raced; the binding a   *)
(* call that is alone has read is still there.                             *)
ChangeAlone ==
  \A c, d \in Changes, u \in Staff : Rebinding(c, u) /\ Rebinding(d, u) /\ c # d => roleRaced[u]
ChangeCurrent ==
  \A c \in Changes, u \in Staff :
    Rebinding(c, u) /\ change[c].op # "grant" /\ ~roleRaced[u] => found[c] \in roleBindings

(* A bootstrap that does not overlap is alone and has seen the truth.      *)
BootAlone ==
  \A c \in Changes : Ready(c) /\ change[c].op = "seed" /\ ~bootRaced =>
    Administrators = {} /\ \A d \in Changes : Ready(d) => d = c

PermissionInv ==
  /\ PermissionTypeOK /\ BindingsOK /\ LogOK /\ ChangeSessions /\ ChangeAlone /\ ChangeCurrent /\ BootAlone
  /\ LogReplays /\ RolesAreGranted

LEMMA InitPermissionInv == PermissionInit => PermissionInv
<1> SUFFICES ASSUME PermissionInit PROVE PermissionInv
  OBVIOUS
<1>1. /\ users = {} /\ roleBindings = {} /\ permissionLog = {} /\ born = {}
      /\ \A c \in Changes : ~Ready(c)
  BY DEF PermissionInit, Ready
<1>2. PermissionTypeOK
  BY <1>1 DEF PermissionInit, PermissionTypeOK
<1>3. LogOK
  BY <1>1, FS_EmptySet DEF LogOK
<1>4. BindingsOK /\ ChangeSessions /\ ChangeAlone /\ ChangeCurrent /\ BootAlone
  BY <1>1 DEF BindingsOK, ChangeSessions, ChangeAlone, ChangeCurrent, BootAlone, Rebinding
<1>5. LogReplays /\ RolesAreGranted
  BY <1>1 DEF LogReplays, RolesAreGranted, Entries, Bound
<1> QED
  BY <1>2, <1>3, <1>4, <1>5 DEF PermissionInv

-------------------------------------------------------------------------------
(* What a call changes when it starts.                                     *)
ChangeStarts(c, order, accepted) ==
  /\ changePc[c] = "idle"
  /\ changePc' = [changePc EXCEPT ![c] = IF accepted THEN "ready" ELSE "refused"]
  /\ change' = [change EXCEPT ![c] = order]
  /\ UNCHANGED <<users, roleBindings, permissionLog, born>>

LEMMA ChangeStartLeaves ==
  ASSUME PermissionInv, NEW c \in Changes, NEW order \in PermissionOrders, NEW accepted \in BOOLEAN,
         ChangeStarts(c, order, accepted), found' \in [Changes -> {NoBinding} \cup Binding],
         \A d \in Changes \ {c} : found'[d] = found[d],
         roleRaced' \in [Staff -> BOOLEAN], \A u \in Staff : roleRaced[u] => roleRaced'[u],
         bootRaced' \in BOOLEAN
  PROVE  /\ PermissionTypeOK' /\ BindingsOK' /\ LogOK' /\ LogReplays' /\ RolesAreGranted'
         /\ changePc'[c] = (IF accepted THEN "ready" ELSE "refused") /\ change'[c] = order
         /\ Ready(c)' = accepted /\ ~Ready(c)
         /\ \A d \in Changes \ {c} : /\ changePc'[d] = changePc[d] /\ change'[d] = change[d]
                                     /\ Ready(d)' <=> Ready(d)
         /\ \A d \in Changes, u \in Staff : OwnsUser(d, u) => OwnsUser(d, u)'
<1>1. /\ changePc[c] = "idle"
      /\ changePc' = [changePc EXCEPT ![c] = IF accepted THEN "ready" ELSE "refused"]
      /\ change' = [change EXCEPT ![c] = order]
      /\ UNCHANGED <<users, roleBindings, permissionLog, born>>
  BY DEF ChangeStarts
<1>2. /\ changePc'[c] = (IF accepted THEN "ready" ELSE "refused") /\ change'[c] = order
      /\ \A d \in Changes \ {c} : changePc'[d] = changePc[d] /\ change'[d] = change[d]
  BY <1>1 DEF PermissionInv, PermissionTypeOK
<1>3. PermissionTypeOK'
  <2>1. changePc' \in [Changes -> {"idle", "refused", "ready", "done", "failed"}]
    BY <1>1 DEF PermissionInv, PermissionTypeOK
  <2>2. change' \in [Changes -> {NoChange} \cup
           [op : {"seed", "create", "grant", "revoke", "update"}, user : Staff, role : Roles]]
    BY <1>1 DEF PermissionInv, PermissionTypeOK, PermissionOrders, PermissionOps
  <2> QED
    BY <1>1, <2>1, <2>2 DEF PermissionInv, PermissionTypeOK, Binding
<1>4. \A d \in Changes, u \in Staff : OwnsUser(d, u) => OwnsUser(d, u)'
  BY <1>1, <1>2 DEF OwnsUser
<1>5. BindingsOK'
  <2>1. \A b \in roleBindings : b.id \in Changes /\ b.user \in Staff
    BY DEF PermissionInv, PermissionTypeOK, Binding
  <2> QED
    BY <1>1, <1>4, <2>1 DEF PermissionInv, BindingsOK
<1>6. LogOK' /\ LogReplays' /\ RolesAreGranted'
  BY <1>1 DEF PermissionInv, LogOK, LogReplays, RolesAreGranted, Entries, Bound
<1>7. Ready(c)' = accepted /\ ~Ready(c) /\ \A d \in Changes \ {c} : Ready(d)' <=> Ready(d)
  BY <1>1, <1>2 DEF Ready
<1> QED
  BY <1>2, <1>3, <1>4, <1>5, <1>6, <1>7

LEMMA SeedKeeps ==
  ASSUME PermissionInv, NEW c \in Changes, NEW u \in Staff, SeedStart(c, u)
  PROVE  PermissionInv'
<1> DEFINE order == [op |-> "seed", user |-> u, role |-> "op_admin"]
           accepted == Administrators = {}
<1>1. order \in PermissionOrders /\ accepted \in BOOLEAN
  BY RolesAssumption DEF PermissionOrders, PermissionOps
<1>2. /\ ChangeStarts(c, order, accepted)
      /\ bootRaced' = (bootRaced \/ \E d \in Changes : Ready(d))
      /\ UNCHANGED <<found, roleRaced, roleBindings>>
  BY DEF SeedStart, Start, ChangeStarts, permissionTables
<1>3. Administrators' = Administrators
  BY <1>2 DEF Administrators, Bound
<1> HIDE DEF accepted, order
<1>4. /\ PermissionTypeOK' /\ BindingsOK' /\ LogOK' /\ LogReplays' /\ RolesAreGranted'
      /\ change'[c] = order /\ Ready(c)' = accepted /\ ~Ready(c)
      /\ \A d \in Changes \ {c} : change'[d] = change[d] /\ (Ready(d)' <=> Ready(d))
      /\ \A d \in Changes, v \in Staff : OwnsUser(d, v) => OwnsUser(d, v)'
  BY <1>1, <1>2, ChangeStartLeaves DEF PermissionInv, PermissionTypeOK
<1>5. ChangeSessions'
  <2>1. \A d \in Changes : Ready(d) /\ change[d].op \in {"revoke", "update"} =>
          found[d].id \in Changes /\ change[d].user \in Staff
    BY DEF PermissionInv, ChangeSessions, Binding, PermissionOrders
  <2>2. users' = users
    BY <1>2 DEF ChangeStarts
  <2> QED
    BY <1>1, <1>2, <1>4, <2>1, <2>2 DEF PermissionInv, ChangeSessions, order
<1>6. ChangeAlone' /\ ChangeCurrent'
  BY <1>2, <1>4 DEF PermissionInv, ChangeAlone, ChangeCurrent, Rebinding, order
<1>7. BootAlone'
  BY <1>2, <1>3, <1>4 DEF PermissionInv, BootAlone, accepted
<1> QED
  BY <1>4, <1>5, <1>6, <1>7 DEF PermissionInv

LEMMA CreateUserKeeps ==
  ASSUME PermissionInv, NEW c \in Changes, NEW u \in Staff, NEW r \in Roles, CreateStart(c, u, r)
  PROVE  PermissionInv'
<1> DEFINE order == [op |-> "create", user |-> u, role |-> r]
<1>1. order \in PermissionOrders
  BY DEF PermissionOrders, PermissionOps
<1>2. /\ ChangeStarts(c, order, TRUE) /\ Administrators # {}
      /\ UNCHANGED <<found, roleRaced, bootRaced, roleBindings, users>>
  BY DEF CreateStart, Start, ChangeStarts, permissionTables
<1> HIDE DEF order
<1>3. /\ PermissionTypeOK' /\ BindingsOK' /\ LogOK' /\ LogReplays' /\ RolesAreGranted'
      /\ change'[c] = order /\ ~Ready(c)
      /\ \A d \in Changes \ {c} : change'[d] = change[d] /\ (Ready(d)' <=> Ready(d))
      /\ \A d \in Changes, v \in Staff : OwnsUser(d, v) => OwnsUser(d, v)'
  BY <1>1, <1>2, ChangeStartLeaves DEF PermissionInv, PermissionTypeOK
<1>4. ChangeSessions'
  <2>1. \A d \in Changes : Ready(d) /\ change[d].op \in {"revoke", "update"} =>
          found[d].id \in Changes /\ change[d].user \in Staff
    BY DEF PermissionInv, ChangeSessions, Binding, PermissionOrders
  <2> QED
    BY <1>1, <1>2, <1>3, <2>1 DEF PermissionInv, ChangeSessions, order
<1>5. ChangeAlone' /\ ChangeCurrent'
  BY <1>2, <1>3 DEF PermissionInv, ChangeAlone, ChangeCurrent, Rebinding, order
<1>6. BootAlone'
  BY <1>2, <1>3 DEF PermissionInv, BootAlone, order
<1> QED
  BY <1>3, <1>4, <1>5, <1>6 DEF PermissionInv

LEMMA RebindKeeps ==
  ASSUME PermissionInv, NEW c \in Changes, NEW op \in {"grant", "revoke", "update"},
         NEW u \in Staff, NEW r \in Roles, NEW b \in {NoBinding} \cup Binding,
         NEW accepted \in BOOLEAN, Rebind(c, op, u, r, b, accepted),
         accepted => u \in users,
         accepted /\ op # "grant" => b \in roleBindings /\ b.user = u,
         accepted /\ op = "revoke" => b.role = r,
         accepted /\ op = "update" => b.role # r
  PROVE  PermissionInv'
<1> DEFINE order == [op |-> op, user |-> u, role |-> r]
<1>1. order \in PermissionOrders /\ order.op = op /\ order.user = u /\ order.role = r
  BY DEF PermissionOrders, PermissionOps
<1>2. /\ ChangeStarts(c, order, accepted) /\ Administrators # {}
      /\ found' = [found EXCEPT ![c] = b]
      /\ roleRaced' = [roleRaced EXCEPT ![u] = @ \/ (accepted /\ \E d \in Changes : Rebinding(d, u))]
      /\ UNCHANGED <<bootRaced, roleBindings, users>>
  BY DEF Rebind, Start, ChangeStarts, permissionTables
<1> HIDE DEF order
<1>3. /\ found' \in [Changes -> {NoBinding} \cup Binding] /\ found'[c] = b
      /\ \A d \in Changes \ {c} : found'[d] = found[d]
  BY <1>2 DEF PermissionInv, PermissionTypeOK
<1>4. /\ roleRaced' \in [Staff -> BOOLEAN] /\ \A v \in Staff : roleRaced[v] => roleRaced'[v]
      /\ accepted /\ (\E d \in Changes : Rebinding(d, u)) => roleRaced'[u]
  BY <1>2 DEF PermissionInv, PermissionTypeOK
<1>5. /\ PermissionTypeOK' /\ BindingsOK' /\ LogOK' /\ LogReplays' /\ RolesAreGranted'
      /\ change'[c] = order /\ Ready(c)' = accepted /\ ~Ready(c)
      /\ \A d \in Changes \ {c} : change'[d] = change[d] /\ (Ready(d)' <=> Ready(d))
      /\ \A d \in Changes, v \in Staff : OwnsUser(d, v) => OwnsUser(d, v)'
  BY <1>1, <1>2, <1>3, <1>4, ChangeStartLeaves DEF PermissionInv, PermissionTypeOK
<1>6. ChangeSessions'
  <2>1. \A d \in Changes : Ready(d) /\ change[d].op \in {"revoke", "update"} =>
          found[d].id \in Changes /\ change[d].user \in Staff
    BY DEF PermissionInv, ChangeSessions, Binding, PermissionOrders
  <2>2. accepted /\ op # "grant" => b \in Binding /\ b.id \in Changes /\ OwnsUser(b.id, u)
    BY DEF PermissionInv, BindingsOK, PermissionTypeOK, Binding
  <2>3. ASSUME NEW d \in Changes \ {c}, Ready(d)'
        PROVE  /\ change'[d] \in PermissionOrders
               /\ change'[d].op \in {"grant", "revoke", "update"} => change'[d].user \in users
               /\ change'[d].op \in {"revoke", "update"} =>
                    /\ found'[d] \in Binding /\ found'[d].user = change'[d].user
                    /\ (OwnsUser(found[d].id, change[d].user))'
               /\ change'[d].op = "revoke" => found'[d].role = change'[d].role
               /\ change'[d].op = "update" => found'[d].role # change'[d].role
    <3>1. Ready(d) /\ change'[d] = change[d] /\ found'[d] = found[d]
      BY <1>3, <1>5, <2>3
    <3>2. change[d].op \in {"revoke", "update"} => OwnsUser(found[d].id, change[d].user)'
      BY <1>5, <2>1, <3>1 DEF PermissionInv, ChangeSessions
    <3> QED
      BY <3>1, <3>2 DEF PermissionInv, ChangeSessions, OwnsUser
  <2>4. Ready(c)' =>
               /\ change'[c] \in PermissionOrders
               /\ change'[c].op \in {"grant", "revoke", "update"} => change'[c].user \in users
               /\ change'[c].op \in {"revoke", "update"} =>
                    /\ found'[c] \in Binding /\ found'[c].user = change'[c].user
                    /\ (OwnsUser(found[c].id, change[c].user))'
               /\ change'[c].op = "revoke" => found'[c].role = change'[c].role
               /\ change'[c].op = "update" => found'[c].role # change'[c].role
    <3>1. accepted /\ op # "grant" => OwnsUser(b.id, u)'
      BY <1>5, <2>2
    <3> QED
      BY <1>1, <1>3, <1>5, <2>2, <3>1 DEF OwnsUser
  <2> QED
    BY <1>2, <2>3, <2>4 DEF ChangeSessions
<1>7. /\ \A d \in Changes \ {c}, v \in Staff : Rebinding(d, v)' <=> Rebinding(d, v)
      /\ \A v \in Staff : Rebinding(c, v)' => v = u /\ accepted
  BY <1>1, <1>5 DEF Rebinding
<1>8. ChangeAlone'
  <2> SUFFICES ASSUME NEW d \in Changes, NEW e \in Changes, NEW v \in Staff,
                      Rebinding(d, v)', Rebinding(e, v)', d # e
               PROVE  roleRaced'[v]
    BY DEF ChangeAlone
  <2>1. CASE d # c /\ e # c
    BY <1>4, <1>7, <2>1 DEF PermissionInv, ChangeAlone
  <2>2. CASE d = c
    BY <1>4, <1>7, <2>2
  <2>3. CASE e = c
    BY <1>4, <1>7, <2>3
  <2> QED BY <2>1, <2>2, <2>3
<1>9. ChangeCurrent'
  <2> SUFFICES ASSUME NEW d \in Changes, NEW v \in Staff,
                      Rebinding(d, v)', change'[d].op # "grant", ~roleRaced'[v]
               PROVE  found'[d] \in roleBindings'
    BY DEF ChangeCurrent
  <2>1. CASE d # c
    BY <1>2, <1>3, <1>4, <1>5, <1>7, <2>1 DEF PermissionInv, ChangeCurrent
  <2>2. CASE d = c
    BY <1>1, <1>2, <1>3, <1>5, <1>7, <2>2
  <2> QED BY <2>1, <2>2
<1>10. BootAlone'
  BY <1>1, <1>2, <1>5 DEF PermissionInv, BootAlone
<1> QED
  BY <1>5, <1>6, <1>8, <1>9, <1>10 DEF PermissionInv

-------------------------------------------------------------------------------
(* A call that ends leaves the others as they are.                         *)
LEMMA ChangeFinishLeaves ==
  ASSUME PermissionInv, NEW c \in Changes, NEW outcome \in {"done", "failed"}, Finish(c, outcome)
  PROVE  /\ Ready(c) /\ UNCHANGED <<change, found, roleRaced, bootRaced>>
         /\ changePc' \in [Changes -> {"idle", "refused", "ready", "done", "failed"}]
         /\ outcome = "done" => OwnsUser(c, change[c].user)'
         /\ \A d \in Changes : Ready(d)' => Ready(d) /\ d # c
         /\ \A d \in Changes, u \in Staff : OwnsUser(d, u) => OwnsUser(d, u)'
         /\ \A d \in Changes, u \in Staff : Rebinding(d, u)' => Rebinding(d, u) /\ d # c
         /\ ChangeAlone' /\ BootAlone'
<1>1. /\ Ready(c) /\ changePc' = [changePc EXCEPT ![c] = outcome]
      /\ UNCHANGED <<change, found, roleRaced, bootRaced>>
  BY DEF Finish
<1>2. /\ changePc'[c] = outcome /\ \A d \in Changes \ {c} : changePc'[d] = changePc[d]
      /\ changePc' \in [Changes -> {"idle", "refused", "ready", "done", "failed"}]
  BY <1>1 DEF PermissionInv, PermissionTypeOK
<1>3. \A d \in Changes : Ready(d)' => Ready(d) /\ d # c
  BY <1>2 DEF Ready
<1>4. \A d \in Changes, u \in Staff : Rebinding(d, u)' => Rebinding(d, u) /\ d # c
  BY <1>1, <1>3 DEF Rebinding
<1>5. ChangeAlone'
  BY <1>1, <1>4 DEF PermissionInv, ChangeAlone
<1>6. BootAlone'
  BY <1>1, <1>3 DEF PermissionInv, BootAlone
<1>7. /\ outcome = "done" => OwnsUser(c, change[c].user)'
      /\ \A d \in Changes, u \in Staff : OwnsUser(d, u) => OwnsUser(d, u)'
  BY <1>1, <1>2 DEF OwnsUser, Ready
<1> QED
  BY <1>1, <1>2, <1>3, <1>4, <1>5, <1>6, <1>7

(* Sessions and what they have read survive a commit that takes no user    *)
(* away and removes no binding another lone call has found.                *)
LEMMA ChangeSessionsStay ==
  ASSUME PermissionInv, NEW c \in Changes, NEW outcome \in {"done", "failed"}, Finish(c, outcome),
         users \subseteq users',
         \A b \in roleBindings \ roleBindings' : Rebinding(c, b.user)
  PROVE  ChangeSessions' /\ ChangeCurrent'
<1>1. /\ Ready(c) /\ UNCHANGED <<change, found, roleRaced>>
      /\ \A d \in Changes : Ready(d)' => Ready(d) /\ d # c
      /\ \A d \in Changes, u \in Staff : OwnsUser(d, u) => OwnsUser(d, u)'
      /\ \A d \in Changes, u \in Staff : Rebinding(d, u)' => Rebinding(d, u) /\ d # c
  BY ChangeFinishLeaves
<1>2. ChangeSessions'
  <2>1. \A d \in Changes : Ready(d) /\ change[d].op \in {"revoke", "update"} =>
          found[d].id \in Changes /\ change[d].user \in Staff
    BY DEF PermissionInv, ChangeSessions, Binding, PermissionOrders
  <2> QED
    BY <1>1, <2>1 DEF PermissionInv, ChangeSessions
<1>3. ChangeCurrent'
  <2> SUFFICES ASSUME NEW d \in Changes, NEW u \in Staff,
                      Rebinding(d, u)', change[d].op # "grant", ~roleRaced[u]
               PROVE  found[d] \in roleBindings'
    BY <1>1 DEF ChangeCurrent
  <2>1. Rebinding(d, u) /\ d # c /\ found[d] \in roleBindings
    BY <1>1 DEF PermissionInv, ChangeCurrent
  <2>2. found[d].user = u
    BY <2>1 DEF Rebinding, PermissionInv, ChangeSessions
  <2> QED
    BY <2>1, <2>2 DEF PermissionInv, ChangeAlone
<1> QED BY <1>2, <1>3

(* The log grows by an entry that is its latest.                           *)
LEMMA LogGrows ==
  ASSUME PermissionInv, NEW u \in Staff, u \in users, users \subseteq users',
         NEW from \in Roles \cup {NoRole}, NEW to \in Roles \cup {NoRole}, Log(u, from, to)
  PROVE  /\ LogOK' /\ permissionLog' \subseteq LogEntries
         /\ \E e \in LogEntries : /\ permissionLog' = permissionLog \cup {e}
                             /\ e.user = u /\ e.from = from /\ e.to = to
                             /\ \A f \in permissionLog : f.no < e.no
<1> DEFINE n == Cardinality(permissionLog)
           e == [no |-> n + 1, user |-> u, from |-> from, to |-> to]
<1>1. n \in Nat /\ permissionLog \subseteq LogEntries /\ IsFiniteSet(permissionLog)
  BY FS_CardinalityType DEF PermissionInv, LogOK, PermissionTypeOK, LogEntries
<1>2. e \in LogEntries /\ permissionLog' = permissionLog \cup {e}
  BY <1>1 DEF LogEntries, Log
<1>3. \A f \in permissionLog : f.no \in Nat /\ f.no <= n
  BY <1>1 DEF PermissionInv, LogOK, LogEntries
<1>4. e \notin permissionLog
  BY <1>1, <1>3
<1>5. IsFiniteSet(permissionLog') /\ Cardinality(permissionLog') = n + 1
  BY <1>1, <1>2, <1>4, FS_AddElement
<1>6. LogOK'
  <2>1. \A f \in permissionLog' : f.user \in users' /\ f.no <= n + 1
    BY <1>1, <1>2, <1>3 DEF PermissionInv, LogOK
  <2> QED
    BY <1>5, <2>1 DEF LogOK
<1> QED
  BY <1>1, <1>2, <1>3, <1>6

(* The log still replays when the roles of the new entry are as it says,   *)
(* if the user is not raced, and all else is as it was.                    *)
LEMMA Replays ==
  ASSUME PermissionInv, NEW e \in LogEntries, permissionLog' = permissionLog \cup {e},
         \A f \in permissionLog : f.no < e.no, UNCHANGED <<roleRaced, born>>,
         \A v \in Staff, r \in Roles :
           IF v = e.user /\ r \in {e.from, e.to}
           THEN ~roleRaced[v] => (Bound(v, r)' <=> e.to = r)
           ELSE Bound(v, r)' <=> Bound(v, r)
  PROVE  LogReplays'
<1> SUFFICES ASSUME NEW v \in Staff, NEW r \in Roles, ~roleRaced[v]
             PROVE  IF Entries(v, r)' = {}
                    THEN Bound(v, r)' <=> <<v, r>> \in born
                    ELSE \E g \in Entries(v, r)' :
                           /\ \A f \in Entries(v, r)' : f.no <= g.no
                           /\ Bound(v, r)' <=> g.to = r
  BY DEF LogReplays
<1>1. CASE v = e.user /\ r \in {e.from, e.to}
  <2>1. Entries(v, r)' = Entries(v, r) \cup {e}
    BY <1>1 DEF Entries
  <2>2. \A f \in Entries(v, r)' : f.no <= e.no
    BY <2>1 DEF Entries, LogEntries, PermissionInv, PermissionTypeOK
  <2> QED
    BY <1>1, <2>1, <2>2
<1>2. CASE ~(v = e.user /\ r \in {e.from, e.to})
  <2>1. Entries(v, r)' = Entries(v, r)
    BY <1>2 DEF Entries
  <2>2. Bound(v, r)' <=> Bound(v, r)
    BY <1>2
  <2> QED
    BY <2>1, <2>2 DEF PermissionInv, LogReplays
<1> QED BY <1>1, <1>2

-------------------------------------------------------------------------------
LEMMA UserKeeps ==
  ASSUME PermissionInv, NEW c \in Changes, UserCommit(c)
  PROVE  PermissionInv'
<1> DEFINE u == change[c].user
           r == change[c].role
           new == [id |-> c, user |-> u, role |-> r]
<1>1. /\ u \notin users /\ Finish(c, "done") /\ users' = users \cup {u}
      /\ roleBindings' = roleBindings \cup {new} /\ born' = born \cup {<<u, r>>}
      /\ permissionLog' = permissionLog
  BY DEF UserCommit
<1>2. /\ Ready(c) /\ UNCHANGED <<change, found, roleRaced, bootRaced>>
      /\ changePc' \in [Changes -> {"idle", "refused", "ready", "done", "failed"}]
      /\ OwnsUser(c, u)'
      /\ \A d \in Changes, v \in Staff : OwnsUser(d, v) => OwnsUser(d, v)'
      /\ ChangeAlone' /\ BootAlone'
  BY <1>1, ChangeFinishLeaves
<1>3. u \in Staff /\ r \in Roles
  BY <1>2 DEF PermissionInv, ChangeSessions, PermissionOrders
<1>4. /\ new \in Binding /\ new.id = c /\ new.user = u /\ new.role = r
      /\ roleBindings \subseteq Binding
  BY <1>3 DEF Binding, PermissionInv, PermissionTypeOK
<1> HIDE DEF new
<1>5. PermissionTypeOK'
  BY <1>1, <1>2, <1>3, <1>4 DEF PermissionInv, PermissionTypeOK, Binding
<1>6. ChangeSessions' /\ ChangeCurrent'
  BY <1>1, ChangeSessionsStay
<1>7. \A b \in roleBindings : b.id # c /\ b.user # u
  BY <1>1, <1>2 DEF PermissionInv, BindingsOK, OwnsUser, Ready
<1>8. BindingsOK'
  <2>1. \A b \in roleBindings' : OwnsUser(b.id, b.user)' /\ b.user \in users'
    BY <1>1, <1>2, <1>4 DEF PermissionInv, BindingsOK, Binding
  <2>2. \A a, b \in roleBindings' : a.id = b.id \/ (a.user = b.user /\ a.role = b.role) => a = b
    BY <1>1, <1>4, <1>7 DEF PermissionInv, BindingsOK
  <2>3. \A v \in Staff, q \in Roles : <<v, q>> \in born' => v \in users'
    BY <1>1 DEF PermissionInv, BindingsOK
  <2> QED BY <2>1, <2>2, <2>3 DEF BindingsOK
<1>9. LogOK'
  BY <1>1 DEF PermissionInv, LogOK
<1>10. LogReplays'
  <2> SUFFICES ASSUME NEW v \in Staff, NEW q \in Roles, ~roleRaced[v]
               PROVE  IF Entries(v, q) = {}
                      THEN Bound(v, q)' <=> <<v, q>> \in born'
                      ELSE \E e \in Entries(v, q) :
                             /\ \A f \in Entries(v, q) : f.no <= e.no
                             /\ Bound(v, q)' <=> e.to = q
    BY <1>1, <1>2 DEF LogReplays, Entries
  <2>1. CASE v = u
    <3>1. Entries(v, q) = {} /\ <<v, q>> \notin born
      BY <1>1, <2>1 DEF Entries, PermissionInv, LogOK, BindingsOK
    <3>2. Bound(v, q)' <=> q = r
      BY <1>1, <1>4, <1>7, <2>1 DEF Bound
    <3>3. <<v, q>> \in born' <=> q = r
      BY <1>1, <2>1, <3>1
    <3> QED
      BY <3>1, <3>2, <3>3
  <2>2. CASE v # u
    <3>1. (Bound(v, q)' <=> Bound(v, q)) /\ (<<v, q>> \in born' <=> <<v, q>> \in born)
      BY <1>1, <1>4, <2>2 DEF Bound
    <3> QED
      BY <3>1 DEF PermissionInv, LogReplays
  <2> QED BY <2>1, <2>2
<1>11. RolesAreGranted'
  BY <1>1, <1>4 DEF PermissionInv, RolesAreGranted
<1> QED
  BY <1>2, <1>5, <1>6, <1>8, <1>9, <1>10, <1>11 DEF PermissionInv

LEMMA GrantKeeps ==
  ASSUME PermissionInv, NEW c \in Changes, GrantCommit(c)
  PROVE  PermissionInv'
<1> DEFINE u == change[c].user
           r == change[c].role
           new == [id |-> c, user |-> u, role |-> r]
<1>1. /\ change[c].op = "grant" /\ ~Bound(u, r) /\ Finish(c, "done")
      /\ roleBindings' = roleBindings \cup {new} /\ Log(u, NoRole, r)
      /\ users' = users /\ born' = born
  BY DEF GrantCommit
<1>2. /\ Ready(c) /\ UNCHANGED <<change, found, roleRaced, bootRaced>>
      /\ changePc' \in [Changes -> {"idle", "refused", "ready", "done", "failed"}]
      /\ OwnsUser(c, u)'
      /\ \A d \in Changes, v \in Staff : OwnsUser(d, v) => OwnsUser(d, v)'
      /\ ChangeAlone' /\ BootAlone'
  BY <1>1, ChangeFinishLeaves
<1>3. u \in Staff /\ r \in Roles /\ u \in users
  BY <1>1, <1>2 DEF PermissionInv, ChangeSessions, PermissionOrders
<1>4. /\ new \in Binding /\ new.id = c /\ new.user = u /\ new.role = r
      /\ roleBindings \subseteq Binding
  BY <1>3 DEF Binding, PermissionInv, PermissionTypeOK
<1> HIDE DEF new
<1>5. LogOK' /\ permissionLog' \subseteq LogEntries
  BY <1>1, <1>3, LogGrows
<1>6. PICK e \in LogEntries : /\ permissionLog' = permissionLog \cup {e}
                        /\ e.user = u /\ e.from = NoRole /\ e.to = r
                        /\ \A f \in permissionLog : f.no < e.no
  BY <1>1, <1>3, LogGrows
<1>7. PermissionTypeOK'
  BY <1>1, <1>2, <1>3, <1>4, <1>5 DEF PermissionInv, PermissionTypeOK, LogEntries, Binding
<1>8. ChangeSessions' /\ ChangeCurrent'
  BY <1>1, ChangeSessionsStay
<1>9. \A b \in roleBindings : b.id # c /\ ~(b.user = u /\ b.role = r)
  BY <1>1, <1>2 DEF PermissionInv, BindingsOK, OwnsUser, Ready, Bound
<1>10. BindingsOK'
  <2>1. \A b \in roleBindings' : OwnsUser(b.id, b.user)' /\ b.user \in users'
    BY <1>1, <1>2, <1>3, <1>4 DEF PermissionInv, BindingsOK, Binding
  <2>2. \A a, b \in roleBindings' : a.id = b.id \/ (a.user = b.user /\ a.role = b.role) => a = b
    BY <1>1, <1>4, <1>9 DEF PermissionInv, BindingsOK
  <2>3. \A v \in Staff, q \in Roles : <<v, q>> \in born' => v \in users'
    BY <1>1 DEF PermissionInv, BindingsOK
  <2> QED BY <2>1, <2>2, <2>3 DEF BindingsOK
<1>11. LogReplays'
  <2>1. \A v \in Staff, q \in Roles :
          IF v = u /\ q = r THEN Bound(v, q)' ELSE Bound(v, q)' <=> Bound(v, q)
    BY <1>1, <1>4 DEF Bound
  <2>2. \A q \in Roles : q # NoRole
    BY RolesAssumption DEF NoRole
  <2> QED
    BY <1>1, <1>2, <1>6, <2>1, <2>2, Replays
<1>12. RolesAreGranted'
  BY <1>1, <1>4, <1>6 DEF PermissionInv, RolesAreGranted
<1> QED
  BY <1>2, <1>5, <1>7, <1>8, <1>10, <1>11, <1>12 DEF PermissionInv

LEMMA RevokeKeeps ==
  ASSUME PermissionInv, NEW c \in Changes, RevokeCommit(c)
  PROVE  PermissionInv'
<1> DEFINE u == change[c].user
           r == change[c].role
<1>1. /\ change[c].op = "revoke" /\ Finish(c, "done")
      /\ roleBindings' = {b \in roleBindings : b.id # found[c].id} /\ Log(u, r, NoRole)
      /\ users' = users /\ born' = born
  BY DEF RevokeCommit
<1>2. /\ Ready(c) /\ UNCHANGED <<change, found, roleRaced, bootRaced>>
      /\ changePc' \in [Changes -> {"idle", "refused", "ready", "done", "failed"}]
      /\ \A d \in Changes, v \in Staff : OwnsUser(d, v) => OwnsUser(d, v)'
      /\ ChangeAlone' /\ BootAlone'
  BY <1>1, ChangeFinishLeaves
<1>3. /\ u \in Staff /\ r \in Roles /\ u \in users
      /\ found[c] \in Binding /\ found[c].user = u /\ found[c].role = r /\ OwnsUser(found[c].id, u)
  BY <1>1, <1>2 DEF PermissionInv, ChangeSessions, PermissionOrders
<1>4. \A b \in roleBindings : b.id = found[c].id => b.user = u
  BY <1>3 DEF PermissionInv, BindingsOK, OwnsUser
<1>5. LogOK' /\ permissionLog' \subseteq LogEntries
  BY <1>1, <1>3, LogGrows
<1>6. PICK e \in LogEntries : /\ permissionLog' = permissionLog \cup {e}
                        /\ e.user = u /\ e.from = r /\ e.to = NoRole
                        /\ \A f \in permissionLog : f.no < e.no
  BY <1>1, <1>3, LogGrows
<1>7. PermissionTypeOK'
  BY <1>1, <1>2, <1>5 DEF PermissionInv, PermissionTypeOK, LogEntries, Binding
<1>8. ChangeSessions' /\ ChangeCurrent'
  <2>1. \A b \in roleBindings \ roleBindings' : Rebinding(c, b.user)
    BY <1>1, <1>2, <1>4 DEF Rebinding
  <2> QED
    BY <1>1, <2>1, ChangeSessionsStay
<1>9. BindingsOK'
  <2>1. \A b \in roleBindings : b.id \in Changes /\ b.user \in Staff
    BY DEF PermissionInv, PermissionTypeOK, Binding
  <2> QED
    BY <1>1, <1>2, <2>1 DEF PermissionInv, BindingsOK
<1>10. LogReplays'
  <2>1. \A q \in Roles : q # NoRole
    BY RolesAssumption DEF NoRole
  <2>2. ~roleRaced[u] => found[c] \in roleBindings
    BY <1>1, <1>2, <1>3 DEF PermissionInv, ChangeCurrent, Rebinding
  <2>3. ~roleRaced[u] => ~Bound(u, r)'
    BY <1>1, <1>2, <1>3, <2>2 DEF PermissionInv, BindingsOK, Bound
  <2>4. \A v \in Staff, q \in Roles : ~(v = u /\ q = r) /\ ~roleRaced[u] =>
          (Bound(v, q)' <=> Bound(v, q))
    BY <1>1, <1>3, <2>2 DEF PermissionInv, BindingsOK, Bound
  <2>5. \A v \in Staff, q \in Roles : v # u => (Bound(v, q)' <=> Bound(v, q))
    BY <1>1, <1>4 DEF Bound
  <2> SUFFICES ASSUME NEW v \in Staff, NEW q \in Roles, ~roleRaced[v]
               PROVE  IF Entries(v, q)' = {}
                      THEN Bound(v, q)' <=> <<v, q>> \in born
                      ELSE \E g \in Entries(v, q)' :
                             /\ \A f \in Entries(v, q)' : f.no <= g.no
                             /\ Bound(v, q)' <=> g.to = q
    BY <1>1, <1>2 DEF LogReplays
  <2>6. CASE v = u /\ q = r
    <3>1. Entries(v, q)' = Entries(v, q) \cup {e}
      BY <1>6, <2>6 DEF Entries
    <3>2. \A f \in Entries(v, q)' : f.no <= e.no
      BY <1>6, <3>1 DEF Entries, LogEntries, PermissionInv, PermissionTypeOK
    <3> QED
      BY <1>2, <1>6, <2>1, <2>3, <2>6, <3>1, <3>2
  <2>7. CASE ~(v = u /\ q = r)
    <3>1. Entries(v, q)' = Entries(v, q)
      BY <1>6, <2>1, <2>7 DEF Entries
    <3>2. Bound(v, q)' <=> Bound(v, q)
      BY <2>4, <2>5, <2>7
    <3> QED
      BY <3>1, <3>2 DEF PermissionInv, LogReplays
  <2> QED BY <2>6, <2>7
<1>11. RolesAreGranted'
  BY <1>1, <1>6 DEF PermissionInv, RolesAreGranted
<1> QED
  BY <1>2, <1>5, <1>7, <1>8, <1>9, <1>10, <1>11 DEF PermissionInv

LEMMA UpdateUserKeeps ==
  ASSUME PermissionInv, NEW c \in Changes, UpdateCommit(c)
  PROVE  PermissionInv'
<1> DEFINE u == change[c].user
           r == change[c].role
           row == {b \in roleBindings : b.id = found[c].id}
<1>1. /\ change[c].op = "update" /\ row # {} /\ Finish(c, "done")
      /\ \A b \in roleBindings \ row : b.user = u => b.role # r
      /\ roleBindings' = (roleBindings \ row) \cup {[b EXCEPT !.role = r] : b \in row}
      /\ Log(u, found[c].role, r)
      /\ users' = users /\ born' = born
  BY DEF UpdateCommit
<1>2. /\ Ready(c) /\ UNCHANGED <<change, found, roleRaced, bootRaced>>
      /\ changePc' \in [Changes -> {"idle", "refused", "ready", "done", "failed"}]
      /\ \A d \in Changes, v \in Staff : OwnsUser(d, v) => OwnsUser(d, v)'
      /\ ChangeAlone' /\ BootAlone'
  BY <1>1, ChangeFinishLeaves
<1>3. /\ u \in Staff /\ r \in Roles /\ u \in users
      /\ found[c] \in Binding /\ found[c].user = u /\ found[c].role # r /\ OwnsUser(found[c].id, u)
  BY <1>1, <1>2 DEF PermissionInv, ChangeSessions, PermissionOrders
<1>4. PICK old \in roleBindings : row = {old} /\ old.id = found[c].id
  BY <1>1 DEF PermissionInv, BindingsOK
<1>5. old \in Binding /\ old.user = u /\ OwnsUser(old.id, u) /\ roleBindings \subseteq Binding
  BY <1>3, <1>4 DEF PermissionInv, BindingsOK, OwnsUser, PermissionTypeOK
<1> DEFINE new == [old EXCEPT !.role = r]
<1>6. new \in Binding /\ new.id = old.id /\ new.user = u /\ new.role = r
  BY <1>3, <1>5 DEF Binding
<1>7. roleBindings' = (roleBindings \ {old}) \cup {new}
  BY <1>1, <1>4
<1> HIDE DEF new, row
<1>8. LogOK' /\ permissionLog' \subseteq LogEntries
  BY <1>1, <1>3, LogGrows DEF Binding
<1>9. PICK e \in LogEntries : /\ permissionLog' = permissionLog \cup {e}
                        /\ e.user = u /\ e.from = found[c].role /\ e.to = r
                        /\ \A f \in permissionLog : f.no < e.no
  BY <1>1, <1>3, LogGrows DEF Binding
<1>10. PermissionTypeOK'
  BY <1>1, <1>2, <1>5, <1>6, <1>7, <1>8
  DEF PermissionInv, PermissionTypeOK, LogEntries, Binding
<1>11. ChangeSessions' /\ ChangeCurrent'
  <2>1. \A b \in roleBindings \ roleBindings' : Rebinding(c, b.user)
    BY <1>1, <1>2, <1>5, <1>7 DEF Rebinding
  <2> QED
    BY <1>1, <2>1, ChangeSessionsStay
<1>12. BindingsOK'
  <2>1. \A b \in roleBindings' : OwnsUser(b.id, b.user)' /\ b.user \in users'
    BY <1>1, <1>2, <1>3, <1>5, <1>6, <1>7 DEF PermissionInv, BindingsOK, Binding
  <2>2. \A b \in roleBindings \ {old} : b.id # new.id /\ ~(b.user = new.user /\ b.role = new.role)
    BY <1>1, <1>4, <1>6 DEF PermissionInv, BindingsOK
  <2>3. \A a, b \in roleBindings' : a.id = b.id \/ (a.user = b.user /\ a.role = b.role) => a = b
    BY <1>7, <2>2 DEF PermissionInv, BindingsOK
  <2>4. \A v \in Staff, q \in Roles : <<v, q>> \in born' => v \in users'
    BY <1>1 DEF PermissionInv, BindingsOK
  <2> QED BY <2>1, <2>3, <2>4 DEF BindingsOK
<1>13. LogReplays'
  <2>1. ~roleRaced[u] => old = found[c]
    BY <1>1, <1>2, <1>3, <1>4 DEF PermissionInv, ChangeCurrent, Rebinding, BindingsOK
  <2>2. Bound(u, r)'
    BY <1>2, <1>6, <1>7 DEF Bound
  <2>3. ~roleRaced[u] => ~Bound(u, found[c].role)'
    BY <1>2, <1>3, <1>6, <1>7, <2>1 DEF Bound, PermissionInv, BindingsOK
  <2>4. \A v \in Staff, q \in Roles : v # u => (Bound(v, q)' <=> Bound(v, q))
    BY <1>5, <1>6, <1>7 DEF Bound
  <2>5. \A q \in Roles \ {r, found[c].role} : ~roleRaced[u] => (Bound(u, q)' <=> Bound(u, q))
    BY <1>2, <1>6, <1>7, <2>1 DEF Bound
  <2> SUFFICES ASSUME NEW v \in Staff, NEW q \in Roles, ~roleRaced[v]
               PROVE  IF Entries(v, q)' = {}
                      THEN Bound(v, q)' <=> <<v, q>> \in born
                      ELSE \E g \in Entries(v, q)' :
                             /\ \A f \in Entries(v, q)' : f.no <= g.no
                             /\ Bound(v, q)' <=> g.to = q
    BY <1>1, <1>2 DEF LogReplays
  <2>6. CASE v = u /\ q \in {r, found[c].role}
    <3>1. Entries(v, q)' = Entries(v, q) \cup {e}
      BY <1>9, <2>6 DEF Entries
    <3>2. \A f \in Entries(v, q)' : f.no <= e.no
      BY <1>9, <3>1 DEF Entries, LogEntries, PermissionInv, PermissionTypeOK
    <3> QED
      BY <1>2, <1>3, <1>9, <2>2, <2>3, <2>6, <3>1, <3>2
  <2>7. CASE ~(v = u /\ q \in {r, found[c].role})
    <3>1. Entries(v, q)' = Entries(v, q)
      BY <1>9, <2>7 DEF Entries
    <3>2. Bound(v, q)' <=> Bound(v, q)
      BY <1>2, <2>4, <2>5, <2>7
    <3> QED
      BY <3>1, <3>2 DEF PermissionInv, LogReplays
  <2> QED BY <2>6, <2>7
<1>14. RolesAreGranted'
  BY <1>1, <1>6, <1>7, <1>9 DEF PermissionInv, RolesAreGranted
<1> QED
  BY <1>2, <1>8, <1>10, <1>11, <1>12, <1>13, <1>14 DEF PermissionInv

LEMMA ChangeFailKeeps ==
  ASSUME PermissionInv, (\E c \in Changes : ChangeFails(c)) \/ UNCHANGED permissionVars
  PROVE  PermissionInv'
<1>1. CASE UNCHANGED permissionVars
  BY <1>1
  DEF permissionVars, permissionTables, PermissionInv, PermissionTypeOK, BindingsOK, LogOK,
      ChangeSessions, ChangeAlone,
      ChangeCurrent, BootAlone, LogReplays, RolesAreGranted, Entries, Bound, Administrators,
      Rebinding, Ready, OwnsUser
<1>2. ASSUME NEW c \in Changes, ChangeFails(c) PROVE PermissionInv'
  <2>1. Finish(c, "failed") /\ UNCHANGED <<users, roleBindings, permissionLog, born>>
    BY <1>2 DEF ChangeFails, permissionTables
  <2>2. /\ UNCHANGED <<change, found, roleRaced, bootRaced>>
        /\ changePc' \in [Changes -> {"idle", "refused", "ready", "done", "failed"}]
        /\ \A d \in Changes, v \in Staff : OwnsUser(d, v) => OwnsUser(d, v)'
        /\ ChangeAlone' /\ BootAlone'
    BY <2>1, ChangeFinishLeaves
  <2>3. ChangeSessions' /\ ChangeCurrent'
    BY <2>1, ChangeSessionsStay
  <2>4. PermissionTypeOK'
    BY <2>1, <2>2 DEF PermissionInv, PermissionTypeOK, Binding
  <2>5. BindingsOK'
    <3>1. \A b \in roleBindings : b.id \in Changes /\ b.user \in Staff
      BY DEF PermissionInv, PermissionTypeOK, Binding
    <3> QED
      BY <2>1, <2>2, <3>1 DEF PermissionInv, BindingsOK
  <2>6. LogOK' /\ LogReplays' /\ RolesAreGranted'
    BY <2>1, <2>2 DEF PermissionInv, LogOK, LogReplays, RolesAreGranted, Entries, Bound
  <2> QED
    BY <2>2, <2>3, <2>4, <2>5, <2>6 DEF PermissionInv
<1> QED BY <1>1, <1>2

LEMMA StepPermissionInv == PermissionInv /\ [PermissionNext]_permissionVars => PermissionInv'
<1> SUFFICES ASSUME PermissionInv, [PermissionNext]_permissionVars PROVE PermissionInv'
  OBVIOUS
<1>1. ASSUME NEW c \in Changes, NEW u \in Staff, NEW r \in Roles, GrantStart(c, u, r) PROVE PermissionInv'
  <2> DEFINE accepted == u \in users
  <2>1. Rebind(c, "grant", u, r, NoBinding, accepted) /\ accepted \in BOOLEAN
    BY <1>1 DEF GrantStart
  <2> QED
    BY <2>1, RebindKeeps
<1>2. ASSUME NEW c \in Changes, NEW u \in Staff, NEW r \in Roles, RevokeStart(c, u, r) PROVE PermissionInv'
  <2>1. ASSUME NEW b \in roleBindings, b.user = u, b.role = r, Rebind(c, "revoke", u, r, b, TRUE)
        PROVE  PermissionInv'
    <3>1. b \in Binding /\ u \in users
      BY <2>1 DEF PermissionInv, BindingsOK, PermissionTypeOK
    <3> QED
      BY <2>1, <3>1, RebindKeeps
  <2>2. ASSUME Rebind(c, "revoke", u, r, NoBinding, FALSE) PROVE PermissionInv'
    BY <2>2, RebindKeeps
  <2> QED
    BY <1>2, <2>1, <2>2 DEF RevokeStart
<1>3. ASSUME NEW c \in Changes, NEW r \in Roles, UpdateStart(c, r) PROVE PermissionInv'
  <2>1. PICK b \in roleBindings : Rebind(c, "update", b.user, r, b, b.role # r)
    BY <1>3 DEF UpdateStart
  <2>2. b \in Binding /\ b.user \in Staff /\ b.user \in users
    BY DEF PermissionInv, BindingsOK, PermissionTypeOK, Binding
  <2> DEFINE accepted == b.role # r
  <2>3. accepted \in BOOLEAN /\ Rebind(c, "update", b.user, r, b, accepted)
    BY <2>1
  <2> QED
    BY <2>2, <2>3, RebindKeeps
<1> QED
  BY <1>1, <1>2, <1>3, SeedKeeps, CreateUserKeeps, UserKeeps, GrantKeeps, RevokeKeeps,
     UpdateUserKeeps,
     ChangeFailKeeps
  DEF PermissionNext

LEMMA PermissionInvariance == PermissionSpec => []PermissionInv
BY InitPermissionInv, StepPermissionInv, PTL DEF PermissionSpec

-------------------------------------------------------------------------------
(* Tables and sessions keep their types.                                   *)
THEOREM PermissionTypes == PermissionSpec => []PermissionTypeOK
BY PermissionInvariance, PTL DEF PermissionInv

(* Every role somebody holds was given by an entry of the log or with the  *)
(* user, whatever overlaps.                                                *)
THEOREM EveryRoleGranted == PermissionSpec => []RolesAreGranted
BY PermissionInvariance, PTL DEF PermissionInv

(* The log of a user whose changes did not overlap tells what roles the    *)
(* user holds.                                                             *)
THEOREM LogTellsRoles == PermissionSpec => []LogReplays
BY PermissionInvariance, PTL DEF PermissionInv

(* A bootstrap that overlaps with nothing makes no second administrator.   *)
THEOREM FirstAdministrator == PermissionSpec => BootstrapsOnlyWithoutAdmin
<1> DEFINE First == \A c \in Changes :
                      changePc[c] = "ready" /\ changePc'[c] = "done" /\ change[c].op = "seed" =>
                        bootRaced \/ Administrators = {}
<1>1. PermissionInv => First
  BY DEF PermissionInv, BootAlone, Ready
<1>2. PermissionSpec => [][First]_permissionVars
  BY <1>1, PermissionInvariance, PTL DEF PermissionSpec
<1> QED
  BY <1>2 DEF BootstrapsOnlyWithoutAdmin

-------------------------------------------------------------------------------
(* Shifts: any shifts, calls and points in time.                           *)

ShiftMoves == [op : {"move"}, shift : ShiftIds, starts : Times \cup {NotGiven}, ends : Times \cup {NotGiven}]
ShiftTurns == [op : {"turn"}, shift : ShiftIds, status : ShiftStatuses]
ShiftCalling(c, s, op) == shiftPc[c] = "read" /\ shiftAsk[c].shift = s /\ shiftAsk[c].op = op

(* What a call has read passed its test.                                   *)
ShiftTested(ask, row) ==
  /\ ask \in ShiftMoves \cup ShiftTurns /\ row \in ShiftRows
  /\ ask.op = "move" => Given(ask.starts, row.starts) < Given(ask.ends, row.ends)
  /\ ask.op = "turn" => ask.status \in Transitions(row.status)
ShiftSessions ==
  \A c \in ShiftCalls : shiftPc[c] = "read" =>
    ShiftTested(shiftAsk[c], readShift[c]) /\ shifts[shiftAsk[c].shift] # NoShift

(* Two calls of a kind on one shift have marked it as raced; for one that  *)
(* is alone, the columns it was tested against are as it has read them.    *)
OneShiftCallOfAKind ==
  \A c, d \in ShiftCalls, s \in ShiftIds, op \in {"move", "turn"} :
    ShiftCalling(c, s, op) /\ ShiftCalling(d, s, op) /\ c # d => op \in shiftRaced[s]
ShiftReadsFresh ==
  \A c \in ShiftCalls, s \in ShiftIds :
    /\ ShiftCalling(c, s, "move") /\ "move" \notin shiftRaced[s] =>
         readShift[c].starts = shifts[s].starts /\ readShift[c].ends = shifts[s].ends
    /\ ShiftCalling(c, s, "turn") /\ "turn" \notin shiftRaced[s] =>
         readShift[c].status = shifts[s].status

ShiftInv == ShiftTypeOK /\ ShiftSessions /\ OneShiftCallOfAKind /\ ShiftReadsFresh /\ StartBeforeEnd

LEMMA InitShiftInv == ShiftInit => ShiftInv
BY
DEF ShiftInit, ShiftInv, ShiftTypeOK, ShiftSessions, OneShiftCallOfAKind, ShiftReadsFresh,
    StartBeforeEnd, ShiftCalling

-------------------------------------------------------------------------------
LEMMA ShiftCreateKeeps ==
  ASSUME ShiftInv, NEW s \in ShiftIds, NEW from \in Times, NEW to \in Times, CreateShift(s, from, to)
  PROVE  ShiftInv'
<1> DEFINE row == [starts |-> from, ends |-> to, status |-> "scheduled"]
<1>1. /\ shifts[s] = NoShift /\ from < to /\ shifts' = [shifts EXCEPT ![s] = row]
      /\ UNCHANGED <<shiftPc, shiftAsk, readShift, shiftRaced>>
  BY DEF CreateShift
<1>2. row \in ShiftRows
  BY DEF ShiftRows, ShiftStatuses
<1>3. row # NoShift
  BY DEF NoShift
<1>4. ShiftTypeOK'
  BY <1>1, <1>2 DEF ShiftInv, ShiftTypeOK
<1>5. /\ shifts'[s] = row
      /\ \A t \in ShiftIds \ {s} : shifts'[t] = shifts[t]
  BY <1>1 DEF ShiftInv, ShiftTypeOK
<1>6. \A c \in ShiftCalls : shiftPc[c] = "read" => shiftAsk[c].shift \in ShiftIds \ {s}
  BY <1>1 DEF ShiftInv, ShiftSessions, ShiftTested, ShiftMoves, ShiftTurns
<1>7. ShiftSessions' /\ OneShiftCallOfAKind'
  BY <1>1, <1>5, <1>6 DEF ShiftInv, ShiftSessions, OneShiftCallOfAKind, ShiftCalling
<1>8. ShiftReadsFresh'
  <2> SUFFICES ASSUME NEW c \in ShiftCalls, NEW t \in ShiftIds
               PROVE  /\ ShiftCalling(c, t, "move") /\ "move" \notin shiftRaced[t] =>
                           readShift[c].starts = shifts'[t].starts /\ readShift[c].ends = shifts'[t].ends
                      /\ ShiftCalling(c, t, "turn") /\ "turn" \notin shiftRaced[t] =>
                           readShift[c].status = shifts'[t].status
    BY <1>1 DEF ShiftReadsFresh, ShiftCalling
  <2> QED
    BY <1>5, <1>6 DEF ShiftCalling, ShiftInv, ShiftReadsFresh
<1>9. StartBeforeEnd'
  BY <1>1, <1>5 DEF ShiftInv, StartBeforeEnd
<1> QED
  BY <1>4, <1>7, <1>8, <1>9 DEF ShiftInv

(* A call that reads is refused, or has passed its test.                   *)
LEMMA ShiftReadKeeps ==
  ASSUME ShiftInv, NEW c \in ShiftCalls, NEW ask \in ShiftMoves \cup ShiftTurns, NEW accepted \in BOOLEAN,
         ReadShift(c, ask, accepted), accepted => ShiftTested(ask, shifts[ask.shift])
  PROVE  ShiftInv'
<1> DEFINE s == ask.shift
           end == IF accepted THEN "read" ELSE "refused"
<1>1. /\ s \in ShiftIds /\ ask.op \in {"move", "turn"}
      /\ shiftPc[c] = "idle" /\ shifts[s] # NoShift
      /\ shiftPc' = [shiftPc EXCEPT ![c] = end]
      /\ shiftAsk' = [shiftAsk EXCEPT ![c] = ask]
      /\ readShift' = [readShift EXCEPT ![c] = shifts[s]]
      /\ shifts' = shifts
  BY DEF ReadShift, ShiftMoves, ShiftTurns
<1>2. shiftRaced' = [shiftRaced EXCEPT ![s] =
        IF accepted /\ \E d \in ShiftCalls : ShiftCalling(d, s, ask.op) THEN @ \cup {ask.op} ELSE @]
  BY DEF ReadShift, ShiftCalling
<1>3. /\ shiftPc'[c] = end /\ shiftAsk'[c] = ask /\ readShift'[c] = shifts[s]
      /\ \A d \in ShiftCalls \ {c} :
           shiftPc'[d] = shiftPc[d] /\ shiftAsk'[d] = shiftAsk[d] /\ readShift'[d] = readShift[d]
  BY <1>1 DEF ShiftInv, ShiftTypeOK
<1>4. /\ \A t \in ShiftIds : shiftRaced[t] \subseteq shiftRaced'[t]
      /\ accepted /\ (\E d \in ShiftCalls : ShiftCalling(d, s, ask.op)) => ask.op \in shiftRaced'[s]
  BY <1>1, <1>2 DEF ShiftInv, ShiftTypeOK
<1>5. ShiftTypeOK'
  <2>1. shiftRaced' \in [ShiftIds -> SUBSET {"move", "turn"}]
    BY <1>1, <1>2 DEF ShiftInv, ShiftTypeOK
  <2> QED
    BY <1>1, <2>1 DEF ShiftInv, ShiftTypeOK, ShiftMoves, ShiftTurns
<1>6. ShiftSessions'
  BY <1>1, <1>3 DEF ShiftInv, ShiftSessions
<1>7. \A d \in ShiftCalls \ {c}, t \in ShiftIds, op \in {"move", "turn"} :
        ShiftCalling(d, t, op)' <=> ShiftCalling(d, t, op)
  BY <1>3 DEF ShiftCalling
<1>8. \A t \in ShiftIds, op \in {"move", "turn"} :
        ShiftCalling(c, t, op)' => accepted /\ t = s /\ op = ask.op
  BY <1>3 DEF ShiftCalling
<1>9. OneShiftCallOfAKind'
  <2> SUFFICES ASSUME NEW d \in ShiftCalls, NEW f \in ShiftCalls, NEW t \in ShiftIds,
                      NEW op \in {"move", "turn"}, ShiftCalling(d, t, op)', ShiftCalling(f, t, op)', d # f
               PROVE  op \in shiftRaced'[t]
    BY DEF OneShiftCallOfAKind
  <2>1. CASE d # c /\ f # c
    BY <1>4, <1>7, <2>1 DEF ShiftInv, OneShiftCallOfAKind
  <2>2. CASE d = c
    BY <1>4, <1>7, <1>8, <2>2
  <2>3. CASE f = c
    BY <1>4, <1>7, <1>8, <2>3
  <2> QED BY <2>1, <2>2, <2>3
<1>10. ShiftReadsFresh'
  <2> SUFFICES ASSUME NEW d \in ShiftCalls, NEW t \in ShiftIds
               PROVE  /\ ShiftCalling(d, t, "move")' /\ "move" \notin shiftRaced'[t] =>
                           readShift'[d].starts = shifts[t].starts /\ readShift'[d].ends = shifts[t].ends
                      /\ ShiftCalling(d, t, "turn")' /\ "turn" \notin shiftRaced'[t] =>
                           readShift'[d].status = shifts[t].status
    BY <1>1 DEF ShiftReadsFresh
  <2>1. CASE d # c
    BY <1>3, <1>4, <1>7, <2>1 DEF ShiftInv, ShiftReadsFresh
  <2>2. CASE d = c
    BY <1>3, <1>8, <2>2
  <2> QED BY <2>1, <2>2
<1>11. StartBeforeEnd'
  BY <1>1, <1>4 DEF ShiftInv, StartBeforeEnd
<1> QED
  BY <1>5, <1>6, <1>9, <1>10, <1>11 DEF ShiftInv

LEMMA MovedShift ==
  ASSUME NEW r \in ShiftRows, NEW from \in Times, NEW to \in Times
  PROVE  [r EXCEPT !.starts = from, !.ends = to] = [starts |-> from, ends |-> to, status |-> r.status]
<1> DEFINE moved == [r EXCEPT !.starts = from, !.ends = to]
           row == [starts |-> from, ends |-> to, status |-> r.status]
<1>1. moved \in ShiftRows /\ row \in ShiftRows
  BY DEF ShiftRows
<1>2. moved.starts = row.starts /\ moved.ends = row.ends /\ moved.status = row.status
  BY DEF ShiftRows
<1>3. \A a \in ShiftRows, b \in ShiftRows :
        a.starts = b.starts /\ a.ends = b.ends /\ a.status = b.status => a = b
  BY DEF ShiftRows
<1> HIDE DEF moved, row
<1>4. moved = row
  BY <1>1, <1>2, <1>3
<1> QED
  BY <1>4 DEF moved, row

LEMMA ShiftMoveKeeps ==
  ASSUME ShiftInv, NEW c \in ShiftCalls, MoveCommit(c)
  PROVE  ShiftInv'
<1> DEFINE ask == shiftAsk[c]
           read == readShift[c]
           s == ask.shift
<1>1. /\ shiftPc[c] = "read" /\ ask \in ShiftMoves /\ read \in ShiftRows /\ shifts[s] \in ShiftRows
      /\ s \in ShiftIds /\ Given(ask.starts, read.starts) < Given(ask.ends, read.ends)
  BY DEF MoveCommit, ShiftInv, ShiftSessions, ShiftTested, ShiftMoves, ShiftTurns, ShiftTypeOK
<1>2. Given(ask.starts, read.starts) \in Times /\ Given(ask.ends, read.ends) \in Times
  BY <1>1, TimesAssumption DEF ShiftMoves, ShiftRows, Given, NotGiven
<1> DEFINE row == [starts |-> Column(shifts[s].starts, read.starts, Given(ask.starts, read.starts)),
                   ends |-> Column(shifts[s].ends, read.ends, Given(ask.ends, read.ends)),
                   status |-> shifts[s].status]
<1>3. row \in ShiftRows
  BY <1>1, <1>2 DEF ShiftRows, Column
<1>4. /\ shifts' = [shifts EXCEPT ![s] = row]
      /\ shiftPc' = [shiftPc EXCEPT ![c] = "done"]
      /\ UNCHANGED <<shiftAsk, readShift, shiftRaced>>
  <2> DEFINE moved == [shifts[s] EXCEPT
                         !.starts = Column(@, read.starts, Given(ask.starts, read.starts)),
                         !.ends = Column(@, read.ends, Given(ask.ends, read.ends))]
  <2>1. moved = row
    BY <1>1, <1>2, <1>3, MovedShift DEF ShiftRows
  <2>2. DOMAIN shifts = ShiftIds /\ DOMAIN shifts' = ShiftIds
    BY DEF MoveCommit, ShiftInv, ShiftTypeOK
  <2>3. shifts'[s] = moved
    BY <1>1 DEF MoveCommit, ShiftInv, ShiftTypeOK
  <2>4. \A t \in ShiftIds \ {s} : shifts'[t] = shifts[t]
    BY <1>1 DEF MoveCommit, ShiftInv, ShiftTypeOK
  <2>5. shifts' = [t \in ShiftIds |-> shifts'[t]] /\ shifts = [t \in ShiftIds |-> shifts[t]]
    BY DEF MoveCommit, ShiftInv, ShiftTypeOK
  <2>6. shifts' = [shifts EXCEPT ![s] = row]
    BY <1>1, <2>1, <2>2, <2>3, <2>4, <2>5
  <2> QED
    BY <2>6 DEF MoveCommit
<1>5. ShiftTypeOK'
  BY <1>1, <1>3, <1>4 DEF ShiftInv, ShiftTypeOK
<1>6. /\ shifts'[s] = row /\ row # NoShift /\ row.status = shifts[s].status
      /\ \A t \in ShiftIds \ {s} : shifts'[t] = shifts[t]
      /\ \A d \in ShiftCalls : shiftPc'[d] = "read" => shiftPc[d] = "read" /\ d # c
  BY <1>1, <1>4 DEF ShiftInv, ShiftTypeOK, NoShift
<1>7. \A d \in ShiftCalls, t \in ShiftIds, op \in {"move", "turn"} :
        ShiftCalling(d, t, op)' => ShiftCalling(d, t, op) /\ d # c
  BY <1>4, <1>6 DEF ShiftCalling
<1>8. ShiftSessions'
  BY <1>1, <1>4, <1>6 DEF ShiftInv, ShiftSessions, ShiftTested, ShiftMoves, ShiftTurns
<1>9. OneShiftCallOfAKind'
  BY <1>4, <1>7 DEF ShiftInv, OneShiftCallOfAKind
<1>10. ShiftReadsFresh'
  <2> SUFFICES ASSUME NEW d \in ShiftCalls, NEW t \in ShiftIds
               PROVE  /\ ShiftCalling(d, t, "move")' /\ "move" \notin shiftRaced[t] =>
                           readShift[d].starts = shifts'[t].starts /\ readShift[d].ends = shifts'[t].ends
                      /\ ShiftCalling(d, t, "turn")' /\ "turn" \notin shiftRaced[t] =>
                           readShift[d].status = shifts'[t].status
    BY <1>4 DEF ShiftReadsFresh
  <2>1. CASE t # s
    BY <1>6, <1>7, <2>1 DEF ShiftInv, ShiftReadsFresh
  <2>2. CASE t = s
    <3>1. ShiftCalling(d, t, "move")' => "move" \in shiftRaced[t]
      BY <1>1, <1>7, <2>2 DEF ShiftCalling, ShiftInv, OneShiftCallOfAKind, ShiftMoves
    <3> QED
      BY <1>6, <1>7, <2>2, <3>1 DEF ShiftInv, ShiftReadsFresh
  <2> QED BY <2>1, <2>2
<1>11. StartBeforeEnd'
  <2> SUFFICES ASSUME NEW t \in ShiftIds, shifts'[t] # NoShift, "move" \notin shiftRaced[t]
               PROVE  shifts'[t].starts < shifts'[t].ends
    BY <1>4 DEF StartBeforeEnd
  <2>1. CASE t # s
    BY <1>6, <2>1 DEF ShiftInv, StartBeforeEnd
  <2>2. CASE t = s
    <3>1. read.starts = shifts[s].starts /\ read.ends = shifts[s].ends
      BY <1>1, <2>2 DEF ShiftInv, ShiftReadsFresh, ShiftCalling, ShiftMoves
    <3>2. row.starts = Given(ask.starts, read.starts) /\ row.ends = Given(ask.ends, read.ends)
      BY <3>1 DEF Column
    <3> QED
      BY <1>1, <1>6, <2>2, <3>2
  <2> QED BY <2>1, <2>2
<1> QED
  BY <1>5, <1>8, <1>9, <1>10, <1>11 DEF ShiftInv

LEMMA ShiftTurnKeeps ==
  ASSUME ShiftInv, NEW c \in ShiftCalls, TurnCommit(c)
  PROVE  ShiftInv'
<1> DEFINE s == shiftAsk[c].shift
<1>1. /\ shiftPc[c] = "read" /\ shiftAsk[c] \in ShiftTurns /\ shifts[s] \in ShiftRows /\ s \in ShiftIds
  BY DEF TurnCommit, ShiftInv, ShiftSessions, ShiftTested, ShiftMoves, ShiftTurns, ShiftTypeOK
<1> DEFINE row == [shifts[s] EXCEPT !.status = shiftAsk[c].status]
<1>2. /\ row \in ShiftRows
      /\ row.starts = shifts[s].starts /\ row.ends = shifts[s].ends
  BY <1>1 DEF ShiftRows, ShiftTurns
<1>3. /\ shifts' = [shifts EXCEPT ![s] = row]
      /\ shiftPc' = [shiftPc EXCEPT ![c] = "done"]
      /\ UNCHANGED <<shiftAsk, readShift, shiftRaced>>
  BY DEF TurnCommit
<1>4. ShiftTypeOK'
  BY <1>1, <1>2, <1>3 DEF ShiftInv, ShiftTypeOK
<1>5. row # NoShift
  BY <1>2 DEF ShiftRows, NoShift
<1>6. /\ shifts'[s] = row
      /\ \A t \in ShiftIds \ {s} : shifts'[t] = shifts[t]
      /\ \A d \in ShiftCalls : shiftPc'[d] = "read" => shiftPc[d] = "read" /\ d # c
  BY <1>1, <1>3 DEF ShiftInv, ShiftTypeOK
<1>7. \A d \in ShiftCalls, t \in ShiftIds, op \in {"move", "turn"} :
        ShiftCalling(d, t, op)' => ShiftCalling(d, t, op) /\ d # c
  BY <1>3, <1>6 DEF ShiftCalling
<1>8. ShiftSessions'
  BY <1>3, <1>5, <1>6 DEF ShiftInv, ShiftSessions, ShiftTested, ShiftMoves, ShiftTurns
<1>9. OneShiftCallOfAKind'
  BY <1>3, <1>7 DEF ShiftInv, OneShiftCallOfAKind
<1>10. ShiftReadsFresh'
  <2> SUFFICES ASSUME NEW d \in ShiftCalls, NEW t \in ShiftIds
               PROVE  /\ ShiftCalling(d, t, "move")' /\ "move" \notin shiftRaced[t] =>
                           readShift[d].starts = shifts'[t].starts /\ readShift[d].ends = shifts'[t].ends
                      /\ ShiftCalling(d, t, "turn")' /\ "turn" \notin shiftRaced[t] =>
                           readShift[d].status = shifts'[t].status
    BY <1>3 DEF ShiftReadsFresh
  <2>1. CASE t # s
    BY <1>6, <1>7, <2>1 DEF ShiftInv, ShiftReadsFresh
  <2>2. CASE t = s
    <3>1. ShiftCalling(d, t, "turn")' => "turn" \in shiftRaced[t]
      BY <1>1, <1>7, <2>2 DEF ShiftCalling, ShiftInv, OneShiftCallOfAKind, ShiftTurns
    <3> QED
      BY <1>2, <1>6, <1>7, <2>2, <3>1 DEF ShiftInv, ShiftReadsFresh
  <2> QED BY <2>1, <2>2
<1>11. StartBeforeEnd'
  BY <1>1, <1>2, <1>3, <1>6 DEF ShiftInv, StartBeforeEnd, ShiftRows, NoShift
<1> QED
  BY <1>4, <1>8, <1>9, <1>10, <1>11 DEF ShiftInv

LEMMA ShiftFailKeeps ==
  ASSUME ShiftInv, (\E c \in ShiftCalls : ShiftFails(c)) \/ UNCHANGED shiftVars
  PROVE  ShiftInv'
<1>1. /\ UNCHANGED <<shifts, shiftAsk, readShift, shiftRaced>>
      /\ \A d \in ShiftCalls : shiftPc'[d] = "read" => shiftPc[d] = "read"
      /\ shiftPc' \in [ShiftCalls -> {"idle", "refused", "read", "done", "failed"}]
  BY DEF ShiftFails, shiftVars, ShiftInv, ShiftTypeOK
<1> QED
  BY <1>1
  DEF ShiftInv, ShiftTypeOK, ShiftSessions, OneShiftCallOfAKind, ShiftReadsFresh,
      StartBeforeEnd, ShiftCalling

LEMMA StepShiftInv == ShiftInv /\ [ShiftNext]_shiftVars => ShiftInv'
<1> SUFFICES ASSUME ShiftInv, [ShiftNext]_shiftVars PROVE ShiftInv'
  OBVIOUS
<1>1. ASSUME NEW c \in ShiftCalls, NEW s \in ShiftIds,
             NEW from \in Times \cup {NotGiven}, NEW to \in Times \cup {NotGiven},
             MoveShift(c, s, from, to)
      PROVE  ShiftInv'
  <2> DEFINE ask == [op |-> "move", shift |-> s, starts |-> from, ends |-> to]
             accepted == shifts[s] # NoShift /\ Given(from, shifts[s].starts) < Given(to, shifts[s].ends)
  <2>1. ReadShift(c, ask, accepted) /\ ask \in ShiftMoves
    BY <1>1 DEF MoveShift, ShiftMoves
  <2>2. accepted => ShiftTested(ask, shifts[ask.shift])
    BY <2>1 DEF ShiftTested, ShiftInv, ShiftTypeOK
  <2>3. accepted \in BOOLEAN
    OBVIOUS
  <2> HIDE DEF ask, accepted
  <2> QED
    BY <2>1, <2>2, <2>3, ShiftReadKeeps
<1>2. ASSUME NEW c \in ShiftCalls, NEW s \in ShiftIds, NEW st \in ShiftStatuses, TurnShift(c, s, st)
      PROVE  ShiftInv'
  <2> DEFINE ask == [op |-> "turn", shift |-> s, status |-> st]
             accepted == st \in Transitions(shifts[s].status)
  <2>1. ReadShift(c, ask, accepted) /\ ask \in ShiftTurns /\ shifts[s] # NoShift
    BY <1>2 DEF TurnShift, ShiftTurns, ReadShift
  <2>2. accepted => ShiftTested(ask, shifts[ask.shift])
    BY <2>1 DEF ShiftTested, ShiftInv, ShiftTypeOK
  <2>3. accepted \in BOOLEAN
    OBVIOUS
  <2> HIDE DEF ask, accepted
  <2> QED
    BY <2>1, <2>2, <2>3, ShiftReadKeeps
<1> QED
  BY <1>1, <1>2, ShiftCreateKeeps, ShiftMoveKeeps, ShiftTurnKeeps, ShiftFailKeeps
  DEF ShiftNext, ShiftStatuses

LEMMA ShiftInvariance == ShiftSpec => []ShiftInv
BY InitShiftInv, StepShiftInv, PTL DEF ShiftSpec

-------------------------------------------------------------------------------
(* Shifts and sessions keep their types.                                   *)
THEOREM ShiftTypes == ShiftSpec => []ShiftTypeOK
BY ShiftInvariance, PTL DEF ShiftInv

(* However partial updates follow each other, a window of which no two     *)
(* were moved at once starts before it ends.                               *)
THEOREM WindowsHold == ShiftSpec => []StartBeforeEnd
BY ShiftInvariance, PTL DEF ShiftInv

(* A status no two calls changed at once follows the table.                *)
THEOREM FollowsTheTable == ShiftSpec => ShiftLifecycle
<1> DEFINE Orderly ==
      \A s \in ShiftIds :
        shifts[s] # NoShift /\ shifts'[s].status # shifts[s].status =>
          \/ "turn" \in shiftRaced'[s]
          \/ <<shifts[s].status, shifts'[s].status>> \in
               {<<"scheduled", "active">>, <<"scheduled", "cancelled">>,
                <<"active", "completed">>, <<"active", "cancelled">>}
<1>1. ShiftInv /\ [ShiftNext]_shiftVars => [Orderly]_shiftVars
  <2> SUFFICES ASSUME ShiftInv, ShiftNext, NEW s \in ShiftIds, shifts[s] # NoShift,
                      shifts'[s].status # shifts[s].status, "turn" \notin shiftRaced'[s]
               PROVE  <<shifts[s].status, shifts'[s].status>> \in
                        {<<"scheduled", "active">>, <<"scheduled", "cancelled">>,
                         <<"active", "completed">>, <<"active", "cancelled">>}
    OBVIOUS
  <2>1. shifts[s] \in ShiftRows
    BY DEF ShiftInv, ShiftTypeOK
  <2>2. ASSUME NEW c \in ShiftCalls, TurnCommit(c)
        PROVE  <<shifts[s].status, shifts'[s].status>> \in
                 {<<"scheduled", "active">>, <<"scheduled", "cancelled">>,
                  <<"active", "completed">>, <<"active", "cancelled">>}
    <3>1. shiftAsk[c] \in ShiftTurns /\ shiftAsk[c].status \in Transitions(readShift[c].status)
      BY <2>2 DEF TurnCommit, ShiftInv, ShiftSessions, ShiftTested, ShiftMoves, ShiftTurns
    <3>2. shiftAsk[c].shift = s /\ shifts'[s].status = shiftAsk[c].status /\ "turn" \notin shiftRaced[s]
      BY <2>1, <2>2, <3>1 DEF TurnCommit, ShiftInv, ShiftTypeOK, ShiftRows
    <3>3. readShift[c].status = shifts[s].status
      BY <2>2, <3>2 DEF TurnCommit, ShiftInv, ShiftReadsFresh, ShiftCalling
    <3> QED
      BY <2>1, <3>1, <3>2, <3>3 DEF Transitions, ShiftRows, ShiftStatuses
  <2>3. ASSUME NEW c \in ShiftCalls, MoveCommit(c) PROVE FALSE
    <3>1. shifts'[s].status = shifts[s].status
      BY <2>1, <2>3 DEF MoveCommit, ShiftInv, ShiftTypeOK, ShiftRows
    <3> QED BY <3>1
  <2>4. ASSUME NEW t \in ShiftIds, NEW from \in Times, NEW to \in Times, CreateShift(t, from, to)
        PROVE  FALSE
    BY <2>4 DEF CreateShift, ShiftInv, ShiftTypeOK
  <2> QED
    BY <2>2, <2>3, <2>4 DEF ShiftNext, MoveShift, TurnShift, ReadShift, ShiftFails
<1>2. ShiftSpec => [][Orderly]_shiftVars
  BY <1>1, ShiftInvariance, PTL DEF ShiftSpec
<1> QED
  BY <1>2 DEF ShiftLifecycle

-------------------------------------------------------------------------------
(* The three side by side: a step of one leaves the invariants of the      *)
(* others as they are.                                                     *)
StaffInv == LoginInv /\ PermissionInv /\ ShiftInv

LEMMA StaffInvariance == StaffSpec => []StaffInv
<1>1. StaffInit => StaffInv
  BY InitLoginInv, InitPermissionInv, InitShiftInv DEF StaffInit, StaffInv
<1>2. StaffInv /\ [StaffNext]_<<part, staffVars>> => StaffInv'
  <2> SUFFICES ASSUME StaffInv, [StaffNext]_<<part, staffVars>>
               PROVE  StaffInv'
    OBVIOUS
  <2>1. /\ [LoginNext]_loginVars
        /\ [PermissionNext]_permissionVars
        /\ [ShiftNext]_shiftVars
    BY DEF StaffNext, staffVars
  <2>2. QED
    BY <2>1, StepLoginInv, StepPermissionInv, StepShiftInv DEF StaffInv
<1>3. QED
  BY <1>1, <1>2, PTL DEF StaffSpec

(* The users, roles, logs and shifts of the tables, and what the calls of  *)
(* services.py hold of them, keep their types whichever takes a step.      *)
THEOREM StaffTypes == StaffSpec => []StaffTypeOK
<1>1. StaffInv => StaffTypeOK
  BY DEF StaffInv, LoginInv, PermissionInv, ShiftInv, StaffTypeOK
<1>2. QED
  BY <1>1, StaffInvariance, PTL
===============================================================================
