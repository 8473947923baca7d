-------------------------------- MODULE Logins --------------------------------
(***************************************************************************)
(* Logging in, the lock-out after failed attempts, and changing the        *)
(* password.  A call reads the account once, checks the password against   *)
(* that copy (a slow hash, in a thread), and then writes the columns that  *)
(* it changed; nothing locks the row in between.                           *)
(***************************************************************************)
EXTENDS Integers, UnitOfWork

CONSTANTS
  Attempts,             \* calls of login and change-password; each is made once
  Accounts, Passwords,
  FailedLoginLimit, AccountLockMinutes,
  MaxMinute             \* bound of the clock

ASSUME LoginAssumption ==
  /\ FailedLoginLimit \in Nat \ {0} /\ AccountLockMinutes \in Nat \ {0}
  /\ MaxMinute \in Nat \ {0}

VARIABLES
  \* users
  passwordOf, changeRequired,
  failedAttempts,
  lockedUntil,          \* 0 for NULL
  minute,
  \* one session per call
  loginPc,
  asks,                 \* what the call asks: [op, user, typed, new]
  account,              \* the account as it has read it
  \* history
  streak,               \* failures since the last entry or lock
  loginRaced            \* accounts read by a call while another was about to write

userRows == <<passwordOf, changeRequired, failedAttempts, lockedUntil>>
loginVars == <<userRows, minute, loginPc, asks, account, streak, loginRaced>>

-------------------------------------------------------------------------------
NoAsk == [op |-> "none"]
NoAccount == [failed |-> -1]

Checking(a, u) == loginPc[a] = "checking" /\ asks[a].user = u

(* is_locked: the lock lies in the future.                                 *)
Locked(u) == lockedUntil[u] > minute

(* A token lives on whatever happens to the account's password.            *)
HasToken(u) == \E a \in Attempts : loginPc[a] = "entered" /\ asks[a].user = u

LoginInit ==
  /\ passwordOf \in [Accounts -> Passwords]
  /\ changeRequired = [u \in Accounts |-> TRUE]
  /\ failedAttempts = [u \in Accounts |-> 0]
  /\ lockedUntil = [u \in Accounts |-> 0]
  /\ minute = 1
  /\ loginPc = [a \in Attempts |-> "idle"]
  /\ asks = [a \in Attempts |-> NoAsk]
  /\ account = [a \in Attempts |-> NoAccount]
  /\ streak = [u \in Accounts |-> 0]
  /\ loginRaced = [u \in Accounts |-> FALSE]

-------------------------------------------------------------------------------
(* The query for the account; what follows works on this copy.             *)
ReadAccount(a, ask) ==
  LET u == ask.user
  IN /\ loginPc[a] = "idle"
     /\ loginPc' = [loginPc EXCEPT ![a] = "checking"]
     /\ asks' = [asks EXCEPT ![a] = ask]
     /\ account' = [account EXCEPT ![a] =
          [password |-> passwordOf[u], required |-> changeRequired[u],
           failed |-> failedAttempts[u], until |-> lockedUntil[u]]]
     /\ loginRaced' = [loginRaced EXCEPT ![u] = @ \/ \E b \in Attempts : Checking(b, u)]
     /\ UNCHANGED <<userRows, minute, streak>>

(* Mutant of LoginRead: the lock is not looked at.                         *)
LoginReadUnguarded(a, u, p) ==
  ReadAccount(a, [op |-> "login", user |-> u, typed |-> p, new |-> p])

LoginRead(a, u, p) ==
  ~Locked(u) /\ ReadAccount(a, [op |-> "login", user |-> u, typed |-> p, new |-> p])

LoginLocked(a, u) ==
  /\ loginPc[a] = "idle" /\ Locked(u)
  /\ loginPc' = [loginPc EXCEPT ![a] = "locked"]
  /\ UNCHANGED <<userRows, minute, asks, account, streak, loginRaced>>

(* The password endpoint asks for a token, and lets in those who must      *)
(* change theirs.                                                          *)
ChangeRead(a, u, p, new) ==
  HasToken(u) /\ ReadAccount(a, [op |-> "change", user |-> u, typed |-> p, new |-> new])

Right(a) == asks[a].typed = account[a].password

(* A wrong password counts; at the limit the count starts again and the    *)
(* account is locked.                                                      *)
LoginFails(a) ==
  LET u == asks[a].user
      failed == account[a].failed + 1
      locks == failed >= FailedLoginLimit
  IN /\ loginPc[a] = "checking" /\ asks[a].op = "login" /\ ~Right(a)
     /\ failedAttempts' = [failedAttempts EXCEPT ![u] =
          Column(@, account[a].failed, IF locks THEN 0 ELSE failed)]
     /\ lockedUntil' = [lockedUntil EXCEPT ![u] = IF locks THEN minute + AccountLockMinutes ELSE @]
     /\ streak' = [streak EXCEPT ![u] = IF locks THEN 0 ELSE @ + 1]
     /\ loginPc' = [loginPc EXCEPT ![a] = "wrong"]
     /\ UNCHANGED <<passwordOf, changeRequired, minute, asks, account, loginRaced>>

(* Mutant of LoginEnters: the count is not reset.                          *)
LoginEntersCounting(a) ==
  LET u == asks[a].user
  IN /\ loginPc[a] = "checking" /\ asks[a].op = "login" /\ Right(a)
     /\ lockedUntil' = [lockedUntil EXCEPT ![u] = Column(@, account[a].until, 0)]
     /\ streak' = [streak EXCEPT ![u] = 0]
     /\ loginPc' = [loginPc EXCEPT ![a] = "entered"]
     /\ UNCHANGED <<passwordOf, changeRequired, failedAttempts, minute, asks, account, loginRaced>>

LoginEnters(a) ==
  LET u == asks[a].user
  IN /\ loginPc[a] = "checking" /\ asks[a].op = "login" /\ Right(a)
     /\ failedAttempts' = [failedAttempts EXCEPT ![u] = Column(@, account[a].failed, 0)]
     /\ lockedUntil' = [lockedUntil EXCEPT ![u] = Column(@, account[a].until, 0)]
     /\ streak' = [streak EXCEPT ![u] = 0]
     /\ loginPc' = [loginPc EXCEPT ![a] = "entered"]
     /\ UNCHANGED <<passwordOf, changeRequired, minute, asks, account, loginRaced>>

(* A hash is salted, so a new password is always written.                  *)
ChangeCommit(a) ==
  LET u == asks[a].user
  IN /\ loginPc[a] = "checking" /\ asks[a].op = "change" /\ Right(a)
     /\ passwordOf' = [passwordOf EXCEPT ![u] = asks[a].new]
     /\ changeRequired' = [changeRequired EXCEPT ![u] = Column(@, account[a].required, FALSE)]
     /\ loginPc' = [loginPc EXCEPT ![a] = "changed"]
     /\ UNCHANGED <<failedAttempts, lockedUntil, minute, asks, account, streak, loginRaced>>

(* The current password is wrong, or the call ends in an error.            *)
LoginEnds(a) ==
  /\ loginPc[a] = "checking"
  /\ loginPc' = [loginPc EXCEPT ![a] = "ended"]
  /\ UNCHANGED <<userRows, minute, asks, account, streak, loginRaced>>

LoginTick ==
  /\ minute < MaxMinute
  /\ minute' = minute + 1
  /\ UNCHANGED <<userRows, loginPc, asks, account, streak, loginRaced>>

LoginNext ==
  \/ \E a \in Attempts :
       \/ LoginFails(a) \/ LoginEnters(a) \/ ChangeCommit(a) \/ LoginEnds(a)
       \/ \E u \in Accounts : LoginLocked(a, u)
       \/ \E u \in Accounts, p \in Passwords : LoginRead(a, u, p)
       \/ \E u \in Accounts, p, new \in Passwords : ChangeRead(a, u, p, new)
  \/ LoginTick

LoginSpec == LoginInit /\ [][LoginNext]_loginVars

-------------------------------------------------------------------------------
(* Every variable has its type.                                            *)
LoginTypeOK ==
  /\ passwordOf \in [Accounts -> Passwords] /\ changeRequired \in [Accounts -> BOOLEAN]
  /\ failedAttempts \in [Accounts -> Nat] /\ lockedUntil \in [Accounts -> Nat]
  /\ minute \in 1..MaxMinute
  /\ loginPc \in [Attempts -> {"idle", "checking", "locked", "wrong", "entered", "changed", "ended"}]
  /\ asks \in [Attempts -> {NoAsk} \cup
       [op : {"login", "change"}, user : Accounts, typed : Passwords, new : Passwords]]
  /\ account \in [Attempts -> {NoAccount} \cup
       [password : Passwords, required : BOOLEAN, failed : Nat, until : Nat]]
  /\ \A a \in Attempts : loginPc[a] \in {"checking", "wrong", "entered", "changed"} =>
       asks[a] # NoAsk /\ account[a] # NoAccount
  /\ streak \in [Accounts -> Nat] /\ loginRaced \in [Accounts -> BOOLEAN]

(* On an account whose calls did not overlap, the counter is the number of *)
(* failures in a row since somebody entered or it was locked, and stays    *)
(* under the limit: the limit-th failure in a row locks, and no earlier.   *)
CountsConsecutive ==
  \A u \in Accounts : ~loginRaced[u] =>
    failedAttempts[u] = streak[u] /\ streak[u] < FailedLoginLimit

(* On an account whose calls did not overlap, whoever enters typed what is *)
(* its password at that moment, not one changed since, and enters while it *)
(* is not locked; and a lock is not shortened while it lasts.              *)
EntriesAreEarned ==
  [][/\ \A a \in Attempts :
          loginPc'[a] = "entered" /\ loginPc[a] # "entered" /\ ~loginRaced'[asks'[a].user] =>
            /\ asks'[a].typed = passwordOf[asks'[a].user]
            /\ ~Locked(asks'[a].user)
     /\ \A u \in Accounts : Locked(u) /\ ~loginRaced'[u] =>
          lockedUntil'[u] = lockedUntil[u]]_loginVars
===============================================================================
