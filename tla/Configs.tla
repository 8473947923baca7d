------------------------------- MODULE Configs -------------------------------
(***************************************************************************)
(* The versions of one configuration key.  Setting it inserts the next     *)
(* version as the active one, rolling back makes an earlier one active     *)
(* again; both first clear is_active with one bulk UPDATE.  That statement *)
(* works on the rows it saw when it began, waits for those another session *)
(* has updated, and then tests each again (READ COMMITTED).                *)
(***************************************************************************)
EXTENDS Integers, FiniteSets, UnitOfWork

CONSTANT Writers        \* calls of set and rollback; each is made once

VARIABLES
  versionOf,            \* the version of the row a call has inserted, 0 if none
  active,               \* the rows with is_active, named by the call
  configPc,
  configAsk,            \* [op] or [op, target row]
  configRead,           \* greatest version, or is_active of the target, as read
  matched,              \* the rows the bulk update saw
  cleared,              \* the rows it has updated, locked until the commit
  \* history
  setRaced,             \* has a set overlapped with another write?
  cleanRollback         \* was the target of the last write, a rollback, active when read?

configTable == <<versionOf, active>>
configVars ==
  <<configTable, configPc, configAsk, configRead, matched, cleared, setRaced, cleanRollback>>

-------------------------------------------------------------------------------
NoConfigAsk == [op |-> "none"]
ConfigRows == {w \in Writers : versionOf[w] > 0}
MaxVersion == IF ConfigRows = {} THEN 0
              ELSE CHOOSE n \in {versionOf[w] : w \in ConfigRows} :
                     \A w \in ConfigRows : versionOf[w] <= n

Writing(w) == configPc[w] \in {"read", "matched", "cleared"}

ConfigInit ==
  /\ versionOf = [w \in Writers |-> 0] /\ active = {}
  /\ configPc = [w \in Writers |-> "idle"]
  /\ configAsk = [w \in Writers |-> NoConfigAsk]
  /\ configRead = [w \in Writers |-> 0]
  /\ matched = [w \in Writers |-> {}] /\ cleared = [w \in Writers |-> {}]
  /\ setRaced = FALSE /\ cleanRollback = FALSE

-------------------------------------------------------------------------------
BeginWrite(w, ask, read) ==
  /\ configPc[w] = "idle"
  /\ configPc' = [configPc EXCEPT ![w] = "read"]
  /\ configAsk' = [configAsk EXCEPT ![w] = ask]
  /\ configRead' = [configRead EXCEPT ![w] = read]
  /\ setRaced' = (setRaced \/ \E v \in Writers :
                    Writing(v) /\ "set" \in {ask.op, configAsk[v].op})
  /\ UNCHANGED <<configTable, matched, cleared, cleanRollback>>

SetRead(w) == BeginWrite(w, [op |-> "set"], MaxVersion)

RollbackRead(w, target) ==
  /\ target \in ConfigRows
  /\ BeginWrite(w, [op |-> "rollback", target |-> target], IF target \in active THEN 1 ELSE 0)

(* The bulk update begins: a set matches the active rows, a rollback all.  *)
(* Mutant of Matching: a set clears only the version before its own.       *)
MatchingPrevious(w) ==
  IF configAsk[w].op = "set"
  THEN {v \in active : versionOf[v] = configRead[w]}
  ELSE ConfigRows

Matching(w) == IF configAsk[w].op = "set" THEN active ELSE ConfigRows

BulkMatch(w) ==
  /\ configPc[w] = "read"
  /\ matched' = [matched EXCEPT ![w] = Matching(w)]
  /\ configPc' = [configPc EXCEPT ![w] = "matched"]
  /\ UNCHANGED <<configTable, configAsk, configRead, cleared, setRaced, cleanRollback>>

BulkClear(w) ==
  /\ configPc[w] = "matched"
  /\ \A v \in Writers \ {w} : cleared[v] \cap matched[w] = {}
  /\ cleared' = [cleared EXCEPT ![w] = matched[w] \cap Matching(w)]
  /\ configPc' = [configPc EXCEPT ![w] = "cleared"]
  /\ UNCHANGED <<configTable, configAsk, configRead, matched, setRaced, cleanRollback>>

EndWrite(w, outcome) ==
  /\ configPc' = [configPc EXCEPT ![w] = outcome]
  /\ cleared' = [cleared EXCEPT ![w] = {}]
  /\ UNCHANGED <<configAsk, configRead, matched, setRaced>>

(* Mutant of SetCommit: the number is not incremented.                     *)
SetCommitSame(w) ==
  /\ configPc[w] = "cleared" /\ configAsk[w].op = "set"
  /\ EndWrite(w, "done")
  /\ versionOf' = [versionOf EXCEPT ![w] = IF configRead[w] = 0 THEN 1 ELSE configRead[w]]
  /\ active' = (active \ cleared[w]) \cup {w}
  /\ cleanRollback' = FALSE

SetCommit(w) ==
  /\ configPc[w] = "cleared" /\ configAsk[w].op = "set"
  /\ EndWrite(w, "done")
  /\ versionOf' = [versionOf EXCEPT ![w] = configRead[w] + 1]
  /\ active' = (active \ cleared[w]) \cup {w}
  /\ cleanRollback' = FALSE

(* The bulk update goes round the session, so the target still shows what  *)
(* was read: if that was active, nothing is flushed for it.                *)
RollbackCommit(w) ==
  LET target == configAsk[w].target
      left == active \ cleared[w]
      isActive == IF target \in left THEN 1 ELSE 0
  IN /\ configPc[w] = "cleared" /\ configAsk[w].op = "rollback"
     /\ EndWrite(w, "done")
     /\ active' = IF Column(isActive, configRead[w], 1) = 1 THEN left \cup {target} ELSE left
     /\ cleanRollback' = (configRead[w] = 1)
     /\ UNCHANGED versionOf

WriteFails(w) ==
  Writing(w) /\ EndWrite(w, "failed") /\ UNCHANGED <<configTable, cleanRollback>>

ConfigNext ==
  \E w \in Writers :
    \/ SetRead(w) \/ BulkMatch(w) \/ BulkClear(w)
    \/ SetCommit(w) \/ RollbackCommit(w) \/ WriteFails(w)
    \/ \E target \in Writers : RollbackRead(w, target)

ConfigSpec == ConfigInit /\ [][ConfigNext]_configVars

-------------------------------------------------------------------------------
(* Every variable has its type.                                            *)
ConfigTypeOK ==
  /\ versionOf \in [Writers -> Nat] /\ active \subseteq ConfigRows
  /\ configPc \in [Writers -> {"idle", "read", "matched", "cleared", "done", "failed"}]
  /\ configAsk \in [Writers -> {NoConfigAsk} \cup [op : {"set"}]
                     \cup [op : {"rollback"}, target : Writers]]
  /\ configRead \in [Writers -> Nat]
  /\ matched \in [Writers -> SUBSET ConfigRows] /\ cleared \in [Writers -> SUBSET ConfigRows]
  /\ setRaced \in BOOLEAN /\ cleanRollback \in BOOLEAN

(* Unless a set overlapped with another write, exactly one version is      *)
(* active, even when rollbacks overlap; but none is after a rollback to    *)
(* the version that was active already.                                    *)
OneActive ==
  ~setRaced /\ ConfigRows # {} =>
    Cardinality(active) = IF cleanRollback THEN 0 ELSE 1

(* Unless a set overlapped with another write, the versions are numbered   *)
(* from 1 without gaps or doubles: nothing but the order of reads and      *)
(* commits keeps two rows from one number.                                 *)
ConfigsNumbered ==
  ~setRaced =>
    /\ {versionOf[w] : w \in ConfigRows} = 1..Cardinality(ConfigRows)
    /\ \A v, w \in ConfigRows : versionOf[v] = versionOf[w] => v = w
===============================================================================
