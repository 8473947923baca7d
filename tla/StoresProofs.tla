----------------------------- MODULE StoresProofs -----------------------------
(***************************************************************************)
(* Theorems about the two stores: the operation configuration, for any     *)
(* number of writers, and the features, for any calls, entities and values *)
(* and any time to live.                                                   *)
(***************************************************************************)
EXTENDS Configs, Features, FiniteSetTheorems, TLAPS

(* Configs.                                                                *)

ConfigAsks == [op : {"set"}] \cup [op : {"rollback"}, target : Writers]
Setting(w) == Writing(w) /\ configAsk[w].op = "set"
RollingBack(w) == Writing(w) /\ configAsk[w].op = "rollback"

(* A row is there once its writer is done; there is a greatest version;    *)
(* and the target of a rollback exists.                                    *)
RowsOfTheDone ==
  /\ IsFiniteSet(ConfigRows)
  /\ \A w \in ConfigRows : configPc[w] = "done"
HasMax ==
  ConfigRows # {} => \E m \in ConfigRows : \A w \in ConfigRows : versionOf[w] <= versionOf[m]
ConfigSessions ==
  \A w \in Writers : Writing(w) =>
    configAsk[w] \in ConfigAsks /\ (configAsk[w].op = "rollback" => configAsk[w].target \in ConfigRows)

(* A set that does not overlap is alone: it has read the greatest version, *)
(* and has locked the active row.  A rollback locks them all.              *)
SetsAlone ==
  ~setRaced => \A v, w \in Writers : Setting(v) /\ Writing(w) => v = w
SetsHold ==
  ~setRaced => \A w \in Writers : Setting(w) =>
    /\ configRead[w] = Cardinality(ConfigRows)
    /\ configPc[w] = "matched" => matched[w] = active
    /\ configPc[w] = "cleared" => cleared[w] = active
RollbacksHold ==
  ~setRaced => \A w \in Writers : RollingBack(w) =>
    /\ configPc[w] = "matched" => matched[w] = ConfigRows
    /\ configPc[w] = "cleared" => cleared[w] = ConfigRows

ConfigInv ==
  /\ ConfigTypeOK /\ RowsOfTheDone /\ HasMax /\ ConfigSessions
  /\ SetsAlone /\ SetsHold /\ RollbacksHold
  /\ OneActive /\ ConfigsNumbered

LEMMA InitConfigInv == ConfigInit => ConfigInv
<1> SUFFICES ASSUME ConfigInit PROVE ConfigInv
  OBVIOUS
<1>1. ConfigRows = {} /\ \A w \in Writers : ~Writing(w)
  BY DEF ConfigInit, ConfigRows, Writing
<1>2. ConfigTypeOK
  BY <1>1 DEF ConfigInit, ConfigTypeOK
<1>3. IsFiniteSet(ConfigRows) /\ Cardinality(ConfigRows) = 0
  BY <1>1, FS_EmptySet
<1>4. RowsOfTheDone /\ HasMax /\ ConfigSessions /\ SetsAlone /\ SetsHold /\ RollbacksHold
  BY <1>1, <1>3 DEF RowsOfTheDone, HasMax, ConfigSessions, SetsAlone, SetsHold, RollbacksHold,
                    Setting, RollingBack
<1>5. OneActive /\ ConfigsNumbered
  BY <1>1, <1>3 DEF OneActive, ConfigsNumbered
<1> QED
  BY <1>2, <1>4, <1>5 DEF ConfigInv

(* What MaxVersion is: a number, and how many rows there are.              *)
LEMMA GreatestVersion ==
  ASSUME ConfigInv
  PROVE  MaxVersion \in Nat /\ (~setRaced => MaxVersion = Cardinality(ConfigRows))
<1>1. CASE ConfigRows = {}
  BY <1>1, FS_EmptySet DEF MaxVersion
<1>2. CASE ConfigRows # {}
  <2> DEFINE numbers == {versionOf[w] : w \in ConfigRows}
  <2>1. \A w \in ConfigRows : versionOf[w] \in Nat
    BY DEF ConfigRows, ConfigInv, ConfigTypeOK
  <2>2. \E n \in numbers : \A w \in ConfigRows : versionOf[w] <= n
    BY <1>2 DEF ConfigInv, HasMax
  <2>3. MaxVersion \in numbers /\ \A w \in ConfigRows : versionOf[w] <= MaxVersion
    BY <1>2, <2>2 DEF MaxVersion
  <2>4. MaxVersion \in Nat
    BY <2>1, <2>3
  <2>5. ASSUME ~setRaced PROVE MaxVersion = Cardinality(ConfigRows)
    <3> DEFINE N == Cardinality(ConfigRows)
    <3>1. N \in Nat /\ N # 0
      BY <1>2, FS_CardinalityType, FS_EmptySet DEF ConfigInv, RowsOfTheDone
    <3>2. numbers = 1..N
      BY <2>5 DEF ConfigInv, ConfigsNumbered
    <3>3. N \in numbers /\ MaxVersion \in 1..N
      BY <2>3, <3>1, <3>2
    <3>4. N <= MaxVersion
      BY <2>3, <3>3
    <3> QED
      BY <3>1, <3>3, <3>4
  <2> QED BY <2>4, <2>5
<1> QED BY <1>1, <1>2

-------------------------------------------------------------------------------
(* As long as a session writes nothing, the table and what was known of it *)
(* stay.                                                                   *)
LEMMA ConfigTableStays ==
  ASSUME ConfigInv, UNCHANGED <<configTable, cleanRollback>>, setRaced => setRaced',
         \A w \in Writers : configPc[w] = "done" => configPc'[w] = "done"
  PROVE  /\ ConfigRows' = ConfigRows
         /\ RowsOfTheDone' /\ HasMax' /\ OneActive' /\ ConfigsNumbered'
<1>1. ConfigRows' = ConfigRows /\ versionOf' = versionOf /\ active' = active
  BY DEF configTable, ConfigRows
<1>2. ConfigRows \subseteq Writers
  BY DEF ConfigRows
<1> QED
  BY <1>1, <1>2 DEF ConfigInv, RowsOfTheDone, HasMax, OneActive, ConfigsNumbered

LEMMA ConfigBeginKeeps ==
  ASSUME ConfigInv, NEW w \in Writers, NEW ask \in ConfigAsks, NEW read \in Nat, BeginWrite(w, ask, read),
         ask.op = "set" /\ ~setRaced => read = Cardinality(ConfigRows),
         ask.op = "rollback" => ask.target \in ConfigRows
  PROVE  ConfigInv'
<1>1. /\ configPc[w] = "idle"
      /\ configPc' = [configPc EXCEPT ![w] = "read"]
      /\ configAsk' = [configAsk EXCEPT ![w] = ask]
      /\ configRead' = [configRead EXCEPT ![w] = read]
      /\ setRaced' = (setRaced \/ \E v \in Writers :
                        Writing(v) /\ "set" \in {ask.op, configAsk[v].op})
      /\ UNCHANGED <<configTable, versionOf, active, matched, cleared, cleanRollback>>
  BY DEF BeginWrite, configTable
<1>2. /\ configPc'[w] = "read" /\ configAsk'[w] = ask /\ configRead'[w] = read
      /\ \A v \in Writers \ {w} :
           configPc'[v] = configPc[v] /\ configAsk'[v] = configAsk[v] /\ configRead'[v] = configRead[v]
  BY <1>1 DEF ConfigInv, ConfigTypeOK
<1>3. ConfigRows' = ConfigRows /\ RowsOfTheDone' /\ HasMax' /\ OneActive' /\ ConfigsNumbered'
  BY <1>1, <1>2, ConfigTableStays
<1>4. ConfigTypeOK'
  <2>1. configAsk' \in [Writers -> {NoConfigAsk} \cup [op : {"set"}] \cup [op : {"rollback"}, target : Writers]]
    BY <1>1 DEF ConfigInv, ConfigTypeOK, ConfigAsks
  <2>2. configPc' \in [Writers -> {"idle", "read", "matched", "cleared", "done", "failed"}]
    BY <1>1 DEF ConfigInv, ConfigTypeOK
  <2>3. setRaced' \in BOOLEAN
    BY <1>1 DEF ConfigInv, ConfigTypeOK
  <2>4. configRead' \in [Writers -> Nat]
    BY <1>1 DEF ConfigInv, ConfigTypeOK
  <2> QED
    BY <1>1, <1>3, <2>1, <2>2, <2>3, <2>4 DEF ConfigInv, ConfigTypeOK
<1>5. /\ \A v \in Writers \ {w} : /\ Writing(v)' <=> Writing(v)
                                  /\ Setting(v)' <=> Setting(v)
                                  /\ RollingBack(v)' <=> RollingBack(v)
      /\ ~Writing(w)
      /\ Setting(w)' => ask.op = "set"
  BY <1>1, <1>2 DEF Writing, Setting, RollingBack
<1>6. ConfigSessions'
  BY <1>2, <1>3, <1>5 DEF ConfigInv, ConfigSessions, Writing
<1>7. SetsAlone'
  <2> SUFFICES ASSUME ~setRaced', NEW u \in Writers, NEW v \in Writers, Setting(u)', Writing(v)'
               PROVE  u = v
    BY DEF SetsAlone
  <2>1. CASE u # w /\ v # w
    BY <1>1, <1>5, <2>1 DEF ConfigInv, SetsAlone
  <2>2. CASE u = w /\ v # w
    BY <1>1, <1>5, <2>2
  <2>3. CASE v = w /\ u # w
    BY <1>1, <1>5, <2>3 DEF Setting
  <2> QED BY <2>1, <2>2, <2>3
<1>8. SetsHold'
  BY <1>1, <1>2, <1>3, <1>5 DEF ConfigInv, SetsHold
<1>9. RollbacksHold'
  BY <1>1, <1>2, <1>3, <1>5 DEF ConfigInv, RollbacksHold
<1> QED
  BY <1>3, <1>4, <1>6, <1>7, <1>8, <1>9 DEF ConfigInv

(* The two steps of the bulk update.                                       *)
LEMMA ConfigBulkKeeps ==
  ASSUME ConfigInv, NEW w \in Writers, BulkMatch(w) \/ BulkClear(w)
  PROVE  ConfigInv'
<1>1. /\ Writing(w) /\ configPc' \in [Writers -> {"idle", "read", "matched", "cleared", "done", "failed"}]
      /\ configPc'[w] \in {"matched", "cleared"}
      /\ \A v \in Writers \ {w} : configPc'[v] = configPc[v]
      /\ UNCHANGED <<configTable, versionOf, active, configAsk, configRead, setRaced, cleanRollback>>
  BY DEF BulkMatch, BulkClear, Writing, configTable, ConfigInv, ConfigTypeOK
<1>2. active \subseteq ConfigRows /\ Matching(w) \subseteq ConfigRows
  BY DEF Matching, ConfigInv, ConfigTypeOK
<1>3. /\ matched' \in [Writers -> SUBSET ConfigRows] /\ cleared' \in [Writers -> SUBSET ConfigRows]
      /\ \A v \in Writers \ {w} : matched'[v] = matched[v] /\ cleared'[v] = cleared[v]
  BY <1>2 DEF BulkMatch, BulkClear, ConfigInv, ConfigTypeOK
<1>4. /\ configPc'[w] = "matched" => matched'[w] = Matching(w)
      /\ configPc'[w] = "cleared" => configPc[w] = "matched" /\ cleared'[w] = matched[w] \cap Matching(w)
  BY DEF BulkMatch, BulkClear, ConfigInv, ConfigTypeOK
<1>5. ConfigRows' = ConfigRows /\ RowsOfTheDone' /\ HasMax' /\ OneActive' /\ ConfigsNumbered'
  <2>1. \A v \in Writers : configPc[v] = "done" => configPc'[v] = "done"
    BY <1>1 DEF Writing
  <2> QED
    BY <1>1, <2>1, ConfigTableStays
<1>6. ConfigTypeOK'
  BY <1>1, <1>3, <1>5 DEF ConfigInv, ConfigTypeOK
<1>7. /\ \A v \in Writers : /\ Writing(v)' <=> Writing(v)
                            /\ Setting(v)' <=> Setting(v)
                            /\ RollingBack(v)' <=> RollingBack(v)
  BY <1>1 DEF Writing, Setting, RollingBack
<1>8. ConfigSessions' /\ SetsAlone'
  BY <1>1, <1>5, <1>7 DEF ConfigInv, ConfigSessions, SetsAlone
<1>9. SetsHold'
  <2> SUFFICES ASSUME ~setRaced', NEW v \in Writers, Setting(v)'
               PROVE  /\ configRead'[v] = Cardinality(ConfigRows)
                      /\ configPc'[v] = "matched" => matched'[v] = active'
                      /\ configPc'[v] = "cleared" => cleared'[v] = active'
    BY <1>5 DEF SetsHold
  <2>1. CASE v # w
    BY <1>1, <1>3, <1>7, <2>1 DEF ConfigInv, SetsHold
  <2>2. CASE v = w
    BY <1>1, <1>4, <1>7, <2>2 DEF ConfigInv, SetsHold, Setting, Matching
  <2> QED BY <2>1, <2>2
<1>10. RollbacksHold'
  <2> SUFFICES ASSUME ~setRaced', NEW v \in Writers, RollingBack(v)'
               PROVE  /\ configPc'[v] = "matched" => matched'[v] = ConfigRows
                      /\ configPc'[v] = "cleared" => cleared'[v] = ConfigRows
    BY <1>5 DEF RollbacksHold
  <2>1. CASE v # w
    BY <1>1, <1>3, <1>7, <2>1 DEF ConfigInv, RollbacksHold
  <2>2. CASE v = w
    BY <1>1, <1>4, <1>7, <2>2 DEF ConfigInv, RollbacksHold, RollingBack, Matching
  <2> QED BY <2>1, <2>2
<1> QED
  BY <1>5, <1>6, <1>8, <1>9, <1>10 DEF ConfigInv

(* A session that ends leaves the others as they are.                      *)
LEMMA ConfigEndLeaves ==
  ASSUME ConfigInv, NEW w \in Writers, NEW outcome \in {"done", "failed"}, EndWrite(w, outcome), Writing(w)
  PROVE  /\ UNCHANGED <<configAsk, configRead, matched, setRaced>>
         /\ configPc'[w] = outcome /\ \A v \in Writers \ {w} : configPc'[v] = configPc[v]
         /\ configPc' \in [Writers -> {"idle", "read", "matched", "cleared", "done", "failed"}]
         /\ cleared' \in [Writers -> SUBSET ConfigRows]
         /\ \A v \in Writers \ {w} : cleared'[v] = cleared[v]
         /\ \A v \in Writers : /\ Writing(v)' => Writing(v) /\ v # w
                               /\ Setting(v)' => Setting(v) /\ v # w
                               /\ RollingBack(v)' => RollingBack(v) /\ v # w
         /\ SetsAlone'
<1>1. /\ UNCHANGED <<configAsk, configRead, matched, setRaced>>
      /\ configPc'[w] = outcome /\ \A v \in Writers \ {w} : configPc'[v] = configPc[v]
      /\ configPc' \in [Writers -> {"idle", "read", "matched", "cleared", "done", "failed"}]
      /\ cleared' \in [Writers -> SUBSET ConfigRows]
      /\ \A v \in Writers \ {w} : cleared'[v] = cleared[v]
  BY DEF EndWrite, ConfigInv, ConfigTypeOK
<1>2. \A v \in Writers : /\ Writing(v)' => Writing(v) /\ v # w
                         /\ Setting(v)' => Setting(v) /\ v # w
                         /\ RollingBack(v)' => RollingBack(v) /\ v # w
  BY <1>1 DEF Writing, Setting, RollingBack
<1>3. SetsAlone'
  BY <1>1, <1>2 DEF ConfigInv, SetsAlone
<1> QED
  BY <1>1, <1>2, <1>3

LEMMA ConfigSetKeeps ==
  ASSUME ConfigInv, NEW w \in Writers, SetCommit(w)
  PROVE  ConfigInv'
<1> DEFINE n == configRead[w] + 1
<1>1. /\ configPc[w] = "cleared" /\ Setting(w) /\ EndWrite(w, "done")
      /\ versionOf' = [versionOf EXCEPT ![w] = n]
      /\ active' = (active \ cleared[w]) \cup {w}
      /\ cleanRollback' = FALSE /\ n \in Nat /\ n > 0
  BY DEF SetCommit, Setting, Writing, ConfigInv, ConfigTypeOK
<1>2. /\ UNCHANGED <<configAsk, configRead, matched, setRaced>>
      /\ configPc'[w] = "done" /\ \A v \in Writers \ {w} : configPc'[v] = configPc[v]
      /\ configPc' \in [Writers -> {"idle", "read", "matched", "cleared", "done", "failed"}]
      /\ cleared' \in [Writers -> SUBSET ConfigRows]
      /\ \A v \in Writers : /\ Writing(v)' => Writing(v) /\ v # w
                            /\ Setting(v)' => Setting(v) /\ v # w
                            /\ RollingBack(v)' => RollingBack(v) /\ v # w
      /\ SetsAlone'
  BY <1>1, ConfigEndLeaves DEF Setting
<1>3. w \notin ConfigRows
  BY <1>1 DEF ConfigInv, RowsOfTheDone
<1>4. /\ versionOf'[w] = n /\ \A v \in ConfigRows : versionOf'[v] = versionOf[v]
      /\ ConfigRows' = ConfigRows \cup {w} /\ versionOf' \in [Writers -> Nat]
  BY <1>1, <1>3 DEF ConfigRows, ConfigInv, ConfigTypeOK
<1>5. ConfigTypeOK'
  <2>1. active' \subseteq ConfigRows'
    BY <1>1, <1>4 DEF ConfigInv, ConfigTypeOK
  <2>2. cleared' \in [Writers -> SUBSET ConfigRows'] /\ matched' \in [Writers -> SUBSET ConfigRows']
    BY <1>2, <1>4 DEF ConfigInv, ConfigTypeOK
  <2> QED
    BY <1>1, <1>2, <1>4, <2>1, <2>2 DEF ConfigInv, ConfigTypeOK
<1>6. RowsOfTheDone'
  <2>1. IsFiniteSet(ConfigRows')
    BY <1>4, FS_AddElement DEF ConfigInv, RowsOfTheDone
  <2> QED
    BY <1>2, <1>3, <1>4, <2>1 DEF ConfigInv, RowsOfTheDone, ConfigRows
<1>7. HasMax'
  <2>1. \A v \in ConfigRows : versionOf[v] \in Nat
    BY DEF ConfigRows, ConfigInv, ConfigTypeOK
  <2>2. CASE \A v \in ConfigRows : versionOf[v] <= n
    BY <1>1, <1>4, <2>2 DEF HasMax
  <2>3. CASE \E v \in ConfigRows : ~(versionOf[v] <= n)
    <3>1. PICK m \in ConfigRows : \A v \in ConfigRows : versionOf[v] <= versionOf[m]
      BY <2>3 DEF ConfigInv, HasMax
    <3>2. n <= versionOf[m]
      BY <1>1, <2>1, <2>3, <3>1
    <3> QED
      BY <1>4, <3>1, <3>2 DEF HasMax
  <2> QED BY <2>2, <2>3
<1>8. ConfigSessions'
  BY <1>2, <1>4 DEF ConfigInv, ConfigSessions
<1>9. ~setRaced' => \A v \in Writers : ~Writing(v)'
  BY <1>1, <1>2 DEF ConfigInv, SetsAlone
<1>10. SetsHold' /\ RollbacksHold'
  BY <1>9 DEF SetsHold, RollbacksHold, Setting, RollingBack
<1>11. OneActive'
  <2>1. ~setRaced => active' = {w}
    BY <1>1 DEF ConfigInv, SetsHold
  <2>2. Cardinality({w}) = 1
    BY FS_Singleton
  <2> QED
    BY <1>1, <1>2, <2>1, <2>2 DEF OneActive
<1>12. ConfigsNumbered'
  <2> SUFFICES ASSUME ~setRaced
               PROVE  /\ {versionOf'[v] : v \in ConfigRows'} = 1..Cardinality(ConfigRows')
                      /\ \A u, v \in ConfigRows' : versionOf'[u] = versionOf'[v] => u = v
    BY <1>2 DEF ConfigsNumbered
  <2> DEFINE N == Cardinality(ConfigRows)
  <2>1. /\ N \in Nat /\ n = N + 1 /\ Cardinality(ConfigRows') = N + 1
    BY <1>1, <1>3, <1>4, FS_AddElement, FS_CardinalityType
    DEF ConfigInv, RowsOfTheDone, SetsHold
  <2>2. /\ {versionOf[v] : v \in ConfigRows} = 1..N
        /\ \A u, v \in ConfigRows : versionOf[u] = versionOf[v] => u = v
    BY DEF ConfigInv, ConfigsNumbered
  <2>3. {versionOf'[v] : v \in ConfigRows'} = {versionOf[v] : v \in ConfigRows} \cup {n}
    BY <1>4
  <2>4. \A v \in ConfigRows : versionOf[v] \in 1..N
    BY <2>2
  <2>5. 1..(N + 1) = 1..N \cup {N + 1}
    BY <2>1
  <2> HIDE DEF N, n
  <2>6. \A u, v \in ConfigRows' : versionOf'[u] = versionOf'[v] => u = v
    BY <1>4, <2>1, <2>2, <2>4
  <2> QED
    BY <2>1, <2>2, <2>3, <2>5, <2>6
<1> QED
  BY <1>2, <1>5, <1>6, <1>7, <1>8, <1>10, <1>11, <1>12 DEF ConfigInv

LEMMA ConfigRollbackKeeps ==
  ASSUME ConfigInv, NEW w \in Writers, RollbackCommit(w)
  PROVE  ConfigInv'
<1> DEFINE target == configAsk[w].target
           left == active \ cleared[w]
           isActive == IF target \in left THEN 1 ELSE 0
<1>1. /\ configPc[w] = "cleared" /\ RollingBack(w) /\ EndWrite(w, "done")
      /\ active' = IF Column(isActive, configRead[w], 1) = 1 THEN left \cup {target} ELSE left
      /\ cleanRollback' = (configRead[w] = 1)
      /\ UNCHANGED versionOf
  BY DEF RollbackCommit, RollingBack, Writing
<1>2. /\ UNCHANGED <<configAsk, configRead, matched, setRaced>>
      /\ configPc'[w] = "done" /\ \A v \in Writers \ {w} : configPc'[v] = configPc[v]
      /\ configPc' \in [Writers -> {"idle", "read", "matched", "cleared", "done", "failed"}]
      /\ cleared' \in [Writers -> SUBSET ConfigRows]
      /\ \A v \in Writers \ {w} : cleared'[v] = cleared[v]
      /\ \A v \in Writers : /\ Writing(v)' => Writing(v) /\ v # w
                            /\ Setting(v)' => Setting(v) /\ v # w
                            /\ RollingBack(v)' => RollingBack(v) /\ v # w
      /\ SetsAlone'
  BY <1>1, ConfigEndLeaves DEF RollingBack
<1>3. ConfigRows' = ConfigRows
  BY <1>1 DEF ConfigRows
<1>4. target \in ConfigRows
  BY <1>1 DEF ConfigInv, ConfigSessions, RollingBack
<1>5. ConfigTypeOK'
  <2>1. active' \subseteq ConfigRows
    BY <1>1, <1>4 DEF ConfigInv, ConfigTypeOK
  <2> QED
    BY <1>1, <1>2, <1>3, <2>1 DEF ConfigInv, ConfigTypeOK
<1>6. RowsOfTheDone' /\ HasMax' /\ ConfigSessions' /\ ConfigsNumbered'
  BY <1>1, <1>2, <1>3
  DEF ConfigInv, RowsOfTheDone, HasMax, ConfigSessions, ConfigsNumbered, ConfigRows
<1>7. SetsHold' /\ RollbacksHold'
  <2>1. ~setRaced => \A v \in Writers : ~Setting(v)'
    BY <1>1, <1>2 DEF ConfigInv, SetsAlone, RollingBack
  <2> QED
    BY <1>2, <1>3, <2>1 DEF ConfigInv, SetsHold, RollbacksHold
<1>8. OneActive'
  <2> SUFFICES ASSUME ~setRaced
               PROVE  Cardinality(active') = IF cleanRollback' THEN 0 ELSE 1
    BY <1>2 DEF OneActive
  <2>1. left = {}
    BY <1>1 DEF ConfigInv, RollbacksHold, ConfigTypeOK
  <2>2. active' = IF configRead[w] = 1 THEN {} ELSE {target}
    BY <1>1, <2>1 DEF Column
  <2>3. Cardinality({target}) = 1
    BY FS_Singleton
  <2>4. Cardinality({}) = 0
    BY FS_EmptySet
  <2> QED
    BY <1>1, <2>2, <2>3, <2>4
<1> QED
  BY <1>2, <1>5, <1>6, <1>7, <1>8 DEF ConfigInv

LEMMA ConfigRestKeeps ==
  ASSUME ConfigInv, (\E w \in Writers : WriteFails(w)) \/ UNCHANGED configVars
  PROVE  ConfigInv'
<1>1. CASE UNCHANGED configVars
  BY <1>1
  DEF configVars, configTable, ConfigInv, ConfigTypeOK, ConfigRows, RowsOfTheDone, HasMax,
      ConfigSessions,
      SetsAlone, SetsHold, RollbacksHold, Setting, RollingBack, Writing, OneActive, ConfigsNumbered
<1>2. ASSUME NEW w \in Writers, WriteFails(w) PROVE ConfigInv'
  <2>1. /\ Writing(w) /\ EndWrite(w, "failed")
        /\ UNCHANGED <<configTable, versionOf, active, cleanRollback>>
    BY <1>2 DEF WriteFails, configTable
  <2>2. /\ UNCHANGED <<configAsk, configRead, matched, setRaced>>
        /\ configPc'[w] = "failed" /\ \A v \in Writers \ {w} : configPc'[v] = configPc[v]
        /\ configPc' \in [Writers -> {"idle", "read", "matched", "cleared", "done", "failed"}]
        /\ cleared' \in [Writers -> SUBSET ConfigRows]
        /\ \A v \in Writers \ {w} : cleared'[v] = cleared[v]
        /\ \A v \in Writers : /\ Writing(v)' => Writing(v) /\ v # w
                              /\ Setting(v)' => Setting(v) /\ v # w
                              /\ RollingBack(v)' => RollingBack(v) /\ v # w
        /\ SetsAlone'
    BY <2>1, ConfigEndLeaves
  <2>3. ConfigRows' = ConfigRows /\ RowsOfTheDone' /\ HasMax' /\ OneActive' /\ ConfigsNumbered'
    <3>1. \A v \in Writers : configPc[v] = "done" => configPc'[v] = "done"
      BY <2>1, <2>2 DEF Writing
    <3> QED
      BY <2>1, <2>2, <3>1, ConfigTableStays
  <2>4. ConfigTypeOK'
    BY <2>1, <2>2, <2>3 DEF ConfigInv, ConfigTypeOK
  <2>5. ConfigSessions' /\ SetsHold' /\ RollbacksHold'
    BY <2>1, <2>2, <2>3 DEF ConfigInv, ConfigSessions, SetsHold, RollbacksHold
  <2> QED
    BY <2>2, <2>3, <2>4, <2>5 DEF ConfigInv
<1> QED BY <1>1, <1>2

LEMMA StepConfigInv == ConfigInv /\ [ConfigNext]_configVars => ConfigInv'
<1> SUFFICES ASSUME ConfigInv, [ConfigNext]_configVars PROVE ConfigInv'
  OBVIOUS
<1>1. ASSUME NEW w \in Writers, SetRead(w) PROVE ConfigInv'
  <2>1. [op |-> "set"] \in ConfigAsks
    BY DEF ConfigAsks
  <2> QED
    BY <1>1, <2>1, GreatestVersion, ConfigBeginKeeps DEF SetRead
<1>2. ASSUME NEW w \in Writers, NEW target \in Writers, RollbackRead(w, target) PROVE ConfigInv'
  <2> DEFINE read == IF target \in active THEN 1 ELSE 0
  <2>1. [op |-> "rollback", target |-> target] \in ConfigAsks /\ read \in Nat
    BY DEF ConfigAsks
  <2>2. target \in ConfigRows /\ BeginWrite(w, [op |-> "rollback", target |-> target], read)
    BY <1>2 DEF RollbackRead
  <2> HIDE DEF read
  <2> QED
    BY <2>1, <2>2, ConfigBeginKeeps
<1> QED
  BY <1>1, <1>2, ConfigBulkKeeps, ConfigSetKeeps, ConfigRollbackKeeps, ConfigRestKeeps
  DEF ConfigNext

LEMMA ConfigInvariance == ConfigSpec => []ConfigInv
BY InitConfigInv, StepConfigInv, PTL DEF ConfigSpec

-------------------------------------------------------------------------------
(* The table and the sessions keep their types.                            *)
THEOREM ConfigTypes == ConfigSpec => []ConfigTypeOK
BY ConfigInvariance, PTL DEF ConfigInv

(* Unless a set overlaps, one version is active, or none after a rollback  *)
(* to the active one.                                                      *)
THEOREM OneIsActive == ConfigSpec => []OneActive
BY ConfigInvariance, PTL DEF ConfigInv

(* Unless a set overlaps, the versions are numbered without gaps.          *)
THEOREM NumberedInARow == ConfigSpec => []ConfigsNumbered
BY ConfigInvariance, PTL DEF ConfigInv

-------------------------------------------------------------------------------
(* Features.                                                               *)

Upserts == [op : {"upsert"}, entity : Entities, value : Values, expires : Nat]
Scans == [entity : Entities, row : HotRows]
OwnsEntity(c, e) == featurePc[c] = "done" /\ featureAsk[c] \in Upserts /\ featureAsk[c].entity = e

(* A row has the name of the finished call that inserted it, so its id     *)
(* tells its entity.                                                       *)
RowsOwned ==
  /\ \A e \in Entities : hot[e] # NoRow => OwnsEntity(hot[e].id, e)
  /\ \A c \in FeatureCalls, s \in Scans : s \in scanned[c] => OwnsEntity(s.row.id, s.entity)
  /\ \A r \in cold : OwnsEntity(r.id, r.entity)
HashesRead == \A c \in FeatureCalls : readHot[c] # NoRow => readHot[c].hash = Hash(readHot[c].value)

(* An upsert and another call in flight have marked its entity as raced;   *)
(* otherwise what a call has read still holds.                             *)
UpsertAlone ==
  \A c, d \in FeatureCalls, e \in Entities :
    Upserting(c, e) /\ c # d /\ (Upserting(d, e) \/ Compacting(d)) => upsertRaced[e]
UpsertCurrent ==
  /\ \A c \in FeatureCalls, e \in Entities :
       Upserting(c, e) /\ ~upsertRaced[e] => readHot[c] = hot[e]
  /\ \A c \in FeatureCalls, s \in Scans :
       /\ Compacting(c) /\ s \in scanned[c] /\ ~upsertRaced[s.entity]
       /\ hot[s.entity] # NoRow /\ hot[s.entity].id = s.row.id
       => hot[s.entity].value = s.row.value

(* A compaction has found each row once; and, alone, none that is cold.    *)
OneScan ==
  /\ \A c \in FeatureCalls, s, t \in Scans :
       {s, t} \subseteq scanned[c] /\ s.row.id = t.row.id => s = t
  /\ ~scanRaced => \A c \in FeatureCalls : Compacting(c) =>
       /\ \A d \in FeatureCalls : Compacting(d) => c = d
       /\ \A s \in Scans, r \in cold : s \in scanned[c] => r.id # s.row.id

FeatureInv ==
  /\ FeatureTypeOK /\ RowsOwned /\ HashesRead /\ UpsertAlone /\ UpsertCurrent /\ OneScan
  /\ HashAgrees /\ LatestKept /\ ArchivedOnce

LEMMA InitFeatureInv == FeatureInit => FeatureInv
<1> SUFFICES ASSUME FeatureInit PROVE FeatureInv
  OBVIOUS
<1>1. /\ \A c \in FeatureCalls : featurePc[c] = "idle" /\ readHot[c] = NoRow /\ scanned[c] = {}
      /\ \A e \in Entities : hot[e] = NoRow /\ latest[e] = NoValue
      /\ cold = {}
  BY DEF FeatureInit
<1>2. FeatureTypeOK
  <2>1. scanned \in [FeatureCalls -> SUBSET [entity : Entities, row : HotRows]]
    BY DEF FeatureInit
  <2>2. hot \in [Entities -> {NoRow} \cup HotRows] /\ latest \in [Entities -> Values \cup {NoValue}]
    BY DEF FeatureInit
  <2>3. readHot \in [FeatureCalls -> {NoRow} \cup HotRows]
    BY DEF FeatureInit
  <2>4. featureAsk \in [FeatureCalls -> {NoFeatureAsk} \cup [op : {"compact"}]
          \cup [op : {"upsert"}, entity : Entities, value : Values, expires : Nat]]
    BY DEF FeatureInit
  <2>5. /\ cold = {} /\ tick \in 0..MaxTick /\ scanRaced \in BOOLEAN
        /\ featurePc \in [FeatureCalls -> {"idle", "read", "done", "failed"}]
        /\ upsertRaced \in [Entities -> BOOLEAN]
    <3>1. tick = 0 /\ 0 \in 0..MaxTick
      BY FeatureAssumption DEF FeatureInit
    <3>2. featurePc \in [FeatureCalls -> {"idle", "read", "done", "failed"}]
      BY DEF FeatureInit
    <3>3. cold = {} /\ scanRaced \in BOOLEAN /\ upsertRaced \in [Entities -> BOOLEAN]
      BY DEF FeatureInit
    <3> QED BY <3>1, <3>2, <3>3
  <2>6. cold \subseteq [entity : Entities, id : FeatureCalls, value : Values, by : FeatureCalls]
    BY <2>5
  <2> QED
    BY <2>1, <2>2, <2>3, <2>4, <2>5, <2>6, Zenon DEF FeatureTypeOK
<1>3. RowsOwned /\ HashesRead /\ UpsertAlone /\ UpsertCurrent /\ OneScan
  BY <1>1 DEF RowsOwned, HashesRead, UpsertAlone, UpsertCurrent, OneScan, Upserting, Compacting
<1>4. HashAgrees /\ LatestKept /\ ArchivedOnce
  BY <1>1 DEF HashAgrees, LatestKept, ArchivedOnce
<1> QED
  BY <1>2, <1>3, <1>4 DEF FeatureInv

LEMMA FeatureSessions ==
  ASSUME FeatureTypeOK, NEW c \in FeatureCalls, NEW e, Upserting(c, e)
  PROVE  featureAsk[c] \in Upserts /\ e = featureAsk[c].entity /\ e \in Entities
BY DEF FeatureTypeOK, Upserting, Upserts, NoFeatureAsk

LEMMA FeatureRows == \A row \in HotRows : row # NoRow /\ row.id # "none" /\ row.id \in FeatureCalls
BY FeatureAssumption DEF HotRows, NoRow

-------------------------------------------------------------------------------
LEMMA UpsertReadKeeps ==
  ASSUME FeatureInv, NEW c \in FeatureCalls, NEW e \in Entities, NEW v \in Values, UpsertRead(c, e, v)
  PROVE  FeatureInv'
<1> DEFINE ask == [op |-> "upsert", entity |-> e, value |-> v, expires |-> tick + Ttl]
<1>1. /\ featurePc[c] = "idle"
      /\ featurePc' = [featurePc EXCEPT ![c] = "read"]
      /\ featureAsk' = [featureAsk EXCEPT ![c] = ask]
      /\ readHot' = [readHot EXCEPT ![c] = hot[e]]
      /\ upsertRaced' = [upsertRaced EXCEPT ![e] =
           @ \/ \E d \in FeatureCalls : Upserting(d, e) \/ Compacting(d)]
      /\ UNCHANGED <<hot, cold, tick, scanned, latest, scanRaced>>
  BY DEF UpsertRead
<1>2. ask \in Upserts
  BY FeatureAssumption DEF FeatureInv, FeatureTypeOK, Upserts
<1>3. /\ featurePc'[c] = "read" /\ featureAsk'[c] = ask /\ readHot'[c] = hot[e]
      /\ \A d \in FeatureCalls \ {c} :
           featurePc'[d] = featurePc[d] /\ featureAsk'[d] = featureAsk[d] /\ readHot'[d] = readHot[d]
      /\ \A f \in Entities : upsertRaced[f] => upsertRaced'[f]
      /\ (\E d \in FeatureCalls : Upserting(d, e) \/ Compacting(d)) => upsertRaced'[e]
  BY <1>1 DEF FeatureInv, FeatureTypeOK
<1>4. FeatureTypeOK'
  <2>1. upsertRaced' \in [Entities -> BOOLEAN]
    BY <1>1 DEF FeatureInv, FeatureTypeOK
  <2> QED
    BY <1>1, <1>2, <2>1 DEF FeatureInv, FeatureTypeOK, Upserts
<1>5. \A d \in FeatureCalls : \A f : OwnsEntity(d, f) => OwnsEntity(d, f)'
  BY <1>1, <1>3 DEF OwnsEntity
<1>6. RowsOwned'
  BY <1>1, <1>5, FeatureRows DEF FeatureInv, RowsOwned, FeatureTypeOK, Scans
<1>7. \A d \in FeatureCalls : Compacting(d)' <=> Compacting(d)
  BY <1>1, <1>3 DEF Compacting
<1>8. /\ \A d \in FeatureCalls \ {c}, f \in Entities : Upserting(d, f)' <=> Upserting(d, f)
      /\ \A f \in Entities : Upserting(c, f)' => f = e
  BY <1>1, <1>3 DEF Upserting
<1>9. UpsertAlone'
  <2> SUFFICES ASSUME NEW d \in FeatureCalls, NEW g \in FeatureCalls, NEW f \in Entities,
                      Upserting(d, f)', d # g, Upserting(g, f)' \/ Compacting(g)'
               PROVE  upsertRaced'[f]
    BY DEF UpsertAlone
  <2>1. CASE d # c /\ g # c
    BY <1>3, <1>7, <1>8, <2>1 DEF FeatureInv, UpsertAlone
  <2>2. CASE d = c
    BY <1>3, <1>7, <1>8, <2>2
  <2>3. CASE g = c
    BY <1>1, <1>3, <1>7, <1>8, <2>3 DEF Compacting
  <2> QED BY <2>1, <2>2, <2>3
<1>10. UpsertCurrent'
  <2>1. ASSUME NEW d \in FeatureCalls, NEW f \in Entities, Upserting(d, f)', ~upsertRaced'[f]
        PROVE  readHot'[d] = hot'[f]
    BY <1>1, <1>3, <1>8, <2>1 DEF FeatureInv, UpsertCurrent
  <2>2. ASSUME NEW d \in FeatureCalls, NEW s \in Scans, Compacting(d)', s \in scanned'[d],
               ~upsertRaced'[s.entity], hot'[s.entity] # NoRow, hot'[s.entity].id = s.row.id
        PROVE  hot'[s.entity].value = s.row.value
    BY <1>1, <1>3, <1>7, <2>2 DEF FeatureInv, UpsertCurrent, Scans
  <2> QED BY <2>1, <2>2 DEF UpsertCurrent, Scans, HotRows, Hash
<1>11. OneScan'
  BY <1>1, <1>7 DEF FeatureInv, OneScan, Scans, HotRows, Hash
<1>12. HashesRead' /\ HashAgrees' /\ LatestKept' /\ ArchivedOnce'
  BY <1>1, <1>3 DEF FeatureInv, HashesRead, HashAgrees, LatestKept, ArchivedOnce, Hash
<1> QED
  BY <1>4, <1>6, <1>9, <1>10, <1>11, <1>12 DEF FeatureInv

(* An upsert that commits: it is the last of its entity, keeps the id of   *)
(* the row or inserts one of its own, and, alone, leaves its value.        *)
RowWritten(c, e, row) ==
  /\ Upserting(c, e) /\ row \in HotRows /\ row.hash = Hash(row.value)
  /\ row.id = IF hot[e] = NoRow THEN c ELSE hot[e].id
  /\ ~upsertRaced[e] => row.value = featureAsk[c].value
  /\ hot' = [hot EXCEPT ![e] = row]
  /\ latest' = [latest EXCEPT ![e] = featureAsk[c].value]
  /\ featurePc' = [featurePc EXCEPT ![c] = "done"]
  /\ UNCHANGED <<cold, tick, featureAsk, readHot, scanned, upsertRaced, scanRaced>>

LEMMA UpdateWrites ==
  ASSUME FeatureInv, NEW c \in FeatureCalls, UpsertUpdate(c)
  PROVE  \E e \in Entities, row \in HotRows : RowWritten(c, e, row)
<1> DEFINE ask == featureAsk[c]
           e == ask.entity
           read == readHot[c]
           row == [hot[e] EXCEPT !.value = Column(@, read.value, ask.value),
                                 !.hash = Column(@, read.hash, Hash(ask.value)),
                                 !.expires = Column(@, read.expires, ask.expires)]
<1>1. Upserting(c, e) /\ e \in Entities /\ ask \in Upserts
  BY FeatureSessions DEF UpsertUpdate, FeatureInv
<1>2. read \in HotRows /\ hot[e] \in HotRows
  <2>1. hot[e].id = read.id /\ read # NoRow
    BY DEF UpsertUpdate
  <2>2. read \in HotRows
    BY <2>1 DEF FeatureInv, FeatureTypeOK
  <2> QED
    BY <1>1, <2>1, <2>2, FeatureRows DEF FeatureInv, FeatureTypeOK, NoRow
<1>3. read.hash = Hash(read.value) /\ hot[e].hash = Hash(hot[e].value)
  BY <1>1, <1>2, FeatureRows DEF FeatureInv, HashesRead, HashAgrees
<1>4. /\ row.id = hot[e].id /\ row \in HotRows
      /\ row.value = Column(hot[e].value, read.value, ask.value)
      /\ row.hash = Column(hot[e].hash, read.hash, Hash(ask.value))
  BY <1>1, <1>2 DEF HotRows, Column, Upserts
<1>5. row.hash = Hash(row.value)
  BY <1>3, <1>4 DEF Hash, Column
<1>6. ~upsertRaced[e] => row.value = ask.value
  BY <1>1, <1>4 DEF FeatureInv, UpsertCurrent, Column
<1>7. hot' = [hot EXCEPT ![e] = row]
  BY DEF UpsertUpdate
<1> QED
  BY <1>1, <1>2, <1>4, <1>5, <1>6, <1>7, FeatureRows DEF RowWritten, UpsertUpdate

LEMMA InsertWrites ==
  ASSUME FeatureInv, NEW c \in FeatureCalls, UpsertInsert(c)
  PROVE  \E e \in Entities, row \in HotRows : RowWritten(c, e, row)
<1> DEFINE ask == featureAsk[c]
           row == [id |-> c, value |-> ask.value, hash |-> Hash(ask.value), expires |-> ask.expires]
<1>1. Upserting(c, ask.entity) /\ ask.entity \in Entities /\ ask \in Upserts
  BY FeatureSessions DEF UpsertInsert, FeatureInv
<1>2. row \in HotRows
  BY <1>1 DEF HotRows, Upserts
<1> QED
  BY <1>1, <1>2 DEF RowWritten, UpsertInsert

LEMMA UpsertWriteKeeps ==
  ASSUME FeatureInv, NEW c \in FeatureCalls, NEW e \in Entities, NEW row \in HotRows, RowWritten(c, e, row)
  PROVE  FeatureInv'
<1>1. /\ Upserting(c, e) /\ row.hash = Hash(row.value)
      /\ row.id = (IF hot[e] = NoRow THEN c ELSE hot[e].id)
      /\ ~upsertRaced[e] => row.value = featureAsk[c].value
      /\ hot' = [hot EXCEPT ![e] = row]
      /\ latest' = [latest EXCEPT ![e] = featureAsk[c].value]
      /\ featurePc' = [featurePc EXCEPT ![c] = "done"]
      /\ UNCHANGED <<cold, tick, featureAsk, readHot, scanned, upsertRaced, scanRaced>>
      /\ featureAsk[c] \in Upserts /\ e = featureAsk[c].entity
  BY FeatureSessions DEF RowWritten, FeatureInv
<1>2. /\ hot'[e] = row /\ latest'[e] = featureAsk[c].value /\ featurePc'[c] = "done"
      /\ \A f \in Entities \ {e} : hot'[f] = hot[f] /\ latest'[f] = latest[f]
      /\ \A d \in FeatureCalls \ {c} : featurePc'[d] = featurePc[d]
      /\ featurePc[c] = "read" /\ row # NoRow
  BY <1>1, FeatureRows DEF FeatureInv, FeatureTypeOK, Upserting
<1>3. FeatureTypeOK'
  BY <1>1 DEF FeatureInv, FeatureTypeOK, Upserts
<1>4. /\ \A d \in FeatureCalls : \A f : OwnsEntity(d, f) => OwnsEntity(d, f)'
      /\ OwnsEntity(c, e)'
  BY <1>1, <1>2 DEF OwnsEntity
<1>5. OwnsEntity(row.id, e)'
  BY <1>1, <1>4, FeatureRows DEF FeatureInv, RowsOwned, FeatureTypeOK, OwnsEntity
<1>6. RowsOwned'
  <2>1. \A f \in Entities : hot'[f] # NoRow => (OwnsEntity(hot[f].id, f))'
    <3> SUFFICES ASSUME NEW f \in Entities, hot'[f] # NoRow
                 PROVE  (OwnsEntity(hot[f].id, f))'
      OBVIOUS
    <3>1. CASE f = e
      BY <1>2, <1>5, <3>1 DEF OwnsEntity
    <3>2. CASE f # e
      <4>1. hot'[f] = hot[f] /\ hot[f].id \in FeatureCalls /\ OwnsEntity(hot[f].id, f)
        BY <1>2, <3>2, FeatureRows DEF FeatureInv, RowsOwned, FeatureTypeOK
      <4> QED
        BY <1>4, <4>1 DEF OwnsEntity
    <3> QED BY <3>1, <3>2
  <2>2. /\ \A d \in FeatureCalls, s \in Scans : s \in scanned'[d] => OwnsEntity(s.row.id, s.entity)'
        /\ \A r \in cold' : OwnsEntity(r.id, r.entity)'
    BY <1>1, <1>4, FeatureRows DEF FeatureInv, RowsOwned, FeatureTypeOK, Scans
  <2> QED BY <2>1, <2>2 DEF RowsOwned, Scans, HotRows, Hash
<1>7. /\ \A d \in FeatureCalls, f \in Entities : Upserting(d, f)' => Upserting(d, f) /\ d # c
      /\ \A d \in FeatureCalls : Compacting(d)' => Compacting(d) /\ d # c
  BY <1>1, <1>2 DEF Upserting, Compacting
<1>8. UpsertAlone'
  BY <1>1, <1>7 DEF FeatureInv, UpsertAlone
<1>9. UpsertCurrent'
  <2>1. ASSUME NEW d \in FeatureCalls, NEW f \in Entities, Upserting(d, f)', ~upsertRaced'[f]
        PROVE  readHot'[d] = hot'[f]
    BY <1>1, <1>2, <1>7, <2>1 DEF FeatureInv, UpsertCurrent, UpsertAlone
  <2>2. ASSUME NEW d \in FeatureCalls, NEW s \in Scans, Compacting(d)', s \in scanned'[d],
               ~upsertRaced'[s.entity], hot'[s.entity] # NoRow, hot'[s.entity].id = s.row.id
        PROVE  hot'[s.entity].value = s.row.value
    <3>1. Compacting(d) /\ d # c /\ s.entity \in Entities
      BY <1>7, <2>2 DEF Scans
    <3>2. s.entity # e
      BY <1>1, <2>2, <3>1 DEF FeatureInv, UpsertAlone
    <3> QED
      BY <1>1, <1>2, <2>2, <3>1, <3>2 DEF FeatureInv, UpsertCurrent
  <2> QED BY <2>1, <2>2 DEF UpsertCurrent, Scans, HotRows, Hash
<1>10. OneScan'
  BY <1>1, <1>7 DEF FeatureInv, OneScan, Scans, HotRows, Hash
<1>11. HashesRead' /\ HashAgrees'
  BY <1>1, <1>2 DEF FeatureInv, HashesRead, HashAgrees, Hash
<1>12. LatestKept'
  BY <1>1, <1>2 DEF FeatureInv, LatestKept
<1>13. ArchivedOnce'
  <2>1. \A r \in cold : r.id # c
    BY <1>2 DEF FeatureInv, RowsOwned, OwnsEntity
  <2>2. ~scanRaced => \A r \in cold : row.id # r.id
    BY <1>1, <2>1 DEF FeatureInv, ArchivedOnce
  <2> QED
    BY <1>1, <1>2, <2>2 DEF FeatureInv, ArchivedOnce
<1> QED
  BY <1>3, <1>6, <1>8, <1>9, <1>10, <1>11, <1>12, <1>13 DEF FeatureInv

LEMMA ScanKeeps ==
  ASSUME FeatureInv, NEW c \in FeatureCalls, CompactScan(c)
  PROVE  FeatureInv'
<1> DEFINE found == {[entity |-> e, row |-> hot[e]] : e \in {x \in Entities : Expired(x)}}
<1>1. /\ featurePc[c] = "idle"
      /\ featurePc' = [featurePc EXCEPT ![c] = "read"]
      /\ featureAsk' = [featureAsk EXCEPT ![c] = [op |-> "compact"]]
      /\ scanned' = [scanned EXCEPT ![c] = found]
      /\ upsertRaced' = [e \in Entities |-> upsertRaced[e] \/ \E d \in FeatureCalls : Upserting(d, e)]
      /\ scanRaced' = (scanRaced \/ \E d \in FeatureCalls : Compacting(d))
      /\ UNCHANGED <<hot, cold, tick, readHot, latest>>
  BY DEF CompactScan
<1>2. \A s \in found : /\ s \in Scans /\ hot[s.entity] = s.row /\ s.row # NoRow
                       /\ s = [entity |-> s.entity, row |-> s.row]
  BY DEF Expired, FeatureInv, FeatureTypeOK, Scans
<1> HIDE DEF found
<1>3. /\ featurePc'[c] = "read" /\ featureAsk'[c] = [op |-> "compact"] /\ scanned'[c] = found
      /\ \A d \in FeatureCalls \ {c} :
           featurePc'[d] = featurePc[d] /\ featureAsk'[d] = featureAsk[d] /\ scanned'[d] = scanned[d]
      /\ \A e \in Entities : upsertRaced[e] => upsertRaced'[e]
      /\ \A e \in Entities : (\E d \in FeatureCalls : Upserting(d, e)) => upsertRaced'[e]
  BY <1>1 DEF FeatureInv, FeatureTypeOK
<1>4. FeatureTypeOK'
  <2>1. upsertRaced' \in [Entities -> BOOLEAN] /\ scanRaced' \in BOOLEAN
    BY <1>1 DEF FeatureInv, FeatureTypeOK
  <2>2. scanned' \in [FeatureCalls -> SUBSET Scans]
    BY <1>1, <1>2 DEF FeatureInv, FeatureTypeOK, Scans
  <2>3. featureAsk' \in [FeatureCalls -> {NoFeatureAsk} \cup [op : {"compact"}]
          \cup [op : {"upsert"}, entity : Entities, value : Values, expires : Nat]]
    BY <1>1 DEF FeatureInv, FeatureTypeOK
  <2>4. featurePc' \in [FeatureCalls -> {"idle", "read", "done", "failed"}]
    BY <1>1 DEF FeatureInv, FeatureTypeOK
  <2> QED
    BY <1>1, <2>1, <2>2, <2>3, <2>4 DEF FeatureInv, FeatureTypeOK, Scans
<1>5. \A d \in FeatureCalls : \A f : OwnsEntity(d, f) => OwnsEntity(d, f)'
  BY <1>1, <1>3 DEF OwnsEntity
<1>6. RowsOwned'
  <2>1. \A d \in FeatureCalls, s \in Scans : s \in scanned'[d] => OwnsEntity(s.row.id, s.entity)
    BY <1>2, <1>3 DEF FeatureInv, RowsOwned, Scans
  <2>2. /\ \A e \in Entities : hot[e] # NoRow => hot[e].id \in FeatureCalls
        /\ \A s \in Scans : s.row.id \in FeatureCalls
        /\ \A r \in cold : r.id \in FeatureCalls
    BY FeatureRows DEF FeatureInv, FeatureTypeOK, Scans
  <2> QED
    BY <1>1, <1>5, <2>1, <2>2 DEF FeatureInv, RowsOwned, Scans, HotRows, Hash
<1>7. /\ \A d \in FeatureCalls : Compacting(d)' <=> Compacting(d) \/ d = c
      /\ \A d \in FeatureCalls, f \in Entities : Upserting(d, f)' => Upserting(d, f) /\ d # c
      /\ ~Compacting(c)
  BY <1>1, <1>3 DEF Compacting, Upserting
<1>8. UpsertAlone'
  BY <1>3, <1>7 DEF FeatureInv, UpsertAlone
<1>9. UpsertCurrent'
  <2>1. ASSUME NEW d \in FeatureCalls, NEW f \in Entities, Upserting(d, f)', ~upsertRaced'[f]
        PROVE  readHot'[d] = hot'[f]
    BY <1>1, <1>3, <1>7, <2>1 DEF FeatureInv, UpsertCurrent
  <2>2. ASSUME NEW d \in FeatureCalls, NEW s \in Scans, Compacting(d)', s \in scanned'[d],
               ~upsertRaced'[s.entity], hot'[s.entity] # NoRow, hot'[s.entity].id = s.row.id
        PROVE  hot'[s.entity].value = s.row.value
    BY <1>1, <1>2, <1>3, <1>7, <2>2 DEF FeatureInv, UpsertCurrent, Scans
  <2> QED BY <2>1, <2>2 DEF UpsertCurrent, Scans, HotRows, Hash
<1>10. OneScan'
  <2>1. ASSUME NEW s \in found, NEW t \in found, s.row.id = t.row.id PROVE s = t
    <3>1. /\ OwnsEntity(s.row.id, s.entity) /\ OwnsEntity(t.row.id, t.entity)
          /\ s.entity \in Entities /\ t.entity \in Entities
      BY <1>2 DEF FeatureInv, RowsOwned, Scans
    <3>2. s.entity = t.entity
      BY <2>1, <3>1 DEF OwnsEntity
    <3> QED BY <1>2, <3>2
  <2>2. ASSUME NEW d \in FeatureCalls, NEW s \in Scans, NEW t \in Scans,
               {s, t} \subseteq scanned'[d], s.row.id = t.row.id
        PROVE  s = t
    BY <1>3, <2>1, <2>2 DEF FeatureInv, OneScan
  <2>3. ASSUME ~scanRaced', NEW d \in FeatureCalls, Compacting(d)'
        PROVE  /\ \A b \in FeatureCalls : Compacting(b)' => d = b
               /\ \A s \in Scans, r \in cold : s \in scanned'[d] => r.id # s.row.id
    <3>1. ~scanRaced /\ d = c /\ \A b \in FeatureCalls : ~Compacting(b)
      BY <1>1, <1>7, <2>3
    <3>2. \A s \in found, r \in cold : r.id # s.row.id
      BY <1>2, <3>1 DEF FeatureInv, ArchivedOnce, Scans
    <3> QED
      BY <1>3, <1>7, <3>1, <3>2
  <2> QED
    BY <1>1, <2>2, <2>3 DEF OneScan, Scans, HotRows, Hash
<1>11. HashesRead' /\ HashAgrees' /\ LatestKept'
  BY <1>1, <1>3 DEF FeatureInv, HashesRead, HashAgrees, LatestKept, Hash
<1>12. ArchivedOnce'
  BY <1>1 DEF FeatureInv, ArchivedOnce
<1> QED
  BY <1>4, <1>6, <1>8, <1>9, <1>10, <1>11, <1>12 DEF FeatureInv

LEMMA ScanCommitKeeps ==
  ASSUME FeatureInv, NEW c \in FeatureCalls, CompactCommit(c)
  PROVE  FeatureInv'
<1> DEFINE Cold(s) == [entity |-> s.entity, id |-> s.row.id, value |-> s.row.value, by |-> c]
           Gone(e) == \E s \in scanned[c] : s.row.id = hot[e].id
<1>1. /\ Compacting(c) /\ scanned[c] \subseteq Scans
      /\ cold' = cold \cup {Cold(s) : s \in scanned[c]}
      /\ hot' = [e \in Entities |-> IF Gone(e) THEN NoRow ELSE hot[e]]
      /\ featurePc' = [featurePc EXCEPT ![c] = "done"]
      /\ UNCHANGED <<tick, featureAsk, readHot, scanned, latest, upsertRaced, scanRaced>>
  BY DEF CompactCommit, FeatureInv, FeatureTypeOK, Scans
<1>2. \A s \in scanned[c] : /\ Cold(s).entity = s.entity /\ Cold(s).id = s.row.id
                            /\ Cold(s).value = s.row.value
  OBVIOUS
<1>3. /\ featurePc'[c] = "done" /\ featurePc[c] = "read"
      /\ \A d \in FeatureCalls \ {c} : featurePc'[d] = featurePc[d]
      /\ \A e \in Entities : hot'[e] = IF Gone(e) THEN NoRow ELSE hot[e]
  BY <1>1 DEF FeatureInv, FeatureTypeOK, Compacting
<1>4. FeatureTypeOK'
  <2>1. \A s \in scanned[c] :
          Cold(s) \in [entity : Entities, id : FeatureCalls, value : Values, by : FeatureCalls]
    BY <1>1 DEF Scans, HotRows
  <2>2. cold' \subseteq [entity : Entities, id : FeatureCalls, value : Values, by : FeatureCalls]
    BY <1>1, <2>1 DEF FeatureInv, FeatureTypeOK
  <2>3. hot' \in [Entities -> {NoRow} \cup HotRows]
    BY <1>1 DEF FeatureInv, FeatureTypeOK
  <2> QED
    BY <1>1, <2>2, <2>3 DEF FeatureInv, FeatureTypeOK
<1>5. \A d \in FeatureCalls : \A f : OwnsEntity(d, f) => OwnsEntity(d, f)'
  BY <1>1, <1>3 DEF OwnsEntity
<1>6. RowsOwned'
  <2>1. \A e \in Entities : hot'[e] # NoRow => hot'[e] = hot[e] /\ OwnsEntity(hot[e].id, e)
    BY <1>3 DEF FeatureInv, RowsOwned
  <2>2. \A r \in cold' : OwnsEntity(r.id, r.entity)
    BY <1>1, <1>2 DEF FeatureInv, RowsOwned
  <2>3. /\ \A e \in Entities : hot[e] # NoRow => hot[e].id \in FeatureCalls
        /\ \A s \in Scans : s.row.id \in FeatureCalls
        /\ \A r \in cold' : r.id \in FeatureCalls
    BY <1>4, FeatureRows DEF FeatureInv, FeatureTypeOK, Scans
  <2>4. \A e \in Entities : hot'[e] # NoRow => (OwnsEntity(hot[e].id, e))'
    BY <1>5, <2>1, <2>3 DEF OwnsEntity
  <2> QED
    BY <1>1, <1>5, <2>2, <2>3, <2>4 DEF FeatureInv, RowsOwned, Scans, HotRows, Hash
<1>7. /\ \A d \in FeatureCalls, f \in Entities : Upserting(d, f)' => Upserting(d, f) /\ d # c
      /\ \A d \in FeatureCalls : Compacting(d)' => Compacting(d) /\ d # c
  BY <1>1, <1>3 DEF Upserting, Compacting
<1>8. UpsertAlone'
  BY <1>1, <1>7 DEF FeatureInv, UpsertAlone
<1>9. UpsertCurrent'
  <2>1. ASSUME NEW d \in FeatureCalls, NEW f \in Entities, Upserting(d, f)', ~upsertRaced'[f]
        PROVE  readHot'[d] = hot'[f]
    BY <1>1, <1>7, <2>1 DEF FeatureInv, UpsertAlone
  <2>2. ASSUME NEW d \in FeatureCalls, NEW s \in Scans, Compacting(d)', s \in scanned'[d],
               ~upsertRaced'[s.entity], hot'[s.entity] # NoRow, hot'[s.entity].id = s.row.id
        PROVE  hot'[s.entity].value = s.row.value
    BY <1>1, <1>3, <1>7, <2>2 DEF FeatureInv, UpsertCurrent, Scans
  <2> QED BY <2>1, <2>2 DEF UpsertCurrent, Scans, HotRows, Hash
<1>10. OneScan'
  BY <1>1, <1>7 DEF FeatureInv, OneScan, Scans, HotRows, Hash
<1>11. HashesRead' /\ HashAgrees'
  BY <1>1, <1>3 DEF FeatureInv, HashesRead, HashAgrees, Hash
<1>12. LatestKept'
  <2> SUFFICES ASSUME NEW e \in Entities, ~upsertRaced[e], latest[e] # NoValue
               PROVE  IF hot'[e] # NoRow THEN hot'[e].value = latest[e]
                      ELSE \E r \in cold' : r.entity = e /\ r.value = latest[e]
    BY <1>1 DEF LatestKept
  <2>1. CASE hot[e] = NoRow \/ ~Gone(e)
    BY <1>1, <1>3, <2>1 DEF FeatureInv, LatestKept
  <2>2. CASE hot[e] # NoRow /\ Gone(e)
    <3>1. PICK s \in scanned[c] : s.row.id = hot[e].id
      BY <2>2
    <3>2. s.entity = e
      BY <1>1, <2>2, <3>1 DEF FeatureInv, RowsOwned, OwnsEntity
    <3>3. s.row.value = latest[e]
      BY <1>1, <2>2, <3>1, <3>2 DEF FeatureInv, UpsertCurrent, LatestKept
    <3>4. Cold(s) \in cold'
      BY <1>1
    <3> QED
      BY <1>2, <1>3, <2>2, <3>2, <3>3, <3>4
  <2> QED BY <2>1, <2>2
<1>13. ArchivedOnce'
  <2> SUFFICES ASSUME ~scanRaced
               PROVE  /\ \A r, s \in cold' : r.id = s.id => r = s
                      /\ \A r \in cold', e \in Entities : hot'[e].id # r.id
    BY <1>1 DEF ArchivedOnce
  <2>1. \A s \in scanned[c], r \in cold : r.id # s.row.id
    BY <1>1 DEF FeatureInv, OneScan
  <2>2. \A s, t \in scanned[c] : s.row.id = t.row.id => s = t
    BY <1>1 DEF FeatureInv, OneScan
  <2>3. \A r, s \in cold' : r.id = s.id => r = s
    BY <1>1, <1>2, <2>1, <2>2 DEF FeatureInv, ArchivedOnce
  <2>4. \A r \in cold' : r.id \in FeatureCalls
    BY <1>4 DEF FeatureTypeOK
  <2>5. ASSUME NEW r \in cold', NEW e \in Entities PROVE hot'[e].id # r.id
    <3>1. CASE Gone(e)
      BY <1>3, <2>4, <3>1, FeatureAssumption DEF NoRow
    <3>2. CASE ~Gone(e)
      BY <1>1, <1>2, <1>3, <3>2 DEF FeatureInv, ArchivedOnce
    <3> QED BY <3>1, <3>2
  <2> QED BY <2>3, <2>5
<1> QED
  BY <1>4, <1>6, <1>8, <1>9, <1>10, <1>11, <1>12, <1>13 DEF FeatureInv

(* Errors and the clock leave the store alone.                             *)
LEMMA FeatureRestKeeps ==
  ASSUME FeatureInv, (\E c \in FeatureCalls : FeatureFails(c)) \/ FeatureTick \/ UNCHANGED featureVars
  PROVE  FeatureInv'
<1>1. /\ UNCHANGED <<hot, cold, featureAsk, readHot, scanned, latest, upsertRaced, scanRaced>>
      /\ tick' \in 0..MaxTick
      /\ \A d \in FeatureCalls : featurePc'[d] = "read" => featurePc[d] = "read"
      /\ \A d \in FeatureCalls : featurePc[d] = "done" => featurePc'[d] = "done"
      /\ featurePc' \in [FeatureCalls -> {"idle", "read", "done", "failed"}]
  BY FeatureAssumption DEF FeatureFails, FeatureTick, featureVars, FeatureInv, FeatureTypeOK
<1>2. FeatureTypeOK'
  BY <1>1 DEF FeatureInv, FeatureTypeOK
<1>3. \A d \in FeatureCalls : \A f : OwnsEntity(d, f) => OwnsEntity(d, f)'
  BY <1>1 DEF OwnsEntity
<1>4. /\ \A e \in Entities : hot[e] # NoRow => hot[e].id \in FeatureCalls
      /\ \A s \in Scans : s.row.id \in FeatureCalls
      /\ \A r \in cold : r.id \in FeatureCalls
  BY FeatureRows DEF FeatureInv, FeatureTypeOK, Scans
<1>5. RowsOwned'
  BY <1>1, <1>3, <1>4 DEF FeatureInv, RowsOwned, Scans, HotRows, Hash
<1>6. /\ \A d \in FeatureCalls, f \in Entities : Upserting(d, f)' => Upserting(d, f)
      /\ \A d \in FeatureCalls : Compacting(d)' => Compacting(d)
  BY <1>1 DEF Upserting, Compacting
<1>7. UpsertAlone' /\ UpsertCurrent' /\ OneScan'
  BY <1>1, <1>6 DEF FeatureInv, UpsertAlone, UpsertCurrent, OneScan, Scans, HotRows, Hash
<1>8. HashesRead' /\ HashAgrees' /\ LatestKept' /\ ArchivedOnce'
  BY <1>1 DEF FeatureInv, HashesRead, HashAgrees, LatestKept, ArchivedOnce, Hash
<1> QED
  BY <1>2, <1>5, <1>7, <1>8 DEF FeatureInv

LEMMA StepFeatureInv == FeatureInv /\ [FeatureNext]_featureVars => FeatureInv'
<1> SUFFICES ASSUME FeatureInv, [FeatureNext]_featureVars PROVE FeatureInv'
  OBVIOUS
<1>1. ASSUME NEW c \in FeatureCalls, UpsertUpdate(c) \/ UpsertInsert(c) PROVE FeatureInv'
  BY <1>1, UpdateWrites, InsertWrites, UpsertWriteKeeps
<1> QED
  BY <1>1, UpsertReadKeeps, ScanKeeps, ScanCommitKeeps, FeatureRestKeeps DEF FeatureNext

LEMMA FeatureInvariance == FeatureSpec => []FeatureInv
BY InitFeatureInv, StepFeatureInv, PTL DEF FeatureSpec

-------------------------------------------------------------------------------
(* The store and the sessions keep their types.                            *)
THEOREM FeatureTypes == FeatureSpec => []FeatureTypeOK
BY FeatureInvariance, PTL DEF FeatureInv

(* Whatever overlaps, the hash of a hot row is the hash of its value.      *)
THEOREM HashesAgree == FeatureSpec => []HashAgrees
BY FeatureInvariance, PTL DEF FeatureInv

(* Upserts that overlap with nothing are kept, hot or cold.                *)
THEOREM LatestIsKept == FeatureSpec => []LatestKept
BY FeatureInvariance, PTL DEF FeatureInv

(* Where compactions do not overlap, a row is archived once.               *)
THEOREM NoDoubleArchive == FeatureSpec => []ArchivedOnce
BY FeatureInvariance, PTL DEF FeatureInv
===============================================================================
