----------------------------- MODULE OrdersProofs -----------------------------
(* Theorems about Orders, for any number of orders and requests, any       *)
(* tenders and any faults.                                                 *)
EXTENDS Orders, WellFoundedInduction, TLAPS

LEMMA InitType == Init => TypeOK
BY CallerAssumption, LoopIsNoRequest
DEF Init, TypeOK, Statuses, Jobs, InFlight, Parts

LEMMA RowsType ==
  ASSUME NEW r \in Requests, NEW o \in Orders, NEW t \in Seq(Parts)
  PROVE  PaymentRows(r, o, t) \subseteq
           [order : Orders, request : Requests, part : Nat, method : STRING, amount : Int]
<1> SUFFICES ASSUME NEW i \in DOMAIN t
             PROVE  /\ i \in Nat
                    /\ t[i].method \in STRING /\ t[i].amount \in Int
  BY DEF PaymentRows
<1>1. t[i] \in Parts /\ i \in Nat
  OBVIOUS
<1> QED
  BY <1>1 DEF Parts

LEMMA StepType == TypeOK /\ [Next]_vars => TypeOK'
<1> SUFFICES ASSUME TypeOK, [Next]_vars PROVE TypeOK'
  OBVIOUS
<1> USE DEF TypeOK, Statuses, InFlight, Jobs
<1>1. ASSUME NEW r \in Requests, NEW o \in Orders, Checkout(r, o)
      PROVE  TypeOK'
  BY <1>1, CallerAssumption DEF Checkout, db, Log
<1>2. ASSUME NEW r \in Requests, NEW o \in Orders, PrintLoad(r, o)
      PROVE  TypeOK'
  BY <1>2 DEF PrintLoad, db
<1>3. ASSUME NEW r \in Requests, NEW o \in Orders, NEW t \in Tenders, SettleLoad(r, o, t)
      PROVE  TypeOK'
  BY <1>3, TenderAssumption DEF SettleLoad, db, Contested
<1>4. ASSUME NEW r \in Requests, NEW o \in Orders, NEW t \in Tenders, SettleRefuse(r, o, t)
      PROVE  TypeOK'
  BY <1>4 DEF SettleRefuse, db
<1>5. ASSUME NEW r \in Requests, SettleFlush(r)
      PROVE  TypeOK'
  BY <1>5 DEF SettleFlush, db
<1>6. ASSUME NEW r \in Requests, SettleReject(r)
      PROVE  TypeOK'
  BY <1>6 DEF SettleReject, db
<1>7. ASSUME NEW r \in Requests, SettleCommit(r)
      PROVE  TypeOK'
  <2>1. \A o \in Orders : PaymentRows(r, o, tender[r]) \subseteq
          [order : Orders, request : Requests, part : Nat, method : STRING, amount : Int]
    BY RowsType
  <2>2. held[r] \subseteq Orders
    OBVIOUS
  <2>3. payments' \subseteq
          [order : Orders, request : Requests, part : Nat, method : STRING, amount : Int]
    BY <2>1, <2>2, <1>7 DEF SettleCommit
  <2> QED
    BY <2>2, <2>3, <1>7 DEF SettleCommit, Log
<1>8. ASSUME NEW r \in Requests, PrintEmit(r)
      PROVE  TypeOK'
  <2>1. target[r] \in SUBSET Orders
    BY <1>8
  <2>2. paper' \subseteq [order : Orders, request : Requests]
    BY <2>1, <1>8 DEF PrintEmit
  <2> QED
    BY <2>2, <1>8 DEF PrintEmit, db
<1>9. ASSUME NEW r \in Requests, PrintCommit(r)
      PROVE  TypeOK'
  BY <1>9 DEF PrintCommit, db, Log
<1>10. ASSUME NEW j \in Jobs, VoidScan(j)
      PROVE  TypeOK'
  BY <1>10 DEF VoidScan, db, Contested
<1>11. ASSUME NEW j \in Jobs, VoidCommit(j)
      PROVE  TypeOK'
  BY <1>11 DEF VoidCommit, db
<1>12. ASSUME NEW j \in Jobs, Fail(j)
      PROVE  TypeOK'
  BY <1>12 DEF Fail, db
<1>13. ASSUME NEW j \in Jobs, NEW o \in Orders, VoidUpdate(j, o)
      PROVE  TypeOK'
  BY <1>13 DEF VoidUpdate, db
<1>14. CASE LoopSleeps
  BY <1>14 DEF LoopSleeps, db
<1>15. CASE Restart
  BY <1>15 DEF Restart, db
<1>16. CASE Tick
  BY <1>16 DEF Tick, db
<1>17. CASE UNCHANGED vars
  BY <1>17 DEF vars, db
<1> QED
  BY <1>1, <1>2, <1>3, <1>4, <1>5, <1>6, <1>7, <1>8, <1>9, <1>10, <1>11, <1>12, <1>13, <1>14, <1>15, <1>16, <1>17 DEF Next

(* Every reachable state has the shape of the schema.                      *)
THEOREM TypeCorrect == Spec => []TypeOK
<1>1. TypeOK /\ [Next]_vars => TypeOK'
  BY StepType
<1> QED
  BY InitType, <1>1, PTL DEF Spec

-------------------------------------------------------------------------------
(* What the sessions in flight know and hold.                              *)
SettlingOne ==
  /\ pc[Loop] \in {"asleep", "scanned", "compacting", "dead"}
  /\ \A r \in Requests : pc[r] \in {"loaded", "flushed"} =>
       \E o \in Orders : target[r] = {o} /\ Paid(tender[r]) = FinalAmount[o]
  /\ \A r \in Requests : pc[r] = "flushed" => held[r] = target[r] /\ NonNegative(tender[r])

LocksInOrder ==
  /\ \A j \in Jobs : held[j] # {} => pc[j] \in {"flushed", "scanned"}
  /\ \A j \in Jobs : held[j] \subseteq target[j]
  /\ \A j, k \in Jobs : j # k => held[j] \cap held[k] = {}
  /\ \A j \in Jobs : pc[j] = "scanned" =>
       \A o \in held[j], p \in target[j] \ held[j] : o < p

Sessions == SettlingOne /\ LocksInOrder

LEMMA InitSessions == Init => Sessions
BY LoopIsNoRequest DEF Init, Sessions, SettlingOne, LocksInOrder, Jobs

LEMMA OthersSettle ==
  ASSUME SettlingOne, NEW r \in Jobs,
         pc'[r] \notin {"loaded", "flushed"},
         pc'[Loop] \in {"asleep", "scanned", "compacting", "dead"},
         \A s \in Requests \ {r} : /\ pc'[s] = pc[s] /\ target'[s] = target[s]
                                   /\ tender'[s] = tender[s] /\ held'[s] = held[s]
  PROVE  SettlingOne'
BY DEF SettlingOne, NonNegative

LEMMA StepSessions == TypeOK /\ Sessions /\ [Next]_vars => Sessions'
<1> SUFFICES ASSUME TypeOK, Sessions, [Next]_vars PROVE Sessions'
  OBVIOUS
<1>a. Orders \subseteq Int
  BY OrderIds
<1> USE LoopIsNoRequest DEF Sessions, SettlingOne, LocksInOrder, TypeOK, InFlight, Jobs
<1>1. ASSUME NEW r \in Requests, NEW o \in Orders, Checkout(r, o)
      PROVE  Sessions'
  BY <1>1 DEF Checkout, db
<1>2. ASSUME NEW r \in Requests, NEW o \in Orders, PrintLoad(r, o)
      PROVE  Sessions'
  <2>1. held[r] = {}
    BY <1>2 DEF PrintLoad
  <2>2. SettlingOne'
    <3>1. pc'[r] \notin {"loaded", "flushed"} /\ pc'[Loop] = pc[Loop]
      BY <1>2 DEF PrintLoad
    <3>2. \A s \in Requests \ {r} : /\ pc'[s] = pc[s] /\ target'[s] = target[s]
                                    /\ tender'[s] = tender[s] /\ held'[s] = held[s]
      BY <1>2 DEF PrintLoad
    <3> QED
      BY <3>1, <3>2, OthersSettle
  <2>3. LocksInOrder'
    BY <1>2, <2>1 DEF PrintLoad, db
  <2> QED
    BY <2>2, <2>3
<1>3. ASSUME NEW r \in Requests, NEW o \in Orders, NEW t \in Tenders, SettleLoad(r, o, t)
      PROVE  Sessions'
  <2>1. held[r] = {}
    BY <1>3 DEF SettleLoad
  <2>2. SettlingOne'
    <3>1. Paid(t) = FinalAmount[o]
      BY <1>3 DEF SettleLoad, Settleable
    <3>2. /\ pc'[Loop] = pc[Loop] /\ pc'[r] = "loaded"
          /\ target'[r] = {o} /\ tender'[r] = t
      BY <1>3 DEF SettleLoad
    <3>3. \A s \in Requests \ {r} : /\ pc'[s] = pc[s] /\ target'[s] = target[s]
                                    /\ tender'[s] = tender[s] /\ held'[s] = held[s]
      BY <1>3 DEF SettleLoad
    <3>4. ASSUME NEW s \in Requests, pc'[s] \in {"loaded", "flushed"}
          PROVE  \E p \in Orders : target'[s] = {p} /\ Paid(tender'[s]) = FinalAmount[p]
      <4>1. CASE s = r
        BY <1>3, <3>1, <3>2, <4>1
      <4>2. CASE s # r
        <5>1. PICK p \in Orders : target[s] = {p} /\ Paid(tender[s]) = FinalAmount[p]
          BY <3>3, <3>4, <4>2
        <5>2. target'[s] = {p} /\ tender'[s] = tender[s]
          BY <3>3, <4>2, <5>1
        <5> QED
          BY <5>1, <5>2
      <4> QED
        BY <4>1, <4>2
    <3>5. ASSUME NEW s \in Requests, pc'[s] = "flushed"
          PROVE  held'[s] = target'[s] /\ NonNegative(tender'[s])
      BY <3>2, <3>3, <3>5
    <3> QED
      BY <3>2, <3>4, <3>5
  <2>3. LocksInOrder'
    BY <1>3, <2>1 DEF SettleLoad, db
  <2> QED
    BY <2>2, <2>3
<1>4. ASSUME NEW r \in Requests, NEW o \in Orders, NEW t \in Tenders, SettleRefuse(r, o, t)
      PROVE  Sessions'
  BY <1>4 DEF SettleRefuse, db
<1>5. ASSUME NEW r \in Requests, SettleFlush(r)
      PROVE  Sessions'
  BY <1>5 DEF SettleFlush, db, Free
<1>6. ASSUME NEW r \in Requests, SettleReject(r)
      PROVE  Sessions'
  BY <1>6 DEF SettleReject, db
<1>7. ASSUME NEW r \in Requests, SettleCommit(r)
      PROVE  Sessions'
  BY <1>7 DEF SettleCommit, db
<1>8. ASSUME NEW r \in Requests, PrintEmit(r)
      PROVE  Sessions'
  BY <1>8 DEF PrintEmit, db
<1>9. ASSUME NEW r \in Requests, PrintCommit(r)
      PROVE  Sessions'
  BY <1>9 DEF PrintCommit, db
<1>10. ASSUME NEW j \in Jobs, VoidScan(j)
      PROVE  Sessions'
  <2>1. held[j] = {}
    BY <1>10 DEF VoidScan
  <2>2. SettlingOne'
    <3>1. pc'[j] = "scanned" /\ pc'[Loop] \in {pc[Loop], "scanned"}
      BY <1>10 DEF VoidScan
    <3>2. \A s \in Requests \ {j} : /\ pc'[s] = pc[s] /\ target'[s] = target[s]
                                    /\ tender'[s] = tender[s] /\ held'[s] = held[s]
      BY <1>10 DEF VoidScan
    <3> QED
      BY <3>1, <3>2, OthersSettle
  <2>3. LocksInOrder'
    BY <1>10, <2>1 DEF VoidScan, db
  <2> QED
    BY <2>2, <2>3
<1>11. ASSUME NEW j \in Jobs, VoidCommit(j)
      PROVE  Sessions'
  BY <1>11 DEF VoidCommit, db
<1>12. ASSUME NEW j \in Jobs, Fail(j)
      PROVE  Sessions'
  BY <1>12 DEF Fail, db
<1>13. ASSUME NEW j \in Jobs, NEW o \in Orders, VoidUpdate(j, o)
      PROVE  Sessions'
  <2>1. SettlingOne'
    BY <1>13 DEF VoidUpdate
  <2>2. /\ \A k \in Jobs : held'[k] # {} => pc'[k] \in {"flushed", "scanned"}
        /\ \A k \in Jobs : held'[k] \subseteq target'[k]
        /\ \A k, l \in Jobs : k # l => held'[k] \cap held'[l] = {}
    BY <1>13 DEF VoidUpdate, NextRow, Free
  <2>3. ASSUME NEW k \in Jobs, pc'[k] = "scanned",
               NEW p \in held'[k], NEW q \in target'[k] \ held'[k]
        PROVE  p < q
    BY <1>13, <2>3, <1>a DEF VoidUpdate, NextRow
  <2> QED
    BY <2>1, <2>2, <2>3
<1>14. CASE LoopSleeps
  BY <1>14 DEF LoopSleeps, db
<1>15. CASE Restart
  BY <1>15 DEF Restart, db
<1>16. CASE Tick
  BY <1>16 DEF Tick, db
<1>17. CASE UNCHANGED vars
  BY <1>17 DEF vars, db
<1> QED
  BY <1>1, <1>2, <1>3, <1>4, <1>5, <1>6, <1>7, <1>8, <1>9, <1>10, <1>11, <1>12, <1>13, <1>14, <1>15, <1>16, <1>17 DEF Next

-------------------------------------------------------------------------------
(* How the audit log and the payments grow.                                *)
LEMMA SettleCommitGrows ==
  ASSUME TypeOK, NEW r \in Requests, SettleCommit(r)
  PROVE  /\ \A o \in Orders : Settlements(o)' =
              IF o \in held[r] THEN Settlements(o) \cup {r} ELSE Settlements(o)
         /\ \A s \in Requests \ {r} : RowsOf(s)' = RowsOf(s)
         /\ RowsOf(r)' = RowsOf(r) \cup UNION {PaymentRows(r, o, tender[r]) : o \in held[r]}
<1> USE DEF SettleCommit, TypeOK
<1>1. ASSUME NEW o \in Orders
      PROVE  Settlements(o)' = IF o \in held[r] THEN Settlements(o) \cup {r} ELSE Settlements(o)
  BY DEF Settlements, Log, Jobs
<1>2. \A o \in held[r] : \A p \in PaymentRows(r, o, tender[r]) : p.request = r
  BY DEF PaymentRows
<1>3. \A s \in Requests \ {r} : RowsOf(s)' = RowsOf(s)
  BY <1>2 DEF RowsOf
<1>4. RowsOf(r)' = RowsOf(r) \cup UNION {PaymentRows(r, o, tender[r]) : o \in held[r]}
  BY <1>2 DEF RowsOf
<1> QED
  BY <1>1, <1>3, <1>4

LEMMA OtherLogsKeep ==
  ASSUME NEW r \in Requests,
         \/ \E o \in Orders : Checkout(r, o)
         \/ PrintCommit(r)
  PROVE  \A o \in Orders : Settlements(o)' = Settlements(o)
BY DEF Settlements, Log, Checkout, PrintCommit


-------------------------------------------------------------------------------
(* Nothing is changed before it exists or voided before its time.          *)
InTime ==
  /\ \A j \in Jobs : \A o \in Changes(j) : status[o] # "absent"
  /\ \A j \in Jobs : pc[j] = "scanned" => \A o \in target[j] : Expired(o)
  /\ VoidOnlyAfterLimit

LEMMA InitInTime == Init => InTime
BY LoopIsNoRequest DEF Init, InTime, Changes, VoidOnlyAfterLimit, Jobs

LEMMA StepInTime == TypeOK /\ Sessions /\ InTime /\ [Next]_vars => InTime'
<1> SUFFICES ASSUME TypeOK, Sessions, InTime, [Next]_vars PROVE InTime'
  OBVIOUS
<1> USE LoopIsNoRequest, BoundAssumption
    DEF InTime, Changes, VoidOnlyAfterLimit, Expired, TypeOK, Sessions,
        SettlingOne, LocksInOrder, InFlight, Jobs
<1>1. ASSUME NEW r \in Requests, NEW o \in Orders, Checkout(r, o)
      PROVE  InTime'
  BY <1>1 DEF Checkout, db
<1>2. ASSUME NEW r \in Requests, NEW o \in Orders, PrintLoad(r, o)
      PROVE  InTime'
  BY <1>2 DEF PrintLoad, db
<1>3. ASSUME NEW r \in Requests, NEW o \in Orders, NEW t \in Tenders, SettleLoad(r, o, t)
      PROVE  InTime'
  BY <1>3 DEF SettleLoad, db, Settleable
<1>4. ASSUME NEW r \in Requests, NEW o \in Orders, NEW t \in Tenders, SettleRefuse(r, o, t)
      PROVE  InTime'
  BY <1>4 DEF SettleRefuse, db
<1>5. ASSUME NEW r \in Requests, SettleFlush(r)
      PROVE  InTime'
  BY <1>5 DEF SettleFlush, db
<1>6. ASSUME NEW r \in Requests, SettleReject(r)
      PROVE  InTime'
  BY <1>6 DEF SettleReject, db
<1>7. ASSUME NEW r \in Requests, SettleCommit(r)
      PROVE  InTime'
  BY <1>7 DEF SettleCommit, db
<1>8. ASSUME NEW r \in Requests, PrintEmit(r)
      PROVE  InTime'
  BY <1>8 DEF PrintEmit, db
<1>9. ASSUME NEW r \in Requests, PrintCommit(r)
      PROVE  InTime'
  BY <1>9 DEF PrintCommit, db
<1>10. ASSUME NEW j \in Jobs, VoidScan(j)
      PROVE  InTime'
  BY <1>10 DEF VoidScan, db
<1>11. ASSUME NEW j \in Jobs, VoidCommit(j)
      PROVE  InTime'
  BY <1>11 DEF VoidCommit, db
<1>12. ASSUME NEW j \in Jobs, Fail(j)
      PROVE  InTime'
  BY <1>12 DEF Fail, db
<1>13. ASSUME NEW j \in Jobs, NEW o \in Orders, VoidUpdate(j, o)
      PROVE  InTime'
  BY <1>13 DEF VoidUpdate, db
<1>14. CASE LoopSleeps
  BY <1>14 DEF LoopSleeps, db
<1>15. CASE Restart
  BY <1>15 DEF Restart, db
<1>16. CASE Tick
  BY <1>16 DEF Tick, db
<1>17. CASE UNCHANGED vars
  BY <1>17 DEF vars, db
<1> QED
  BY <1>1, <1>2, <1>3, <1>4, <1>5, <1>6, <1>7, <1>8, <1>9, <1>10, <1>11, <1>12, <1>13, <1>14, <1>15, <1>16, <1>17 DEF Next

(* Auto-void never closes an order younger than the limit.                 *)
THEOREM NeverVoidEarly == Spec => []VoidOnlyAfterLimit
<1> DEFINE IInv == TypeOK /\ Sessions /\ InTime
<1>1. Init => IInv
  BY InitType, InitSessions, InitInTime
<1>2. IInv /\ [Next]_vars => IInv'
  BY StepType, StepSessions, StepInTime
<1>3. IInv => VoidOnlyAfterLimit
  BY DEF InTime
<1> QED
  BY <1>1, <1>2, <1>3, PTL DEF Spec

-------------------------------------------------------------------------------
(* Only SettleCommit adds a settlement or a payment, and what a request    *)
(* has finished it does not touch again.                                   *)
OnlyCloses(o) ==
  \/ status'[o] = status[o]
  \/ status[o] = "absent" /\ status'[o] = "draft"
  \/ status[o] # "absent" /\ status'[o] = "void"

LEMMA OnlySettleCommitPays ==
  ASSUME TypeOK, Sessions, InTime, [Next]_vars, \A r \in Requests : ~SettleCommit(r)
  PROVE  /\ \A o \in Orders : Settlements(o)' = Settlements(o) /\ OnlyCloses(o)
         /\ payments' = payments
<1> DEFINE Same == /\ \A o \in Orders : Settlements(o)' = Settlements(o) /\ OnlyCloses(o)
                   /\ payments' = payments
<1>a. \A j \in Jobs : \A o \in held[j] : pc[j] = "scanned" => status[o] # "absent"
  BY DEF InTime, Changes, Sessions, LocksInOrder
<1> USE DEF Settlements, OnlyCloses, TypeOK
<1>1. ASSUME NEW r \in Requests, NEW o \in Orders, Checkout(r, o)
      PROVE  Same
  BY <1>1, OtherLogsKeep DEF Checkout, db
<1>2. ASSUME NEW r \in Requests, NEW o \in Orders, PrintLoad(r, o)
      PROVE  Same
  BY <1>2 DEF PrintLoad, db
<1>3. ASSUME NEW r \in Requests, NEW o \in Orders, NEW t \in Tenders, SettleLoad(r, o, t)
      PROVE  Same
  BY <1>3 DEF SettleLoad, db
<1>4. ASSUME NEW r \in Requests, NEW o \in Orders, NEW t \in Tenders, SettleRefuse(r, o, t)
      PROVE  Same
  BY <1>4 DEF SettleRefuse, db
<1>5. ASSUME NEW r \in Requests, SettleFlush(r)
      PROVE  Same
  BY <1>5 DEF SettleFlush, db
<1>6. ASSUME NEW r \in Requests, SettleReject(r)
      PROVE  Same
  BY <1>6 DEF SettleReject, db
<1>7. ASSUME NEW r \in Requests, SettleCommit(r)
      PROVE  Same
  BY <1>7
<1>8. ASSUME NEW r \in Requests, PrintEmit(r)
      PROVE  Same
  BY <1>8 DEF PrintEmit, db
<1>9. ASSUME NEW r \in Requests, PrintCommit(r)
      PROVE  Same
  BY <1>9, OtherLogsKeep DEF PrintCommit, db
<1>10. ASSUME NEW j \in Jobs, VoidScan(j)
      PROVE  Same
  BY <1>10 DEF VoidScan, db
<1>11. ASSUME NEW j \in Jobs, VoidCommit(j)
      PROVE  Same
  BY <1>11, <1>a DEF VoidCommit, db
<1>12. ASSUME NEW j \in Jobs, Fail(j)
      PROVE  Same
  BY <1>12 DEF Fail, db
<1>13. ASSUME NEW j \in Jobs, NEW o \in Orders, VoidUpdate(j, o)
      PROVE  Same
  BY <1>13 DEF VoidUpdate, db
<1>14. CASE LoopSleeps
  BY <1>14 DEF LoopSleeps, db
<1>15. CASE Restart
  BY <1>15 DEF Restart, db
<1>16. CASE Tick
  BY <1>16 DEF Tick, db
<1>17. CASE UNCHANGED vars
  BY <1>17 DEF vars, db
<1> QED
  BY <1>1, <1>2, <1>3, <1>4, <1>5, <1>6, <1>7, <1>8, <1>9, <1>10, <1>11, <1>12, <1>13, <1>14, <1>15, <1>16, <1>17 DEF Next

LEMMA DoneStays ==
  ASSUME TypeOK, Sessions, [Next]_vars, NEW s \in Requests, pc[s] = "done"
  PROVE  pc'[s] = "done" /\ tender'[s] = tender[s]
<1> DEFINE Stays == pc'[s] = "done" /\ tender'[s] = tender[s]
<1> USE LoopIsNoRequest DEF TypeOK, InFlight, Jobs
<1>1. ASSUME NEW r \in Requests, NEW o \in Orders, Checkout(r, o)
      PROVE  Stays
  BY <1>1 DEF Checkout, db
<1>2. ASSUME NEW r \in Requests, NEW o \in Orders, PrintLoad(r, o)
      PROVE  Stays
  BY <1>2 DEF PrintLoad, db
<1>3. ASSUME NEW r \in Requests, NEW o \in Orders, NEW t \in Tenders, SettleLoad(r, o, t)
      PROVE  Stays
  BY <1>3 DEF SettleLoad, db
<1>4. ASSUME NEW r \in Requests, NEW o \in Orders, NEW t \in Tenders, SettleRefuse(r, o, t)
      PROVE  Stays
  BY <1>4 DEF SettleRefuse, db
<1>5. ASSUME NEW r \in Requests, SettleFlush(r)
      PROVE  Stays
  BY <1>5 DEF SettleFlush, db
<1>6. ASSUME NEW r \in Requests, SettleReject(r)
      PROVE  Stays
  BY <1>6 DEF SettleReject, db
<1>7. ASSUME NEW r \in Requests, SettleCommit(r)
      PROVE  Stays
  BY <1>7 DEF SettleCommit, db
<1>8. ASSUME NEW r \in Requests, PrintEmit(r)
      PROVE  Stays
  BY <1>8 DEF PrintEmit, db
<1>9. ASSUME NEW r \in Requests, PrintCommit(r)
      PROVE  Stays
  BY <1>9 DEF PrintCommit, db
<1>10. ASSUME NEW j \in Jobs, VoidScan(j)
      PROVE  Stays
  BY <1>10 DEF VoidScan, db
<1>11. ASSUME NEW j \in Jobs, VoidCommit(j)
      PROVE  Stays
  BY <1>11 DEF VoidCommit, db
<1>12. ASSUME NEW j \in Jobs, Fail(j)
      PROVE  Stays
  BY <1>12 DEF Fail, db
<1>13. ASSUME NEW j \in Jobs, NEW o \in Orders, VoidUpdate(j, o)
      PROVE  Stays
  BY <1>13 DEF VoidUpdate, db
<1>14. CASE LoopSleeps
  BY <1>14 DEF LoopSleeps, db
<1>15. CASE Restart
  BY <1>15 DEF Restart, db
<1>16. CASE Tick
  BY <1>16 DEF Tick, db
<1>17. CASE UNCHANGED vars
  BY <1>17 DEF vars, db
<1> QED
  BY <1>1, <1>2, <1>3, <1>4, <1>5, <1>6, <1>7, <1>8, <1>9, <1>10, <1>11, <1>12, <1>13, <1>14, <1>15, <1>16, <1>17 DEF Next

-------------------------------------------------------------------------------
(* A request has left rows behind only when it is done.                    *)
Booked ==
  /\ \A r \in Requests : pc[r] # "done" =>
       RowsOf(r) = {} /\ \A o \in Orders : r \notin Settlements(o)
  /\ \A o \in Orders : status[o] = "settled" => Settlements(o) # {}
  /\ \A o \in Orders : Settlements(o) # {} => status[o] \in {"settled", "void"}
  /\ SettlementAllOrNothing

LEMMA InitBooked == Init => Booked
BY DEF Init, Booked, RowsOf, Settlements, SettlementAllOrNothing, SettlementOf

LEMMA StepBooked == TypeOK /\ Sessions /\ InTime /\ Booked /\ [Next]_vars => Booked'
<1> SUFFICES ASSUME TypeOK, Sessions, InTime, Booked, [Next]_vars PROVE Booked'
  OBVIOUS
<1>1. CASE \A r \in Requests : ~SettleCommit(r)
  <2>1. /\ \A o \in Orders : Settlements(o)' = Settlements(o) /\ OnlyCloses(o)
        /\ payments' = payments
    BY <1>1, OnlySettleCommitPays
  <2>2. \A r \in Requests : RowsOf(r)' = RowsOf(r)
    BY <2>1 DEF RowsOf
  <2>3. \A r \in Requests : pc'[r] # "done" => pc[r] # "done"
    BY DoneStays
  <2>4. \A r \in Requests : pc'[r] # "done" =>
          RowsOf(r)' = {} /\ \A o \in Orders : r \notin Settlements(o)'
    BY <2>1, <2>2, <2>3 DEF Booked
  <2>5. \A o \in Orders : /\ status'[o] = "settled" => Settlements(o)' # {}
                          /\ Settlements(o)' # {} => status'[o] \in {"settled", "void"}
    BY <2>1 DEF Booked, OnlyCloses
  <2>6. ASSUME NEW r \in Requests
        PROVE  SettlementOf(r)'
    <3>1. CASE RowsOf(r) = {} /\ \A o \in Orders : r \notin Settlements(o)
      BY <2>1, <2>2, <3>1 DEF SettlementOf
    <3>2. CASE ~(RowsOf(r) = {} /\ \A o \in Orders : r \notin Settlements(o))
      <4>1. tender'[r] = tender[r]
        BY <3>2, DoneStays DEF Booked
      <4>2. PICK o \in Orders :
              /\ r \in Settlements(o) /\ \A p \in Orders \ {o} : r \notin Settlements(p)
              /\ RowsOf(r) = PaymentRows(r, o, tender[r])
              /\ Paid(tender[r]) = FinalAmount[o]
              /\ NonNegative(tender[r])
        BY <3>2 DEF Booked, SettlementAllOrNothing, SettlementOf
      <4> QED
        BY <2>1, <2>2, <4>1, <4>2 DEF SettlementOf, NonNegative, PaymentRows
    <3> QED
      BY <3>1, <3>2
  <2> QED
    BY <2>4, <2>5, <2>6 DEF Booked, SettlementAllOrNothing
<1>2. ASSUME NEW r \in Requests, SettleCommit(r)
      PROVE  Booked'
  <2>1. PICK o \in Orders : held[r] = {o} /\ Paid(tender[r]) = FinalAmount[o]
    BY <1>2 DEF SettleCommit, Sessions, SettlingOne
  <2>2. NonNegative(tender[r]) /\ pc[r] = "flushed"
    BY <1>2 DEF SettleCommit, Sessions, SettlingOne
  <2>3. /\ \A p \in Orders : Settlements(p)' =
             IF p = o THEN Settlements(p) \cup {r} ELSE Settlements(p)
        /\ \A s \in Requests \ {r} : RowsOf(s)' = RowsOf(s)
        /\ RowsOf(r)' = RowsOf(r) \cup UNION {PaymentRows(r, p, tender[r]) : p \in held[r]}
    BY <1>2, <2>1, SettleCommitGrows
  <2>4. RowsOf(r) = {} /\ \A p \in Orders : r \notin Settlements(p)
    BY <2>2 DEF Booked
  <2>5. RowsOf(r)' = PaymentRows(r, o, tender[r])
    BY <2>1, <2>3, <2>4
  <2>6. pc'[r] = "done" /\ tender' = tender /\ \A s \in Requests \ {r} : pc'[s] = pc[s]
    BY <1>2 DEF SettleCommit, TypeOK, Jobs
  <2>7. \A s \in Requests : pc'[s] # "done" =>
          RowsOf(s)' = {} /\ \A p \in Orders : s \notin Settlements(p)'
    BY <2>3, <2>6 DEF Booked
  <2>8. \A p \in Orders : status'[p] = IF p = o THEN "settled" ELSE status[p]
    BY <1>2, <2>1 DEF SettleCommit
  <2>9. \A p \in Orders : /\ status'[p] = "settled" => Settlements(p)' # {}
                          /\ Settlements(p)' # {} => status'[p] \in {"settled", "void"}
    BY <2>3, <2>8 DEF Booked
  <2>10. ASSUME NEW s \in Requests
         PROVE  SettlementOf(s)'
    <3>1. CASE s = r
      BY <2>1, <2>2, <2>3, <2>4, <2>5, <2>6, <3>1 DEF SettlementOf, PaymentRows, NonNegative
    <3>2. CASE s # r
      <4>1. /\ RowsOf(s)' = RowsOf(s) /\ tender'[s] = tender[s]
            /\ \A p \in Orders : s \in Settlements(p)' <=> s \in Settlements(p)
        BY <2>3, <2>6, <3>2
      <4>2. SettlementOf(s)
        BY DEF Booked, SettlementAllOrNothing
      <4> QED
        BY <4>1, <4>2 DEF SettlementOf, PaymentRows, NonNegative
    <3> QED
      BY <3>1, <3>2
  <2> QED
    BY <2>7, <2>9, <2>10 DEF Booked, SettlementAllOrNothing
<1> QED
  BY <1>1, <1>2


(* Whatever fails, a request leaves its whole tender behind, or nothing.   *)
THEOREM AllOrNothing == Spec => []SettlementAllOrNothing
<1> DEFINE IInv == TypeOK /\ Sessions /\ InTime /\ Booked
<1>1. Init => IInv
  BY InitType, InitSessions, InitInTime, InitBooked
<1>2. IInv /\ [Next]_vars => IInv'
  BY StepType, StepSessions, StepInTime, StepBooked
<1>3. IInv => SettlementAllOrNothing
  BY DEF Booked
<1> QED
  BY <1>1, <1>2, <1>3, PTL DEF Spec

-------------------------------------------------------------------------------
(* An order nobody raced for is in the hands of one session at most, which *)
(* finds it as it loaded it.                                               *)
OneAtATime ==
  \A o \in Orders : ~raced[o] =>
    /\ \A j, k \in Jobs : o \in Changes(j) /\ o \in Changes(k) => j = k
    /\ \A j \in Jobs : o \in Changes(j) => status[o] = "draft"

LEMMA InitOneAtATime == Init => OneAtATime
BY LoopIsNoRequest DEF Init, OneAtATime, Changes, Jobs

(* Every step but a checkout, a load and a commit leaves the changers of   *)
(* each order the same or fewer.                                           *)
LEMMA FewerChangers ==
  ASSUME OneAtATime,
         \A j \in Jobs : Changes(j)' \subseteq Changes(j),
         \A o \in Orders : raced'[o] = raced[o],
         \A o \in Orders : \/ status'[o] = status[o]
                           \/ \A j \in Jobs : o \notin Changes(j)'
  PROVE  OneAtATime'
BY DEF OneAtATime

LEMMA NewChanger ==
  ASSUME OneAtATime, NEW j \in Jobs, NEW new \in SUBSET Orders,
         Changes(j) = {}, Changes(j)' = new,
         \A k \in Jobs \ {j} : Changes(k)' = Changes(k),
         \A p \in Orders : status'[p] = status[p],
         \A p \in new : status[p] = "draft",
         \A p \in Orders \ new : raced'[p] = raced[p],
         \A p \in new : ~raced'[p] => ~raced[p] /\ \A k \in Jobs : p \notin Changes(k)
  PROVE  OneAtATime'
<1> SUFFICES ASSUME NEW p \in Orders, ~raced'[p]
             PROVE  /\ \A k, l \in Jobs : p \in Changes(k)' /\ p \in Changes(l)' => k = l
                    /\ \A k \in Jobs : p \in Changes(k)' => status'[p] = "draft"
  BY DEF OneAtATime
<1>1. CASE p \in new
  BY <1>1
<1>2. CASE p \notin new
  BY <1>2 DEF OneAtATime
<1> QED
  BY <1>1, <1>2

LEMMA StepOneAtATime == TypeOK /\ Sessions /\ InTime /\ OneAtATime /\ [Next]_vars => OneAtATime'
<1> SUFFICES ASSUME TypeOK, Sessions, InTime, OneAtATime, [Next]_vars PROVE OneAtATime'
  OBVIOUS
<1> USE LoopIsNoRequest DEF TypeOK, Jobs, Changes
<1>1. ASSUME NEW r \in Requests, NEW o \in Orders, Checkout(r, o)
      PROVE  OneAtATime'
  BY <1>1, FewerChangers DEF Checkout, db, InTime
<1>2. ASSUME NEW r \in Requests, NEW o \in Orders, PrintLoad(r, o)
      PROVE  OneAtATime'
  BY <1>2, FewerChangers DEF PrintLoad, db
<1>3. ASSUME NEW r \in Requests, NEW o \in Orders, NEW t \in Tenders, SettleLoad(r, o, t)
      PROVE  OneAtATime'
  <2>1. /\ \A j \in Jobs \ {r} : Changes(j)' = Changes(j)
        /\ Changes(r)' = {o} /\ Changes(r) = {}
    BY <1>3 DEF SettleLoad
  <2>2. status[o] = "draft" /\ \A p \in Orders : status'[p] = status[p]
    BY <1>3 DEF SettleLoad, Settleable, db
  <2>3. /\ \A p \in Orders \ {o} : raced'[p] = raced[p]
        /\ ~raced'[o] => ~raced[o] /\ \A j \in Jobs : o \notin Changes(j)
    BY <1>3 DEF SettleLoad, Contested
  <2>4. /\ {o} \in SUBSET Orders
        /\ \A p \in {o} : status[p] = "draft"
        /\ \A p \in {o} : ~raced'[p] => ~raced[p] /\ \A k \in Jobs : p \notin Changes(k)
    BY <1>3, <2>2, <2>3
  <2> HIDE DEF Changes
  <2> QED
    BY <1>3, <2>1, <2>2, <2>3, <2>4, NewChanger
<1>4. ASSUME NEW r \in Requests, NEW o \in Orders, NEW t \in Tenders, SettleRefuse(r, o, t)
      PROVE  OneAtATime'
  BY <1>4, FewerChangers DEF SettleRefuse, db
<1>5. ASSUME NEW r \in Requests, SettleFlush(r)
      PROVE  OneAtATime'
  BY <1>5, FewerChangers DEF SettleFlush, db
<1>6. ASSUME NEW r \in Requests, SettleReject(r)
      PROVE  OneAtATime'
  BY <1>6, FewerChangers DEF SettleReject, db
<1>7. ASSUME NEW r \in Requests, SettleCommit(r)
      PROVE  OneAtATime'
  <2>1. held[r] = target[r] /\ held[r] = Changes(r)
    BY <1>7 DEF SettleCommit, Sessions, SettlingOne
  <2>2. Changes(r)' = {} /\ \A k \in Jobs \ {r} : Changes(k)' = Changes(k)
    BY <1>7 DEF SettleCommit
  <2>3. /\ raced' = raced
        /\ \A o \in Orders \ held[r] : status'[o] = status[o]
    BY <1>7 DEF SettleCommit
  <2> QED
    BY <2>1, <2>2, <2>3 DEF OneAtATime
<1>8. ASSUME NEW r \in Requests, PrintEmit(r)
      PROVE  OneAtATime'
  BY <1>8, FewerChangers DEF PrintEmit, db
<1>9. ASSUME NEW r \in Requests, PrintCommit(r)
      PROVE  OneAtATime'
  BY <1>9, FewerChangers DEF PrintCommit, db
<1>10. ASSUME NEW j \in Jobs, VoidScan(j)
      PROVE  OneAtATime'
  <2> DEFINE found == {o \in Orders : status[o] = "draft" /\ Expired(o)}
  <2>1. /\ \A k \in Jobs \ {j} : Changes(k)' = Changes(k)
        /\ Changes(j)' = found /\ Changes(j) = {}
    BY <1>10 DEF VoidScan
  <2>2. \A p \in Orders : status'[p] = status[p]
    BY <1>10 DEF VoidScan, db
  <2>3. /\ \A p \in Orders \ found : raced'[p] = raced[p]
        /\ \A p \in found : ~raced'[p] => ~raced[p] /\ \A k \in Jobs : p \notin Changes(k)
    BY <1>10 DEF VoidScan, Contested
  <2> HIDE DEF Changes
  <2> QED
    BY <1>10, <2>1, <2>2, <2>3, NewChanger
<1>11. ASSUME NEW j \in Jobs, VoidCommit(j)
      PROVE  OneAtATime'
  <2>0. pc[j] = "scanned" /\ target[j] \subseteq held[j] /\ held[j] \subseteq target[j]
    BY <1>11 DEF VoidCommit, Sessions, LocksInOrder
  <2>1. held[j] = target[j] /\ held[j] = Changes(j)
    BY <2>0
  <2>2. Changes(j)' = {} /\ \A k \in Jobs \ {j} : Changes(k)' = Changes(k)
    BY <1>11 DEF VoidCommit
  <2>3. /\ raced' = raced
        /\ \A o \in Orders \ held[j] : status'[o] = status[o]
    BY <1>11 DEF VoidCommit
  <2> QED
    BY <2>1, <2>2, <2>3 DEF OneAtATime
<1>12. ASSUME NEW j \in Jobs, Fail(j)
      PROVE  OneAtATime'
  BY <1>12, FewerChangers DEF Fail, db
<1>13. ASSUME NEW j \in Jobs, NEW o \in Orders, VoidUpdate(j, o)
      PROVE  OneAtATime'
  BY <1>13, FewerChangers DEF VoidUpdate, db
<1>14. CASE LoopSleeps
  BY <1>14, FewerChangers DEF LoopSleeps, db
<1>15. CASE Restart
  BY <1>15, FewerChangers DEF Restart, db
<1>16. CASE Tick
  BY <1>16, FewerChangers DEF Tick, db
<1>17. CASE UNCHANGED vars
  BY <1>17, FewerChangers DEF vars, db
<1> QED
  BY <1>1, <1>2, <1>3, <1>4, <1>5, <1>6, <1>7, <1>8, <1>9, <1>10, <1>11, <1>12, <1>13, <1>14, <1>15, <1>16, <1>17 DEF Next

-------------------------------------------------------------------------------
LEMMA InitSettledOnce == Init => SettledOnceUnlessRaced
BY DEF Init, SettledOnceUnlessRaced, Settlements

LEMMA RacedStays ==
  ASSUME TypeOK, [Next]_vars, NEW q \in Orders, raced[q]
  PROVE  raced'[q]
<1> USE DEF TypeOK, Contested
<1>1. ASSUME NEW r \in Requests, NEW o \in Orders, Checkout(r, o)
      PROVE  raced'[q]
  BY <1>1 DEF Checkout, db
<1>2. ASSUME NEW r \in Requests, NEW o \in Orders, PrintLoad(r, o)
      PROVE  raced'[q]
  BY <1>2 DEF PrintLoad, db
<1>3. ASSUME NEW r \in Requests, NEW o \in Orders, NEW t \in Tenders, SettleLoad(r, o, t)
      PROVE  raced'[q]
  BY <1>3 DEF SettleLoad, db
<1>4. ASSUME NEW r \in Requests, NEW o \in Orders, NEW t \in Tenders, SettleRefuse(r, o, t)
      PROVE  raced'[q]
  BY <1>4 DEF SettleRefuse, db
<1>5. ASSUME NEW r \in Requests, SettleFlush(r)
      PROVE  raced'[q]
  BY <1>5 DEF SettleFlush, db
<1>6. ASSUME NEW r \in Requests, SettleReject(r)
      PROVE  raced'[q]
  BY <1>6 DEF SettleReject, db
<1>7. ASSUME NEW r \in Requests, SettleCommit(r)
      PROVE  raced'[q]
  BY <1>7 DEF SettleCommit, db
<1>8. ASSUME NEW r \in Requests, PrintEmit(r)
      PROVE  raced'[q]
  BY <1>8 DEF PrintEmit, db
<1>9. ASSUME NEW r \in Requests, PrintCommit(r)
      PROVE  raced'[q]
  BY <1>9 DEF PrintCommit, db
<1>10. ASSUME NEW j \in Jobs, VoidScan(j)
      PROVE  raced'[q]
  BY <1>10 DEF VoidScan, db
<1>11. ASSUME NEW j \in Jobs, VoidCommit(j)
      PROVE  raced'[q]
  BY <1>11 DEF VoidCommit, db
<1>12. ASSUME NEW j \in Jobs, Fail(j)
      PROVE  raced'[q]
  BY <1>12 DEF Fail, db
<1>13. ASSUME NEW j \in Jobs, NEW o \in Orders, VoidUpdate(j, o)
      PROVE  raced'[q]
  BY <1>13 DEF VoidUpdate, db
<1>14. CASE LoopSleeps
  BY <1>14 DEF LoopSleeps, db
<1>15. CASE Restart
  BY <1>15 DEF Restart, db
<1>16. CASE Tick
  BY <1>16 DEF Tick, db
<1>17. CASE UNCHANGED vars
  BY <1>17 DEF vars, db
<1> QED
  BY <1>1, <1>2, <1>3, <1>4, <1>5, <1>6, <1>7, <1>8, <1>9, <1>10, <1>11, <1>12, <1>13, <1>14, <1>15, <1>16, <1>17 DEF Next

LEMMA StepSettledOnce ==
  /\ TypeOK /\ Sessions /\ InTime /\ Booked /\ OneAtATime
  /\ SettledOnceUnlessRaced /\ [Next]_vars
  => SettledOnceUnlessRaced'
<1> SUFFICES ASSUME TypeOK, Sessions, InTime, Booked, OneAtATime,
                    SettledOnceUnlessRaced, [Next]_vars,
                    NEW q \in Orders, ~raced'[q]
             PROVE  /\ \A r, s \in Settlements(q)' : r = s
                    /\ status'[q] = "settled" <=> Settlements(q)' # {}
                    /\ status'[q] # "settled" => \A p \in payments' : p.order # q
  BY DEF SettledOnceUnlessRaced
<1>0. ~raced[q]
  BY RacedStays
<1>1. /\ \A r, s \in Settlements(q) : r = s
      /\ status[q] = "settled" <=> Settlements(q) # {}
      /\ status[q] # "settled" => \A p \in payments : p.order # q
  BY <1>0 DEF SettledOnceUnlessRaced
<1>2. ASSUME NEW r \in Requests, SettleCommit(r)
      PROVE  /\ \A s, u \in Settlements(q)' : s = u
             /\ status'[q] = "settled" <=> Settlements(q)' # {}
             /\ status'[q] # "settled" => \A p \in payments' : p.order # q
  <2>1. Settlements(q)' = IF q \in held[r] THEN Settlements(q) \cup {r} ELSE Settlements(q)
    BY <1>2, SettleCommitGrows
  <2>2. status'[q] = IF q \in held[r] THEN "settled" ELSE status[q]
    BY <1>2 DEF SettleCommit
  <2>3. q \in held[r] => status[q] = "draft"
    BY <1>0, <1>2 DEF SettleCommit, OneAtATime, Changes, Sessions, SettlingOne, Jobs
  <2>4. q \notin held[r] /\ (\A p \in payments : p.order # q) => \A p \in payments' : p.order # q
    BY <1>2 DEF SettleCommit, PaymentRows
  <2> QED
    BY <1>1, <2>1, <2>2, <2>3, <2>4
<1>3. CASE \A r \in Requests : ~SettleCommit(r)
  <2>1. Settlements(q)' = Settlements(q) /\ payments' = payments
    BY <1>3, OnlySettleCommitPays
  <2>2. status'[q] = status[q] \/ (status[q] \in {"absent", "draft"} /\ status'[q] # "settled")
    <3> USE DEF TypeOK
<3>1. ASSUME NEW r \in Requests, NEW o \in Orders, Checkout(r, o)
          PROVE  status'[q] = status[q] \/ (status[q] \in {"absent", "draft"} /\ status'[q] # "settled")
      BY <3>1 DEF Checkout, db
    <3>2. ASSUME NEW r \in Requests, NEW o \in Orders, PrintLoad(r, o)
          PROVE  status'[q] = status[q] \/ (status[q] \in {"absent", "draft"} /\ status'[q] # "settled")
      BY <3>2 DEF PrintLoad, db
    <3>3. ASSUME NEW r \in Requests, NEW o \in Orders, NEW t \in Tenders, SettleLoad(r, o, t)
          PROVE  status'[q] = status[q] \/ (status[q] \in {"absent", "draft"} /\ status'[q] # "settled")
      BY <3>3 DEF SettleLoad, db
    <3>4. ASSUME NEW r \in Requests, NEW o \in Orders, NEW t \in Tenders, SettleRefuse(r, o, t)
          PROVE  status'[q] = status[q] \/ (status[q] \in {"absent", "draft"} /\ status'[q] # "settled")
      BY <3>4 DEF SettleRefuse, db
    <3>5. ASSUME NEW r \in Requests, SettleFlush(r)
          PROVE  status'[q] = status[q] \/ (status[q] \in {"absent", "draft"} /\ status'[q] # "settled")
      BY <3>5 DEF SettleFlush, db
    <3>6. ASSUME NEW r \in Requests, SettleReject(r)
          PROVE  status'[q] = status[q] \/ (status[q] \in {"absent", "draft"} /\ status'[q] # "settled")
      BY <3>6 DEF SettleReject, db
    <3>7. ASSUME NEW r \in Requests, SettleCommit(r)
          PROVE  status'[q] = status[q] \/ (status[q] \in {"absent", "draft"} /\ status'[q] # "settled")
      BY <1>3, <3>7
    <3>8. ASSUME NEW r \in Requests, PrintEmit(r)
          PROVE  status'[q] = status[q] \/ (status[q] \in {"absent", "draft"} /\ status'[q] # "settled")
      BY <3>8 DEF PrintEmit, db
    <3>9. ASSUME NEW r \in Requests, PrintCommit(r)
          PROVE  status'[q] = status[q] \/ (status[q] \in {"absent", "draft"} /\ status'[q] # "settled")
      BY <3>9 DEF PrintCommit, db
    <3>10. ASSUME NEW j \in Jobs, VoidScan(j)
          PROVE  status'[q] = status[q] \/ (status[q] \in {"absent", "draft"} /\ status'[q] # "settled")
      BY <3>10 DEF VoidScan, db
    <3>11. ASSUME NEW j \in Jobs, VoidCommit(j)
          PROVE  status'[q] = status[q] \/ (status[q] \in {"absent", "draft"} /\ status'[q] # "settled")
      <4>1. q \in held[j] => q \in Changes(j)
        BY <3>11 DEF VoidCommit, Changes, Sessions, LocksInOrder
      <4>2. q \in held[j] => status[q] = "draft"
        BY <1>0, <4>1 DEF OneAtATime
      <4> QED
        BY <3>11, <4>2 DEF VoidCommit
    <3>12. ASSUME NEW j \in Jobs, Fail(j)
          PROVE  status'[q] = status[q] \/ (status[q] \in {"absent", "draft"} /\ status'[q] # "settled")
      BY <3>12 DEF Fail, db
    <3>13. ASSUME NEW j \in Jobs, NEW o \in Orders, VoidUpdate(j, o)
          PROVE  status'[q] = status[q] \/ (status[q] \in {"absent", "draft"} /\ status'[q] # "settled")
      BY <3>13 DEF VoidUpdate, db
    <3>14. CASE LoopSleeps
      BY <3>14 DEF LoopSleeps, db
    <3>15. CASE Restart
      BY <3>15 DEF Restart, db
    <3>16. CASE Tick
      BY <3>16 DEF Tick, db
    <3>17. CASE UNCHANGED vars
      BY <3>17 DEF vars, db
    <3> QED
      BY <3>1, <3>2, <3>3, <3>4, <3>5, <3>6, <3>7, <3>8, <3>9, <3>10, <3>11, <3>12, <3>13, <3>14, <3>15, <3>16, <3>17 DEF Next
  <2> QED
    BY <1>1, <2>1, <2>2
<1> QED
  BY <1>2, <1>3


-------------------------------------------------------------------------------
Inv == /\ TypeOK /\ Sessions /\ InTime /\ Booked /\ OneAtATime
       /\ SettledOnceUnlessRaced

LEMMA InvCorrect == Spec => []Inv
<1>1. Init => Inv
  BY InitType, InitSessions, InitInTime, InitBooked, InitOneAtATime, InitSettledOnce DEF Inv
<1>2. Inv /\ [Next]_vars => Inv'
  BY StepType, StepSessions, StepInTime, StepBooked, StepOneAtATime, StepSettledOnce DEF Inv
<1> QED
  BY <1>1, <1>2, PTL DEF Spec

(* Without two jobs on one order, it is settled by one request or by none, *)
(* its status says so, and only a settled order has payments.              *)
THEOREM SettledOnce == Spec => []SettledOnceUnlessRaced
<1>1. Inv => SettledOnceUnlessRaced
  BY DEF Inv
<1> QED
  BY <1>1, InvCorrect, PTL

LEMMA CommitsCloseLoaded ==
  ASSUME Inv, NEW q \in Orders, ~raced[q], NEW j \in Jobs, q \in held[j]
  PROVE  status[q] = "draft"
<1>1. pc[j] \in {"flushed", "scanned"} /\ held[j] \subseteq target[j]
  BY DEF Inv, Sessions, LocksInOrder
<1>2. q \in Changes(j)
  BY <1>1 DEF Changes
<1> QED
  BY <1>2 DEF Inv, OneAtATime

LEMMA StepFlips ==
  ASSUME Inv, [Next]_vars, NEW q \in Orders,
         status[q] \in {"settled", "void"}, status'[q] # status[q]
  PROVE  raced[q] /\ status'[q] \in {"settled", "void"}
<1> DEFINE Flip == raced[q] /\ status'[q] \in {"settled", "void"}
<1> USE DEF Inv, TypeOK, Jobs
<1>1. ASSUME NEW r \in Requests, NEW o \in Orders, Checkout(r, o)
      PROVE  Flip
  BY <1>1 DEF Checkout, db
<1>2. ASSUME NEW r \in Requests, NEW o \in Orders, PrintLoad(r, o)
      PROVE  Flip
  BY <1>2 DEF PrintLoad, db
<1>3. ASSUME NEW r \in Requests, NEW o \in Orders, NEW t \in Tenders, SettleLoad(r, o, t)
      PROVE  Flip
  BY <1>3 DEF SettleLoad, db
<1>4. ASSUME NEW r \in Requests, NEW o \in Orders, NEW t \in Tenders, SettleRefuse(r, o, t)
      PROVE  Flip
  BY <1>4 DEF SettleRefuse, db
<1>5. ASSUME NEW r \in Requests, SettleFlush(r)
      PROVE  Flip
  BY <1>5 DEF SettleFlush, db
<1>6. ASSUME NEW r \in Requests, SettleReject(r)
      PROVE  Flip
  BY <1>6 DEF SettleReject, db
<1>7. ASSUME NEW r \in Requests, SettleCommit(r)
      PROVE  Flip
  BY <1>7, CommitsCloseLoaded DEF SettleCommit, db
<1>8. ASSUME NEW r \in Requests, PrintEmit(r)
      PROVE  Flip
  BY <1>8 DEF PrintEmit, db
<1>9. ASSUME NEW r \in Requests, PrintCommit(r)
      PROVE  Flip
  BY <1>9 DEF PrintCommit, db
<1>10. ASSUME NEW j \in Jobs, VoidScan(j)
      PROVE  Flip
  BY <1>10 DEF VoidScan, db
<1>11. ASSUME NEW j \in Jobs, VoidCommit(j)
      PROVE  Flip
  BY <1>11, CommitsCloseLoaded DEF VoidCommit, db
<1>12. ASSUME NEW j \in Jobs, Fail(j)
      PROVE  Flip
  BY <1>12 DEF Fail, db
<1>13. ASSUME NEW j \in Jobs, NEW o \in Orders, VoidUpdate(j, o)
      PROVE  Flip
  BY <1>13 DEF VoidUpdate, db
<1>14. CASE LoopSleeps
  BY <1>14 DEF LoopSleeps, db
<1>15. CASE Restart
  BY <1>15 DEF Restart, db
<1>16. CASE Tick
  BY <1>16 DEF Tick, db
<1>17. CASE UNCHANGED vars
  BY <1>17 DEF vars, db
<1> QED
  BY <1>1, <1>2, <1>3, <1>4, <1>5, <1>6, <1>7, <1>8, <1>9, <1>10, <1>11, <1>12, <1>13, <1>14, <1>15, <1>16, <1>17 DEF Next

(* No step reopens a closed order, and a step that turns one outcome into  *)
(* the other is the end of a race.                                         *)
THEOREM FlipsOnlyRaced == Spec => OutcomeFlipsOnlyRaced
<1>1. Inv /\ [Next]_vars =>
        [\A o \in Orders :
           status[o] \in {"settled", "void"} /\ status'[o] # status[o] =>
             raced[o] /\ status'[o] \in {"settled", "void"}]_vars
  BY StepFlips
<1> QED
  BY <1>1, InvCorrect, PTL DEF Spec, OutcomeFlipsOnlyRaced

-------------------------------------------------------------------------------
(* Each session in a circle holds a row below one that the circle wants,   *)
(* so the rows wanted there would have no greatest one.                    *)
LEMMA OrderedLocksCannotCycle == TypeOK /\ Sessions => NoLockCycle
<1> SUFFICES ASSUME TypeOK, Sessions PROVE NoLockCycle
  OBVIOUS
<1> SUFFICES ASSUME NEW circle \in (SUBSET Jobs) \ {{}},
                    \A j \in circle : \E k \in circle : WaitsFor(j, k)
             PROVE  FALSE
  BY Zenon DEF NoLockCycle
<1>0. circle \subseteq Jobs /\ circle # {} /\ \A j \in circle : \E k \in circle : WaitsFor(j, k)
  <2>1. circle \in SUBSET Jobs /\ circle # {}
    OBVIOUS
  <2> QED
    BY <2>1, Zenon
<1> DEFINE Wants(j, o) == \/ pc[j] = "loaded" /\ o \in target[j]
                          \/ pc[j] = "scanned" /\ NextRow(j, o)
           W == {o \in Orders : \E j, k \in circle : o \in held[k] /\ Wants(j, o)}
           T(last) == {last - o : o \in W}
<1>1. ASSUME NEW j \in circle
      PROVE  \E o \in W : Wants(j, o)
  <2>1. PICK k \in circle : WaitsFor(j, k)
    BY <1>0
  <2>2. PICK o : o \in held[k] /\ Wants(j, o)
    BY <2>1 DEF WaitsFor
  <2>3. o \in Orders
    BY <1>0, <2>1, <2>2 DEF TypeOK
  <2> QED
    BY <2>2, <2>3
<1>2. ASSUME NEW o \in W
      PROVE  \E p \in W : o < p
  <2>1. PICK k \in circle : o \in held[k]
    BY <1>2
  <2>2. PICK p \in W : Wants(k, p)
    BY <1>1
  <2>3. pc[k] = "scanned" /\ NextRow(k, p)
    BY <1>0, <2>1, <2>2 DEF Sessions, LocksInOrder
  <2> QED
    BY <1>0, <2>1, <2>3 DEF Sessions, LocksInOrder, NextRow
<1>3. PICK last \in Nat : Orders \subseteq 0 .. last
  <2>1. PICK last \in Orders \cup {0} : \A o \in Orders : o <= last
    BY OrderIds
  <2>2. last \in Nat /\ Orders \subseteq 0 .. last
    BY <2>1, OrderIds
  <2> QED
    BY <2>2
<1>4. T(last) \subseteq Nat /\ T(last) # {}
  <2>1. W \subseteq 0 .. last
    BY <1>3
  <2>2. W # {}
    BY <1>0, <1>1
  <2>3. \A o \in W : last - o \in Nat
    BY <2>1
  <2> HIDE DEF W
  <2> QED
    BY <2>2, <2>3
<1>5. PICK x \in T(last) : \A y \in T(last) : ~(<<y, x>> \in OpToRel(<, Nat))
  <2> HIDE DEF T
  <2> QED
    BY <1>4, NatLessThanWellFounded, WFMin
<1>6. PICK o \in W, p \in W : x = last - o /\ o < p
  BY <1>2, <1>5
<1>7. last - p \in T(last) /\ last - p < x
  BY <1>3, <1>6
<1>8. <<last - p, x>> \in OpToRel(<, Nat)
  BY <1>4, <1>5, <1>7 DEF OpToRel
<1> QED
  BY <1>5, <1>7, <1>8


(* However settlements and auto-voids overlap, no set of sessions waits    *)
(* for each other's rows in a circle.                                      *)
THEOREM NoDeadlock == Spec => []NoLockCycle
<1>1. Inv => NoLockCycle
  BY OrderedLocksCannotCycle DEF Inv
<1> QED
  BY <1>1, InvCorrect, PTL

-------------------------------------------------------------------------------
Printing ==
  /\ \A r \in Requests : pc[r] \in {"printing", "printed"} =>
       \A o \in target[r] : Settlements(o) # {}
  /\ \A r \in Requests : pc[r] = "printed" =>
       \A o \in target[r] : [order |-> o, request |-> r] \in paper
  /\ \A x \in paper : Settlements(x.order) # {}
  /\ \A a \in audit : a.what = "receipt_printed" =>
       [order |-> a.order, request |-> a.request] \in paper

LEMMA InitPrinting == Init => Printing
BY DEF Init, Printing, Jobs

LEMMA SettlementsStay ==
  ASSUME Inv, [Next]_vars, NEW o \in Orders
  PROVE  Settlements(o) \subseteq Settlements(o)'
<1>1. CASE \A r \in Requests : ~SettleCommit(r)
  BY <1>1, OnlySettleCommitPays DEF Inv
<1>2. ASSUME NEW r \in Requests, SettleCommit(r)
      PROVE  Settlements(o) \subseteq Settlements(o)'
  BY <1>2, SettleCommitGrows DEF Inv
<1> QED
  BY <1>1, <1>2

LEMMA StepPrinting == Inv /\ Printing /\ [Next]_vars => Printing'
<1> SUFFICES ASSUME Inv, Printing, [Next]_vars PROVE Printing'
  OBVIOUS
<1>0. \A o \in Orders : Settlements(o) # {} => Settlements(o)' # {}
  BY SettlementsStay
<1>a. \A o \in Orders : status[o] = "settled" => Settlements(o) # {}
  BY DEF Inv, Booked
<1>b. TypeOK
  BY DEF Inv
<1>c. pc[Loop] \in {"asleep", "scanned", "compacting", "dead"}
  BY DEF Inv, Sessions, SettlingOne
<1> USE <1>0, <1>b, LoopIsNoRequest DEF Printing, TypeOK, Jobs, InFlight
<1>1. ASSUME NEW r \in Requests, NEW o \in Orders, Checkout(r, o)
      PROVE  Printing'
  <2>1. \A s \in Requests : pc'[s] \in {"printing", "printed"} =>
          \A p \in target'[s] : Settlements(p)' # {}
    BY <1>1 DEF Checkout
  <2>2. \A s \in Requests : pc'[s] = "printed" =>
          \A p \in target'[s] : [order |-> p, request |-> s] \in paper'
    BY <1>1 DEF Checkout
  <2>3. \A x \in paper' : Settlements(x.order)' # {}
    BY <1>1 DEF Checkout
  <2>4. ASSUME NEW a \in audit', a.what = "receipt_printed"
        PROVE  [order |-> a.order, request |-> a.request] \in paper'
    BY <1>1, <2>4 DEF Checkout, Log
  <2> QED
    BY <2>1, <2>2, <2>3, <2>4
<1>2. ASSUME NEW r \in Requests, NEW o \in Orders, PrintLoad(r, o)
      PROVE  Printing'
  BY <1>2, <1>a DEF PrintLoad, db
<1>3. ASSUME NEW r \in Requests, NEW o \in Orders, NEW t \in Tenders, SettleLoad(r, o, t)
      PROVE  Printing'
  BY <1>3 DEF SettleLoad, db
<1>4. ASSUME NEW r \in Requests, NEW o \in Orders, NEW t \in Tenders, SettleRefuse(r, o, t)
      PROVE  Printing'
  BY <1>4 DEF SettleRefuse, db
<1>5. ASSUME NEW r \in Requests, SettleFlush(r)
      PROVE  Printing'
  BY <1>5 DEF SettleFlush, db
<1>6. ASSUME NEW r \in Requests, SettleReject(r)
      PROVE  Printing'
  BY <1>6 DEF SettleReject, db
<1>7. ASSUME NEW r \in Requests, SettleCommit(r)
      PROVE  Printing'
  <2>1. \A s \in Requests : pc'[s] \in {"printing", "printed"} =>
          \A p \in target'[s] : Settlements(p)' # {}
    BY <1>7 DEF SettleCommit
  <2>2. \A s \in Requests : pc'[s] = "printed" =>
          \A p \in target'[s] : [order |-> p, request |-> s] \in paper'
    BY <1>7 DEF SettleCommit
  <2>3. \A x \in paper' : Settlements(x.order)' # {}
    BY <1>7 DEF SettleCommit
  <2>4. ASSUME NEW a \in audit', a.what = "receipt_printed"
        PROVE  [order |-> a.order, request |-> a.request] \in paper'
    BY <1>7, <2>4 DEF SettleCommit, Log
  <2> QED
    BY <2>1, <2>2, <2>3, <2>4
<1>8. ASSUME NEW r \in Requests, PrintEmit(r)
      PROVE  Printing'
  <2>0. /\ paper' = paper \cup {[order |-> p, request |-> r] : p \in target[r]}
        /\ pc[r] = "printing" /\ target' = target /\ audit' = audit
        /\ \A s \in Requests \ {r} : pc'[s] = pc[s]
    BY <1>8 DEF PrintEmit, db
  <2>1. \A s \in Requests : pc'[s] \in {"printing", "printed"} =>
          \A p \in target'[s] : Settlements(p)' # {}
    BY <1>8, <2>0 DEF PrintEmit
  <2>2. ASSUME NEW s \in Requests, pc'[s] = "printed", NEW p \in target'[s]
        PROVE  [order |-> p, request |-> s] \in paper'
    <3>1. CASE s = r
      BY <2>0, <2>2, <3>1
    <3>2. CASE s # r
      BY <2>0, <2>2, <3>2
    <3> QED
      BY <3>1, <3>2
  <2>3. ASSUME NEW x \in paper'
        PROVE  Settlements(x.order)' # {}
    <3>1. CASE x \in paper
      BY <3>1
    <3>2. CASE x \in {[order |-> p, request |-> r] : p \in target[r]}
      <4>1. PICK p \in target[r] : x = [order |-> p, request |-> r]
        BY <3>2
      <4>2. p \in Orders /\ Settlements(p)' # {}
        BY <2>0, <4>1, <1>8
      <4> QED
        BY <4>1, <4>2
    <3> QED
      BY <2>0, <3>1, <3>2
  <2>4. \A a \in audit' : a.what = "receipt_printed" =>
          [order |-> a.order, request |-> a.request] \in paper'
    BY <2>0
  <2> QED
    BY <2>1, <2>2, <2>3, <2>4
<1>9. ASSUME NEW r \in Requests, PrintCommit(r)
      PROVE  Printing'
  <2>1. \A s \in Requests : pc'[s] \in {"printing", "printed"} =>
          \A p \in target'[s] : Settlements(p)' # {}
    BY <1>9 DEF PrintCommit
  <2>2. \A s \in Requests : pc'[s] = "printed" =>
          \A p \in target'[s] : [order |-> p, request |-> s] \in paper'
    BY <1>9 DEF PrintCommit
  <2>3. \A x \in paper' : Settlements(x.order)' # {}
    BY <1>9 DEF PrintCommit
  <2>4. ASSUME NEW a \in audit', a.what = "receipt_printed"
        PROVE  [order |-> a.order, request |-> a.request] \in paper'
    BY <1>9, <2>4 DEF PrintCommit, Log
  <2> QED
    BY <2>1, <2>2, <2>3, <2>4
<1>10. ASSUME NEW j \in Jobs, VoidScan(j)
      PROVE  Printing'
  BY <1>10 DEF VoidScan, db
<1>11. ASSUME NEW j \in Jobs, VoidCommit(j)
      PROVE  Printing'
  BY <1>11 DEF VoidCommit, db
<1>12. ASSUME NEW j \in Jobs, Fail(j)
      PROVE  Printing'
  BY <1>12 DEF Fail, db
<1>13. ASSUME NEW j \in Jobs, NEW o \in Orders, VoidUpdate(j, o)
      PROVE  Printing'
  BY <1>13 DEF VoidUpdate, db
<1>14. CASE LoopSleeps
  BY <1>14, <1>c DEF LoopSleeps, db
<1>15. CASE Restart
  BY <1>15 DEF Restart, db
<1>16. CASE Tick
  BY <1>16 DEF Tick, db
<1>17. CASE UNCHANGED vars
  BY <1>17 DEF vars, db
<1> QED
  BY <1>1, <1>2, <1>3, <1>4, <1>5, <1>6, <1>7, <1>8, <1>9, <1>10, <1>11, <1>12, <1>13, <1>14, <1>15, <1>16, <1>17 DEF Next

(* A receipt in a customer's hand is of an order that was settled, and     *)
(* that still is unless it was raced; the log claims no other receipt.     *)
THEOREM Receipts == Spec => []ReceiptsAreOfSales
<1>1. Init => Inv /\ Printing
  BY InitType, InitSessions, InitInTime, InitBooked, InitOneAtATime, InitSettledOnce,
     InitPrinting DEF Inv
<1>2. Inv /\ [Next]_vars => Inv'
  BY StepType, StepSessions, StepInTime, StepBooked, StepOneAtATime, StepSettledOnce DEF Inv
<1>3. Inv /\ Printing /\ [Next]_vars => Printing'
  BY StepPrinting
<1>4. Inv /\ Printing => ReceiptsAreOfSales
  BY DEF Inv, TypeOK, Printing, ReceiptsAreOfSales, SettledOnceUnlessRaced
<1> QED
  BY <1>1, <1>2, <1>3, <1>4, PTL DEF Spec

===============================================================================
