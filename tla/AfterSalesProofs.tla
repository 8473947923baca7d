--------------------------- MODULE AfterSalesProofs ---------------------------
(* Theorems about AfterSales, for any calls, payloads and faults.          *)
EXTENDS AfterSales, Sums, TLAPS

(* The calls' side of TypeOK, which is all the ledger depends on.          *)
CallType ==
  /\ pc \in [Calls -> {"idle", "loaded", "checking", "totalling", "inserting", "inserted",
                       "reversing", "done", "refused", "failed"}]
  /\ body \in [Calls -> Bodies]
  /\ reply \in [Calls -> Calls \cup {None}]
  /\ \A r \in rows : r.id \in Calls /\ r.body \in Bodies

(* A committed row is the row of a done call; scopes are unique among the  *)
(* rows, and no call holds a scope that is committed or held by another;   *)
(* an answer is the row of the call's own scope and payload.               *)
RowsAreOfCalls ==
  \A r \in rows : /\ pc[r.id] = "done" /\ reply[r.id] = r.id /\ r.body = body[r.id]
                  /\ \A q \in rows : q.id = r.id => q = r

ScopesHeldOnce ==
  /\ \A r, q \in rows : Scope(r.body) = Scope(q.body) => r = q
  /\ \A c \in Calls : HoldsScope(c) => \A r \in rows : Scope(r.body) # Scope(body[c])
  /\ \A c, d \in Calls :
       HoldsScope(c) /\ HoldsScope(d) /\ Scope(body[c]) = Scope(body[d]) => c = d

AnswersAreRows ==
  \A c \in Calls :
    IF pc[c] = "done"
    THEN \E r \in rows : /\ r.id = reply[c] /\ Scope(r.body) = Scope(body[c])
                         /\ Fingerprint(r.body) = Fingerprint(body[c])
    ELSE reply[c] = None

Inv == CallType /\ RowsAreOfCalls /\ ScopesHeldOnce /\ AnswersAreRows

LEMMA InitInv == Init => Inv
BY BodyAssumption DEF Init, Inv, CallType, RowsAreOfCalls, ScopesHeldOnce, AnswersAreRows, HoldsScope

(* Commit writes one row, of its own call and of a scope it alone holds.   *)
LEMMA CommitWrites ==
  ASSUME Inv, NEW c \in Calls, Commit(c)
  PROVE  \E n : /\ rows' = rows \cup {n} /\ n.id = c /\ n.body = body[c]
                /\ reply' = [reply EXCEPT ![c] = c] /\ pc' = [pc EXCEPT ![c] = "done"]
                /\ body' = body /\ HoldsScope(c)
                /\ \A r \in rows : r.id # c /\ Scope(r.body) # Scope(n.body)
<1>1. HoldsScope(c) /\ pc[c] # "done"
  BY DEF Commit, HoldsScope
<1>2. \A r \in rows : r.id # c /\ Scope(r.body) # Scope(body[c])
  BY <1>1 DEF Inv, RowsAreOfCalls, ScopesHeldOnce
<1> DEFINE n == [id |-> c, body |-> body[c], amount |-> Amount(body[c])]
<1>3. /\ rows' = rows \cup {n}
      /\ reply' = [reply EXCEPT ![c] = c] /\ pc' = [pc EXCEPT ![c] = "done"] /\ body' = body
  BY DEF Commit, Goto
<1>4. n.id = c /\ n.body = body[c]
  OBVIOUS
<1> HIDE DEF n
<1> QED
  BY <1>1, <1>2, <1>3, <1>4

(* What a step of a call does besides: it moves pc[c] to no state that     *)
(* holds a scope or is done.                                               *)
Moves(c) ==
  /\ rows' = rows /\ reply' = reply /\ pc[c] # "done"
  /\ \A d \in Calls \ {c} : pc'[d] = pc[d] /\ body'[d] = body[d]
  /\ pc'[c] # "done" /\ (body'[c] # body[c] => pc'[c] \in {"loaded", "refused"})
  /\ pc'[c] \in {"inserted", "reversing"} =>
       \/ pc[c] = "inserted"
       \/ /\ InLedger(body[c]) = {}
          /\ \A d \in Calls \ {c} : ~(HoldsScope(d) /\ Scope(body[d]) = Scope(body[c]))

LEMMA MovesKeep == ASSUME Inv, CallType', NEW c \in Calls, Moves(c) PROVE Inv'
<1>1. RowsAreOfCalls'
  BY DEF Inv, CallType, RowsAreOfCalls, Moves
<1>2. AnswersAreRows'
  <2> SUFFICES ASSUME NEW d \in Calls
               PROVE  (IF pc[d] = "done"
                       THEN \E r \in rows : /\ r.id = reply[d] /\ Scope(r.body) = Scope(body[d])
                                            /\ Fingerprint(r.body) = Fingerprint(body[d])
                       ELSE reply[d] = None)'
    BY DEF AnswersAreRows
  <2>1. CASE d = c
    BY <2>1 DEF Moves, Inv, AnswersAreRows
  <2>2. CASE d # c
    <3>1. pc'[d] = pc[d] /\ body'[d] = body[d] /\ rows' = rows /\ reply' = reply
      BY <2>2 DEF Moves
    <3>2. CASE pc[d] = "done"
      <4>1. PICK r \in rows : /\ r.id = reply[d] /\ Scope(r.body) = Scope(body[d])
                              /\ Fingerprint(r.body) = Fingerprint(body[d])
        BY <3>2 DEF Inv, AnswersAreRows
      <4> QED
        BY <3>1, <3>2, <4>1
    <3>3. CASE pc[d] # "done"
      BY <3>1, <3>3 DEF Inv, AnswersAreRows
    <3> QED
      BY <3>2, <3>3
  <2> QED
    BY <2>1, <2>2
<1>3. ScopesHeldOnce'
  <2>1. \A d \in Calls \ {c} : (HoldsScope(d))' = HoldsScope(d)
    BY DEF Moves, HoldsScope
  <2>2. (HoldsScope(c))' => /\ body'[c] = body[c]
                            /\ \A r \in rows : Scope(r.body) # Scope(body[c])
                            /\ \A d \in Calls \ {c} : HoldsScope(d) => Scope(body[d]) # Scope(body[c])
    BY DEF Moves, HoldsScope, InLedger, Inv, ScopesHeldOnce
  <2>3. rows' = rows /\ \A d \in Calls \ {c} : body'[d] = body[d]
    BY DEF Moves
  <2>4. \A d \in Calls : (HoldsScope(d))' => \A r \in rows : Scope(r.body) # Scope(body'[d])
    BY <2>1, <2>2, <2>3 DEF Inv, ScopesHeldOnce
  <2>5. \A d, e \in Calls :
          (HoldsScope(d))' /\ (HoldsScope(e))' /\ Scope(body'[d]) = Scope(body'[e]) => d = e
    BY <2>1, <2>2, <2>3 DEF Inv, ScopesHeldOnce
  <2> QED
    BY <2>3, <2>4, <2>5 DEF Inv, ScopesHeldOnce
<1> QED
  BY <1>1, <1>2, <1>3 DEF Inv

LEMMA StepCallType == CallType /\ [Next]_vars => CallType'
<1> SUFFICES ASSUME CallType, [Next]_vars PROVE CallType'
  OBVIOUS
<1> USE DEF CallType
<1>1. ASSUME NEW c \in Calls, NEW b \in Bodies, Load(c, b)
      PROVE  CallType'
  BY <1>1 DEF Load, desk, booked, Goto
<1>2. ASSUME NEW c \in Calls, Replay(c)
      PROVE  CallType'
  BY <1>2 DEF Replay, desk, booked, Goto, InLedger
<1>3. ASSUME NEW c \in Calls, Refuse(c)
      PROVE  CallType'
  BY <1>3 DEF Refuse, desk, booked, Goto
<1>4. ASSUME NEW c \in Calls, Pass(c)
      PROVE  CallType'
  BY <1>4 DEF Pass, desk, booked, Goto
<1>5. ASSUME NEW c \in Calls, CheckLines(c)
      PROVE  CallType'
  BY <1>5 DEF CheckLines, desk, booked, Goto
<1>6. ASSUME NEW c \in Calls, CheckTotal(c)
      PROVE  CallType'
  BY <1>6 DEF CheckTotal, desk, booked, Goto
<1>7. ASSUME NEW c \in Calls, Insert(c)
      PROVE  CallType'
  BY <1>7 DEF Insert, desk, booked, Goto
<1>8. ASSUME NEW c \in Calls, ReadPayments(c)
      PROVE  CallType'
  BY <1>8 DEF ReadPayments, desk, booked, Goto
<1>9. ASSUME NEW c \in Calls, Commit(c)
      PROVE  CallType'
  BY <1>9 DEF Commit, desk, booked, Goto
<1>10. ASSUME NEW c \in Calls, Fail(c)
      PROVE  CallType'
  BY <1>10 DEF Fail, desk, booked, Goto
<1>11. ASSUME NEW s \in Settlements, Settle(s)
      PROVE  CallType'
  BY <1>11 DEF Settle, desk, booked, Goto
<1>12. ASSUME NEW o \in Orders, Void(o)
      PROVE  CallType'
  BY <1>12 DEF Void, desk, booked, Goto
<1>13. CASE Tick
  BY <1>13 DEF Tick, desk, booked, Goto
<1>14. CASE UNCHANGED vars
  BY <1>14 DEF vars, desk, booked, Goto
<1> QED
  BY <1>1, <1>2, <1>3, <1>4, <1>5, <1>6, <1>7, <1>8, <1>9, <1>10, <1>11, <1>12, <1>13, <1>14 DEF Next

LEMMA CommitKeeps == ASSUME Inv, CallType', NEW c \in Calls, Commit(c) PROVE Inv'
<1>1. PICK n : /\ rows' = rows \cup {n} /\ n.id = c /\ n.body = body[c]
               /\ reply' = [reply EXCEPT ![c] = c] /\ pc' = [pc EXCEPT ![c] = "done"]
               /\ body' = body /\ HoldsScope(c)
               /\ \A r \in rows : r.id # c /\ Scope(r.body) # Scope(n.body)
  BY CommitWrites
<1> USE DEF Inv, CallType
<1>2. RowsAreOfCalls'
  BY <1>1 DEF RowsAreOfCalls
<1>3. ScopesHeldOnce'
  <2>1. \A r, q \in rows' : Scope(r.body) = Scope(q.body) => r = q
    BY <1>1 DEF ScopesHeldOnce
  <2>2. \A d \in Calls : (HoldsScope(d))' => HoldsScope(d) /\ d # c
    BY <1>1 DEF HoldsScope
  <2>3. \A d \in Calls : (HoldsScope(d))' => \A r \in rows' : Scope(r.body) # Scope(body'[d])
    BY <1>1, <2>2 DEF ScopesHeldOnce
  <2>4. \A d, e \in Calls :
          (HoldsScope(d))' /\ (HoldsScope(e))' /\ Scope(body'[d]) = Scope(body'[e]) => d = e
    BY <1>1, <2>2 DEF ScopesHeldOnce
  <2> QED
    BY <2>1, <2>3, <2>4 DEF ScopesHeldOnce
<1>4. AnswersAreRows'
  <2> SUFFICES ASSUME NEW d \in Calls
               PROVE  (IF pc[d] = "done"
                       THEN \E r \in rows : /\ r.id = reply[d] /\ Scope(r.body) = Scope(body[d])
                                            /\ Fingerprint(r.body) = Fingerprint(body[d])
                       ELSE reply[d] = None)'
    BY DEF AnswersAreRows
  <2>1. CASE d = c
    BY <1>1, <2>1
  <2>2. CASE d # c
    <3>1. pc'[d] = pc[d] /\ body'[d] = body[d] /\ reply'[d] = reply[d] /\ rows \subseteq rows'
      BY <1>1, <2>2
    <3>2. CASE pc[d] = "done"
      <4>1. PICK r \in rows : /\ r.id = reply[d] /\ Scope(r.body) = Scope(body[d])
                              /\ Fingerprint(r.body) = Fingerprint(body[d])
        BY <3>2 DEF AnswersAreRows
      <4> QED
        BY <3>1, <3>2, <4>1
    <3>3. CASE pc[d] # "done"
      BY <3>1, <3>3 DEF AnswersAreRows
    <3> QED
      BY <3>2, <3>3
  <2> QED
    BY <2>1, <2>2
<1> QED
  BY <1>2, <1>3, <1>4

LEMMA ReplayKeeps == ASSUME Inv, CallType', NEW c \in Calls, Replay(c) PROVE Inv'
<1>1. PICK q \in rows : /\ Scope(q.body) = Scope(body[c])
                        /\ Fingerprint(q.body) = Fingerprint(body[c])
                        /\ reply' = [reply EXCEPT ![c] = q.id]
  BY DEF Replay, InLedger
<1>2. rows' = rows /\ body' = body /\ pc[c] = "loaded" /\ pc' = [pc EXCEPT ![c] = "done"]
  BY DEF Replay, Goto, booked
<1> USE DEF Inv, CallType
<1>3. RowsAreOfCalls'
  BY <1>1, <1>2 DEF RowsAreOfCalls
<1>4. ScopesHeldOnce'
  <2>1. \A d \in Calls : (HoldsScope(d))' => HoldsScope(d)
    BY <1>2 DEF HoldsScope
  <2> QED
    BY <1>2, <2>1 DEF ScopesHeldOnce
<1>5. AnswersAreRows'
  <2> SUFFICES ASSUME NEW d \in Calls
               PROVE  (IF pc[d] = "done"
                       THEN \E r \in rows : /\ r.id = reply[d] /\ Scope(r.body) = Scope(body[d])
                                            /\ Fingerprint(r.body) = Fingerprint(body[d])
                       ELSE reply[d] = None)'
    BY DEF AnswersAreRows
  <2>1. CASE d = c
    BY <1>1, <1>2, <2>1
  <2>2. CASE d # c
    BY <1>1, <1>2, <2>2 DEF AnswersAreRows
  <2> QED
    BY <2>1, <2>2
<1> QED
  BY <1>3, <1>4, <1>5

LEMMA SameKeeps ==
  ASSUME Inv, rows' = rows, reply' = reply, pc' = pc, body' = body PROVE Inv'
<1>1. \A c \in Calls : (HoldsScope(c))' = HoldsScope(c)
  BY DEF HoldsScope
<1> QED
  BY <1>1 DEF Inv, CallType, RowsAreOfCalls, ScopesHeldOnce, AnswersAreRows

LEMMA StepInv == Inv /\ [Next]_vars => Inv'
<1> SUFFICES ASSUME Inv, [Next]_vars PROVE Inv'
  OBVIOUS
<1>0. CallType'
  BY StepCallType DEF Inv
<1>a. CallType /\ AnswersAreRows
  BY DEF Inv
<1>1. ASSUME NEW c \in Calls, NEW b \in Bodies, Load(c, b)
      PROVE  Inv'
  <2>1. Moves(c)
    BY <1>1, <1>a DEF Load, Moves, desk, booked, Goto, CallType
  <2> QED
    BY <1>0, <2>1, MovesKeep
<1>2. ASSUME NEW c \in Calls, Replay(c)
      PROVE  Inv'
  BY <1>2, <1>0, ReplayKeeps
<1>3. ASSUME NEW c \in Calls, Refuse(c)
      PROVE  Inv'
  <2>1. Moves(c)
    BY <1>3, <1>a DEF Refuse, Moves, desk, booked, Goto, CallType
  <2> QED
    BY <1>0, <2>1, MovesKeep
<1>4. ASSUME NEW c \in Calls, Pass(c)
      PROVE  Inv'
  <2>1. Moves(c)
    BY <1>4, <1>a DEF Pass, Moves, desk, booked, Goto, CallType
  <2> QED
    BY <1>0, <2>1, MovesKeep
<1>5. ASSUME NEW c \in Calls, CheckLines(c)
      PROVE  Inv'
  <2>1. Moves(c)
    BY <1>5, <1>a DEF CheckLines, Moves, desk, booked, Goto, CallType
  <2> QED
    BY <1>0, <2>1, MovesKeep
<1>6. ASSUME NEW c \in Calls, CheckTotal(c)
      PROVE  Inv'
  <2>1. Moves(c)
    BY <1>6, <1>a DEF CheckTotal, Moves, desk, booked, Goto, CallType
  <2> QED
    BY <1>0, <2>1, MovesKeep
<1>7. ASSUME NEW c \in Calls, Insert(c)
      PROVE  Inv'
  <2>1. Moves(c)
    BY <1>7, <1>a DEF Insert, Moves, desk, booked, Goto, CallType, HoldsScope
  <2> QED
    BY <1>0, <2>1, MovesKeep
<1>8. ASSUME NEW c \in Calls, ReadPayments(c)
      PROVE  Inv'
  <2>1. Moves(c)
    BY <1>8, <1>a DEF ReadPayments, Moves, desk, booked, Goto, CallType
  <2> QED
    BY <1>0, <2>1, MovesKeep
<1>9. ASSUME NEW c \in Calls, Commit(c)
      PROVE  Inv'
  BY <1>9, <1>0, CommitKeeps
<1>10. ASSUME NEW c \in Calls, Fail(c)
      PROVE  Inv'
  <2>1. Moves(c)
    BY <1>10, <1>a DEF Fail, Moves, desk, booked, Goto, CallType
  <2> QED
    BY <1>0, <2>1, MovesKeep
<1>11. ASSUME NEW s \in Settlements, Settle(s)
      PROVE  Inv'
  BY <1>11, <1>0, <1>a, SameKeeps DEF Settle, desk, booked
<1>12. ASSUME NEW o \in Orders, Void(o)
      PROVE  Inv'
  BY <1>12, <1>0, <1>a, SameKeeps DEF Void, desk, booked
<1>13. CASE Tick
  BY <1>13, <1>0, <1>a, SameKeeps DEF Tick, desk, booked
<1>14. CASE UNCHANGED vars
  BY <1>14, <1>0, <1>a, SameKeeps DEF vars, desk, booked
<1> QED
  BY <1>1, <1>2, <1>3, <1>4, <1>5, <1>6, <1>7, <1>8, <1>9, <1>10, <1>11, <1>12, <1>13, <1>14 DEF Next

LEMMA InvCorrect == Spec => []Inv
BY InitInv, StepInv, PTL DEF Spec

(* Calls in one scope get one row as their answer, for one payload,        *)
(* whatever overlaps, fails or is sent again.                              *)
THEOREM Idempotent == Spec => []AnswersAgree
<1>1. Inv => AnswersAgree
  BY DEF Inv, AnswersAgree, ScopesHeldOnce, AnswersAreRows
<1> QED
  BY <1>1, InvCorrect, PTL

-------------------------------------------------------------------------------
(* The refinement: rows and replies are the ledger and its answers.        *)
LEMMA CommitBooks ==
  ASSUME Inv, NEW c \in Calls, Commit(c) PROVE Ledger!Next
<1>1. PICK n : /\ rows' = rows \cup {n} /\ n.id = c /\ n.body = body[c]
               /\ reply' = [reply EXCEPT ![c] = c] /\ pc' = [pc EXCEPT ![c] = "done"]
               /\ body' = body /\ HoldsScope(c)
               /\ \A r \in rows : r.id # c /\ Scope(r.body) # Scope(n.body)
  BY CommitWrites
<1>2. body[c] \in Bodies /\ reply[c] = None
  BY <1>1 DEF Inv, CallType, AnswersAreRows, HoldsScope
<1>q. /\ Asked(c) = [scope |-> Scope(body[c]), fingerprint |-> Fingerprint(body[c])]
      /\ Asked(c) # None
  BY <1>1, <1>2, NoneAssumption DEF Asked, Question, Questions, HoldsScope
<1>3. Ledger!Book(c)
  <2>1. {Entry(r) : r \in rows'} = {Entry(r) : r \in rows} \cup {Entry(n)}
    BY <1>1
  <2>2. Entry(n) = [scope |-> Scope(body[c]), fingerprint |-> Fingerprint(body[c]), id |-> c]
    BY <1>1 DEF Entry
  <2>3. \A e \in {Entry(r) : r \in rows} : e.scope # Scope(body[c])
    BY <1>1 DEF Entry
  <2>4. [d \in Calls |-> Asked(d)]' = [d \in Calls |-> Asked(d)]
    BY <1>1 DEF Asked, HoldsScope, Inv, CallType
  <2> QED
    BY <1>1, <1>2, <1>q, <2>1, <2>2, <2>3, <2>4 DEF Ledger!Book
<1> QED
  BY <1>3 DEF Ledger!Next

LEMMA ReplayReplays ==
  ASSUME Inv, NEW c \in Calls, Replay(c) PROVE Ledger!Next
<1>1. PICK q \in rows : /\ Scope(q.body) = Scope(body[c])
                        /\ Fingerprint(q.body) = Fingerprint(body[c])
                        /\ reply' = [reply EXCEPT ![c] = q.id]
  BY DEF Replay, InLedger
<1>2. rows' = rows /\ reply[c] = None /\ body[c] \in Bodies
  BY DEF Replay, booked, Inv, AnswersAreRows, CallType
<1>3. /\ Asked(c) = [scope |-> Scope(body[c]), fingerprint |-> Fingerprint(body[c])]
      /\ Asked(c) # None
  BY <1>2, NoneAssumption DEF Asked, Question, Questions, Replay
<1>4. [d \in Calls |-> Asked(d)]' = [d \in Calls |-> Asked(d)]
  BY DEF Asked, Replay, Goto, Inv, CallType
<1>5. Entry(q) \in {Entry(r) : r \in rows} /\ {Entry(r) : r \in rows'} = {Entry(r) : r \in rows}
  BY <1>1, <1>2
<1>6. Ledger!Replay(c, Entry(q))
  BY <1>1, <1>2, <1>3, <1>4, <1>5 DEF Ledger!Replay, Entry
<1> QED
  BY <1>5, <1>6 DEF Ledger!Next

LEMMA LoadAsks ==
  ASSUME Inv, NEW c \in Calls, NEW b \in Bodies, Load(c, b) PROVE Ledger!Next
<1>1. /\ pc[c] = "idle" /\ pc'[c] # "idle" /\ body'[c] = b
      /\ \A d \in Calls \ {c} : pc'[d] = pc[d] /\ body'[d] = body[d]
      /\ rows' = rows /\ reply' = reply
  BY DEF Load, Goto, booked, Inv, CallType
<1>2. Asked(c) = None /\ Question(b) \in Questions
  BY <1>1 DEF Asked, Questions
<1>3. [d \in Calls |-> Asked(d)]' = [[d \in Calls |-> Asked(d)] EXCEPT ![c] = Question(b)]
  BY <1>1 DEF Asked
<1>4. {Entry(r) : r \in rows}' = {Entry(r) : r \in rows}
  BY <1>1
<1>5. Ledger!Ask(c, Question(b))
  BY <1>1, <1>2, <1>3, <1>4 DEF Ledger!Ask
<1> QED
  BY <1>2, <1>5 DEF Ledger!Next

(* Every other step leaves the ledger alone.                               *)
LEMMA OthersStutter ==
  ASSUME Inv, rows' = rows, reply' = reply,
         \A c \in Calls : \/ pc'[c] = "idle" /\ pc[c] = "idle"
                          \/ pc'[c] # "idle" /\ pc[c] # "idle" /\ body'[c] = body[c]
  PROVE  UNCHANGED Ledger!vars
<1>1. [d \in Calls |-> Asked(d)]' = [d \in Calls |-> Asked(d)]
  BY DEF Asked
<1>2. {Entry(r) : r \in rows}' = {Entry(r) : r \in rows}
  OBVIOUS
<1> QED
  BY <1>1, <1>2 DEF Ledger!vars

LEMMA StepLedger == Inv /\ [Next]_vars => [Ledger!Next]_(Ledger!vars)
<1> SUFFICES ASSUME Inv, [Next]_vars PROVE [Ledger!Next]_(Ledger!vars)
  OBVIOUS
<1>0. CallType
  BY DEF Inv
<1>1. ASSUME NEW c \in Calls, NEW b \in Bodies, Load(c, b)
      PROVE  [Ledger!Next]_(Ledger!vars)
  BY <1>1, LoadAsks
<1>2. ASSUME NEW c \in Calls, Replay(c)
      PROVE  [Ledger!Next]_(Ledger!vars)
  BY <1>2, ReplayReplays
<1>3. ASSUME NEW c \in Calls, Refuse(c)
      PROVE  [Ledger!Next]_(Ledger!vars)
  BY <1>3, <1>0, OthersStutter DEF Refuse, desk, booked, Goto, CallType
<1>4. ASSUME NEW c \in Calls, Pass(c)
      PROVE  [Ledger!Next]_(Ledger!vars)
  BY <1>4, <1>0, OthersStutter DEF Pass, desk, booked, Goto, CallType
<1>5. ASSUME NEW c \in Calls, CheckLines(c)
      PROVE  [Ledger!Next]_(Ledger!vars)
  BY <1>5, <1>0, OthersStutter DEF CheckLines, desk, booked, Goto, CallType
<1>6. ASSUME NEW c \in Calls, CheckTotal(c)
      PROVE  [Ledger!Next]_(Ledger!vars)
  BY <1>6, <1>0, OthersStutter DEF CheckTotal, desk, booked, Goto, CallType
<1>7. ASSUME NEW c \in Calls, Insert(c)
      PROVE  [Ledger!Next]_(Ledger!vars)
  BY <1>7, <1>0, OthersStutter DEF Insert, desk, booked, Goto, CallType
<1>8. ASSUME NEW c \in Calls, ReadPayments(c)
      PROVE  [Ledger!Next]_(Ledger!vars)
  BY <1>8, <1>0, OthersStutter DEF ReadPayments, desk, booked, Goto, CallType
<1>9. ASSUME NEW c \in Calls, Commit(c)
      PROVE  [Ledger!Next]_(Ledger!vars)
  BY <1>9, CommitBooks
<1>10. ASSUME NEW c \in Calls, Fail(c)
      PROVE  [Ledger!Next]_(Ledger!vars)
  BY <1>10, <1>0, OthersStutter DEF Fail, desk, booked, Goto, CallType
<1>11. ASSUME NEW s \in Settlements, Settle(s)
      PROVE  [Ledger!Next]_(Ledger!vars)
  BY <1>11, <1>0, OthersStutter DEF Settle, desk, booked, Goto, CallType
<1>12. ASSUME NEW o \in Orders, Void(o)
      PROVE  [Ledger!Next]_(Ledger!vars)
  BY <1>12, <1>0, OthersStutter DEF Void, desk, booked, Goto, CallType
<1>13. CASE Tick
  BY <1>13, <1>0, OthersStutter DEF Tick, desk, booked, Goto, CallType
<1>14. CASE UNCHANGED vars
  BY <1>14, <1>0, OthersStutter DEF vars, desk, booked, Goto, CallType
<1> QED
  BY <1>1, <1>2, <1>3, <1>4, <1>5, <1>6, <1>7, <1>8, <1>9, <1>10, <1>11, <1>12, <1>13, <1>14 DEF Next

(* The after-sales tables implement the write-once ledger.                 *)
THEOREM ImplementsLedger == Spec => LedgerSpec
<1>1. Init => Ledger!Init
  BY DEF Init, Ledger!Init, Asked
<1>2. Inv /\ [Next]_vars => [Ledger!Next]_(Ledger!vars)
  BY StepLedger
<1> QED
  BY <1>1, <1>2, InvCorrect, PTL DEF Spec, LedgerSpec, Ledger!Spec

-------------------------------------------------------------------------------
(* The books.  Vetted is what a body has passed before its row is written. *)
Vetted(b) ==
  b.op # "reverse_settlement" =>
    \A i \in DOMAIN b.basket :
      /\ BelongsToOrder(b, b.basket[i]) /\ b.basket[i].quantity >= 1
      /\ b.op = "refund" => b.basket[i].amount > 0

LEMMA Basket ==
  ASSUME NEW b \in Bodies
  PROVE  /\ b.op \in Ops /\ b.order \in Orders
         /\ DOMAIN b.basket = 1 .. Len(b.basket) /\ Len(b.basket) \in Nat
         /\ IsFiniteSet(DOMAIN b.basket) /\ Cardinality(DOMAIN b.basket) = Len(b.basket)
         /\ \A i \in DOMAIN b.basket :
              b.basket[i].line \in Int /\ b.basket[i].quantity \in Int /\ b.basket[i].amount \in Int
<1>1. b.op \in Ops /\ b.order \in Orders /\ b.basket \in Seq(Items)
  BY BodyAssumption
<1>2. DOMAIN b.basket = 1 .. Len(b.basket) /\ Len(b.basket) \in Nat
  BY <1>1
<1>3. IsFiniteSet(1 .. Len(b.basket)) /\ Cardinality(1 .. Len(b.basket)) = Len(b.basket)
  BY <1>2, FS_Interval
<1>4. \A i \in DOMAIN b.basket : b.basket[i] \in Items
  BY <1>1
<1> QED
  BY <1>1, <1>2, <1>3, <1>4 DEF Items

(* What a vetted body adds to the books: a refund is never negative, and   *)
(* nothing is if no line of the order has a negative price.                *)
LEMMA AmountOfVetted ==
  ASSUME NEW b \in Bodies, Vetted(b)
  PROVE  /\ Amount(b) \in Int
         /\ b.op = "refund" \/ Priced(b.order) => Amount(b) \in Nat
<1> DEFINE D == DOMAIN b.basket
           amount == [i \in D |-> b.basket[i].amount]
           share == [i \in D |-> LineOf[b.basket[i].line].price * b.basket[i].quantity]
<1>1. IsFiniteSet(D) /\ b.op \in Ops /\ b.order \in Orders
  BY Basket
<1>2. CASE b.op = "refund"
  <2>1. amount \in [D -> Nat]
    BY <1>2, Basket DEF Vetted
  <2>2. SumFunction(amount) \in Nat
    <3> HIDE DEF D, amount
    <3> QED
      BY <1>1, <2>1, SumPart
  <2> QED
    BY <1>2, <2>2 DEF Amount
<1>3. CASE b.op = "exchange"
  <2>1. \A i \in D : /\ b.basket[i].line \in DOMAIN LineOf
                     /\ LineOf[b.basket[i].line].order = b.order
                     /\ b.basket[i].quantity \in Nat
                     /\ LineOf[b.basket[i].line].price \in Int
    BY <1>3, Basket, LineAssumption DEF Vetted, BelongsToOrder
  <2>2. share \in [D -> Int]
    BY <2>1
  <2>3. SumFunction(share) \in Int
    <3> HIDE DEF D, share
    <3> QED
      BY <1>1, <2>2, SumInt
  <2>4. ASSUME Priced(b.order)
        PROVE  SumFunction(share) \in Nat
    <3>1. \A i \in D : LineOf[b.basket[i].line].price * b.basket[i].quantity \in Nat
      BY <2>1, <2>4 DEF Priced
    <3>2. share \in [D -> Nat]
      BY <3>1
    <3> HIDE DEF D, share
    <3> QED
      BY <1>1, <3>2, SumPart
  <2>5. Amount(b) = SumFunction(share)
    BY <1>3 DEF Amount
  <2> QED
    BY <1>3, <2>3, <2>4, <2>5
<1>4. CASE b.op = "reverse_settlement"
  BY <1>1, <1>4, AmountsAreCents DEF Amount
<1> QED
  BY <1>1, <1>2, <1>3, <1>4 DEF Ops

(* The rest of the types; the amounts follow from the books.               *)
DeskType ==
  /\ status \in [Orders -> {"draft", "settled", "void"}]
  /\ settledAt \in [Orders -> Nat] /\ now \in Nat
  /\ seen \in [Calls -> [status : {"draft", "settled", "void"}, settledAt : Nat]]
  /\ raced \in [Orders -> BOOLEAN]
  /\ DOMAIN found = Calls

(* What a reverse settlement finds: one or more whole settlements.         *)
IsWhole(ps, order) ==
  \E whole \in SUBSET SettlementsOf(order) :
    whole # {} /\ ps = UNION {s.payments : s \in whole}

(* What a session has passed on its way.  An order it saw settled has a    *)
(* settlement, and keeps it.                                               *)
Session(c) ==
  /\ pc[c] \in {"checking", "totalling"} => body[c].op = "refund"
  /\ pc[c] \in {"totalling", "inserting", "inserted", "reversing"} => Vetted(body[c])
  /\ pc[c] \in {"checking", "totalling", "inserting", "inserted", "reversing"}
       => seen[c].status = "settled"
  /\ pc[c] # "idle" /\ seen[c].status = "settled" => SettlementsOf(body[c].order) # {}
  /\ pc[c] \notin {"reversing", "done", "failed"} => found[c] = {}
  /\ pc[c] = "reversing" =>
       body[c].op = "reverse_settlement" /\ IsWhole(found[c], body[c].order)

Sessions == \A c \in Calls : Session(c)

Desk ==
  /\ settlements \subseteq Settlements
  /\ \A o \in Orders : status[o] = "settled" => SettlementsOf(o) # {}

SessionInv == CallType /\ DeskType /\ Sessions /\ Desk

LEMMA InitSession == Init => SessionInv
BY BodyAssumption DEF Init, SessionInv, CallType, DeskType, Sessions, Session, Desk

LEMMA SettlementsGrow ==
  ASSUME settlements \subseteq settlements', NEW o
  PROVE  /\ SettlementsOf(o) \subseteq SettlementsOf(o)'
         /\ \A ps : IsWhole(ps, o) => IsWhole(ps, o)'
<1>1. SettlementsOf(o) \subseteq SettlementsOf(o)'
  BY DEF SettlementsOf
<1>2. SUBSET SettlementsOf(o) \subseteq SUBSET SettlementsOf(o)'
  BY <1>1
<1> QED
  BY <1>1, <1>2 DEF IsWhole

LEMMA OnlySettleSettles == [Next]_vars => settlements \subseteq settlements'
BY DEF Next, vars, desk, Load, Replay, Refuse, Pass, CheckLines, CheckTotal, Insert,
       ReadPayments, Commit, Fail, Settle, Void, Tick

LEMMA BodyFacts ==
  ASSUME NEW b \in Bodies
  PROVE  b.op \in Ops /\ b.order \in Orders
BY BodyAssumption

LEMMA PassedIsVetted ==
  ASSUME NEW b \in Bodies, RefundLinesPass(b) PROVE Vetted(b)
<1> SUFFICES ASSUME NEW i \in DOMAIN b.basket
             PROVE  /\ BelongsToOrder(b, b.basket[i]) /\ b.basket[i].quantity >= 1
                    /\ b.basket[i].amount > 0
  BY DEF Vetted
<1>1. /\ BelongsToOrder(b, b.basket[i]) /\ b.basket[i].quantity > 0
      /\ b.basket[i].amount > 0
  BY DEF RefundLinesPass
<1>2. b.basket[i].quantity \in Int
  BY Basket
<1> QED
  BY <1>1, <1>2

(* A step of one call.                                                     *)
LEMMA CallKeepsSession ==
  ASSUME SessionInv, CallType', DeskType', NEW c \in Calls, desk' = desk, Session(c)',
         \A d \in Calls \ {c} : /\ pc'[d] = pc[d] /\ body'[d] = body[d]
                                /\ seen'[d] = seen[d] /\ found'[d] = found[d]
  PROVE  SessionInv'
<1>1. \A d \in Calls \ {c} : Session(d)'
  BY DEF SessionInv, Sessions, Session, desk, SettlementsOf, IsWhole
<1>2. Desk'
  BY DEF SessionInv, Desk, desk, SettlementsOf
<1> QED
  BY <1>1, <1>2 DEF SessionInv, Sessions

LEMMA StepDeskType == SessionInv /\ [Next]_vars => DeskType'
<1> SUFFICES ASSUME SessionInv, [Next]_vars PROVE DeskType'
  OBVIOUS
<1> USE DEF SessionInv, CallType, DeskType
<1>1. ASSUME NEW c \in Calls, NEW b \in Bodies, Load(c, b)
      PROVE  DeskType'
  <2>1. b.order \in Orders
    BY BodyFacts
  <2> QED
    BY <1>1, <2>1 DEF Load, desk
<1>2. ASSUME NEW c \in Calls, Pass(c)
      PROVE  DeskType'
  <2>1. body[c].order \in Orders
    BY BodyFacts
  <2>2. raced' \in [Orders -> BOOLEAN]
    BY <1>2, <2>1, Zenon DEF Pass
  <2> QED
    BY <1>2, <2>2 DEF Pass, desk
<1>3. ASSUME NEW c \in Calls,
             Replay(c) \/ Refuse(c) \/ CheckLines(c) \/ CheckTotal(c) \/ Insert(c)
               \/ Commit(c) \/ Fail(c)
      PROVE  DeskType'
  BY <1>3 DEF Replay, Refuse, CheckLines, CheckTotal, Insert, Commit, Fail, desk
<1>4. ASSUME NEW c \in Calls, ReadPayments(c)
      PROVE  DeskType'
  BY <1>4 DEF ReadPayments, desk
<1>5. ASSUME NEW s \in Settlements, Settle(s)
      PROVE  DeskType'
  <2>1. s.order \in Orders
    BY SettlementAssumption
  <2> QED
    BY <1>5, <2>1 DEF Settle
<1>6. ASSUME NEW o \in Orders, Void(o)
      PROVE  DeskType'
  BY <1>6 DEF Void
<1>7. CASE Tick
  BY <1>7 DEF Tick, desk
<1>8. CASE UNCHANGED vars
  BY <1>8 DEF vars, desk
<1> QED
  BY <1>1, <1>2, <1>3, <1>4, <1>5, <1>6, <1>7, <1>8 DEF Next

LEMMA StepSession == SessionInv /\ [Next]_vars => SessionInv'
<1> SUFFICES ASSUME SessionInv, [Next]_vars PROVE SessionInv'
  OBVIOUS
<1>0. CallType /\ DeskType /\ CallType' /\ DeskType'
  BY StepCallType, StepDeskType DEF SessionInv
<1>1. ASSUME NEW c \in Calls, NEW b \in Bodies, Load(c, b)
      PROVE  SessionInv'
  <2>1. /\ pc'[c] \in {"loaded", "refused"} /\ body'[c] = b /\ found'[c] = {}
        /\ seen'[c].status = status[b.order] /\ settlements' = settlements
    BY <1>1, <1>0 DEF Load, Goto, CallType, DeskType, SessionInv, Sessions, Session, desk
  <2>2. seen'[c].status = "settled" => SettlementsOf(b.order) # {}
    BY <2>1, BodyFacts DEF SessionInv, Desk
  <2>3. Session(c)'
    BY <2>1, <2>2 DEF Session, SettlementsOf
  <2> QED
    BY <1>1, <1>0, <2>3, CallKeepsSession DEF Load, Goto, CallType, DeskType
<1>2. ASSUME NEW c \in Calls, Replay(c) \/ Refuse(c) \/ Fail(c)
      PROVE  SessionInv'
  <2>1. /\ pc'[c] \in {"done", "refused", "failed"} /\ body'[c] = body[c] /\ desk' = desk
        /\ pc'[c] = "refused" => found[c] = {}
        /\ found' = found /\ seen' = seen /\ pc[c] # "idle"
    BY <1>2, <1>0 DEF Replay, Refuse, Fail, Goto, CallType, SessionInv, Sessions, Session
  <2>2. Session(c)'
    BY <2>1 DEF Session, SessionInv, Sessions, desk, SettlementsOf, IsWhole
  <2> QED
    BY <1>2, <1>0, <2>1, <2>2, CallKeepsSession DEF Replay, Refuse, Fail, Goto, CallType
<1>3. ASSUME NEW c \in Calls, Pass(c)
      PROVE  SessionInv'
  <2>1. /\ pc[c] = "loaded" /\ body' = body /\ desk' = desk /\ found' = found /\ seen' = seen
        /\ seen[c].status = "settled"
        /\ pc'[c] = IF body[c].op = "refund" THEN "checking" ELSE "inserting"
    BY <1>3, <1>0 DEF Pass, Passes, Eligible, Goto, CallType
  <2>2. body[c].op # "refund" => Vetted(body[c])
    <3>1. CASE body[c].op = "exchange"
      <4>1. ExchangeLinesPass(body[c])
        BY <1>3, <3>1 DEF Pass, Passes
      <4> QED
        BY <3>1, <4>1 DEF ExchangeLinesPass, Vetted
    <3>2. CASE body[c].op = "reverse_settlement"
      BY <3>2 DEF Vetted
    <3> QED
      BY <1>0, <3>1, <3>2, BodyFacts DEF Ops, CallType
  <2>3. Session(c)'
    BY <2>1, <2>2 DEF Session, SessionInv, Sessions, desk, SettlementsOf, IsWhole
  <2> QED
    BY <1>3, <1>0, <2>1, <2>3, CallKeepsSession DEF Pass, Goto, CallType
<1>4. ASSUME NEW c \in Calls, CheckLines(c)
      PROVE  SessionInv'
  <2>1. /\ pc[c] = "checking" /\ body' = body /\ desk' = desk /\ found' = found /\ seen' = seen
        /\ pc'[c] = IF RefundLinesPass(body[c]) THEN "totalling" ELSE "refused"
    BY <1>4, <1>0 DEF CheckLines, Goto, CallType
  <2>2. RefundLinesPass(body[c]) => Vetted(body[c])
    BY <1>0, PassedIsVetted DEF CallType
  <2>3. Session(c)'
    BY <2>1, <2>2 DEF Session, SessionInv, Sessions, desk, SettlementsOf, IsWhole
  <2> QED
    BY <1>4, <1>0, <2>1, <2>3, CallKeepsSession DEF CheckLines, Goto, CallType
<1>5. ASSUME NEW c \in Calls, CheckTotal(c) \/ Insert(c)
      PROVE  SessionInv'
  <2>1. /\ \/ pc[c] = "totalling" /\ pc'[c] \in {"inserting", "refused"}
           \/ pc[c] = "inserting" /\ pc'[c] \in {"inserted", "failed"}
        /\ body' = body /\ desk' = desk /\ found' = found /\ seen' = seen
    <3>1. CASE CheckTotal(c)
      BY <3>1, <1>0 DEF CheckTotal, Goto, CallType
    <3>2. CASE Insert(c)
      BY <3>2, <1>0 DEF Insert, Goto, CallType
    <3> QED
      BY <1>5, <3>1, <3>2
  <2>2. Session(c)'
    BY <2>1 DEF Session, SessionInv, Sessions, desk, SettlementsOf, IsWhole
  <2> QED
    BY <1>5, <1>0, <2>1, <2>2, CallKeepsSession DEF CheckTotal, Insert, Goto, CallType
<1>6. ASSUME NEW c \in Calls, ReadPayments(c)
      PROVE  SessionInv'
  <2>1. /\ pc[c] = "inserted" /\ body[c].op = "reverse_settlement" /\ pc'[c] = "reversing"
        /\ body' = body /\ desk' = desk /\ seen' = seen
        /\ found'[c] = PaymentsOf(body[c].order)
    BY <1>6, <1>0 DEF ReadPayments, Goto, CallType, DeskType
  <2>2. body[c].order \in Orders /\ Session(c)
    BY <1>0, BodyFacts DEF CallType, SessionInv, Sessions
  <2>3. SettlementsOf(body[c].order) # {} /\ IsWhole(found'[c], body[c].order)
    BY <2>1, <2>2 DEF Session, PaymentsOf, IsWhole
  <2>4. Session(c)'
    BY <2>1, <2>2, <2>3 DEF Session, desk, SettlementsOf, IsWhole
  <2> QED
    BY <1>6, <1>0, <2>1, <2>4, CallKeepsSession DEF ReadPayments, Goto, CallType, DeskType
<1>7. ASSUME NEW c \in Calls, Commit(c)
      PROVE  SessionInv'
  <2>1. /\ pc[c] # "idle" /\ pc'[c] = "done" /\ body' = body /\ desk' = desk /\ found' = found
        /\ seen' = seen
    BY <1>7, <1>0 DEF Commit, Goto, CallType
  <2>2. Session(c)'
    BY <2>1 DEF Session, SessionInv, Sessions, desk, SettlementsOf, IsWhole
  <2> QED
    BY <1>7, <1>0, <2>1, <2>2, CallKeepsSession DEF Commit, Goto, CallType
<1>8. ASSUME NEW s \in Settlements, Settle(s)
      PROVE  SessionInv'
  <2>1. /\ status' = [status EXCEPT ![s.order] = "settled"]
        /\ settlements' = settlements \cup {s} /\ s.order \in Orders
        /\ UNCHANGED <<pc, body, seen, found>>
    BY <1>8, SettlementAssumption DEF Settle
  <2>2. Sessions'
    <3> SUFFICES ASSUME NEW c \in Calls PROVE Session(c)'
      BY DEF Sessions
    <3>1. Session(c)
      BY DEF SessionInv, Sessions
    <3>2. /\ SettlementsOf(body[c].order) \subseteq SettlementsOf(body[c].order)'
          /\ IsWhole(found[c], body[c].order) => IsWhole(found[c], body[c].order)'
      BY <2>1, SettlementsGrow
    <3> QED
      BY <2>1, <3>1, <3>2 DEF Session, SettlementsOf, IsWhole
  <2>3. Desk'
    <3>1. settlements' \subseteq Settlements
      BY <2>1 DEF SessionInv, Desk
    <3>2. ASSUME NEW u \in Orders, status'[u] = "settled"
          PROVE  SettlementsOf(u)' # {}
      <4>1. CASE u = s.order
        BY <2>1, <4>1 DEF SettlementsOf
      <4>2. CASE u # s.order
        <5>1. SettlementsOf(u) # {}
          BY <2>1, <3>2, <4>2, <1>0 DEF SessionInv, Desk, DeskType
        <5> QED
          BY <2>1, <5>1 DEF SettlementsOf
      <4> QED
        BY <4>1, <4>2
    <3> QED
      BY <3>1, <3>2 DEF Desk
  <2> QED
    BY <1>0, <2>2, <2>3 DEF SessionInv
<1>9. ASSUME NEW o \in Orders, Void(o)
      PROVE  SessionInv'
  <2>1. /\ status' = [status EXCEPT ![o] = "void"] /\ settlements' = settlements
        /\ UNCHANGED <<pc, body, seen, found>>
    BY <1>9 DEF Void
  <2>2. \A u \in Orders : status'[u] = "settled" => status[u] = "settled"
    BY <2>1, <1>0 DEF DeskType
  <2>3. Sessions'
    BY <2>1 DEF SessionInv, Sessions, Session, SettlementsOf, IsWhole
  <2>4. Desk'
    BY <2>1, <2>2 DEF SessionInv, Desk, SettlementsOf
  <2> QED
    BY <1>0, <2>3, <2>4 DEF SessionInv
<1>10. CASE Tick
  BY <1>10, <1>0 DEF Tick, desk, SessionInv, Sessions, Session, Desk, SettlementsOf, IsWhole
<1>11. CASE UNCHANGED vars
  BY <1>11, <1>0 DEF vars, desk, SessionInv, Sessions, Session, Desk, SettlementsOf, IsWhole
<1> QED
  BY <1>1, <1>2, <1>3, <1>4, <1>5, <1>6, <1>7, <1>8, <1>9, <1>10, <1>11 DEF Next

(* The rows of one call are those its payload asks for, and it has them    *)
(* all.                                                                    *)
RowBalances(r) ==
  LET back == r.body.op = "reverse_settlement"
  IN /\ r.amount = Amount(r.body) /\ Vetted(r.body)
     /\ {l \in lineRows : l.id = r.id} = IF back THEN {} ELSE LinesWritten(r.id, r.body)
     /\ IF back
        THEN \E ps : /\ IsWhole(ps, r.body.order)
                     /\ {v \in reversals : v.id = r.id} = ReversalsWritten(r.id, ps)
        ELSE {v \in reversals : v.id = r.id} = {}

Books ==
  /\ IsFiniteSet(rows) /\ IsFiniteSet(lineRows)
  /\ \A r \in rows : RowBalances(r)
  /\ \A l \in lineRows : \E r \in rows : r.id = l.id
  /\ \A v \in reversals : \E r \in rows : r.id = v.id

BooksInv == Inv /\ SessionInv /\ Books

(* Every step but a commit leaves the books alone.                         *)
LEMMA OnlyCommitBooks ==
  [Next]_vars => UNCHANGED booked \/ \E c \in Calls : Commit(c)
BY DEF Next, vars, Load, Replay, Refuse, Pass, CheckLines, CheckTotal, Insert, ReadPayments,
       Fail, Settle, Void, Tick

(* A commit adds one row with its lines or its reversals, under an id no   *)
(* row of the books has.                                                   *)
LEMMA CommitAdds ==
  ASSUME BooksInv, NEW c \in Calls, Commit(c)
  PROVE  \E n :
    /\ rows' = rows \cup {n} /\ n.id = c /\ n.body = body[c] /\ n.amount = Amount(body[c])
    /\ body[c] \in Bodies /\ Vetted(body[c])
    /\ pc[c] = IF body[c].op = "reverse_settlement" THEN "reversing" ELSE "inserted"
    /\ lineRows' = lineRows \cup
         (IF body[c].op = "reverse_settlement" THEN {} ELSE LinesWritten(c, body[c]))
    /\ reversals' = reversals \cup ReversalsWritten(c, found[c])
    /\ IF body[c].op = "reverse_settlement"
       THEN IsWhole(found[c], body[c].order) ELSE found[c] = {}
    /\ \A r \in rows : r.id # c
    /\ \A l \in lineRows : l.id # c
    /\ \A v \in reversals : v.id # c
<1> DEFINE n == [id |-> c, body |-> body[c], amount |-> Amount(body[c])]
<1>1. /\ rows' = rows \cup {n} /\ pc[c] # "done"
      /\ pc[c] = IF body[c].op = "reverse_settlement" THEN "reversing" ELSE "inserted"
      /\ lineRows' = lineRows \cup
           (IF body[c].op = "reverse_settlement" THEN {} ELSE LinesWritten(c, body[c]))
      /\ reversals' = reversals \cup ReversalsWritten(c, found[c])
  BY DEF Commit
<1>2. body[c] \in Bodies /\ Session(c)
  BY DEF BooksInv, SessionInv, CallType, Sessions
<1>3. /\ Vetted(body[c])
      /\ IF body[c].op = "reverse_settlement"
         THEN IsWhole(found[c], body[c].order) ELSE found[c] = {}
  BY <1>1, <1>2 DEF Session
<1>4. \A r \in rows : r.id # c
  BY <1>1 DEF BooksInv, Inv, RowsAreOfCalls
<1>5. (\A l \in lineRows : l.id # c) /\ (\A v \in reversals : v.id # c)
  BY <1>4 DEF BooksInv, Books
<1>6. n.id = c /\ n.body = body[c] /\ n.amount = Amount(body[c])
  OBVIOUS
<1> HIDE DEF n
<1> QED
  BY <1>1, <1>2, <1>3, <1>4, <1>5, <1>6

LEMMA LinesFinite ==
  ASSUME NEW c, NEW b \in Bodies PROVE IsFiniteSet(LinesWritten(c, b))
<1> DEFINE g == [i \in DOMAIN b.basket |->
                   [id |-> c, position |-> i, line |-> b.basket[i].line,
                    quantity |-> b.basket[i].quantity, amount |-> LineAmount(b, i)]]
<1>1. g \in Surjection(DOMAIN b.basket, LinesWritten(c, b))
  BY DEF LinesWritten, Surjection
<1>2. IsFiniteSet(DOMAIN b.basket)
  BY Basket
<1> QED
  BY <1>1, <1>2, FS_Surjection

(* What a row has reversed stays whole, as settlements only grow.          *)
LEMMA RowStaysBalanced ==
  ASSUME settlements \subseteq settlements', NEW r, RowBalances(r),
         {l \in lineRows' : l.id = r.id} = {l \in lineRows : l.id = r.id},
         {v \in reversals' : v.id = r.id} = {v \in reversals : v.id = r.id}
  PROVE  RowBalances(r)'
<1> DEFINE order == r.body.order
<1>1. CASE r.body.op # "reverse_settlement"
  BY <1>1 DEF RowBalances
<1>2. CASE r.body.op = "reverse_settlement"
  <2>1. PICK ps :
          IsWhole(ps, order) /\ {v \in reversals : v.id = r.id} = ReversalsWritten(r.id, ps)
    BY <1>2 DEF RowBalances
  <2>2. IsWhole(ps, order)'
    BY <2>1, SettlementsGrow
  <2>3. {v \in reversals' : v.id = r.id} = ReversalsWritten(r.id, ps)
    BY <2>1
  <2> QED
    BY <1>2, <2>2, <2>3 DEF RowBalances
<1> QED
  BY <1>1, <1>2

LEMMA StepBooks ==
  ASSUME BooksInv, [Next]_vars PROVE Books'
<1>0. settlements \subseteq settlements'
  BY OnlySettleSettles
<1>1. CASE UNCHANGED booked
  <2>1. \A r \in rows : RowBalances(r)'
    BY <1>0, <1>1, RowStaysBalanced DEF BooksInv, Books, booked
  <2> QED
    BY <1>1, <2>1 DEF BooksInv, Books, booked
<1>2. ASSUME NEW c \in Calls, Commit(c)
      PROVE  Books'
  <2>1. PICK n :
    /\ rows' = rows \cup {n} /\ n.id = c /\ n.body = body[c] /\ n.amount = Amount(body[c])
    /\ body[c] \in Bodies /\ Vetted(body[c])
    /\ pc[c] = IF body[c].op = "reverse_settlement" THEN "reversing" ELSE "inserted"
    /\ lineRows' = lineRows \cup
         (IF body[c].op = "reverse_settlement" THEN {} ELSE LinesWritten(c, body[c]))
    /\ reversals' = reversals \cup ReversalsWritten(c, found[c])
    /\ IF body[c].op = "reverse_settlement"
       THEN IsWhole(found[c], body[c].order) ELSE found[c] = {}
    /\ \A r \in rows : r.id # c
    /\ \A l \in lineRows : l.id # c
    /\ \A v \in reversals : v.id # c
    BY <1>2, CommitAdds
  <2>2. \A l \in LinesWritten(c, body[c]) : l.id = c
    BY DEF LinesWritten
  <2>3. /\ \A v \in ReversalsWritten(c, found[c]) : v.id = c
        /\ ReversalsWritten(c, {}) = {}
    BY DEF ReversalsWritten
  <2>4. IsFiniteSet(rows') /\ IsFiniteSet(lineRows')
    <3>1. IsFiniteSet(rows')
      BY <2>1, FS_AddElement DEF BooksInv, Books
    <3>2. IsFiniteSet(IF body[c].op = "reverse_settlement" THEN {} ELSE LinesWritten(c, body[c]))
      BY <2>1, LinesFinite, FS_EmptySet
    <3>3. IsFiniteSet(lineRows')
      BY <2>1, <3>2, FS_Union DEF BooksInv, Books
    <3> QED
      BY <3>1, <3>3
  <2>5. RowBalances(n)'
    <3>1. /\ {l \in lineRows' : l.id = n.id} =
               IF body[c].op = "reverse_settlement" THEN {} ELSE LinesWritten(c, body[c])
          /\ {v \in reversals' : v.id = n.id} = ReversalsWritten(c, found[c])
      BY <2>1, <2>2, <2>3
    <3>2. n.amount = Amount(n.body) /\ Vetted(n.body)
      BY <2>1
    <3>3. CASE body[c].op = "reverse_settlement"
      <4>1. IsWhole(found[c], n.body.order)
        BY <2>1, <3>3
      <4>2. \A ps : IsWhole(ps, n.body.order) => IsWhole(ps, n.body.order)'
        BY <1>0, SettlementsGrow
      <4>3. PICK ps : ps = found[c]
        OBVIOUS
      <4>4. IsWhole(ps, n.body.order)'
        BY <4>1, <4>2, <4>3
      <4>5. {v \in reversals' : v.id = n.id} = ReversalsWritten(n.id, ps)
        BY <2>1, <3>1, <4>3
      <4> QED
        BY <2>1, <3>1, <3>2, <3>3, <4>4, <4>5 DEF RowBalances
    <3>4. CASE body[c].op # "reverse_settlement"
      BY <2>1, <2>3, <3>1, <3>2, <3>4 DEF RowBalances
    <3> QED
      BY <3>3, <3>4
  <2>6. ASSUME NEW r \in rows PROVE RowBalances(r)'
    <3>1. r.id # c /\ RowBalances(r)
      BY <2>1 DEF BooksInv, Books
    <3>2. {l \in lineRows' : l.id = r.id} = {l \in lineRows : l.id = r.id}
      BY <2>1, <2>2, <3>1
    <3>3. {v \in reversals' : v.id = r.id} = {v \in reversals : v.id = r.id}
      BY <2>1, <2>3, <3>1
    <3> QED
      BY <1>0, <3>1, <3>2, <3>3, RowStaysBalanced
  <2>7. \A l \in lineRows' : \E r \in rows' : r.id = l.id
    BY <2>1, <2>2 DEF BooksInv, Books
  <2>8. \A v \in reversals' : \E r \in rows' : r.id = v.id
    BY <2>1, <2>3 DEF BooksInv, Books
  <2> QED
    BY <2>1, <2>4, <2>5, <2>6, <2>7, <2>8 DEF Books
<1> QED
  BY <1>1, <1>2, OnlyCommitBooks

LEMMA BooksInvCorrect == Spec => []BooksInv
<1>1. Init => BooksInv
  <2>1. Init => Books
    BY FS_EmptySet DEF Init, Books
  <2> QED
    BY <2>1, InitInv, InitSession DEF BooksInv
<1>2. BooksInv /\ [Next]_vars => BooksInv'
  BY StepInv, StepSession, StepBooks DEF BooksInv
<1> QED
  BY <1>1, <1>2, PTL DEF Spec

(* Every variable has its shape.                                           *)
THEOREM TypeCorrect == Spec => []TypeOK
<1>1. BooksInv => TypeOK
  <2> SUFFICES ASSUME BooksInv PROVE TypeOK
    OBVIOUS
  <2>1. CallType /\ DeskType
    BY DEF BooksInv, SessionInv
  <2>2. \A c \in Calls : reply[c] # None <=> pc[c] = "done"
    BY NoneAssumption DEF BooksInv, Inv, CallType, AnswersAreRows
  <2>3. \A r \in rows : r.amount \in Int
    BY <2>1, AmountOfVetted DEF BooksInv, Books, RowBalances, CallType
  <2> QED
    BY <2>1, <2>2, <2>3 DEF TypeOK, CallType, DeskType
<1> QED
  BY <1>1, BooksInvCorrect, PTL

(* The lines of a refund add up to it; an exchange has one per item.       *)
LEMMA LinesBalance ==
  ASSUME NEW c, NEW b \in Bodies
  PROVE  /\ Cardinality(LinesWritten(c, b)) = Len(b.basket)
         /\ b.op = "refund" => SumFunction([l \in LinesWritten(c, b) |-> l.amount]) = Amount(b)
<1> DEFINE D == DOMAIN b.basket
           L == LinesWritten(c, b)
           g == [i \in D |-> [id |-> c, position |-> i, line |-> b.basket[i].line,
                              quantity |-> b.basket[i].quantity, amount |-> LineAmount(b, i)]]
           f == [l \in L |-> l.amount]
<1>1. g \in Bijection(D, L)
  <2>1. g \in [D -> L] /\ \A l \in L : \E i \in D : g[i] = l
    BY DEF LinesWritten
  <2>2. \A i, j \in D : g[i] = g[j] => i = j
    <3> SUFFICES ASSUME NEW i \in D, NEW j \in D, g[i] = g[j] PROVE i = j
      OBVIOUS
    <3>1. g[i].position = i /\ g[j].position = j
      OBVIOUS
    <3> QED
      BY <3>1
  <2> HIDE DEF g, D, L
  <2> QED
    BY <2>1, <2>2 DEF Bijection, Injection, Surjection, IsInjective
<1>2. IsFiniteSet(D) /\ Cardinality(D) = Len(b.basket)
  BY Basket
<1>3. Cardinality(L) = Cardinality(D)
  <2> HIDE DEF D, L, g
  <2> QED
    BY <1>1, <1>2, FS_Bijection DEF ExistsBijection
<1>4. ASSUME b.op = "refund"
      PROVE  SumFunction(f) = Amount(b)
  <2>1. \A i \in D : g[i].amount = b.basket[i].amount /\ b.basket[i].amount \in Int
    BY <1>4, Basket DEF LineAmount
  <2>2. f \in [L -> Int]
    BY <2>1 DEF LinesWritten
  <2>3. SumFunction(f) = SumFunction([i \in D |-> f[g[i]]])
    <3> HIDE DEF D, L, g, f
    <3> QED
      BY <1>1, <1>2, <2>2, SumRenamed
  <2>4. \A i \in D : f[g[i]] = b.basket[i].amount
    <3>1. \A i \in D : g[i] \in L
      BY DEF LinesWritten
    <3> QED
      BY <2>1, <3>1
  <2>5. [i \in D |-> f[g[i]]] = [i \in D |-> b.basket[i].amount]
    BY <2>4
  <2> QED
    BY <1>4, <2>3, <2>5 DEF Amount
<1> QED
  BY <1>2, <1>3, <1>4

(* The reversals of one settlement add up to what its order cost.          *)
LEMMA ReversalsBalance ==
  ASSUME NEW c, NEW s \in Settlements
  PROVE  LET R == ReversalsWritten(c, s.payments)
         IN /\ SumFunction([v \in R |-> v.amount]) = FinalAmount[s.order]
            /\ {v.payment : v \in R} = {p.id : p \in s.payments}
<1> DEFINE P == s.payments
           R == ReversalsWritten(c, P)
           g == [p \in P |-> [id |-> c, payment |-> p.id, method |-> p.method,
                              amount |-> p.amount]]
           f == [v \in R |-> v.amount]
<1>1. /\ IsFiniteSet(P) /\ \A p, q \in P : p.id = q.id => p = q
      /\ \A p \in P : p.amount \in Nat
      /\ SumFunction([p \in P |-> p.amount]) = FinalAmount[s.order]
  BY SettlementAssumption
<1>2. g \in Bijection(P, R)
  <2>1. g \in [P -> R] /\ \A v \in R : \E p \in P : g[p] = v
    BY DEF ReversalsWritten
  <2>2. \A p, q \in P : g[p] = g[q] => p = q
    <3> SUFFICES ASSUME NEW p \in P, NEW q \in P, g[p] = g[q] PROVE p = q
      OBVIOUS
    <3>1. g[p].payment = p.id /\ g[q].payment = q.id
      OBVIOUS
    <3> QED
      BY <1>1, <3>1
  <2> HIDE DEF g, P, R
  <2> QED
    BY <2>1, <2>2 DEF Bijection, Injection, Surjection, IsInjective
<1>3. f \in [R -> Int]
  BY <1>1 DEF ReversalsWritten
<1>4. SumFunction(f) = SumFunction([p \in P |-> f[g[p]]])
  <2> HIDE DEF P, R, g, f
  <2> QED
    BY <1>1, <1>2, <1>3, SumRenamed
<1>5. \A p \in P : f[g[p]] = p.amount
  <2>1. \A p \in P : g[p] \in R
    BY DEF ReversalsWritten
  <2> QED
    BY <2>1
<1>6. [p \in P |-> f[g[p]]] = [p \in P |-> p.amount]
  BY <1>5
<1>7. {v.payment : v \in R} = {p.id : p \in P}
  <2>1. \A p \in P : g[p] \in R /\ g[p].payment = p.id
    BY DEF ReversalsWritten
  <2>2. \A v \in R : \E p \in P : v.payment = p.id
    BY DEF ReversalsWritten
  <2> HIDE DEF P, R, g
  <2> QED
    BY <2>1, <2>2
<1> QED
  BY <1>1, <1>4, <1>6, <1>7

(* No payment is of two settlements.                                       *)
LEMMA PaymentsApart ==
  ASSUME NEW s \in Settlements, NEW t \in Settlements, NEW p \in s.payments,
         NEW q \in t.payments, p.id = q.id
  PROVE  p = q
BY SettlementAssumption

(* A row that reverses whole settlements reverses each of them whole.      *)
Restores(r, backs) ==
  \E whole \in SUBSET SettlementsOf(r.body.order) :
    /\ whole # {}
    /\ \A s \in whole : ReversesWhole(r, s, backs)
    /\ \A v \in backs : \E s \in whole : \E p \in s.payments : p.id = v.payment

LEMMA ReversedWhole ==
  ASSUME NEW r, NEW ps, IsWhole(ps, r.body.order), settlements \subseteq Settlements,
         r.amount = FinalAmount[r.body.order]
  PROVE  Restores(r, ReversalsWritten(r.id, ps))
<1> DEFINE order == r.body.order
           backs == ReversalsWritten(r.id, ps)
<1>1. PICK whole \in SUBSET SettlementsOf(order) :
        whole # {} /\ ps = UNION {s.payments : s \in whole}
  BY DEF IsWhole
<1>2. ASSUME NEW s \in whole PROVE ReversesWhole(r, s, backs)
  <2> DEFINE given == {v \in backs : \E p \in s.payments : p.id = v.payment}
             R == ReversalsWritten(r.id, s.payments)
  <2>1. s \in Settlements /\ s.order = order
    BY <1>1 DEF SettlementsOf
  <2>2. given = R
    <3>1. ASSUME NEW v \in given PROVE v \in R
      <4>1. PICK q \in ps : v = [id |-> r.id, payment |-> q.id, method |-> q.method,
                                 amount |-> q.amount]
        BY DEF ReversalsWritten
      <4>2. PICK t \in whole : q \in t.payments
        BY <1>1
      <4>3. PICK p \in s.payments : p.id = q.id
        BY <4>1
      <4>4. t \in Settlements
        BY <4>2 DEF SettlementsOf
      <4>5. p = q
        BY <2>1, <4>2, <4>3, <4>4, PaymentsApart
      <4> QED
        BY <4>1, <4>5 DEF ReversalsWritten
    <3>2. ASSUME NEW v \in R PROVE v \in given
      <4>1. PICK p \in s.payments : v = [id |-> r.id, payment |-> p.id, method |-> p.method,
                                         amount |-> p.amount]
        BY DEF ReversalsWritten
      <4>2. p \in ps
        BY <1>1
      <4> QED
        BY <4>1, <4>2 DEF ReversalsWritten
    <3> HIDE DEF given, R
    <3> QED
      BY <3>1, <3>2
  <2>3. /\ SumFunction([v \in R |-> v.amount]) = r.amount
        /\ {v.payment : v \in R} = {p.id : p \in s.payments}
    BY <2>1, ReversalsBalance
  <2>4. /\ {v.payment : v \in given} = {p.id : p \in s.payments}
        /\ SumFunction([v \in given |-> v.amount]) = r.amount
    <3> HIDE DEF given, R
    <3> QED
      BY <2>2, <2>3
  <2> QED
    BY <2>4 DEF ReversesWhole
<1>3. ASSUME NEW v \in backs
      PROVE  \E s \in whole : \E p \in s.payments : p.id = v.payment
  BY <1>1 DEF ReversalsWritten
<1> HIDE DEF backs
<1> QED
  BY <1>1, <1>2, <1>3 DEF Restores, backs

(* An after-sales row never stands alone: its lines add up to it, and a    *)
(* reverse settlement reverses one or more settlements whole.              *)
THEOREM BooksAlwaysBalance == Spec => []BooksBalance
<1>1. BooksInv => BooksBalance
  <2> SUFFICES ASSUME BooksInv PROVE BooksBalance
    OBVIOUS
  <2>0. Books /\ \A r \in rows : r.body \in Bodies
    BY DEF BooksInv, SessionInv, CallType
  <2>1. ASSUME NEW v \in reversals
        PROVE  \E r \in rows : r.id = v.id /\ r.body.op = "reverse_settlement"
    <3>1. PICK r \in rows : r.id = v.id
      BY <2>0 DEF Books
    <3>2. v \in {w \in reversals : w.id = r.id} /\ RowBalances(r)
      BY <2>0, <3>1 DEF Books
    <3> QED
      BY <3>1, <3>2 DEF RowBalances
  <2>2. ASSUME NEW r \in rows
        PROVE  LET lines == {l \in lineRows : l.id = r.id}
                   backs == {v \in reversals : v.id = r.id}
               IN CASE r.body.op = "refund" ->
                         SumFunction([l \in lines |-> l.amount]) = r.amount
                    [] r.body.op = "exchange" -> Cardinality(lines) = Len(r.body.basket)
                    [] r.body.op = "reverse_settlement" ->
                         \E whole \in SUBSET SettlementsOf(r.body.order) :
                           /\ whole # {}
                           /\ \A s \in whole : ReversesWhole(r, s, backs)
                           /\ \A v \in backs :
                                \E s \in whole : \E p \in s.payments : p.id = v.payment
    <3>1. RowBalances(r) /\ r.body \in Bodies /\ r.body.op \in Ops /\ r.body.order \in Orders
      BY <2>0, BodyFacts DEF Books
    <3>2. CASE r.body.op = "refund"
      BY <3>1, <3>2, LinesBalance DEF RowBalances
    <3>3. CASE r.body.op = "exchange"
      BY <3>1, <3>3, LinesBalance DEF RowBalances
    <3>4. CASE r.body.op = "reverse_settlement"
      <4>1. r.amount = FinalAmount[r.body.order]
        BY <3>1, <3>4 DEF RowBalances, Amount
      <4>2. settlements \subseteq Settlements
        BY DEF BooksInv, SessionInv, Desk
      <4>3. \E ps : /\ IsWhole(ps, r.body.order)
                    /\ {v \in reversals : v.id = r.id} = ReversalsWritten(r.id, ps)
        BY <3>1, <3>4 DEF RowBalances
      <4>4. Restores(r, {v \in reversals : v.id = r.id})
        BY <4>1, <4>2, <4>3, ReversedWhole
      <4> QED
        BY <3>4, <4>4 DEF Restores
    <3> QED
      BY <3>1, <3>2, <3>3, <3>4 DEF Ops
  <2> QED
    BY <2>0, <2>1, <2>2 DEF BooksBalance, Books
<1> QED
  BY <1>1, BooksInvCorrect, PTL

-------------------------------------------------------------------------------
(* The caps of the refunds.  Unless two refunds of an order overlapped,    *)
(* one at most is under way, and what it has checked still holds when its  *)
(* row is written: nobody else refunds the order in between.               *)
Alone == \A o \in Orders : ~raced[o] => \A c, d \in Refunding(o) : c = d

Refunded(o) == SumFunction([r \in RefundRows(o) |-> r.amount])
CameBack(o, line) == SumFunction([l \in Back(o, line) |-> l.quantity])

Room(c) ==
  Priced(body[c].order) /\ pc[c] \in {"inserting", "inserted"} =>
    Refunded(body[c].order) + Amount(body[c]) <= FinalAmount[body[c].order]

LineRoom(c) ==
  pc[c] \in {"totalling", "inserting", "inserted"} =>
    \A i \in DOMAIN body[c].basket :
      CameBack(body[c].order, body[c].basket[i].line) + body[c].basket[i].quantity
        <= LineOf[body[c].basket[i].line].quantity

Rooms ==
  \A c \in Calls : body[c].op = "refund" /\ ~raced[body[c].order] => Room(c) /\ LineRoom(c)

CapsInv == Alone /\ Rooms /\ RefundsCappedUnlessRaced

LEMMA InitCaps == Init => CapsInv
<1> SUFFICES ASSUME Init PROVE CapsInv
  OBVIOUS
<1>1. Alone /\ Rooms
  BY DEF Init, Alone, Refunding, Rooms, Room, LineRoom
<1>2. RefundsCappedUnlessRaced
  <2>1. \A o \in Orders : RefundRows(o) = {} /\ \A line : Back(o, line) = {}
    BY DEF Init, RefundRows, Back
  <2>2. ASSUME NEW o \in Orders
        PROVE  Refunded(o) = 0 /\ \A line : CameBack(o, line) = 0
    BY <2>1, SumEmpty DEF Refunded, CameBack
  <2> QED
    BY <2>2, AmountsAreCents, LineAssumption DEF RefundsCappedUnlessRaced, Refunded, CameBack
<1> QED
  BY <1>1, <1>2 DEF CapsInv

(* What the rows of the books look like.                                   *)
LEMMA RowFacts ==
  ASSUME BooksInv, NEW r \in rows
  PROVE  /\ r.body \in Bodies /\ r.body.order \in Orders /\ Vetted(r.body)
         /\ r.amount \in Int
         /\ r.body.op = "refund" \/ Priced(r.body.order) => r.amount \in Nat
         /\ \A l \in lineRows : l.id = r.id => l.quantity \in Nat
<1>1. r.body \in Bodies /\ RowBalances(r)
  BY DEF BooksInv, SessionInv, CallType, Books
<1>2. r.body.order \in Orders /\ Vetted(r.body) /\ r.amount = Amount(r.body)
  BY <1>1, BodyFacts DEF RowBalances
<1>3. ASSUME NEW l \in lineRows, l.id = r.id
      PROVE  l.quantity \in Nat
  <2>1. r.body.op # "reverse_settlement" /\ l \in LinesWritten(r.id, r.body)
    BY <1>1, <1>3 DEF RowBalances
  <2>2. PICK i \in DOMAIN r.body.basket : l.quantity = r.body.basket[i].quantity
    BY <2>1 DEF LinesWritten
  <2>3. r.body.basket[i].quantity \in Int /\ r.body.basket[i].quantity >= 1
    BY <1>1, <1>2, <2>1, Basket DEF Vetted
  <2> QED
    BY <2>2, <2>3
<1> QED
  BY <1>1, <1>2, <1>3, AmountOfVetted

LEMMA SumsAreNat ==
  ASSUME BooksInv, NEW o \in Orders
  PROVE  /\ IsFiniteSet(RefundRows(o)) /\ Refunded(o) \in Nat
         /\ \A line : IsFiniteSet(Back(o, line)) /\ CameBack(o, line) \in Nat
<1>1. IsFiniteSet(rows) /\ IsFiniteSet(lineRows)
  BY DEF BooksInv, Books
<1>2. IsFiniteSet(RefundRows(o))
  BY <1>1, FS_Subset DEF RefundRows
<1>3. [r \in RefundRows(o) |-> r.amount] \in [RefundRows(o) -> Nat]
  BY RowFacts DEF RefundRows
<1>4. ASSUME NEW line
      PROVE  IsFiniteSet(Back(o, line)) /\ CameBack(o, line) \in Nat
  <2> DEFINE B == Back(o, line)
             f == [l \in B |-> l.quantity]
  <2>1. IsFiniteSet(B)
    BY <1>1, FS_Subset DEF Back
  <2>2. f \in [B -> Nat]
    BY RowFacts DEF Back, RefundRows
  <2>3. SumFunction(f) \in Nat
    <3> HIDE DEF B, f
    <3> QED
      BY <2>1, <2>2, SumPart
  <2> QED
    BY <2>1, <2>3 DEF CameBack
<1> QED
  BY <1>2, <1>3, <1>4, SumPart DEF Refunded

(* The total a refund is compared with counts every refund of the order,   *)
(* and the quantities every line that came back.                           *)
LEMMA TotalLeavesRoom ==
  ASSUME BooksInv, NEW b \in Bodies, Priced(b.order), TotalPasses(b), Vetted(b), b.op = "refund"
  PROVE  Refunded(b.order) + Amount(b) <= FinalAmount[b.order]
<1> DEFINE o == b.order
           R == RowsOf(o)
           all == [r \in R |-> r.amount]
           part == [r \in RefundRows(o) |-> all[r]]
<1>1. o \in Orders /\ FinalAmount[o] \in Nat /\ Amount(b) \in Nat
  BY BodyFacts, AmountsAreCents, AmountOfVetted
<1>2. IsFiniteSet(R) /\ RefundRows(o) \in SUBSET R
  BY FS_Subset DEF BooksInv, Books, RowsOf, RefundRows
<1>3. all \in [R -> Nat]
  BY RowFacts DEF RowsOf
<1>4. part = [r \in RefundRows(o) |-> r.amount]
  BY <1>2
<1>5. SumFunction(part) <= SumFunction(all) /\ SumFunction(all) \in Nat
  <2> HIDE DEF R, all, o
  <2> QED
    BY <1>2, <1>3, SumPart
<1>6. Refunded(o) \in Nat /\ Refunded(o) = SumFunction(part)
  BY <1>1, <1>4, SumsAreNat DEF Refunded
<1>7. SumFunction(all) + Amount(b) <= FinalAmount[o]
  BY DEF TotalPasses
<1> HIDE DEF all, part
<1> QED
  BY <1>1, <1>5, <1>6, <1>7

LEMMA LinesLeaveRoom ==
  ASSUME BooksInv, NEW b \in Bodies, RefundLinesPass(b), NEW i \in DOMAIN b.basket
  PROVE  CameBack(b.order, b.basket[i].line) + b.basket[i].quantity
           <= LineOf[b.basket[i].line].quantity
<1> DEFINE o == b.order
           line == b.basket[i].line
           L == LineRowsOf(o, line)
           B == Back(o, line)
           all == [l \in L |-> l.quantity]
           part == [l \in B |-> all[l]]
<1>1. /\ o \in Orders /\ b.basket[i].quantity \in Int
      /\ line \in DOMAIN LineOf /\ LineOf[line].quantity \in Nat
      /\ SumFunction(all) + b.basket[i].quantity <= LineOf[line].quantity
  BY Basket, LineAssumption DEF RefundLinesPass, BelongsToOrder
<1>2. IsFiniteSet(L) /\ B \in SUBSET L
  BY FS_Subset DEF BooksInv, Books, LineRowsOf, Back, RefundRows
<1>3. all \in [L -> Nat]
  BY RowFacts DEF LineRowsOf
<1>4. part = [l \in B |-> l.quantity]
  BY <1>2
<1>5. SumFunction(part) <= SumFunction(all) /\ SumFunction(all) \in Nat
  <2> HIDE DEF L, B, all
  <2> QED
    BY <1>2, <1>3, SumPart
<1>6. CameBack(o, line) \in Nat /\ CameBack(o, line) = SumFunction(part)
  BY <1>1, <1>4, SumsAreNat DEF CameBack
<1> HIDE DEF all, part, B, L, line
<1> QED
  BY <1>1, <1>5, <1>6 DEF line

(* Only the commit of a refund of the order changes what the caps count.   *)
LEMMA OthersLeaveCaps ==
  ASSUME BooksInv, NEW o \in Orders, NEW c \in Calls, Commit(c),
         ~(body[c].op = "refund" /\ body[c].order = o)
  PROVE  RefundRows(o)' = RefundRows(o) /\ \A line : Back(o, line)' = Back(o, line)
<1>1. PICK n :
  /\ rows' = rows \cup {n} /\ n.id = c /\ n.body = body[c] /\ n.amount = Amount(body[c])
  /\ body[c] \in Bodies /\ Vetted(body[c])
  /\ pc[c] = IF body[c].op = "reverse_settlement" THEN "reversing" ELSE "inserted"
  /\ lineRows' = lineRows \cup
       (IF body[c].op = "reverse_settlement" THEN {} ELSE LinesWritten(c, body[c]))
  /\ reversals' = reversals \cup ReversalsWritten(c, found[c])
  /\ IF body[c].op = "reverse_settlement"
     THEN IsWhole(found[c], body[c].order) ELSE found[c] = {}
  /\ \A r \in rows : r.id # c
  /\ \A l \in lineRows : l.id # c
  /\ \A v \in reversals : v.id # c
  BY CommitAdds
<1>2. RefundRows(o)' = RefundRows(o)
  BY <1>1 DEF RefundRows
<1>3. \A l \in LinesWritten(c, body[c]) : l.id = c
  BY DEF LinesWritten
<1>4. \A r \in RefundRows(o) : r.id # c
  BY <1>1 DEF RefundRows
<1>5. \A line : Back(o, line)' = Back(o, line)
  BY <1>1, <1>2, <1>3, <1>4 DEF Back
<1> QED
  BY <1>2, <1>5

(* A step that only moves calls on, and races no order, keeps the caps as  *)
(* long as the call it moves has room where it arrives.                    *)
Quiet ==
  \A o \in Orders : RefundRows(o)' = RefundRows(o) /\ \A line : Back(o, line)' = Back(o, line)

LEMMA QuietCaps ==
  ASSUME Quiet
  PROVE  \A o \in Orders : Refunded(o)' = Refunded(o) /\ \A line : CameBack(o, line)' = CameBack(o, line)
BY DEF Quiet, Refunded, CameBack

LEMMA QuietKeepsCap ==
  ASSUME Quiet, RefundsCappedUnlessRaced, \A o \in Orders : raced[o] => raced'[o]
  PROVE  RefundsCappedUnlessRaced'
<1> SUFFICES ASSUME NEW o \in Orders, ~raced'[o]
             PROVE  /\ Priced(o) => Refunded(o)' <= FinalAmount[o]
                    /\ \A line \in DOMAIN LineOf :
                         (\A l, m \in Back(o, line)' : l.id = m.id => l = m)
                           => CameBack(o, line)' <= LineOf[line].quantity
  BY DEF RefundsCappedUnlessRaced, Refunded, CameBack
<1>1. /\ Priced(o) => Refunded(o) <= FinalAmount[o]
      /\ \A line \in DOMAIN LineOf :
           (\A l, m \in Back(o, line) : l.id = m.id => l = m)
             => CameBack(o, line) <= LineOf[line].quantity
  BY DEF RefundsCappedUnlessRaced, Refunded, CameBack
<1> QED
  BY <1>1, QuietCaps DEF Quiet

(* What the calls d # c had room for, they still have.                     *)
LEMMA OthersKeepRoom ==
  ASSUME BooksInv, Rooms, Quiet, NEW d \in Calls, pc'[d] = pc[d], body'[d] = body[d],
         \A o \in Orders : raced[o] => raced'[o]
  PROVE  (body[d].op = "refund" /\ ~raced[body[d].order] => Room(d) /\ LineRoom(d))'
<1>1. body[d] \in Bodies /\ body[d].order \in Orders
  BY BodyFacts DEF BooksInv, SessionInv, CallType
<1>2. /\ Refunded(body[d].order)' = Refunded(body[d].order)
      /\ \A line : CameBack(body[d].order, line)' = CameBack(body[d].order, line)
  BY <1>1, QuietCaps
<1> QED
  BY <1>1, <1>2 DEF Rooms, Room, LineRoom

(* A step of one call that leaves the caps alone.                          *)
LEMMA MoveKeepsCaps ==
  ASSUME BooksInv, CapsInv, Quiet, raced' = raced, NEW c \in Calls,
         \A d \in Calls \ {c} : pc'[d] = pc[d] /\ body'[d] = body[d],
         pc'[c] \in {"checking", "totalling", "inserting", "inserted"} =>
           /\ pc[c] \in {"checking", "totalling", "inserting", "inserted"}
           /\ body'[c] = body[c],
         (body[c].op = "refund" /\ ~raced[body[c].order] => Room(c) /\ LineRoom(c))'
  PROVE  CapsInv'
<1>1. \A o \in Orders : Refunding(o)' \subseteq Refunding(o)
  BY DEF Refunding
<1>2. Alone'
  BY <1>1 DEF CapsInv, Alone
<1>3. ASSUME NEW d \in Calls \ {c}
      PROVE  (body[d].op = "refund" /\ ~raced[body[d].order] => Room(d) /\ LineRoom(d))'
  BY OthersKeepRoom DEF CapsInv
<1>4. Rooms'
  BY <1>3 DEF Rooms
<1>5. RefundsCappedUnlessRaced'
  BY QuietKeepsCap DEF CapsInv
<1> QED
  BY <1>2, <1>4, <1>5 DEF CapsInv

(* A refund that passes starts alone, or its order is raced.               *)
LEMMA PassKeepsCaps ==
  ASSUME BooksInv, CapsInv, NEW c \in Calls, Pass(c) PROVE CapsInv'
<1> DEFINE b == body[c]
<1>1. CallType /\ DeskType /\ b \in Bodies /\ b.order \in Orders
  BY BodyFacts DEF BooksInv, SessionInv, CallType
<1>2. /\ pc[c] = "loaded" /\ body' = body /\ UNCHANGED booked
      /\ pc' = [pc EXCEPT ![c] = IF b.op = "refund" THEN "checking" ELSE "inserting"]
      /\ raced' = [raced EXCEPT ![b.order] = @ \/ (b.op = "refund" /\ Refunding(b.order) # {})]
  BY DEF Pass, Goto
<1>3. /\ \A o \in Orders : raced[o] => raced'[o]
      /\ b.op = "refund" /\ ~raced'[b.order] => Refunding(b.order) = {}
  BY <1>1, <1>2, Zenon DEF DeskType
<1>4. Quiet
  BY <1>2 DEF Quiet, RefundRows, Back, booked
<1>5. Alone'
  <2> SUFFICES ASSUME NEW o \in Orders, ~raced'[o], NEW d \in Refunding(o)', NEW e \in Refunding(o)'
               PROVE  d = e
    BY DEF Alone
  <2>1. \A x \in Refunding(o)' : x # c => x \in Refunding(o)
    BY <1>1, <1>2 DEF Refunding, CallType
  <2>2. c \in Refunding(o)' => b.op = "refund" /\ b.order = o
    BY <1>2 DEF Refunding
  <2>3. ~raced[o] /\ (c \in Refunding(o)' => Refunding(o) = {})
    BY <1>3, <2>2
  <2>4. \A x, y \in Refunding(o) : x = y
    BY <2>3 DEF CapsInv, Alone
  <2> QED
    BY <2>1, <2>3, <2>4
<1>6. Rooms'
  <2> SUFFICES ASSUME NEW d \in Calls
               PROVE  (body[d].op = "refund" /\ ~raced[body[d].order] => Room(d) /\ LineRoom(d))'
    BY DEF Rooms
  <2>1. CASE d = c
    <3>1. body[c].op = "refund" => pc'[c] = "checking"
      BY <1>1, <1>2 DEF CallType
    <3> QED
      BY <1>2, <2>1, <3>1 DEF Room, LineRoom
  <2>2. CASE d # c
    BY <1>1, <1>2, <1>3, <1>4, <2>2, OthersKeepRoom DEF CapsInv, CallType
  <2> QED
    BY <2>1, <2>2
<1>7. RefundsCappedUnlessRaced'
  BY <1>3, <1>4, QuietKeepsCap DEF CapsInv
<1> QED
  BY <1>5, <1>6, <1>7 DEF CapsInv

(* The commit of a refund adds what it had room for.                       *)
LEMMA RefundAdds ==
  ASSUME BooksInv, NEW o \in Orders, NEW c \in Calls, Commit(c),
         body[c].op = "refund", body[c].order = o
  PROVE  /\ Refunded(o)' = Refunded(o) + Amount(body[c])
         /\ \A line : Back(o, line)' =
              Back(o, line) \cup {l \in LinesWritten(c, body[c]) : l.line = line}
         /\ \A line, l : l \in Back(o, line) => l.id # c
<1>1. PICK n :
  /\ rows' = rows \cup {n} /\ n.id = c /\ n.body = body[c] /\ n.amount = Amount(body[c])
  /\ body[c] \in Bodies /\ Vetted(body[c])
  /\ pc[c] = IF body[c].op = "reverse_settlement" THEN "reversing" ELSE "inserted"
  /\ lineRows' = lineRows \cup
       (IF body[c].op = "reverse_settlement" THEN {} ELSE LinesWritten(c, body[c]))
  /\ reversals' = reversals \cup ReversalsWritten(c, found[c])
  /\ IF body[c].op = "reverse_settlement"
     THEN IsWhole(found[c], body[c].order) ELSE found[c] = {}
  /\ \A r \in rows : r.id # c
  /\ \A l \in lineRows : l.id # c
  /\ \A v \in reversals : v.id # c
  BY CommitAdds
<1> DEFINE R == RefundRows(o)
           f == [r \in R \cup {n} |-> r.amount]
<1>2. RefundRows(o)' = R \cup {n} /\ n \notin R
  BY <1>1 DEF RefundRows
<1>3. IsFiniteSet(R) /\ n.amount \in Int
  BY <1>1, SumsAreNat, AmountOfVetted
<1>4. \A r \in R : r.amount \in Int
  BY RowFacts DEF RefundRows
<1>5. f \in [R \cup {n} -> Int]
  BY <1>3, <1>4
<1>6. SumFunction(f) = SumFunction([r \in R |-> f[r]]) + f[n]
  <2> HIDE DEF R, f
  <2> QED
    BY <1>2, <1>3, <1>5, SumAdd
<1>7. [r \in R |-> f[r]] = [r \in R |-> r.amount] /\ f[n] = Amount(body[c])
  BY <1>1
<1>8. Refunded(o)' = SumFunction(f)
  BY <1>1, <1>2 DEF Refunded
<1>9. Refunded(o)' = Refunded(o) + Amount(body[c])
  BY <1>6, <1>7, <1>8 DEF Refunded
<1>10. \A l \in LinesWritten(c, body[c]) : l.id = c
  BY DEF LinesWritten
<1>11. \A line : Back(o, line)' =
         Back(o, line) \cup {l \in LinesWritten(c, body[c]) : l.line = line}
  <2>1. \A l \in lineRows' :
          (\E r \in RefundRows(o)' : r.id = l.id) <=>
            (l \in lineRows /\ \E r \in RefundRows(o) : r.id = l.id) \/ l \in LinesWritten(c, body[c])
    BY <1>1, <1>2, <1>10 DEF RefundRows
  <2>2. lineRows' = lineRows \cup LinesWritten(c, body[c])
    BY <1>1
  <2> QED
    BY <2>1, <2>2 DEF Back
<1>12. \A line, l : l \in Back(o, line) => l.id # c
  BY <1>1 DEF Back
<1> HIDE DEF f
<1> QED
  BY <1>9, <1>11, <1>12

LEMMA CommitKeepsCap ==
  ASSUME BooksInv, CapsInv, NEW o \in Orders, NEW c \in Calls, Commit(c),
         body[c].op = "refund", body[c].order = o, ~raced[o]
  PROVE  /\ Priced(o) => Refunded(o)' <= FinalAmount[o]
         /\ \A line \in DOMAIN LineOf :
              (\A l, m \in Back(o, line)' : l.id = m.id => l = m)
                => CameBack(o, line)' <= LineOf[line].quantity
<1> DEFINE b == body[c]
<1>1. pc[c] = "inserted" /\ Room(c) /\ LineRoom(c) /\ b \in Bodies
  BY DEF Commit, CapsInv, Rooms, BooksInv, SessionInv, CallType
<1>2. Priced(o) => Refunded(o)' <= FinalAmount[o]
  BY <1>1, RefundAdds DEF Room
<1>3. ASSUME NEW line \in DOMAIN LineOf, \A l, m \in Back(o, line)' : l.id = m.id => l = m
      PROVE  CameBack(o, line)' <= LineOf[line].quantity
  <2> DEFINE B == Back(o, line)
             W == {l \in LinesWritten(c, b) : l.line = line}
  <2>1. Back(o, line)' = B \cup W /\ \A l \in B : l.id # c
    BY RefundAdds
  <2>2. \A l \in W : l.id = c
    BY DEF LinesWritten
  <2>3. \A l, m \in W : l = m
    BY <1>3, <2>1, <2>2
  <2>4. \A l, m \in B : l.id = m.id => l = m
    BY <1>3, <2>1
  <2>5. CASE W = {}
    <3>1. Back(o, line)' = B
      BY <2>1, <2>5
    <3>2. CameBack(o, line)' = CameBack(o, line)
      BY <3>1 DEF CameBack
    <3> QED
      BY <2>4, <3>2 DEF CapsInv, RefundsCappedUnlessRaced, CameBack
  <2>6. ASSUME NEW w \in W
        PROVE  CameBack(o, line)' <= LineOf[line].quantity
    <3>1. Back(o, line)' = B \cup {w} /\ w \notin B
      BY <2>1, <2>2, <2>3
    <3>2. PICK i \in DOMAIN b.basket : w.line = b.basket[i].line /\ w.quantity = b.basket[i].quantity
      BY DEF LinesWritten
    <3>3. w.line = line /\ w.quantity \in Int
      BY <1>1, <3>2, Basket
    <3>4. CameBack(o, line) + w.quantity <= LineOf[line].quantity
      BY <1>1, <3>2, <3>3 DEF LineRoom
    <3> DEFINE f == [l \in B \cup {w} |-> l.quantity]
    <3>5. IsFiniteSet(B) /\ \A l \in B : l.quantity \in Int
      <4>1. IsFiniteSet(B)
        BY SumsAreNat
      <4>2. \A l \in B : l.quantity \in Int
        BY RowFacts DEF Back, RefundRows
      <4> QED
        BY <4>1, <4>2
    <3>6. f \in [B \cup {w} -> Int]
      BY <3>3, <3>5
    <3>7. SumFunction(f) = SumFunction([l \in B |-> f[l]]) + f[w]
      <4> HIDE DEF B, f, W
      <4> QED
        BY <3>1, <3>5, <3>6, SumAdd
    <3>8. [l \in B |-> f[l]] = [l \in B |-> l.quantity] /\ f[w] = w.quantity
      OBVIOUS
    <3>9. CameBack(o, line)' = SumFunction(f)
      BY <3>1 DEF CameBack
    <3>10. CameBack(o, line)' = CameBack(o, line) + w.quantity
      BY <3>7, <3>8, <3>9 DEF CameBack
    <3> QED
      BY <3>4, <3>10
  <2> QED
    BY <2>5, <2>6
<1> QED
  BY <1>2, <1>3

LEMMA CommitKeepsCaps ==
  ASSUME BooksInv, CapsInv, NEW c \in Calls, Commit(c) PROVE CapsInv'
<1>1. CallType /\ body[c] \in Bodies /\ body[c].order \in Orders
  BY BodyFacts DEF BooksInv, SessionInv, CallType
<1>2. body' = body /\ raced' = raced /\ pc' = [pc EXCEPT ![c] = "done"]
  BY DEF Commit, Goto
<1>3. Alone'
  <2>1. \A o \in Orders : Refunding(o)' \subseteq Refunding(o)
    BY <1>1, <1>2 DEF Refunding, CallType
  <2> QED
    BY <1>2, <2>1 DEF CapsInv, Alone
<1>4. ASSUME NEW o \in Orders, ~(body[c].op = "refund" /\ body[c].order = o)
      PROVE  /\ RefundRows(o)' = RefundRows(o) /\ \A line : Back(o, line)' = Back(o, line)
             /\ Refunded(o)' = Refunded(o) /\ \A line : CameBack(o, line)' = CameBack(o, line)
  BY <1>4, OthersLeaveCaps DEF Refunded, CameBack
<1>5. Rooms'
  <2> SUFFICES ASSUME NEW d \in Calls, body[d].op = "refund", ~raced[body[d].order]
               PROVE  Room(d)' /\ LineRoom(d)'
    BY <1>2 DEF Rooms
  <2>1. body[d].order \in Orders
    BY <1>1, BodyFacts DEF CallType
  <2>2. CASE pc'[d] \notin {"totalling", "inserting", "inserted"}
    BY <2>2 DEF Room, LineRoom
  <2>3. CASE pc'[d] \in {"totalling", "inserting", "inserted"}
    <3>1. d # c /\ pc'[d] = pc[d] /\ d \in Refunding(body[d].order)
      BY <1>1, <1>2, <2>3 DEF CallType, Refunding
    <3>2. ~(body[c].op = "refund" /\ body[c].order = body[d].order)
      <4> SUFFICES ASSUME body[c].op = "refund", body[c].order = body[d].order PROVE FALSE
        OBVIOUS
      <4>1. c \in Refunding(body[d].order)
        BY DEF Commit, Refunding
      <4> QED
        BY <2>1, <3>1, <4>1 DEF CapsInv, Alone
    <3>3. Room(d) /\ LineRoom(d)
      BY DEF CapsInv, Rooms
    <3> DEFINE o == body[d].order
    <3>4. Refunded(o)' = Refunded(o) /\ \A line : CameBack(o, line)' = CameBack(o, line)
      BY <1>2, <1>4, <2>1, <3>2
    <3> QED
      BY <1>2, <3>1, <3>3, <3>4 DEF Room, LineRoom
  <2> QED
    BY <2>2, <2>3
<1>6. RefundsCappedUnlessRaced'
  <2> SUFFICES ASSUME NEW o \in Orders, ~raced[o]
               PROVE  /\ Priced(o) => Refunded(o)' <= FinalAmount[o]
                      /\ \A line \in DOMAIN LineOf :
                           (\A l, m \in Back(o, line)' : l.id = m.id => l = m)
                             => CameBack(o, line)' <= LineOf[line].quantity
    BY <1>2 DEF RefundsCappedUnlessRaced, Refunded, CameBack
  <2>1. CASE body[c].op = "refund" /\ body[c].order = o
    BY <2>1, CommitKeepsCap
  <2>2. CASE ~(body[c].op = "refund" /\ body[c].order = o)
    <3>1. /\ Priced(o) => Refunded(o) <= FinalAmount[o]
          /\ \A line \in DOMAIN LineOf :
               (\A l, m \in Back(o, line) : l.id = m.id => l = m)
                 => CameBack(o, line) <= LineOf[line].quantity
      BY DEF CapsInv, RefundsCappedUnlessRaced, Refunded, CameBack
    <3> QED
      BY <1>4, <2>2, <3>1
  <2> QED
    BY <2>1, <2>2
<1> QED
  BY <1>3, <1>5, <1>6 DEF CapsInv

LEMMA StepCaps ==
  ASSUME BooksInv, CapsInv, [Next]_vars PROVE CapsInv'
<1>0. CallType /\ DeskType /\ \A c \in Calls : Session(c) /\ body[c] \in Bodies
  BY DEF BooksInv, SessionInv, CallType, Sessions
<1>q. UNCHANGED booked => Quiet
  BY DEF Quiet, RefundRows, Back, booked
<1>1. ASSUME NEW c \in Calls, NEW b \in Bodies, Load(c, b)
      PROVE  CapsInv'
  <2>1. pc'[c] \in {"loaded", "refused"} /\ raced' = raced /\ Quiet
    BY <1>0, <1>1, <1>q DEF Load, Goto, CallType
  <2>2. Room(c)' /\ LineRoom(c)'
    BY <2>1 DEF Room, LineRoom
  <2> QED
    BY <1>0, <1>1, <2>1, <2>2, MoveKeepsCaps DEF Load, Goto, CallType
<1>2. ASSUME NEW c \in Calls, Replay(c) \/ Refuse(c) \/ Fail(c) \/ ReadPayments(c)
      PROVE  CapsInv'
  <2>1. /\ pc'[c] \in {"done", "refused", "failed", "reversing"} /\ raced' = raced /\ Quiet
        /\ \A d \in Calls \ {c} : pc'[d] = pc[d] /\ body'[d] = body[d]
    BY <1>0, <1>2, <1>q DEF Replay, Refuse, Fail, ReadPayments, Goto, CallType
  <2>2. Room(c)' /\ LineRoom(c)'
    BY <2>1 DEF Room, LineRoom
  <2> QED
    BY <2>1, <2>2, MoveKeepsCaps
<1>3. ASSUME NEW c \in Calls, Pass(c)
      PROVE  CapsInv'
  BY <1>3, PassKeepsCaps
<1>4. ASSUME NEW c \in Calls, CheckLines(c)
      PROVE  CapsInv'
  <2>1. /\ pc[c] = "checking" /\ body' = body /\ raced' = raced /\ Quiet
        /\ pc'[c] = IF RefundLinesPass(body[c]) THEN "totalling" ELSE "refused"
        /\ \A d \in Calls \ {c} : pc'[d] = pc[d]
    BY <1>0, <1>4, <1>q DEF CheckLines, Goto, CallType
  <2>2. body[c] \in Bodies /\ body[c].order \in Orders
    BY <1>0, BodyFacts
  <2>3. Room(c)'
    BY <2>1 DEF Room
  <2>4. LineRoom(c)'
    <3>1. CASE RefundLinesPass(body[c])
      <4>1. \A i \in DOMAIN body[c].basket :
              CameBack(body[c].order, body[c].basket[i].line) + body[c].basket[i].quantity
                <= LineOf[body[c].basket[i].line].quantity
        BY <2>2, <3>1, LinesLeaveRoom
      <4>2. \A line : CameBack(body[c].order, line)' = CameBack(body[c].order, line)
        BY <2>1, <2>2, QuietCaps
      <4> QED
        BY <2>1, <4>1, <4>2 DEF LineRoom
    <3>2. CASE ~RefundLinesPass(body[c])
      BY <2>1, <3>2 DEF LineRoom
    <3> QED
      BY <3>1, <3>2
  <2> QED
    BY <2>1, <2>3, <2>4, MoveKeepsCaps
<1>5. ASSUME NEW c \in Calls, CheckTotal(c)
      PROVE  CapsInv'
  <2>1. /\ pc[c] = "totalling" /\ body' = body /\ raced' = raced /\ Quiet
        /\ pc'[c] = IF TotalPasses(body[c]) THEN "inserting" ELSE "refused"
        /\ \A d \in Calls \ {c} : pc'[d] = pc[d]
    BY <1>0, <1>5, <1>q DEF CheckTotal, Goto, CallType
  <2>2. /\ body[c] \in Bodies /\ body[c].order \in Orders /\ Vetted(body[c])
        /\ body[c].op = "refund"
    BY <1>0, <2>1, BodyFacts DEF Session
  <2>3. /\ Refunded(body[c].order)' = Refunded(body[c].order)
        /\ \A line : CameBack(body[c].order, line)' = CameBack(body[c].order, line)
    BY <2>1, <2>2, QuietCaps
  <2>4. Room(c)'
    <3>1. CASE TotalPasses(body[c])
      <4>1. Priced(body[c].order) =>
              Refunded(body[c].order) + Amount(body[c]) <= FinalAmount[body[c].order]
        BY <2>2, <3>1, TotalLeavesRoom
      <4> QED
        BY <2>1, <2>3, <4>1 DEF Room
    <3>2. CASE ~TotalPasses(body[c])
      BY <2>1, <3>2 DEF Room
    <3> QED
      BY <3>1, <3>2
  <2>5. (~raced[body[c].order] => LineRoom(c))'
    BY <2>1, <2>2, <2>3 DEF CapsInv, Rooms, LineRoom
  <2> QED
    BY <2>1, <2>4, <2>5, MoveKeepsCaps
<1>6. ASSUME NEW c \in Calls, Insert(c)
      PROVE  CapsInv'
  <2>1. /\ pc[c] = "inserting" /\ body' = body /\ raced' = raced /\ Quiet
        /\ pc'[c] \in {"inserted", "failed"}
        /\ \A d \in Calls \ {c} : pc'[d] = pc[d]
    BY <1>0, <1>6, <1>q DEF Insert, Goto, CallType
  <2>2. body[c].order \in Orders
    BY <1>0, BodyFacts
  <2>3. /\ Refunded(body[c].order)' = Refunded(body[c].order)
        /\ \A line : CameBack(body[c].order, line)' = CameBack(body[c].order, line)
    BY <2>1, <2>2, QuietCaps
  <2>4. (body[c].op = "refund" /\ ~raced[body[c].order] => Room(c) /\ LineRoom(c))'
    BY <2>1, <2>3 DEF CapsInv, Rooms, Room, LineRoom
  <2> QED
    BY <2>1, <2>4, MoveKeepsCaps
<1>7. ASSUME NEW c \in Calls, Commit(c)
      PROVE  CapsInv'
  BY <1>7, CommitKeepsCaps
<1>8. CASE UNCHANGED <<booked, pc, body, raced>>
  <2>1. Quiet
    BY <1>8, <1>q
  <2>2. Alone' /\ RefundsCappedUnlessRaced'
    BY <1>8, <2>1, QuietKeepsCap DEF CapsInv, Alone, Refunding
  <2>3. Rooms'
    BY <1>8, <2>1, OthersKeepRoom DEF CapsInv, Rooms
  <2> QED
    BY <2>2, <2>3 DEF CapsInv
<1>9. (\E s \in Settlements : Settle(s)) \/ (\E o \in Orders : Void(o)) \/ Tick \/ UNCHANGED vars
        => UNCHANGED <<booked, pc, body, raced>>
  BY DEF Settle, Void, Tick, vars
<1> QED
  BY <1>1, <1>2, <1>3, <1>4, <1>5, <1>6, <1>7, <1>8, <1>9 DEF Next

(* Unless two refunds of an order overlapped, what it paid back and, of a  *)
(* line no refund names twice, what came back stay within the purchase.    *)
THEOREM RefundCaps == Spec => []RefundsCappedUnlessRaced
<1>1. BooksInv /\ CapsInv /\ [Next]_vars => CapsInv'
  BY StepCaps
<1>2. CapsInv => RefundsCappedUnlessRaced
  BY DEF CapsInv
<1> QED
  BY <1>1, <1>2, InitCaps, BooksInvCorrect, PTL DEF Spec
===============================================================================
