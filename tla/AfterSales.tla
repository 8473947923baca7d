------------------------------ MODULE AfterSales ------------------------------
(***************************************************************************)
(* Refunds, exchanges and reverse settlements of settled orders.           *)
(*                                                                         *)
(* A call is one HTTP request in one session and one transaction.  It      *)
(* loads the order for the access check and keeps that copy; its later     *)
(* queries each read what is committed then (READ COMMITTED); the rows it  *)
(* writes are seen at its commit.  The one database constraint between     *)
(* calls is the unique idempotency scope.                                  *)
(***************************************************************************)
EXTENDS Integers, Sequences, FiniteSets, SequencesExt, Functions

CONSTANTS
  Calls,          \* HTTP calls; each is made once
  Bodies,         \* what a call may carry: [op, order, user, key, reason, basket]
  Orders,
  Owner,          \* orders.created_by_user_id
  Admins,         \* users with the OP_ADMIN role
  FinalAmount,    \* orders.final_amount, in cents
  LineOf,         \* order_lines by id: [order, quantity, price, discount]
  Settlements,    \* settlements that may commit: [id, order, payments]
  ReturnWindow,   \* the seven days of a return, in units of the clock
  Faults,         \* may a call fail, a settled order be voided, settlements overlap?
  MaxTime,        \* bound of the clock
  None            \* no answer yet

Ops == {"refund", "exchange", "reverse_settlement"}
Items == [line : Int, quantity : Int, amount : Int]

(* An order costs nothing less than zero (max in calculate_cart).  What an  *)
(* exchange line claims, and the price of a product, may be negative: no    *)
(* schema bounds them.                                                      *)
ASSUME AmountsAreCents == FinalAmount \in [Orders -> Nat]
ASSUME BodyAssumption ==
  /\ Bodies # {}
  /\ \A b \in Bodies : b.op \in Ops /\ b.order \in Orders /\ b.basket \in Seq(Items)
ASSUME LineAssumption ==
  \A l \in DOMAIN LineOf : LineOf[l].quantity \in Nat /\ LineOf[l].price \in Int

(* What Orders shows of each settlement (SettlementAllOrNothing).          *)
ASSUME SettlementAssumption ==
  \A s \in Settlements :
    /\ s.order \in Orders /\ IsFiniteSet(s.payments)
    /\ SumFunction([p \in s.payments |-> p.amount]) = FinalAmount[s.order]
    /\ \A p \in s.payments :
         /\ p.amount \in Nat
         /\ \A t \in Settlements : \A q \in t.payments : p.id = q.id => s = t /\ p = q
ASSUME TimeAssumption == ReturnWindow \in Nat /\ MaxTime \in Nat

VARIABLES
  \* the tables of the order desk
  status, settledAt,
  settlements,    \* those committed, with their payment_records
  \* after_sales_orders, after_sales_line_refunds, accounting_reversals
  rows, lineRows, reversals,
  now,
  \* one session per call
  pc, body,
  seen,       \* status and settled_at of the order as the session loaded it
  found,      \* the payments a reverse settlement has read
  \* history
  reply,      \* the after-sales row each call was answered with
  raced       \* orders two refunds were working on at once

desk == <<status, settledAt, settlements>>
booked == <<rows, lineRows, reversals>>
vars == <<desk, booked, now, pc, body, seen, found, reply, raced>>

-------------------------------------------------------------------------------
(* _idempotency_scope, and _request_fingerprint: the basket counts without *)
(* its order.                                                              *)
Scope(b) == [op |-> b.op, order |-> b.order, user |-> b.user, key |-> b.key]

Fingerprint(b) ==
  [op |-> b.op, order |-> b.order, reason |-> b.reason,
   items |-> [item \in ToSet(b.basket) |->
                Cardinality({i \in DOMAIN b.basket : b.basket[i] = item})]]

Question(b) == [scope |-> Scope(b), fingerprint |-> Fingerprint(b)]
Questions == {Question(b) : b \in Bodies}

ASSUME NoneAssumption == None \notin Calls /\ None \notin Questions

Access(b) == b.user = Owner[b.order] \/ b.user \in Admins

(* Decimal.quantize rounds halves to the even cent.                        *)
HalfEven(n, d) ==
  LET q == n \div d
      twice == 2 * (n % d)
  IN IF twice > d \/ (twice = d /\ q % 2 = 1) THEN q + 1 ELSE q

(* What goes into after_sales_orders.amount.                               *)
Amount(b) ==
  CASE b.op = "refund" -> SumFunction([i \in DOMAIN b.basket |-> b.basket[i].amount])
    [] b.op = "exchange" ->
         SumFunction([i \in DOMAIN b.basket |->
                        LineOf[b.basket[i].line].price * b.basket[i].quantity])
    [] b.op = "reverse_settlement" -> FinalAmount[b.order]

(* An exchange line without an amount takes an even share of the total.    *)
LineAmount(b, i) ==
  IF b.op = "exchange" /\ b.basket[i].amount = 0
  THEN HalfEven(Amount(b), Len(b.basket))
  ELSE b.basket[i].amount

LinesWritten(c, b) ==
  {[id |-> c, position |-> i, line |-> b.basket[i].line,
    quantity |-> b.basket[i].quantity, amount |-> LineAmount(b, i)] : i \in DOMAIN b.basket}

ReversalsWritten(c, ps) ==
  {[id |-> c, payment |-> p.id, method |-> p.method, amount |-> p.amount] : p \in ps}

InLedger(b) == {r \in rows : Scope(r.body) = Scope(b)}

(* The window and the state of the order, as the session loaded it.        *)
Eligible(b, s) ==
  /\ s.status = "settled"
  /\ b.op # "reverse_settlement" => s.settledAt >= now - ReturnWindow /\ b.basket # <<>>

BelongsToOrder(b, item) == item.line \in DOMAIN LineOf /\ LineOf[item.line].order = b.order

(* An exchange compares each line with what was bought, not with what was  *)
(* exchanged or refunded before.                                           *)
ExchangeLinesPass(b) ==
  \A i \in DOMAIN b.basket :
    /\ BelongsToOrder(b, b.basket[i])
    /\ b.basket[i].quantity \in 1 .. LineOf[b.basket[i].line].quantity

(* A refund compares each of its lines, taken alone, with all after-sales  *)
(* line rows committed for it, whatever their operation.                   *)
LineRowsOf(order, line) ==
  {l \in lineRows : l.line = line /\ \E r \in rows : r.id = l.id /\ r.body.order = order}

RefundLinesPass(b) ==
  \A i \in DOMAIN b.basket :
    LET item == b.basket[i]
        line == LineOf[item.line]
        before == LineRowsOf(b.order, item.line)
    IN /\ BelongsToOrder(b, item)
       /\ item.quantity > 0 /\ item.amount > 0
       /\ SumFunction([l \in before |-> l.quantity]) + item.quantity <= line.quantity
       /\ SumFunction([l \in before |-> l.amount]) + item.amount
            <= line.price * line.quantity - line.discount

RowsOf(order) == {r \in rows : r.body.order = order}

SettlementsOf(order) == {s \in settlements : s.order = order}
PaymentsOf(order) == UNION {s.payments : s \in SettlementsOf(order)}

(* Mutant of TotalPasses: the request's own total is left out.             *)
TotalPassed(b) ==
  SumFunction([r \in RowsOf(b.order) |-> r.amount]) <= FinalAmount[b.order]

(* And its total, with all after-sales amounts of the order, again of any  *)
(* operation.                                                              *)
TotalPasses(b) ==
  SumFunction([r \in RowsOf(b.order) |-> r.amount]) + Amount(b)
    <= FinalAmount[b.order]

-------------------------------------------------------------------------------
Init ==
  /\ status = [o \in Orders |-> "draft"]
  /\ settledAt = [o \in Orders |-> 0]
  /\ settlements = {}
  /\ rows = {} /\ lineRows = {} /\ reversals = {}
  /\ now = 0
  /\ pc = [c \in Calls |-> "idle"]
  /\ body = [c \in Calls |-> CHOOSE b \in Bodies : TRUE]
  /\ seen = [c \in Calls |-> [status |-> "draft", settledAt |-> 0]]
  /\ found = [c \in Calls |-> {}]
  /\ reply = [c \in Calls |-> None]
  /\ raced = [o \in Orders |-> FALSE]

Goto(c, where) == pc' = [pc EXCEPT ![c] = where]

(* _assert_order_financial_access loads the order into the session.        *)
Load(c, b) ==
  /\ pc[c] = "idle"
  /\ Goto(c, IF Access(b) THEN "loaded" ELSE "refused")
  /\ body' = [body EXCEPT ![c] = b]
  /\ seen' = [seen EXCEPT ![c] = [status |-> status[b.order], settledAt |-> settledAt[b.order]]]
  /\ UNCHANGED <<desk, booked, now, found, reply, raced>>

(* Mutants of Replay: the payload is not compared; the call goes on.       *)
ReplayAnything(c) ==
  /\ pc[c] = "loaded"
  /\ \E r \in InLedger(body[c]) : reply' = [reply EXCEPT ![c] = r.id]
  /\ Goto(c, "done")
  /\ UNCHANGED <<desk, booked, now, body, seen, found, raced>>

ReplayGoesOn(c) ==
  /\ pc[c] = "loaded"
  /\ \E r \in InLedger(body[c]) : reply' = [reply EXCEPT ![c] = r.id]
  /\ Goto(c, "inserting")
  /\ UNCHANGED <<desk, booked, now, body, seen, found, raced>>

(* The lookup finds a committed row: it is the answer if the payload is    *)
(* the same, whatever has become of the order since.                       *)
Replay(c) ==
  /\ pc[c] = "loaded"
  /\ \E r \in InLedger(body[c]) :
       /\ Fingerprint(r.body) = Fingerprint(body[c])
       /\ reply' = [reply EXCEPT ![c] = r.id]
  /\ Goto(c, "done")
  /\ UNCHANGED <<desk, booked, now, body, seen, found, raced>>

Passes(b, s) == Eligible(b, s) /\ (b.op = "exchange" => ExchangeLinesPass(b))

Refuse(c) ==
  /\ pc[c] = "loaded"
  /\ \/ \E r \in InLedger(body[c]) : Fingerprint(r.body) # Fingerprint(body[c])
     \/ InLedger(body[c]) = {} /\ ~Passes(body[c], seen[c])
  /\ Goto(c, "refused")
  /\ UNCHANGED <<desk, booked, now, body, seen, found, reply, raced>>

Refunding(o) ==
  {c \in Calls : /\ body[c].op = "refund" /\ body[c].order = o
                 /\ pc[c] \in {"checking", "totalling", "inserting", "inserted"}}

Pass(c) ==
  LET b == body[c]
  IN /\ pc[c] = "loaded"
     /\ InLedger(b) = {} /\ Passes(b, seen[c])
     /\ Goto(c, IF b.op = "refund" THEN "checking" ELSE "inserting")
     /\ raced' = [raced EXCEPT ![b.order] =
                    @ \/ (b.op = "refund" /\ Refunding(b.order) # {})]
     /\ UNCHANGED <<desk, booked, now, body, seen, found, reply>>

CheckLines(c) ==
  /\ pc[c] = "checking"
  /\ Goto(c, IF RefundLinesPass(body[c]) THEN "totalling" ELSE "refused")
  /\ UNCHANGED <<desk, booked, now, body, seen, found, reply, raced>>

CheckTotal(c) ==
  /\ pc[c] = "totalling"
  /\ Goto(c, IF TotalPasses(body[c]) THEN "inserting" ELSE "refused")
  /\ UNCHANGED <<desk, booked, now, body, seen, found, reply, raced>>

(* The flush of the header.  An uncommitted row of the same scope makes it *)
(* wait; a committed one breaks the unique constraint, and the call fails. *)
(* Mutant of Insert: the table has no unique constraint.                   *)
InsertAnyway(c) ==
  /\ pc[c] = "inserting"
  /\ Goto(c, "inserted")
  /\ UNCHANGED <<desk, booked, now, body, seen, found, reply, raced>>

HoldsScope(d) == pc[d] \in {"inserted", "reversing"}

Insert(c) ==
  /\ pc[c] = "inserting"
  /\ \A d \in Calls \ {c} : ~(HoldsScope(d) /\ Scope(body[d]) = Scope(body[c]))
  /\ Goto(c, IF InLedger(body[c]) = {} THEN "inserted" ELSE "failed")
  /\ UNCHANGED <<desk, booked, now, body, seen, found, reply, raced>>

(* Mutant of ReadPayments: one payment is read, as if there were one only. *)
ReadOnePayment(c) ==
  /\ pc[c] = "inserted" /\ body[c].op = "reverse_settlement"
  /\ \E p \in PaymentsOf(body[c].order) : found' = [found EXCEPT ![c] = {p}]
  /\ Goto(c, "reversing")
  /\ UNCHANGED <<desk, booked, now, body, seen, reply, raced>>

ReadPayments(c) ==
  /\ pc[c] = "inserted" /\ body[c].op = "reverse_settlement"
  /\ found' = [found EXCEPT ![c] = PaymentsOf(body[c].order)]
  /\ Goto(c, "reversing")
  /\ UNCHANGED <<desk, booked, now, body, seen, reply, raced>>

Commit(c) ==
  LET b == body[c]
  IN /\ pc[c] = IF b.op = "reverse_settlement" THEN "reversing" ELSE "inserted"
     /\ rows' = rows \cup {[id |-> c, body |-> b, amount |-> Amount(b)]}
     /\ lineRows' = lineRows \cup
          (IF b.op = "reverse_settlement" THEN {} ELSE LinesWritten(c, b))
     /\ reversals' = reversals \cup ReversalsWritten(c, found[c])
     /\ reply' = [reply EXCEPT ![c] = c]
     /\ Goto(c, "done")
     /\ UNCHANGED <<desk, now, body, seen, found, raced>>

(* A database error or a crash before the commit is answered: rollback.    *)
Fail(c) ==
  /\ "call" \in Faults
  /\ pc[c] \notin {"idle", "done", "refused", "failed"}
  /\ Goto(c, "failed")
  /\ UNCHANGED <<desk, booked, now, body, seen, found, reply, raced>>

(* The order desk, as far as this component can tell (see Orders).  A      *)
(* settlement tests the copy of the order that it has loaded, and all that *)
(* load it as a draft may commit, at any time: over another settlement or  *)
(* over a void.                                                            *)
Settle(s) ==
  /\ s \notin settlements
  /\ status[s.order] = "draft" \/ "overlap" \in Faults
  /\ status' = [status EXCEPT ![s.order] = "settled"]
  /\ settledAt' = [settledAt EXCEPT ![s.order] = now]
  /\ settlements' = settlements \cup {s}
  /\ UNCHANGED <<booked, now, pc, body, seen, found, reply, raced>>

(* The auto-void, which too may have loaded a draft that is settled since. *)
Void(o) ==
  /\ "void" \in Faults /\ status[o] \in {"draft", "settled"}
  /\ status' = [status EXCEPT ![o] = "void"]
  /\ UNCHANGED <<settledAt, settlements, booked, now, pc, body, seen, found, reply, raced>>

Tick ==
  /\ now < MaxTime /\ now' = now + 1
  /\ UNCHANGED <<desk, booked, pc, body, seen, found, reply, raced>>

Next ==
  \/ \E c \in Calls, b \in Bodies : Load(c, b)
  \/ \E c \in Calls :
       \/ Replay(c) \/ Refuse(c) \/ Pass(c) \/ CheckLines(c) \/ CheckTotal(c)
       \/ Insert(c) \/ ReadPayments(c) \/ Commit(c) \/ Fail(c)
  \/ \E s \in Settlements : Settle(s)
  \/ \E o \in Orders : Void(o)
  \/ Tick

Spec == Init /\ [][Next]_vars

-------------------------------------------------------------------------------
(* Every variable has its shape, and only done calls have an answer.       *)
TypeOK ==
  /\ status \in [Orders -> {"draft", "settled", "void"}]
  /\ settledAt \in [Orders -> Nat] /\ now \in Nat
  /\ pc \in [Calls -> {"idle", "loaded", "checking", "totalling", "inserting", "inserted",
                       "reversing", "done", "refused", "failed"}]
  /\ body \in [Calls -> Bodies]
  /\ seen \in [Calls -> [status : {"draft", "settled", "void"}, settledAt : Nat]]
  /\ raced \in [Orders -> BOOLEAN]
  /\ reply \in [Calls -> Calls \cup {None}]
  /\ \A c \in Calls : reply[c] # None <=> pc[c] = "done"
  /\ \A r \in rows : r.id \in Calls /\ r.body \in Bodies /\ r.amount \in Int

(* Two calls in one idempotency scope that both got an answer were sent    *)
(* the same payload and got the same row, however they overlapped, failed  *)
(* or were repeated; and that row is the only one of its scope.            *)
AnswersAgree ==
  /\ \A r, q \in rows : Scope(r.body) = Scope(q.body) => r = q
  /\ \A c, d \in Calls :
       pc[c] = "done" /\ pc[d] = "done" /\ Scope(body[c]) = Scope(body[d])
         => /\ reply[c] = reply[d]
            /\ Fingerprint(body[c]) = Fingerprint(body[d])

(* An after-sales row never stands alone: a refund comes with the lines    *)
(* that add up to it, an exchange with one row per line, and a reverse     *)
(* settlement with the reversals of one or more whole settlements of the   *)
(* order, those of each adding up to it.  Of an order that was settled     *)
(* once this is one reversal for each payment; of one that overlapping     *)
(* settlements charged twice the reversals may be twice the row.           *)
ReversesWhole(r, s, backs) ==
  LET given == {v \in backs : \E p \in s.payments : p.id = v.payment}
  IN /\ {v.payment : v \in given} = {p.id : p \in s.payments}
     /\ SumFunction([v \in given |-> v.amount]) = r.amount

BooksBalance ==
  /\ \A l \in lineRows : \E r \in rows : r.id = l.id
  /\ \A v \in reversals : \E r \in rows : r.id = v.id /\ r.body.op = "reverse_settlement"
  /\ \A r \in rows :
       LET lines == {l \in lineRows : l.id = r.id}
           backs == {v \in reversals : v.id = r.id}
       IN CASE r.body.op = "refund" ->
                 SumFunction([l \in lines |-> l.amount]) = r.amount
            [] r.body.op = "exchange" -> Cardinality(lines) = Len(r.body.basket)
            [] r.body.op = "reverse_settlement" ->
                 \E whole \in SUBSET SettlementsOf(r.body.order) :
                   /\ whole # {}
                   /\ \A s \in whole : ReversesWhole(r, s, backs)
                   /\ \A v \in backs : \E s \in whole : \E p \in s.payments : p.id = v.payment

RefundRows(o) == {r \in rows : r.body.op = "refund" /\ r.body.order = o}

Priced(o) == \A l \in DOMAIN LineOf : LineOf[l].order = o => LineOf[l].price >= 0
Back(o, line) == {l \in lineRows : l.line = line /\ \E r \in RefundRows(o) : r.id = l.id}

(* Unless two refunds of an order overlapped, what is refunded stays       *)
(* within what the order cost, if no price of its lines is negative, and,  *)
(* when no refund names a line twice, what comes back of a line within     *)
(* what was bought of it, whatever exchanges lie in between.               *)
RefundsCappedUnlessRaced ==
  \A o \in Orders : ~raced[o] =>
    /\ Priced(o) => SumFunction([r \in RefundRows(o) |-> r.amount]) <= FinalAmount[o]
    /\ \A line \in DOMAIN LineOf :
         (\A l, m \in Back(o, line) : l.id = m.id => l = m)
           => SumFunction([l \in Back(o, line) |-> l.quantity]) <= LineOf[line].quantity

(* docs/questions.md:49: "ensures the total refunded via any single method *)
(* does not exceed the amount originally paid through that method".        *)
ReversedWithinPayment ==
  \A s \in settlements : \A p \in s.payments :
    SumFunction([v \in {w \in reversals : w.payment = p.id} |-> v.amount]) <= p.amount

(* docs/design.md:148-149: the order and its lines are locked, and refunds *)
(* validated so as not to exceed the original.                             *)
RefundsCapped ==
  \A o \in Orders : SumFunction([r \in RefundRows(o) |-> r.amount]) <= FinalAmount[o]

(* The after-sales tables are a write-once ledger of the idempotency       *)
(* scopes: no step of the code rewrites an entry or answers with another.  *)
Asked(c) == IF pc[c] = "idle" THEN None ELSE Question(body[c])

Entry(r) == [scope |-> Scope(r.body), fingerprint |-> Fingerprint(r.body), id |-> r.id]

Ledger == INSTANCE OnceLedger WITH
  Questions <- Questions,
  Nothing <- None,
  asked <- [c \in Calls |-> Asked(c)],
  ledger <- {Entry(r) : r \in rows},
  answers <- reply

LedgerSpec == Ledger!Spec
===============================================================================
