-------------------------------- MODULE Orders --------------------------------
(***************************************************************************)
(* The life of an order in the cash desk: checkout, settlement by split    *)
(* payment, automatic voiding and receipt printing, as they run against    *)
(* PostgreSQL at READ COMMITTED, one SQLAlchemy session per request.       *)
(*                                                                         *)
(* Every request handler is a thread, so its steps interleave with those   *)
(* of the other requests and of the maintenance loop.  What a session      *)
(* reads it keeps; what it flushes is seen by nobody before the commit;    *)
(* an UPDATE names its row by id alone, so it waits for the row's lock and *)
(* then overwrites whatever is there.                                      *)
(***************************************************************************)
EXTENDS Integers, Sequences, SequencesExt, FiniteSetsExt

CONSTANTS
  Orders,            \* ids an order can have; a flush updates rows in id order
  Requests,          \* HTTP calls; each is made once
  Loop,              \* the maintenance loop
  Users, Admins,     \* callers, and those with the OP_ADMIN role
  CallerOf,          \* the authenticated user of each request
  FinalAmount,       \* what the cart of each order comes to, in cents
  Methods,           \* PaymentMethod
  Tenders,           \* the payment lists a settlement may carry
  AutoVoidMinutes,   \* settings.order_auto_void_minutes
  Faults,            \* what may go wrong: "request", "loop", "restart"
  MaxTime,           \* bound of the clock
  MaxRestarts        \* bound on process restarts

Jobs == Requests \cup {Loop}

ASSUME OrderIds ==
  Orders \subseteq Nat /\ \E last \in Orders \cup {0} : \A o \in Orders : o <= last
ASSUME LoopIsNoRequest == Loop \notin Requests
ASSUME CallerAssumption == CallerOf \in [Requests -> Users] /\ Users # {}
ASSUME AmountAssumption == FinalAmount \in [Orders -> Nat]
Parts == [method : STRING, amount : Int]
ASSUME TenderAssumption == Tenders \subseteq Seq(Parts)
ASSUME BoundAssumption ==
  AutoVoidMinutes \in Nat /\ MaxTime \in Nat /\ MaxRestarts \in Nat

VARIABLES
  \* the database, as committed
  status,      \* orders.status, "absent" before the order exists
  owner,       \* orders.created_by_user_id
  createdAt,   \* orders.created_at
  settledAt,   \* orders.settled_at; -1 for NULL
  payments,    \* payment_records, each with the request and position it came from
  audit,       \* audit_logs
  \* outside the database
  now,         \* the clock, in the unit of AutoVoidMinutes
  paper,       \* the receipts that left the printer
  restarts,    \* how often the process was restarted
  \* one session per job
  pc,          \* where the job is
  target,      \* the orders it has loaded to work on
  held,        \* the rows it has updated, and so locked, without a commit
  tender,      \* the payments it is to record
  startedAt,   \* the time it took for settled_at
  \* history
  raced        \* orders loaded by a job while another was about to change them

db == <<status, owner, createdAt, settledAt, payments, audit>>
vars == <<db, now, paper, restarts, pc, target, held, tender, startedAt, raced>>

-------------------------------------------------------------------------------
(* What a tender comes to, and the payment_records rows it turns into.     *)
Paid(t) == FoldLeft(LAMBDA sum, part : sum + part.amount, 0, t)

PaymentRows(r, o, t) ==
  {[order |-> o, request |-> r, part |-> i,
    method |-> t[i].method, amount |-> t[i].amount] : i \in DOMAIN t}

Log(what, o, r) == [what |-> what, order |-> o, request |-> r]

InFlight == {"loaded", "flushed", "scanned", "compacting", "printing", "printed"}
Changes(j) == IF pc[j] \in {"loaded", "flushed", "scanned"} THEN target[j] ELSE {}
Contested(o) == raced[o] \/ \E j \in Jobs : o \in Changes(j)
Free(j, o) == \A k \in Jobs \ {j} : o \notin held[k]

(* Mutants of Expired: a limit one unit short; a test for the one instant. *)
ExpiredEarly(o) == createdAt[o] <= now - AutoVoidMinutes
ExpiredOnce(o) == createdAt[o] = now - AutoVoidMinutes - 1

Expired(o) == createdAt[o] < now - AutoVoidMinutes

Init ==
  /\ status = [o \in Orders |-> "absent"]
  /\ owner = [o \in Orders |-> CHOOSE u \in Users : TRUE]
  /\ createdAt = [o \in Orders |-> 0]
  /\ settledAt = [o \in Orders |-> -1]
  /\ payments = {} /\ audit = {} /\ paper = {}
  /\ now = 0 /\ restarts = 0
  /\ pc = [j \in Jobs |-> IF j = Loop THEN "asleep" ELSE "idle"]
  /\ target = [j \in Jobs |-> {}]
  /\ held = [j \in Jobs |-> {}]
  /\ tender = [j \in Jobs |-> <<>>]
  /\ startedAt = [j \in Jobs |-> 0]
  /\ raced = [o \in Orders |-> FALSE]

-------------------------------------------------------------------------------
(* POST /orders/checkout inserts rows nobody else can see and commits.     *)
(* The model lets no order be created so late that it outlives MaxTime.    *)
Checkout(r, o) ==
  /\ pc[r] = "idle" /\ status[o] = "absent"
  /\ now + AutoVoidMinutes < MaxTime
  /\ status' = [status EXCEPT ![o] = "draft"]
  /\ owner' = [owner EXCEPT ![o] = CallerOf[r]]
  /\ createdAt' = [createdAt EXCEPT ![o] = now]
  /\ audit' = audit \cup {Log("checkout_created", o, r)}
  /\ pc' = [pc EXCEPT ![r] = "done"]
  /\ UNCHANGED <<settledAt, payments, now, paper, restarts, target, held,
                 tender, startedAt, raced>>

-------------------------------------------------------------------------------
(* POST /orders/{id}/settle.  The order is loaded once, by the access      *)
(* check, and every later test reads that copy.                            *)
(* Mutants of Settleable: the sum is not compared; a settled order passes. *)
SettleableUnpaid(r, o, t) ==
  status[o] = "draft" /\ CallerOf[r] = owner[o] /\ \A i \in DOMAIN t : t[i].method \in Methods
SettleableAgain(r, o, t) ==
  status[o] \in {"draft", "settled"} /\ CallerOf[r] = owner[o] /\ Paid(t) = FinalAmount[o]

Settleable(r, o, t) ==
  /\ status[o] = "draft"
  /\ CallerOf[r] = owner[o] \/ CallerOf[r] \in Admins
  /\ Paid(t) = FinalAmount[o]
  /\ \A i \in DOMAIN t : t[i].method \in Methods

SettleLoad(r, o, t) ==
  /\ pc[r] = "idle" /\ Settleable(r, o, t)
  /\ pc' = [pc EXCEPT ![r] = "loaded"]
  /\ target' = [target EXCEPT ![r] = {o}]
  /\ tender' = [tender EXCEPT ![r] = t]
  /\ startedAt' = [startedAt EXCEPT ![r] = now]
  /\ raced' = [raced EXCEPT ![o] = Contested(o)]
  /\ UNCHANGED <<db, now, paper, restarts, held>>

SettleRefuse(r, o, t) ==
  /\ pc[r] = "idle" /\ ~Settleable(r, o, t)
  /\ pc' = [pc EXCEPT ![r] = "refused"]
  /\ UNCHANGED <<db, now, paper, restarts, target, held, tender, startedAt, raced>>

(* The flush updates the order's row, then inserts the payments, whose     *)
(* amounts the table's CHECK constraint wants non-negative.                *)
NonNegative(t) == \A i \in DOMAIN t : t[i].amount >= 0

SettleFlush(r) ==
  /\ pc[r] = "loaded"
  /\ \A o \in target[r] : Free(r, o)
  /\ NonNegative(tender[r])
  /\ held' = [held EXCEPT ![r] = target[r]]
  /\ pc' = [pc EXCEPT ![r] = "flushed"]
  /\ UNCHANGED <<db, now, paper, restarts, target, tender, startedAt, raced>>

SettleReject(r) ==
  /\ pc[r] = "loaded"
  /\ \A o \in target[r] : Free(r, o)
  /\ ~NonNegative(tender[r])
  /\ pc' = [pc EXCEPT ![r] = "failed"]
  /\ UNCHANGED <<db, now, paper, restarts, target, held, tender, startedAt, raced>>

SettleCommit(r) ==
  /\ pc[r] = "flushed"
  /\ status' = [o \in Orders |-> IF o \in held[r] THEN "settled" ELSE status[o]]
  /\ settledAt' = [o \in Orders |-> IF o \in held[r] THEN startedAt[r] ELSE settledAt[o]]
  /\ payments' = payments \cup UNION {PaymentRows(r, o, tender[r]) : o \in held[r]}
  /\ audit' = audit \cup {Log("order_settled", o, r) : o \in held[r]}
  /\ held' = [held EXCEPT ![r] = {}]
  /\ pc' = [pc EXCEPT ![r] = "done"]
  /\ UNCHANGED <<owner, createdAt, now, paper, restarts, target, tender, startedAt, raced>>

-------------------------------------------------------------------------------
(* auto_void_unsettled_orders, from POST /orders/auto-void or from the     *)
(* loop.  The commit flushes one UPDATE per loaded order, in id order.     *)

(* Mutant of VoidScan: the query does not ask for drafts.                  *)
VoidScanAll(j) ==
  LET found == {o \in Orders : status[o] # "absent" /\ Expired(o)}
  IN /\ pc[j] = IF j = Loop THEN "asleep" ELSE "idle"
     /\ pc' = [pc EXCEPT ![j] = "scanned"]
     /\ target' = [target EXCEPT ![j] = found]
     /\ raced' = [o \in Orders |-> IF o \in found THEN Contested(o) ELSE raced[o]]
     /\ UNCHANGED <<db, now, paper, restarts, held, tender, startedAt>>

VoidScan(j) ==
  LET found == {o \in Orders : status[o] = "draft" /\ Expired(o)}
  IN /\ pc[j] = IF j = Loop THEN "asleep" ELSE "idle"
     /\ pc' = [pc EXCEPT ![j] = "scanned"]
     /\ target' = [target EXCEPT ![j] = found]
     /\ raced' = [o \in Orders |-> IF o \in found THEN Contested(o) ELSE raced[o]]
     /\ UNCHANGED <<db, now, paper, restarts, held, tender, startedAt>>

(* Mutant of NextRow: rows are updated in any order.                       *)
AnyRow(j, o) == o \in target[j] \ held[j]

NextRow(j, o) == o \in target[j] \ held[j] /\ \A p \in target[j] \ held[j] : o <= p

VoidUpdate(j, o) ==
  /\ pc[j] = "scanned"
  /\ NextRow(j, o) /\ Free(j, o)
  /\ held' = [held EXCEPT ![j] = @ \cup {o}]
  /\ UNCHANGED <<db, now, paper, restarts, pc, target, tender, startedAt, raced>>

(* Mutant of VoidCommit: the name the design gives the status.             *)
VoidCommitVoided(j) ==
  /\ pc[j] = "scanned" /\ target[j] \subseteq held[j]
  /\ status' = [o \in Orders |-> IF o \in held[j] THEN "voided" ELSE status[o]]
  /\ held' = [held EXCEPT ![j] = {}]
  /\ pc' = [pc EXCEPT ![j] = IF j = Loop THEN "compacting" ELSE "done"]
  /\ UNCHANGED <<owner, createdAt, settledAt, payments, audit, now, paper, restarts,
                 target, tender, startedAt, raced>>

VoidCommit(j) ==
  /\ pc[j] = "scanned" /\ target[j] \subseteq held[j]
  /\ status' = [o \in Orders |-> IF o \in held[j] THEN "void" ELSE status[o]]
  /\ held' = [held EXCEPT ![j] = {}]
  /\ pc' = [pc EXCEPT ![j] = IF j = Loop THEN "compacting" ELSE "done"]
  /\ UNCHANGED <<owner, createdAt, settledAt, payments, audit, now, paper, restarts,
                 target, tender, startedAt, raced>>

(* The rest of the loop's body, compact_feature_values and the sleep.      *)
LoopSleeps ==
  /\ pc[Loop] = "compacting"
  /\ pc' = [pc EXCEPT ![Loop] = "asleep"]
  /\ UNCHANGED <<db, now, paper, restarts, target, held, tender, startedAt, raced>>

-------------------------------------------------------------------------------
(* POST /orders/{id}/receipt/print emits the receipt and then logs it.     *)
(* Mutant of PrintLoad: any order is printed.                              *)
PrintLoadAny(r, o) ==
  /\ pc[r] = "idle"
  /\ pc' = [pc EXCEPT ![r] = "printing"]
  /\ target' = [target EXCEPT ![r] = {o}]
  /\ UNCHANGED <<db, now, paper, restarts, held, tender, startedAt, raced>>

PrintLoad(r, o) ==
  /\ pc[r] = "idle"
  /\ pc' = [pc EXCEPT ![r] = IF status[o] = "settled" THEN "printing" ELSE "refused"]
  /\ target' = [target EXCEPT ![r] = {o}]
  /\ UNCHANGED <<db, now, paper, restarts, held, tender, startedAt, raced>>

PrintEmit(r) ==
  /\ pc[r] = "printing"
  /\ paper' = paper \cup {[order |-> o, request |-> r] : o \in target[r]}
  /\ pc' = [pc EXCEPT ![r] = "printed"]
  /\ UNCHANGED <<db, now, restarts, target, held, tender, startedAt, raced>>

PrintCommit(r) ==
  /\ pc[r] = "printed"
  /\ audit' = audit \cup {Log("receipt_printed", o, r) : o \in target[r]}
  /\ pc' = [pc EXCEPT ![r] = "done"]
  /\ UNCHANGED <<status, owner, createdAt, settledAt, payments, now, paper, restarts,
                 target, held, tender, startedAt, raced>>

-------------------------------------------------------------------------------
(* A database or printer error: the session rolls back.  A request answers *)
(* 500; the maintenance loop has no handler, so its task ends.             *)
Fail(j) ==
  /\ pc[j] \in InFlight
  /\ IF j = Loop THEN "loop" \in Faults ELSE "request" \in Faults
  /\ pc' = [pc EXCEPT ![j] = IF j = Loop THEN "dead" ELSE "failed"]
  /\ held' = [held EXCEPT ![j] = {}]
  /\ UNCHANGED <<db, now, paper, restarts, target, tender, startedAt, raced>>

(* The process dies with its sessions; the new one starts a new loop.      *)
Restart ==
  /\ "restart" \in Faults /\ restarts < MaxRestarts
  /\ restarts' = restarts + 1
  /\ pc' = [j \in Jobs |-> IF j = Loop THEN "asleep"
                           ELSE IF pc[j] \in InFlight THEN "failed" ELSE pc[j]]
  /\ held' = [j \in Jobs |-> {}]
  /\ UNCHANGED <<db, now, paper, target, tender, startedAt, raced>>

Tick ==
  /\ now < MaxTime
  /\ now' = now + 1
  /\ UNCHANGED <<db, paper, restarts, pc, target, held, tender, startedAt, raced>>

Next ==
  \/ \E r \in Requests, o \in Orders : Checkout(r, o) \/ PrintLoad(r, o)
  \/ \E r \in Requests, o \in Orders, t \in Tenders :
       SettleLoad(r, o, t) \/ SettleRefuse(r, o, t)
  \/ \E r \in Requests :
       \/ SettleFlush(r) \/ SettleReject(r) \/ SettleCommit(r)
       \/ PrintEmit(r) \/ PrintCommit(r)
  \/ \E j \in Jobs : VoidScan(j) \/ VoidCommit(j) \/ Fail(j)
  \/ \E j \in Jobs, o \in Orders : VoidUpdate(j, o)
  \/ LoopSleeps \/ Restart \/ Tick

Spec == Init /\ [][Next]_vars

(* The clock advances, threads that are running keep running, and the loop *)
(* is woken by its timer.  Nobody has to send a request.                   *)
Progress(j) ==
  \/ VoidCommit(j) \/ \E o \in Orders : VoidUpdate(j, o)
  \/ j = Loop /\ (LoopSleeps \/ VoidScan(j))
  \/ j # Loop /\ (SettleFlush(j) \/ SettleReject(j) \/ SettleCommit(j)
                  \/ PrintEmit(j) \/ PrintCommit(j))

FairSpec == Spec /\ WF_vars(Tick) /\ \A j \in Jobs : WF_vars(Progress(j))
-------------------------------------------------------------------------------
Statuses == {"absent", "draft", "settled", "void"}

(* Every variable has the shape the schema and the sessions give it; rows  *)
(* are locked only by sessions in flight, and only rows they loaded.       *)
TypeOK ==
  /\ status \in [Orders -> Statuses]
  /\ owner \in [Orders -> Users]
  /\ createdAt \in [Orders -> Nat]
  /\ settledAt \in [Orders -> Int]
  /\ payments \subseteq [order : Orders, request : Requests, part : Nat,
                         method : STRING, amount : Int]
  /\ audit \subseteq [what : {"checkout_created", "order_settled", "receipt_printed"},
                      order : Orders, request : Requests]
  /\ paper \subseteq [order : Orders, request : Requests]
  /\ now \in Nat /\ restarts \in Nat
  /\ pc \in [Jobs -> InFlight \cup {"idle", "asleep", "done", "refused", "failed", "dead"}]
  /\ target \in [Jobs -> SUBSET Orders]
  /\ held \in [Jobs -> SUBSET Orders]
  /\ tender \in [Jobs -> Seq(Parts)]
  /\ startedAt \in [Jobs -> Nat]
  /\ raced \in [Orders -> BOOLEAN]

Settlements(o) == {r \in Requests : Log("order_settled", o, r) \in audit}
RowsOf(r) == {p \in payments : p.request = r}

SettlementOf(r) ==
  \/ RowsOf(r) = {} /\ \A o \in Orders : r \notin Settlements(o)
  \/ \E o \in Orders :
       /\ r \in Settlements(o) /\ \A p \in Orders \ {o} : r \notin Settlements(p)
       /\ RowsOf(r) = PaymentRows(r, o, tender[r])
       /\ Paid(tender[r]) = FinalAmount[o]
       /\ NonNegative(tender[r])

(* settle_order and its handler are one transaction: whatever fails, a     *)
(* request leaves either the audit row and its whole tender, which pays    *)
(* exactly the order's final amount with no negative part, or nothing.     *)
SettlementAllOrNothing == \A r \in Requests : SettlementOf(r)

(* An order no two jobs were changing at once is settled by exactly one    *)
(* request or by none, and then its status says which; draft and void      *)
(* orders are never paid.                                                  *)
SettledOnceUnlessRaced ==
  \A o \in Orders : ~raced[o] =>
    /\ \A r, s \in Settlements(o) : r = s
    /\ status[o] = "settled" <=> Settlements(o) # {}
    /\ status[o] # "settled" => \A p \in payments : p.order # o

(* Auto-voiding spares every order younger than the limit, even one that   *)
(* another job of the process was settling.                                *)
VoidOnlyAfterLimit ==
  \A o \in Orders : status[o] = "void" => now - createdAt[o] > AutoVoidMinutes

(* A closed order never reopens, and only overlapping jobs can turn a      *)
(* settled order into a void one or a void one into a settled one.         *)
OutcomeFlipsOnlyRaced ==
  [][\A o \in Orders :
       status[o] \in {"settled", "void"} /\ status'[o] # status[o] =>
         raced[o] /\ status'[o] \in {"settled", "void"}]_vars

WaitsFor(j, k) ==
  /\ j # k
  /\ \/ pc[j] = "loaded" /\ target[j] \cap held[k] # {}
     \/ pc[j] = "scanned" /\ \E o \in held[k] : NextRow(j, o)

(* Auto-void transactions lock many rows, settlements one each; whatever   *)
(* the overlap, no set of sessions waits in a circle, so PostgreSQL never  *)
(* has to kill one.                                                        *)
NoLockCycle ==
  \A circle \in (SUBSET Jobs) \ {{}} : \E j \in circle : \A k \in circle : ~WaitsFor(j, k)

(* A printed receipt is of an order some request settled and paid for, and *)
(* unless the order was raced it is settled to this day; the log speaks of *)
(* no receipt that was not printed.                                        *)
ReceiptsAreOfSales ==
  /\ \A x \in paper : /\ Settlements(x.order) # {}
                      /\ ~raced[x.order] => status[x.order] = "settled"
  /\ \A a \in audit : a.what = "receipt_printed" =>
       [order |-> a.order, request |-> a.request] \in paper

(* docs/design.md:138-147: settlement locks the order's row before it      *)
(* checks it, so an order is charged once: its payments add up to the      *)
(* final amount when it is settled and to nothing otherwise.               *)
ChargedExactly ==
  \A o \in Orders :
    MapThenSumSet(LAMBDA p : p.amount, {p \in payments : p.order = o})
      = IF status[o] = "settled" THEN FinalAmount[o] ELSE 0

(* meta-data.json and docs/design.md:195: a draft order nobody settles is  *)
(* voided by the job that runs every minute; no draft stays open forever.  *)
DraftCloses ==
  \A o \in Orders : status[o] = "draft" ~> status[o] \in {"settled", "void"}
===============================================================================
