------------------------------- MODULE Metrics -------------------------------
(***************************************************************************)
(* The daily metrics: one row per day, computed from the orders created on *)
(* that day and the after-sales orders created on it.  An aggregation      *)
(* counts each with a statement of its own, while orders settle and        *)
(* disputes arrive, and other aggregations of the day run.                 *)
(***************************************************************************)
EXTENDS Integers, FiniteSets, UnitOfWork

CONSTANTS
  Aggregations,         \* calls of the endpoint; each is made once
  Sales,                \* orders
  Days,                 \* 1..n
  MaxDisputes,          \* bound of the after-sales orders of a day
  RateUnit              \* a rate of 1; a multiple of every number of orders, so that rates are exact

ASSUME MetricsAssumption == 1 \in Days /\ MaxDisputes \in Nat /\ RateUnit \in Nat \ {0}

VARIABLES
  today,
  saleDay,              \* orders.created_at, 0 before
  saleStatus,
  disputes,             \* number of after-sales orders created on each day
  metric,               \* daily_operation_metrics by day: [by, volume, conversion, rate]
  aggPc, aggDay,
  counted,              \* [total, disputes] of an aggregation
  found,                \* the row it has read
  \* history
  everSettled,          \* orders that have been settled at some time
  overlapped            \* days two of whose aggregations have overlapped

salesTables == <<today, saleDay, saleStatus, disputes, everSettled>>
aggregation == <<aggPc, aggDay, counted, found>>
metricsVars == <<salesTables, metric, aggregation, overlapped>>

-------------------------------------------------------------------------------
NoMetric == [by |-> "none"]
NoCount == [total |-> 0, disputes |-> 0]
Underway(a, d) == aggPc[a] \in {"orders", "disputes", "found"} /\ aggDay[a] = d

MetricsInit ==
  /\ today = 1 /\ disputes = [d \in Days |-> 0]
  /\ saleDay = [o \in Sales |-> 0] /\ saleStatus = [o \in Sales |-> "none"]
  /\ metric = [d \in Days |-> NoMetric]
  /\ aggPc = [a \in Aggregations |-> "idle"] /\ aggDay = [a \in Aggregations |-> 0]
  /\ counted = [a \in Aggregations |-> NoCount] /\ found = [a \in Aggregations |-> NoMetric]
  /\ everSettled = {} /\ overlapped = {}

-------------------------------------------------------------------------------
(* What the order desk and after-sales do to the tables that are counted.  *)
SaleCreated(o) ==
  /\ saleStatus[o] = "none"
  /\ saleStatus' = [saleStatus EXCEPT ![o] = "draft"]
  /\ saleDay' = [saleDay EXCEPT ![o] = today]
  /\ UNCHANGED <<today, disputes, metric, aggregation, everSettled, overlapped>>

(* A settlement and an auto-void that overlap may both commit.             *)
SaleCloses(o, s) ==
  /\ s \in {"settled", "voided"} /\ saleStatus[o] \notin {"none", s}
  /\ saleStatus' = [saleStatus EXCEPT ![o] = s]
  /\ everSettled' = IF s = "settled" THEN everSettled \cup {o} ELSE everSettled
  /\ UNCHANGED <<today, saleDay, disputes, metric, aggregation, overlapped>>

Dispute ==
  /\ disputes[today] < MaxDisputes
  /\ disputes' = [disputes EXCEPT ![today] = @ + 1]
  /\ UNCHANGED <<today, saleDay, saleStatus, metric, aggregation, everSettled, overlapped>>

NextDay ==
  /\ today + 1 \in Days
  /\ today' = today + 1
  /\ UNCHANGED <<saleDay, saleStatus, disputes, metric, aggregation, everSettled, overlapped>>

-------------------------------------------------------------------------------
(* aggregate_daily_metrics, of any day.                                    *)
(* Mutant of SettledOn: the orders of the days before count too.           *)
SettledUntil(d) == {o \in Sales : saleStatus[o] = "settled" /\ saleDay[o] <= d}

SettledOn(d) == {o \in Sales : saleStatus[o] = "settled" /\ saleDay[o] = d}

CountOrders(a, d) ==
  /\ aggPc[a] = "idle"
  /\ aggPc' = [aggPc EXCEPT ![a] = "orders"]
  /\ aggDay' = [aggDay EXCEPT ![a] = d]
  /\ counted' = [counted EXCEPT ![a].total = Cardinality(SettledOn(d))]
  /\ overlapped' = IF \E b \in Aggregations : Underway(b, d) THEN overlapped \cup {d} ELSE overlapped
  /\ UNCHANGED <<salesTables, metric, found>>

CountDisputes(a) ==
  /\ aggPc[a] = "orders"
  /\ aggPc' = [aggPc EXCEPT ![a] = "disputes"]
  /\ counted' = [counted EXCEPT ![a].disputes = disputes[aggDay[a]]]
  /\ UNCHANGED <<salesTables, metric, aggDay, found, overlapped>>

FindMetric(a) ==
  /\ aggPc[a] = "disputes"
  /\ aggPc' = [aggPc EXCEPT ![a] = "found"]
  /\ found' = [found EXCEPT ![a] = metric[aggDay[a]]]
  /\ UNCHANGED <<salesTables, metric, aggDay, counted, overlapped>>

(* conversion_rate is 1 or 0.  A dispute counts on its own day, so that    *)
(* dispute_rate may exceed 1.                                              *)
Computed(a) ==
  LET total == counted[a].total
  IN [by |-> a, volume |-> total, conversion |-> total > 0,
      rate |-> (RateUnit * counted[a].disputes) \div (IF total = 0 THEN 1 ELSE total)]

(* A new row, unless another aggregation was first (uq_daily_metric_date); *)
(* or the columns of the row that differ from what was read.               *)
Ends(a, outcome) ==
  /\ aggPc[a] = "found"
  /\ aggPc' = [aggPc EXCEPT ![a] = outcome]
  /\ UNCHANGED <<salesTables, aggDay, counted, found, overlapped>>

MetricCommit(a) ==
  LET d == aggDay[a]
      new == Computed(a)
      read == found[a]
  IN /\ Ends(a, "done")
     /\ \/ read = NoMetric /\ metric[d] = NoMetric /\ metric' = [metric EXCEPT ![d] = new]
        \/ /\ read # NoMetric
           /\ metric' = [metric EXCEPT ![d].volume = Column(@, read.volume, new.volume),
                                       ![d].conversion = Column(@, read.conversion, new.conversion),
                                       ![d].rate = Column(@, read.rate, new.rate)]

AggregationFails(a) == Ends(a, "failed") /\ UNCHANGED metric

MetricsNext ==
  \/ \E o \in Sales : SaleCreated(o) \/ \E s \in {"settled", "voided"} : SaleCloses(o, s)
  \/ Dispute \/ NextDay
  \/ \E a \in Aggregations :
       \/ \E d \in Days : d <= today /\ CountOrders(a, d)
       \/ CountDisputes(a) \/ FindMetric(a) \/ MetricCommit(a) \/ AggregationFails(a)

MetricsSpec == MetricsInit /\ [][MetricsNext]_metricsVars

-------------------------------------------------------------------------------
(* Every variable has its type.                                            *)
MetricsTypeOK ==
  LET Rows == {NoMetric} \cup
        [by : Aggregations, volume : Nat, conversion : BOOLEAN, rate : Nat]
  IN /\ today \in Days
     /\ saleDay \in [Sales -> Days \cup {0}]
     /\ saleStatus \in [Sales -> {"none", "draft", "settled", "voided"}]
     /\ disputes \in [Days -> 0..MaxDisputes]
     /\ metric \in [Days -> Rows] /\ found \in [Aggregations -> Rows]
     /\ aggPc \in [Aggregations -> {"idle", "orders", "disputes", "found", "done", "failed"}]
     /\ aggDay \in [Aggregations -> Days \cup {0}]
     /\ counted \in [Aggregations -> [total : Nat, disputes : Nat]]
     /\ everSettled \subseteq Sales /\ overlapped \subseteq Days

(* Whatever overlaps, the volume of a day counts only orders of that day   *)
(* that have been settled; and volume and conversion agree unless          *)
(* aggregations of the day overlapped.  (Of three, one may write to the    *)
(* volume what it leaves in the conversion.)                               *)
MetricsAgree ==
  \A d \in Days : metric[d] # NoMetric =>
    /\ metric[d].volume <= Cardinality({o \in everSettled : saleDay[o] = d})
    /\ d \notin overlapped => (metric[d].conversion <=> metric[d].volume > 0)
===============================================================================
