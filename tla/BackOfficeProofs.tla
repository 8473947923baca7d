--------------------------- MODULE BackOfficeProofs ---------------------------
(***************************************************************************)
(* Theorems about the components MCBackOffice sets side by side: here      *)
(* Attachments, Pricing and Metrics, for any uploads, promotions, carts    *)
(* and sales; then all six, with those of StoresProofs and InboxProofs.    *)
(***************************************************************************)
EXTENDS MCBackOffice, StoresProofs, InboxProofs, Sums, FiniteSetTheorems, TLAPS

(* Attachments: any uploads and bodies.                                    *)

(* Where the file and the row of an upload are, by how far it has come.    *)
Place(u) ==
  /\ uploadPc[u] \in {"idle", "refused", "reading", "undone"} => files[u] = "none"
  /\ uploadPc[u] \in {"written", "flushed", "committed", "stored", "kept", "unflushed"}
       => files[u] = "whole"
  /\ uploadPc[u] \in {"committed", "stored", "doubtful"} => u \in attached
  /\ u \in attached => uploadPc[u] \in {"committed", "stored", "doubtful", "killed"}
  /\ u \in attached /\ uploadPc[u] # "doubtful" => files[u] = "whole"
  /\ u \in unopened => uploadPc[u] = "doubtful"

AttachmentInv == AttachmentTypeOK /\ \A u \in Uploads : Place(u)

LEMMA InitAttachments == AttachmentInit => AttachmentInv
BY DEF AttachmentInit, AttachmentInv, AttachmentTypeOK, Place

LEMMA StepAttachments == AttachmentInv /\ [AttachmentNext]_attachmentVars => AttachmentInv'
<1> SUFFICES ASSUME AttachmentInv, [AttachmentNext]_attachmentVars PROVE AttachmentInv'
  OBVIOUS
<1> USE DEF AttachmentInv, AttachmentTypeOK, Place, Turn, Disk, Failures
<1>1. ASSUME NEW u \in Uploads, NEW b \in Bodies, Ask(u, b)
      PROVE  AttachmentInv'
  BY <1>1 DEF Ask
<1>2. ASSUME NEW u \in Uploads, Reject(u)
      PROVE  AttachmentInv'
  BY <1>2 DEF Reject
<1>3. ASSUME NEW u \in Uploads, WriteFile(u)
      PROVE  AttachmentInv'
  BY <1>3 DEF WriteFile
<1>4. ASSUME NEW u \in Uploads, WriteBreaks(u)
      PROVE  AttachmentInv'
  BY <1>4 DEF WriteBreaks
<1>5. ASSUME NEW u \in Uploads, Flush(u) \/ FlushFails(u)
      PROVE  AttachmentInv'
  BY <1>5 DEF Flush, FlushFails
<1>6. ASSUME NEW u \in Uploads, CommitUpload(u)
      PROVE  AttachmentInv'
  BY <1>6 DEF CommitUpload
<1>7. ASSUME NEW u \in Uploads, CommitRaises(u)
      PROVE  AttachmentInv'
  BY <1>7 DEF CommitRaises
<1>8. ASSUME NEW u \in Uploads, Answer(u) \/ AnswerBreaks(u)
      PROVE  AttachmentInv'
  BY <1>8 DEF Answer, AnswerBreaks
<1>9. ASSUME NEW u \in Uploads, CommitInDoubt(u)
      PROVE  AttachmentInv'
  BY <1>9 DEF CommitInDoubt
<1>10. ASSUME NEW u \in Uploads, Verify(u)
      PROVE  AttachmentInv'
  BY <1>10 DEF Verify
<1>11. CASE Crash
  BY <1>11 DEF Crash, Killed
<1>12. CASE UNCHANGED attachmentVars
  BY <1>12 DEF attachmentVars
<1> QED
  BY <1>1, <1>2, <1>3, <1>4, <1>5, <1>6, <1>7, <1>8, <1>9, <1>10, <1>11, <1>12 DEF AttachmentNext

LEMMA AttachmentInvariance == AttachmentSpec => []AttachmentInv
BY InitAttachments, StepAttachments, PTL DEF AttachmentSpec

(* Every variable has its type.                                            *)
THEOREM AttachmentTypes == AttachmentSpec => []AttachmentTypeOK
BY AttachmentInvariance, PTL DEF AttachmentInv

(* Disk and table agree, with the exceptions the code leaves, wherever an  *)
(* upload fails or the process ends.                                       *)
THEOREM DiskMatchesTable == AttachmentSpec => []FilesMatchRows
<1>1. AttachmentInv => FilesMatchRows
  BY DEF AttachmentInv, AttachmentTypeOK, Place, FilesMatchRows, Failures
<1> QED
  BY <1>1, AttachmentInvariance, PTL

-------------------------------------------------------------------------------
(* Pricing: any promotions, prices and carts.                              *)

PricingInv == PricingTypeOK /\ IsFiniteSet(rules)

LEMMA InitPricing == PricingInit => PricingInv
BY FS_EmptySet DEF PricingInit, PricingInv, PricingTypeOK

LEMMA StepPricing == PricingInv /\ [PricingNext]_rules => PricingInv'
BY FS_AddElement DEF PricingInv, PricingTypeOK, PricingNext, CreatePromotion

(* A smallest set of integers without a greatest one cannot exist.         *)
LEMMA MaxExists ==
  ASSUME NEW S \in SUBSET Int, S # {}, IsFiniteSet(S)
  PROVE  Max(S) \in S /\ \A x \in S : Max(S) >= x
<1> DEFINE HasGreatest(U) == \E m \in U : \A x \in U : m >= x
           T == {U \in SUBSET S : U # {} /\ ~HasGreatest(U)}
<1>1. IsWellFoundedOn(StrictSubsetOrdering(S), FiniteSubsetsOf(S))
  BY FS_StrictSubsetOrderingWellFounded
<1>2. T \subseteq FiniteSubsetsOf(S)
  BY FS_FiniteSubsetsOfFinite
<1>3. ASSUME T # {} PROVE FALSE
  <2>1. PICK U \in T : \A V \in T : ~(<<V, U>> \in StrictSubsetOrdering(S))
    <3> HIDE DEF T
    <3> QED
      BY <1>1, <1>2, <1>3, WFMin
  <2>2. PICK x \in U : TRUE
    BY <2>1
  <2>3. U \ {x} \notin T
    <3>1. <<U \ {x}, U>> \in StrictSubsetOrdering(S)
      BY <2>1, <2>2 DEF StrictSubsetOrdering
    <3> QED
      BY <2>1, <3>1
  <2>4. U \ {x} = {} \/ HasGreatest(U \ {x})
    BY <2>1, <2>3
  <2>5. CASE U \ {x} = {}
    <3>1. \A y \in U : x >= y
      BY <2>5
    <3> QED
      BY <2>1, <2>2, <3>1
  <2>6. CASE HasGreatest(U \ {x})
    <3>1. PICK m \in U \ {x} : \A y \in U \ {x} : m >= y
      BY <2>6
    <3>2. x \in Int /\ m \in Int /\ \A y \in U : y \in Int
      BY <2>1
    <3>3. CASE m >= x
      BY <2>1, <3>1, <3>3
    <3>4. CASE x >= m
      <4>1. \A y \in U : x >= y
        BY <3>1, <3>2, <3>4
      <4> QED
        BY <2>1, <2>2, <4>1
    <3> QED
      BY <3>2, <3>3, <3>4
  <2> QED
    BY <2>4, <2>5, <2>6
<1>4. HasGreatest(S)
  BY <1>3
<1> QED
  BY <1>4 DEF Max

LEMMA MaxOfTwo == \A a, b \in Int : Max({a, b}) = IF a >= b THEN a ELSE b
<1> SUFFICES ASSUME NEW a \in Int, NEW b \in Int PROVE Max({a, b}) = IF a >= b THEN a ELSE b
  OBVIOUS
<1>1. \E m \in {a, b} : \A y \in {a, b} : m >= y
  OBVIOUS
<1>2. Max({a, b}) \in {a, b} /\ \A y \in {a, b} : Max({a, b}) >= y
  BY <1>1 DEF Max
<1> QED
  BY <1>2

LEMMA MinOfTwo == \A a, b \in Int : Min({a, b}) = IF a <= b THEN a ELSE b
<1> SUFFICES ASSUME NEW a \in Int, NEW b \in Int PROVE Min({a, b}) = IF a <= b THEN a ELSE b
  OBVIOUS
<1>1. \E m \in {a, b} : \A y \in {a, b} : m <= y
  OBVIOUS
<1>2. Min({a, b}) \in {a, b} /\ \A y \in {a, b} : Min({a, b}) <= y
  BY <1>1 DEF Min
<1> QED
  BY <1>2

LEMMA Products == \A a, b \in Int : a * b \in Int /\ (a >= 0 /\ b >= 0 => a * b >= 0)
OBVIOUS

(* No tier takes anything: the greatest of the discounts and 0.            *)
LEMMA BestTier ==
  ASSUME NEW r \in Promotions, NEW base \in Int
  PROVE  BestTierDiscount(r.config, base) \in Nat
<1> DEFINE tiers == {x \in Get(r.config, "tiers", {}) : base >= x.threshold}
           taken == {t.discount : t \in tiers}
           all == {0} \cup taken
<1>1. IsFiniteSet(tiers)
  BY PromotionsAssumption, FS_Subset
<1>2. IsFiniteSet(taken)
  <2> DEFINE f == [t \in tiers |-> t.discount]
  <2>1. f \in Surjection(tiers, taken)
    BY DEF Surjection
  <2> HIDE DEF f, tiers, taken
  <2> QED
    BY <1>1, <2>1, FS_Surjection
<1>3. taken \in SUBSET Int
  BY PromotionsAssumption
<1>4. IsFiniteSet(all) /\ all \in SUBSET Int /\ 0 \in all
  <2>1. IsFiniteSet({0})
    BY FS_Singleton
  <2> HIDE DEF taken
  <2>2. IsFiniteSet({0} \cup taken)
    BY <1>2, <2>1, FS_Union
  <2>3. {0} \cup taken \in SUBSET Int
    BY <1>3
  <2> QED
    BY <2>2, <2>3
<1>5. BestTierDiscount(r.config, base) = Max(all)
  BY DEF BestTierDiscount
<1> HIDE DEF all
<1>6. Max(all) \in Int /\ Max(all) >= 0
  BY <1>4, MaxExists
<1> QED
  BY <1>5, <1>6

LEMMA ItemDiscountType ==
  ASSUME NEW r \in Promotions, NEW cart \in Carts, NEW l \in cart
  PROVE  /\ ItemDiscount(r, l) \in Int
         /\ ~Surcharge(r) /\ ~Charged(cart) => ItemDiscount(r, l) >= 0
<1> DEFINE buy == Get(r.config, "buy_qty", 0)
           get == Get(r.config, "get_qty", 0)
           disc == Get(r.config, "discount", 0)
           free == FreeUnits(r.config, l.quantity)
           price == UnitPrice[l.product]
<1>1. buy \in Int /\ get \in Int /\ disc \in Int
  BY PromotionsAssumption
<1>2. l.quantity \in Int /\ price \in Int
  BY CartsAssumption
<1>3. free \in Nat
  <2>1. free = IF buy > 0 /\ get > 0 /\ l.quantity >= buy THEN (l.quantity \div buy) * get ELSE 0
    BY DEF FreeUnits
  <2> DEFINE q == l.quantity
  <2> HIDE DEF buy, get, q, free
  <2>2. ASSUME buy > 0, get > 0, q >= buy PROVE q \div buy \in Int /\ q \div buy >= 0
    BY <1>1, <1>2, <2>2 DEF q
  <2>3. CASE buy > 0 /\ get > 0 /\ q >= buy
    BY <1>1, <2>1, <2>2, <2>3, Products DEF q
  <2>4. CASE ~(buy > 0 /\ get > 0 /\ q >= buy)
    BY <2>1, <2>4 DEF q
  <2> QED
    BY <2>3, <2>4
<1>4. price * free \in Int /\ (~Charged(cart) => price * free >= 0)
  <2>1. ~Charged(cart) => price >= 0
    BY <1>2 DEF Charged
  <2> HIDE DEF price, free
  <2> QED
    BY <1>2, <1>3, <2>1, Products
<1>5. BestTierDiscount(r.config, l.quantity) \in Nat
  BY <1>2, BestTier
<1>6. ~Surcharge(r) => disc >= 0
  BY <1>1 DEF Surcharge
<1>7. ItemDiscount(r, l) \in {0, price * free, BestTierDiscount(r.config, l.quantity), disc}
  <2>1. CASE r.scope # "item" \/ Get(r.config, "product_id", l.product) # l.product
    BY <2>1 DEF ItemDiscount
  <2>2. CASE ~(r.scope # "item" \/ Get(r.config, "product_id", l.product) # l.product)
    BY <2>2 DEF ItemDiscount
  <2> QED
    BY <2>1, <2>2
<1> HIDE DEF price, free, disc
<1> QED
  BY <1>1, <1>4, <1>5, <1>6, <1>7

LEMMA OrderDiscountType ==
  ASSUME NEW r \in Promotions, NEW subtotal \in Int
  PROVE  /\ OrderDiscount(r, subtotal) \in Int
         /\ ~Surcharge(r) => OrderDiscount(r, subtotal) >= 0
<1> DEFINE disc == Get(r.config, "discount", 0)
           flat == Get(r.config, "flat_discount", 0)
<1>1. disc \in Int /\ flat \in Int
  BY PromotionsAssumption
<1>2. BestTierDiscount(r.config, subtotal) \in Nat
  BY BestTier
<1>3. ~Surcharge(r) => disc >= 0 /\ flat >= 0
  BY <1>1 DEF Surcharge
<1>4. OrderDiscount(r, subtotal) \in {0, disc, flat, BestTierDiscount(r.config, subtotal)}
  BY DEF OrderDiscount
<1> HIDE DEF disc, flat
<1> QED
  BY <1>1, <1>2, <1>3, <1>4

LEMMA SubtotalType == ASSUME NEW cart \in Carts PROVE Subtotal(cart) \in Int
<1> DEFINE f == [l \in cart |-> LineSubtotal(l)]
<1>1. f \in [cart -> Int]
  BY CartsAssumption, Products DEF LineSubtotal
<1>2. IsFiniteSet(cart)
  BY CartsAssumption
<1> HIDE DEF f
<1>3. SumFunction(f) \in Int
  BY <1>1, <1>2, SumInt
<1> QED
  BY <1>3 DEF Subtotal, f

(* What a promotion takes from the lines of a cart.                        *)
LEMMA OfOneRule ==
  ASSUME NEW r \in Promotions, NEW cart \in Carts
  PROVE  /\ SumFunction([l \in cart |-> ItemDiscount(r, l)]) \in Int
         /\ ~Surcharge(r) /\ ~Charged(cart) =>
              SumFunction([l \in cart |-> ItemDiscount(r, l)]) >= 0
<1> DEFINE f == [l \in cart |-> ItemDiscount(r, l)]
<1>1. IsFiniteSet(cart)
  BY CartsAssumption
<1>2. f \in [cart -> Int]
  BY ItemDiscountType
<1>3. ~Surcharge(r) /\ ~Charged(cart) => f \in [cart -> Nat]
  BY ItemDiscountType
<1> HIDE DEF f
<1>4. SumFunction(f) \in Int
  BY <1>1, <1>2, SumInt
<1>5. ~Surcharge(r) /\ ~Charged(cart) => SumFunction(f) \in Nat
  <2>1. ASSUME f \in [cart -> Nat] PROVE SumFunction(f) \in Nat
    BY <1>1, <2>1, SumPart
  <2> QED
    BY <1>3, <2>1
<1>6. ~Surcharge(r) /\ ~Charged(cart) => SumFunction(f) >= 0
  BY <1>4, <1>5
<1> QED
  BY <1>4, <1>6 DEF f

(* A promotion adds its discounts to those of the others.                  *)
LEMMA OneMoreRule ==
  ASSUME NEW others \in SUBSET Promotions, IsFiniteSet(others),
         NEW r \in Promotions, r \notin others, NEW cart \in Carts
  PROVE  /\ ItemDiscounts(cart, others) \in Int /\ OrderDiscounts(cart, others) \in Int
         /\ ItemDiscounts(cart, others \cup {r}) \in Int
         /\ OrderDiscounts(cart, others \cup {r}) \in Int
         /\ ~Surcharge(r) /\ ~Charged(cart) =>
              /\ ItemDiscounts(cart, others \cup {r}) >= ItemDiscounts(cart, others)
              /\ OrderDiscounts(cart, others \cup {r}) >= OrderDiscounts(cart, others)
<1> DEFINE all == others \cup {r}
           item == [q \in all |-> SumFunction([l \in cart |-> ItemDiscount(q, l)])]
           order == [q \in all |-> OrderDiscount(q, Subtotal(cart))]
<1>1. item \in [all -> Int] /\ order \in [all -> Int]
  <2>1. \A q \in all : item[q] \in Int
    BY OfOneRule
  <2>2. \A q \in all : order[q] \in Int
    BY SubtotalType, OrderDiscountType
  <2> QED
    BY <2>1, <2>2
<1>2. ~Surcharge(r) /\ ~Charged(cart) => item[r] >= 0 /\ order[r] >= 0
  BY OfOneRule, SubtotalType, OrderDiscountType
<1>3. /\ ItemDiscounts(cart, all) = SumFunction(item)
      /\ OrderDiscounts(cart, all) = SumFunction(order)
  BY DEF ItemDiscounts, OrderDiscounts
<1>4. /\ ItemDiscounts(cart, others) = SumFunction([q \in others |-> item[q]])
      /\ OrderDiscounts(cart, others) = SumFunction([q \in others |-> order[q]])
  <2>1. [q \in others |-> item[q]]
          = [q \in others |-> SumFunction([l \in cart |-> ItemDiscount(q, l)])]
    OBVIOUS
  <2>2. [q \in others |-> order[q]] = [q \in others |-> OrderDiscount(q, Subtotal(cart))]
    OBVIOUS
  <2> QED
    BY <2>1, <2>2 DEF ItemDiscounts, OrderDiscounts
<1> HIDE DEF item, order
<1>5. /\ SumFunction(item) = SumFunction([q \in others |-> item[q]]) + item[r]
      /\ SumFunction(order) = SumFunction([q \in others |-> order[q]]) + order[r]
  BY <1>1, SumAdd
<1>6. /\ SumFunction([q \in others |-> item[q]]) \in Int
      /\ SumFunction([q \in others |-> order[q]]) \in Int
  BY <1>1, SumInt
<1>7. item[r] \in Int /\ order[r] \in Int
  BY <1>1
<1> QED
  BY <1>2, <1>3, <1>4, <1>5, <1>6, <1>7

LEMMA LimitsOnlyGrow ==
  ASSUME NEW cart, NEW others, NEW more, others \subseteq more, Accepted(cart, more)
  PROVE  Accepted(cart, others)
BY DEF Accepted, LimitExceeded

(* A new promotion never makes a cart dearer.  As the code adds all levels *)
(* up (see ScopesInHierarchy), step <1>1 does without their order.         *)
THEOREM PromotionsOnlyHelp == PricingSpec => PricesOnlyFall
<1>1. ASSUME PricingInv, [PricingNext]_rules,
             NEW r \in rules' \ rules, NEW cart \in Carts, Accepted(cart, rules')
      PROVE  /\ Accepted(cart, rules)
             /\ ~Surcharge(r) /\ ~Charged(cart) =>
                  FinalTotal(cart, rules') <= FinalTotal(cart, rules)
  <2>1. rules' = rules \cup {r} /\ r \in Promotions /\ r \notin rules
    BY <1>1 DEF PricingNext, CreatePromotion
  <2>2. Accepted(cart, rules)
    BY <1>1, <2>1, LimitsOnlyGrow
  <2> DEFINE s == Subtotal(cart)
             d == ItemDiscounts(cart, rules) + OrderDiscounts(cart, rules)
             e == ItemDiscounts(cart, rules') + OrderDiscounts(cart, rules')
  <2>3. s \in Int
    BY SubtotalType
  <2>4. d \in Int /\ e \in Int /\ (~Surcharge(r) /\ ~Charged(cart) => d <= e)
    BY <1>1, <2>1, OneMoreRule DEF PricingInv, PricingTypeOK
  <2>5. /\ FinalTotal(cart, rules) = Max({0, s - Min({s, d})})
        /\ FinalTotal(cart, rules') = Max({0, s - Min({s, e})})
    BY DEF FinalTotal
  <2> HIDE DEF s, d, e
  <2>6. Min({s, d}) = (IF s <= d THEN s ELSE d) /\ Min({s, e}) = (IF s <= e THEN s ELSE e)
    BY <2>3, <2>4, MinOfTwo
  <2>7. /\ Min({s, d}) \in Int /\ Min({s, e}) \in Int
        /\ ~Surcharge(r) /\ ~Charged(cart) => Min({s, d}) <= Min({s, e})
    BY <2>3, <2>4, <2>6
  <2>8. /\ FinalTotal(cart, rules) = (IF 0 >= s - Min({s, d}) THEN 0 ELSE s - Min({s, d}))
        /\ FinalTotal(cart, rules') = (IF 0 >= s - Min({s, e}) THEN 0 ELSE s - Min({s, e}))
    <3> DEFINE x == s - Min({s, d})
               y == s - Min({s, e})
    <3>1. x \in Int /\ y \in Int
      BY <2>3, <2>7
    <3> HIDE DEF x, y
    <3>2. Max({0, x}) = (IF 0 >= x THEN 0 ELSE x) /\ Max({0, y}) = (IF 0 >= y THEN 0 ELSE y)
      BY <3>1, MaxOfTwo
    <3> QED
      BY <2>5, <3>2 DEF x, y
  <2> QED
    BY <2>2, <2>3, <2>7, <2>8
<1>2. PricingInv /\ [PricingNext]_rules =>
        [\A r \in rules' \ rules, cart \in Carts :
           Accepted(cart, rules') =>
             /\ Accepted(cart, rules)
             /\ ~Surcharge(r) /\ ~Charged(cart) /\ (\A q \in rules : Level(q) <= Level(r)) =>
                  FinalTotal(cart, rules') <= FinalTotal(cart, rules)]_rules
  BY <1>1
<1> QED
  BY InitPricing, StepPricing, <1>2, PTL DEF PricingSpec, PricesOnlyFall

-------------------------------------------------------------------------------
(* Metrics: any sales and days.                                            *)

(* The orders of a day that have been settled: they only get more.         *)
EverSettledOn(d) == {o \in everSettled : saleDay[o] = d}

SalesKept ==
  /\ IsFiniteSet(everSettled)
  /\ \A o \in Sales : saleStatus[o] = "settled" => o \in everSettled
  /\ \A o \in everSettled : saleStatus[o] # "none"

(* What an aggregation has counted or found, and what a day's row says, is *)
(* bounded by them; while no two aggregations of a day overlap, the row is *)
(* what the one under way has found.                                       *)
CountsBounded ==
  /\ \A a \in Aggregations :
       aggPc[a] \in {"orders", "disputes", "found"} =>
         aggDay[a] \in Days /\ counted[a].total <= Cardinality(EverSettledOn(aggDay[a]))
  /\ \A d \in Days : metric[d] # NoMetric => metric[d].volume <= Cardinality(EverSettledOn(d))

NoneOverlaps ==
  /\ \A d \in Days \ overlapped : \A a, b \in Aggregations :
       Underway(a, d) /\ Underway(b, d) => a = b
  /\ \A d \in Days \ overlapped : metric[d] # NoMetric =>
       (metric[d].conversion <=> metric[d].volume > 0)

FoundIsStored ==
  \A a \in Aggregations : aggPc[a] = "found" =>
    /\ aggDay[a] \notin overlapped => found[a] = metric[aggDay[a]]
    /\ found[a] # NoMetric => metric[aggDay[a]] # NoMetric

MetricsInv == MetricsTypeOK /\ SalesKept /\ CountsBounded /\ NoneOverlaps /\ FoundIsStored

LEMMA InitMetrics == MetricsInit => MetricsInv
<1> SUFFICES ASSUME MetricsInit PROVE MetricsInv
  OBVIOUS
<1>1. MetricsTypeOK
  BY MetricsAssumption DEF MetricsInit, MetricsTypeOK, NoCount
<1>2. SalesKept
  BY FS_EmptySet DEF MetricsInit, SalesKept
<1>3. CountsBounded /\ NoneOverlaps /\ FoundIsStored
  BY DEF MetricsInit, CountsBounded, NoneOverlaps, FoundIsStored, Underway
<1> QED
  BY <1>1, <1>2, <1>3 DEF MetricsInv

(* The row an aggregation computes.                                        *)
LEMMA ComputedRow ==
  ASSUME MetricsInv, NEW a \in Aggregations
  PROVE  /\ Computed(a) \in [by : Aggregations, volume : Nat, conversion : BOOLEAN, rate : Nat]
         /\ Computed(a).volume = counted[a].total
         /\ Computed(a).conversion <=> Computed(a).volume > 0
<1>1. counted[a].total \in Nat /\ counted[a].disputes \in Nat
  BY DEF MetricsInv, MetricsTypeOK
<1> DEFINE n == RateUnit * counted[a].disputes
           k == IF counted[a].total = 0 THEN 1 ELSE counted[a].total
<1>2. n \in Nat /\ k \in Nat \ {0}
  BY <1>1, MetricsAssumption
<1>3. n \div k \in Nat
  <2> HIDE DEF n, k
  <2> QED
    BY <1>2
<1> DEFINE sold == counted[a].total > 0
           T == counted[a].total
           r == n \div k
<1>4. Computed(a) = [by |-> a, volume |-> T, conversion |-> sold, rate |-> r]
  BY DEF Computed
<1>5. sold \in BOOLEAN /\ T \in Nat /\ r \in Nat /\ (sold <=> T > 0)
  BY <1>1, <1>3
<1> HIDE DEF sold, T, r
<1>6. Computed(a).volume = T /\ Computed(a).conversion = sold
  BY <1>4
<1>7. Computed(a) \in [by : Aggregations, volume : Nat, conversion : BOOLEAN, rate : Nat]
  BY <1>4, <1>5
<1> QED
  BY <1>5, <1>6, <1>7 DEF T

LEMMA StepMetricsType == MetricsInv /\ [MetricsNext]_metricsVars => MetricsTypeOK'
<1> SUFFICES ASSUME MetricsInv, [MetricsNext]_metricsVars PROVE MetricsTypeOK'
  OBVIOUS
<1>0. MetricsTypeOK
  BY DEF MetricsInv
<1> USE DEF MetricsTypeOK
<1>1. ASSUME NEW o \in Sales, SaleCreated(o)
      PROVE  MetricsTypeOK'
  BY <1>0, <1>1 DEF SaleCreated, aggregation
<1>2. ASSUME NEW o \in Sales, NEW s, SaleCloses(o, s)
      PROVE  MetricsTypeOK'
  BY <1>0, <1>2 DEF SaleCloses, aggregation
<1>3. CASE Dispute
  BY <1>0, <1>3, MetricsAssumption DEF Dispute, aggregation
<1>4. CASE NextDay
  BY <1>0, <1>4 DEF NextDay, aggregation
<1>5. ASSUME NEW a \in Aggregations, NEW d \in Days, CountOrders(a, d)
      PROVE  MetricsTypeOK'
  <2>1. SettledOn(d) \subseteq everSettled
    BY DEF MetricsInv, SalesKept, SettledOn
  <2>2. Cardinality(SettledOn(d)) \in Nat
    BY <2>1, FS_Subset, FS_CardinalityType DEF MetricsInv, SalesKept
  <2> QED
    BY <1>0, <1>5, <2>2 DEF CountOrders, salesTables
<1>6. ASSUME NEW a \in Aggregations, CountDisputes(a)
      PROVE  MetricsTypeOK'
  <2>1. disputes[aggDay[a]] \in Nat
    BY <1>0, <1>6, MetricsAssumption DEF CountDisputes, MetricsInv, CountsBounded
  <2> QED
    BY <1>0, <1>6, <2>1 DEF CountDisputes, salesTables
<1>7. ASSUME NEW a \in Aggregations, FindMetric(a)
      PROVE  MetricsTypeOK'
  <2>1. aggDay[a] \in Days
    BY <1>7 DEF FindMetric, MetricsInv, CountsBounded
  <2> QED
    BY <1>0, <1>7, <2>1 DEF FindMetric, salesTables
<1>8. ASSUME NEW a \in Aggregations, MetricCommit(a)
      PROVE  MetricsTypeOK'
  <2> DEFINE d == aggDay[a]
             new == Computed(a)
             read == found[a]
             Row == [by : Aggregations, volume : Nat, conversion : BOOLEAN, rate : Nat]
  <2>1. new \in Row /\ d \in Days
    BY <1>8, ComputedRow DEF MetricCommit, Ends, MetricsInv, CountsBounded
  <2>2. read # NoMetric => metric[d] \in Row
    BY <1>0, <1>8, <2>1 DEF MetricCommit, Ends, MetricsInv, FoundIsStored
  <2>3. metric' \in [Days -> {NoMetric} \cup Row]
    <3>1. CASE metric' = [metric EXCEPT ![d] = new]
      BY <1>0, <2>1, <3>1
    <3>2. CASE /\ read # NoMetric
               /\ metric' = [metric EXCEPT ![d].volume = Column(@, read.volume, new.volume),
                                           ![d].conversion = Column(@, read.conversion, new.conversion),
                                           ![d].rate = Column(@, read.rate, new.rate)]
      BY <1>0, <2>1, <2>2, <3>2 DEF Column
    <3> QED
      BY <1>8, <3>1, <3>2 DEF MetricCommit
  <2> QED
    BY <1>0, <1>8, <2>3 DEF MetricCommit, Ends, salesTables
<1>9. ASSUME NEW a \in Aggregations, AggregationFails(a)
      PROVE  MetricsTypeOK'
  BY <1>0, <1>9 DEF AggregationFails, Ends, salesTables
<1>10. CASE UNCHANGED metricsVars
  BY <1>0, <1>10 DEF metricsVars, salesTables, aggregation
<1> QED
  BY <1>1, <1>2, <1>3, <1>4, <1>5, <1>6, <1>7, <1>8, <1>9, <1>10 DEF MetricsNext

(* The orders a day has settled only get more, and an order that is        *)
(* counted as settled on a day is one of them.                             *)
LEMMA StepSales ==
  MetricsInv /\ [MetricsNext]_metricsVars =>
    SalesKept' /\ \A d \in Days : EverSettledOn(d) \subseteq EverSettledOn(d)'
<1> SUFFICES ASSUME MetricsInv, [MetricsNext]_metricsVars
             PROVE  SalesKept' /\ \A d \in Days : EverSettledOn(d) \subseteq EverSettledOn(d)'
  OBVIOUS
<1>0. MetricsTypeOK /\ SalesKept
  BY DEF MetricsInv
<1>1. ASSUME NEW o \in Sales, SaleCreated(o)
      PROVE  SalesKept' /\ \A d \in Days : EverSettledOn(d) \subseteq EverSettledOn(d)'
  BY <1>0, <1>1 DEF SaleCreated, SalesKept, EverSettledOn, MetricsTypeOK
<1>2. ASSUME NEW o \in Sales, NEW s, SaleCloses(o, s)
      PROVE  SalesKept' /\ \A d \in Days : EverSettledOn(d) \subseteq EverSettledOn(d)'
  <2>1. IsFiniteSet(everSettled')
    BY <1>0, <1>2, FS_AddElement DEF SaleCloses, SalesKept
  <2>2. SalesKept'
    BY <1>0, <1>2, <2>1 DEF SaleCloses, SalesKept, MetricsTypeOK
  <2>3. \A d \in Days : EverSettledOn(d) \subseteq EverSettledOn(d)'
    BY <1>2 DEF SaleCloses, EverSettledOn
  <2> QED
    BY <2>2, <2>3
<1>3. CASE UNCHANGED <<saleDay, saleStatus, everSettled>>
  BY <1>0, <1>3 DEF SalesKept, EverSettledOn
<1>4. Dispute \/ NextDay \/ UNCHANGED metricsVars
        \/ (\E a \in Aggregations : (\E d \in Days : CountOrders(a, d)) \/ CountDisputes(a)
              \/ FindMetric(a) \/ MetricCommit(a) \/ AggregationFails(a))
        => UNCHANGED <<saleDay, saleStatus, everSettled>>
  BY DEF Dispute, NextDay, CountOrders, CountDisputes, FindMetric, MetricCommit,
         AggregationFails, Ends, metricsVars, salesTables
<1> QED
  BY <1>1, <1>2, <1>3, <1>4 DEF MetricsNext

LEMMA MoreSettled ==
  ASSUME MetricsInv, SalesKept', NEW d, EverSettledOn(d) \subseteq EverSettledOn(d)'
  PROVE  /\ Cardinality(EverSettledOn(d)) \in Nat /\ Cardinality(EverSettledOn(d)') \in Nat
         /\ Cardinality(EverSettledOn(d)) <= Cardinality(EverSettledOn(d)')
         /\ Cardinality(SettledOn(d)) <= Cardinality(EverSettledOn(d))
<1>1. IsFiniteSet(EverSettledOn(d)) /\ IsFiniteSet(EverSettledOn(d)')
  BY FS_Subset DEF MetricsInv, SalesKept, EverSettledOn
<1>2. SettledOn(d) \subseteq EverSettledOn(d)
  BY DEF MetricsInv, SalesKept, SettledOn, EverSettledOn
<1> QED
  BY <1>1, <1>2, FS_Subset, FS_CardinalityType

(* The steps that write no row and count no orders keep the rest.          *)
LEMMA StepCounts == MetricsInv /\ [MetricsNext]_metricsVars => CountsBounded'
<1> SUFFICES ASSUME MetricsInv, [MetricsNext]_metricsVars PROVE CountsBounded'
  OBVIOUS
<1>0. MetricsTypeOK /\ CountsBounded /\ MetricsTypeOK'
  BY StepMetricsType DEF MetricsInv
<1>s. \A d \in Days :
        /\ Cardinality(EverSettledOn(d)) \in Nat /\ Cardinality(EverSettledOn(d)') \in Nat
        /\ Cardinality(EverSettledOn(d)) <= Cardinality(EverSettledOn(d)')
        /\ Cardinality(SettledOn(d)) <= Cardinality(EverSettledOn(d))
  BY StepSales, MoreSettled
<1>n. /\ \A a \in Aggregations : counted[a].total \in Nat
      /\ \A d \in Days : metric[d] # NoMetric => metric[d].volume \in Nat
  BY <1>0 DEF MetricsTypeOK
<1>1. CASE UNCHANGED <<metric, aggPc, aggDay, counted>>
  BY <1>0, <1>s, <1>n, <1>1 DEF CountsBounded
<1>2. ASSUME NEW a \in Aggregations, NEW d \in Days, CountOrders(a, d)
      PROVE  CountsBounded'
  <2>1. /\ metric' = metric /\ aggDay'[a] = d /\ counted'[a].total = Cardinality(SettledOn(d))
        /\ \A b \in Aggregations \ {a} :
             aggPc'[b] = aggPc[b] /\ aggDay'[b] = aggDay[b] /\ counted'[b] = counted[b]
    BY <1>0, <1>2 DEF CountOrders, MetricsTypeOK
  <2>2. Cardinality(SettledOn(d)) \in Nat
    BY <1>0, <2>1 DEF MetricsTypeOK
  <2> QED
    BY <1>0, <1>s, <1>n, <2>1, <2>2 DEF CountsBounded
<1>3. ASSUME NEW a \in Aggregations, CountDisputes(a) \/ FindMetric(a) \/ AggregationFails(a)
      PROVE  CountsBounded'
  <2>1. /\ metric' = metric /\ aggDay' = aggDay
        /\ \A b \in Aggregations : counted'[b].total = counted[b].total
        /\ \A b \in Aggregations : aggPc'[b] \in {"orders", "disputes", "found"} =>
             aggPc[b] \in {"orders", "disputes", "found"}
    BY <1>0, <1>3 DEF CountDisputes, FindMetric, AggregationFails, Ends, MetricsTypeOK
  <2> QED
    BY <1>0, <1>s, <1>n, <2>1 DEF CountsBounded
<1>4. ASSUME NEW a \in Aggregations, MetricCommit(a)
      PROVE  CountsBounded'
  <2> DEFINE d == aggDay[a]
  <2>1. /\ aggDay' = aggDay /\ counted' = counted /\ aggPc[a] = "found"
        /\ \A b \in Aggregations : aggPc'[b] \in {"orders", "disputes", "found"} =>
             aggPc[b] \in {"orders", "disputes", "found"}
    BY <1>0, <1>4 DEF MetricCommit, Ends, MetricsTypeOK
  <2>2. d \in Days /\ counted[a].total <= Cardinality(EverSettledOn(d))
    BY <1>0, <2>1 DEF CountsBounded
  <2>3. Computed(a).volume = counted[a].total
    BY ComputedRow
  <2>t. DOMAIN metric = Days
    BY <1>0 DEF MetricsTypeOK
  <2>4. /\ \A e \in Days \ {d} : metric'[e] = metric[e]
        /\ \/ metric'[d].volume = counted[a].total
           \/ metric[d] # NoMetric /\ metric'[d].volume = metric[d].volume
    <3>1. CASE metric' = [metric EXCEPT ![d] = Computed(a)]
      BY <2>t, <2>2, <2>3, <3>1
    <3>2. CASE /\ found[a] # NoMetric
               /\ metric' = [metric EXCEPT
                    ![d].volume = Column(@, found[a].volume, Computed(a).volume),
                    ![d].conversion = Column(@, found[a].conversion, Computed(a).conversion),
                    ![d].rate = Column(@, found[a].rate, Computed(a).rate)]
      <4>1. metric[d] # NoMetric
        BY <2>1, <3>2 DEF MetricsInv, FoundIsStored
      <4>2. metric[d] \in [by : Aggregations, volume : Nat, conversion : BOOLEAN, rate : Nat]
        BY <1>0, <2>2, <4>1 DEF MetricsTypeOK
      <4>3. metric'[d].volume = Column(metric[d].volume, found[a].volume, Computed(a).volume)
        BY <2>t, <2>2, <3>2, <4>2
      <4>4. \A e \in Days \ {d} : metric'[e] = metric[e]
        BY <2>t, <3>2
      <4> QED
        BY <2>3, <4>1, <4>3, <4>4 DEF Column
    <3> QED
      BY <1>4, <3>1, <3>2 DEF MetricCommit
  <2>5. \A e \in Days : metric'[e] # NoMetric => metric'[e].volume <= Cardinality(EverSettledOn(e)')
    BY <1>0, <1>s, <1>n, <2>2, <2>4 DEF CountsBounded
  <2> QED
    BY <1>0, <1>s, <1>n, <2>1, <2>5 DEF CountsBounded
<1>5. (\E o \in Sales : SaleCreated(o) \/ \E s : SaleCloses(o, s)) \/ Dispute \/ NextDay
        \/ UNCHANGED metricsVars => UNCHANGED <<metric, aggPc, aggDay, counted>>
  BY DEF SaleCreated, SaleCloses, Dispute, NextDay, metricsVars, aggregation
<1> QED
  BY <1>1, <1>2, <1>3, <1>4, <1>5 DEF MetricsNext

(* An aggregation that begins beside another marks the day; the others     *)
(* leave who is under way, or take one away.                               *)
LEMMA StepOverlap ==
  ASSUME MetricsInv, [MetricsNext]_metricsVars
  PROVE  \A d \in Days \ overlapped' : /\ d \notin overlapped
           /\ \A a, b \in Aggregations : Underway(a, d)' /\ Underway(b, d)' => a = b
<1> SUFFICES ASSUME NEW d \in Days, d \notin overlapped'
             PROVE  /\ d \notin overlapped
                    /\ \A a, b \in Aggregations : Underway(a, d)' /\ Underway(b, d)' => a = b
  OBVIOUS
<1>0. MetricsTypeOK /\ NoneOverlaps
  BY DEF MetricsInv
<1>1. ASSUME NEW a \in Aggregations, NEW e \in Days, CountOrders(a, e)
      PROVE  /\ d \notin overlapped
             /\ \A b, c \in Aggregations : Underway(b, d)' /\ Underway(c, d)' => b = c
  <2>1. d \notin overlapped
    BY <1>1 DEF CountOrders
  <2>2. \A b \in Aggregations \ {a} : Underway(b, d)' <=> Underway(b, d)
    BY <1>0, <1>1 DEF CountOrders, Underway, MetricsTypeOK
  <2>3. Underway(a, d)' => \A b \in Aggregations : ~Underway(b, d)
    BY <1>0, <1>1 DEF CountOrders, Underway, MetricsTypeOK
  <2> QED
    BY <1>0, <2>1, <2>2, <2>3 DEF NoneOverlaps
<1>2. ASSUME NEW a \in Aggregations,
             CountDisputes(a) \/ FindMetric(a) \/ MetricCommit(a) \/ AggregationFails(a)
      PROVE  /\ d \notin overlapped
             /\ \A b, c \in Aggregations : Underway(b, d)' /\ Underway(c, d)' => b = c
  <2>1. overlapped' = overlapped /\ \A b \in Aggregations : Underway(b, d)' => Underway(b, d)
    BY <1>0, <1>2
    DEF CountDisputes, FindMetric, MetricCommit, AggregationFails, Ends, Underway,
                      MetricsTypeOK
  <2> QED
    BY <1>0, <2>1 DEF NoneOverlaps
<1>3. CASE UNCHANGED <<aggPc, aggDay, overlapped>>
  BY <1>0, <1>3 DEF NoneOverlaps, Underway
<1>4. (\E o \in Sales : SaleCreated(o) \/ \E s : SaleCloses(o, s)) \/ Dispute \/ NextDay
        \/ UNCHANGED metricsVars => UNCHANGED <<aggPc, aggDay, overlapped>>
  BY DEF SaleCreated, SaleCloses, Dispute, NextDay, metricsVars, aggregation
<1> QED
  BY <1>1, <1>2, <1>3, <1>4 DEF MetricsNext

(* A commit alone on its day stores what it computed, whole.               *)
LEMMA CommitStores ==
  ASSUME MetricsInv, NEW a \in Aggregations, MetricCommit(a)
  PROVE  /\ aggDay[a] \in Days /\ aggPc[a] = "found"
         /\ \A e \in Days \ {aggDay[a]} : metric'[e] = metric[e]
         /\ metric'[aggDay[a]] # NoMetric
         /\ aggDay[a] \notin overlapped =>
              /\ metric'[aggDay[a]].volume = Computed(a).volume
              /\ metric'[aggDay[a]].conversion = Computed(a).conversion
<1> DEFINE d == aggDay[a]
           Row == [by : Aggregations, volume : Nat, conversion : BOOLEAN, rate : Nat]
<1>0. MetricsTypeOK /\ FoundIsStored
  BY DEF MetricsInv
<1>1. aggPc[a] = "found" /\ d \in Days
  BY DEF MetricCommit, Ends, MetricsInv, CountsBounded
<1>2. DOMAIN metric = Days /\ metric[d] \in {NoMetric} \cup Row
  BY <1>0, <1>1 DEF MetricsTypeOK
<1>3. Computed(a) \in Row /\ \A m \in Row : m # NoMetric
  <2>1. \A m \in Row : m # NoMetric
    BY DEF NoMetric
  <2> QED
    BY <2>1, ComputedRow
<1>4. CASE metric' = [metric EXCEPT ![d] = Computed(a)]
  BY <1>1, <1>2, <1>3, <1>4
<1>5. CASE /\ found[a] # NoMetric
           /\ metric' = [metric EXCEPT
                ![d].volume = Column(@, found[a].volume, Computed(a).volume),
                ![d].conversion = Column(@, found[a].conversion, Computed(a).conversion),
                ![d].rate = Column(@, found[a].rate, Computed(a).rate)]
  <2>1. metric[d] # NoMetric /\ (d \notin overlapped => found[a] = metric[d])
    BY <1>0, <1>1, <1>5 DEF FoundIsStored
  <2>2. /\ \A e \in Days \ {d} : metric'[e] = metric[e]
        /\ metric'[d] = [metric[d] EXCEPT
             !.volume = Column(@, found[a].volume, Computed(a).volume),
             !.conversion = Column(@, found[a].conversion, Computed(a).conversion),
             !.rate = Column(@, found[a].rate, Computed(a).rate)]
    BY <1>1, <1>2, <1>5
  <2>3. metric[d] \in Row
    BY <1>2, <2>1
  <2>4. /\ metric'[d].volume = Column(metric[d].volume, found[a].volume, Computed(a).volume)
        /\ metric'[d].conversion =
             Column(metric[d].conversion, found[a].conversion, Computed(a).conversion)
    BY <2>2, <2>3
  <2>5. metric'[d] # NoMetric
    <3>1. DOMAIN metric'[d] = DOMAIN metric[d]
      BY <2>2
    <3>2. "volume" \in DOMAIN metric[d] /\ "volume" \notin DOMAIN NoMetric
      BY <2>3 DEF NoMetric
    <3> QED
      BY <3>1, <3>2
  <2> QED
    BY <1>1, <2>1, <2>2, <2>4, <2>5 DEF Column
<1> QED
  BY <1>4, <1>5 DEF MetricCommit

LEMMA StepStored ==
  ASSUME MetricsInv, [MetricsNext]_metricsVars PROVE NoneOverlaps' /\ FoundIsStored'
<1>0. MetricsTypeOK /\ NoneOverlaps /\ FoundIsStored /\ MetricsTypeOK'
  BY StepMetricsType DEF MetricsInv
<1>1. /\ \A d \in Days \ overlapped' : d \notin overlapped
      /\ \A d \in Days \ overlapped' : \A a, b \in Aggregations :
           Underway(a, d)' /\ Underway(b, d)' => a = b
  BY StepOverlap
<1>d. \A a \in Aggregations : aggPc[a] = "found" => aggDay[a] \in Days
  BY DEF MetricsInv, CountsBounded
<1>2. CASE UNCHANGED metric /\ \A a \in Aggregations : aggPc'[a] = "found" =>
             aggPc[a] = "found" /\ aggDay'[a] = aggDay[a] /\ found'[a] = found[a]
  <2>1. NoneOverlaps'
    BY <1>0, <1>1, <1>2 DEF NoneOverlaps
  <2>2. FoundIsStored'
    BY <1>0, <1>1, <1>2, <1>d DEF FoundIsStored
  <2> QED
    BY <2>1, <2>2
<1>3. ASSUME NEW a \in Aggregations, FindMetric(a)
      PROVE  NoneOverlaps' /\ FoundIsStored'
  <2>1. /\ metric' = metric /\ aggDay' = aggDay /\ overlapped' = overlapped
        /\ found'[a] = metric[aggDay[a]]
        /\ \A b \in Aggregations \ {a} : aggPc'[b] = aggPc[b] /\ found'[b] = found[b]
    BY <1>0, <1>3 DEF FindMetric, MetricsTypeOK
  <2>2. NoneOverlaps'
    BY <1>0, <1>1, <2>1 DEF NoneOverlaps
  <2>3. FoundIsStored'
    BY <1>0, <2>1 DEF FoundIsStored
  <2> QED
    BY <2>2, <2>3
<1>4. ASSUME NEW a \in Aggregations, MetricCommit(a)
      PROVE  NoneOverlaps' /\ FoundIsStored'
  <2> DEFINE d == aggDay[a]
  <2>1. /\ d \in Days /\ aggPc[a] = "found" /\ metric'[d] # NoMetric
        /\ \A e \in Days \ {d} : metric'[e] = metric[e]
        /\ d \notin overlapped =>
             metric'[d].volume = Computed(a).volume /\ metric'[d].conversion = Computed(a).conversion
    BY <1>4, CommitStores
  <2>2. /\ aggDay' = aggDay /\ overlapped' = overlapped /\ found' = found
        /\ aggPc'[a] = "done" /\ \A b \in Aggregations \ {a} : aggPc'[b] = aggPc[b]
    BY <1>0, <1>4 DEF MetricCommit, Ends, MetricsTypeOK
  <2>3. Computed(a).conversion <=> Computed(a).volume > 0
    BY ComputedRow
  <2>4. NoneOverlaps'
    BY <1>0, <1>1, <2>1, <2>2, <2>3 DEF NoneOverlaps
  <2>5. FoundIsStored'
    <3> SUFFICES ASSUME NEW b \in Aggregations, aggPc'[b] = "found"
                 PROVE  /\ aggDay[b] \notin overlapped => found[b] = metric'[aggDay[b]]
                        /\ found[b] # NoMetric => metric'[aggDay[b]] # NoMetric
      BY <2>2 DEF FoundIsStored
    <3>1. b # a /\ aggPc[b] = "found" /\ aggDay[b] \in Days
      BY <1>d, <2>2
    <3>2. CASE aggDay[b] # d
      BY <1>0, <2>1, <3>1, <3>2 DEF FoundIsStored
    <3>3. CASE aggDay[b] = d
      <4>1. d \in overlapped
        BY <1>0, <2>1, <3>1, <3>3 DEF NoneOverlaps, Underway
      <4> QED
        BY <2>1, <3>3, <4>1
    <3> QED
      BY <3>2, <3>3
  <2> QED
    BY <2>4, <2>5
<1>5. ASSUME NEW a \in Aggregations,
             (\E d \in Days : CountOrders(a, d)) \/ CountDisputes(a) \/ AggregationFails(a)
      PROVE  UNCHANGED metric /\ \A b \in Aggregations : aggPc'[b] = "found" =>
               aggPc[b] = "found" /\ aggDay'[b] = aggDay[b] /\ found'[b] = found[b]
  BY <1>0, <1>5 DEF CountOrders, CountDisputes, AggregationFails, Ends, MetricsTypeOK
<1>6. (\E o \in Sales : SaleCreated(o) \/ \E s : SaleCloses(o, s)) \/ Dispute \/ NextDay
        \/ UNCHANGED metricsVars => UNCHANGED <<metric, aggPc, aggDay, found>>
  BY DEF SaleCreated, SaleCloses, Dispute, NextDay, metricsVars, aggregation
<1> QED
  BY <1>2, <1>3, <1>4, <1>5, <1>6 DEF MetricsNext

LEMMA StepMetrics == MetricsInv /\ [MetricsNext]_metricsVars => MetricsInv'
BY StepMetricsType, StepSales, StepCounts, StepStored DEF MetricsInv

LEMMA MetricsInvariance == MetricsSpec => []MetricsInv
BY InitMetrics, StepMetrics, PTL DEF MetricsSpec

(* Every variable has its type.                                            *)
THEOREM MetricsTypes == MetricsSpec => []MetricsTypeOK
BY MetricsInvariance, PTL DEF MetricsInv

(* Whatever overlaps, a day's volume counts only orders of the day that    *)
(* have been settled; and it agrees with the conversion unless             *)
(* aggregations of the day overlapped.                                     *)
THEOREM MetricsTrue == MetricsSpec => []MetricsAgree
<1>1. MetricsInv => MetricsAgree
  BY DEF MetricsInv, CountsBounded, NoneOverlaps, EverSettledOn, MetricsAgree
<1> QED
  BY <1>1, MetricsInvariance, PTL

-------------------------------------------------------------------------------
(* The six side by side: a step of one leaves the invariants of the others *)
(* as they are.                                                            *)
BackOfficeInv ==
  ConfigInv /\ FeatureInv /\ InboxInv /\ AttachmentInv /\ PricingInv /\ MetricsInv

LEMMA BackOfficeInvariance == MCSpec => []BackOfficeInv
<1> DEFINE vars == <<part, configVars, featureVars, inboxVars, attachmentVars, rules, metricsVars>>
<1>1. MCInit => BackOfficeInv
  BY InitConfigInv, InitFeatureInv, InitInbox, InitAttachments, InitPricing, InitMetrics
  DEF MCInit, BackOfficeInv
<1>2. BackOfficeInv /\ [MCNext]_vars => BackOfficeInv'
  <2> SUFFICES ASSUME BackOfficeInv, [MCNext]_vars PROVE BackOfficeInv'
    OBVIOUS
  <2>1. CASE UNCHANGED vars
    <3>1. /\ [ConfigNext]_configVars /\ [FeatureNext]_featureVars /\ [InboxNext]_inboxVars
          /\ [AttachmentNext]_attachmentVars /\ [PricingNext]_rules /\ [MetricsNext]_metricsVars
      BY <2>1
    <3> QED
      BY <3>1, StepConfigInv, StepFeatureInv, StepInbox, StepAttachments, StepPricing,
         StepMetrics
      DEF BackOfficeInv
  <2>2. CASE MCNext
    <3>1. OthersUnchanged(part)
      BY <2>2 DEF MCNext
    <3>2. /\ part # "configs" => UNCHANGED configVars
          /\ part # "features" => UNCHANGED featureVars
          /\ part \notin {"threads", "stream"} => UNCHANGED inboxVars
          /\ part # "attachments" => UNCHANGED attachmentVars
          /\ part # "pricing" => UNCHANGED rules
          /\ part # "metrics" => UNCHANGED metricsVars
      BY <3>1 DEF OthersUnchanged
    <3>3. \/ part = "configs" /\ ConfigNext
          \/ part = "features" /\ FeatureNext
          \/ part \in {"threads", "stream"} /\ InboxNext
          \/ part = "attachments" /\ AttachmentNext
          \/ part = "pricing" /\ PricingNext
          \/ part = "metrics" /\ MetricsNext
      BY <2>2 DEF MCNext, OnThreads, OnStream
    <3>4. /\ [ConfigNext]_configVars /\ [FeatureNext]_featureVars /\ [InboxNext]_inboxVars
          /\ [AttachmentNext]_attachmentVars /\ [PricingNext]_rules /\ [MetricsNext]_metricsVars
      BY <3>2, <3>3
    <3> QED
      BY <3>4, StepConfigInv, StepFeatureInv, StepInbox, StepAttachments, StepPricing,
         StepMetrics
      DEF BackOfficeInv
  <2> QED
    BY <2>1, <2>2
<1> QED
  BY <1>1, <1>2, PTL DEF MCSpec

(* The tables of configurations, features, notifications, attachments,     *)
(* promotions and metrics, and what the calls of services.py hold of them, *)
(* keep their types whichever takes a step.                                *)
THEOREM BackOfficeTypes == MCSpec => []BackOfficeTypeOK
<1>1. BackOfficeInv => BackOfficeTypeOK
  BY DEF BackOfficeInv, ConfigInv, FeatureInv, InboxInv, AttachmentInv, PricingInv, MetricsInv,
         BackOfficeTypeOK
<1> QED
  BY <1>1, BackOfficeInvariance, PTL
===============================================================================
