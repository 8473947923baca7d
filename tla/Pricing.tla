------------------------------- MODULE Pricing -------------------------------
(***************************************************************************)
(* calculate_cart: the promotion rules a store accumulates (no operation   *)
(* removes or deactivates one) and the price they give a cart.  A rule's   *)
(* configuration is not validated; each type of rule reads its own fields  *)
(* of it, with defaults for those it lacks.  Amounts are in cents.         *)
(***************************************************************************)
EXTENDS Integers, FiniteSetsExt

CONSTANTS
  Promotions,           \* rules that may be created: [scope, rule_type, config]
  Carts,                \* sets of lines [line, product, quantity]
  UnitPrice             \* products.unit_price by product

VARIABLE rules          \* promotion_rules

(* dict.get with a default                                                 *)
Get(config, field, default) == IF field \in DOMAIN config THEN config[field] ELSE default

(* What int and _to_decimal accept, and a cart of the request: nothing     *)
(* bounds a price, a threshold or a discount.                              *)
ASSUME PromotionsAssumption ==
  \A r \in Promotions :
    /\ \A field \in {"buy_qty", "get_qty", "threshold", "discount", "flat_discount"} :
         Get(r.config, field, 0) \in Int
    /\ IsFiniteSet(Get(r.config, "tiers", {}))
    /\ \A t \in Get(r.config, "tiers", {}) : t.threshold \in Int /\ t.discount \in Int

ASSUME CartsAssumption ==
  \A cart \in Carts :
    /\ IsFiniteSet(cart)
    /\ \A l \in cart : l.quantity \in Int /\ UnitPrice[l.product] \in Int

-------------------------------------------------------------------------------

(* Mutant of BestTierDiscount: the search starts with no discount at all   *)
(* instead of 0, and a negative one may be the best.                       *)
AnyTierDiscount(config, base) ==
  LET reached == {x \in Get(config, "tiers", {}) : base >= x.threshold}
  IN IF reached = {} THEN 0 ELSE Max({t.discount : t \in reached})

(* The greatest discount of a tier that the base reaches, 0 if there is    *)
(* none or if it is negative.                                              *)
BestTierDiscount(config, base) ==
  Max({0} \cup {t.discount : t \in {x \in Get(config, "tiers", {}) : base >= x.threshold}})

Reaches(config, base) == base >= Get(config, "threshold", 0)

(* Every rule of that type counts, whatever its scope, and all lines of a  *)
(* product together.                                                       *)
LimitExceeded(cart, active) ==
  \E r \in active :
    /\ r.rule_type = "purchase_limit" /\ "product_id" \in DOMAIN r.config
    /\ Get(r.config, "max_qty", 0) > 0
    /\ SumFunction([l \in {l \in cart : l.product = r.config.product_id} |-> l.quantity])
         > r.config.max_qty

LineSubtotal(l) == UnitPrice[l.product] * l.quantity
Subtotal(cart) == SumFunction([l \in cart |-> LineSubtotal(l)])

(* Free units are not bounded by the quantity.                             *)
FreeUnits(config, quantity) ==
  LET buy == Get(config, "buy_qty", 0)
      get == Get(config, "get_qty", 0)
  IN IF buy > 0 /\ get > 0 /\ quantity >= buy THEN (quantity \div buy) * get ELSE 0

(* The base of an item's tiers is its quantity, that of its threshold the  *)
(* price of its line.                                                      *)
ItemDiscount(r, l) ==
  IF r.scope # "item" \/ Get(r.config, "product_id", l.product) # l.product THEN 0
  ELSE CASE r.rule_type = "buy_and_get" -> UnitPrice[l.product] * FreeUnits(r.config, l.quantity)
         [] r.rule_type = "tiered_pricing" -> BestTierDiscount(r.config, l.quantity)
         [] r.rule_type = "spend_and_save" /\ Reaches(r.config, LineSubtotal(l)) ->
              Get(r.config, "discount", 0)
         [] OTHER -> 0

(* Order and global rules alike take the subtotal before any discount.     *)
OrderDiscount(r, subtotal) ==
  IF r.scope = "item" THEN 0
  ELSE CASE r.rule_type = "spend_and_save" /\ Reaches(r.config, subtotal) ->
              Get(r.config, "discount", 0)
         [] r.rule_type = "tiered_pricing" -> BestTierDiscount(r.config, subtotal)
         [] r.rule_type = "buy_and_get" -> Get(r.config, "flat_discount", 0)
         [] OTHER -> 0

ItemDiscounts(cart, active) ==
  SumFunction([r \in active |-> SumFunction([l \in cart |-> ItemDiscount(r, l)])])

OrderDiscounts(cart, active) ==
  LET subtotal == Subtotal(cart)
  IN SumFunction([r \in active |-> OrderDiscount(r, subtotal)])

FinalTotal(cart, active) ==
  LET subtotal == Subtotal(cart)
      discount == Min({subtotal, ItemDiscounts(cart, active) + OrderDiscounts(cart, active)})
  IN Max({0, subtotal - discount})

Accepted(cart, active) ==
  cart # {} /\ (\A l \in cart : l.quantity > 0) /\ ~LimitExceeded(cart, active)

-------------------------------------------------------------------------------
PricingInit == rules = {}

CreatePromotion(r) == r \notin rules /\ rules' = rules \cup {r}

PricingNext == \E r \in Promotions : CreatePromotion(r)

PricingSpec == PricingInit /\ [][PricingNext]_rules

-------------------------------------------------------------------------------
(* The rules are among those that may be created.                          *)
PricingTypeOK == rules \subseteq Promotions

(* A rule that asks for a surcharge; of tiers only a discount is taken.    *)
Surcharge(r) ==
  \/ Get(r.config, "discount", 0) < 0 \/ Get(r.config, "flat_discount", 0) < 0

(* A unit given free of a product with a negative price is a charge.       *)
Charged(cart) == \E l \in cart : UnitPrice[l.product] < 0

Level(r) == CASE r.scope = "item" -> 1 [] r.scope = "order" -> 2 [] OTHER -> 3

(* A new promotion never makes a cart dearer, if no active one is of a     *)
(* later level (items, orders, global): however levels are combined, none  *)
(* is then tested against what the new promotion has left of the price.    *)
(* What is taken off is never less than nothing, tiers included, and the   *)
(* sum is cut at the subtotal.  Excepted are a negative discount, and free *)
(* units where a price is negative.  A cart that is accepted with a        *)
(* promotion was without it.                                               *)
PricesOnlyFall ==
  [][\A r \in rules' \ rules, cart \in Carts :
       Accepted(cart, rules') =>
         /\ Accepted(cart, rules)
         /\ ~Surcharge(r) /\ ~Charged(cart) /\ (\A q \in rules : Level(q) <= Level(r)) =>
              FinalTotal(cart, rules') <= FinalTotal(cart, rules)]_rules

(* docs/questions.md:3: "Promotion rules are applied in a strict hierarchy *)
(* (Item-level > Order-level > Global) rather than being fully additive."  *)
(* Read as turns, each level works on what the one before has left; read   *)
(* as precedence, only the first level that gives something counts.  The   *)
(* price of a cart is the one or the other.                                *)
Off(scope, active, base) ==
  SumFunction([r \in {q \in active : q.scope = scope} |-> OrderDiscount(r, base)])

InTurn(cart, active) ==
  LET afterItems == Max({0, Subtotal(cart) - ItemDiscounts(cart, active)})
      afterOrder == Max({0, afterItems - Off("order", active, afterItems)})
  IN Max({0, afterOrder - Off("global", active, afterOrder)})

ByPrecedence(cart, active) ==
  LET subtotal == Subtotal(cart)
      items == ItemDiscounts(cart, active)
      order == Off("order", active, subtotal)
      first == CASE items > 0 -> items
                 [] items <= 0 /\ order > 0 -> order
                 [] OTHER -> Off("global", active, subtotal)
  IN Max({0, subtotal - first})

ScopesInHierarchy ==
  \A cart \in Carts :
    Accepted(cart, rules) /\ ~Charged(cart) /\ (\A r \in rules : ~Surcharge(r)) =>
      FinalTotal(cart, rules) \in {InTurn(cart, rules), ByPrecedence(cart, rules)}
===============================================================================
