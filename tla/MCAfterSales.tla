----------------------------- MODULE MCAfterSales -----------------------------
(* One order of two lines with an order-level discount, for TLC; one       *)
(* settlement pays it with two methods, an overlapping one with one.       *)
EXTENDS AfterSales, TLC

CONSTANTS c1, c2, c3, cashier, admin

MCOrders == {1}
MCOwner == [o \in Orders |-> cashier]
MCFinal == [o \in Orders |-> 3]
MCLines == <<[order |-> 1, quantity |-> 2, price |-> 1, discount |-> 0],
             [order |-> 1, quantity |-> 1, price |-> 3, discount |-> 1]>>
Payment(id, method, amount) == [id |-> id, method |-> method, amount |-> amount]
MCSettlement == [id |-> 1, order |-> 1,
                 payments |-> {Payment(1, "cash", 1), Payment(2, "bank_card", 2)}]
MCSettlements ==
  {MCSettlement, [id |-> 2, order |-> 1, payments |-> {Payment(3, "cash", 3)}]}

Item(l, q, a) == [line |-> l, quantity |-> q, amount |-> a]
Body(op, user, key, basket) ==
  [op |-> op, order |-> 1, user |-> user, key |-> key, reason |-> "r", basket |-> basket]

Whole == <<Item(1, 2, 2), Item(2, 1, 1)>>
(* Two refunds that differ in the order of their lines only, one with the  *)
(* same key and another payload, one of another caller that names a line   *)
(* twice; an exchange whose lines share an amount.                         *)
Refunds ==
  {Body("refund", cashier, "k", Whole),
   Body("refund", cashier, "k", Reverse(Whole)),
   Body("refund", cashier, "k", <<Item(2, 1, 2)>>),
   Body("refund", admin, "k", <<Item(1, 1, 1), Item(1, 1, 1)>>)}
Exchanges == {Body("exchange", cashier, "k", <<Item(1, 1, 0), Item(2, 1, -1)>>)}

(* The caller repeats a reverse settlement under another key.              *)
MCReverses == {Body("reverse_settlement", cashier, key, <<>>) : key \in {"k", "m"}}

MCBodies == Refunds \cup Exchanges \cup MCReverses

-------------------------------------------------------------------------------
(* A behaviour has either refunds and exchanges of an order that is charged*)
(* once, or reverse settlements, with a refund between them, of one that   *)
(* overlapping settlements may charge twice; these know no clock.          *)
VARIABLE part

MCAsked ==
  CASE part = "refunds" -> Refunds \cup Exchanges
    [] part = "reversals" -> MCReverses \cup {Body("refund", cashier, "k", Whole)}

MCInit == part \in {"refunds", "reversals"} /\ Init

MCNext ==
  /\ Next /\ UNCHANGED part
  /\ \A c \in Calls : pc'[c] # "idle" => body'[c] \in MCAsked
  /\ part = "refunds" =>
       /\ settlements' \subseteq {MCSettlement}
       /\ status = [o \in Orders |-> "void"] => UNCHANGED settlements
  /\ part = "reversals" => UNCHANGED now

MCSpec == MCInit /\ [][MCNext]_<<part, vars>>

Symmetry == Permutations(Calls)
===============================================================================
