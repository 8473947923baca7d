------------------------------- MODULE MCOrders -------------------------------
(* Small instances of Orders for TLC.                                      *)
EXTENDS Orders, TLC

CONSTANTS r1, r2, r3, r4, cashier, manager, admin

MCOrderIds == {1, 2}
MCOneOrder == {1}
MCAmounts == [o \in Orders |-> IF o = 1 THEN 2 ELSE 0]

(* r3 is made by a user who owns nothing in the runs with two callers.     *)
MCCallers == [r \in Requests |-> IF r = r3 THEN manager ELSE cashier]

Part(m, a) == [method |-> m, amount |-> a]
MCMethods == {"cash", "bank_card"}

(* An amount split over two methods; the same with a negative part; an     *)
(* unknown method; the empty list, which pays for an order of zero.        *)
MCTenders == {<<Part("cash", 1), Part("bank_card", 1)>>,
              <<Part("cash", 3), Part("bank_card", -1)>>,
              <<Part("cheque", 2)>>,
              <<>>}
MCOneTender == {<<Part("cash", 2)>>}

Symmetry == Permutations({r \in Requests : CallerOf[r] = cashier})
===============================================================================
