---------------------------- MODULE MCBackOffice ----------------------------
(***************************************************************************)
(* One instance for TLC of six components that share no table any of them  *)
(* writes: Configs, Features, Inbox, Attachments, Pricing and Metrics.  As *)
(* in MCStaff, a behaviour works on one of them.  Inbox has two parts: one *)
(* of threads, the other of the event loop with its sockets.               *)
(***************************************************************************)
EXTENDS Configs, Features, Inbox, Attachments, Pricing, Metrics, TLC

CONSTANTS r1, r2, r3, r4, x1, x2, onLoop

VARIABLE part

MCOwner == [s \in Sockets |-> "ana"]
MCRoleHolders == {[id |-> "h1", user |-> "ana"], [id |-> "h2", user |-> "ana"]}

(* Cheap tea, dear cups and a can that is taken back for money, one or two *)
(* lines, and a promotion of each scope and type that the code tells apart;*)
(* one has a tier with a negative discount, and the last is a surcharge.   *)
MCUnitPrice ==
  [p \in {"tea", "cup", "can"} |-> CASE p = "tea" -> 3 [] p = "cup" -> 10 [] p = "can" -> -1]

Line(n, p, q) == [line |-> n, product |-> p, quantity |-> q]
MCCarts ==
  {{Line(1, "tea", q)} : q \in 1..4}
    \cup {{Line(1, "tea", q), Line(2, p, 1)} : q \in 1..3, p \in {"tea", "cup"}}
    \cup {{Line(1, "tea", q), Line(2, "can", 2)} : q \in 1..2}

Rule(s, t, c) == [scope |-> s, rule_type |-> t, config |-> c]
Tiers(low, high) == [tiers |-> {[threshold |-> low, discount |-> 1],
                                [threshold |-> high, discount |-> 4]}]
MCPromotions == {
  Rule("item", "buy_and_get", [buy_qty |-> 2, get_qty |-> 3]),
  Rule("item", "tiered_pricing", Tiers(2, 3)),
  Rule("item", "spend_and_save", [threshold |-> 9, discount |-> 2, product_id |-> "tea"]),
  Rule("item", "purchase_limit", [product_id |-> "tea", max_qty |-> 3]),
  Rule("order", "spend_and_save", [threshold |-> 16, discount |-> 5]),
  Rule("order", "buy_and_get", [flat_discount |-> 2]),
  Rule("global", "tiered_pricing",
       [tiers |-> Tiers(9, 19).tiers \cup {[threshold |-> 5, discount |-> -2]}]),
  Rule("global", "spend_and_save", [discount |-> -6])}

-------------------------------------------------------------------------------
OthersUnchanged(p) ==
  /\ p # "configs" => UNCHANGED configVars
  /\ p # "features" => UNCHANGED featureVars
  /\ p \notin {"threads", "stream"} => UNCHANGED inboxVars
  /\ p # "attachments" => UNCHANGED attachmentVars
  /\ p # "pricing" => UNCHANGED rules
  /\ p # "metrics" => UNCHANGED metricsVars

Parts == {"configs", "features", "threads", "stream", "attachments", "pricing", "metrics"}

MCInit ==
  /\ part \in Parts
  /\ ConfigInit /\ FeatureInit /\ InboxInit /\ AttachmentInit /\ PricingInit /\ MetricsInit

(* The threads never meet a socket; a stream is fed by the loop alone, and *)
(* nothing in it depends on what is read in the inbox.                     *)
OnThreads ==
  /\ InboxNext
  /\ UNCHANGED <<hubVars, tasks>> /\ \A c \in OnLoop : pushPc'[c] = "idle"

OnStream ==
  /\ InboxNext
  /\ \A c \in Pushes \ OnLoop : pushPc'[c] = "idle"
  /\ now' <= Window /\ \A n \in inbox' : ~n.read

MCNext ==
  /\ UNCHANGED part /\ OthersUnchanged(part)
  /\ \/ part = "configs" /\ ConfigNext
     \/ part = "features" /\ FeatureNext
     \/ part = "threads" /\ OnThreads
     \/ part = "stream" /\ OnStream
     \/ part = "attachments" /\ AttachmentNext
     \/ part = "pricing" /\ PricingNext
     \/ part = "metrics" /\ MetricsNext

MCSpec ==
  MCInit /\ [][MCNext]_<<part, configVars, featureVars, inboxVars, attachmentVars, rules, metricsVars>>

(* Calls are interchangeable, and so are sales, sockets and threads that   *)
(* notify.                                                                 *)
MCSymmetry == {f @@ g : f \in Permutations({r1, r2, r3}), g \in Permutations({x1, x2})}

(* The types of all six.                                                   *)
BackOfficeTypeOK ==
  /\ ConfigTypeOK /\ FeatureTypeOK /\ InboxTypeOK
  /\ AttachmentTypeOK /\ PricingTypeOK /\ MetricsTypeOK
===============================================================================
