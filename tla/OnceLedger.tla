------------------------------ MODULE OnceLedger ------------------------------
(***************************************************************************)
(* What an idempotent API promises: for each scope (operation, order,      *)
(* caller and key) the first call that books wins, its entry is never      *)
(* changed, and every later answer in that scope is that entry, given only *)
(* to calls with the same fingerprint.                                     *)
(***************************************************************************)
CONSTANTS Calls,
          Questions,   \* what a call may ask: [scope, fingerprint]
          Nothing

VARIABLES asked,     \* [scope, fingerprint] of each call that was made
          ledger,    \* entries [scope, fingerprint, id]; id is the call that booked
          answers    \* the id each call was answered with

vars == <<asked, ledger, answers>>

Init ==
  /\ asked = [c \in Calls |-> Nothing]
  /\ ledger = {}
  /\ answers = [c \in Calls |-> Nothing]

Ask(c, q) ==
  /\ asked[c] = Nothing
  /\ asked' = [asked EXCEPT ![c] = q]
  /\ UNCHANGED <<ledger, answers>>

Book(c) ==
  /\ asked[c] # Nothing /\ answers[c] = Nothing
  /\ \A e \in ledger : e.scope # asked[c].scope
  /\ ledger' = ledger \cup
       {[scope |-> asked[c].scope, fingerprint |-> asked[c].fingerprint, id |-> c]}
  /\ answers' = [answers EXCEPT ![c] = c]
  /\ UNCHANGED asked

Replay(c, e) ==
  /\ asked[c] # Nothing /\ answers[c] = Nothing
  /\ e.scope = asked[c].scope /\ e.fingerprint = asked[c].fingerprint
  /\ answers' = [answers EXCEPT ![c] = e.id]
  /\ UNCHANGED <<asked, ledger>>

Next ==
  \E c \in Calls :
    \/ \E q \in Questions : Ask(c, q)
    \/ Book(c)
    \/ \E e \in ledger : Replay(c, e)

Spec == Init /\ [][Next]_vars
===============================================================================
