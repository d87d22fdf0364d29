------------------------------- MODULE Ledger -------------------------------
(***************************************************************************)
(* What the coin shop promises: a purchase is paid out once, with the      *)
(* value of its product, and only after a store has sold it.               *)
(***************************************************************************)
EXTENDS Naturals

CONSTANTS
  Txn,     \* the purchases of the two stores
  Value    \* the coins each of them is worth

VARIABLES
  sold,    \* the purchases a store has completed
  paid     \* the coins the apps have added for each of them

Init ==
  /\ sold = {}
  /\ paid = [t \in Txn |-> 0]

Sell(t) ==
  /\ sold' = sold \cup {t}
  /\ UNCHANGED paid

Pay(t) ==
  /\ t \in sold
  /\ paid[t] = 0
  /\ paid' = [paid EXCEPT ![t] = Value[t]]
  /\ UNCHANGED sold

Next == \E t \in Txn : Sell(t) \/ Pay(t)

Spec == Init /\ [][Next]_<<sold, paid>>

=============================================================================
