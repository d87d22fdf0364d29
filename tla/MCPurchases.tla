---------------------------- MODULE MCPurchases ----------------------------
(***************************************************************************)
(* Purchases with one purchase on each store, the products of which differ *)
(* in value, and one of the ad-free product.                               *)
(***************************************************************************)
EXTENDS Purchases, TLC

CONSTANTS t1, t2, t3

MCTxn == {t1, t2, t3}
MCSale == t1 :> [platform |-> "ios", product |-> "coins_100"] @@
          t2 :> [platform |-> "android", product |-> "coins_500"] @@
          t3 :> [platform |-> "ios", product |-> "ad_free"]

=============================================================================
