------------------------------ MODULE MCScores ------------------------------
(***************************************************************************)
(* Scores with two requests and a week of two days.  Two points on both    *)
(* days add up to more than the largest INTEGER of this instance.          *)
(***************************************************************************)
EXTENDS Scores, TLC

Symmetry == Permutations(Device) \cup Permutations(Request)

=============================================================================
