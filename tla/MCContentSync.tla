--------------------------- MODULE MCContentSync ---------------------------
(***************************************************************************)
(* ContentSync on a small instance.  Two requests of the admin panel, one  *)
(* app and the daily refresh; two words, so that an import has a second    *)
(* row to fail at, and one puzzle, so that a bundle can be torn between    *)
(* two tables.                                                             *)
(***************************************************************************)
EXTENDS ContentSync, TLC

Symmetry == Permutations(Admin) \cup Permutations(Word)

=============================================================================
