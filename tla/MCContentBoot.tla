--------------------------- MODULE MCContentBoot ---------------------------
(***************************************************************************)
(* ContentBoot on a small instance.  content.json has one word and one     *)
(* puzzle, the operator may also write a question of his own.  A seed can  *)
(* be cut short between any two statements.  An operator who deletes the   *)
(* seeded word brings the version to 2, so that the next start finds both  *)
(* tables empty and its seed sets the counter back from 2 to 1.            *)
(***************************************************************************)
EXTENDS ContentBoot

CONSTANT own   \* the operator's question

FileRows == [t \in Table |-> RowsOf[t] \ {own}]

=============================================================================
