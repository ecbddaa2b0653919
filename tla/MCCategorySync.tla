--------------------------- MODULE MCCategorySync ---------------------------
(* A small instance of CategorySync for TLC. *)
EXTENDS CategorySync

CONSTANTS c1, c2

\* A top category with a category below it.
Chain == {[c \in {c1, c2} |-> [name |-> 0, parent |-> IF c = c1 THEN Root ELSE c1]]}
=============================================================================
