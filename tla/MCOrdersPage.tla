--------------------------- MODULE MCOrdersPage ---------------------------
(***************************************************************************)
(* Two orders that are alike.                                              *)
(***************************************************************************)
EXTENDS OrdersPage, TLC

CONSTANTS o1, o2

OrdersDef == {o1, o2}
Alike == Permutations(OrdersDef)
=============================================================================
