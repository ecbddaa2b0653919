-------------------------- MODULE MCConnectionDesk --------------------------
(* A small instance of ConnectionDesk for TLC: one company, and two shops,  *)
(* one with the currency of the company and one with another.               *)
EXTENDS ConnectionDesk

Typed == [s \in Sections |-> IF s = "woocommerce" THEN {1, 2} ELSE {1}]
Reported ==
    [s \in Sections |-> [g \in Typed[s] |-> IF g = 1 THEN "EUR" ELSE "USD"]]
=============================================================================
