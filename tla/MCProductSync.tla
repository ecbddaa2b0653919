--------------------------- MODULE MCProductSync ---------------------------
(* Small instances of ProductSync for TLC: catalogues and fault budgets.    *)
EXTENDS ProductSync, TLC

Simple == [t \in Templates |-> {}]
Variable == [t \in Templates |-> Variants]

\* No SKU, one for each item, one for each content.
Unmapped == [i \in Items |-> [v \in Versions |-> NoSku]]
PerItem == [i \in Items |-> [v \in Versions |-> <<i, 0>>]]
PerContent == [i \in Items |-> [v \in Versions |-> <<i, v>>]]
Labels == Items \X Versions

Offer(shape, skus, wrong) == [variants |-> shape, sku |-> skus, invalid |-> wrong]

\* Records that only an edit makes valid: a template's, a variant's.
WrongTemplate == Templates \X {0}
WrongVariants == Variants \X {0}

Successive == {Offer(Simple, Unmapped, {}), Offer(Simple, PerItem, WrongTemplate),
               Offer(Simple, PerContent, {}), Offer(Variable, Unmapped, {}),
               Offer(Variable, PerItem, WrongVariants), Offer(Variable, PerItem, {})}

Overlapping == {Offer(Simple, Unmapped, {}), Offer(Simple, PerContent, WrongTemplate)}

EveryFault == [k \in FaultKinds |-> 1]

Interchangeable ==
    Permutations(Workers) \cup Permutations(Templates) \cup Permutations(Variants)
=============================================================================
