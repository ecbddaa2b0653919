--------------------------- MODULE MCSyncPipeline ---------------------------
(* Small instances of SyncPipeline for TLC: the fault budgets. *)
EXTENDS SyncPipeline, TLC

\* What an engine that returns reports: one item. Where it is `Never`,
\* every engine raises, which counts one error: enough for the properties that
\* do not tell one phase result from another.
Clean == {[synced |-> 1, errors |-> 0]}
Never == {}

NoFaults == [k \in FaultKinds |-> 0]

\* No message is delivered twice and none is lost: one attempt may fail, one
\* worker may crash, one row may stay without a message.
DeliveredOnce == [NoFaults EXCEPT !["crash"] = 1, !["db"] = 1, !["dispatch"] = 1]

\* Every kind of fault once.
EveryFault == [k \in FaultKinds |-> 1]

Interchangeable == Permutations(Workers) \cup Permutations(Execs)
=============================================================================
