----------------------------- MODULE OrderSync -----------------------------
(***************************************************************************)
(* Syncing one WooCommerce order into Odoo: backend/orders/sync.py and     *)
(* backend/orders/router.py, with the retries of backend/clients/odoo.py.  *)
(*                                                                         *)
(* One API process serves the requests; they take turns at each await. The *)
(* call of Odoo is synchronous and holds the event loop with all its       *)
(* retries. Odoo keeps what it has created whatever becomes of the         *)
(* request; the mapping exists when the request's transaction commits.     *)
(***************************************************************************)
EXTENDS Naturals, FiniteSets

CONSTANTS
    Orders,         \* WooCommerce orders
    Nothing,        \* no order
    MaxRequests,    \* bound: sync requests
    MaxFaults,      \* bound: failed calls, lost answers, crashes
    MaxDeletes      \* bound: mappings deleted through the API

ASSUME OrderAssumption ==
    Nothing \notin Orders /\ MaxRequests \in Nat /\ MaxFaults \in Nat /\ MaxDeletes \in Nat

\* max_retries of OdooClient
Attempts == 3

Requests == 1..MaxRequests

VARIABLES
    req,            \* req[i]: the order, the step and the result of a request
    odoo,           \* odoo[o]: how many sale orders Odoo has for order o
    mapped,         \* orders with a committed row in order_mappings
    newer,          \* newer[o]: orders whose rows were inserted after o's
    faults,         \* calls that failed, answers lost, crashes
    deletes,        \* mappings deleted
    paid,           \* history: duplicates of o accounted for
    unmapped        \* history: orders whose mapping was deleted

syncVars == <<req, odoo, mapped, faults, deletes, paid, unmapped, newer>>

Unused == [order |-> Nothing, phase |-> "unused", result |-> "none"]
Phases == {"unused", "check", "create", "insert", "commit", "answer", "done"}

In(i, phase) == req[i].phase = phase
Goes(i, phase) == req' = [req EXCEPT ![i].phase = phase]
Answers(i, result) == req' = [req EXCEPT ![i].phase = "answer", ![i].result = result]
Ends(i) == req' = [req EXCEPT ![i] = [Unused EXCEPT !.phase = "done"]]
Fault == faults < MaxFaults /\ faults' = faults + 1
Pay(o, n) == paid' = [paid EXCEPT ![o] = @ + n]

\* Another request for the order has found no mapping and has not ended.
Past == {"create", "insert", "commit"}
Races(i) == \E j \in Requests \ {i} : req[j].order = req[i].order /\ req[j].phase \in Past

-----------------------------------------------------------------------------
(* sync_order and its endpoint *)

Asked(i, o) == req' = [req EXCEPT ![i] = [order |-> o, phase |-> "check", result |-> "none"]]

\* The connection is missing, cannot be decrypted, or the store does not
\* answer: the except branch reports "failed". Reading them touches nothing
\* the requests share, so that it is one step with the check.
FetchFails(i) ==
    /\ In(i, "check")
    /\ Fault
    /\ Answers(i, "failed")
    /\ UNCHANGED <<odoo, mapped, deletes, paid, unmapped, newer>>

\* Bug form of Check: the mapping is not looked at.
CheckBlind(i) ==
    /\ In(i, "check")
    /\ Goes(i, "create")
    /\ Pay(req[i].order, IF Races(i) THEN 1 ELSE 0)
    /\ UNCHANGED <<odoo, mapped, faults, deletes, unmapped, newer>>

\* The idempotency check. Settings and product mappings are read after it.
Check(i) ==
    /\ In(i, "check")
    /\ IF req[i].order \in mapped
       THEN Answers(i, "synced") /\ UNCHANGED paid
       ELSE Goes(i, "create") /\ Pay(req[i].order, IF Races(i) THEN 1 ELSE 0)
    /\ UNCHANGED <<odoo, mapped, faults, deletes, unmapped, newer>>

\* create_sale_order: n attempts were carried out without their answer
\* arriving and were made again.
Create(i) ==
    /\ In(i, "create")
    /\ \E n \in 0..(Attempts - 1) :
        /\ faults + n <= MaxFaults /\ faults' = faults + n
        /\ odoo' = [odoo EXCEPT ![req[i].order] = @ + n + 1]
        /\ Pay(req[i].order, n)
    /\ Goes(i, "insert")
    /\ UNCHANGED <<mapped, deletes, unmapped, newer>>

\* Bug form of CreateFails: the client gives up without raising.
CreateSwallowed(i) ==
    /\ In(i, "create")
    /\ Fault
    /\ Goes(i, "insert")
    /\ UNCHANGED <<odoo, mapped, deletes, paid, unmapped, newer>>

\* Every attempt failed, n of them after they were carried out; or Odoo
\* refused the order at once.
CreateFails(i) ==
    /\ In(i, "create")
    /\ \E n \in 0..Attempts :
        /\ faults + n + 1 <= MaxFaults /\ faults' = faults + n + 1
        /\ odoo' = [odoo EXCEPT ![req[i].order] = @ + n]
        /\ Pay(req[i].order, n)
    /\ Answers(i, "failed")
    /\ UNCHANGED <<mapped, deletes, unmapped, newer>>

\* A row inserted now has a greater id than all others have.
GetsId(o) == newer' = [p \in Orders |-> IF p = o THEN {} ELSE newer[p] \cup {o}]

\* The flush inserts the row; woo_order_id is unique. The row of a request
\* that has not committed is waited for.
Insert(i) ==
    /\ In(i, "insert")
    /\ ~\E j \in Requests : In(j, "commit") /\ req[j].order = req[i].order
    /\ IF req[i].order \in mapped
       THEN Answers(i, "error") /\ UNCHANGED newer
       ELSE Goes(i, "commit") /\ GetsId(req[i].order)
    /\ UNCHANGED <<odoo, mapped, faults, deletes, paid, unmapped>>

Commit(i) ==
    /\ In(i, "commit")
    /\ mapped' = mapped \cup {req[i].order}
    /\ Answers(i, "synced")
    /\ UNCHANGED <<odoo, faults, deletes, paid, unmapped, newer>>

CommitFails(i) ==
    /\ In(i, "commit")
    /\ Fault
    /\ Pay(req[i].order, 1)
    /\ Answers(i, "error")
    /\ UNCHANGED <<odoo, mapped, deletes, unmapped, newer>>

\* delete_order_mapping: the sale order stays in Odoo.
Delete(o) ==
    /\ o \in mapped /\ deletes < MaxDeletes
    /\ deletes' = deletes + 1
    /\ mapped' = mapped \ {o}
    /\ unmapped' = unmapped \cup {o}
    /\ Pay(o, 1)
    /\ UNCHANGED <<req, odoo, faults, newer>>

Serving(i) == req[i].phase \in {"check"} \cup Past
Created(o) == Cardinality({i \in Requests : req[i].order = o /\ req[i].phase \in {"insert", "commit"}})

\* The API process ends, perhaps while Odoo carries out a request's create.
\* Open transactions are rolled back and the browsers see their connections
\* end.
Crash ==
    /\ Fault
    /\ \E i \in Requests : Serving(i)
    /\ \E half \in {{}} \cup {{req[i].order} : i \in {j \in Requests : In(j, "create")}} :
        LET extra == [o \in Orders |-> IF o \in half THEN 1 ELSE 0]
        IN  /\ odoo' = [o \in Orders |-> odoo[o] + extra[o]]
            /\ paid' = [o \in Orders |-> paid[o] + Created(o) + extra[o]]
    /\ req' = [i \in Requests |->
                  IF Serving(i) THEN [req[i] EXCEPT !.phase = "answer", !.result = "error"] ELSE req[i]]
    /\ UNCHANGED <<mapped, deletes, unmapped, newer>>

Serve(i) ==
    \/ Check(i) \/ FetchFails(i)
    \/ Create(i) \/ CreateFails(i)
    \/ Insert(i)
    \/ Commit(i) \/ CommitFails(i)

SyncInit ==
    /\ req = [i \in Requests |-> Unused]
    /\ odoo = [o \in Orders |-> 0]
    /\ mapped = {}
    /\ faults = 0
    /\ deletes = 0
    /\ paid = [o \in Orders |-> 0]
    /\ unmapped = {}
    /\ newer = [o \in Orders |-> {}]
=============================================================================
