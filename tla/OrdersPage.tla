---------------------------- MODULE OrdersPage ----------------------------
(***************************************************************************)
(* The orders page, frontend/src/app/orders/page.tsx, over OrderSync: a    *)
(* form that syncs one order and the list of the orders synced. Other      *)
(* clients of the API sync orders at the same time.                        *)
(*                                                                         *)
(* The page reads `success` of the answer and an array as the list, where  *)
(* the API sends `status` and an object: the client in between, which the  *)
(* repository does not have, is taken to deliver what the page declares.   *)
(***************************************************************************)
EXTENDS OrderSync

CONSTANTS
    PageSize,       \* page_size of GET /api/orders (20 in the code)
    MaxVisits       \* bound: how often the page is opened

ASSUME VisitsAssumption == MaxVisits \in Nat \ {0} /\ PageSize \in Nat \ {0}

VARIABLES
    typed,          \* wcOrderId, with a connection chosen
    pending,        \* the request of this visit's mutation, or 0
    sent,           \* requests of this page that are not answered, by visit
    feedback,       \* syncFeedback, and the order it is about
    visit,          \* number of the visit; between two the page is closed
    open,
    listed,         \* cached data of the query ['orders']
    fetch,          \* the query's request: idle, asked, or what it will bring
    loaded,         \* the query has data
    stale,          \* it is invalidated
    missed          \* history: a list has failed since, or a sync was reported
                    \* while the first one was on its way

formVars == <<typed, pending, sent, feedback, visit, open>>
listVars == <<listed, fetch, loaded, stale, missed>>
pageVars == <<formVars, listVars>>
vars == <<syncVars, pageVars>>

NoFeedback == [kind |-> "none", order |-> Nothing]
Idle == [step |-> "idle", brings |-> {}]
AskedFor == [step |-> "asked", brings |-> {}]

\* The next request is the first that is unused.
Free(i) == In(i, "unused") /\ \A j \in Requests : In(j, "unused") => i <= j

-----------------------------------------------------------------------------
(* The form *)

\* A new id, and one of the active WooCommerce connections.
Type(o) ==
    /\ open /\ o # typed
    /\ typed' = o
    /\ UNCHANGED <<syncVars, pending, sent, feedback, visit, open, listVars>>

\* The button is disabled while a mutation is pending.
Offered == open /\ pending = 0 /\ typed # Nothing

\* handleSync
Sync ==
    /\ Offered
    /\ \E i \in Requests :
           /\ Free(i)
           /\ Asked(i, typed)
           /\ pending' = i
           /\ sent' = sent \cup {[id |-> i, visit |-> visit]}
    /\ feedback' = NoFeedback
    /\ UNCHANGED <<odoo, mapped, faults, deletes, paid, unmapped, newer, typed, visit, open, listVars>>

\* A component that is no longer mounted keeps no state.
Tell(m, kind) ==
    IF open /\ m.visit = visit
    THEN /\ pending' = 0
         /\ feedback' = [kind |-> kind, order |-> req[m.id].order]
         /\ typed' = IF kind = "success" THEN Nothing ELSE typed
    ELSE UNCHANGED <<pending, feedback, typed>>

\* Bug form of Invalidate: a request on its way is taken for fresh.
InvalidateIdle ==
    /\ IF open
       THEN fetch' = (IF fetch = Idle THEN AskedFor ELSE fetch) /\ stale' = FALSE
       ELSE stale' = TRUE /\ UNCHANGED fetch
    /\ UNCHANGED missed

\* invalidateQueries: a mounted query is asked again and drops an answer on
\* its way, unless it has no data yet.
Invalidate ==
    /\ stale' = TRUE
    /\ fetch' = IF open /\ (loaded \/ fetch = Idle) THEN AskedFor ELSE fetch
    /\ missed' = (missed \/ (~loaded /\ fetch # Idle))

\* onSuccess runs also when the page has been left.
Answered(m) ==
    /\ In(m.id, "answer") /\ req[m.id].result \in {"synced", "failed"}
    /\ Ends(m.id)
    /\ sent' = sent \ {m}
    /\ IF req[m.id].result = "synced"
       THEN Tell(m, "success") /\ Invalidate
       ELSE Tell(m, "error") /\ UNCHANGED <<fetch, stale, missed>>
    /\ UNCHANGED <<odoo, mapped, faults, deletes, paid, unmapped, newer, visit, open, listed, loaded>>

\* onError: an error status, or no answer at all.
Errs(m) ==
    /\ In(m.id, "answer")
    /\ IF req[m.id].result = "error" THEN UNCHANGED faults ELSE Fault
    /\ Ends(m.id)
    /\ sent' = sent \ {m}
    /\ Tell(m, "error")
    /\ UNCHANGED <<odoo, mapped, deletes, paid, unmapped, newer, visit, open, listVars>>

-----------------------------------------------------------------------------
(* The list *)

\* ORDER BY id DESC LIMIT page_size: the page asks for no second page.
IsFirstPage(orders) ==
    /\ orders \subseteq mapped /\ Cardinality(orders) <= PageSize
    /\ orders = mapped \/ Cardinality(orders) = PageSize
    /\ \A o \in orders, p \in mapped \ orders : o \in newer[p]

ListServed ==
    /\ fetch = AskedFor
    /\ \E orders \in SUBSET mapped :
          /\ IsFirstPage(orders)
          /\ fetch' = [step |-> "answered", brings |-> orders]
    /\ missed' = (missed /\ ~loaded)
    /\ UNCHANGED <<syncVars, formVars, listed, loaded, stale>>

\* An arrival makes the data fresh again.
Becomes(data) == listed' = data /\ loaded' = TRUE /\ fetch' = Idle /\ stale' = FALSE

ListArrives ==
    /\ fetch.step = "answered"
    /\ Becomes(fetch.brings)
    /\ UNCHANGED <<syncVars, formVars, missed>>

\* The error is caught and an empty list returned in its place.
ListFails ==
    /\ fetch # Idle
    /\ Fault
    /\ Becomes({})
    /\ missed' = TRUE
    /\ UNCHANGED <<req, odoo, mapped, deletes, paid, unmapped, newer, formVars>>

-----------------------------------------------------------------------------

Leave ==
    /\ open
    /\ open' = FALSE
    /\ typed' = Nothing
    /\ pending' = 0
    /\ feedback' = NoFeedback
    /\ UNCHANGED <<syncVars, sent, visit, listVars>>

\* Mounting asks for the list when it is stale, or older than staleTime.
Return ==
    /\ ~open /\ visit < MaxVisits
    /\ open' = TRUE
    /\ visit' = visit + 1
    /\ \/ fetch' = (IF fetch = Idle THEN AskedFor ELSE fetch)
       \/ ~stale /\ UNCHANGED fetch
    /\ UNCHANGED <<syncVars, typed, pending, sent, feedback, listed, loaded, stale, missed>>

\* Another client of the API; what it is answered changes nothing here.
OtherSyncs(o) ==
    /\ \E i \in Requests : Free(i) /\ Asked(i, o)
    /\ UNCHANGED <<odoo, mapped, faults, deletes, paid, unmapped, newer, pageVars>>

OtherAnswered(i) ==
    /\ In(i, "answer") /\ \A m \in sent : m.id # i
    /\ Ends(i)
    /\ UNCHANGED <<odoo, mapped, faults, deletes, paid, unmapped, newer, pageVars>>

Init ==
    /\ SyncInit
    /\ typed = Nothing
    /\ pending = 0
    /\ sent = {}
    /\ feedback = NoFeedback
    /\ visit = 1
    /\ open = TRUE
    /\ listed = {}
    /\ fetch = AskedFor
    /\ loaded = FALSE /\ stale = FALSE /\ missed = FALSE

Server ==
    \/ \E i \in Requests : Serve(i)
    \/ \E o \in Orders : Delete(o)
    \/ Crash

Next ==
    \/ \E o \in Orders : Type(o)
    \/ Sync
    \/ \E m \in sent : Answered(m) \/ Errs(m)
    \/ ListServed
    \/ ListArrives
    \/ ListFails
    \/ Leave
    \/ Return
    \/ \E o \in Orders : OtherSyncs(o)
    \/ \E i \in Requests : OtherAnswered(i)
    \/ Server /\ UNCHANGED pageVars

Spec == Init /\ [][Next]_vars

-----------------------------------------------------------------------------
(* The screen *)

\* The message under the form says that its order is synced.
ReportsSuccess == open /\ feedback.kind = "success"

\* The rows of the table: none while the query has no data, or an empty list.
Shown == IF loaded THEN listed ELSE {}

-----------------------------------------------------------------------------
(* Properties *)

\* Every variable has its type; a mapping names an order that Odoo has.
TypeOK ==
    /\ req \in [Requests -> [order : Orders \cup {Nothing}, phase : Phases,
                             result : {"none", "synced", "failed", "error"}]]
    /\ odoo \in [Orders -> Nat] /\ paid \in [Orders -> Nat]
    /\ mapped \subseteq {o \in Orders : odoo[o] > 0}
    /\ unmapped \subseteq Orders /\ newer \in [Orders -> SUBSET Orders]
    /\ faults \in 0..MaxFaults /\ deletes \in 0..MaxDeletes
    /\ typed \in Orders \cup {Nothing}
    /\ pending \in {0} \cup {m.id : m \in sent}
    /\ sent \subseteq [id : Requests, visit : 1..MaxVisits]
    /\ feedback \in [kind : {"none", "success", "error"}, order : Orders \cup {Nothing}]
    /\ visit \in 1..MaxVisits /\ open \in BOOLEAN
    /\ listed \subseteq Orders
    /\ fetch \in [step : {"idle", "asked", "answered"}, brings : SUBSET Orders]
    /\ loaded \in BOOLEAN /\ stale \in BOOLEAN /\ missed \in BOOLEAN

\* Odoo has an order twice only for a reason: two requests overlapped between
\* check and commit, an attempt was made again after its answer was lost, the
\* transaction did not commit, or the mapping was deleted. Pressing Sync again
\* after an answer never orders twice.
DuplicatesPaidFor == \A o \in Orders : odoo[o] <= 1 + paid[o]

\* The list under a success message has the order, or is a full page of orders
\* that came after it, once no request for the list is under way: a list read
\* before the commit does not stay on screen, and a new order is never pushed
\* off by older ones. The page's first list, which a success does not have read
\* again, and a request that failed, which counts as an empty list, are left
\* out (`missed`).
SuccessIsListed ==
    ReportsSuccess /\ fetch = Idle /\ ~missed =>
        \/ feedback.order \in Shown \cup unmapped
        \/ Shown \subseteq newer[feedback.order] /\ Cardinality(Shown) = PageSize
=============================================================================
