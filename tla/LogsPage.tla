------------------------------ MODULE LogsPage ------------------------------
(***************************************************************************)
(* The review tab of the logs page: a cached list of the items that need   *)
(* review, with a retry and a dismiss button each and one to retry all.    *)
(*                                                                         *)
(* frontend/src/app/logs/page.tsx, over the review queue it calls. As the  *)
(* page uses it, the client library hands over the array of items with     *)
(* their status. The executions tab changes nothing and is left out.       *)
(***************************************************************************)
EXTENDS ReviewQueue

CONSTANT PageSize   \* page_size: the page asks for no other page than the first

ASSUME PageAssumption == PageSize \in Nat \ {0}

VARIABLES
    tab,        \* "executions" or "review"
    fetch,      \* the list request: "idle", "asked", "served"
    bringing,   \* the items a served list brings
    items,      \* the cached list
    stale,      \* it has been invalidated, or never fetched
    pressed,    \* <<kind, log>> of the rows' buttons that wait
    bulk,       \* requests of "retry all" that are not settled
    unseen      \* logs of requests that are not the page's, whose answer it does
                \* not get, or gets on the other tab with a list on its way

pageVars == <<tab, fetch, bringing, items, stale, pressed, bulk, unseen>>
vars == <<queueVars, pageVars>>

Listed == {l \in Logs : log[l].status = "failed_permanent"}

\* The query is enabled on its tab only: a list that is stale, or a minute
\* old, is fetched when the tab is opened.
OpenTab(t) ==
    /\ tab # t
    /\ tab' = t
    /\ \/ fetch' = IF t = "review" /\ fetch = "idle" THEN "asked" ELSE fetch
       \/ ~stale /\ fetch' = fetch
    /\ UNCHANGED <<queueVars, bringing, items, stale, pressed, bulk, unseen>>

Refresh ==
    /\ tab = "review"
    /\ fetch' = "asked"
    /\ fetch # "asked"
    /\ UNCHANGED <<queueVars, tab, bringing, items, stale, pressed, bulk, unseen>>

ListServed ==
    /\ fetch = "asked"
    /\ fetch' = "served"
    /\ \E page \in SUBSET Listed :
          /\ \/ Cardinality(page) = PageSize
             \/ page = Listed /\ Cardinality(page) < PageSize
          /\ bringing' = page
    /\ UNCHANGED <<queueVars, tab, items, stale, pressed, bulk, unseen>>

ListArrives ==
    /\ fetch = "served"
    /\ fetch' = "idle"
    /\ items' = bringing
    /\ bringing' = {}
    /\ stale' = FALSE
    /\ UNCHANGED <<queueVars, tab, pressed, bulk, unseen>>

\* The buttons of a row each wait for their own answer only.
Press(kind, l) ==
    /\ tab = "review"
    /\ l \in items
    /\ <<kind, l>> \notin pressed
    /\ pressed' = pressed \cup {<<kind, l>>}
    /\ Send(kind, {l}, "row")
    /\ UNCHANGED <<log, queued, worker, faults, stranded, asked, attempts, shared,
                   tab, fetch, bringing, items, stale, bulk, unseen>>

\* One request per item that has failed, all at once.
RetryAll ==
    /\ tab = "review"
    /\ bulk = {}
    /\ items # {}
    /\ sent + Cardinality(items) <= MaxCalls
    /\ LET order == CHOOSE f \in [items -> 1..Cardinality(items)] :
                        \A l, m \in items : f[l] = f[m] => l = m
       IN  /\ bulk' = {sent + order[l] : l \in items}
           /\ calls' = calls \cup
                  {[no |-> sent + order[l], kind |-> "retry", logs |-> {l}, page |-> "all",
                    snap |-> NoRows, left |-> {}, phase |-> "sent"] : l \in items}
    /\ sent' = sent + Cardinality(items)
    /\ UNCHANGED <<log, queued, worker, faults, stranded, asked, attempts, shared,
                   tab, fetch, bringing, items, stale, pressed, unseen>>

\* Bug form of Invalidate: a list on its way is taken for the new one.
InvalidateOnce ==
    /\ stale' = TRUE
    /\ fetch' = IF tab = "review" /\ fetch = "idle" THEN "asked" ELSE fetch
    /\ bringing' = bringing

\* A list on its way was read too early: it is dropped and asked for again.
Invalidate ==
    /\ stale' = TRUE
    /\ fetch' = IF tab = "review" THEN "asked" ELSE fetch
    /\ bringing' = IF tab = "review" THEN {} ELSE bringing

\* Bug form of Settled: the bulk is over with its first answer.
SettledOnce(c) ==
    /\ IF c.page = "row"
       THEN /\ pressed' = pressed \ {<<c.kind, l>> : l \in c.logs}
            /\ UNCHANGED bulk
       ELSE bulk' = {} /\ UNCHANGED pressed
    /\ Invalidate
    /\ UNCHANGED <<log, queued, worker, sent, stranded, asked, attempts, shared, tab, items>>

\* onSettled of a row's button, and Promise.allSettled of the bulk.
Settled(c) ==
    /\ IF c.page = "row"
       THEN /\ pressed' = pressed \ {<<c.kind, l>> : l \in c.logs}
            /\ UNCHANGED bulk
       ELSE /\ bulk' = bulk \ {c.no}
            /\ UNCHANGED pressed
    /\ IF c.page = "row" \/ bulk' = {} THEN Invalidate ELSE UNCHANGED <<stale, fetch, bringing>>
    /\ UNCHANGED <<log, queued, worker, sent, stranded, asked, attempts, shared, tab, items>>

Overtaken == tab # "review" /\ fetch # "idle"

Answered(c) ==
    /\ c.page # "none"
    /\ Served(c)
    /\ calls' = calls \ {c}
    /\ Settled(c)
    /\ unseen' = IF Overtaken THEN Logs ELSE unseen
    /\ UNCHANGED faults

\* The answer is lost, the handler goes on.
AnswerLost(c) ==
    /\ c.page # "none"
    /\ Fault
    /\ unseen' = IF Overtaken THEN Logs ELSE unseen \cup c.logs
    /\ Become(c, [c EXCEPT !.page = "none"])
    /\ Settled(c)

\* Answers nobody waits for.
Dropped(c) ==
    /\ c.page = "none"
    /\ Served(c)
    /\ calls' = calls \ {c}
    /\ UNCHANGED <<log, queued, worker, sent, faults, stranded, asked, attempts, shared, pageVars>>

\* Another client of the API, on any log.
Other ==
    /\ \/ \E kind \in {"retry", "dismiss"}, l \in Logs :
             Send(kind, {l}, "none") /\ unseen' = unseen \cup {l}
       \/ Send("retry-all", Logs, "none") /\ unseen' = Logs
    /\ UNCHANGED <<log, queued, worker, faults, stranded, asked, attempts, shared,
                   tab, fetch, bringing, items, stale, pressed, bulk>>

Init ==
    /\ QueueInit
    /\ tab = "executions"
    /\ fetch = "idle"
    /\ bringing = {} /\ items = {} /\ stale = TRUE
    /\ pressed = {} /\ bulk = {} /\ unseen = {}

Server(c) == Serve(c) /\ UNCHANGED pageVars

Next ==
    \/ \E t \in {"executions", "review"} : OpenTab(t)
    \/ Refresh
    \/ ListServed
    \/ ListArrives
    \/ \E kind \in {"retry", "dismiss"}, l \in Logs : Press(kind, l)
    \/ RetryAll
    \/ \E c \in calls : Answered(c) \/ AnswerLost(c) \/ Dropped(c)
    \/ \E c \in calls : Server(c)
    \/ \E w \in Workers : Task(w) /\ UNCHANGED pageVars
    \/ Other

Spec == Init /\ [][Next]_vars

-----------------------------------------------------------------------------
(* Properties *)

\* Every variable has its type; the buttons that wait are those of requests.
TypeOK ==
    /\ log \in [Logs -> Row]
    /\ queued \in [Logs -> Nat]
    /\ worker \in [Workers -> [log : Logs, phase : Phases, snap : Row]]
    /\ \A c \in calls :
          /\ c.kind \in {"retry", "dismiss", "retry-all"}
          /\ c.logs \subseteq Logs /\ c.left \subseteq c.logs /\ DOMAIN c.snap \subseteq c.logs
          /\ c.page \in {"row", "all", "none"}
          /\ c.phase \in {"sent", "loaded", "committed"}
    /\ sent \in 0..MaxCalls /\ faults \in 0..MaxFaults /\ unseen \subseteq Logs
    /\ stranded \subseteq Logs /\ shared \subseteq Logs
    /\ asked \in [Logs -> Nat] /\ attempts \in [Logs -> Nat]
    /\ tab \in {"executions", "review"} /\ fetch \in {"idle", "asked", "served"}
    /\ bringing \subseteq Logs /\ items \subseteq Logs /\ stale \in BOOLEAN
    /\ pressed = UNION {{<<c.kind, l>> : l \in c.logs} : c \in {d \in calls : d.page = "row"}}
    /\ bulk = {c.no : c \in {d \in calls : d.page = "all"}}

\* The screen at rest shows no item that was retried or dismissed on it: the
\* list is read again after every answer, and one read before is not shown
\* (but when the answer finds the other tab open: the query is then disabled,
\* and the list on its way counts as fresh when it arrives; and of two tasks
\* that work on an item the first may have it shown again).
NotLeftOnScreen ==
    tab = "review" /\ fetch = "idle" /\ pressed = {} /\ bulk = {} =>
        \A l \in items \ (unseen \cup shared) : log[l].status = "failed_permanent"
=============================================================================
