------------------------------ MODULE JobDesk ------------------------------
(***************************************************************************)
(* The list of sync jobs, with its buttons and its cached rows, together   *)
(* with the forms and with other clients of the API.                       *)
(*                                                                         *)
(* frontend/src/app/jobs/page.tsx. Requests and handlers of a page that    *)
(* was left go on; a save that succeeds leads to the list from anywhere.   *)
(* Filters of the list, which hide rows and no more, are left out.         *)
(***************************************************************************)
EXTENDS JobForm

CONSTANTS
    Seeds,          \* what the first job can be
    MaxOthers,      \* requests of other clients
    MaxFailures     \* restarts of the API and answers that are lost

ASSUME FaultsAssumption == Seeds \subseteq Job /\ MaxOthers \in Nat /\ MaxFailures \in Nat

VARIABLES
    fetch,      \* the list request: {} or what it brings, Asked before that
    list,       \* the enabled flags of the cached rows, <<>> without any
    stale,      \* the cached list has been invalidated
    pressed,    \* jobs of this page whose toggle, run or deletion is not answered
    others,     \* requests other clients have sent
    failures    \* failures so far

listVars == <<fetch, list, stale, pressed, others, failures>>
vars == <<tableVars, formVars, listVars>>

Idle == <<"idle">>
Asked == <<"asked">>
Flags == [i \in DOMAIN rows |-> rows[i].enabled]

\* The list page appears: it fetches a list that is missing, invalidated or a
\* minute old.
OpenList ==
    /\ Open("list", 1, NewForm, FALSE)
    /\ \/ fetch' = IF fetch = Idle THEN Asked ELSE fetch
       \/ list # <<>> /\ ~stale /\ fetch' = fetch
    /\ UNCHANGED known

Navigate ==
    /\ visit < MaxVisits
    /\ \/ OpenList
       \/ OpenNew /\ UNCHANGED fetch
       \/ \E j \in DOMAIN rows : OpenEdit(j) /\ UNCHANGED fetch
    /\ pressed' = {}
    /\ UNCHANGED <<tableVars, list, stale, others, failures>>

ListServed ==
    /\ fetch = Asked
    /\ fetch' = <<"rows", IF "items" \in Adapts THEN Flags ELSE <<>> >>
    /\ UNCHANGED <<tableVars, formVars, list, stale, pressed, others, failures>>

ListArrives ==
    /\ fetch[1] = "rows"
    /\ list' = fetch[2]
    /\ fetch' = Idle
    /\ stale' = FALSE
    /\ UNCHANGED <<tableVars, formVars, pressed, others, failures>>

\* A button of a row: one request of its kind at a time for a row of the page.
Button(kind, j, body) ==
    /\ page = "list"
    /\ <<kind, j>> \notin pressed
    /\ pressed' = pressed \cup {<<kind, j>>}
    /\ Send(visit, "list", kind, j, body, {})
    /\ UNCHANGED <<rows, beat, excused, formVars, fetch, list, stale, others, failures>>

Toggle(j) == Button("put", j, Enable(~list[j]))

RunNow(j) == list[j] /\ Button("run", j, <<>>)

\* With a dialog that asks first, one job at a time.
Delete(j) ==
    /\ \A i \in Ids : <<"delete", i>> \notin pressed
    /\ Button("delete", j, Enable(FALSE))

\* onSuccess and onError of the three mutations; success fetches the list
\* again, in place of a request under way if the page is there.
Heard(c, ok) ==
    /\ c.page = "list"
    /\ c.waiting
    /\ pressed' = IF c.visit = visit THEN pressed \ {<<c.kind, c.id>>} ELSE pressed
    /\ IF ok
       THEN stale' = TRUE /\ fetch' = IF page = "list" THEN Asked ELSE fetch
       ELSE UNCHANGED <<stale, fetch>>
    /\ UNCHANGED <<rows, beat, sent, excused, formVars, list, others>>

Succeeds(c) ==
    /\ c.phase = "answered"
    /\ calls' = calls \ {c}
    /\ Heard(c, TRUE)
    /\ UNCHANGED failures

Fails(c) ==
    /\ c.phase = "refused"
    /\ calls' = calls \ {c}
    /\ Heard(c, FALSE)
    /\ UNCHANGED failures

\* router.push('/jobs'), wherever the user is by then.
SaveSucceeds(c) ==
    /\ Ours(c)
    /\ c.phase = "answered"
    /\ calls' = calls \ {c}
    /\ OpenList
    /\ pressed' = {}
    /\ UNCHANGED <<rows, beat, sent, excused, list, stale, others, failures>>

Other ==
    /\ others < MaxOthers
    /\ others' = others + 1
    /\ \E j \in DOMAIN rows :
          \/ \E b \in BOOLEAN : Send(0, "api", "put", j, Enable(b), {})
          \/ \E s \in Schedules \ {"none"} : Send(0, "api", "put", j, [schedule |-> s], {})
          \/ \E m \in {"valid", "muted"} : Send(0, "api", "put", j, [mappings |-> m], {})
    /\ UNCHANGED <<rows, beat, excused, formVars, fetch, list, stale, pressed, failures>>

AnswerLost(c) ==
    /\ failures < MaxFailures
    /\ failures' = failures + 1
    /\ c.phase # "refused"
    /\ \/ SaveFails(c) /\ UNCHANGED <<fetch, list, stale, pressed, others>>
       \/ Become(c, [c EXCEPT !.waiting = FALSE]) /\ Heard(c, FALSE)

ServerRestarts ==
    /\ failures < MaxFailures
    /\ failures' = failures + 1
    /\ Restart
    /\ UNCHANGED <<formVars, fetch, list, stale, pressed, others>>

Server(c) == Serve(c) \/ Unheard(c)

\* One job, of any kind; Beat has it, or has forgotten it in a restart. The
\* tab may know the job from an earlier visit.
Init ==
    /\ rows \in {<<row>> : row \in Seeds}
    /\ \/ beat = [j \in Ids |-> IF j = 1 THEN Wanted(rows[1]) ELSE "none"] /\ excused = {}
       \/ beat = [j \in Ids |-> "none"] /\ excused = Ids
    /\ calls = {}
    /\ sent = 0
    /\ page = "list" /\ visit = 1
    /\ target = 1 /\ form = NewForm /\ saving = FALSE /\ loaded = FALSE
    /\ known \in {[j \in Ids |-> IF j = 1 THEN k ELSE {}] : k \in {{}, {rows[1]}}}
    /\ fetch = Asked /\ list = <<>> /\ stale = FALSE
    /\ pressed = {}
    /\ others = 0 /\ failures = 0

Next ==
    \/ Navigate
    \/ ListServed
    \/ ListArrives
    \/ (HandleSave \/ JobArrives) /\ UNCHANGED listVars
    \/ \E j \in DOMAIN list : Toggle(j) \/ RunNow(j) \/ Delete(j)
    \/ \E c \in calls : Server(c) /\ UNCHANGED <<formVars, listVars>>
    \/ \E c \in calls : Succeeds(c) \/ Fails(c) \/ SaveSucceeds(c) \/ AnswerLost(c)
    \/ \E c \in calls : c.phase = "refused" /\ SaveFails(c) /\ UNCHANGED listVars
    \/ Other
    \/ ServerRestarts

Spec == Init /\ [][Next]_vars

-----------------------------------------------------------------------------
(* Properties *)

Call == [no : 1..MaxCalls, visit : 0..(MaxVisits + MaxCalls), page : {"list", "new", "edit", "api"},
         kind : {"create", "put", "delete", "run"}, id : 0..MaxJobs, base : SUBSET Job,
         phase : {"sent", "loaded", "committed", "refreshed", "answered", "refused"},
         snap : Job, alone : BOOLEAN, waiting : BOOLEAN]

\* Every variable has its type; a request past its first step names a row.
TypeOK ==
    /\ rows \in Seq(Job) /\ Len(rows) <= MaxJobs
    /\ beat \in [Ids -> Schedules]
    /\ \A c \in calls :
          /\ [f \in DOMAIN c \ {"body"} |-> c[f]] \in Call
          /\ c.id <= Len(rows)
          /\ c.id = 0 => c.kind = "create" /\ c.phase \in {"sent", "refused"}
    /\ sent \in 0..MaxCalls
    /\ excused \subseteq Ids
    /\ page \in Pages /\ visit \in 1..(MaxVisits + MaxCalls) /\ target \in Ids
    /\ form \in Form
    /\ saving \in BOOLEAN /\ loaded \in BOOLEAN
    /\ known \in [Ids -> SUBSET Job]
    /\ fetch[1] \in {"idle", "asked", "rows"}
    /\ list \in Seq(BOOLEAN) /\ Len(list) <= Len(rows)
    /\ stale \in BOOLEAN
    /\ pressed \subseteq {"put", "run", "delete"} \X Ids
    /\ others \in 0..MaxOthers
    /\ failures \in 0..MaxFailures

\* To open a job and save it as it is, as long as the row is still the one the
\* form was read from, changes nothing but that mappings which were switched
\* off are on: what else the form cannot hold (an interval, an expression that
\* is empty) the server must keep, but the form drops `enabled` of a mapping
\* and the API fills it in (edit/page.tsx:698-703, jobs/schemas.py:19).
UntouchedEditOnlyEnables ==
    [][\A c \in calls : Commit(c) /\ rows[c.id] \in c.base =>
          \/ rows' = rows
          \/ /\ rows[c.id].mappings = "muted"
             /\ rows' = [rows EXCEPT ![c.id].mappings = "valid"]]_vars
=============================================================================
