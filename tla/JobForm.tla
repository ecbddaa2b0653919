------------------------------ MODULE JobForm ------------------------------
(***************************************************************************)
(* The five steps that make a new job and edit an old one: two pages with  *)
(* the same steps, one form and one save each.                             *)
(*                                                                         *)
(* frontend/src/app/jobs/new/page.tsx, frontend/src/app/jobs/[id]/edit/    *)
(* page.tsx. Names are blank or not; descriptions and connections, which   *)
(* nothing here depends on, are left out.                                  *)
(***************************************************************************)
EXTENDS JobTable

CONSTANTS
    MaxVisits,      \* pages the user opens
    Adapts          \* what the client library, not in the repository, makes
                    \* good of two differences between pages and API:
                    \* "direction" (pages send sync_direction), "items"
                    \* (the list page reads items, the API answers jobs)

ASSUME AdaptsAssumption == Adapts \subseteq {"direction", "items"}
ASSUME VisitsAssumption == MaxVisits \in Nat \ {0}

VARIABLES
    page,       \* "list", "new" or "edit"
    visit,      \* pages opened so far
    target,     \* the job being edited
    form,       \* the form as it was when it appeared
    saving,     \* Save has been pressed
    loaded,     \* the form of an edit page has its job
    known       \* job -> the row the query cache has for it, {} or {row}

formVars == <<page, visit, target, form, saving, loaded, known>>

Pages == {"list", "new", "edit"}
Form == [named : BOOLEAN, enabled : BOOLEAN, direction : Directions, filters : Filters,
         mappings : {"none", "default", "valid"}, schedule : Schedules, base : SUBSET Job]

NewForm ==
    [named |-> FALSE, enabled |-> TRUE, direction |-> CHOOSE d \in Directions : TRUE,
     filters |-> NoFilters,
     mappings |-> "default", schedule |-> "none", base |-> {}]

\* jobToFormState. It looks for an interval in interval_minutes and trigger,
\* which the API does not have: such a job looks manual, and so does a cron
\* job without an expression. Of a mapping it takes the fields and the
\* direction, not whether it is enabled: what it sends is enabled.
FormOf(row) ==
    [named |-> TRUE, enabled |-> row.enabled, direction |-> row.direction,
     filters |-> row.filters,
     mappings |-> IF row.mappings = "none" THEN "default" ELSE "valid",
     schedule |-> IF row.schedule \in {"cron", "bad cron"} THEN row.schedule ELSE "none",
     base |-> {row}]

\* buildJobBody: manual is null; no mapping at all becomes the default ones.
SentFields(f) ==
    {"enabled", "filters", "mappings"}
        \cup (IF f.schedule = "none" THEN {} ELSE {"schedule"})
        \cup (IF "direction" \in Adapts THEN {"direction"} ELSE {})
BodyOf(f) ==
    [k \in SentFields(f) |-> IF k = "mappings" /\ f.mappings = "none" THEN "default" ELSE f[k]]

OnForm == page = "new" \/ (page = "edit" /\ loaded)

\* A page appears: the state of the one before it is gone.
Open(p, j, f, l) ==
    /\ visit' = visit + 1
    /\ page' = p
    /\ target' = j
    /\ form' = f
    /\ loaded' = l
    /\ saving' = FALSE

OpenNew == Open("new", 1, NewForm, FALSE) /\ UNCHANGED known

\* Of a job it knows an edit page has the row at once, unless the cache has
\* let go of it; what the request that follows brings no longer reaches the
\* form.
OpenEdit(j) ==
    \/ \E row \in known[j] : Open("edit", j, FormOf(row), TRUE) /\ UNCHANGED known
    \/ Open("edit", j, NewForm, FALSE) /\ known' = [known EXCEPT ![j] = {}]

\* GET /api/jobs/{id}, of a job that is not known yet or is old: asked and
\* answered while the page waits, the row goes to the cache, and to the form
\* the first time.
JobArrives ==
    /\ page = "edit"
    /\ known[target] # {rows[target]}
    /\ known' = [known EXCEPT ![target] = {rows[target]}]
    /\ loaded' = TRUE
    /\ form' = IF loaded THEN form ELSE FormOf(rows[target])
    /\ UNCHANGED <<tableVars, page, visit, target, saving>>

\* What each step lets the user make of a form. Going back and forth between
\* them is free, so that the form of a save is one in which all are made.
StepBasicInfo(f) == {[f EXCEPT !.named = b, !.direction = d] : b \in BOOLEAN, d \in Directions}
StepFilters(f) == {[f EXCEPT !.filters = l] : l \in Filters}
StepFieldMappings(f) == {[f EXCEPT !.mappings = m] : m \in {"none", "default", "valid"}}
StepSchedule(f) == {[f EXCEPT !.schedule = s] : s \in Schedules}

Filled(f) ==
    LET Then(forms, Step(_)) == UNION {Step(g) : g \in forms}
    IN  Then(Then(Then(StepBasicInfo(f), StepFilters), StepFieldMappings), StepSchedule)

\* Save, at the last step. The first lets nobody past it without a name.
HandleSave ==
    /\ OnForm
    /\ ~saving
    /\ saving' = TRUE
    /\ \E f \in Filled(form) :
          /\ f.named
          /\ Send(visit, page, IF page = "new" THEN "create" ELSE "put",
                  IF page = "new" THEN 0 ELSE target,
                  BodyOf(f), IF f = form THEN f.base ELSE {})
    /\ UNCHANGED <<rows, beat, excused, page, visit, target, form, loaded, known>>

Ours(c) == c.page \in {"new", "edit"} /\ c.waiting

\* The request is refused, or its answer is lost: the form is there again.
SaveFails(c) ==
    /\ Ours(c)
    /\ \/ c.phase = "refused" /\ calls' = calls \ {c}
       \/ c.phase # "refused" /\ Become(c, [c EXCEPT !.waiting = FALSE])
    /\ saving' = (saving /\ c.visit # visit)
    /\ UNCHANGED <<rows, beat, sent, excused, page, visit, target, form, loaded, known>>
=============================================================================
