---------------------------- MODULE SetupWizard ----------------------------
(***************************************************************************)
(* The first-run wizard and the guard that sends the browser to it.        *)
(*                                                                         *)
(* frontend/src/app/setup/page.tsx, frontend/src/components/SetupGuard.tsx *)
(* and backend/setup/router.py. The sidebar is outside the guard, so that  *)
(* every path can be reached at any time. A request carries the visit it   *)
(* was sent from: the guard ignores an answer to another visit, the wizard *)
(* acts on it.                                                             *)
(***************************************************************************)
EXTENDS ConnectionTable

CONSTANT MaxVisits  \* bound: how often the user changes the path

ASSUME WizardAssumption == MaxVisits \in Nat

VARIABLES
    path,           \* pathname of the browser
    checked,        \* SetupGuard: children may be rendered
    completed,      \* settings row setup_completed
    step,           \* step of the wizard
    job,            \* state of the first-job step
    finishing,      \* isCompleting
    reqs,           \* requests of the guard and of the last two steps
    jobs,           \* sync jobs the wizard has created
    hasty           \* history: the user left a wizard that was completing

wizardVars == <<path, checked, completed, step, job, finishing, reqs, jobs,
                hasty>>

Excluded == {"/setup"}
Paths == Excluded \cup {"/", "/connections"}
Rendered == checked \/ path \in Excluded
OnWizard == path = "/setup"

\* Bug form of Mount: the guard asks only until it has been satisfied once.
MountUnlessChecked(p, pending) ==
    /\ path' = p
    /\ visit' = visit + 1
    /\ section' = Untouched
    /\ made' = [s \in Sections |-> {}]
    /\ step' = 1
    /\ job' = "none"
    /\ finishing' = FALSE
    /\ checked' = (checked \/ p \in Excluded)
    /\ reqs' = pending \cup
        IF p \in Excluded \/ checked THEN {}
        ELSE {[kind |-> "status", visit |-> visit + 1, answer |-> "none"]}

\* What a path shows once it is reached: every page starts afresh, and the
\* guard asks for the status on a path it guards.
Mount(p, pending) ==
    /\ path' = p
    /\ visit' = visit + 1
    /\ section' = Untouched
    /\ made' = [s \in Sections |-> {}]
    /\ step' = 1
    /\ job' = "none"
    /\ finishing' = FALSE
    /\ checked' = (checked \/ p \in Excluded)
    /\ reqs' = pending \cup
        IF p \in Excluded THEN {}
        ELSE {[kind |-> "status", visit |-> visit + 1, answer |-> "none"]}

Navigate(p) ==
    /\ visit < MaxVisits
    /\ p # path
    /\ Mount(p, reqs)
    /\ hasty' = (hasty \/ \E r \in reqs : r.kind = "complete")
    /\ UNCHANGED <<conns, calls, presses, lost, completed, jobs>>

Pending(kind, answer) == {r \in reqs : r.kind = kind /\ r.answer = answer}

-----------------------------------------------------------------------------
(* The guard *)

ServerStatus(r) ==
    /\ r \in Pending("status", "none")
    /\ reqs' = (reqs \ {r}) \cup
        {[r EXCEPT !.answer = IF completed THEN "completed" ELSE "first run"]}
    /\ UNCHANGED <<tableVars, path, checked, completed, step, job, finishing, jobs, hasty>>

\* Bug form of Live: the effect has no cleanup.
LiveForEver(r) == r \in reqs

\* The effect of a path that was left has been cancelled.
Live(r) == r.visit = visit

Redirect(r) ==
    /\ r \in Pending("status", "first run")
    /\ Live(r)
    /\ Mount("/setup", reqs \ {r})
    /\ UNCHANGED <<conns, calls, presses, lost, completed, jobs, hasty>>

CheckPasses(r) ==
    /\ r \in Pending("status", "completed")
    /\ Live(r)
    /\ checked' = TRUE
    /\ reqs' = reqs \ {r}
    /\ UNCHANGED <<tableVars, path, completed, step, job, finishing, jobs, hasty>>

CheckIgnored(r) ==
    /\ r \in reqs
    /\ r.kind = "status"
    /\ r.answer # "none"
    /\ ~Live(r)
    /\ reqs' = reqs \ {r}
    /\ UNCHANGED <<tableVars, path, checked, completed, step, job, finishing, jobs, hasty>>

\* A check that fails lets the page through.
CheckFails(r) ==
    /\ r \in reqs
    /\ r.kind = "status"
    /\ lost < MaxLost
    /\ lost' = lost + 1
    /\ reqs' = reqs \ {r}
    /\ Live(r)
    /\ checked' = TRUE
    /\ UNCHANGED <<conns, visit, section, calls, presses, made, path, completed, step, job,
                   finishing, jobs, hasty>>

-----------------------------------------------------------------------------
(* The wizard *)

GoNext ==
    /\ OnWizard
    /\ step < 6
    /\ step' = step + 1
    /\ UNCHANGED <<tableVars, path, checked, completed, job, finishing, reqs, jobs,
                   hasty>>

GoBack ==
    /\ OnWizard
    /\ step \in 2..5
    /\ step' = step - 1
    /\ UNCHANGED <<tableVars, path, checked, completed, job, finishing, reqs, jobs,
                   hasty>>

StepOdoo(g) ==
    /\ OnWizard
    /\ step = 2
    /\ SaveAndTest("/setup", "odoo", g)
    /\ UNCHANGED wizardVars

StepWooCommerce(g) ==
    /\ OnWizard
    /\ step = 3
    /\ SaveAndTest("/setup", "woocommerce", g)
    /\ UNCHANGED wizardVars

\* What the currency step tells the user of two detected currencies.
Detected(s) == section[s].result \notin {"none", "failed", Unknown}
StepCurrency ==
    IF ~(Detected("odoo") /\ Detected("woocommerce")) THEN "not detected"
    ELSE IF section["odoo"].result = section["woocommerce"].result THEN "match"
    ELSE "mismatch"

\* odooState.connectionId ?? wcState.connectionId
JobConnection ==
    IF section["odoo"].id # 0 THEN section["odoo"].id ELSE section["woocommerce"].id

StepFirstJob ==
    /\ OnWizard
    /\ step = 5
    /\ job = "none"
    /\ JobConnection # 0
    /\ Press
    /\ job' = "creating"
    /\ reqs' = reqs \cup {[kind |-> "job", visit |-> visit, answer |-> "none"]}
    /\ UNCHANGED <<conns, visit, section, calls, lost, made, path, checked, completed, step, finishing, jobs, hasty>>

\* The default mappings of the endpoint have a direction that the schema of a
\* field mapping does not have: building them raises a ValidationError.
DefaultDirections == {"bidirectional"}
MappingDirections == {"odoo_to_wc", "wc_to_odoo", "both", "skip"}
FirstJobValid == DefaultDirections \subseteq MappingDirections

ServerFirstJob(r) ==
    /\ r \in Pending("job", "none")
    /\ reqs' = (reqs \ {r}) \cup
        {[r EXCEPT !.answer = IF FirstJobValid THEN "created" ELSE "error"]}
    /\ jobs' = IF FirstJobValid THEN jobs + 1 ELSE jobs
    /\ UNCHANGED <<tableVars, path, checked, completed, step, job, finishing, hasty>>

FirstJobAnswered(r) ==
    /\ r \in reqs
    /\ r.kind = "job"
    /\ r.answer # "none"
    /\ reqs' = reqs \ {r}
    /\ job' = IF ~Live(r) THEN job ELSE IF r.answer = "created" THEN "created" ELSE "none"
    /\ UNCHANGED <<tableVars, path, checked, completed, step, finishing, jobs, hasty>>

StepComplete ==
    /\ OnWizard
    /\ step = 6
    /\ ~finishing
    /\ visit <= MaxVisits
    /\ Press
    /\ finishing' = TRUE
    /\ reqs' = reqs \cup {[kind |-> "complete", visit |-> visit, answer |-> "none"]}
    /\ UNCHANGED <<conns, visit, section, calls, lost, made, path, checked, completed, step, job, jobs, hasty>>

ServerComplete(r) ==
    /\ r \in Pending("complete", "none")
    /\ completed' = TRUE
    /\ reqs' = (reqs \ {r}) \cup {[r EXCEPT !.answer = "completed"]}
    /\ UNCHANGED <<tableVars, path, checked, step, job, finishing, jobs, hasty>>

\* router.push('/') of the handler, wherever the user has gone meanwhile.
Completed(r) ==
    /\ r \in Pending("complete", "completed")
    /\ IF path = "/"
       THEN /\ reqs' = reqs \ {r}
            /\ UNCHANGED <<tableVars, path, checked, step, job, finishing>>
       ELSE /\ Mount("/", reqs \ {r})
            /\ UNCHANGED <<conns, calls, presses, lost>>
    /\ UNCHANGED <<completed, jobs, hasty>>

\* The request of one of the last two steps fails, or its answer is lost: the
\* button is offered again.
StepFails(r) ==
    /\ r \in reqs
    /\ r.kind \in {"job", "complete"}
    /\ lost < MaxLost
    /\ lost' = lost + 1
    /\ reqs' = reqs \ {r}
    /\ job' = IF Live(r) /\ r.kind = "job" THEN "none" ELSE job
    /\ finishing' = (finishing /\ ~(Live(r) /\ r.kind = "complete"))
    /\ UNCHANGED <<conns, visit, section, calls, presses, made, path, checked, completed, step,
                   jobs, hasty>>
=============================================================================
