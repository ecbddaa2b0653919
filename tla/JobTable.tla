------------------------------ MODULE JobTable ------------------------------
(***************************************************************************)
(* Sync jobs on the server: their rows, the Celery Beat entries kept in    *)
(* the memory of the API process, and the requests that change both.       *)
(*                                                                         *)
(* backend/jobs/router.py, backend/jobs/service.py and the schedule        *)
(* registry of backend/tasks/scheduler.py. Every await of a handler lets   *)
(* other requests in: a handler is a chain of steps. Rows are never        *)
(* removed: deleting a job disables it.                                    *)
(***************************************************************************)
EXTENDS Integers, Sequences

CONSTANTS
    Directions,     \* values of a job's direction
    Filters,        \* its lists of filters, NoFilters among them
    Schedules,      \* the schedules in use, from AllSchedules
    MaxJobs,        \* rows the table can hold
    MaxCalls        \* requests sent that change a job

AllSchedules == {"none", "cron", "bad cron", "empty cron", "interval", "zero interval"}

NoFilters == "none"

ASSUME SchedulesAssumption == Schedules \subseteq AllSchedules /\ "none" \in Schedules
ASSUME FiltersAssumption == NoFilters \in Filters
ASSUME BoundsAssumption == MaxJobs \in Nat \ {0} /\ MaxCalls \in Nat

VARIABLES
    rows,       \* the sync_jobs table
    beat,       \* job -> the schedule Beat holds for it, "none" without entry
    calls,      \* requests under way
    sent,       \* requests sent so far
    excused     \* jobs whose Beat entry a restart or an overlap has left aside

tableVars == <<rows, beat, calls, sent, excused>>

\* The field mappings of a row: "muted" are valid ones of which some have
\* enabled = FALSE, which is True where a body does not say.
Mappings == {"none", "valid", "muted"}

Job == [enabled : BOOLEAN, direction : Directions, filters : Filters,
        mappings : Mappings, schedule : Schedules]
Ids == 1..MaxJobs
AnyJob == CHOOSE row \in Job : TRUE

\* register_job_schedule raises ValueError for the others.
Runnable == {"cron", "interval"}
Wanted(row) == IF row.enabled /\ row.schedule \in Runnable THEN row.schedule ELSE "none"
Unregistrable(row) == row.enabled /\ row.schedule \notin Runnable \cup {"none"}

\* A body: the fields of the job that are there and not null. The mappings
\* the page offers by default have a direction, bidirectional, that
\* FieldMappingRule does not know; a new job must have a direction.
Valid(kind, body) ==
    /\ "mappings" \in DOMAIN body => body.mappings # "default"
    /\ kind = "create" => "direction" \in DOMAIN body

Default == [enabled |-> TRUE, filters |-> NoFilters, mappings |-> "none", schedule |-> "none"]
NewJob(body) ==
    [k \in DOMAIN Default \cup DOMAIN body |-> IF k \in DOMAIN body THEN body[k] ELSE Default[k]]

\* Bug form of Updated: a schedule that is missing clears the column.
UpdatedClearing(row, snap, body) ==
    [f \in DOMAIN row |->
        IF f \in DOMAIN body THEN body[f]
        ELSE IF f = "schedule" THEN "none" ELSE row[f]]

\* The session writes the columns that differ from the row it has loaded.
Updated(row, snap, body) ==
    [f \in DOMAIN row |->
        IF f \in DOMAIN body /\ body[f] # snap[f] THEN body[f] ELSE row[f]]

\* A request: who waits for it (a visit of a page, 0 for another client), the
\* row an untouched edit form came from, and the row its session holds.
Send(visit, page, kind, id, body, base) ==
    /\ sent < MaxCalls
    /\ sent' = sent + 1
    /\ calls' = calls \cup {[no |-> sent + 1, visit |-> visit, page |-> page, kind |-> kind,
                             id |-> id, body |-> body, base |-> base, phase |-> "sent",
                             snap |-> AnyJob, alone |-> TRUE, waiting |-> visit # 0]}

Become(c, d) == calls' = (calls \ {c}) \cup {d}

\* Other requests between their SELECT and their schedule for the same job.
Underway(c) ==
    {d \in calls \ {c} : d.id = c.id /\ d.phase \in {"loaded", "committed", "refreshed"}}

Refuse(c) ==
    /\ c.phase = "sent"
    /\ c.kind \in {"create", "put"}
    /\ ~Valid(c.kind, c.body)
    /\ Become(c, [c EXCEPT !.phase = "refused"])
    /\ UNCHANGED <<rows, beat, sent, excused>>

\* get_job, of update_job and of soft_delete_job.
Load(c) ==
    /\ c.phase = "sent"
    /\ c.kind \in {"put", "delete"}
    /\ Valid(c.kind, c.body)
    /\ calls' = (calls \ ({c} \cup Underway(c)))
                  \cup {[d EXCEPT !.alone = FALSE] : d \in Underway(c)}
                  \cup {[c EXCEPT !.phase = "loaded", !.snap = rows[c.id],
                                  !.alone = Underway(c) = {}]}
    /\ UNCHANGED <<rows, beat, sent, excused>>

Commit(c) ==
    /\ c.phase = "loaded"
    /\ rows' = [rows EXCEPT ![c.id] = Updated(@, c.snap, c.body)]
    /\ Become(c, [c EXCEPT !.phase = "committed"])
    /\ UNCHANGED <<beat, sent, excused>>

\* Bug form of Create: the row's id is not read back after the commit.
CreateAnonymous(c) ==
    /\ c.phase = "sent"
    /\ c.kind = "create"
    /\ Valid(c.kind, c.body)
    /\ Len(rows) < MaxJobs
    /\ rows' = Append(rows, NewJob(c.body))
    /\ Become(c, [c EXCEPT !.phase = "committed"])
    /\ UNCHANGED <<beat, sent, excused>>

Create(c) ==
    /\ c.phase = "sent"
    /\ c.kind = "create"
    /\ Valid(c.kind, c.body)
    /\ Len(rows) < MaxJobs
    /\ rows' = Append(rows, NewJob(c.body))
    /\ Become(c, [c EXCEPT !.phase = "committed", !.id = Len(rows) + 1])
    /\ UNCHANGED <<beat, sent, excused>>

Refresh(c) ==
    /\ c.phase = "committed"
    /\ Become(c, [c EXCEPT !.phase = "refreshed", !.snap = rows[c.id]])
    /\ UNCHANGED <<rows, beat, sent, excused>>

\* Bug form of Rescheduled: the entry of a job that was disabled stays.
NeverRemoved(c) ==
    IF c.snap.enabled /\ c.snap.schedule \in Runnable THEN c.snap.schedule ELSE beat[c.id]

\* register_job_schedule, whose ValueError is swallowed, or
\* remove_job_schedule; a job just created has nothing to remove.
Rescheduled(c) ==
    IF c.snap.enabled /\ c.snap.schedule \in Runnable THEN c.snap.schedule
    ELSE IF Unregistrable(c.snap) \/ c.kind = "create" THEN beat[c.id]
    ELSE "none"

Reschedule(c) ==
    /\ c.phase = "refreshed"
    /\ beat' = [beat EXCEPT ![c.id] = Rescheduled(c)]
    /\ excused' = IF c.alone /\ c.kind # "create" THEN excused \ {c.id}
                  ELSE IF c.alone THEN excused
                  ELSE excused \cup {c.id}
    /\ Become(c, [c EXCEPT !.phase = "answered"])
    /\ UNCHANGED <<rows, sent>>

\* trigger_execution looks at neither is_enabled nor the executions there are.
Run(c) ==
    /\ c.phase = "sent"
    /\ c.kind = "run"
    /\ Become(c, [c EXCEPT !.phase = "answered"])
    /\ UNCHANGED <<rows, beat, sent, excused>>

Serve(c) ==
    \/ Refuse(c)
    \/ Load(c)
    \/ Commit(c)
    \/ Create(c)
    \/ Refresh(c)
    \/ Reschedule(c)
    \/ Run(c)

\* A response is lost, or a proxy gives up: the client has an error, the
\* handler goes on. Answers nobody waits for are dropped.
Unheard(c) ==
    /\ ~c.waiting
    /\ c.phase \in {"answered", "refused"}
    /\ calls' = calls \ {c}
    /\ UNCHANGED <<rows, beat, sent, excused>>

\* The API process restarts: Beat entries were in its memory, and nothing
\* registers the jobs of the table again. Its requests fail.
Restart ==
    /\ beat' = [j \in Ids |-> "none"]
    /\ excused' = Ids
    /\ calls' = {[c EXCEPT !.phase = "refused"] : c \in calls}
    /\ UNCHANGED <<rows, sent>>

Enable(on) == [enabled |-> on]

-----------------------------------------------------------------------------
\* Once nothing is under way for a job, Beat holds what its row asks for,
\* unless the schedule is one that cannot be registered (update_job swallows
\* the error and the former entry stays), the process has restarted, or two
\* requests have overlapped; a later request on its own puts the last two
\* right.
BeatFollowsRow ==
    \A j \in 1..Len(rows) \ excused :
        \/ \E c \in calls : c.id = j /\ c.phase \in {"committed", "refreshed"}
        \/ beat[j] = Wanted(rows[j])
        \/ Unregistrable(rows[j])
=============================================================================
