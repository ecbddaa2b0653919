---------------------------- MODULE ReviewQueue ----------------------------
(***************************************************************************)
(* Logs of failed items: retried by tasks with a bounded number of         *)
(* attempts, and retried or dismissed by hand through the review queue.    *)
(*                                                                         *)
(* backend/tasks/retry.py and backend/tasks/review_queue.py. Handlers and  *)
(* tasks read a log, wait, and write the columns that differ from what     *)
(* they have read; none looks at the status it finds.                      *)
(***************************************************************************)
EXTENDS Integers, FiniteSets

CONSTANTS
    Logs,           \* rows of sync_logs
    Mapped,         \* those with a product mapping
    Failed,         \* those that need review to begin with
    Workers,
    MaxRetries,     \* MAX_RETRIES
    Outcomes,       \* what the sync of one item ends in: the placeholder of
                    \* the code knows "ok", an engine also "transient", "gone"
    MaxCalls,       \* requests to the review queue
    MaxFaults       \* workers lost, brokers or databases not reached, answers lost

ASSUME LogsAssumption ==
    Logs # {} /\ IsFiniteSet(Logs) /\ Mapped \subseteq Logs /\ Failed \subseteq Logs
ASSUME OutcomesAssumption == Outcomes \subseteq {"ok", "transient", "gone"}
ASSUME BoundsAssumption == MaxRetries \in Nat /\ MaxCalls \in Nat /\ MaxFaults \in Nat

VARIABLES
    log,        \* log -> status and retry_count
    queued,     \* log -> retry_single_item messages, due or not yet due
    worker,     \* worker -> the task it runs
    calls,      \* requests under way
    sent,       \* requests sent so far
    faults,     \* faults so far
    stranded,   \* logs whose dispatch failed after the commit, or whose task ended
                \* without a successor, and that no task was queued for since
    asked,      \* log -> tasks dispatched by hand
    attempts,   \* log -> times its sync was attempted
    shared      \* logs two tasks or requests worked on at a time

queueVars == <<log, queued, worker, calls, sent, faults, stranded, asked, attempts, shared>>

Statuses == {"none", "synced", "pending", "failed_permanent", "dismissed"}
Row == [status : Statuses, count : Nat]
Phases == {"idle", "loaded", "schedule"}
New == [status |-> "none", count |-> 0]
NoRows == [l \in {} |-> New]
Resting == [log |-> CHOOSE l \in Logs : TRUE, phase |-> "idle", snap |-> New]

\* Columns that are set to what was read are not written.
Write(row, snap, new) ==
    [f \in DOMAIN row |-> IF new[f] # snap[f] THEN new[f] ELSE row[f]]

Set(l, snap, new) == log' = [log EXCEPT ![l] = Write(@, snap, new)]

Tasks(l) == {w \in Workers : worker[w].phase # "idle" /\ worker[w].log = l}
Busy(l) == Tasks(l) # {} \/ \E c \in calls : l \in DOMAIN c.snap \/ l \in c.left

-----------------------------------------------------------------------------
(* retry_single_item *)

Take(w, l) ==
    /\ worker[w].phase = "idle"
    /\ queued[l] > 0
    /\ queued' = [queued EXCEPT ![l] = @ - 1]
    /\ worker' = [worker EXCEPT ![w] = [log |-> l, phase |-> "loaded", snap |-> log[l]]]
    /\ shared' = IF Busy(l) \/ queued[l] > 1 THEN shared \cup {l} ELSE shared
    /\ UNCHANGED <<log, calls, sent, faults, stranded, asked, attempts>>

Idle(w) == [worker EXCEPT ![w] = Resting]

\* Without a mapping there is nothing to retry.
Unmapped(w) ==
    LET t == worker[w] IN
    /\ t.phase = "loaded"
    /\ t.log \notin Mapped
    /\ Set(t.log, t.snap, [t.snap EXCEPT !.status = "failed_permanent"])
    /\ worker' = Idle(w)
    /\ UNCHANGED <<queued, calls, sent, faults, stranded, asked, attempts, shared>>

\* Bug form of Exhausted: one attempt too many.
ExhaustedLate(count) == count > MaxRetries + 1

Exhausted(count) == count > MaxRetries

\* The sync of the item, then handle_sync_failure when it has failed: the
\* session still holds the row as it was loaded.
Attempt(w) ==
    LET t == worker[w]
        count == t.snap.count + 1
    IN
    /\ t.phase = "loaded"
    /\ t.log \in Mapped
    /\ attempts' = [attempts EXCEPT ![t.log] = @ + 1]
    /\ \/ /\ "ok" \in Outcomes
          /\ Set(t.log, t.snap, [t.snap EXCEPT !.status = "synced"])
          /\ worker' = Idle(w)
       \/ /\ "gone" \in Outcomes \/ ("transient" \in Outcomes /\ Exhausted(count))
          /\ Set(t.log, t.snap, [status |-> "failed_permanent", count |-> count])
          /\ worker' = Idle(w)
       \/ /\ "transient" \in Outcomes
          /\ ~Exhausted(count)
          /\ Set(t.log, t.snap, [status |-> "pending", count |-> count])
          /\ worker' = [worker EXCEPT ![w].phase = "schedule"]
    /\ UNCHANGED <<queued, calls, sent, faults, stranded, asked, shared>>

Queue(l) ==
    /\ queued' = [queued EXCEPT ![l] = @ + 1]
    /\ stranded' = stranded \ {l}

\* schedule_retry: the countdown is a delay, not an order.
ScheduleRetry(w) ==
    /\ worker[w].phase = "schedule"
    /\ Queue(worker[w].log)
    /\ worker' = Idle(w)
    /\ UNCHANGED <<log, calls, sent, faults, asked, attempts, shared>>

Fault == faults < MaxFaults /\ faults' = faults + 1

\* A task that ends before its work is done and is acknowledged.
Ends(w) ==
    /\ Fault
    /\ stranded' = stranded \cup {worker[w].log}
    /\ worker' = Idle(w)
    /\ UNCHANGED <<log, queued, calls, sent, asked, shared>>

\* The broker is not there: the task ends with an error.
ScheduleFails(w) ==
    /\ worker[w].phase = "schedule"
    /\ Ends(w)
    /\ UNCHANGED attempts

\* The end may come in the middle of an attempt.
HalfDone(w) ==
    \/ UNCHANGED attempts
    \/ /\ worker[w].phase = "loaded" /\ worker[w].log \in Mapped
       /\ attempts' = [attempts EXCEPT ![worker[w].log] = @ + 1]

\* Bug form of Crash: task_acks_late is off, the message is gone.
CrashLoses(w) ==
    /\ worker[w].phase # "idle"
    /\ Fault
    /\ HalfDone(w)
    /\ worker' = Idle(w)
    /\ UNCHANGED <<log, queued, calls, sent, stranded, asked, shared>>

\* The whole worker dies, or its connection: with task_acks_late the message
\* it has not acknowledged is delivered again.
Crash(w) ==
    /\ worker[w].phase # "idle"
    /\ Fault
    /\ HalfDone(w)
    /\ Queue(worker[w].log)
    /\ worker' = Idle(w)
    /\ UNCHANGED <<log, calls, sent, asked, shared>>

\* Its child process is lost, or exceeds task_time_limit: without
\* task_reject_on_worker_lost the message is acknowledged.
Kill(w) ==
    /\ worker[w].phase # "idle"
    /\ HalfDone(w)
    /\ Ends(w)

\* A statement or a commit raises, or task_soft_time_limit: the session it
\* leaves fails handle_sync_failure too, and the log stays as it is.
DatabaseFails(w) ==
    /\ worker[w].phase = "loaded"
    /\ HalfDone(w)
    /\ Ends(w)

-----------------------------------------------------------------------------
(* The requests: kind, the logs named, those read, those left to dispatch. *)

Send(kind, logs, page) ==
    /\ sent < MaxCalls
    /\ sent' = sent + 1
    /\ calls' = calls \cup {[no |-> sent + 1, kind |-> kind, logs |-> logs, page |-> page,
                             snap |-> NoRows, left |-> {}, phase |-> "sent"]}

Become(c, d) == calls' = (calls \ {c}) \cup {d}

\* retry_single and dismiss_item take the log whatever its status,
\* retry_all_for_job those that have permanently failed.
Load(c) ==
    LET found == IF c.kind = "retry-all"
                 THEN {l \in c.logs : log[l].status = "failed_permanent"} ELSE c.logs
    IN
    /\ c.phase = "sent"
    /\ Become(c, [c EXCEPT !.phase = "loaded", !.snap = [l \in found |-> log[l]]])
    /\ shared' = shared \cup {l \in found : Busy(l) \/ queued[l] > 0}
    /\ UNCHANGED <<log, queued, worker, sent, faults, stranded, asked, attempts>>

Commit(c) ==
    LET new(l) == IF c.kind = "dismiss" THEN [c.snap[l] EXCEPT !.status = "dismissed"]
                  ELSE [status |-> "pending", count |-> 0]
    IN
    /\ c.phase = "loaded"
    /\ log' = [l \in Logs |-> IF l \in DOMAIN c.snap THEN Write(log[l], c.snap[l], new(l))
                              ELSE log[l]]
    /\ Become(c, [c EXCEPT !.phase = "committed", !.snap = NoRows,
                           !.left = IF c.kind = "dismiss" THEN {} ELSE DOMAIN c.snap])
    /\ UNCHANGED <<queued, worker, sent, faults, stranded, asked, attempts, shared>>

\* send_task, log by log, after the commit.
Dispatch(c) ==
    /\ c.phase = "committed"
    /\ \E l \in c.left :
          /\ Queue(l)
          /\ asked' = [asked EXCEPT ![l] = @ + 1]
          /\ Become(c, [c EXCEPT !.left = @ \ {l}])
    /\ UNCHANGED <<log, worker, sent, faults, attempts, shared>>

\* The broker is not there, or the API dies: what is left is not dispatched.
DispatchFails(c) ==
    /\ c.phase = "committed"
    /\ c.left # {}
    /\ Fault
    /\ stranded' = stranded \cup c.left
    /\ Become(c, [c EXCEPT !.left = {}])
    /\ UNCHANGED <<log, queued, worker, sent, asked, attempts, shared>>

\* A statement or the commit raises: nothing is written.
RequestFails(c) ==
    /\ c.phase # "committed"
    /\ Fault
    /\ Become(c, [c EXCEPT !.phase = "committed", !.snap = NoRows])
    /\ UNCHANGED <<log, queued, worker, sent, stranded, asked, attempts, shared>>

Served(c) == c.phase = "committed" /\ c.left = {}

Serve(c) == Load(c) \/ Commit(c) \/ Dispatch(c) \/ DispatchFails(c) \/ RequestFails(c)

Task(w) ==
    \/ \E l \in Logs : Take(w, l)
    \/ Unmapped(w)
    \/ Attempt(w)
    \/ ScheduleRetry(w) \/ ScheduleFails(w)
    \/ Crash(w) \/ Kill(w) \/ DatabaseFails(w)

QueueInit ==
    /\ log = [l \in Logs |-> IF l \in Failed
                              THEN [status |-> "failed_permanent", count |-> MaxRetries + 1]
                              ELSE New]
    /\ queued = [l \in Logs |-> 0]
    /\ worker = [w \in Workers |-> Resting]
    /\ calls = {}
    /\ sent = 0
    /\ faults = 0
    /\ stranded = {}
    /\ asked = [l \in Logs |-> 0]
    /\ attempts = [l \in Logs |-> 0]
    /\ shared = {}

-----------------------------------------------------------------------------
\* A log that waits to be retried has a task that will do it: in the queue,
\* in a worker that will schedule it, or about to be dispatched; unless its
\* dispatch failed after the commit, or its task ended without a successor (a
\* lost child, a time limit, a database error), which nothing makes good until
\* a task is queued for it again.
PendingHasTask ==
    \A l \in Logs \ stranded :
        log[l].status = "pending" =>
            \/ queued[l] > 0
            \/ Tasks(l) # {}
            \/ \E c \in calls : l \in c.left

\* An item is attempted once and MaxRetries times more for each time a user
\* asks, and again for a task that ended early; as long as one task at a time works
\* on it (two overwrite each other's counter).
AttemptsBounded ==
    \A l \in Logs \ shared : attempts[l] <= (MaxRetries + 1) * asked[l] + faults
=============================================================================
