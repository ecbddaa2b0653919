---------------------------- MODULE SyncPipeline ----------------------------
(***************************************************************************)
(* The execution of sync jobs: rows of sync_executions, the Celery         *)
(* messages that run them, and the worker processes that carry the         *)
(* pipeline categories -> products -> images -> stock.                     *)
(*                                                                         *)
(* backend/tasks/orchestrator.py, backend/tasks/phase_runner.py,           *)
(* backend/tasks/celery_app.py, and the two ways an execution is created:  *)
(* POST /api/jobs/{id}/run (backend/jobs/router.py) and the Beat wrapper   *)
(* task (backend/tasks/scheduler.py).                                      *)
(*                                                                         *)
(* A worker is a Celery process and its database session. The session is   *)
(* opened with autoflush=False, expire_on_commit=False: the SyncExecution  *)
(* object it loads is never refreshed, so everything the run decides is    *)
(* decided on the copy `snap`. One transaction spans the whole run, except *)
(* that the image engine commits in the middle of it. The engines          *)
(* themselves (what they write to WooCommerce) are abstract here: a phase  *)
(* returns some counts, raises, or breaks the session.                     *)
(***************************************************************************)
EXTENDS Integers

CONSTANTS
    Workers,        \* Celery worker processes
    Execs,          \* primary keys of sync_executions
    Jobs,           \* primary keys of sync_jobs
    NoExec,         \* the execution_id (-1) of a webhook dispatch, no row has it
    NoJob,          \* the job of a row that does not exist yet
    NoWorker,       \* a free advisory lock
    NoTask,         \* a worker without a message
    MaxRetries,     \* max_retries of execute_sync_job (3 in the code)
    Results,        \* bound: the counts an engine may return
    MaxFaults,      \* bound: how often each kind of fault happens
    Deployments     \* the variants of _get_wc_client a behaviour may run

FaultKinds == {"crash", "kill", "timeout", "db", "dispatch", "redelivery", "webhook"}

\* "committed": _get_wc_client passes url= to a constructor that takes
\* store_url= and raises TypeError. "repaired": it returns a client, as the
\* docstring of _get_odoo_client expects of a deployment and of the tests.
Variants == {"committed", "repaired"}

ASSUME ConstantsAssumption ==
    /\ MaxRetries \in Nat
    /\ Results \subseteq [synced: Nat, errors: Nat]
    /\ MaxFaults \in [FaultKinds -> Nat]
    /\ Deployments \subseteq Variants
    /\ NoExec \notin Execs
    /\ NoJob \notin Jobs
    /\ NoWorker \notin Workers

VARIABLES
    deployed,       \* the variant this behaviour runs, chosen once
    row,            \* committed sync_executions
    undispatched,   \* rows the Beat wrapper has committed and not yet sent
    ready,          \* messages the broker may deliver
    task,           \* task[w]: the message worker w runs
    owned,          \* owned[w]: the broker still waits for w's acknowledgement
    pc,             \* pc[w]: where the worker is
    snap,           \* snap[w]: the SyncExecution object in w's session
    delta,          \* delta[w]: counter increments flushed, not committed
    session,        \* session[w]: what PostgreSQL and SQLAlchemy still accept
    lock,           \* lock[j]: holder of the advisory lock of job j
    tally,          \* history: the counts of all phases ever committed
    spent           \* faults that have happened

queues == <<undispatched, ready>>
delivery == <<task, owned>>
store == <<row, delta, lock, tally>>
vars == <<deployed, queues, delivery, store, pc, snap, session, spent>>

-----------------------------------------------------------------------------
(* Types *)

Status == {"absent", "running", "completed", "failed"}
Terminal == {"completed", "failed"}

Counters == [synced: Nat, errors: Nat]
Zero == [synced |-> 0, errors |-> 0]

\* SyncExecution. skipped_count is left out: it moves with synced_count.
Row == [status: Status, job: Jobs \cup {NoJob}, count: Counters]
NoRow == [status |-> "absent", job |-> NoJob, count |-> Zero]

\* An execute_sync_job message. A redelivery gets a tag of its own.
Message == [exec: Execs \cup {NoExec}, retries: 0..MaxRetries, tag: Nat]

Phases == {"categories", "products", "images", "stock"}
UsesWcClient == {"categories", "products", "stock"}
After == [categories |-> "products", products |-> "images",
          images |-> "stock", stock |-> "finishing"]

\* The steps that run inside the try block of _run_sync_pipeline.
Section == Phases \cup {"finishing", "failing"}
Place == {"idle", "loading", "waiting", "raised", "returned"} \cup Section

\* "aborted": a statement failed, PostgreSQL refuses the rest of the
\* transaction. "rolledback": a flush failed, SQLAlchemy rolled the
\* transaction back, expired its objects and refuses to go on.
Session == {"ok", "aborted", "rolledback"}

-----------------------------------------------------------------------------
(* Helpers *)

Add(c, d) == [synced |-> c.synced + d.synced, errors |-> c.errors + d.errors]

RowExists(e) == e \in Execs /\ row[e].status # "absent"
JobOf(w) == row[task[w].exec].job

TypeOK ==
    /\ deployed \in Variants
    /\ row \in [Execs -> Row]
    /\ undispatched \subseteq Execs
    /\ ready \subseteq Message
    /\ task \in [Workers -> Message \cup {NoTask}]
    /\ owned \in [Workers -> BOOLEAN]
    /\ pc \in [Workers -> Place]
    /\ snap \in [Workers -> Row]
    /\ delta \in [Workers -> Counters]
    /\ session \in [Workers -> Session]
    /\ lock \in [Jobs -> Workers \cup {NoWorker}]
    /\ tally \in [Execs -> Counters]
    /\ spent \in [FaultKinds -> Nat]
    /\ \A e \in Execs : row[e].status # "absent" => row[e].job \in Jobs
    /\ \A w \in Workers : pc[w] # "idle" => task[w] \in Message
    /\ \A w \in Workers :
          pc[w] \in Section \cup {"waiting"} => RowExists(task[w].exec)

At(w, place) == pc[w] = place
Goto(w, place) == pc' = [pc EXCEPT ![w] = place]

\* An UPDATE of the row waits for the transaction of every other worker that
\* has flushed an UPDATE of the same row.
RowFree(w) ==
    \A v \in Workers \ {w} :
        task[v] # NoTask /\ task[v].exec = task[w].exec => delta[v] = Zero

\* What a commit of w leaves in the row: SQLAlchemy writes the columns the
\* session has changed, with the values computed on its own copy.
Committed(w, status) ==
    LET old == row[task[w].exec]
    IN  [status |-> status,
         job |-> old.job,
         count |-> [synced |-> IF delta[w].synced > 0
                               THEN snap[w].count.synced ELSE old.count.synced,
                    errors |-> IF delta[w].errors > 0
                               THEN snap[w].count.errors ELSE old.count.errors]]

\* pg_advisory_xact_lock is released when the transaction of w ends.
Unlock(w) ==
    lock' = [j \in Jobs |-> IF lock[j] = w THEN NoWorker ELSE lock[j]]

\* The transaction of w commits; `status` is what the row's status becomes.
Commit(w, status) ==
    /\ row' = [row EXCEPT ![task[w].exec] = Committed(w, status)]
    /\ tally' = [tally EXCEPT ![task[w].exec] = Add(@, delta[w])]
    /\ delta' = [delta EXCEPT ![w] = Zero]
    /\ Unlock(w)

\* Bug form of Rollback: a session-level lock, which a rollback does not end.
RollbackKeepsLock(w) ==
    /\ delta' = [delta EXCEPT ![w] = Zero]
    /\ UNCHANGED <<row, lock, tally>>

\* The transaction of w is lost: nothing it flushed remains.
Rollback(w) ==
    /\ delta' = [delta EXCEPT ![w] = Zero]
    /\ Unlock(w)
    /\ UNCHANGED <<row, tally>>

Spend(kind) ==
    /\ spent[kind] < MaxFaults[kind]
    /\ spent' = [spent EXCEPT ![kind] = @ + 1]

\* The worker process has no message and no session any more.
Leave(w) ==
    /\ Goto(w, "idle")
    /\ task' = [task EXCEPT ![w] = NoTask]
    /\ owned' = [owned EXCEPT ![w] = FALSE]
    /\ snap' = [snap EXCEPT ![w] = NoRow]
    /\ session' = [session EXCEPT ![w] = "ok"]

-----------------------------------------------------------------------------
(* Creating and dispatching executions *)

\* trigger_execution: INSERT with status RUNNING, and commit.
TriggerExecution(j, e) ==
    /\ row[e].status = "absent"
    /\ row' = [row EXCEPT ![e] = [status |-> "running", job |-> j, count |-> Zero]]

\* POST /api/jobs/{id}/run returns after trigger_execution.
RunJobEndpoint(j, e) ==
    /\ TriggerExecution(j, e)
    /\ UNCHANGED <<deployed, queues, delivery, pc, snap, session, delta, lock, tally, spent>>

\* schedule_execute_sync_job: the row is committed ...
BeatCreate(j, e) ==
    /\ TriggerExecution(j, e)
    /\ undispatched' = undispatched \cup {e}
    /\ UNCHANGED <<deployed, ready, delivery, pc, snap, session, delta, lock, tally, spent>>

\* Bug form of BeatDispatch: the retry of the wrapper dispatches the row again.
BeatDispatchTwice(e) ==
    /\ e \in undispatched
    /\ ready' = ready \cup {[exec |-> e, retries |-> 0, tag |-> 0]}
    /\ UNCHANGED <<deployed, undispatched, delivery, pc, snap, session, store, spent>>

\* ... then execute_sync_job.delay publishes the message ...
BeatDispatch(e) ==
    /\ e \in undispatched
    /\ undispatched' = undispatched \ {e}
    /\ ready' = ready \cup {[exec |-> e, retries |-> 0, tag |-> 0]}
    /\ UNCHANGED <<deployed, delivery, pc, snap, session, store, spent>>

\* ... or the process dies or delay raises, and the retry of the wrapper
\* starts over with a BeatCreate of another row.
BeatDispatchFails(e) ==
    /\ e \in undispatched
    /\ Spend("dispatch")
    /\ undispatched' = undispatched \ {e}
    /\ UNCHANGED <<deployed, ready, delivery, pc, snap, session, store>>

\* _dispatch_sync of the webhook processor sends execution_id = -1.
WebhookDispatch ==
    /\ Spend("webhook")
    /\ ready' = ready \cup {[exec |-> NoExec, retries |-> 0, tag |-> 0]}
    /\ UNCHANGED <<deployed, undispatched, delivery, pc, snap, session, store>>

-----------------------------------------------------------------------------
(* The worker: entering the pipeline *)

\* Bug form of Deliver: the broker does not reserve the message.
DeliverUnclaimed(w) ==
    /\ At(w, "idle")
    /\ \E m \in ready : task' = [task EXCEPT ![w] = m]
    /\ owned' = [owned EXCEPT ![w] = TRUE]
    /\ Goto(w, "loading")
    /\ UNCHANGED <<deployed, queues, snap, session, store, spent>>

Deliver(w) ==
    /\ At(w, "idle")
    /\ \E m \in ready :
          /\ ready' = ready \ {m}
          /\ task' = [task EXCEPT ![w] = m]
    /\ owned' = [owned EXCEPT ![w] = TRUE]
    /\ Goto(w, "loading")
    /\ UNCHANGED <<deployed, undispatched, snap, session, store, spent>>

\* "SyncExecution %s not found": return. (Rows of sync_jobs are never deleted
\* and job_id is a foreign key: the branch without a job cannot be reached.)
LoadMissing(w) ==
    /\ At(w, "loading")
    /\ ~RowExists(task[w].exec)
    /\ Goto(w, "returned")
    /\ UNCHANGED <<deployed, queues, delivery, snap, session, store, spent>>

\* Bug form of Load: a new attempt starts counting at zero.
LoadAnew(w) ==
    /\ At(w, "loading")
    /\ RowExists(task[w].exec)
    /\ snap' = [snap EXCEPT ![w] = [row[task[w].exec] EXCEPT !.count = Zero]]
    /\ Goto(w, "waiting")
    /\ UNCHANGED <<deployed, queues, delivery, session, store, spent>>

\* The execution is read before the lock is asked for.
Load(w) ==
    /\ At(w, "loading")
    /\ RowExists(task[w].exec)
    /\ snap' = [snap EXCEPT ![w] = row[task[w].exec]]
    /\ Goto(w, "waiting")
    /\ UNCHANGED <<deployed, queues, delivery, session, store, spent>>

\* Bug form of Enter: the lock is tried, and its answer ignored.
EnterUnlocked(w) ==
    /\ At(w, "waiting")
    /\ snap[w].status = "running"
    /\ lock' = [lock EXCEPT ![JobOf(w)] = w]
    /\ Goto(w, "categories")
    /\ UNCHANGED <<deployed, queues, delivery, snap, session, row, delta, tally, spent>>

\* Bug form of Enter: no status check.
EnterUnchecked(w) ==
    /\ At(w, "waiting")
    /\ lock[JobOf(w)] = NoWorker
    /\ lock' = [lock EXCEPT ![JobOf(w)] = w]
    /\ Goto(w, "categories")
    /\ UNCHANGED <<deployed, queues, delivery, snap, session, row, delta, tally, spent>>

\* pg_advisory_xact_lock blocks; the status check looks at the copy.
Enter(w) ==
    /\ At(w, "waiting")
    /\ lock[JobOf(w)] = NoWorker
    /\ snap[w].status = "running"
    /\ lock' = [lock EXCEPT ![JobOf(w)] = w]
    /\ Goto(w, "categories")
    /\ UNCHANGED <<deployed, queues, delivery, snap, session, row, delta, tally, spent>>

Skip(w) ==
    /\ At(w, "waiting")
    /\ lock[JobOf(w)] = NoWorker
    /\ snap[w].status # "running"
    /\ Goto(w, "returned")
    /\ UNCHANGED <<deployed, queues, delivery, snap, session, store, spent>>

-----------------------------------------------------------------------------
(* The worker: phases *)

ClientsBuild(w) == pc[w] \in UsesWcClient => deployed = "repaired"

\* The client constructors are called in the arguments of run_phase, outside
\* its error isolation.
ClientRaises(w) ==
    /\ pc[w] \in Phases
    /\ ~ClientsBuild(w)
    /\ Goto(w, "failing")
    /\ UNCHANGED <<deployed, queues, delivery, snap, session, store, spent>>

\* run_phase adds the counts to the copy and flushes it.
RecordPhase(w, d) ==
    /\ pc[w] \in Phases
    /\ ClientsBuild(w)
    /\ session[w] = "ok"
    /\ d # Zero => RowFree(w)
    /\ snap' = [snap EXCEPT ![w].count = Add(@, d)]
    /\ delta' = [delta EXCEPT ![w] = Add(@, d)]
    /\ Goto(w, After[pc[w]])
    /\ UNCHANGED <<deployed, queues, delivery, session, row, lock, tally, spent>>

EngineReturns(w) == \E d \in Results : RecordPhase(w, d)

\* The engine raises: one error is counted, the next phase runs.
EngineRaises(w) == RecordPhase(w, [synced |-> 0, errors |-> 1])

\* Bug form of ImageCommit: every column is written, changed or not.
ImageCommitWritesAll(w) ==
    /\ At(w, "images")
    /\ session[w] = "ok"
    /\ Commit(w, snap[w].status)
    /\ UNCHANGED <<deployed, queues, delivery, pc, snap, session, spent>>

\* sync_product_images commits after each image it has uploaded.
ImageCommit(w) ==
    /\ At(w, "images")
    /\ session[w] = "ok"
    /\ Commit(w, row[task[w].exec].status)
    /\ UNCHANGED <<deployed, queues, delivery, pc, snap, session, spent>>

\* On a session that is no longer usable run_phase swallows every error and
\* goes on; the arguments of the products phase read job.field_mappings, which
\* raises once the rollback has expired the job.
BrokenPhase(w) ==
    /\ pc[w] \in Phases
    /\ ClientsBuild(w)
    /\ session[w] # "ok"
    /\ Goto(w, IF session[w] = "rolledback" /\ At(w, "categories")
               THEN "failing" ELSE After[pc[w]])
    /\ UNCHANGED <<deployed, queues, delivery, snap, session, store, spent>>

-----------------------------------------------------------------------------
(* The worker: leaving the pipeline *)

\* COMPLETED, whatever the phases reported.
Complete(w) ==
    /\ At(w, "finishing")
    /\ session[w] = "ok"
    /\ RowFree(w)
    /\ Commit(w, "completed")
    /\ Goto(w, "returned")
    /\ UNCHANGED <<deployed, queues, delivery, snap, session, spent>>

CompleteRaises(w) ==
    /\ At(w, "finishing")
    /\ session[w] # "ok"
    /\ Goto(w, "failing")
    /\ UNCHANGED <<deployed, queues, delivery, snap, session, store, spent>>

\* The except branch: FAILED and an error log are committed with everything
\* flushed so far, then the exception is raised again.
FailExecution(w) ==
    /\ At(w, "failing")
    /\ session[w] = "ok"
    /\ RowFree(w)
    /\ Commit(w, "failed")
    /\ Goto(w, "raised")
    /\ UNCHANGED <<deployed, queues, delivery, snap, session, spent>>

\* "Failed to update execution status": the row stays as it is.
FailUpdateRaises(w) ==
    /\ At(w, "failing")
    /\ session[w] # "ok"
    /\ Rollback(w)
    /\ Goto(w, "raised")
    /\ UNCHANGED <<deployed, queues, delivery, snap, session, spent>>

\* Bug form of Retry: max_retries=None.
RetryUnbounded(w) ==
    /\ At(w, "raised")
    /\ ready' = ready \cup {[task[w] EXCEPT !.retries = @ + 1]}
    /\ Leave(w)
    /\ UNCHANGED <<deployed, undispatched, store, spent>>

\* execute_sync_job: self.retry publishes the successor, max_retries times.
Retry(w) ==
    /\ At(w, "raised")
    /\ task[w].retries < MaxRetries
    /\ ready' = ready \cup {[task[w] EXCEPT !.retries = @ + 1]}
    /\ Leave(w)
    /\ UNCHANGED <<deployed, undispatched, store, spent>>

GiveUp(w) ==
    /\ At(w, "raised")
    /\ task[w].retries = MaxRetries
    /\ Leave(w)
    /\ UNCHANGED <<deployed, queues, store, spent>>

\* task_acks_late: the message is acknowledged after the task has returned.
Ack(w) ==
    /\ At(w, "returned")
    /\ Leave(w)
    /\ UNCHANGED <<deployed, queues, store, spent>>

-----------------------------------------------------------------------------
(* Faults *)

\* A flush or a commit fails: the transaction is gone, and the lock with it.
FlushFails(w) ==
    /\ pc[w] \in Section
    /\ pc[w] \in Phases => ClientsBuild(w)
    /\ session[w] = "ok"
    /\ Spend("db")
    /\ session' = [session EXCEPT ![w] = "rolledback"]
    /\ Rollback(w)
    /\ UNCHANGED <<deployed, queues, delivery, pc, snap>>

\* A SELECT of a phase fails: the transaction is aborted but not ended.
StatementFails(w) ==
    /\ pc[w] \in Phases
    /\ ClientsBuild(w)
    /\ session[w] = "ok"
    /\ Spend("db")
    /\ session' = [session EXCEPT ![w] = "aborted"]
    /\ UNCHANGED <<deployed, queues, delivery, pc, snap, store>>

\* _acquire_advisory_lock swallows the failure and answers True.
LockRaises(w) ==
    /\ At(w, "waiting")
    /\ Spend("db")
    /\ IF snap[w].status = "running"
       THEN /\ Goto(w, "categories")
            /\ session' = [session EXCEPT ![w] = "aborted"]
       ELSE /\ Goto(w, "returned")
            /\ UNCHANGED session
    /\ UNCHANGED <<deployed, queues, delivery, snap, store>>

\* The first SELECTs fail, before the try block.
LoadRaises(w) ==
    /\ At(w, "loading")
    /\ Spend("db")
    /\ Goto(w, "raised")
    /\ UNCHANGED <<deployed, queues, delivery, snap, session, store>>

\* task_soft_time_limit strikes in an await: the coroutine is cancelled, and
\* CancelledError is not caught by `except Exception`.
SoftLimitCancels(w) ==
    /\ pc[w] \in Section \cup {"loading", "waiting"}
    /\ Spend("timeout")
    /\ Rollback(w)
    /\ Goto(w, "raised")
    /\ UNCHANGED <<deployed, queues, delivery, snap, session>>

\* It strikes in the pipeline's own code: an Exception like any other.
SoftLimitRaises(w) ==
    /\ pc[w] \in Phases
    /\ Spend("timeout")
    /\ Goto(w, "failing")
    /\ UNCHANGED <<deployed, queues, delivery, snap, session, store>>

\* Bug form of Crash: task_acks_late is off.
CrashLoses(w) ==
    /\ pc[w] # "idle"
    /\ Spend("crash")
    /\ Rollback(w)
    /\ Leave(w)
    /\ UNCHANGED <<deployed, undispatched, ready>>

\* The worker process group dies: what the broker still waits for returns.
Crash(w) ==
    /\ pc[w] # "idle"
    /\ Spend("crash")
    /\ ready' = IF owned[w] THEN ready \cup {task[w]} ELSE ready
    /\ Rollback(w)
    /\ Leave(w)
    /\ UNCHANGED <<deployed, undispatched>>

\* task_time_limit, or the child process is lost: the pool acknowledges the
\* message on failure (Celery's defaults), nothing returns.
Kill(w) ==
    /\ pc[w] # "idle"
    /\ Spend("kill")
    /\ Rollback(w)
    /\ Leave(w)
    /\ UNCHANGED <<deployed, queues>>

\* The broker gives the message of a living worker to somebody else: the
\* connection was lost, or the worker died after publishing its retry.
Redeliver(w) ==
    /\ pc[w] # "idle"
    /\ owned[w]
    /\ Spend("redelivery")
    /\ ready' = ready \cup {[task[w] EXCEPT !.tag = spent["redelivery"] + 1]}
    /\ owned' = [owned EXCEPT ![w] = FALSE]
    /\ UNCHANGED <<deployed, undispatched, task, pc, snap, session, store>>

-----------------------------------------------------------------------------
(* Specification *)

Init ==
    /\ deployed \in Deployments
    /\ row = [e \in Execs |-> NoRow]
    /\ undispatched = {}
    /\ ready = {}
    /\ task = [w \in Workers |-> NoTask]
    /\ owned = [w \in Workers |-> FALSE]
    /\ pc = [w \in Workers |-> "idle"]
    /\ snap = [w \in Workers |-> NoRow]
    /\ delta = [w \in Workers |-> Zero]
    /\ session = [w \in Workers |-> "ok"]
    /\ lock = [j \in Jobs |-> NoWorker]
    /\ tally = [e \in Execs |-> Zero]
    /\ spent = [k \in FaultKinds |-> 0]

Environment ==
    \/ \E j \in Jobs, e \in Execs : RunJobEndpoint(j, e) \/ BeatCreate(j, e)
    \/ \E e \in Execs : BeatDispatch(e) \/ BeatDispatchFails(e)
    \/ WebhookDispatch

WorkerStep(w) ==
    \/ Deliver(w)
    \/ LoadMissing(w)
    \/ Load(w)
    \/ Enter(w)
    \/ Skip(w)
    \/ ClientRaises(w)
    \/ EngineReturns(w)
    \/ EngineRaises(w)
    \/ ImageCommit(w)
    \/ BrokenPhase(w)
    \/ Complete(w)
    \/ CompleteRaises(w)
    \/ FailExecution(w)
    \/ FailUpdateRaises(w)
    \/ Retry(w)
    \/ GiveUp(w)
    \/ Ack(w)

Fault(w) ==
    \/ FlushFails(w)
    \/ StatementFails(w)
    \/ LockRaises(w)
    \/ LoadRaises(w)
    \/ SoftLimitCancels(w)
    \/ SoftLimitRaises(w)
    \/ Crash(w)
    \/ Kill(w)
    \/ Redeliver(w)

\* Every row of the bounded model exists and nothing is left to run.
Quiescent ==
    /\ \A e \in Execs : row[e].status # "absent"
    /\ undispatched = {}
    /\ ready = {}
    /\ \A w \in Workers : At(w, "idle")
    /\ UNCHANGED vars

Next ==
    \/ Environment
    \/ \E w \in Workers : WorkerStep(w) \/ Fault(w)
    \/ Quiescent

Spec == Init /\ [][Next]_vars

\* A worker that is up goes on with what it does; a Beat wrapper that has
\* created its row goes on to dispatch it (or to fail).
Fairness ==
    /\ \A w \in Workers : WF_vars(WorkerStep(w))
    /\ \A e \in Execs : WF_vars(BeatDispatch(e))

FairSpec == Spec /\ Fairness

-----------------------------------------------------------------------------
(* Properties of every behaviour *)

\* Until its images phase a run that can still write has its job to itself:
\* two workers are never both in the categories or products phase of one job
\* (the advisory lock of orchestrator.py:85, held by the transaction).
ExclusiveUntilImages ==
    \A v, w \in Workers :
        /\ pc[v] \in {"categories", "products"} /\ session[v] = "ok"
        /\ pc[w] \in {"categories", "products"} /\ session[w] = "ok"
        /\ JobOf(v) = JobOf(w)
        => v = w

\* Whatever ends a run (return, exception, cancellation, crash, kill), it
\* never leaves the advisory lock of its job behind.
NoLeakedLock ==
    \A j \in Jobs :
        lock[j] # NoWorker => pc[lock[j]] \in Section /\ JobOf(lock[j]) = j

\* An execution that has ended is not reported as running again, however many
\* messages for it are delivered.
NeverReopened ==
    [][\A e \in Execs : row[e].status \in Terminal => row'[e].status \in Terminal]_vars

-----------------------------------------------------------------------------
(* Properties of the behaviours in which the broker delivers no message     *)
(* twice (MaxFaults.redelivery = 0), although workers crash and retry       *)

\* One execution is in the hands of at most one worker.
OneWorkerPerExecution ==
    \A v, w \in Workers :
        /\ pc[v] # "idle" /\ pc[w] # "idle"
        /\ task[v].exec \in Execs /\ task[v].exec = task[w].exec
        => v = w

\* A run never works on an execution that has already ended: the copy the
\* status check looks at is then as good as the row.
NoStaleRun ==
    \A w \in Workers :
        pc[w] \in Section /\ session[w] = "ok" => row[task[w].exec].status = "running"

\* The counters of the row are the sum of what all committed phases of all
\* attempts reported: no increment is lost and none is counted twice.
CountersAddUp == \A e \in Execs : row[e].count = tally[e]

\* With faults enough to fail every attempt but one, and no worker killed, a
\* dispatched execution ends.
DispatchedEnds ==
    \A e \in Execs :
        (\E m \in ready : m.exec = e) ~> row[e].status \in Terminal

\* The pipeline implements the lifecycle a reader of sync_executions relies on.
Attempting(e) ==
    \E w \in Workers : pc[w] \in Section /\ session[w] = "ok" /\ task[w].exec = e

Lifecycle == INSTANCE ExecutionLifecycle WITH
    status <- [e \in Execs |-> row[e].status],
    active <- [e \in Execs |-> Attempting(e)],
    count <- [e \in Execs |-> row[e].count]

ImplementsLifecycle == Lifecycle!Spec

-----------------------------------------------------------------------------
(* What the documentation says, and the code does not do *)

\* docs/sync-engine.md:16 "A failure in one phase is logged but does not prevent
\* subsequent phases from running." Where no fault happens and every engine
\* reports at least one item or one error (Results), an execution that has ended
\* would then have counted all its phases. The store client of a phase is built
\* in the arguments of run_phase, outside its isolation (orchestrator.py:106):
\* that it cannot be built ends the run before the first phase.
EveryPhaseRuns ==
    \A e \in Execs :
        row[e].status \in Terminal =>
            row[e].count.synced + row[e].count.errors >= 4
=============================================================================
