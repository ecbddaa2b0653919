------------------------ MODULE SyncPipeline_proofs ------------------------
(* Theorems about SyncPipeline, for every set of workers, executions and    *)
(* jobs, every number of retries and every fault budget.                    *)
EXTENDS SyncPipeline, TLAPS

LEMMA ZeroType == Zero \in Counters
BY DEF Zero, Counters

LEMMA NoRowType == NoRow \in Row
BY ZeroType DEF NoRow, Row, Status

LEMMA AddType ==
    ASSUME NEW c \in Counters, NEW d \in Counters
    PROVE  Add(c, d) \in Counters
BY DEF Add, Counters

LEMMA InitType == Init => TypeOK
BY ConstantsAssumption, ZeroType, NoRowType
   DEF Init, TypeOK, NoRow, Place, Section, Phases, Session

\* What a commit leaves is a row again, of the same job.
LEMMA CommittedType ==
    ASSUME TypeOK, NEW w \in Workers, pc[w] \in Section,
           NEW status \in Status \ {"absent"}
    PROVE  /\ Committed(w, status) \in Row
           /\ Committed(w, status).status = status
           /\ Committed(w, status).job = JobOf(w)
<1>1. RowExists(task[w].exec) /\ task[w].exec \in Execs
  BY DEF TypeOK, RowExists
<1>2. row[task[w].exec] \in Row /\ snap[w] \in Row /\ delta[w] \in Counters
  BY <1>1 DEF TypeOK
<1>. QED
  BY <1>1, <1>2 DEF Committed, Row, Counters, JobOf

\* The part of TypeOK about the database, and what no step takes back: a row
\* that exists goes on existing and keeps its job.
StoreOK ==
    /\ row \in [Execs -> Row]
    /\ delta \in [Workers -> Counters]
    /\ lock \in [Jobs -> Workers \cup {NoWorker}]
    /\ tally \in [Execs -> Counters]
    /\ \A e \in Execs : row[e].status # "absent" => row[e].job \in Jobs

RowsStay ==
    \A e \in Execs : row[e].status # "absent" =>
        row'[e].status # "absent" /\ row'[e].job = row[e].job

LEMMA UnlockStep ==
    ASSUME TypeOK, NEW w \in Workers, Unlock(w)
    PROVE  /\ lock' \in [Jobs -> Workers \cup {NoWorker}]
           /\ \A j \in Jobs : lock'[j] # w
           /\ \A j \in Jobs : lock'[j] # NoWorker => lock'[j] = lock[j]
           /\ \A j \in Jobs : lock[j] # w => lock'[j] = lock[j]
BY ConstantsAssumption DEF TypeOK, Unlock

LEMMA CommitStep ==
    ASSUME TypeOK, NEW w \in Workers, pc[w] \in Section,
           NEW status \in Status \ {"absent"}, Commit(w, status)
    PROVE  StoreOK' /\ RowsStay
<1>. DEFINE e == task[w].exec
<1>1. e \in Execs /\ row[e].status # "absent" /\ row[e].job \in Jobs
  BY DEF TypeOK, RowExists
<1>2. row' = [row EXCEPT ![e] = Committed(w, status)]
  BY DEF Commit
<1>3. /\ Committed(w, status) \in Row
      /\ Committed(w, status).status = status
      /\ Committed(w, status).job = row[e].job
  BY CommittedType DEF JobOf
<1>4. row' \in [Execs -> Row]
  BY <1>1, <1>2, <1>3 DEF TypeOK
<1>5. RowsStay
  BY <1>1, <1>2, <1>3 DEF TypeOK, RowsStay
<1>6. \A f \in Execs : row'[f].status # "absent" => row'[f].job \in Jobs
  BY <1>1, <1>2, <1>3 DEF TypeOK
<1>7. tally' \in [Execs -> Counters]
  <2>1. tally[e] \in Counters /\ delta[w] \in Counters
    BY <1>1 DEF TypeOK
  <2>2. tally' = [tally EXCEPT ![e] = Add(tally[e], delta[w])]
    BY DEF Commit
  <2>. QED
    BY <2>1, <2>2, AddType, <1>1 DEF TypeOK
<1>8. delta' \in [Workers -> Counters]
  BY ZeroType DEF TypeOK, Commit
<1>. QED
  BY <1>4, <1>5, <1>6, <1>7, <1>8, UnlockStep DEF StoreOK, Commit

LEMMA RollbackStep ==
    ASSUME TypeOK, NEW w \in Workers, Rollback(w)
    PROVE  StoreOK' /\ RowsStay
<1>1. delta' \in [Workers -> Counters]
  BY ZeroType DEF TypeOK, Rollback
<1>. QED
  BY <1>1, UnlockStep DEF TypeOK, StoreOK, RowsStay, Rollback

LEMMA SpendStep ==
    ASSUME TypeOK, NEW kind \in FaultKinds, Spend(kind)
    PROVE  spent' \in [FaultKinds -> Nat]
BY DEF TypeOK, Spend

\* The rest of TypeOK: queues, messages and workers.
RestOK ==
    /\ deployed \in Variants
    /\ undispatched \subseteq Execs
    /\ ready \subseteq Message
    /\ task \in [Workers -> Message \cup {NoTask}]
    /\ owned \in [Workers -> BOOLEAN]
    /\ pc \in [Workers -> Place]
    /\ snap \in [Workers -> Row]
    /\ session \in [Workers -> Session]
    /\ spent \in [FaultKinds -> Nat]
    /\ \A w \in Workers : pc[w] # "idle" => task[w] \in Message

\* Who is in the pipeline after a step has loaded a row that existed before it.
InPipeline == Section \cup {"waiting"}

RunsOnRows ==
    \A w \in Workers :
        pc'[w] \in InPipeline =>
            task'[w].exec \in Execs /\ row[task'[w].exec].status # "absent"

LEMMA Assemble ==
    ASSUME TypeOK, StoreOK', RestOK', RowsStay, RunsOnRows
    PROVE  TypeOK' /\ RowsStay
BY DEF TypeOK, StoreOK, RestOK, RowsStay, RunsOnRows, RowExists, InPipeline

LEMMA SameStore ==
    ASSUME TypeOK, UNCHANGED store
    PROVE  StoreOK' /\ RowsStay
BY DEF TypeOK, StoreOK, RowsStay, store

LEMMA EnvironmentType == TypeOK /\ Environment => TypeOK' /\ RowsStay
<1>. SUFFICES ASSUME TypeOK, Environment PROVE TypeOK' /\ RowsStay
  OBVIOUS
<1>1. ASSUME NEW j \in Jobs, NEW e \in Execs, TriggerExecution(j, e),
             UNCHANGED <<delta, lock, tally>>
      PROVE  StoreOK' /\ RowsStay
  BY <1>1, ZeroType
     DEF TypeOK, StoreOK, RowsStay, TriggerExecution, Row, Status
<1>2. ASSUME NEW j \in Jobs, NEW e \in Execs, RunJobEndpoint(j, e)
      PROVE  TypeOK' /\ RowsStay
  <2>1. StoreOK' /\ RowsStay
    BY <1>1, <1>2 DEF RunJobEndpoint
  <2>2. RestOK' /\ RunsOnRows
    BY <1>2 DEF TypeOK, RestOK, RunsOnRows, InPipeline, RowExists, RunJobEndpoint,
                queues, delivery
  <2>. QED
    BY <2>1, <2>2, Assemble
<1>3. ASSUME NEW j \in Jobs, NEW e \in Execs, BeatCreate(j, e)
      PROVE  TypeOK' /\ RowsStay
  <2>1. StoreOK' /\ RowsStay
    BY <1>1, <1>3 DEF BeatCreate
  <2>2. RestOK' /\ RunsOnRows
    BY <1>3 DEF TypeOK, RestOK, RunsOnRows, InPipeline, RowExists, BeatCreate,
                delivery
  <2>. QED
    BY <2>1, <2>2, Assemble
<1>4. ASSUME NEW e \in Execs, BeatDispatch(e)
      PROVE  TypeOK' /\ RowsStay
  <2>1. [exec |-> e, retries |-> 0, tag |-> 0] \in Message
    BY ConstantsAssumption DEF Message
  <2>2. RestOK' /\ RunsOnRows
    BY <1>4, <2>1 DEF TypeOK, RestOK, RunsOnRows, InPipeline, RowExists,
                      BeatDispatch, delivery, store
  <2>. QED
    BY <1>4, <2>2, SameStore, Assemble DEF BeatDispatch
<1>5. ASSUME NEW e \in Execs, BeatDispatchFails(e)
      PROVE  TypeOK' /\ RowsStay
  <2>1. spent' \in [FaultKinds -> Nat]
    BY <1>5, SpendStep DEF BeatDispatchFails, FaultKinds
  <2>2. RestOK' /\ RunsOnRows
    BY <1>5, <2>1 DEF TypeOK, RestOK, RunsOnRows, InPipeline, RowExists,
                      BeatDispatchFails, delivery, store
  <2>. QED
    BY <1>5, <2>2, SameStore, Assemble DEF BeatDispatchFails
<1>6. ASSUME WebhookDispatch
      PROVE  TypeOK' /\ RowsStay
  <2>1. spent' \in [FaultKinds -> Nat]
    BY <1>6, SpendStep DEF WebhookDispatch, FaultKinds
  <2>2. [exec |-> NoExec, retries |-> 0, tag |-> 0] \in Message
    BY ConstantsAssumption DEF Message
  <2>3. RestOK' /\ RunsOnRows
    BY <1>6, <2>1, <2>2 DEF TypeOK, RestOK, RunsOnRows, InPipeline, RowExists,
                            WebhookDispatch, delivery, store
  <2>. QED
    BY <1>6, <2>3, SameStore, Assemble DEF WebhookDispatch
<1>. QED
  BY <1>2, <1>3, <1>4, <1>5, <1>6 DEF Environment

LEMMA LeaveStep ==
    ASSUME TypeOK, NEW w \in Workers, Leave(w)
    PROVE  /\ task' \in [Workers -> Message \cup {NoTask}]
           /\ owned' \in [Workers -> BOOLEAN]
           /\ pc' \in [Workers -> Place]
           /\ snap' \in [Workers -> Row]
           /\ session' \in [Workers -> Session]
           /\ \A v \in Workers : pc'[v] # "idle" => task'[v] \in Message
           /\ RunsOnRows
BY NoRowType DEF TypeOK, Leave, Goto, Place, Session, RunsOnRows, InPipeline,
                 RowExists, Section, Phases

\* A step of w that only changes pc[w], to a place it may be in.
MovesTo(w, place) ==
    /\ Goto(w, place)
    /\ UNCHANGED <<deployed, queues, delivery, snap>>

LEMMA MoveStep ==
    ASSUME TypeOK, NEW w \in Workers, pc[w] # "idle", NEW place \in Place,
           place \in InPipeline => RowExists(task[w].exec),
           MovesTo(w, place), session' \in [Workers -> Session],
           spent' \in [FaultKinds -> Nat]
    PROVE  RestOK' /\ RunsOnRows
BY DEF TypeOK, RestOK, RunsOnRows, RowExists, MovesTo, Goto, queues, delivery,
       InPipeline

LEMMA RecordPhaseType ==
    ASSUME TypeOK, NEW w \in Workers, NEW d \in Counters, RecordPhase(w, d)
    PROVE  TypeOK' /\ RowsStay
<1>1. pc[w] \in Phases /\ After[pc[w]] \in Section /\ RowExists(task[w].exec)
  BY DEF TypeOK, RecordPhase, Phases, Section, After
<1>2. snap[w] \in Row /\ Add(snap[w].count, d) \in Counters
  BY AddType DEF TypeOK, Row
<1>3. Add(delta[w], d) \in Counters
  BY AddType DEF TypeOK
<1>4. snap' \in [Workers -> Row]
  BY <1>2 DEF TypeOK, RecordPhase, Row
<1>5. StoreOK' /\ RowsStay
  BY <1>3 DEF TypeOK, StoreOK, RowsStay, RecordPhase
<1>6. RestOK' /\ RunsOnRows
  BY <1>1, <1>4 DEF TypeOK, RestOK, RunsOnRows, InPipeline, RowExists, RecordPhase,
                    Goto, Place, queues, delivery, Phases, Section
<1>. QED
  BY <1>5, <1>6, Assemble

LEMMA WorkerStepType ==
    ASSUME NEW w \in Workers
    PROVE  TypeOK /\ WorkerStep(w) => TypeOK' /\ RowsStay
<1>. SUFFICES ASSUME TypeOK, WorkerStep(w) PROVE TypeOK' /\ RowsStay
  OBVIOUS
<1>1. CASE Deliver(w)
  <2>1. RestOK' /\ RunsOnRows
    BY <1>1 DEF Deliver, TypeOK, RestOK, RunsOnRows, RowExists, InPipeline, Goto, At,
                Place, Section, Phases
  <2>. QED
    BY <1>1, <2>1, SameStore, Assemble DEF Deliver
<1>2. CASE LoadMissing(w)
  <2>1. pc[w] # "idle" /\ MovesTo(w, "returned") /\ "returned" \in Place
        /\ ("returned" \in InPipeline => RowExists(task[w].exec))
    BY <1>2 DEF LoadMissing, MovesTo, Goto, At, TypeOK, Place, InPipeline, Section, Phases,
                 store
  <2>2. RestOK' /\ RunsOnRows
    BY <1>2, <2>1, MoveStep DEF LoadMissing, TypeOK
  <2>. QED
    BY <1>2, <2>2, SameStore, Assemble DEF LoadMissing
<1>3. CASE Load(w)
  <2>1. task[w].exec \in Execs /\ row[task[w].exec] \in Row
    BY <1>3 DEF Load, RowExists, TypeOK
  <2>2. RestOK' /\ RunsOnRows
    BY <1>3, <2>1 DEF Load, TypeOK, RestOK, RunsOnRows, RowExists, InPipeline, Goto,
                      At, Place, Section, Phases, queues, delivery
  <2>. QED
    BY <1>3, <2>2, SameStore, Assemble DEF Load
<1>4. CASE Enter(w)
  <2>1. MovesTo(w, "categories") /\ pc[w] = "waiting" /\ RowExists(task[w].exec)
    BY <1>4 DEF Enter, MovesTo, Goto, At, TypeOK
  <2>2. RestOK' /\ RunsOnRows
    BY <1>4, <2>1, MoveStep DEF Enter, TypeOK, Place, Section, Phases, InPipeline
  <2>3. StoreOK' /\ RowsStay
    BY <1>4 DEF Enter, TypeOK, StoreOK, RowsStay
  <2>. QED
    BY <2>2, <2>3, Assemble
<1>5. CASE Skip(w)
  <2>1. pc[w] # "idle" /\ MovesTo(w, "returned") /\ "returned" \in Place
        /\ ("returned" \in InPipeline => RowExists(task[w].exec))
    BY <1>5 DEF Skip, MovesTo, Goto, At, TypeOK, Place, InPipeline, Section, Phases,
                 store
  <2>2. RestOK' /\ RunsOnRows
    BY <1>5, <2>1, MoveStep DEF Skip, TypeOK
  <2>. QED
    BY <1>5, <2>2, SameStore, Assemble DEF Skip
<1>6. CASE ClientRaises(w)
  <2>1. pc[w] # "idle" /\ MovesTo(w, "failing") /\ "failing" \in Place
        /\ ("failing" \in InPipeline => RowExists(task[w].exec))
    BY <1>6 DEF ClientRaises, MovesTo, Goto, At, TypeOK, Place, InPipeline, Section, Phases,
                 store
  <2>2. RestOK' /\ RunsOnRows
    BY <1>6, <2>1, MoveStep DEF ClientRaises, TypeOK
  <2>. QED
    BY <1>6, <2>2, SameStore, Assemble DEF ClientRaises
<1>7. CASE EngineReturns(w)
  BY <1>7, RecordPhaseType, ConstantsAssumption DEF EngineReturns, Counters
<1>8. CASE EngineRaises(w)
  BY <1>8, RecordPhaseType DEF EngineRaises, Counters
<1>9. CASE ImageCommit(w)
  <2>1. pc[w] \in Section /\ RowExists(task[w].exec)
    BY <1>9 DEF ImageCommit, At, TypeOK, Section, Phases
  <2>2. row[task[w].exec].status \in Status \ {"absent"}
    BY <2>1 DEF RowExists, TypeOK, Row
  <2>3. StoreOK' /\ RowsStay
    BY <1>9, <2>1, <2>2, CommitStep DEF ImageCommit
  <2>4. RestOK' /\ RunsOnRows
    BY <1>9 DEF ImageCommit, TypeOK, RestOK, RunsOnRows, RowExists, InPipeline,
                queues, delivery
  <2>. QED
    BY <2>3, <2>4, Assemble
<1>10. CASE BrokenPhase(w)
  <2>. DEFINE place == IF session[w] = "rolledback" /\ At(w, "categories")
                       THEN "failing" ELSE After[pc[w]]
  <2>1. pc[w] # "idle" /\ MovesTo(w, place) /\ place \in Place
        /\ RowExists(task[w].exec)
    BY <1>10 DEF BrokenPhase, MovesTo, TypeOK, Place, InPipeline, Section, Phases,
                 store, After
  <2>. HIDE DEF place
  <2>2. RestOK' /\ RunsOnRows
    BY <1>10, <2>1, MoveStep DEF BrokenPhase, TypeOK
  <2>. QED
    BY <1>10, <2>2, SameStore, Assemble DEF BrokenPhase
<1>11. CASE Complete(w)
  <2>1. pc[w] \in Section /\ MovesTo(w, "returned")
    BY <1>11 DEF Complete, At, Section, MovesTo
  <2>2. StoreOK' /\ RowsStay
    BY <1>11, <2>1, CommitStep DEF Complete, Status
  <2>3. RestOK' /\ RunsOnRows
    BY <1>11, <2>1, MoveStep DEF Complete, TypeOK, At, Place, InPipeline, Section, Phases
  <2>. QED
    BY <2>2, <2>3, Assemble
<1>12. CASE CompleteRaises(w)
  <2>1. pc[w] # "idle" /\ MovesTo(w, "failing") /\ "failing" \in Place
        /\ ("failing" \in InPipeline => RowExists(task[w].exec))
    BY <1>12 DEF CompleteRaises, MovesTo, Goto, At, TypeOK, Place, InPipeline, Section, Phases,
                 store
  <2>2. RestOK' /\ RunsOnRows
    BY <1>12, <2>1, MoveStep DEF CompleteRaises, TypeOK
  <2>. QED
    BY <1>12, <2>2, SameStore, Assemble DEF CompleteRaises
<1>13. CASE FailExecution(w)
  <2>1. pc[w] \in Section /\ MovesTo(w, "raised")
    BY <1>13 DEF FailExecution, At, Section, MovesTo
  <2>2. StoreOK' /\ RowsStay
    BY <1>13, <2>1, CommitStep DEF FailExecution, Status
  <2>3. RestOK' /\ RunsOnRows
    BY <1>13, <2>1, MoveStep DEF FailExecution, TypeOK, At, Place, InPipeline, Section, Phases
  <2>. QED
    BY <2>2, <2>3, Assemble
<1>14. CASE FailUpdateRaises(w)
  <2>1. pc[w] \in Section /\ MovesTo(w, "raised")
    BY <1>14 DEF FailUpdateRaises, At, Section, MovesTo
  <2>2. RestOK' /\ RunsOnRows
    BY <1>14, <2>1, MoveStep
       DEF FailUpdateRaises, TypeOK, At, Place, InPipeline, Section, Phases
  <2>. QED
    BY <1>14, <2>2, RollbackStep, Assemble DEF FailUpdateRaises
<1>15. CASE Retry(w)
  <2>1. [task[w] EXCEPT !.retries = task[w].retries + 1] \in Message
    BY <1>15, ConstantsAssumption DEF Retry, At, TypeOK, Message
  <2>2. RestOK'
    BY <1>15, <2>1, LeaveStep DEF Retry, TypeOK, RestOK
  <2>. QED
    BY <1>15, <2>2, LeaveStep, SameStore, Assemble DEF Retry
<1>16. CASE GiveUp(w)
  <2>1. RestOK'
    BY <1>16, LeaveStep DEF GiveUp, TypeOK, RestOK, queues
  <2>. QED
    BY <1>16, <2>1, LeaveStep, SameStore, Assemble DEF GiveUp
<1>17. CASE Ack(w)
  <2>1. RestOK'
    BY <1>17, LeaveStep DEF Ack, TypeOK, RestOK, queues
  <2>. QED
    BY <1>17, <2>1, LeaveStep, SameStore, Assemble DEF Ack
<1>. QED
  BY <1>1, <1>2, <1>3, <1>4, <1>5, <1>6, <1>7, <1>8, <1>9, <1>10, <1>11, <1>12,
     <1>13, <1>14, <1>15, <1>16, <1>17 DEF WorkerStep

LEMMA FaultType ==
    ASSUME NEW w \in Workers
    PROVE  TypeOK /\ Fault(w) => TypeOK' /\ RowsStay
<1>. SUFFICES ASSUME TypeOK, Fault(w) PROVE TypeOK' /\ RowsStay
  OBVIOUS
<1>1. spent' \in [FaultKinds -> Nat]
  BY SpendStep DEF Fault, FlushFails, StatementFails, LockRaises, LoadRaises,
     SoftLimitCancels, SoftLimitRaises, Crash, Kill, Redeliver, FaultKinds
<1>2. CASE FlushFails(w)
  <2>1. RestOK' /\ RunsOnRows
    BY <1>1, <1>2 DEF FlushFails, TypeOK, RestOK, RunsOnRows, RowExists, InPipeline,
                      queues, delivery, Session
  <2>. QED
    BY <1>2, <2>1, RollbackStep, Assemble DEF FlushFails
<1>3. CASE StatementFails(w)
  <2>1. RestOK' /\ RunsOnRows
    BY <1>1, <1>3 DEF StatementFails, TypeOK, RestOK, RunsOnRows, RowExists,
                      InPipeline, queues, delivery, Session
  <2>. QED
    BY <1>3, <2>1, SameStore, Assemble DEF StatementFails
<1>4. CASE LockRaises(w)
  <2>1. pc[w] # "idle" /\ RowExists(task[w].exec) /\ session' \in [Workers -> Session]
    BY <1>4 DEF LockRaises, At, TypeOK, Session
  <2>2. MovesTo(w, "categories") \/ MovesTo(w, "returned")
    BY <1>4 DEF LockRaises, MovesTo
  <2>3. RestOK' /\ RunsOnRows
    BY <1>1, <2>1, <2>2, MoveStep DEF Place, Section, Phases
  <2>. QED
    BY <1>4, <2>3, SameStore, Assemble DEF LockRaises
<1>5. CASE LoadRaises(w)
  <2>1. pc[w] # "idle" /\ MovesTo(w, "raised") /\ session' \in [Workers -> Session]
    BY <1>5 DEF LoadRaises, At, MovesTo, TypeOK
  <2>2. RestOK' /\ RunsOnRows
    BY <1>1, <2>1, MoveStep DEF Place, InPipeline, Section, Phases
  <2>. QED
    BY <1>5, <2>2, SameStore, Assemble DEF LoadRaises
<1>6. CASE SoftLimitCancels(w)
  <2>1. pc[w] # "idle" /\ MovesTo(w, "raised") /\ session' \in [Workers -> Session]
    BY <1>6 DEF SoftLimitCancels, MovesTo, TypeOK, Section, Phases
  <2>2. RestOK' /\ RunsOnRows
    BY <1>1, <2>1, MoveStep DEF Place, InPipeline, Section, Phases
  <2>. QED
    BY <1>6, <2>2, RollbackStep, Assemble DEF SoftLimitCancels
<1>7. CASE SoftLimitRaises(w)
  <2>1. pc[w] # "idle" /\ MovesTo(w, "failing") /\ session' \in [Workers -> Session]
        /\ RowExists(task[w].exec)
    BY <1>7 DEF SoftLimitRaises, MovesTo, TypeOK, Section, Phases
  <2>2. RestOK' /\ RunsOnRows
    BY <1>1, <2>1, MoveStep DEF Place, Section
  <2>. QED
    BY <1>7, <2>2, SameStore, Assemble DEF SoftLimitRaises
<1>8. CASE Crash(w)
  <2>1. RestOK' /\ RunsOnRows
    BY <1>1, <1>8, LeaveStep DEF Crash, TypeOK, RestOK
  <2>. QED
    BY <1>8, <2>1, RollbackStep, Assemble DEF Crash
<1>9. CASE Kill(w)
  <2>1. RestOK' /\ RunsOnRows
    BY <1>1, <1>9, LeaveStep DEF Kill, TypeOK, RestOK, queues
  <2>. QED
    BY <1>9, <2>1, RollbackStep, Assemble DEF Kill
<1>10. CASE Redeliver(w)
  <2>1. [task[w] EXCEPT !.tag = spent["redelivery"] + 1] \in Message
    BY <1>10 DEF Redeliver, TypeOK, Message, FaultKinds
  <2>2. RestOK' /\ RunsOnRows
    BY <1>1, <1>10, <2>1 DEF Redeliver, TypeOK, RestOK, RunsOnRows, RowExists,
                             InPipeline
  <2>. QED
    BY <1>10, <2>2, SameStore, Assemble DEF Redeliver
<1>. QED
  BY <1>2, <1>3, <1>4, <1>5, <1>6, <1>7, <1>8, <1>9, <1>10 DEF Fault

\* Type correctness of every behaviour: in particular whoever is in the pipeline
\* works for a row that exists, and no message has used up more retries than
\* execute_sync_job has.
THEOREM TypeCorrect == Spec => []TypeOK
<1>1. TypeOK /\ UNCHANGED vars => TypeOK'
  BY DEF TypeOK, vars, queues, delivery, store, RowExists
<1>2. TypeOK /\ [Next]_vars => TypeOK'
  BY <1>1, EnvironmentType, WorkerStepType, FaultType DEF Next, Quiescent
<1>. QED
  BY InitType, <1>2, PTL DEF Spec

-----------------------------------------------------------------------------
(* The advisory lock *)

\* A worker that can still write in the categories or products phase holds the
\* lock of its job, and every lock is held by a worker in the pipeline: the
\* inductive invariant behind mutual exclusion.
HoldsLock(w) ==
    pc[w] \in {"categories", "products"} /\ session[w] = "ok"

LockInv ==
    /\ NoLeakedLock
    /\ \A w \in Workers : HoldsLock(w) => lock[JobOf(w)] = w

\* A step of w leaves the other workers where they are.
Frame(w) ==
    \A v \in Workers \ {w} :
        pc'[v] = pc[v] /\ session'[v] = session[v] /\ task'[v] = task[v]

LEMMA OthersKeepJob ==
    ASSUME TypeOK, RowsStay, NEW w \in Workers, Frame(w),
           NEW v \in Workers \ {w}, pc[v] \in Section
    PROVE  /\ pc'[v] = pc[v] /\ session'[v] = session[v]
           /\ row'[task'[v].exec].job = JobOf(v) /\ JobOf(v) \in Jobs
BY DEF TypeOK, RowsStay, Frame, JobOf, RowExists

\* LockInv after the step, with every prime on a variable.
LockInvNext ==
    /\ \A j \in Jobs : lock'[j] # NoWorker =>
          pc'[lock'[j]] \in Section /\ row'[task'[lock'[j]].exec].job = j
    /\ \A v \in Workers :
          pc'[v] \in {"categories", "products"} /\ session'[v] = "ok" =>
              lock'[row'[task'[v].exec].job] = v

LEMMA LockInvPrime == LockInvNext => LockInv'
BY DEF LockInvNext, LockInv, NoLeakedLock, HoldsLock, JobOf

\* The step ends the transaction of w, and w is then not in a locked phase.
LEMMA UnlockKeepsLockInv ==
    ASSUME TypeOK, RowsStay, LockInv, NEW w \in Workers, Frame(w), Unlock(w),
           ~HoldsLock(w)'
    PROVE  LockInv'
<1>1. ASSUME NEW j \in Jobs, lock'[j] # NoWorker
      PROVE  pc'[lock'[j]] \in Section /\ row'[task'[lock'[j]].exec].job = j
  <2>1. lock'[j] = lock[j] /\ lock[j] \in Workers \ {w}
    BY <1>1, UnlockStep DEF TypeOK
  <2>2. pc[lock[j]] \in Section /\ JobOf(lock[j]) = j
    BY <1>1, <2>1, ConstantsAssumption DEF LockInv, NoLeakedLock
  <2>. QED
    BY <2>1, <2>2, OthersKeepJob
<1>2. ASSUME NEW v \in Workers,
             pc'[v] \in {"categories", "products"}, session'[v] = "ok"
      PROVE  lock'[row'[task'[v].exec].job] = v
  <2>1. v # w
    BY <1>2 DEF HoldsLock
  <2>2. HoldsLock(v) /\ pc[v] \in Section
    BY <1>2, <2>1 DEF HoldsLock, Frame, Section, Phases
  <2>3. lock[JobOf(v)] = v /\ row'[task'[v].exec].job = JobOf(v) /\ JobOf(v) \in Jobs
    BY <2>1, <2>2, OthersKeepJob DEF LockInv
  <2>. QED
    BY <2>1, <2>3, UnlockStep
<1>. QED
  BY <1>1, <1>2, LockInvPrime DEF LockInvNext

\* The step leaves the locks alone: w stays in the pipeline if it was there,
\* and does not get into a locked phase.
LEMMA MoveKeepsLockInv ==
    ASSUME TypeOK, RowsStay, LockInv, NEW w \in Workers, Frame(w), UNCHANGED lock,
           pc[w] \in Section => pc'[w] \in Section /\ task'[w] = task[w],
           HoldsLock(w)' => HoldsLock(w)
    PROVE  LockInv'
<1>1. ASSUME NEW v \in Workers, pc[v] \in Section
      PROVE  pc'[v] \in Section /\ row'[task'[v].exec].job = JobOf(v)
  <2>1. CASE v = w
    BY <1>1, <2>1 DEF TypeOK, RowsStay, JobOf, RowExists
  <2>2. CASE v # w
    BY <1>1, <2>2, OthersKeepJob
  <2>. QED
    BY <2>1, <2>2
<1>2. ASSUME NEW j \in Jobs, lock'[j] # NoWorker
      PROVE  pc'[lock'[j]] \in Section /\ row'[task'[lock'[j]].exec].job = j
  <2>1. lock[j] \in Workers /\ pc[lock[j]] \in Section /\ JobOf(lock[j]) = j
    BY <1>2 DEF LockInv, NoLeakedLock, TypeOK
  <2>. QED
    BY <1>1, <2>1
<1>3. ASSUME NEW v \in Workers,
             pc'[v] \in {"categories", "products"}, session'[v] = "ok"
      PROVE  lock'[row'[task'[v].exec].job] = v
  <2>1. HoldsLock(v) /\ pc[v] \in Section
    BY <1>3 DEF HoldsLock, Frame, Section, Phases
  <2>. QED
    BY <1>1, <2>1 DEF LockInv
<1>. QED
  BY <1>2, <1>3, LockInvPrime DEF LockInvNext

\* The only step that takes a lock finds it free.
LEMMA EnterKeepsLockInv ==
    ASSUME TypeOK, RowsStay, LockInv, NEW w \in Workers, Enter(w)
    PROVE  LockInv'
<1>. DEFINE k == JobOf(w)
<1>1. pc[w] = "waiting" /\ lock[k] = NoWorker /\ lock' = [lock EXCEPT ![k] = w]
      /\ pc' = [pc EXCEPT ![w] = "categories"]
      /\ UNCHANGED <<row, task, session>>
  BY DEF Enter, At, Goto, delivery
<1>2. k \in Jobs /\ w # NoWorker
  BY <1>1, ConstantsAssumption DEF TypeOK, RowExists, JobOf
<1>3. ASSUME NEW j \in Jobs, lock'[j] # NoWorker
      PROVE  pc'[lock'[j]] \in Section /\ row'[task'[lock'[j]].exec].job = j
  <2>1. CASE j = k
    BY <1>1, <1>2, <2>1 DEF TypeOK, JobOf, Section, Phases
  <2>2. CASE j # k
    <3>1. lock'[j] = lock[j] /\ lock[j] # w
      BY <1>1, <1>2, <1>3, <2>2 DEF TypeOK, LockInv, NoLeakedLock, Section, Phases
    <3>. QED
      BY <1>1, <1>3, <3>1 DEF TypeOK, LockInv, NoLeakedLock, JobOf
  <2>. QED
    BY <2>1, <2>2
<1>4. ASSUME NEW v \in Workers,
             pc'[v] \in {"categories", "products"}, session'[v] = "ok"
      PROVE  lock'[row'[task'[v].exec].job] = v
  <2>1. CASE v = w
    BY <1>1, <1>2, <2>1 DEF TypeOK, JobOf
  <2>2. CASE v # w
    <3>1. HoldsLock(v) /\ lock[JobOf(v)] = v /\ JobOf(v) \in Jobs
      BY <1>1, <1>4, <2>2
         DEF TypeOK, LockInv, HoldsLock, JobOf, RowExists, Section, Phases
    <3>2. v # NoWorker
      BY ConstantsAssumption
    <3>. QED
      BY <1>1, <1>2, <3>1, <3>2 DEF TypeOK, JobOf
  <2>. QED
    BY <2>1, <2>2
<1>. QED
  BY <1>3, <1>4, LockInvPrime DEF LockInvNext

LEMMA LeaveFrame ==
    ASSUME TypeOK, NEW w \in Workers, Leave(w)
    PROVE  Frame(w) /\ pc'[w] = "idle"
BY DEF TypeOK, Frame, Leave, Goto

LEMMA WorkerStepLock ==
    ASSUME TypeOK, RowsStay, LockInv, NEW w \in Workers, WorkerStep(w)
    PROVE  LockInv'
\* Steps before the lock is asked for, or without it.
<1>1. CASE Deliver(w) \/ LoadMissing(w) \/ Load(w) \/ Skip(w)
  <2>1. Frame(w) /\ UNCHANGED lock /\ pc[w] \notin Section /\ ~HoldsLock(w)'
    BY <1>1 DEF Deliver, LoadMissing, Load, Skip, Frame, At, Goto, TypeOK, delivery, store,
                HoldsLock, Section, Phases
  <2>. QED
    BY <2>1, MoveKeepsLockInv
<1>2. CASE Enter(w)
  BY <1>2, EnterKeepsLockInv
\* Steps inside the try block that do not end the transaction.
<1>3. CASE ClientRaises(w) \/ CompleteRaises(w)
  <2>1. Frame(w) /\ UNCHANGED <<lock, task>> /\ pc'[w] = "failing"
    BY <1>3 DEF ClientRaises, CompleteRaises, Frame, Goto, TypeOK, delivery, store
  <2>. QED
    BY <2>1, MoveKeepsLockInv DEF HoldsLock, Section
<1>4. ASSUME NEW d, RecordPhase(w, d)
      PROVE  LockInv'
  <2>1. Frame(w) /\ UNCHANGED <<lock, task, session>> /\ pc[w] \in Phases
        /\ pc'[w] = After[pc[w]]
    BY <1>4 DEF RecordPhase, Frame, Goto, TypeOK, delivery
  <2>2. pc'[w] \in Section /\ (HoldsLock(w)' => HoldsLock(w))
    BY <2>1 DEF HoldsLock, After, Section, Phases
  <2>. QED
    BY <2>1, <2>2, MoveKeepsLockInv
<1>5. CASE BrokenPhase(w)
  <2>1. Frame(w) /\ UNCHANGED <<lock, task, session>> /\ pc[w] \in Phases
        /\ session[w] # "ok" /\ pc'[w] \in {"failing", After[pc[w]]}
    BY <1>5 DEF BrokenPhase, Frame, Goto, TypeOK, delivery, store
  <2>2. pc'[w] \in Section /\ ~HoldsLock(w)'
    BY <2>1 DEF HoldsLock, After, Section, Phases
  <2>. QED
    BY <2>1, <2>2, MoveKeepsLockInv
\* Steps that end the transaction.
<1>6. CASE ImageCommit(w)
  <2>1. Frame(w) /\ Unlock(w) /\ ~HoldsLock(w)'
    BY <1>6 DEF ImageCommit, Commit, Frame, At, TypeOK, delivery, HoldsLock
  <2>. QED
    BY <2>1, UnlockKeepsLockInv
<1>7. CASE Complete(w) \/ FailExecution(w) \/ FailUpdateRaises(w)
  <2>1. Frame(w) /\ Unlock(w) /\ ~HoldsLock(w)'
    BY <1>7 DEF Complete, FailExecution, FailUpdateRaises, Commit, Rollback, Frame,
                Goto, TypeOK, delivery, HoldsLock
  <2>. QED
    BY <2>1, UnlockKeepsLockInv
\* Steps after it.
<1>8. CASE Retry(w) \/ GiveUp(w) \/ Ack(w)
  <2>1. Leave(w) /\ UNCHANGED lock /\ pc[w] \notin Section
    BY <1>8 DEF Retry, GiveUp, Ack, At, store, Section, Phases
  <2>. QED
    BY <2>1, LeaveFrame, MoveKeepsLockInv DEF HoldsLock
<1>. QED
  BY <1>1, <1>2, <1>3, <1>4, <1>5, <1>6, <1>7, <1>8
     DEF WorkerStep, EngineReturns, EngineRaises

LEMMA FaultLock ==
    ASSUME TypeOK, RowsStay, LockInv, NEW w \in Workers, Fault(w)
    PROVE  LockInv'
<1>1. CASE FlushFails(w) \/ SoftLimitCancels(w)
  <2>1. Frame(w) /\ Unlock(w) /\ ~HoldsLock(w)'
    BY <1>1 DEF FlushFails, SoftLimitCancels, Rollback, Frame, Goto, TypeOK, delivery,
                HoldsLock
  <2>. QED
    BY <2>1, UnlockKeepsLockInv
<1>2. CASE Crash(w) \/ Kill(w)
  <2>1. Leave(w) /\ Unlock(w)
    BY <1>2 DEF Crash, Kill, Rollback
  <2>. QED
    BY <2>1, LeaveFrame, UnlockKeepsLockInv DEF HoldsLock
<1>3. CASE StatementFails(w)
  <2>1. Frame(w) /\ UNCHANGED <<lock, pc, task>> /\ session'[w] = "aborted"
    BY <1>3 DEF StatementFails, Frame, TypeOK, delivery, store
  <2>. QED
    BY <2>1, MoveKeepsLockInv DEF HoldsLock
<1>4. CASE LockRaises(w)
  <2>1. Frame(w) /\ UNCHANGED lock /\ pc[w] = "waiting"
    BY <1>4 DEF LockRaises, Frame, At, Goto, TypeOK, delivery, store
  <2>2. session'[w] = "aborted" \/ pc'[w] = "returned"
    BY <1>4 DEF LockRaises, Goto, TypeOK
  <2>. QED
    BY <2>1, <2>2, MoveKeepsLockInv DEF HoldsLock, Section, Phases
<1>5. CASE LoadRaises(w)
  <2>1. Frame(w) /\ UNCHANGED lock /\ pc[w] = "loading" /\ pc'[w] = "raised"
    BY <1>5 DEF LoadRaises, Frame, At, Goto, TypeOK, delivery, store
  <2>. QED
    BY <2>1, MoveKeepsLockInv DEF HoldsLock, Section, Phases
<1>6. CASE SoftLimitRaises(w)
  <2>1. Frame(w) /\ UNCHANGED <<lock, task>> /\ pc'[w] = "failing"
    BY <1>6 DEF SoftLimitRaises, Frame, Goto, TypeOK, delivery, store
  <2>. QED
    BY <2>1, MoveKeepsLockInv DEF HoldsLock, Section
<1>7. CASE Redeliver(w)
  <2>1. Frame(w) /\ UNCHANGED <<lock, pc, task, session>>
    BY <1>7 DEF Redeliver, Frame, store
  <2>. QED
    BY <2>1, MoveKeepsLockInv DEF HoldsLock
<1>. QED
  BY <1>1, <1>2, <1>3, <1>4, <1>5, <1>6, <1>7 DEF Fault

\* No worker takes part in a step of the environment.
LEMMA EnvironmentLock ==
    ASSUME TypeOK, RowsStay, LockInv, Environment
    PROVE  LockInv'
<1>1. UNCHANGED <<pc, task, session, lock>>
  BY DEF Environment, RunJobEndpoint, BeatCreate, BeatDispatch, BeatDispatchFails,
         WebhookDispatch, delivery, store
<1>2. CASE Workers = {}
  BY <1>1, <1>2, ConstantsAssumption, LockInvPrime DEF TypeOK, LockInv, NoLeakedLock, LockInvNext
<1>3. CASE \E w \in Workers : TRUE
  <2>. PICK w \in Workers : TRUE
    BY <1>3
  <2>1. Frame(w)
    BY <1>1 DEF Frame
  <2>. QED
    BY <1>1, <2>1, MoveKeepsLockInv DEF HoldsLock
<1>. QED
  BY <1>2, <1>3

LEMMA InitLock == Init => LockInv
BY DEF Init, LockInv, NoLeakedLock, HoldsLock

LEMMA NextLock ==
    ASSUME TypeOK, LockInv, [Next]_vars
    PROVE  LockInv'
<1>1. CASE UNCHANGED vars
  BY <1>1 DEF LockInv, NoLeakedLock, HoldsLock, JobOf, vars, delivery, store
<1>2. CASE Environment
  BY <1>2, EnvironmentType, EnvironmentLock
<1>3. ASSUME NEW w \in Workers, WorkerStep(w) \/ Fault(w)
      PROVE  LockInv'
  BY <1>3, WorkerStepType, FaultType, WorkerStepLock, FaultLock
<1>. QED
  BY <1>1, <1>2, <1>3 DEF Next, Quiescent

LEMMA LockInvExcludes == LockInv => ExclusiveUntilImages
BY DEF LockInv, ExclusiveUntilImages, HoldsLock

\* No two workers that can still write are both in the categories or products
\* phase of one job (orchestrator.py:85), under every fault, redelivery and
\* broken session the model has.
THEOREM ExclusiveUntilImagesHolds == Spec => []ExclusiveUntilImages
<1>. QED
  BY TypeCorrect, InitLock, NextLock, LockInvExcludes, PTL DEF Spec

\* No run leaves the advisory lock of its job behind, however it ends.
THEOREM NoLeakedLockHolds == Spec => []NoLeakedLock
<1>1. LockInv => NoLeakedLock
  BY DEF LockInv
<1>. QED
  BY <1>1, TypeCorrect, InitLock, NextLock, PTL DEF Spec

-----------------------------------------------------------------------------
(* The status of an execution *)

\* What a step may do to the statuses: one row ends, or is created.
StatusStep ==
    \A e \in Execs : row[e].status \in Terminal => row'[e].status \in Terminal

LEMMA CommitStatus ==
    ASSUME TypeOK, NEW w \in Workers, pc[w] \in Section,
           NEW status \in Terminal, Commit(w, status)
    PROVE  StatusStep
<1>1. task[w].exec \in Execs /\ Committed(w, status).status = status
  BY CommittedType DEF TypeOK, RowExists, Terminal, Status
<1>. QED
  BY <1>1 DEF Commit, StatusStep, TypeOK

LEMMA ImageCommitStatus ==
    ASSUME TypeOK, NEW w \in Workers, ImageCommit(w)
    PROVE  StatusStep
<1>. DEFINE status == row[task[w].exec].status
<1>1. pc[w] \in Section /\ task[w].exec \in Execs /\ status \in Status \ {"absent"}
  BY DEF ImageCommit, At, TypeOK, RowExists, Row, Section, Phases
<1>2. Committed(w, status).status = status
  BY <1>1, CommittedType
<1>. QED
  BY <1>1, <1>2 DEF ImageCommit, Commit, StatusStep, TypeOK

\* An execution that has ended is not reported as running again: the image
\* engine's commit in the middle of a run (images.py:146) does not write the
\* status of the copy the run has loaded.
THEOREM NeverReopenedHolds == Spec => NeverReopened
<1>1. ASSUME TypeOK, [Next]_vars
      PROVE  StatusStep
  <2>1. CASE UNCHANGED row
    BY <2>1 DEF StatusStep
  <2>2. CASE \E j \in Jobs, e \in Execs : TriggerExecution(j, e)
    <3>. PICK j \in Jobs, e \in Execs : TriggerExecution(j, e)
      BY <2>2
    <3>1. row[e].status \notin Terminal
      BY DEF TriggerExecution, Terminal
    <3>2. \A f \in Execs \ {e} : row'[f] = row[f]
      BY <1>1 DEF TriggerExecution, TypeOK
    <3>. QED
      BY <3>1, <3>2 DEF StatusStep
  <2>3. CASE \E w \in Workers : ImageCommit(w)
    BY <1>1, <2>3, ImageCommitStatus
  <2>4. CASE \E w \in Workers : Complete(w) \/ FailExecution(w)
    BY <1>1, <2>4, CommitStatus
       DEF Complete, FailExecution, At, Section, Terminal
  <2>5. ASSUME Environment
        PROVE  UNCHANGED row \/ \E j \in Jobs, e \in Execs : TriggerExecution(j, e)
    BY <2>5 DEF Environment, RunJobEndpoint, BeatCreate, BeatDispatch,
                BeatDispatchFails, WebhookDispatch, store
  <2>6. ASSUME NEW w \in Workers, WorkerStep(w)
        PROVE  UNCHANGED row \/ ImageCommit(w) \/ Complete(w) \/ FailExecution(w)
    BY <2>6 DEF WorkerStep, Deliver, LoadMissing, Load, Enter, Skip, ClientRaises,
                EngineReturns, EngineRaises, RecordPhase, BrokenPhase, CompleteRaises,
                FailUpdateRaises, Rollback, Retry, GiveUp, Ack, store
  <2>7. ASSUME NEW w \in Workers, Fault(w)
        PROVE  UNCHANGED row
    BY <2>7 DEF Fault, FlushFails, StatementFails, LockRaises, LoadRaises,
                SoftLimitCancels, SoftLimitRaises, Crash, Kill, Redeliver, Rollback,
                store
  <2>8. ASSUME UNCHANGED vars
        PROVE  UNCHANGED row
    BY <2>8 DEF vars, store
  <2>. QED
    BY <1>1, <2>1, <2>2, <2>3, <2>4, <2>5, <2>6, <2>7, <2>8 DEF Next, Quiescent
<1>2. TypeOK /\ [Next]_vars =>
          [\A e \in Execs : row[e].status \in Terminal => row'[e].status \in Terminal]_vars
  BY <1>1 DEF StatusStep
<1>. QED
  BY <1>2, TypeCorrect, PTL DEF Spec, NeverReopened
-----------------------------------------------------------------------------
(***************************************************************************)
(* No message twice                                                        *)
(*                                                                         *)
(* When the broker never gives a message to two workers, an execution is   *)
(* in one place: with the Beat wrapper, in one message, or with one        *)
(* worker. What a worker has loaded is then as good as the row, and what   *)
(* it has flushed is all that separates its copy from the row.             *)
(***************************************************************************)
DeliveredOnce == MaxFaults["redelivery"] = 0

Busy(w) == pc[w] # "idle"
Queued(e) == \E m \in ready : m.exec = e
Handled(e) == \E w \in Workers : Busy(w) /\ task[w].exec = e

TokenInv ==
    /\ spent["redelivery"] = 0
    /\ \A e \in Execs : row[e].status = "absent" => e \notin undispatched
    /\ \A e \in Execs : row[e].status = "absent" \/ e \in undispatched =>
          ~Queued(e) /\ ~Handled(e)
    /\ \A m, n \in ready : m.exec \in Execs /\ m.exec = n.exec => m = n
    /\ \A e \in Execs : Queued(e) => ~Handled(e)
    /\ OneWorkerPerExecution

RunInv(w) ==
    /\ pc[w] \notin Section => delta[w] = Zero
    /\ pc[w] \in InPipeline => snap[w].status = row[task[w].exec].status
    /\ pc[w] \in Section => row[task[w].exec].status = "running"
    /\ pc[w] \in InPipeline /\ session[w] = "ok" =>
          snap[w].count = Add(row[task[w].exec].count, delta[w])

RowsInv ==
    \A e \in Execs : /\ row[e].count = tally[e]
                     /\ row[e].status = "absent" => row[e].count = Zero

OnceInv == TokenInv /\ RowsInv /\ \A w \in Workers : RunInv(w)

LEMMA InitOnce == Init => OnceInv
<1> SUFFICES ASSUME Init  PROVE OnceInv
  OBVIOUS
<1>1. TokenInv
  BY DEF Init, TokenInv, Queued, Handled, Busy, OneWorkerPerExecution, FaultKinds
<1>2. RowsInv
  BY DEF Init, RowsInv, NoRow
<1>3. \A w \in Workers : RunInv(w)
  BY DEF Init, RunInv, InPipeline, Section, Phases
<1>. QED  BY <1>1, <1>2, <1>3 DEF OnceInv

(***************************************************************************)
(* Where an execution is                                                   *)
(***************************************************************************)
\* Only a redelivery spends the budget of redeliveries.
LEMMA SpendOther ==
    ASSUME TypeOK, NEW kind \in FaultKinds \ {"redelivery"}, Spend(kind)
    PROVE  spent'["redelivery"] = spent["redelivery"]
BY DEF TypeOK, Spend, FaultKinds

LEMMA NeverRedelivered ==
    ASSUME DeliveredOnce, TypeOK, TokenInv, [Next]_vars
    PROVE  /\ spent'["redelivery"] = 0
           /\ \A w \in Workers : ~Redeliver(w)
<1>0. \A w \in Workers : ~Redeliver(w)
  BY ConstantsAssumption DEF DeliveredOnce, TokenInv, Redeliver, Spend, FaultKinds
<1>1. UNCHANGED spent \/ \E kind \in FaultKinds \ {"redelivery"} : Spend(kind)
  <2>1. CASE Environment
    BY <2>1 DEF Environment, RunJobEndpoint, BeatCreate, BeatDispatch, BeatDispatchFails,
                WebhookDispatch, FaultKinds
  <2>2. ASSUME NEW w \in Workers, WorkerStep(w)  PROVE UNCHANGED spent
    BY <2>2 DEF WorkerStep, Deliver, LoadMissing, Load, Enter, Skip, ClientRaises,
                EngineReturns, EngineRaises, RecordPhase, ImageCommit, BrokenPhase, Complete,
                CompleteRaises, FailExecution, FailUpdateRaises, Retry, GiveUp, Ack
  <2>3. ASSUME NEW w \in Workers, Fault(w)
        PROVE  \E kind \in FaultKinds \ {"redelivery"} : Spend(kind)
    BY <1>0, <2>3 DEF Fault, FlushFails, StatementFails, LockRaises, LoadRaises,
                SoftLimitCancels, SoftLimitRaises, Crash, Kill, FaultKinds
  <2>4. CASE UNCHANGED vars  BY <2>4 DEF vars
  <2>. QED  BY <2>1, <2>2, <2>3, <2>4 DEF Next, Quiescent
<1>. QED  BY <1>0, <1>1, SpendOther DEF TokenInv

\* A worker goes on with the message it has, or stays idle.
LEMMA TokensStay ==
    ASSUME TokenInv, RowsStay, TypeOK, spent'["redelivery"] = 0,
           UNCHANGED <<undispatched, ready, task>>,
           \A v \in Workers : Busy(v)' => Busy(v)
    PROVE  TokenInv'
<1>1. \A e \in Execs : row'[e].status = "absent" => row[e].status = "absent"
  BY DEF RowsStay
<1>2. \A e \in Execs : (Queued(e)' => Queued(e)) /\ (Handled(e)' => Handled(e))
  BY DEF Queued, Handled
<1>3. OneWorkerPerExecution'
  BY DEF TokenInv, OneWorkerPerExecution, Busy
<1>. QED  BY <1>1, <1>2, <1>3 DEF TokenInv

\* A worker that leaves puts back at most a message of its own execution.
LEMMA TokensReturn ==
    ASSUME TokenInv, RowsStay, TypeOK, spent'["redelivery"] = 0,
           NEW w \in Workers, Busy(w), Leave(w), UNCHANGED undispatched,
           NEW m, m.exec = task[w].exec, ready' = ready \/ ready' = ready \cup {m}
    PROVE  TokenInv'
<1> DEFINE x == task[w].exec
<1>0. pc' = [pc EXCEPT ![w] = "idle"] /\ task' = [task EXCEPT ![w] = NoTask]
  BY DEF Leave, Goto
<1>1. /\ ~Busy(w)'
      /\ \A v \in Workers \ {w} : (Busy(v)' <=> Busy(v)) /\ task'[v] = task[v]
  BY <1>0 DEF TypeOK, Busy
<1>2. \A e \in Execs : row'[e].status = "absent" => row[e].status = "absent"
  BY DEF RowsStay
<1>3. \A e \in Execs : Handled(e)' => Handled(e) /\ e # x
  BY <1>1 DEF Handled, TokenInv, OneWorkerPerExecution, Busy
<1>4. \A e \in Execs : Queued(e)' => Queued(e) \/ e = x
  BY DEF Queued
<1>5. x \in Execs => Handled(x) /\ ~Queued(x)
  BY DEF Handled, TokenInv
<1>6. \A e \in Execs : row'[e].status = "absent" \/ e \in undispatched' => ~Queued(e)' /\ ~Handled(e)'
  BY <1>2, <1>3, <1>4, <1>5 DEF TokenInv
<1>7. \A k, n \in ready' : k.exec \in Execs /\ k.exec = n.exec => k = n
  BY <1>5 DEF TokenInv, Queued
<1>8. \A e \in Execs : Queued(e)' => ~Handled(e)'
  BY <1>3, <1>4 DEF TokenInv
<1>9. OneWorkerPerExecution'
  BY <1>1 DEF TokenInv, OneWorkerPerExecution, Busy
<1>. QED  BY <1>2, <1>6, <1>7, <1>8, <1>9 DEF TokenInv

LEMMA TokensDelivered ==
    ASSUME TokenInv, TypeOK, NEW w \in Workers, Deliver(w)
    PROVE  TokenInv'
<1>1. PICK m \in ready : ready' = ready \ {m} /\ task' = [task EXCEPT ![w] = m]
  BY DEF Deliver
<1>2. UNCHANGED <<row, undispatched, spent>>
  BY DEF Deliver, store
<1>3. /\ Busy(w)' /\ ~Busy(w) /\ task'[w] = m
      /\ \A v \in Workers \ {w} : (Busy(v)' <=> Busy(v)) /\ task'[v] = task[v]
  BY <1>1 DEF TypeOK, Busy, Deliver, Goto, At
<1>4. \A e \in Execs : Handled(e)' => Handled(e) \/ e = m.exec
  BY <1>3 DEF Handled
<1>5. \A e \in Execs : Queued(e)' => Queued(e) /\ e # m.exec
  BY <1>1 DEF Queued, TokenInv
<1>6. m.exec \in Execs => Queued(m.exec) /\ ~Handled(m.exec)
  BY DEF Queued, TokenInv
<1>7. \A e \in Execs : row'[e].status = "absent" \/ e \in undispatched' => ~Queued(e)' /\ ~Handled(e)'
  BY <1>2, <1>4, <1>5, <1>6 DEF TokenInv
<1>8. \A k, n \in ready' : k.exec \in Execs /\ k.exec = n.exec => k = n
  BY <1>1 DEF TokenInv
<1>9. \A e \in Execs : Queued(e)' => ~Handled(e)'
  BY <1>4, <1>5 DEF TokenInv
<1>10. OneWorkerPerExecution'
  <2> SUFFICES ASSUME NEW u \in Workers, NEW v \in Workers, Busy(u)', Busy(v)',
                      task'[u].exec \in Execs, task'[u].exec = task'[v].exec, u # v
               PROVE FALSE
    BY DEF OneWorkerPerExecution, Busy
  <2>1. CASE u = w
    BY <1>3, <1>6, <2>1 DEF Handled
  <2>2. CASE v = w
    BY <1>3, <1>6, <2>2 DEF Handled
  <2>3. CASE u # w /\ v # w
    BY <1>3, <2>3 DEF TokenInv, OneWorkerPerExecution, Busy
  <2>. QED  BY <2>1, <2>2, <2>3
<1>. QED  BY <1>2, <1>7, <1>8, <1>9, <1>10 DEF TokenInv

\* The wrapper, the endpoint and the webhooks.
LEMMA TokensCreated ==
    ASSUME DeliveredOnce, TokenInv, TypeOK, Environment, spent'["redelivery"] = 0
    PROVE  TokenInv'
<1>0. UNCHANGED <<pc, task>>
  BY DEF Environment, RunJobEndpoint, BeatCreate, BeatDispatch, BeatDispatchFails,
         WebhookDispatch, delivery
<1>a. \A e : Handled(e)' <=> Handled(e)
  BY <1>0 DEF Handled, Busy
<1>b. OneWorkerPerExecution'
  BY <1>0 DEF TokenInv, OneWorkerPerExecution
<1>1. ASSUME NEW j \in Jobs, NEW e \in Execs, RunJobEndpoint(j, e) \/ BeatCreate(j, e)
      PROVE  TokenInv'
  <2>1. /\ row[e].status = "absent"
        /\ \A f \in Execs : row'[f].status = "absent" => row[f].status = "absent" /\ f # e
    BY <1>1 DEF RunJobEndpoint, BeatCreate, TriggerExecution, TypeOK
  <2>2. ready' = ready /\ undispatched' \subseteq undispatched \cup {e}
    BY <1>1 DEF RunJobEndpoint, BeatCreate, queues
  <2>3. \A f : Queued(f)' <=> Queued(f)
    BY <2>2 DEF Queued
  <2>. QED  BY <2>1, <2>2, <2>3, <1>a, <1>b DEF TokenInv
<1>2. ASSUME NEW e \in Execs, BeatDispatch(e)  PROVE TokenInv'
  <2> DEFINE m == [exec |-> e, retries |-> 0, tag |-> 0]
  <2>1. /\ e \in undispatched /\ undispatched' = undispatched \ {e}
        /\ ready' = ready \cup {m} /\ m.exec = e /\ row' = row
    BY <1>2 DEF BeatDispatch, store
  <2> HIDE DEF m
  <2>2. \A f : Queued(f)' => Queued(f) \/ f = e
    BY <2>1 DEF Queued
  <2>3. ~Queued(e) /\ ~Handled(e) /\ row[e].status # "absent"
    BY <2>1 DEF TokenInv
  <2>4. \A k, n \in ready' : k.exec \in Execs /\ k.exec = n.exec => k = n
    BY <2>1, <2>3 DEF TokenInv, Queued
  <2>. QED  BY <2>1, <2>2, <2>3, <2>4, <1>a, <1>b DEF TokenInv
<1>3. ASSUME NEW e \in Execs, BeatDispatchFails(e)  PROVE TokenInv'
  <2>1. undispatched' = undispatched \ {e} /\ UNCHANGED <<ready, row>>
    BY <1>3 DEF BeatDispatchFails, store
  <2>2. \A f : Queued(f)' <=> Queued(f)
    BY <2>1 DEF Queued
  <2>. QED  BY <2>1, <2>2, <1>a, <1>b DEF TokenInv
<1>4. CASE WebhookDispatch
  <2> DEFINE m == [exec |-> NoExec, retries |-> 0, tag |-> 0]
  <2>1. UNCHANGED <<undispatched, row>> /\ ready' = ready \cup {m} /\ m.exec \notin Execs
    BY <1>4, ConstantsAssumption DEF WebhookDispatch, store
  <2> HIDE DEF m
  <2>2. \A f \in Execs : Queued(f)' <=> Queued(f)
    BY <2>1 DEF Queued
  <2>3. \A k, n \in ready' : k.exec \in Execs /\ k.exec = n.exec => k = n
    BY <2>1 DEF TokenInv
  <2>. QED  BY <2>1, <2>2, <2>3, <1>a, <1>b DEF TokenInv
<1>. QED  BY <1>1, <1>2, <1>3, <1>4 DEF Environment

LEMMA NextTokens ==
    ASSUME DeliveredOnce, TypeOK, TokenInv, [Next]_vars
    PROVE  TokenInv'
<1>0. spent'["redelivery"] = 0 /\ \A w \in Workers : ~Redeliver(w)
  BY NeverRedelivered
<1>1. CASE Environment
  BY <1>0, <1>1, TokensCreated
<1>2. ASSUME NEW w \in Workers, WorkerStep(w)  PROVE TokenInv'
  <2>0. RowsStay  BY <1>2, WorkerStepType
  <2>1. CASE Deliver(w)  BY <2>1, TokensDelivered
  <2>2. CASE Retry(w)
    <3> DEFINE m == [task[w] EXCEPT !.retries = task[w].retries + 1]
    <3>1. Busy(w) /\ Leave(w) /\ ready' = ready \cup {m} /\ undispatched' = undispatched
      BY <2>2 DEF Retry, At, Busy
    <3>2. m.exec = task[w].exec
      BY <3>1 DEF TypeOK, Message, Busy
    <3> HIDE DEF m
    <3>. QED  BY <1>0, <2>0, <3>1, <3>2, TokensReturn
  <2>3. CASE GiveUp(w) \/ Ack(w)
    <3>1. Busy(w) /\ Leave(w) /\ ready' = ready /\ undispatched' = undispatched
      BY <2>3 DEF GiveUp, Ack, At, Busy, queues
    <3>. QED  BY <1>0, <2>0, <3>1, TokensReturn
  <2>4. CASE \/ LoadMissing(w) \/ Load(w) \/ Enter(w) \/ Skip(w) \/ ClientRaises(w)
             \/ EngineReturns(w) \/ EngineRaises(w) \/ ImageCommit(w) \/ BrokenPhase(w)
             \/ Complete(w) \/ CompleteRaises(w) \/ FailExecution(w) \/ FailUpdateRaises(w)
    <3>1. UNCHANGED <<undispatched, ready, task>>
      BY <2>4 DEF LoadMissing, Load, Enter, Skip, ClientRaises, EngineReturns, EngineRaises,
                  RecordPhase, ImageCommit, BrokenPhase, Complete, CompleteRaises,
                  FailExecution, FailUpdateRaises, queues, delivery
    <3>2. Busy(w)
      BY <2>4 DEF LoadMissing, Load, Enter, Skip, ClientRaises, EngineReturns, EngineRaises,
                  RecordPhase, ImageCommit, BrokenPhase, Complete, CompleteRaises,
                  FailExecution, FailUpdateRaises, At, Busy, Phases
    <3>3. \A v \in Workers \ {w} : pc'[v] = pc[v]
      BY <2>4 DEF TypeOK, LoadMissing, Load, Enter, Skip, ClientRaises, EngineReturns, EngineRaises,
                  RecordPhase, ImageCommit, BrokenPhase, Complete, CompleteRaises,
                  FailExecution, FailUpdateRaises, Goto
    <3>4. \A v \in Workers : Busy(v)' => Busy(v)
      BY <3>2, <3>3 DEF Busy
    <3>. QED  BY <1>0, <2>0, <3>1, <3>4, TokensStay
  <2>. QED  BY <1>2, <2>1, <2>2, <2>3, <2>4 DEF WorkerStep
<1>3. ASSUME NEW w \in Workers, Fault(w)  PROVE TokenInv'
  <2>0. RowsStay  BY <1>3, FaultType
  <2>1. CASE Crash(w) \/ Kill(w)
    <3>1. Busy(w) /\ Leave(w) /\ undispatched' = undispatched
          /\ (ready' = ready \/ ready' = ready \cup {task[w]})
      BY <2>1 DEF Crash, Kill, Busy, queues
    <3>. QED  BY <1>0, <2>0, <3>1, TokensReturn
  <2>2. CASE \/ FlushFails(w) \/ StatementFails(w) \/ LockRaises(w) \/ LoadRaises(w)
             \/ SoftLimitCancels(w) \/ SoftLimitRaises(w)
    <3>1. UNCHANGED <<undispatched, ready, task>>
      BY <2>2 DEF FlushFails, StatementFails, LockRaises, LoadRaises, SoftLimitCancels,
                  SoftLimitRaises, queues, delivery
    <3>2. Busy(w)
      BY <2>2 DEF FlushFails, StatementFails, LockRaises, LoadRaises, SoftLimitCancels,
                  SoftLimitRaises, At, Busy, Section, Phases
    <3>3. \A v \in Workers \ {w} : pc'[v] = pc[v]
      BY <2>2 DEF TypeOK, FlushFails, StatementFails, LockRaises, LoadRaises, SoftLimitCancels,
                  SoftLimitRaises, Goto
    <3>4. \A v \in Workers : Busy(v)' => Busy(v)
      BY <3>2, <3>3 DEF Busy
    <3>. QED  BY <1>0, <2>0, <3>1, <3>4, TokensStay
  <2>. QED  BY <1>0, <1>3, <2>1, <2>2 DEF Fault
<1>4. CASE UNCHANGED vars
  <2>1. RowsStay  BY <1>4 DEF vars, store, RowsStay
  <2>2. UNCHANGED <<undispatched, ready, task>> /\ \A v \in Workers : Busy(v)' => Busy(v)
    BY <1>4 DEF vars, queues, delivery, Busy
  <2>. QED  BY <1>0, <2>1, <2>2, TokensStay
<1>. QED  BY <1>1, <1>2, <1>3, <1>4 DEF Next, Quiescent

\* When the broker delivers no message twice, no two workers have the same
\* execution in hand, whatever crashes and retries there are (celery_app.py,
\* orchestrator.py).
THEOREM OneWorkerHolds ==
    ASSUME DeliveredOnce
    PROVE  Spec => []OneWorkerPerExecution
<1>1. Init => TokenInv
  BY InitOnce DEF OnceInv
<1>2. TypeOK /\ TokenInv /\ [Next]_vars => TokenInv'
  BY NextTokens
<1>3. TokenInv => OneWorkerPerExecution
  BY DEF TokenInv
<1>. QED  BY <1>1, <1>2, <1>3, TypeCorrect, PTL DEF Spec
(***************************************************************************)
(* What a run has loaded                                                   *)
(***************************************************************************)
\* Everything the step of w leaves to the other workers, and to the rows they
\* work on.
Apart(w) ==
    /\ \A v \in Workers \ {w} :
          /\ pc'[v] = pc[v] /\ session'[v] = session[v] /\ task'[v] = task[v]
          /\ snap'[v] = snap[v] /\ delta'[v] = delta[v]
    /\ \A e \in Execs : row'[e] = row[e] \/ (Busy(w) /\ task[w].exec = e)

LEMMA OthersRun ==
    ASSUME TypeOK, OneWorkerPerExecution, NEW w \in Workers, Apart(w),
           NEW v \in Workers \ {w}, RunInv(v)
    PROVE  RunInv(v)'
<1>1. /\ pc'[v] = pc[v] /\ session'[v] = session[v] /\ task'[v] = task[v]
      /\ snap'[v] = snap[v] /\ delta'[v] = delta[v]
  BY DEF Apart
<1>2. pc[v] \in InPipeline => Busy(v) /\ task[v].exec \in Execs
  BY DEF TypeOK, RowExists, InPipeline, Busy, Section, Phases
<1>3. pc[v] \in InPipeline => row'[task[v].exec] = row[task[v].exec]
  BY <1>2 DEF Apart, OneWorkerPerExecution, Busy
<1>. QED  BY <1>1, <1>3 DEF RunInv, InPipeline

LEMMA AddZero ==
    ASSUME NEW c \in Counters
    PROVE  Add(c, Zero) = c
BY DEF Add, Zero, Counters

LEMMA AddAssociates ==
    ASSUME NEW a \in Counters, NEW b \in Counters, NEW c \in Counters
    PROVE  Add(Add(a, b), c) = Add(a, Add(b, c))
BY DEF Add, Counters

\* A commit of a run whose copy is the row plus what it has flushed writes that
\* sum, whichever columns it has changed.
LEMMA CommitCounts ==
    ASSUME TypeOK, NEW w \in Workers, RunInv(w), RowsInv, pc[w] \in Section,
           session[w] = "ok", NEW status \in Status \ {"absent"}, Commit(w, status)
    PROVE  /\ task[w].exec \in Execs
           /\ row'[task[w].exec].status = status
           /\ row'[task[w].exec].count = snap[w].count
           /\ row'[task[w].exec].count = tally'[task[w].exec]
           /\ \A e \in Execs \ {task[w].exec} : row'[e] = row[e] /\ tally'[e] = tally[e]
           /\ delta'[w] = Zero
           /\ \A v \in Workers \ {w} : delta'[v] = delta[v]
<1> DEFINE x == task[w].exec
<1>1. x \in Execs /\ row[x] \in Row /\ delta[w] \in Counters /\ snap[w] \in Row
  BY DEF TypeOK, RowExists
<1>2. snap[w].count = Add(row[x].count, delta[w])
  BY DEF RunInv, InPipeline
<1>3. Committed(w, status).count = snap[w].count
  BY <1>1, <1>2 DEF Committed, Add, Row, Counters
<1>4. Committed(w, status).status = status
  BY CommittedType
<1>5. row' = [row EXCEPT ![x] = Committed(w, status)]
      /\ tally' = [tally EXCEPT ![x] = Add(tally[x], delta[w])]
      /\ delta' = [delta EXCEPT ![w] = Zero]
  BY DEF Commit
<1>6. Add(tally[x], delta[w]) = snap[w].count
  BY <1>1, <1>2 DEF RowsInv
<1> HIDE DEF x
<1>7. /\ row'[x] = Committed(w, status) /\ tally'[x] = Add(tally[x], delta[w])
      /\ delta'[w] = Zero
      /\ \A e \in Execs \ {x} : row'[e] = row[e] /\ tally'[e] = tally[e]
      /\ \A v \in Workers \ {w} : delta'[v] = delta[v]
  BY <1>1, <1>5 DEF TypeOK
<1>. QED  BY <1>1, <1>3, <1>4, <1>6, <1>7 DEF x

LEMMA CommitRows ==
    ASSUME TypeOK, NEW w \in Workers, RunInv(w), RowsInv, pc[w] \in Section,
           session[w] = "ok", NEW status \in Status \ {"absent"}, Commit(w, status)
    PROVE  RowsInv'
BY CommitCounts DEF RowsInv

LEMMA SameRows ==
    ASSUME RowsInv, UNCHANGED <<row, tally>>
    PROVE  RowsInv'
BY DEF RowsInv
\* The worker of a step keeps its copy as good as the row ...
LEMMA OwnRun ==
    ASSUME TypeOK, RowsInv, NEW w \in Workers, RunInv(w), WorkerStep(w)
    PROVE  RunInv(w)' /\ RowsInv'
<1> DEFINE x == task[w].exec
<1>0. /\ pc[w] \in Place /\ snap[w] \in Row /\ delta[w] \in Counters
      /\ pc[w] \in InPipeline => x \in Execs /\ row[x] \in Row
  BY DEF TypeOK, RowExists, InPipeline
<1>1. CASE \/ Deliver(w) \/ LoadMissing(w) \/ Skip(w) \/ Retry(w) \/ GiveUp(w) \/ Ack(w)
  <2>1. pc[w] \notin Section /\ pc'[w] \notin InPipeline
    BY <1>1 DEF Deliver, LoadMissing, Skip, Retry, GiveUp, Ack, Leave, Goto, At, TypeOK,
                InPipeline, Section, Phases
  <2>2. UNCHANGED <<row, tally, delta>>
    BY <1>1 DEF Deliver, LoadMissing, Skip, Retry, GiveUp, Ack, store
  <2>. QED  BY <2>1, <2>2, SameRows DEF RunInv, InPipeline
<1>2. CASE Load(w)
  <2>1. /\ pc[w] = "loading" /\ pc'[w] = "waiting" /\ snap'[w] = row[x] /\ x \in Execs
        /\ UNCHANGED <<row, tally, delta, task>>
    BY <1>2 DEF Load, TypeOK, Goto, At, store, delivery, RowExists
  <2>2. delta[w] = Zero
    BY <2>1 DEF RunInv, Section, Phases
  <2>3. row[x].count = Add(row[x].count, Zero)
    BY <2>1, AddZero DEF TypeOK, Row
  <2>. QED  BY <2>1, <2>2, <2>3, SameRows DEF RunInv, InPipeline, Section, Phases
<1>3. CASE Enter(w)
  <2>1. /\ pc[w] = "waiting" /\ pc'[w] = "categories" /\ snap[w].status = "running"
        /\ UNCHANGED <<row, tally, delta, task, snap, session>>
    BY <1>3 DEF Enter, TypeOK, Goto, At, delivery
  <2>. QED  BY <2>1, SameRows DEF RunInv, InPipeline, Section, Phases
<1>4. CASE ClientRaises(w) \/ CompleteRaises(w) \/ BrokenPhase(w)
  <2>1. pc[w] \in Section /\ pc'[w] \in Section
    BY <1>4 DEF ClientRaises, CompleteRaises, BrokenPhase, TypeOK, Goto, At, Section, Phases,
                After
  <2>2. UNCHANGED <<row, tally, delta, task, snap, session>>
    BY <1>4 DEF ClientRaises, CompleteRaises, BrokenPhase, store, delivery
  <2>. QED  BY <2>1, <2>2, SameRows DEF RunInv, InPipeline
<1>5. ASSUME NEW d \in Counters, RecordPhase(w, d)
      PROVE  RunInv(w)' /\ RowsInv'
  <2>1. /\ pc[w] \in Section /\ pc'[w] \in Section /\ session[w] = "ok"
        /\ snap'[w] = [snap[w] EXCEPT !.count = Add(snap[w].count, d)]
        /\ delta'[w] = Add(delta[w], d)
        /\ UNCHANGED <<row, tally, task, session>>
    BY <1>5 DEF RecordPhase, TypeOK, Goto, Section, Phases, After, delivery
  <2>2. snap'[w].count = Add(snap[w].count, d) /\ snap'[w].status = snap[w].status
    BY <1>0, <2>1 DEF Row
  <2>3. snap[w].count = Add(row[x].count, delta[w])
    BY <2>1 DEF RunInv, InPipeline
  <2>4. row[x].count \in Counters
    BY <1>0, <2>1 DEF Row, InPipeline
  <2>5. snap'[w].count = Add(row[x].count, delta'[w])
    BY <1>0, <2>1, <2>2, <2>3, <2>4, AddAssociates
  <2>. QED  BY <2>1, <2>2, <2>5, SameRows DEF RunInv, InPipeline
<1>6. CASE EngineReturns(w) \/ EngineRaises(w)
  BY <1>5, <1>6, ConstantsAssumption DEF EngineReturns, EngineRaises, Counters
<1>7. CASE ImageCommit(w)
  <2> DEFINE status == row[x].status
  <2>1. /\ pc[w] = "images" /\ pc[w] \in Section /\ session[w] = "ok"
        /\ Commit(w, status) /\ UNCHANGED <<pc, task, snap, session>>
    BY <1>7 DEF ImageCommit, At, Section, Phases, delivery
  <2>2. status \in Status \ {"absent"}
    BY <2>1 DEF TypeOK, RowExists, Row
  <2> HIDE DEF status
  <2>3. /\ x \in Execs /\ row'[x].status = status /\ row'[x].count = snap[w].count
        /\ delta'[w] = Zero
    BY <2>1, <2>2, CommitCounts
  <2>4. snap[w].count = Add(row'[x].count, delta'[w])
    BY <1>0, <2>3, AddZero DEF Row
  <2>5. RowsInv'
    BY <2>1, <2>2, CommitRows
  <2>. QED  BY <2>1, <2>3, <2>4, <2>5 DEF RunInv, InPipeline, status
<1>8. CASE Complete(w) \/ FailExecution(w)
  <2>1. PICK status \in {"completed", "failed"} : Commit(w, status)
    BY <1>8 DEF Complete, FailExecution
  <2>2. /\ pc[w] \in Section /\ session[w] = "ok" /\ pc'[w] \notin InPipeline
        /\ status \in Status \ {"absent"}
    BY <1>8 DEF Complete, FailExecution, At, Goto, TypeOK, InPipeline, Section, Phases, Status
  <2>. QED  BY <2>1, <2>2, CommitCounts, CommitRows DEF RunInv, InPipeline
<1>9. CASE FailUpdateRaises(w)
  <2>1. /\ pc'[w] \notin InPipeline /\ delta'[w] = Zero /\ UNCHANGED <<row, tally>>
    BY <1>9 DEF FailUpdateRaises, Rollback, Goto, TypeOK, InPipeline, Section, Phases
  <2>. QED  BY <2>1, SameRows DEF RunInv, InPipeline
<1>. QED
  BY <1>1, <1>2, <1>3, <1>4, <1>6, <1>7, <1>8, <1>9 DEF WorkerStep

\* ... also when it is hit by a fault.
LEMMA OwnFault ==
    ASSUME TypeOK, RowsInv, NEW w \in Workers, RunInv(w), Fault(w)
    PROVE  RunInv(w)' /\ RowsInv'
<1>1. CASE FlushFails(w)
  <2>1. /\ pc[w] \in Section /\ session'[w] = "rolledback" /\ UNCHANGED <<row, tally, pc, task, snap>>
    BY <1>1 DEF FlushFails, Rollback, TypeOK, delivery
  <2>. QED  BY <2>1, SameRows DEF RunInv, InPipeline
<1>2. CASE StatementFails(w)
  <2>1. /\ pc[w] \in Section /\ session'[w] = "aborted"
        /\ UNCHANGED <<row, tally, pc, task, snap, delta>>
    BY <1>2 DEF StatementFails, TypeOK, delivery, store, Section
  <2>. QED  BY <2>1, SameRows DEF RunInv, InPipeline
<1>3. CASE LockRaises(w)
  <2>1. /\ pc[w] = "waiting" /\ UNCHANGED <<row, tally, task, snap, delta>>
        /\ \/ snap[w].status = "running" /\ pc'[w] = "categories" /\ session'[w] = "aborted"
           \/ pc'[w] = "returned"
    BY <1>3 DEF LockRaises, TypeOK, At, Goto, delivery, store
  <2>. QED  BY <2>1, SameRows DEF RunInv, InPipeline, Section, Phases
<1>4. CASE LoadRaises(w)
  <2>1. /\ pc[w] = "loading" /\ pc'[w] = "raised" /\ UNCHANGED <<row, tally, delta>>
    BY <1>4 DEF LoadRaises, TypeOK, At, Goto, store
  <2>. QED  BY <2>1, SameRows DEF RunInv, InPipeline, Section, Phases
<1>5. CASE SoftLimitRaises(w)
  <2>1. /\ pc[w] \in Section /\ pc'[w] = "failing"
        /\ UNCHANGED <<row, tally, delta, task, snap, session>>
    BY <1>5 DEF SoftLimitRaises, TypeOK, Goto, store, delivery, Section
  <2>. QED  BY <2>1, SameRows DEF RunInv, InPipeline, Section, Phases
<1>6. CASE SoftLimitCancels(w) \/ Crash(w) \/ Kill(w)
  <2>1. delta'[w] = Zero /\ UNCHANGED <<row, tally>> /\ pc'[w] \in {"raised", "idle"}
    BY <1>6 DEF SoftLimitCancels, Crash, Kill, Rollback, Leave, Goto, TypeOK
  <2>. QED  BY <2>1, SameRows DEF RunInv, InPipeline, Section, Phases
<1>7. CASE Redeliver(w)
  <2>1. UNCHANGED <<row, tally, delta, task, snap, session, pc>>
    BY <1>7 DEF Redeliver, store
  <2>. QED  BY <2>1, SameRows DEF RunInv
<1>. QED
  BY <1>1, <1>2, <1>3, <1>4, <1>5, <1>6, <1>7 DEF Fault

LEMMA StepApart ==
    ASSUME TypeOK, NEW w \in Workers, WorkerStep(w) \/ Fault(w)
    PROVE  Apart(w)
<1>1. ASSUME NEW s, Commit(w, s), pc[w] \in Section
      PROVE  /\ \A v \in Workers \ {w} : delta'[v] = delta[v]
             /\ \A e \in Execs : row'[e] = row[e] \/ (Busy(w) /\ task[w].exec = e)
  BY <1>1 DEF Commit, TypeOK, Busy, Section, Phases
<1>2. ASSUME Rollback(w)
      PROVE  (\A v \in Workers \ {w} : delta'[v] = delta[v]) /\ row' = row
  BY <1>2 DEF Rollback, TypeOK
<1>3. ASSUME Leave(w)
      PROVE  \A v \in Workers \ {w} :
                 /\ pc'[v] = pc[v] /\ session'[v] = session[v]
                 /\ task'[v] = task[v] /\ snap'[v] = snap[v]
  BY <1>3 DEF Leave, Goto, TypeOK
<1>4. CASE Retry(w) \/ GiveUp(w) \/ Ack(w)
  BY <1>3, <1>4 DEF Retry, GiveUp, Ack, store, Apart
<1>5. CASE Crash(w) \/ Kill(w)
  BY <1>2, <1>3, <1>5 DEF Crash, Kill, Apart
<1>6. CASE ImageCommit(w)
  BY <1>1, <1>6 DEF ImageCommit, At, Apart, delivery, Section, Phases
<1>7. CASE Complete(w) \/ FailExecution(w)
  <2>1. /\ pc[w] \in Section /\ (Commit(w, "completed") \/ Commit(w, "failed"))
        /\ UNCHANGED <<task, snap, session>> /\ \A v \in Workers \ {w} : pc'[v] = pc[v]
    BY <1>7 DEF Complete, FailExecution, At, Goto, delivery, Section, TypeOK
  <2>. QED  BY <1>1, <2>1 DEF Apart
<1>8. CASE FailUpdateRaises(w) \/ FlushFails(w) \/ SoftLimitCancels(w)
  BY <1>2, <1>8 DEF FailUpdateRaises, FlushFails, SoftLimitCancels, Goto, delivery, TypeOK, Apart
<1>9. CASE \/ Deliver(w) \/ LoadMissing(w) \/ Load(w) \/ Enter(w) \/ Skip(w)
           \/ ClientRaises(w) \/ BrokenPhase(w) \/ CompleteRaises(w)
  BY <1>9 DEF Deliver, LoadMissing, Load, Enter, Skip, ClientRaises, BrokenPhase,
              CompleteRaises, Goto, delivery, store, TypeOK, Apart
<1>10. ASSUME NEW d, RecordPhase(w, d)  PROVE Apart(w)
  BY <1>10 DEF RecordPhase, Goto, delivery, TypeOK, Apart
<1>11. CASE StatementFails(w) \/ LockRaises(w) \/ LoadRaises(w) \/ SoftLimitRaises(w) \/ Redeliver(w)
  BY <1>11 DEF StatementFails, LockRaises, LoadRaises, SoftLimitRaises, Redeliver, Goto,
               delivery, store, TypeOK, Apart
<1>. QED
  BY <1>4, <1>5, <1>6, <1>7, <1>8, <1>9, <1>10, <1>11
     DEF WorkerStep, Fault, EngineReturns, EngineRaises

LEMMA NextOnce ==
    ASSUME DeliveredOnce, TypeOK, OnceInv, [Next]_vars
    PROVE  OnceInv'
<1>0. TokenInv'
  BY NextTokens DEF OnceInv
<1>1. ASSUME NEW w \in Workers, WorkerStep(w) \/ Fault(w)
      PROVE  RowsInv' /\ \A v \in Workers : RunInv(v)'
  <2>1. RunInv(w)' /\ RowsInv'
    BY <1>1, OwnRun, OwnFault DEF OnceInv
  <2>2. Apart(w)
    BY <1>1, StepApart
  <2>3. \A v \in Workers \ {w} : RunInv(v)'
    BY <2>2, OthersRun DEF OnceInv, TokenInv
  <2>. QED  BY <2>1, <2>3
<1>2. ASSUME Environment
      PROVE  RowsInv' /\ \A v \in Workers : RunInv(v)'
  <2>1. UNCHANGED <<pc, task, session, snap, delta, tally>>
    BY <1>2 DEF Environment, RunJobEndpoint, BeatCreate, BeatDispatch, BeatDispatchFails,
                WebhookDispatch, delivery, store
  <2>2. CASE UNCHANGED row
    BY <2>1, <2>2 DEF OnceInv, RowsInv, RunInv
  <2>3. ASSUME NEW j \in Jobs, NEW e \in Execs, TriggerExecution(j, e)
        PROVE  RowsInv' /\ \A v \in Workers : RunInv(v)'
    <3>1. /\ row[e].status = "absent" /\ row'[e].status = "running" /\ row'[e].count = Zero
          /\ \A f \in Execs \ {e} : row'[f] = row[f]
      BY <2>3 DEF TriggerExecution, TypeOK
    <3>2. RowsInv'
      BY <2>1, <3>1 DEF OnceInv, RowsInv
    <3>3. ASSUME NEW v \in Workers  PROVE RunInv(v)'
      <4>1. pc[v] \in InPipeline => task[v].exec \in Execs \ {e}
        BY <3>1 DEF TypeOK, RowExists, InPipeline
      <4>2. RunInv(v)
        BY DEF OnceInv
      <4>. QED  BY <2>1, <3>1, <4>1, <4>2 DEF RunInv, InPipeline
    <3>. QED  BY <3>2, <3>3
  <2>. QED
    BY <1>2, <2>2, <2>3 DEF Environment, RunJobEndpoint, BeatCreate, BeatDispatch,
       BeatDispatchFails, WebhookDispatch, store
<1>3. ASSUME UNCHANGED vars
      PROVE  RowsInv' /\ \A v \in Workers : RunInv(v)'
  BY <1>3 DEF OnceInv, RowsInv, RunInv, vars, delivery, store
<1>. QED  BY <1>0, <1>1, <1>2, <1>3 DEF OnceInv, Next, Quiescent

\* Without redeliveries a run never works on an execution that has ended: the
\* status check looks at a copy nobody has overtaken (orchestrator.py).
THEOREM NoStaleRunHolds ==
    ASSUME DeliveredOnce
    PROVE  Spec => []NoStaleRun
<1>1. Init => OnceInv
  BY InitOnce
<1>2. TypeOK /\ OnceInv /\ [Next]_vars => OnceInv'
  BY NextOnce
<1>3. OnceInv => NoStaleRun
  BY DEF OnceInv, RunInv, NoStaleRun
<1>. QED  BY <1>1, <1>2, <1>3, TypeCorrect, PTL DEF Spec

\* Without redeliveries no increment of a counter is lost and none is counted
\* twice, although every run writes the values of its own copy (phase_runner.py).
THEOREM CountersAddUpHolds ==
    ASSUME DeliveredOnce
    PROVE  Spec => []CountersAddUp
<1>1. Init => OnceInv
  BY InitOnce
<1>2. TypeOK /\ OnceInv /\ [Next]_vars => OnceInv'
  BY NextOnce
<1>3. OnceInv => CountersAddUp
  BY DEF OnceInv, RowsInv, CountersAddUp
<1>. QED  BY <1>1, <1>2, <1>3, TypeCorrect, PTL DEF Spec
-----------------------------------------------------------------------------
(***************************************************************************)
(* The lifecycle                                                           *)
(*                                                                         *)
(* Without redeliveries every step of the pipeline is a step of            *)
(* ExecutionLifecycle, or none, under the mapping of SyncPipeline.         *)
(***************************************************************************)
Writing(w) == pc[w] \in Section /\ session[w] = "ok"

LEMMA CountersAreCounters == Counters = [synced: Nat, errors: Nat]
BY DEF Counters

\* Whether an execution is attempted depends on the only worker that has it.
LEMMA AttemptOf ==
    ASSUME OneWorkerPerExecution, NEW w \in Workers, Busy(w), task[w].exec \in Execs
    PROVE  Attempting(task[w].exec) <=> Writing(w)
BY DEF OneWorkerPerExecution, Busy, Attempting, Writing, Section, Phases

LEMMA OtherAttempts ==
    ASSUME NEW w \in Workers, Apart(w), NEW e \in Execs,
           Writing(w) => task[w].exec # e, Writing(w)' => task'[w].exec # e
    PROVE  Attempting(e)' <=> Attempting(e)
BY DEF Apart, Attempting, Writing

\* Nothing a reader of the row can see happens.
Unseen ==
    /\ \A e \in Execs : row'[e] = row[e]
    /\ \A e \in Execs : Attempting(e)' <=> Attempting(e)

LEMMA UnseenStutters ==
    ASSUME Unseen
    PROVE  UNCHANGED Lifecycle!vars
<1>1. [e \in Execs |-> row[e].status]' = [e \in Execs |-> row[e].status]
  BY DEF Unseen
<1>2. [e \in Execs |-> row[e].count]' = [e \in Execs |-> row[e].count]
  BY DEF Unseen
<1>3. [e \in Execs |-> Attempting(e)]' = [e \in Execs |-> Attempting(e)]
  <2>1. \A e \in Execs : Attempting(e)' = Attempting(e)
    BY DEF Unseen, Attempting
  <2>. QED  BY <2>1
<1>. QED  BY <1>1, <1>2, <1>3 DEF Lifecycle!vars

LEMMA InitLifecycle == Init => Lifecycle!Init
<1> SUFFICES ASSUME Init  PROVE Lifecycle!Init
  OBVIOUS
<1>1. \A e \in Execs : row[e] = NoRow
  BY DEF Init
<1>2. \A e \in Execs : Attempting(e) = FALSE
  BY DEF Init, Attempting, Section, Phases
<1>3. [e \in Execs |-> row[e].status] = [e \in Execs |-> "absent"]
  BY <1>1 DEF NoRow
<1>4. [e \in Execs |-> Attempting(e)] = [e \in Execs |-> FALSE]
  BY <1>2
<1>5. [e \in Execs |-> row[e].count] = [e \in Execs |-> [synced |-> 0, errors |-> 0]]
  BY <1>1 DEF NoRow, Zero
<1>. QED  BY <1>3, <1>4, <1>5 DEF Lifecycle!Init
\* What a reader sees, if anything, is of execution x.
OnlyAt(x) ==
    \A e \in Execs \ {x} : row'[e] = row[e] /\ (Attempting(e)' <=> Attempting(e))

LEMMA StatusesAt ==
    ASSUME TypeOK, NEW x \in Execs, OnlyAt(x)
    PROVE  /\ [e \in Execs |-> row[e].status]'
                = [[e \in Execs |-> row[e].status] EXCEPT ![x] = row'[x].status]
           /\ row'[x].status = row[x].status =>
                [e \in Execs |-> row[e].status]' = [e \in Execs |-> row[e].status]
           /\ row'[x].count = row[x].count =>
                [e \in Execs |-> row[e].count]' = [e \in Execs |-> row[e].count]
BY DEF OnlyAt

LEMMA AttemptsAt ==
    ASSUME NEW x \in Execs, OnlyAt(x)
    PROVE  /\ Attempting(x)' =>
                [e \in Execs |-> Attempting(e)]' = [[e \in Execs |-> Attempting(e)] EXCEPT ![x] = TRUE]
           /\ ~Attempting(x)' =>
                [e \in Execs |-> Attempting(e)]' = [[e \in Execs |-> Attempting(e)] EXCEPT ![x] = FALSE]
           /\ (Attempting(x)' <=> Attempting(x)) =>
                [e \in Execs |-> Attempting(e)]' = [e \in Execs |-> Attempting(e)]
<1>1. \A e \in Execs : Attempting(e) \in BOOLEAN /\ Attempting(e)' \in BOOLEAN
  BY DEF Attempting
<1>2. \A e \in Execs \ {x} : Attempting(e)' = Attempting(e)
  BY <1>1 DEF OnlyAt
<1>3. Attempting(x)' => Attempting(x)' = TRUE
  BY <1>1
<1>4. ~Attempting(x)' => Attempting(x)' = FALSE
  BY <1>1
<1>5. (Attempting(x)' <=> Attempting(x)) => Attempting(x)' = Attempting(x)
  BY <1>1
<1>. QED  BY <1>2, <1>3, <1>4, <1>5

\* The counters of x have grown, all others are as they were.
LEMMA GrowsAt ==
    ASSUME NEW x \in Execs, OnlyAt(x), row'[x].count \in Counters,
           row'[x].count.synced >= row[x].count.synced,
           row'[x].count.errors >= row[x].count.errors
    PROVE  Lifecycle!Grows(x)
BY DEF OnlyAt, Lifecycle!Grows, Counters

LEMMA BeginsAt ==
    ASSUME TypeOK, NEW x \in Execs, OnlyAt(x), row'[x] = row[x], row[x].status = "running",
           ~Attempting(x), Attempting(x)'
    PROVE  Lifecycle!Next
<1>1. Lifecycle!Begin(x)
  BY StatusesAt, AttemptsAt DEF Lifecycle!Begin
<1>. QED  BY <1>1 DEF Lifecycle!Next

LEMMA LosesAt ==
    ASSUME TypeOK, NEW x \in Execs, OnlyAt(x), row'[x] = row[x], Attempting(x), ~Attempting(x)'
    PROVE  Lifecycle!Next
<1>1. Lifecycle!Lose(x)
  BY StatusesAt, AttemptsAt DEF Lifecycle!Lose
<1>. QED  BY <1>1 DEF Lifecycle!Next

LEMMA ProgressesAt ==
    ASSUME TypeOK, NEW x \in Execs, OnlyAt(x), row'[x].status = row[x].status,
           Attempting(x), Attempting(x)', Lifecycle!Grows(x)
    PROVE  Lifecycle!Next
<1>1. Lifecycle!Progress(x)
  BY StatusesAt, AttemptsAt DEF Lifecycle!Progress
<1>. QED  BY <1>1 DEF Lifecycle!Next

LEMMA EndsAt ==
    ASSUME TypeOK, NEW x \in Execs, OnlyAt(x), row[x].status = "running",
           row'[x].status \in {"completed", "failed"},
           Attempting(x), ~Attempting(x)', Lifecycle!Grows(x)
    PROVE  Lifecycle!Next
<1>1. Lifecycle!End(x)
  BY StatusesAt, AttemptsAt DEF Lifecycle!End
<1>. QED  BY <1>1 DEF Lifecycle!Next

LEMMA CreatesAt ==
    ASSUME TypeOK, NEW x \in Execs, OnlyAt(x), row[x].status = "absent",
           row'[x].status = "running", row'[x].count = row[x].count,
           Attempting(x)' <=> Attempting(x)
    PROVE  Lifecycle!Next
<1>1. Lifecycle!Create(x)
  BY StatusesAt, AttemptsAt DEF Lifecycle!Create
<1>. QED  BY <1>1 DEF Lifecycle!Next
\* What the step of a worker in the pipeline shows, it shows of its execution.
LEMMA WriterStep ==
    ASSUME TypeOK, OneWorkerPerExecution, NEW w \in Workers, Apart(w), pc[w] \in InPipeline,
           Writing(w)' => task'[w] = task[w], NEW x, x = task[w].exec
    PROVE  /\ x \in Execs /\ OnlyAt(x)
           /\ Attempting(x) <=> Writing(w)
           /\ Attempting(x)' <=> Writing(w)'
<1>1. Busy(w) /\ x \in Execs
  BY DEF Busy, InPipeline, Section, Phases, TypeOK, RowExists
<1>2. OnlyAt(x)
  BY <1>1, OtherAttempts DEF OnlyAt, Apart
<1>3. Attempting(x)' <=> Writing(w)'
  <2>1. ASSUME NEW v \in Workers \ {w}, Writing(v)'  PROVE task'[v].exec # x
    BY <1>1, <2>1 DEF Apart, OneWorkerPerExecution, Busy, Writing, Section, Phases
  <2>. QED  BY <2>1 DEF Attempting, Writing
<1>. QED  BY <1>1, <1>2, <1>3, AttemptOf

LEMMA QuietStep ==
    ASSUME NEW w \in Workers, Apart(w), UNCHANGED row,
           \/ ~Writing(w) /\ ~Writing(w)'
           \/ (Writing(w)' <=> Writing(w)) /\ task'[w] = task[w]
    PROVE  Unseen
BY DEF Apart, Unseen, Attempting, Writing

LEMMA StopStep ==
    ASSUME TypeOK, OneWorkerPerExecution, NEW w \in Workers, Apart(w), UNCHANGED row,
           ~Writing(w)'
    PROVE  Lifecycle!Next \/ Unseen
<1>1. CASE Writing(w)
  <2> PICK x : x = task[w].exec
    OBVIOUS
  <2>1. x \in Execs /\ OnlyAt(x) /\ Attempting(x) /\ ~Attempting(x)'
    BY <1>1, WriterStep DEF Writing, InPipeline
  <2>. QED  BY <2>1, LosesAt
<1>2. CASE ~Writing(w)
  BY <1>2, QuietStep
<1>. QED  BY <1>1, <1>2

LEMMA GrowsByCommit ==
    ASSUME TypeOK, NEW w \in Workers, RunInv(w), RowsInv, pc[w] \in Section,
           session[w] = "ok", NEW status \in Status \ {"absent"}, Commit(w, status),
           NEW x, x = task[w].exec, OnlyAt(x)
    PROVE  Lifecycle!Grows(x)
<1>1. x \in Execs /\ row'[x].count = snap[w].count
  BY CommitCounts
<1>2. snap[w].count \in Counters /\ delta[w] \in Counters /\ row[x].count \in Counters
  BY <1>1 DEF TypeOK, Row
<1>3. snap[w].count = Add(row[x].count, delta[w])
  BY DEF RunInv, InPipeline
<1>4. /\ row'[x].count \in Counters
      /\ row'[x].count.synced >= row[x].count.synced
      /\ row'[x].count.errors >= row[x].count.errors
  BY <1>1, <1>2, <1>3 DEF Add, Counters
<1>. QED  BY <1>1, <1>4, GrowsAt

LEMMA WorkerLifecycle ==
    ASSUME TypeOK, OnceInv, NEW w \in Workers, WorkerStep(w)
    PROVE  Lifecycle!Next \/ Unseen
<1> PICK x : x = task[w].exec
  OBVIOUS
<1>0. Apart(w) /\ OneWorkerPerExecution /\ RunInv(w) /\ RowsInv
  BY StepApart DEF OnceInv, TokenInv
<1>1. CASE \/ Deliver(w) \/ LoadMissing(w) \/ Load(w) \/ Skip(w) \/ Retry(w) \/ GiveUp(w) \/ Ack(w)
  <2>1. UNCHANGED row /\ ~Writing(w) /\ ~Writing(w)'
    BY <1>1 DEF Deliver, LoadMissing, Load, Skip, Retry, GiveUp, Ack, Leave, Goto, At, TypeOK,
                Writing, Section, Phases, store
  <2>. QED  BY <1>0, <2>1, QuietStep
<1>2. CASE Enter(w)
  <2>1. /\ pc[w] = "waiting" /\ pc'[w] = "categories" /\ snap[w].status = "running"
        /\ UNCHANGED <<row, task, session>>
    BY <1>2 DEF Enter, TypeOK, Goto, At, delivery
  <2>2. CASE session[w] = "ok"
    <3>1. /\ x \in Execs /\ OnlyAt(x) /\ row'[x] = row[x] /\ row[x].status = "running"
          /\ ~Attempting(x) /\ Attempting(x)'
      BY <1>0, <2>1, <2>2, WriterStep DEF RunInv, InPipeline, Writing, Section, Phases
    <3>. QED  BY <3>1, BeginsAt
  <2>3. CASE session[w] # "ok"
    <3>1. ~Writing(w) /\ ~Writing(w)'
      BY <2>1, <2>3 DEF Writing
    <3>. QED  BY <1>0, <2>1, <3>1, QuietStep
  <2>. QED  BY <2>2, <2>3
<1>3. CASE ClientRaises(w) \/ CompleteRaises(w) \/ BrokenPhase(w)
  <2>1. UNCHANGED <<row, task, session>> /\ pc[w] \in Section /\ pc'[w] \in Section
    BY <1>3 DEF ClientRaises, CompleteRaises, BrokenPhase, TypeOK, Goto, At, Section, Phases,
                After, store, delivery
  <2>2. Writing(w)' <=> Writing(w)
    BY <2>1 DEF Writing
  <2>. QED  BY <1>0, <2>1, <2>2, QuietStep
<1>4. ASSUME NEW d, RecordPhase(w, d)  PROVE Unseen
  <2>1. UNCHANGED <<row, task, session>> /\ pc[w] \in Section /\ pc'[w] \in Section
    BY <1>4 DEF RecordPhase, TypeOK, Goto, Section, Phases, After, delivery
  <2>2. Writing(w)' <=> Writing(w)
    BY <2>1 DEF Writing
  <2>. QED  BY <1>0, <2>1, <2>2, QuietStep
<1>5. CASE ImageCommit(w)
  <2> DEFINE status == row[x].status
  <2>1. /\ pc[w] \in Section /\ session[w] = "ok" /\ Commit(w, status)
        /\ UNCHANGED <<pc, task, session>>
    BY <1>5 DEF ImageCommit, At, Section, Phases, delivery
  <2>2. status \in Status \ {"absent"}
    BY <2>1 DEF TypeOK, RowExists, Row
  <2> HIDE DEF status
  <2>3. x \in Execs /\ OnlyAt(x) /\ Attempting(x) /\ Attempting(x)'
    BY <1>0, <2>1, WriterStep DEF Writing, InPipeline
  <2>4. Lifecycle!Grows(x) /\ row'[x].status = status
    BY <1>0, <2>1, <2>2, <2>3, GrowsByCommit, CommitCounts
  <2>. QED  BY <2>3, <2>4, ProgressesAt DEF status
<1>6. CASE Complete(w) \/ FailExecution(w)
  <2>1. PICK status \in {"completed", "failed"} : Commit(w, status)
    BY <1>6 DEF Complete, FailExecution
  <2>2. /\ pc[w] \in Section /\ session[w] = "ok" /\ ~Writing(w)'
        /\ status \in Status \ {"absent"}
    BY <1>6 DEF Complete, FailExecution, At, Goto, TypeOK, Writing, Section, Phases, Status
  <2>3. x \in Execs /\ OnlyAt(x) /\ Attempting(x) /\ ~Attempting(x)'
    BY <1>0, <2>2, WriterStep DEF Writing, InPipeline
  <2>4. Lifecycle!Grows(x) /\ row'[x].status = status
    BY <1>0, <2>1, <2>2, <2>3, GrowsByCommit, CommitCounts
  <2>5. row[x].status = "running"
    BY <1>0, <2>2 DEF RunInv
  <2>. QED  BY <2>3, <2>4, <2>5, EndsAt
<1>7. CASE FailUpdateRaises(w)
  <2>1. UNCHANGED row /\ ~Writing(w) /\ ~Writing(w)'
    BY <1>7 DEF FailUpdateRaises, Rollback, Goto, TypeOK, Writing, Section, Phases
  <2>. QED  BY <1>0, <2>1, QuietStep
<1>. QED
  BY <1>1, <1>2, <1>3, <1>4, <1>5, <1>6, <1>7 DEF WorkerStep, EngineReturns, EngineRaises

LEMMA FaultLifecycle ==
    ASSUME TypeOK, OnceInv, NEW w \in Workers, Fault(w)
    PROVE  Lifecycle!Next \/ Unseen
<1>0. Apart(w) /\ OneWorkerPerExecution
  BY StepApart DEF OnceInv, TokenInv
<1>1. CASE \/ FlushFails(w) \/ StatementFails(w) \/ LockRaises(w) \/ LoadRaises(w)
           \/ SoftLimitCancels(w) \/ Crash(w) \/ Kill(w)
  <2>1. UNCHANGED row /\ ~Writing(w)'
    BY <1>1 DEF FlushFails, StatementFails, LockRaises, LoadRaises, SoftLimitCancels, Crash, Kill,
                Rollback, Leave, Goto, TypeOK, Writing, Section, Phases, store
  <2>. QED  BY <1>0, <2>1, StopStep
<1>2. CASE SoftLimitRaises(w)
  <2>1. UNCHANGED <<row, task, session>> /\ pc[w] \in Section /\ pc'[w] \in Section
    BY <1>2 DEF SoftLimitRaises, TypeOK, Goto, Section, store, delivery
  <2>2. Writing(w)' <=> Writing(w)
    BY <2>1 DEF Writing
  <2>. QED  BY <1>0, <2>1, <2>2, QuietStep
<1>3. CASE Redeliver(w)
  <2>1. UNCHANGED <<row, task, session, pc>>
    BY <1>3 DEF Redeliver, store
  <2>. QED  BY <1>0, <2>1, QuietStep DEF Writing
<1>. QED  BY <1>1, <1>2, <1>3 DEF Fault

LEMMA EnvironmentLifecycle ==
    ASSUME TypeOK, OnceInv, Environment
    PROVE  Lifecycle!Next \/ Unseen
<1>1. UNCHANGED <<pc, task, session>>
  BY DEF Environment, RunJobEndpoint, BeatCreate, BeatDispatch, BeatDispatchFails,
         WebhookDispatch, delivery
<1>2. \A e : Attempting(e)' <=> Attempting(e)
  BY <1>1 DEF Attempting
<1>3. CASE UNCHANGED row
  BY <1>2, <1>3 DEF Unseen
<1>4. ASSUME NEW j \in Jobs, NEW e \in Execs, TriggerExecution(j, e)
      PROVE  Lifecycle!Next
  <2>1. /\ row[e].status = "absent" /\ row'[e].status = "running" /\ row'[e].count = Zero
        /\ \A f \in Execs \ {e} : row'[f] = row[f]
    BY <1>4 DEF TriggerExecution, TypeOK
  <2>2. row[e].count = Zero
    BY <2>1 DEF OnceInv, RowsInv
  <2>. QED  BY <1>2, <2>1, <2>2, CreatesAt DEF OnlyAt
<1>. QED
  BY <1>3, <1>4 DEF Environment, RunJobEndpoint, BeatCreate, BeatDispatch,
     BeatDispatchFails, WebhookDispatch, store

\* Without redeliveries the pipeline implements the lifecycle: what a reader of
\* sync_executions sees is an execution that is created, attempted by one run
\* at a time, counts up while it is, and ends once (orchestrator.py).
THEOREM ImplementsLifecycleHolds ==
    ASSUME DeliveredOnce
    PROVE  Spec => ImplementsLifecycle
<1>1. Init => OnceInv
  BY InitOnce
<1>2. TypeOK /\ OnceInv /\ [Next]_vars => OnceInv'
  BY NextOnce
<1>3. TypeOK /\ OnceInv /\ [Next]_vars => [Lifecycle!Next]_(Lifecycle!vars)
  <2> SUFFICES ASSUME TypeOK, OnceInv, [Next]_vars
               PROVE  Lifecycle!Next \/ UNCHANGED Lifecycle!vars
    OBVIOUS
  <2>1. UNCHANGED vars => Unseen
    BY DEF vars, delivery, store, Unseen, Attempting
  <2>2. Lifecycle!Next \/ Unseen
    BY <2>1, WorkerLifecycle, FaultLifecycle, EnvironmentLifecycle DEF Next, Quiescent
  <2>. QED  BY <2>2, UnseenStutters
<1>. QED
  BY <1>1, <1>2, <1>3, InitLifecycle, TypeCorrect, PTL DEF Spec, ImplementsLifecycle, Lifecycle!Spec
=============================================================================
