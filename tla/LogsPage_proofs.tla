-------------------------- MODULE LogsPage_proofs --------------------------
(* Theorems about ReviewQueue and LogsPage, for any logs, workers, retries, *)
(* requests and faults.                                                     *)
EXTENDS LogsPage, FiniteSetTheorems, FunctionTheorems, TLAPS

(***************************************************************************)
(* Types. The requests are records whose numbers tell them apart, and of a *)
(* row's button at most one is under way.                                  *)
(***************************************************************************)
Rows == UNION {[S -> Row] : S \in SUBSET Logs}
CallType == [no : Nat, kind : {"retry", "dismiss", "retry-all"}, logs : SUBSET Logs,
             page : {"row", "all", "none"}, snap : Rows, left : SUBSET Logs,
             phase : {"sent", "loaded", "committed"}]
TaskType == [log : Logs, phase : Phases, snap : Row]

QueueOK ==
    /\ log \in [Logs -> Row]
    /\ queued \in [Logs -> Nat]
    /\ worker \in [Workers -> TaskType]
    /\ asked \in [Logs -> Nat] /\ attempts \in [Logs -> Nat]
    /\ faults \in 0..MaxFaults
    /\ stranded \subseteq Logs /\ shared \subseteq Logs

ScreenOK ==
    /\ tab \in {"executions", "review"} /\ fetch \in {"idle", "asked", "served"}
    /\ bringing \subseteq Logs /\ items \subseteq Logs /\ stale \in BOOLEAN
    /\ unseen \subseteq Logs

\* Nothing is left to dispatch before the commit, and no row is held after it.
CallOK(c) ==
    /\ c \in CallType
    /\ c.left \subseteq c.logs /\ DOMAIN c.snap \subseteq c.logs
    /\ c.phase # "committed" => c.left = {}
    /\ c.phase = "committed" => DOMAIN c.snap = {}

SameButton(c, d) ==
    /\ c.page = "row" /\ d.page = "row" /\ c.kind = d.kind
    /\ \E l \in Logs : l \in c.logs /\ l \in d.logs

CallsOK ==
    /\ sent \in 0..MaxCalls
    /\ \A c \in calls : CallOK(c) /\ c.no \in 1..sent
    /\ \A c, d \in calls : c.no = d.no \/ SameButton(c, d) => c = d

Buttons == UNION {{<<c.kind, l>> : l \in c.logs} : c \in {d \in calls : d.page = "row"}}
Bulk == {c.no : c \in {d \in calls : d.page = "all"}}
ButtonsOK == pressed = Buttons /\ bulk = Bulk

(***************************************************************************)
(* PendingHasTask is not inductive: of the tasks that work on a log only   *)
(* one that has read "pending", or has still to schedule, will leave       *)
(* something else than a pending log without a message; one that read      *)
(* another status may write nothing.                                       *)
(***************************************************************************)
Holds(t) == t.phase = "schedule" \/ (t.phase = "loaded" /\ t.snap.status = "pending")
Waits(l) ==
    \/ queued[l] > 0
    \/ \E w \in Workers : worker[w].log = l /\ Holds(worker[w])
    \/ \E c \in calls : l \in c.left

Owned == \A l \in Logs \ stranded : log[l].status = "pending" => Waits(l)

LogsInv == QueueOK /\ ScreenOK /\ CallsOK /\ ButtonsOK /\ Owned

-----------------------------------------------------------------------------

LEMMA WriteRow ==
    ASSUME NEW row \in Row, NEW snap \in Row, NEW new \in Row
    PROVE  /\ Write(row, snap, new) \in Row
           /\ Write(row, snap, new).status = IF new.status # snap.status THEN new.status ELSE row.status
BY DEF Write, Row

LEMMA RestingTyped == Resting \in TaskType /\ ~Holds(Resting)
BY LogsAssumption DEF Resting, TaskType, Phases, New, Row, Statuses, Holds

LEMMA NoRowsTyped == NoRows \in Rows /\ DOMAIN NoRows = {}
BY DEF NoRows, Rows

LEMMA FaultTyped ==
    ASSUME faults \in 0..MaxFaults, Fault
    PROVE  faults' \in 0..MaxFaults
BY BoundsAssumption DEF Fault

-----------------------------------------------------------------------------
(* The tasks *)

\* What a task does to the log it works on, and to no other.
LEMMA TaskStep ==
    ASSUME QueueOK, Owned, NEW w \in Workers, NEW l \in Logs, NEW v \in TaskType,
           worker' = [worker EXCEPT ![w] = v],
           log' \in [Logs -> Row], queued' \in [Logs -> Nat],
           \A m \in Logs \ {l} : log'[m] = log[m] /\ queued'[m] = queued[m],
           Holds(worker[w]) => worker[w].log = l,
           log'[l].status = "pending" =>
               \/ l \in stranded' \/ queued'[l] > 0
               \/ v.log = l /\ Holds(v)
               \/ /\ log[l].status = "pending" /\ l \notin stranded
                  /\ queued'[l] = queued[l] /\ ~Holds(worker[w]),
           stranded \subseteq stranded' \cup {l}, calls' = calls
    PROVE  Owned'
<1>. SUFFICES ASSUME NEW m \in Logs \ stranded', log'[m].status = "pending"
              PROVE  Waits(m)'
  BY DEF Owned
<1>1. worker'[w] = v /\ \A x \in Workers \ {w} : worker'[x] = worker[x]
  BY DEF QueueOK
<1>2. CASE m # l
  <2>1. Waits(m)
    BY <1>2 DEF Owned
  <2>2. CASE queued[m] > 0
    BY <1>2, <2>2 DEF Waits
  <2>3. CASE \E c \in calls : m \in c.left
    BY <2>3 DEF Waits
  <2>4. ASSUME NEW x \in Workers, worker[x].log = m, Holds(worker[x])
        PROVE  Waits(m)'
    <3>1. x # w
      BY <1>2, <2>4
    <3>. QED
      BY <1>1, <2>4, <3>1 DEF Waits, Holds
  <2>. QED
    BY <2>1, <2>2, <2>3, <2>4 DEF Waits
<1>3. CASE m = l /\ queued'[l] > 0
  BY <1>3 DEF Waits
<1>4. CASE m = l /\ v.log = l /\ Holds(v)
  BY <1>1, <1>4 DEF Waits, Holds
<1>5. CASE /\ m = l /\ log[l].status = "pending" /\ l \notin stranded
           /\ queued'[l] = queued[l] /\ ~Holds(worker[w])
  <2>1. Waits(l)
    BY <1>5 DEF Owned
  <2>2. CASE queued[l] > 0
    BY <1>5, <2>2 DEF Waits
  <2>3. CASE \E c \in calls : l \in c.left
    BY <1>5, <2>3 DEF Waits
  <2>4. ASSUME NEW x \in Workers, worker[x].log = l, Holds(worker[x])
        PROVE  Waits(m)'
    <3>1. x # w
      BY <1>5, <2>4
    <3>. QED
      BY <1>1, <1>5, <2>4, <3>1 DEF Waits, Holds
  <2>. QED
    BY <2>1, <2>2, <2>3, <2>4 DEF Waits
<1>. QED
  BY <1>2, <1>3, <1>4, <1>5

TaskKept == QueueOK' /\ Owned'

LEMMA TakeStep ==
    ASSUME QueueOK, Owned, NEW w \in Workers, NEW l \in Logs, Take(w, l)
    PROVE  TaskKept
<1>. DEFINE v == [log |-> l, phase |-> "loaded", snap |-> log[l]]
<1>1. v \in TaskType /\ v.log = l /\ v.phase = "loaded" /\ v.snap = log[l]
  BY DEF QueueOK, TaskType, Phases
<1>2. worker' = [worker EXCEPT ![w] = v] /\ log' = log /\ UNCHANGED <<calls, stranded>>
  BY DEF Take
<1>3. queued' \in [Logs -> Nat] /\ \A m \in Logs \ {l} : queued'[m] = queued[m]
  BY DEF Take, QueueOK
<1>4. ~Holds(worker[w])
  BY DEF Take, Holds
<1>5. log'[l].status = "pending" => v.log = l /\ Holds(v)
  BY <1>1, <1>2 DEF Holds
<1>6. QueueOK'
  BY <1>1, <1>2, <1>3 DEF Take, QueueOK
<1>7. log' \in [Logs -> Row]
  BY <1>2 DEF QueueOK
<1>8. \A m \in Logs \ {l} : log'[m] = log[m]
  BY <1>2
<1>. HIDE DEF v
<1>9. Owned'
  BY <1>1, <1>2, <1>3, <1>4, <1>5, <1>7, <1>8, TaskStep
<1>. QED
  BY <1>6, <1>9 DEF TaskKept

\* A task that ends, or goes on to schedule, with a status written or not.
LEMMA EndStep ==
    ASSUME QueueOK, Owned, NEW w \in Workers, NEW new \in Row, NEW v \in TaskType,
           worker[w].phase = "loaded",
           Set(worker[w].log, worker[w].snap, new),
           worker' = [worker EXCEPT ![w] = v],
           new.status = "pending" => v.log = worker[w].log /\ v.phase = "schedule",
           attempts' \in [Logs -> Nat],
           UNCHANGED <<queued, calls, faults, stranded, asked, shared>>
    PROVE  TaskKept
<1>. DEFINE l == worker[w].log
            snap == worker[w].snap
<1>1. l \in Logs /\ snap \in Row /\ log[l] \in Row
  BY DEF QueueOK, TaskType
<1>2. log' = [log EXCEPT ![l] = Write(log[l], snap, new)]
  BY <1>1 DEF Set, QueueOK
<1>3. /\ Write(log[l], snap, new) \in Row
      /\ Write(log[l], snap, new).status = IF new.status # snap.status THEN new.status ELSE log[l].status
  BY <1>1, WriteRow
<1>4. log' \in [Logs -> Row] /\ \A m \in Logs \ {l} : log'[m] = log[m]
  BY <1>1, <1>2, <1>3 DEF QueueOK
<1>5. log'[l].status = IF new.status # snap.status THEN new.status ELSE log[l].status
  BY <1>1, <1>2, <1>3 DEF QueueOK
<1>6. log'[l].status = "pending" =>
        \/ v.log = l /\ Holds(v)
        \/ log[l].status = "pending" /\ ~Holds(worker[w])
  <2>1. CASE new.status = "pending"
    BY <2>1 DEF Holds
  <2>2. CASE new.status # "pending"
    <3>1. log'[l].status = "pending" => snap.status = new.status /\ log[l].status = "pending"
      BY <1>5, <2>2
    <3>. QED
      BY <2>2, <3>1 DEF Holds
  <2>. QED
    BY <2>1, <2>2
<1>7. QueueOK'
  BY <1>4 DEF QueueOK
<1>8. queued' \in [Logs -> Nat] /\ \A m \in Logs : queued'[m] = queued[m]
  BY DEF QueueOK
<1>9. Owned'
  BY <1>1, <1>4, <1>6, <1>8, TaskStep
<1>. QED
  BY <1>7, <1>9 DEF TaskKept

LEMMA UnmappedStep ==
    ASSUME QueueOK, Owned, NEW w \in Workers, Unmapped(w)
    PROVE  TaskKept
<1>. DEFINE new == [worker[w].snap EXCEPT !.status = "failed_permanent"]
<1>1. worker[w] \in TaskType /\ worker[w].snap \in Row
  BY DEF QueueOK, TaskType
<1>2. new \in Row /\ new.status = "failed_permanent"
  BY <1>1 DEF Row, Statuses
<1>3. Set(worker[w].log, worker[w].snap, new) /\ worker[w].phase = "loaded"
  BY DEF Unmapped
<1>4. worker' = [worker EXCEPT ![w] = Resting] /\ attempts' \in [Logs -> Nat]
  BY DEF Unmapped, Idle, QueueOK
<1>. HIDE DEF new
<1>. QED
  BY <1>2, <1>3, <1>4, RestingTyped, EndStep DEF Unmapped

LEMMA AttemptStep ==
    ASSUME QueueOK, Owned, NEW w \in Workers, Attempt(w)
    PROVE  TaskKept
<1>. DEFINE t == worker[w]
            count == t.snap.count + 1
            synced == [t.snap EXCEPT !.status = "synced"]
            failed == [status |-> "failed_permanent", count |-> count]
            again == [status |-> "pending", count |-> count]
            going == [t EXCEPT !.phase = "schedule"]
<1>1. t \in TaskType /\ t.snap \in Row /\ t.log \in Logs /\ count \in Nat /\ t.phase = "loaded"
  BY DEF QueueOK, TaskType, Row, Attempt
<1>2. /\ synced \in Row /\ synced.status = "synced"
      /\ failed \in Row /\ failed.status = "failed_permanent"
      /\ again \in Row
  BY <1>1 DEF Row, Statuses
<1>3. going \in TaskType /\ going.log = t.log /\ going.phase = "schedule"
  BY <1>1 DEF TaskType, Phases
<1>4. attempts' \in [Logs -> Nat] /\ UNCHANGED <<queued, calls, faults, stranded, asked, shared>>
  BY <1>1 DEF Attempt, QueueOK
<1>5. \/ Set(t.log, t.snap, synced) /\ worker' = [worker EXCEPT ![w] = Resting]
      \/ Set(t.log, t.snap, failed) /\ worker' = [worker EXCEPT ![w] = Resting]
      \/ Set(t.log, t.snap, again) /\ worker' = [worker EXCEPT ![w] = going]
  BY DEF Attempt, Idle
<1>. HIDE DEF t, synced, failed, again, going
<1>6. CASE Set(t.log, t.snap, synced) /\ worker' = [worker EXCEPT ![w] = Resting]
  BY <1>1, <1>2, <1>4, <1>6, RestingTyped, EndStep DEF t
<1>7. CASE Set(t.log, t.snap, failed) /\ worker' = [worker EXCEPT ![w] = Resting]
  BY <1>1, <1>2, <1>4, <1>7, RestingTyped, EndStep DEF t
<1>8. CASE Set(t.log, t.snap, again) /\ worker' = [worker EXCEPT ![w] = going]
  BY <1>1, <1>2, <1>3, <1>4, <1>8, EndStep DEF t
<1>. QED
  BY <1>5, <1>6, <1>7, <1>8

\* A message is put back, or put in for later.
LEMMA PutStep ==
    ASSUME QueueOK, Owned, NEW w \in Workers, ScheduleRetry(w) \/ Crash(w)
    PROVE  TaskKept
<1>. DEFINE l == worker[w].log
<1>1. l \in Logs
  BY DEF QueueOK, TaskType
<1>2. /\ queued' = [queued EXCEPT ![l] = @ + 1]
      /\ worker' = [worker EXCEPT ![w] = Resting] /\ stranded' = stranded \ {l}
      /\ UNCHANGED <<log, calls, asked, shared>>
  BY DEF ScheduleRetry, Crash, Queue, Idle
<1>3. faults' \in 0..MaxFaults /\ attempts' \in [Logs -> Nat]
  BY <1>1, FaultTyped DEF ScheduleRetry, Crash, HalfDone, QueueOK
<1>4. queued' \in [Logs -> Nat] /\ queued'[l] > 0 /\ \A m \in Logs \ {l} : queued'[m] = queued[m]
  BY <1>1, <1>2 DEF QueueOK
<1>5. log' \in [Logs -> Row] /\ \A m \in Logs \ {l} : log'[m] = log[m]
  BY <1>2 DEF QueueOK
<1>6. QueueOK'
  BY <1>2, <1>3, <1>4, <1>5, RestingTyped DEF QueueOK
<1>. HIDE DEF l
<1>7. Owned'
  BY <1>1, <1>2, <1>4, <1>5, RestingTyped, TaskStep DEF l
<1>. QED
  BY <1>6, <1>7 DEF TaskKept

LEMMA EndsStep ==
    ASSUME QueueOK, Owned, NEW w \in Workers, ScheduleFails(w) \/ Kill(w) \/ DatabaseFails(w)
    PROVE  TaskKept
<1>. DEFINE l == worker[w].log
<1>1. l \in Logs
  BY DEF QueueOK, TaskType
<1>2. /\ worker' = [worker EXCEPT ![w] = Resting] /\ stranded' = stranded \cup {l}
      /\ UNCHANGED <<log, queued, calls, asked, shared>>
  BY DEF ScheduleFails, Kill, DatabaseFails, Ends, Idle
<1>3. faults' \in 0..MaxFaults /\ attempts' \in [Logs -> Nat]
  BY <1>1, FaultTyped DEF ScheduleFails, Kill, DatabaseFails, Ends, HalfDone, QueueOK
<1>4. /\ log' \in [Logs -> Row] /\ queued' \in [Logs -> Nat] /\ l \in stranded'
      /\ \A m \in Logs \ {l} : log'[m] = log[m] /\ queued'[m] = queued[m]
  BY <1>2 DEF QueueOK
<1>5. QueueOK'
  BY <1>1, <1>2, <1>3, <1>4, RestingTyped DEF QueueOK
<1>. HIDE DEF l
<1>6. Owned'
  BY <1>1, <1>2, <1>4, RestingTyped, TaskStep DEF l
<1>. QED
  BY <1>5, <1>6 DEF TaskKept

-----------------------------------------------------------------------------
(* The requests *)

Pushes(b) == \E c \in calls : c.page = "row" /\ \E l \in c.logs : b = <<c.kind, l>>

LEMMA InButtons == \A b : b \in Buttons <=> Pushes(b)
BY DEF Buttons, Pushes

CallsKept == CallsOK' /\ ButtonsOK'

\* A request goes on.
LEMMA BecomeStep ==
    ASSUME CallsOK, ButtonsOK, NEW c \in calls, NEW d, CallOK(d),
           d.no = c.no, d.kind = c.kind, d.logs = c.logs, d.page = c.page,
           calls' = (calls \ {c}) \cup {d}, UNCHANGED <<sent, pressed, bulk>>
    PROVE  CallsKept
<1>1. \A x \in calls' : CallOK(x) /\ x.no \in 1..sent'
  BY DEF CallsOK
<1>2. \A x, y \in calls' : x.no = y.no \/ SameButton(x, y) => x = y
  <2>1. \A x \in calls \ {c} : ~(x.no = c.no \/ SameButton(x, c) \/ SameButton(c, x))
    BY DEF CallsOK
  <2>2. \A x : /\ SameButton(x, d) <=> SameButton(x, c)
               /\ SameButton(d, x) <=> SameButton(c, x)
    BY DEF SameButton
  <2>. QED
    BY <2>1, <2>2 DEF CallsOK
<1>3. Buttons' = Buttons
  <2>1. \A b : Pushes(b)' <=> Pushes(b)
    BY DEF Pushes
  <2>2. \A b : (b \in Buttons)' <=> Pushes(b)'
    BY DEF Buttons, Pushes
  <2>. QED
    BY <2>1, <2>2, InButtons
<1>4. Bulk' = Bulk
  BY DEF Bulk
<1>. QED
  BY <1>1, <1>2, <1>3, <1>4 DEF CallsKept, CallsOK, ButtonsOK

RequestKept == QueueOK' /\ CallsKept /\ Owned'

LEMMA LoadStep ==
    ASSUME LogsInv, NEW c \in calls, Load(c), UNCHANGED pageVars
    PROVE  RequestKept
<1>1. PICK found \in SUBSET c.logs :
        /\ Become(c, [c EXCEPT !.phase = "loaded", !.snap = [l \in found |-> log[l]]])
        /\ shared' = shared \cup {l \in found : Busy(l) \/ queued[l] > 0}
  BY DEF Load
<1>. DEFINE s == [l \in found |-> log[l]]
            d == [c EXCEPT !.phase = "loaded", !.snap = s]
<1>2. CallOK(c) /\ c \in CallType /\ c.phase = "sent" /\ c.left = {} /\ c.logs \in SUBSET Logs
  BY DEF LogsInv, CallsOK, CallOK, CallType, Load
<1>3. s \in [found -> Row] /\ s \in Rows /\ DOMAIN s = found
  BY <1>2 DEF LogsInv, QueueOK, Rows
<1>4. /\ CallOK(d) /\ d.no = c.no /\ d.kind = c.kind /\ d.logs = c.logs /\ d.page = c.page
      /\ d.left = {}
  <2>. HIDE DEF s
  <2>. QED
    BY <1>2, <1>3 DEF CallOK, CallType
<1>5. calls' = (calls \ {c}) \cup {d}
  BY <1>1 DEF Become
<1>. HIDE DEF d
<1>6. CallsKept
  BY <1>4, <1>5, BecomeStep DEF LogsInv, Load, pageVars
<1>7. QueueOK'
  BY <1>1, <1>2 DEF LogsInv, QueueOK, Load
<1>8. ASSUME NEW l \in Logs \ stranded, Waits(l)
      PROVE  Waits(l)'
  BY <1>2, <1>5, <1>8 DEF Waits, Holds, Load
<1>9. Owned'
  BY <1>8 DEF LogsInv, Owned, Load
<1>. QED
  BY <1>6, <1>7, <1>9 DEF RequestKept

LEMMA CommitStep ==
    ASSUME LogsInv, NEW c \in calls, Commit(c), UNCHANGED pageVars
    PROVE  RequestKept
<1>. DEFINE new(l) == IF c.kind = "dismiss" THEN [c.snap[l] EXCEPT !.status = "dismissed"]
                      ELSE [status |-> "pending", count |-> 0]
            left == IF c.kind = "dismiss" THEN {} ELSE DOMAIN c.snap
            d == [c EXCEPT !.phase = "committed", !.snap = NoRows, !.left = left]
<1>1. /\ log' = [l \in Logs |-> IF l \in DOMAIN c.snap THEN Write(log[l], c.snap[l], new(l)) ELSE log[l]]
      /\ calls' = (calls \ {c}) \cup {d}
      /\ UNCHANGED <<queued, worker, sent, faults, stranded, asked, attempts, shared>>
  BY DEF Commit, Become
<1>2. /\ CallOK(c) /\ c \in CallType /\ c.left = {} /\ c.logs \in SUBSET Logs
      /\ DOMAIN c.snap \subseteq c.logs /\ c.snap \in Rows
  BY DEF LogsInv, CallsOK, CallOK, CallType, Commit
<1>3. \A l \in DOMAIN c.snap : l \in Logs /\ c.snap[l] \in Row /\ log[l] \in Row
  BY <1>2 DEF Rows, LogsInv, QueueOK
<1>4. /\ CallOK(d) /\ d.no = c.no /\ d.kind = c.kind /\ d.logs = c.logs /\ d.page = c.page
      /\ d.left = left
  BY <1>2, NoRowsTyped DEF CallOK, CallType
<1>5. ASSUME NEW l \in DOMAIN c.snap
      PROVE  /\ new(l) \in Row
             /\ new(l).status = IF c.kind = "dismiss" THEN "dismissed" ELSE "pending"
  BY <1>3 DEF Row, Statuses
<1>6. ASSUME NEW l \in DOMAIN c.snap
      PROVE  /\ log'[l] \in Row
             /\ log'[l].status = IF new(l).status # c.snap[l].status THEN new(l).status ELSE log[l].status
  <2>1. log'[l] = Write(log[l], c.snap[l], new(l))
    BY <1>1, <1>3
  <2>2. new(l) \in Row /\ log[l] \in Row /\ c.snap[l] \in Row
    BY <1>3, <1>5
  <2>. HIDE DEF new
  <2>. QED
    BY <2>1, <2>2, WriteRow
<1>7. QueueOK'
  <2>1. ASSUME NEW l \in Logs
        PROVE  log'[l] \in Row
    BY <1>1, <1>6 DEF LogsInv, QueueOK
  <2>2. log' \in [Logs -> Row]
    BY <1>1, <2>1
  <2>. QED
    BY <1>1, <2>2 DEF LogsInv, QueueOK
<1>8. Owned'
  <2>. SUFFICES ASSUME NEW l \in Logs \ stranded, log'[l].status = "pending"
                PROVE  Waits(l)'
    BY <1>1 DEF Owned
  <2>1. CASE l \in left
    BY <1>1, <1>4, <2>1 DEF Waits
  <2>2. CASE l \notin left
    <3>1. log[l].status = "pending"
      <4>1. CASE l \in DOMAIN c.snap
        BY <1>5, <1>6, <2>2, <4>1
      <4>2. CASE l \notin DOMAIN c.snap
        BY <1>1, <4>2
      <4>. QED
        BY <4>1, <4>2
    <3>2. Waits(l)
      BY <3>1 DEF LogsInv, Owned
    <3>. QED
      BY <1>1, <1>2, <3>2 DEF Waits, Holds
  <2>. QED
    BY <2>1, <2>2
<1>. HIDE DEF d
<1>9. CallsKept
  BY <1>1, <1>4, BecomeStep DEF LogsInv, pageVars
<1>. QED
  BY <1>7, <1>8, <1>9 DEF RequestKept

LEMMA DispatchStep ==
    ASSUME LogsInv, NEW c \in calls, Dispatch(c), UNCHANGED pageVars
    PROVE  RequestKept
<1>1. PICK l \in c.left :
        /\ queued' = [queued EXCEPT ![l] = @ + 1] /\ stranded' = stranded \ {l}
        /\ asked' = [asked EXCEPT ![l] = @ + 1]
        /\ Become(c, [c EXCEPT !.left = @ \ {l}])
  BY DEF Dispatch, Queue
<1>. DEFINE d == [c EXCEPT !.left = @ \ {l}]
<1>2. CallOK(c) /\ c \in CallType /\ c.phase = "committed" /\ c.left \in SUBSET Logs /\ l \in Logs
  BY DEF LogsInv, CallsOK, CallOK, CallType, Dispatch
<1>3. /\ CallOK(d) /\ d.no = c.no /\ d.kind = c.kind /\ d.logs = c.logs /\ d.page = c.page
      /\ d.left = c.left \ {l}
  BY <1>2 DEF CallOK, CallType
<1>4. calls' = (calls \ {c}) \cup {d}
  BY <1>1 DEF Become
<1>. HIDE DEF d
<1>5. CallsKept
  BY <1>3, <1>4, BecomeStep DEF LogsInv, Dispatch, pageVars
<1>6. QueueOK'
  BY <1>1, <1>2 DEF LogsInv, QueueOK, Dispatch
<1>7. ASSUME NEW m \in Logs, m = l \/ Waits(m)
      PROVE  Waits(m)'
  <2>1. CASE m = l
    BY <1>1, <1>2, <2>1 DEF Waits, LogsInv, QueueOK
  <2>2. CASE m # l
    <3>1. queued'[m] = queued[m] /\ worker' = worker
      BY <1>1, <1>2, <2>2 DEF LogsInv, QueueOK, Dispatch
    <3>2. ASSUME NEW x \in calls, m \in x.left
          PROVE  \E y \in calls' : m \in y.left
      BY <1>3, <1>4, <2>2, <3>2
    <3>. QED
      BY <1>7, <3>1, <3>2 DEF Waits, Holds
  <2>. QED
    BY <2>1, <2>2
<1>8. Owned'
  BY <1>1, <1>7 DEF LogsInv, Owned, Dispatch
<1>. QED
  BY <1>5, <1>6, <1>8 DEF RequestKept

LEMMA RequestFailsStep ==
    ASSUME LogsInv, NEW c \in calls, RequestFails(c), UNCHANGED pageVars
    PROVE  RequestKept
<1>. DEFINE d == [c EXCEPT !.phase = "committed", !.snap = NoRows]
<1>1. calls' = (calls \ {c}) \cup {d} /\ UNCHANGED <<log, queued, worker, sent, stranded>>
  BY DEF RequestFails, Become
<1>2. CallOK(c) /\ c \in CallType /\ c.left = {}
  BY DEF LogsInv, CallsOK, CallOK, RequestFails
<1>3. /\ CallOK(d) /\ d.no = c.no /\ d.kind = c.kind /\ d.logs = c.logs /\ d.page = c.page
      /\ d.left = {}
  BY <1>2, NoRowsTyped DEF CallOK, CallType
<1>. HIDE DEF d
<1>4. CallsKept
  BY <1>1, <1>3, BecomeStep DEF LogsInv, pageVars
<1>5. QueueOK'
  BY <1>1, FaultTyped DEF LogsInv, QueueOK, RequestFails
<1>6. ASSUME NEW m \in Logs \ stranded, Waits(m)
      PROVE  Waits(m)'
  BY <1>1, <1>2, <1>6 DEF Waits, Holds
<1>7. Owned'
  BY <1>1, <1>6 DEF LogsInv, Owned
<1>. QED
  BY <1>4, <1>5, <1>7 DEF RequestKept

LEMMA DispatchFailsStep ==
    ASSUME LogsInv, NEW c \in calls, DispatchFails(c), UNCHANGED pageVars
    PROVE  RequestKept
<1>. DEFINE d == [c EXCEPT !.left = {}]
<1>1. calls' = (calls \ {c}) \cup {d} /\ stranded' = stranded \cup c.left
  BY DEF DispatchFails, Become
<1>2. CallOK(c) /\ c \in CallType /\ c.left \in SUBSET Logs
  BY DEF LogsInv, CallsOK, CallOK, CallType
<1>3. /\ CallOK(d) /\ d.no = c.no /\ d.kind = c.kind /\ d.logs = c.logs /\ d.page = c.page
      /\ d.left = {}
  BY <1>2 DEF CallOK, CallType
<1>. HIDE DEF d
<1>4. CallsKept
  BY <1>1, <1>3, BecomeStep DEF LogsInv, DispatchFails, pageVars
<1>5. QueueOK'
  BY <1>1, <1>2, FaultTyped DEF LogsInv, QueueOK, DispatchFails
<1>6. ASSUME NEW m \in Logs \ stranded', Waits(m)
      PROVE  Waits(m)'
  BY <1>1, <1>6 DEF Waits, Holds, DispatchFails
<1>7. Owned'
  BY <1>1, <1>6 DEF LogsInv, Owned, DispatchFails
<1>. QED
  BY <1>4, <1>5, <1>7 DEF RequestKept

-----------------------------------------------------------------------------
(* The page *)

\* The buttons wait no longer for a request of the page that is settled.
LEMMA SettledButtons ==
    ASSUME CallsOK, ButtonsOK, NEW c \in calls, c.page \in {"row", "all"}, Settled(c),
           \A x : x \in calls' /\ x.page # "none" <=> x \in calls \ {c} /\ x.page # "none"
    PROVE  ButtonsOK'
<1>1. c \in CallType /\ c.logs \subseteq Logs
  BY DEF CallsOK, CallOK, CallType
<1>2. \A b : (b \in Buttons)' <=> Pushes(b)'
  BY DEF Buttons, Pushes
<1>3. CASE c.page = "row"
  <2>. DEFINE gone == {<<c.kind, l>> : l \in c.logs}
  <2>1. pressed' = pressed \ gone /\ bulk' = bulk
    BY <1>3 DEF Settled
  <2>2. ASSUME NEW b, b \in Buttons, b \notin gone
        PROVE  Pushes(b)'
    <3>1. PICK x \in calls : x.page = "row" /\ \E l \in x.logs : b = <<x.kind, l>>
      BY <2>2, InButtons DEF Pushes
    <3>2. x # c
      BY <2>2, <3>1
    <3>. QED
      BY <3>1, <3>2 DEF Pushes
  <2>3. ASSUME NEW b, Pushes(b)'
        PROVE  b \in Buttons /\ b \notin gone
    <3>1. PICK x \in calls' : x.page = "row" /\ \E l \in x.logs : b = <<x.kind, l>>
      BY <2>3 DEF Pushes
    <3>2. x \in calls /\ x # c
      BY <3>1
    <3>3. PICK l \in x.logs : b = <<x.kind, l>>
      BY <3>1
    <3>4. b \in Buttons
      BY <3>1, <3>2, InButtons DEF Pushes
    <3>5. ASSUME NEW m \in c.logs, b = <<c.kind, m>>
          PROVE  FALSE
      <4>1. m = l /\ c.kind = x.kind
        BY <3>3, <3>5
      <4>2. SameButton(c, x)
        BY <1>1, <1>3, <3>1, <3>3, <4>1 DEF SameButton
      <4>. QED
        BY <3>2, <4>2 DEF CallsOK
    <3>. QED
      BY <3>4, <3>5
  <2>4. Buttons' = pressed'
    BY <1>2, <2>1, <2>2, <2>3 DEF ButtonsOK
  <2>5. Bulk' = Bulk
    <3>1. \A x : x \in calls' /\ x.page = "all" <=> x \in calls /\ x.page = "all"
      BY <1>3
    <3>. QED
      BY <3>1 DEF Bulk
  <2>. QED
    BY <2>1, <2>4, <2>5 DEF ButtonsOK
<1>4. CASE c.page = "all"
  <2>1. pressed' = pressed /\ bulk' = bulk \ {c.no}
    BY <1>4 DEF Settled
  <2>2. Buttons' = Buttons
    <3>1. \A b : Pushes(b)' <=> Pushes(b)
      BY <1>4 DEF Pushes
    <3>. QED
      BY <1>2, <3>1, InButtons
  <2>3. Bulk' = Bulk \ {c.no}
    <3>1. \A n : n \in Bulk' <=> \E x \in calls \ {c} : x.page = "all" /\ x.no = n
      BY DEF Bulk
    <3>2. \A x \in calls \ {c} : x.no # c.no
      BY DEF CallsOK
    <3>3. \A n : n \in Bulk <=> \E x \in calls : x.page = "all" /\ x.no = n
      BY DEF Bulk
    <3>. QED
      BY <1>4, <3>1, <3>2, <3>3
  <2>. QED
    BY <2>1, <2>2, <2>3 DEF ButtonsOK
<1>. QED
  BY <1>3, <1>4

LEMMA SettledScreen ==
    ASSUME ScreenOK, NEW c, Settled(c), unseen' \subseteq Logs
    PROVE  ScreenOK'
BY DEF ScreenOK, Settled, Invalidate

\* Nothing that a log may wait for is lost with a request that is served.
LEMMA ServedWaits ==
    ASSUME LogsInv, NEW c \in calls, calls' = calls \ {c}, c.left = {}, sent' = sent,
           UNCHANGED <<log, queued, worker, stranded>>
    PROVE  CallsOK' /\ Owned'
<1>1. CallsOK'
  BY DEF LogsInv, CallsOK
<1>2. ASSUME NEW m \in Logs, Waits(m)
      PROVE  Waits(m)'
  BY <1>2 DEF Waits, Holds
<1>. QED
  BY <1>1, <1>2 DEF LogsInv, Owned

LEMMA AnsweredStep ==
    ASSUME LogsInv, NEW c \in calls, Answered(c)
    PROVE  LogsInv'
<1>1. CallOK(c) /\ c.page \in {"row", "all"} /\ c.left = {} /\ calls' = calls \ {c} /\ Settled(c)
  BY DEF LogsInv, CallsOK, CallOK, CallType, Answered, Served
<1>2. UNCHANGED <<log, queued, worker, sent, faults, stranded, asked, attempts, shared>>
  BY DEF Answered, Settled
<1>3. QueueOK'
  BY <1>2 DEF LogsInv, QueueOK
<1>4. ScreenOK'
  BY <1>1, SettledScreen DEF LogsInv, ScreenOK, Answered
<1>5. CallsOK' /\ Owned'
  BY <1>1, <1>2, ServedWaits
<1>6. ButtonsOK'
  BY <1>1, SettledButtons DEF LogsInv
<1>. QED
  BY <1>3, <1>4, <1>5, <1>6 DEF LogsInv

LEMMA AnswerLostStep ==
    ASSUME LogsInv, NEW c \in calls, AnswerLost(c)
    PROVE  LogsInv'
<1>. DEFINE d == [c EXCEPT !.page = "none"]
<1>1. CallOK(c) /\ c \in CallType /\ c.page \in {"row", "all"} /\ c.logs \subseteq Logs /\ c.no \in 1..sent
  BY DEF LogsInv, CallsOK, CallOK, CallType, AnswerLost
<1>2. calls' = (calls \ {c}) \cup {d} /\ Settled(c)
  BY DEF AnswerLost, Become
<1>3. CallOK(d) /\ d.no = c.no /\ d.left = c.left /\ d.page = "none"
  BY <1>1 DEF CallOK, CallType
<1>. HIDE DEF d
<1>4. UNCHANGED <<log, queued, worker, sent, stranded, asked, attempts, shared>>
  BY <1>2 DEF Settled
<1>5. QueueOK'
  BY <1>4, FaultTyped DEF LogsInv, QueueOK, AnswerLost
<1>6. ScreenOK'
  BY <1>1, <1>2, SettledScreen DEF LogsInv, ScreenOK, AnswerLost
<1>7. ButtonsOK'
  BY <1>1, <1>2, <1>3, SettledButtons DEF LogsInv
<1>8. CallsOK'
  <2>1. \A x \in calls' : CallOK(x) /\ x.no \in 1..sent'
    BY <1>1, <1>2, <1>3, <1>4 DEF LogsInv, CallsOK
  <2>2. \A x, y \in calls' : x.no = y.no \/ SameButton(x, y) => x = y
    BY <1>2, <1>3 DEF LogsInv, CallsOK, SameButton
  <2>. QED
    BY <1>4, <2>1, <2>2 DEF LogsInv, CallsOK
<1>9. ASSUME NEW m \in Logs, Waits(m)
      PROVE  Waits(m)'
  BY <1>2, <1>3, <1>4, <1>9 DEF Waits, Holds
<1>. QED
  BY <1>4, <1>5, <1>6, <1>7, <1>8, <1>9 DEF LogsInv, Owned

LEMMA DroppedStep ==
    ASSUME LogsInv, NEW c \in calls, Dropped(c)
    PROVE  LogsInv'
<1>1. /\ c.left = {} /\ c.page = "none" /\ calls' = calls \ {c}
      /\ UNCHANGED <<log, queued, worker, sent, faults, stranded, asked, attempts, shared, pageVars>>
  BY DEF Dropped, Served
<1>2. CallsOK' /\ Owned'
  BY <1>1, ServedWaits
<1>3. ButtonsOK'
  <2>1. \A b : Pushes(b)' <=> Pushes(b)
    BY <1>1 DEF Pushes
  <2>2. \A b : (b \in Buttons)' <=> Pushes(b)'
    BY DEF Buttons, Pushes
  <2>3. Buttons' = Buttons
    BY <2>1, <2>2, InButtons
  <2>4. Bulk' = Bulk
    BY <1>1 DEF Bulk
  <2>. QED
    BY <1>1, <2>3, <2>4 DEF LogsInv, ButtonsOK, pageVars
<1>4. QueueOK' /\ ScreenOK'
  BY <1>1 DEF LogsInv, QueueOK, ScreenOK, pageVars
<1>. QED
  BY <1>2, <1>3, <1>4 DEF LogsInv

LEMMA SendStep ==
    ASSUME LogsInv, NEW kind \in {"retry", "dismiss", "retry-all"}, NEW logs \in SUBSET Logs,
           NEW page \in {"row", "none"}, Send(kind, logs, page),
           page = "row" => \A l \in logs : <<kind, l>> \notin pressed,
           UNCHANGED <<log, queued, worker, stranded>>
    PROVE  /\ CallsOK' /\ Owned' /\ Bulk' = Bulk
           /\ Buttons' = IF page = "row" THEN Buttons \cup {<<kind, l>> : l \in logs} ELSE Buttons
<1>. DEFINE d == [no |-> sent + 1, kind |-> kind, logs |-> logs, page |-> page,
                  snap |-> NoRows, left |-> {}, phase |-> "sent"]
<1>1. calls' = calls \cup {d} /\ sent' = sent + 1 /\ sent' \in 0..MaxCalls /\ sent \in Nat
  BY BoundsAssumption DEF Send, LogsInv, CallsOK
<1>2. /\ CallOK(d) /\ d.no = sent + 1 /\ d.left = {} /\ d.page = page
      /\ d.kind = kind /\ d.logs = logs
  BY <1>1, NoRowsTyped DEF CallOK, CallType
<1>. HIDE DEF d
<1>3. \A x \in calls : x.no < d.no /\ ~SameButton(x, d) /\ ~SameButton(d, x)
  <2>. SUFFICES ASSUME NEW x \in calls
                PROVE  x.no < d.no /\ ~SameButton(x, d) /\ ~SameButton(d, x)
    OBVIOUS
  <2>1. x.no \in 1..sent
    BY DEF LogsInv, CallsOK
  <2>2. ASSUME x.page = "row", d.page = "row", x.kind = kind, NEW l \in logs, l \in x.logs
        PROVE  FALSE
    <3>1. <<kind, l>> \in Buttons
      BY <2>2, InButtons DEF Pushes
    <3>. QED
      BY <1>2, <2>2, <3>1 DEF LogsInv, ButtonsOK
  <2>. QED
    BY <1>1, <1>2, <2>1, <2>2 DEF SameButton
<1>4. CallsOK'
  <2>1. \A x \in calls' : CallOK(x) /\ x.no \in 1..sent'
    BY <1>1, <1>2 DEF LogsInv, CallsOK
  <2>2. \A x, y \in calls : x.no = y.no \/ SameButton(x, y) => x = y
    BY DEF LogsInv, CallsOK
  <2>3. \A x \in calls : x.no # d.no
    BY <1>1, <1>2, <1>3 DEF LogsInv, CallsOK
  <2>4. \A x, y \in calls' : x.no = y.no \/ SameButton(x, y) => x = y
    BY <1>1, <1>3, <2>2, <2>3
  <2>. QED
    BY <1>1, <2>1, <2>4 DEF CallsOK
<1>5. ASSUME NEW m \in Logs, Waits(m)
      PROVE  Waits(m)'
  BY <1>1, <1>5 DEF Waits, Holds
<1>6. Owned'
  BY <1>5 DEF LogsInv, Owned
<1>7. Bulk' = Bulk
  BY <1>1, <1>2 DEF Bulk
<1>8. \A b : (b \in Buttons)' <=> b \in Buttons \/ (page = "row" /\ \E l \in logs : b = <<kind, l>>)
  <2>1. \A b : Pushes(b)' <=> Pushes(b) \/ (page = "row" /\ \E l \in logs : b = <<kind, l>>)
    BY <1>1, <1>2 DEF Pushes
  <2>2. \A b : (b \in Buttons)' <=> Pushes(b)'
    BY DEF Buttons, Pushes
  <2>. QED
    BY <2>1, <2>2, InButtons
<1>. QED
  BY <1>4, <1>6, <1>7, <1>8

LEMMA PressStep ==
    ASSUME LogsInv, NEW kind \in {"retry", "dismiss"}, NEW l \in Logs, Press(kind, l)
    PROVE  LogsInv'
<1>1. /\ Send(kind, {l}, "row") /\ pressed' = pressed \cup {<<kind, l>>}
      /\ \A m \in {l} : <<kind, m>> \notin pressed
      /\ UNCHANGED <<log, queued, worker, faults, stranded, asked, attempts, shared,
                     tab, fetch, bringing, items, stale, bulk, unseen>>
  BY DEF Press
<1>2. /\ CallsOK' /\ Owned' /\ Bulk' = Bulk
      /\ Buttons' = Buttons \cup {<<kind, m>> : m \in {l}}
  BY <1>1, SendStep
<1>3. ButtonsOK'
  BY <1>1, <1>2 DEF LogsInv, ButtonsOK
<1>4. QueueOK' /\ ScreenOK'
  BY <1>1 DEF LogsInv, QueueOK, ScreenOK
<1>. QED
  BY <1>2, <1>3, <1>4 DEF LogsInv

LEMMA OtherStep ==
    ASSUME LogsInv, Other
    PROVE  LogsInv'
<1>1. PICK kind \in {"retry", "dismiss", "retry-all"}, logs \in SUBSET Logs :
        Send(kind, logs, "none") /\ unseen' = unseen \cup logs
  BY DEF Other, LogsInv, ScreenOK
<1>2. UNCHANGED <<log, queued, worker, faults, stranded, asked, attempts, shared,
                  tab, fetch, bringing, items, stale, pressed, bulk>>
  BY DEF Other
<1>3. CallsOK' /\ Owned' /\ Bulk' = Bulk /\ Buttons' = Buttons
  BY <1>1, <1>2, SendStep
<1>4. ButtonsOK' /\ QueueOK' /\ ScreenOK'
  BY <1>1, <1>2, <1>3 DEF LogsInv, ButtonsOK, QueueOK, ScreenOK
<1>. QED
  BY <1>3, <1>4 DEF LogsInv

\* The numbers that "retry all" gives to its requests are different.
LEMMA Numbering ==
    ASSUME NEW S, IsFiniteSet(S),
           NEW f, f = CHOOSE g \in [S -> 1..Cardinality(S)] : \A l, m \in S : g[l] = g[m] => l = m
    PROVE  /\ Cardinality(S) \in Nat /\ f \in [S -> 1..Cardinality(S)]
           /\ \A l, m \in S : f[l] = f[m] => l = m
<1>1. Cardinality(S) \in Nat /\ ExistsBijection(S, 1..Cardinality(S))
  BY FS_CardinalityType, Fun_ExistsBijSymmetric
<1>2. \E g \in [S -> 1..Cardinality(S)] : \A l, m \in S : g[l] = g[m] => l = m
  BY <1>1 DEF ExistsBijection, Bijection, Injection, IsInjective
<1>. QED
  BY <1>1, <1>2

LEMMA RetryAllStep ==
    ASSUME LogsInv, RetryAll
    PROVE  LogsInv'
<1>. DEFINE n == Cardinality(items)
            order == CHOOSE f \in [items -> 1..n] : \A l, m \in items : f[l] = f[m] => l = m
            d(l) == [no |-> sent + order[l], kind |-> "retry", logs |-> {l}, page |-> "all",
                     snap |-> NoRows, left |-> {}, phase |-> "sent"]
<1>1. /\ bulk = {} /\ sent + n <= MaxCalls /\ sent' = sent + n
      /\ bulk' = {sent + order[l] : l \in items}
      /\ calls' = calls \cup {d(l) : l \in items}
      /\ UNCHANGED <<log, queued, worker, faults, stranded, asked, attempts, shared,
                     tab, fetch, bringing, items, stale, pressed, unseen>>
  BY DEF RetryAll
<1>2. IsFiniteSet(items) /\ items \subseteq Logs /\ sent \in Nat
  BY LogsAssumption, FS_Subset DEF LogsInv, ScreenOK, CallsOK
<1>3. n \in Nat /\ order \in [items -> 1..n] /\ \A l, m \in items : order[l] = order[m] => l = m
  BY <1>2, Numbering
<1>. HIDE DEF n, order
<1>4. ASSUME NEW l \in items
      PROVE  /\ CallOK(d(l)) /\ d(l).no = sent + order[l] /\ d(l).left = {} /\ d(l).page = "all"
             /\ d(l).no \in 1..(sent + n) /\ d(l).no > sent
  BY <1>2, <1>3, NoRowsTyped DEF CallOK, CallType
<1>. HIDE DEF d
<1>5. CallsOK'
  <2>1. \A x \in calls' : CallOK(x) /\ x.no \in 1..sent'
    BY <1>1, <1>2, <1>3, <1>4 DEF LogsInv, CallsOK
  <2>2. \A x, y \in calls : x.no = y.no \/ SameButton(x, y) => x = y
    BY DEF LogsInv, CallsOK
  <2>3. \A x \in calls, l \in items : x.no # d(l).no
    BY <1>2, <1>4 DEF LogsInv, CallsOK
  <2>4. \A l, m \in items : d(l).no = d(m).no => d(l) = d(m)
    BY <1>2, <1>3, <1>4
  <2>5. \A x, l : l \in items => ~SameButton(x, d(l)) /\ ~SameButton(d(l), x)
    BY <1>4 DEF SameButton
  <2>6. \A x, y \in calls' : x.no = y.no \/ SameButton(x, y) => x = y
    BY <1>1, <2>2, <2>3, <2>4, <2>5
  <2>7. sent' \in 0..MaxCalls
    BY <1>1, <1>2, <1>3, BoundsAssumption
  <2>. QED
    BY <2>1, <2>6, <2>7 DEF CallsOK
<1>6. ASSUME NEW m \in Logs, Waits(m)
      PROVE  Waits(m)'
  BY <1>1, <1>6 DEF Waits, Holds
<1>7. Buttons' = Buttons
  <2>1. \A b : Pushes(b)' <=> Pushes(b)
    BY <1>1, <1>4 DEF Pushes
  <2>2. \A b : (b \in Buttons)' <=> Pushes(b)'
    BY DEF Buttons, Pushes
  <2>. QED
    BY <2>1, <2>2, InButtons
<1>8. Bulk' = bulk'
  <2>1. \A x \in calls : x.page # "all"
    BY <1>1 DEF LogsInv, ButtonsOK, Bulk
  <2>2. \A k : k \in Bulk' <=> \E l \in items : k = sent + order[l]
    BY <1>1, <1>4, <2>1 DEF Bulk
  <2>. QED
    BY <1>1, <2>2
<1>9. ButtonsOK'
  BY <1>1, <1>7, <1>8 DEF LogsInv, ButtonsOK
<1>. QED
  BY <1>1, <1>5, <1>6, <1>9 DEF LogsInv, Owned, QueueOK, ScreenOK

-----------------------------------------------------------------------------

LEMMA InitInv == Init => LogsInv
<1>. SUFFICES ASSUME Init
              PROVE  LogsInv
  OBVIOUS
<1>1. QueueOK
  BY RestingTyped, LogsAssumption, BoundsAssumption DEF Init, QueueInit, QueueOK, Row, Statuses, New
<1>2. ScreenOK
  BY DEF Init, ScreenOK
<1>3. CallsOK
  BY BoundsAssumption DEF Init, QueueInit, CallsOK
<1>4. ButtonsOK
  BY DEF Init, QueueInit, ButtonsOK, Buttons, Bulk
<1>5. Owned
  BY DEF Init, QueueInit, Owned, New
<1>. QED
  BY <1>1, <1>2, <1>3, <1>4, <1>5 DEF LogsInv

LEMMA NextInv == LogsInv /\ [Next]_vars => LogsInv'
<1>. SUFFICES ASSUME LogsInv, [Next]_vars
              PROVE  LogsInv'
  OBVIOUS
<1>1. ASSUME UNCHANGED queueVars, UNCHANGED <<pressed, bulk>>, ScreenOK'
      PROVE  LogsInv'
  BY <1>1 DEF queueVars, LogsInv, QueueOK, CallsOK, ButtonsOK, Buttons, Bulk, Owned, Waits
<1>2. CASE UNCHANGED vars
  BY <1>1, <1>2 DEF vars, pageVars, LogsInv, ScreenOK
<1>3. CASE (\E t \in {"executions", "review"} : OpenTab(t)) \/ Refresh
  BY <1>1, <1>3 DEF OpenTab, Refresh, LogsInv, ScreenOK
<1>4. CASE ListServed \/ ListArrives
  BY <1>1, <1>4 DEF ListServed, ListArrives, Listed, LogsInv, ScreenOK
<1>5. ASSUME NEW c \in calls, Server(c)
      PROVE  LogsInv'
  <2>1. RequestKept
    BY <1>5, LoadStep, CommitStep, DispatchStep, DispatchFailsStep, RequestFailsStep
       DEF Server, Serve
  <2>. QED
    BY <1>5, <2>1 DEF RequestKept, CallsKept, LogsInv, ScreenOK, Server, pageVars
<1>6. ASSUME NEW w \in Workers, Task(w), UNCHANGED pageVars
      PROVE  LogsInv'
  <2>1. TaskKept
    BY <1>6, TakeStep, UnmappedStep, AttemptStep, PutStep, EndsStep DEF LogsInv, Task
  <2>2. UNCHANGED <<calls, sent>>
    BY <1>6 DEF Task, Take, Unmapped, Attempt, ScheduleRetry, ScheduleFails, Crash, Kill,
           DatabaseFails, Ends
  <2>. QED
    BY <1>6, <2>1, <2>2 DEF TaskKept, LogsInv, ScreenOK, CallsOK, ButtonsOK, Buttons, Bulk, pageVars
<1>7. CASE Other
  BY <1>7, OtherStep
<1>. QED
  BY <1>2, <1>3, <1>4, <1>5, <1>6, <1>7, PressStep, RetryAllStep, AnsweredStep, AnswerLostStep,
     DroppedStep DEF Next

LEMMA AlwaysLogsInv == Spec => []LogsInv
BY InitInv, NextInv, PTL DEF Spec

\* Every variable keeps its type, and the buttons of the page that wait are
\* exactly those whose requests are not answered (logs/page.tsx).
THEOREM LogsTypes == Spec => []TypeOK
<1>1. LogsInv => TypeOK
  BY DEF LogsInv, QueueOK, ScreenOK, CallsOK, CallOK, CallType, ButtonsOK, Buttons, Bulk, TaskType,
         TypeOK
<1>. QED
  BY <1>1, AlwaysLogsInv, PTL

\* A log that is pending has a task that will retry it, however tasks and
\* requests overwrite each other, unless its dispatch failed after the commit
\* or its task ended without a successor, and no task was queued for it since
\* (tasks/review_queue.py, tasks/retry.py, celery_app.py:28-31).
THEOREM PendingHasTaskHolds == Spec => []PendingHasTask
<1>1. LogsInv => PendingHasTask
  <2>. SUFFICES ASSUME LogsInv, NEW l \in Logs \ stranded, log[l].status = "pending"
                PROVE  queued[l] > 0 \/ Tasks(l) # {} \/ \E c \in calls : l \in c.left
    BY DEF PendingHasTask
  <2>1. ASSUME NEW w \in Workers, worker[w].log = l, Holds(worker[w])
        PROVE  Tasks(l) # {}
    BY <2>1 DEF Tasks, Holds
  <2>. QED
    BY <2>1 DEF LogsInv, Owned, Waits
<1>. QED
  BY <1>1, AlwaysLogsInv, PTL

-----------------------------------------------------------------------------
(***************************************************************************)
(* AttemptsBounded. A log that is not shared has one of these at a time: a *)
(* message, a task, or a request. What is still allowed to it is           *)
(* MaxRetries + 1 less its counter, as long as it has a message or a task; *)
(* whoever works on it knows the counter as it is.                         *)
(***************************************************************************)
Handles(c, l) == l \in DOMAIN c.snap \/ l \in c.left

Alone(l) ==
    /\ queued[l] <= 1
    /\ \A v, w \in Tasks(l) : v = w
    /\ \A c, d \in calls : Handles(c, l) /\ Handles(d, l) => c.no = d.no
    /\ queued[l] > 0 => Tasks(l) = {} /\ \A c \in calls : ~Handles(c, l)
    /\ Tasks(l) # {} => \A c \in calls : ~Handles(c, l)

Known(l) ==
    /\ \A w \in Tasks(l) : worker[w].phase = "loaded" => worker[w].snap = log[l]
    /\ \A c \in calls : l \in DOMAIN c.snap => c.snap[l] = log[l]
    /\ \A c \in calls : l \in c.left => log[l].count = 0

Allowed(l) == (MaxRetries + 1) * asked[l] + faults
Budget(l) ==
    /\ attempts[l] <= Allowed(l)
    /\ queued[l] > 0 \/ Tasks(l) # {} =>
          log[l].count <= MaxRetries /\ attempts[l] + MaxRetries + 1 <= Allowed(l) + log[l].count

Fair(l) == Alone(l) /\ Known(l) /\ Budget(l)
Bounded == \A l \in Logs \ shared : Fair(l)

LEMMA Numbers ==
    ASSUME QueueOK, NEW l \in Logs
    PROVE  /\ queued[l] \in Nat /\ attempts[l] \in Nat /\ asked[l] \in Nat /\ faults \in Nat
           /\ log[l] \in Row /\ log[l].count \in Nat /\ MaxRetries \in Nat
           /\ Allowed(l) \in Nat
<1>1. /\ queued[l] \in Nat /\ attempts[l] \in Nat /\ asked[l] \in Nat /\ faults \in Nat
      /\ log[l] \in Row /\ log[l].count \in Nat /\ MaxRetries \in Nat
  BY BoundsAssumption DEF QueueOK, Row
<1>2. ASSUME NEW a \in Nat, NEW b \in Nat
      PROVE  (a + 1) * b \in Nat
  OBVIOUS
<1>3. (MaxRetries + 1) * asked[l] \in Nat
  BY <1>1, <1>2
<1>. QED
  BY <1>1, <1>3 DEF Allowed

LEMMA AskedOnce ==
    ASSUME NEW a \in Nat
    PROVE  (MaxRetries + 1) * (a + 1) = (MaxRetries + 1) * a + MaxRetries + 1
BY BoundsAssumption

\* A step about other logs: it may end what a request has to do for l.
LEMMA Frame ==
    ASSUME QueueOK, QueueOK', NEW l \in Logs, Fair(l),
           log'[l] = log[l], queued'[l] = queued[l], attempts'[l] = attempts[l], asked'[l] = asked[l],
           faults' >= faults,
           Tasks(l)' = Tasks(l), \A w \in Tasks(l) : worker'[w] = worker[w],
           \A d \in calls' : Handles(d, l) =>
               \E c \in calls : /\ c.no = d.no
                                /\ l \in DOMAIN d.snap => l \in DOMAIN c.snap /\ c.snap[l] = d.snap[l]
                                /\ l \in d.left => l \in c.left
    PROVE  Fair(l)'
<1>1. Alone(l)'
  BY DEF Fair, Alone, Handles
<1>2. Known(l)'
  BY DEF Fair, Known, Handles
<1>3. Budget(l)'
  BY Numbers DEF Fair, Budget, Allowed, QueueOK
<1>. QED
  BY <1>1, <1>2, <1>3 DEF Fair

\* Steps of the page, and requests sent or answered.
LEMMA QuietFair ==
    ASSUME LogsInv, LogsInv', Bounded, faults' >= faults,
           UNCHANGED <<log, queued, worker, asked, attempts, shared>>,
           \A d \in calls' : \/ DOMAIN d.snap = {} /\ d.left = {}
                             \/ \E c \in calls : /\ c.no = d.no /\ c.snap = d.snap
                                                 /\ d.left \subseteq c.left
    PROVE  Bounded'
<1>. SUFFICES ASSUME NEW l \in Logs \ shared
              PROVE  Fair(l)'
  BY DEF Bounded
<1>1. Tasks(l)' = Tasks(l)
  BY DEF Tasks
<1>. QED
  BY <1>1, Frame DEF Bounded, LogsInv, Handles

\* A step of the task of worker w about its log.
LEMMA TaskFair ==
    ASSUME QueueOK, QueueOK', Bounded, NEW w \in Workers, NEW l \in Logs,
           shared \subseteq shared', faults' >= faults,
           \A x \in Workers \ {w} : worker'[x] = worker[x],
           worker[w].phase # "idle" => worker[w].log = l,
           worker'[w].phase # "idle" => worker'[w].log = l,
           \A m \in Logs \ {l} : log'[m] = log[m] /\ queued'[m] = queued[m]
                                 /\ attempts'[m] = attempts[m],
           UNCHANGED <<calls, asked>>,
           l \notin shared' => Fair(l)'
    PROVE  Bounded'
<1>. SUFFICES ASSUME NEW m \in Logs \ shared'
              PROVE  Fair(m)'
  BY DEF Bounded
<1>1. CASE m = l
  BY <1>1
<1>2. CASE m # l
  <2>1. Tasks(m)' = Tasks(m) /\ w \notin Tasks(m)
    BY <1>2 DEF Tasks
  <2>2. Fair(m)
    BY DEF Bounded
  <2>3. \A x \in Tasks(m) : worker'[x] = worker[x]
    BY <2>1 DEF Tasks
  <2>. QED
    BY <1>2, <2>1, <2>2, <2>3, Frame
<1>. QED
  BY <1>1, <1>2

LEMMA TakeFair ==
    ASSUME QueueOK, QueueOK', Bounded, NEW w \in Workers, NEW l \in Logs, Take(w, l)
    PROVE  Bounded'
<1>. DEFINE v == [log |-> l, phase |-> "loaded", snap |-> log[l]]
<1>1. /\ worker[w].phase = "idle" /\ queued[l] > 0
      /\ worker' = [worker EXCEPT ![w] = v]
      /\ queued' = [queued EXCEPT ![l] = @ - 1]
      /\ shared' = (IF Busy(l) \/ queued[l] > 1 THEN shared \cup {l} ELSE shared)
      /\ UNCHANGED <<log, calls, faults, asked, attempts>>
  BY DEF Take
<1>2. worker'[w] = v /\ \A x \in Workers \ {w} : worker'[x] = worker[x]
  BY <1>1 DEF QueueOK
<1>3. queued'[l] = queued[l] - 1 /\ \A m \in Logs \ {l} : queued'[m] = queued[m]
  BY <1>1 DEF QueueOK
<1>4. ASSUME l \notin shared'
      PROVE  Fair(l)'
  <2>1. l \notin shared /\ ~Busy(l) /\ queued[l] <= 1
    BY <1>1, <1>4, Numbers
  <2>2. Tasks(l) = {} /\ \A c \in calls : ~Handles(c, l)
    BY <2>1 DEF Busy, Handles
  <2>3. Tasks(l)' = {w}
    BY <1>2, <2>2 DEF Tasks
  <2>4. queued'[l] = 0 /\ Fair(l)
    BY <1>1, <1>3, <2>1, Numbers DEF Bounded
  <2>5. Alone(l)'
    BY <1>1, <2>2, <2>3, <2>4 DEF Alone, Handles
  <2>6. Known(l)'
    BY <1>1, <1>2, <2>2, <2>3 DEF Known, Handles
  <2>7. Budget(l)'
    BY <1>1, <2>4 DEF Fair, Budget, Allowed
  <2>. QED
    BY <2>5, <2>6, <2>7 DEF Fair
<1>5. faults' >= faults
  BY <1>1 DEF QueueOK
<1>6. worker'[w].log = l
  BY <1>2
<1>7. shared \subseteq shared' /\ UNCHANGED <<log, calls, asked, attempts>>
  BY <1>1
<1>. HIDE DEF v
<1>. QED
  BY <1>1, <1>2, <1>3, <1>4, <1>5, <1>6, <1>7, TaskFair

\* The task of worker w, alone on its log.
LEMMA OnlyTask ==
    ASSUME QueueOK, Bounded, NEW w \in Workers, worker[w].phase # "idle",
           NEW l \in Logs \ shared, worker[w].log = l
    PROVE  /\ Fair(l) /\ Tasks(l) = {w}
           /\ queued[l] = 0 /\ \A c \in calls : ~Handles(c, l)
<1>1. w \in Tasks(l) /\ Fair(l)
  BY DEF Tasks, Bounded
<1>2. Tasks(l) = {w}
  BY <1>1 DEF Fair, Alone
<1>. QED
  BY <1>1, <1>2, Numbers DEF Fair, Alone

\* A task that ends or goes on, with no message and at most one more attempt.
LEMMA EndFair ==
    ASSUME QueueOK, QueueOK', Bounded, NEW w \in Workers, NEW v, NEW l \in Logs,
           worker[w].phase # "idle", worker[w].log = l, worker' = [worker EXCEPT ![w] = v],
           v.phase = "idle" \/ (v.phase = "schedule" /\ v.log = l),
           UNCHANGED <<queued, calls, asked, shared>>, faults' >= faults,
           \A m \in Logs \ {l} : log'[m] = log[m] /\ attempts'[m] = attempts[m],
           l \notin shared =>
               /\ attempts'[l] <= Allowed(l)'
               /\ v.phase = "schedule" =>
                     /\ log'[l].count <= MaxRetries
                     /\ attempts'[l] + MaxRetries + 1 <= Allowed(l)' + log'[l].count
    PROVE  Bounded'
<1>1. worker'[w] = v /\ \A x \in Workers \ {w} : worker'[x] = worker[x]
  BY DEF QueueOK
<1>3. ASSUME l \notin shared
      PROVE  Fair(l)'
  <2>1. Fair(l) /\ Tasks(l) = {w} /\ queued[l] = 0 /\ \A c \in calls : ~Handles(c, l)
    BY <1>3, OnlyTask
  <2>2. Tasks(l)' \subseteq {w} /\ (v.phase = "idle" => Tasks(l)' = {})
    BY <1>1, <2>1 DEF Tasks
  <2>3. Alone(l)'
    BY <2>1, <2>2 DEF Alone, Handles
  <2>4. Known(l)'
    BY <1>1, <2>1, <2>2 DEF Known, Handles
  <2>5. Budget(l)'
    BY <1>3, <2>1, <2>2 DEF Budget
  <2>. QED
    BY <2>3, <2>4, <2>5 DEF Fair
<1>4. worker'[w].phase # "idle" => worker'[w].log = l
  BY <1>1
<1>5. \A m \in Logs \ {l} : log'[m] = log[m] /\ queued'[m] = queued[m] /\ attempts'[m] = attempts[m]
  OBVIOUS
<1>. QED
  BY <1>1, <1>3, <1>4, <1>5, TaskFair

\* As EndFair, for a task that ends.
LEMMA RestFair ==
    ASSUME QueueOK, QueueOK', Bounded, NEW w \in Workers, NEW l \in Logs,
           worker[w].phase # "idle", worker[w].log = l, worker' = Idle(w),
           UNCHANGED <<queued, calls, asked, shared>>, faults' >= faults,
           \A m \in Logs \ {l} : log'[m] = log[m] /\ attempts'[m] = attempts[m],
           l \notin shared => attempts'[l] <= Allowed(l)'
    PROVE  Bounded'
<1>1. Resting.phase = "idle"
  BY DEF Resting
<1>. QED
  BY <1>1, EndFair DEF Idle

LEMMA UnmappedFair ==
    ASSUME QueueOK, QueueOK', Bounded, NEW w \in Workers, Unmapped(w)
    PROVE  Bounded'
<1>. PICK l \in Logs : worker[w].log = l
  BY DEF QueueOK, TaskType
<1>1. worker[w].phase # "idle" /\ worker' = Idle(w)
  BY DEF Unmapped
<1>2. UNCHANGED <<queued, calls, asked, shared, attempts, faults>>
  BY DEF Unmapped
<1>3. \A m \in Logs \ {l} : log'[m] = log[m] /\ attempts'[m] = attempts[m]
  BY <1>2 DEF Unmapped, Set, QueueOK
<1>4. l \notin shared => attempts'[l] <= Allowed(l)'
  BY <1>2 DEF Bounded, Fair, Budget, Allowed
<1>5. faults' >= faults /\ UNCHANGED <<queued, calls, asked, shared>>
  BY <1>2 DEF QueueOK
<1>. QED
  BY <1>1, <1>3, <1>4, <1>5, RestFair

LEMMA AttemptFair ==
    ASSUME QueueOK, QueueOK', Bounded, NEW w \in Workers, Attempt(w)
    PROVE  Bounded'
<1>. PICK l \in Logs, snap \in Row : worker[w].log = l /\ worker[w].snap = snap
  BY DEF QueueOK, TaskType
<1>. DEFINE count == snap.count + 1
            going == [worker[w] EXCEPT !.phase = "schedule"]
            again == [status |-> "pending", count |-> count]
<1>1. worker[w] \in TaskType /\ worker[w].phase = "loaded" /\ count \in Nat
  BY DEF QueueOK, TaskType, Attempt, Row
<1>2. attempts'[l] = attempts[l] + 1 /\ \A m \in Logs \ {l} : attempts'[m] = attempts[m]
  BY DEF Attempt, QueueOK
<1>3. \A m \in Logs \ {l} : log'[m] = log[m]
  BY DEF Attempt, Set, QueueOK
<1>4. UNCHANGED <<queued, calls, asked, faults, shared>> /\ faults' >= faults
  BY DEF Attempt, QueueOK
<1>5. Allowed(l)' = Allowed(l)
  BY <1>4 DEF Allowed
<1>6. ASSUME l \notin shared
      PROVE  /\ log[l].count <= MaxRetries
             /\ attempts[l] + MaxRetries + 1 <= Allowed(l) + log[l].count
             /\ snap = log[l]
             /\ attempts'[l] <= Allowed(l)'
  <2>1. Fair(l) /\ Tasks(l) = {w}
    BY <1>1, <1>6, OnlyTask
  <2>2. log[l].count <= MaxRetries /\ attempts[l] + MaxRetries + 1 <= Allowed(l) + log[l].count
    BY <2>1 DEF Fair, Budget
  <2>3. snap = log[l]
    BY <1>1, <2>1 DEF Fair, Known
  <2>. QED
    BY <1>2, <1>5, <2>2, <2>3, Numbers
<1>7. CASE worker' = Idle(w)
  <2>1. worker[w].phase # "idle"
    BY <1>1
  <2>2. l \notin shared => attempts'[l] <= Allowed(l)'
    BY <1>6
  <2>3. UNCHANGED <<queued, calls, asked, shared>>
    BY <1>4
  <2>. HIDE DEF count, going, again
  <2>. QED
    BY <1>2, <1>3, <1>4, <1>7, <2>1, <2>2, <2>3, RestFair
<1>8. CASE /\ ~Exhausted(count) /\ Set(l, snap, again)
           /\ worker' = [worker EXCEPT ![w] = going]
  <2>1. going.phase = "schedule" /\ going.log = l
    BY <1>1 DEF TaskType
  <2>2. again \in Row /\ again.count = count
    BY <1>1 DEF Row, Statuses
  <2>3. log'[l] = Write(log[l], snap, again)
    BY <1>8 DEF Set, QueueOK
  <2>4. Write(log[l], snap, again).count = IF again.count # snap.count THEN again.count ELSE log[l].count
    BY <2>2, Numbers DEF Write, Row
  <2>5. log'[l].count = count
    BY <2>2, <2>3, <2>4 DEF Row
  <2>6. l \notin shared => log'[l].count <= MaxRetries
                           /\ attempts'[l] + MaxRetries + 1 <= Allowed(l)' + log'[l].count
    <3>. SUFFICES ASSUME l \notin shared
                  PROVE  log'[l].count <= MaxRetries
                         /\ attempts'[l] + MaxRetries + 1 <= Allowed(l)' + log'[l].count
      OBVIOUS
    <3>1. count = log[l].count + 1 /\ count <= MaxRetries
      BY <1>1, <1>6, <1>8, Numbers DEF Exhausted
    <3>. QED
      BY <1>2, <1>5, <1>6, <2>5, <3>1, Numbers
  <2>7. UNCHANGED <<queued, calls, asked, shared>> /\ worker[w].phase # "idle"
    BY <1>1, <1>4
  <2>8. l \notin shared => attempts'[l] <= Allowed(l)'
    BY <1>6
  <2>9. worker' = [worker EXCEPT ![w] = going]
    BY <1>8
  <2>. HIDE DEF count, going, again
  <2>. QED
    BY <1>2, <1>3, <1>4, <2>1, <2>6, <2>7, <2>8, <2>9, EndFair
<1>. QED
  BY <1>7, <1>8 DEF Attempt, Idle
\* A message is queued by the task that ends, or delivered again.
LEMMA PutFair ==
    ASSUME QueueOK, QueueOK', Bounded, NEW w \in Workers, ScheduleRetry(w) \/ Crash(w)
    PROVE  Bounded'
<1>. PICK l \in Logs : worker[w].log = l
  BY DEF QueueOK, TaskType
<1>1. /\ worker[w].phase # "idle" /\ worker' = [worker EXCEPT ![w] = Resting]
      /\ queued' = [queued EXCEPT ![l] = @ + 1]
      /\ UNCHANGED <<log, calls, asked, shared>>
  BY DEF ScheduleRetry, Crash, Queue, Idle
<1>2. worker'[w].phase = "idle" /\ \A x \in Workers \ {w} : worker'[x] = worker[x]
  BY <1>1 DEF QueueOK, Resting
<1>3. queued'[l] = queued[l] + 1 /\ \A m \in Logs \ {l} : queued'[m] = queued[m]
  BY <1>1 DEF QueueOK
<1>4. /\ faults' \in Nat /\ faults \in Nat /\ faults' >= faults
      /\ attempts'[l] <= attempts[l] + (faults' - faults)
      /\ \A m \in Logs \ {l} : attempts'[m] = attempts[m]
  BY DEF ScheduleRetry, Crash, HalfDone, Fault, QueueOK
<1>5. ASSUME l \notin shared
      PROVE  Fair(l)'
  <2>1. Fair(l) /\ Tasks(l) = {w} /\ queued[l] = 0 /\ \A c \in calls : ~Handles(c, l)
    BY <1>1, <1>5, OnlyTask
  <2>2. Tasks(l)' = {} /\ queued'[l] = 1
    BY <1>2, <1>3, <2>1 DEF Tasks
  <2>3. Alone(l)'
    BY <1>1, <2>1, <2>2 DEF Alone, Handles
  <2>4. Known(l)'
    BY <1>1, <2>1, <2>2 DEF Known, Handles
  <2>5. Allowed(l) \in Nat /\ Allowed(l)' = Allowed(l) + (faults' - faults)
    <3>. DEFINE p == (MaxRetries + 1) * asked[l]
    <3>1. Allowed(l) = p + faults /\ Allowed(l)' = p + faults'
      BY <1>1 DEF Allowed
    <3>2. p \in Nat
      BY Numbers, BoundsAssumption
    <3>. HIDE DEF p
    <3>. QED
      BY <1>4, <3>1, <3>2
  <2>6. /\ log[l].count <= MaxRetries /\ attempts[l] <= Allowed(l)
        /\ attempts[l] + MaxRetries + 1 <= Allowed(l) + log[l].count
    BY <2>1 DEF Fair, Budget
  <2>7. attempts'[l] \in Nat /\ log'[l] = log[l]
    BY <1>1 DEF QueueOK
  <2>8. Budget(l)'
    BY <1>4, <2>2, <2>5, <2>6, <2>7, Numbers DEF Budget
  <2>. QED
    BY <2>3, <2>4, <2>8 DEF Fair
<1>6. \A m \in Logs \ {l} : log'[m] = log[m] /\ queued'[m] = queued[m] /\ attempts'[m] = attempts[m]
  BY <1>1, <1>3, <1>4
<1>. QED
  BY <1>1, <1>2, <1>4, <1>5, <1>6, TaskFair

LEMMA EndsFair ==
    ASSUME QueueOK, QueueOK', Bounded, NEW w \in Workers,
           ScheduleFails(w) \/ Kill(w) \/ DatabaseFails(w)
    PROVE  Bounded'
<1>. PICK l \in Logs : worker[w].log = l
  BY DEF QueueOK, TaskType
<1>1. /\ worker[w].phase # "idle" /\ worker' = Idle(w) /\ faults' = faults + 1
      /\ UNCHANGED <<log, queued, calls, asked, shared>>
  BY DEF ScheduleFails, Kill, DatabaseFails, Ends, Fault
<1>2. /\ faults \in Nat /\ faults' >= faults
      /\ attempts[l] \in Nat /\ attempts'[l] <= attempts[l] + 1 /\ attempts'[l] \in Nat
      /\ \A m \in Logs \ {l} : attempts'[m] = attempts[m]
  BY <1>1 DEF ScheduleFails, Kill, DatabaseFails, HalfDone, QueueOK
<1>3. \A m \in Logs \ {l} : log'[m] = log[m] /\ attempts'[m] = attempts[m]
  BY <1>1, <1>2
<1>4. ASSUME l \notin shared
      PROVE  attempts'[l] <= Allowed(l)'
  <2>1. attempts[l] <= Allowed(l)
    BY <1>4 DEF Bounded, Fair, Budget
  <2>. DEFINE p == (MaxRetries + 1) * asked[l]
  <2>2. Allowed(l) = p + faults /\ Allowed(l)' = p + (faults + 1)
    BY <1>1 DEF Allowed
  <2>3. p \in Nat
    BY Numbers, BoundsAssumption
  <2>. HIDE DEF p
  <2>. QED
    BY <1>2, <2>1, <2>2, <2>3
<1>. QED
  BY <1>1, <1>2, <1>3, <1>4, RestFair

\* What the requests keep to: each has a number of its own.
LEMMA Numbered ==
    ASSUME LogsInv, NEW c \in calls
    PROVE  /\ CallOK(c) /\ c \in CallType /\ c.logs \in SUBSET Logs
           /\ \A d \in calls : d.no = c.no => d = c
BY DEF LogsInv, CallsOK, CallOK, CallType

LEMMA LoadFair ==
    ASSUME LogsInv, LogsInv', Bounded, NEW c \in calls, Load(c)
    PROVE  Bounded'
<1>1. PICK found \in SUBSET c.logs :
        /\ Become(c, [c EXCEPT !.phase = "loaded", !.snap = [l \in found |-> log[l]]])
        /\ shared' = shared \cup {l \in found : Busy(l) \/ queued[l] > 0}
  BY DEF Load
<1>. DEFINE s == [l \in found |-> log[l]]
            d == [c EXCEPT !.phase = "loaded", !.snap = s]
<1>2. /\ c \in CallType /\ c.left = {} /\ found \subseteq Logs
      /\ \A x \in calls : x.no = c.no => x = c
  BY Numbered DEF CallOK, Load
<1>3. d.no = c.no /\ d.left = {} /\ DOMAIN d.snap = found /\ \A l \in found : d.snap[l] = log[l]
  BY <1>2 DEF CallType
<1>4. calls' = (calls \ {c}) \cup {d} /\ UNCHANGED <<log, queued, worker, faults, asked, attempts>>
  BY <1>1 DEF Become, Load
<1>. HIDE DEF d
<1>. SUFFICES ASSUME NEW l \in Logs \ shared'
              PROVE  Fair(l)'
  BY DEF Bounded
<1>5. Fair(l) /\ Tasks(l)' = Tasks(l) /\ \A w \in Tasks(l) : worker'[w] = worker[w]
  BY <1>1, <1>4 DEF Bounded, Tasks
<1>6. CASE l \notin found
  <2>1. \A x \in calls' : Handles(x, l) =>
            \E y \in calls : /\ y.no = x.no
                             /\ l \in DOMAIN x.snap => l \in DOMAIN y.snap /\ y.snap[l] = x.snap[l]
                             /\ l \in x.left => l \in y.left
    BY <1>3, <1>4, <1>6 DEF Handles
  <2>2. faults' >= faults
    BY <1>4 DEF LogsInv, QueueOK
  <2>. QED
    BY <1>4, <1>5, <2>1, <2>2, Frame DEF LogsInv
<1>7. CASE l \in found
  <2>1. ~Busy(l) /\ ~(queued[l] > 0)
    BY <1>1, <1>7
  <2>2. Tasks(l) = {} /\ \A x \in calls : ~Handles(x, l)
    BY <2>1 DEF Busy, Handles
  <2>3. \A x \in calls' : Handles(x, l) => x = d
    BY <1>4, <2>2 DEF Handles
  <2>4. Alone(l)'
    BY <1>4, <1>5, <2>1, <2>2, <2>3 DEF Fair, Alone
  <2>5. Known(l)'
    BY <1>3, <1>4, <1>5, <1>7, <2>2, <2>3 DEF Known, Handles
  <2>6. Budget(l)'
    BY <1>4, <1>5 DEF Fair, Budget, Allowed
  <2>. QED
    BY <2>4, <2>5, <2>6 DEF Fair
<1>. QED
  BY <1>6, <1>7

LEMMA CommitFair ==
    ASSUME LogsInv, LogsInv', Bounded, NEW c \in calls, Commit(c)
    PROVE  Bounded'
<1>. DEFINE new(l) == IF c.kind = "dismiss" THEN [c.snap[l] EXCEPT !.status = "dismissed"]
                      ELSE [status |-> "pending", count |-> 0]
            left == IF c.kind = "dismiss" THEN {} ELSE DOMAIN c.snap
            d == [c EXCEPT !.phase = "committed", !.snap = NoRows, !.left = left]
<1>1. /\ log' = [l \in Logs |-> IF l \in DOMAIN c.snap THEN Write(log[l], c.snap[l], new(l)) ELSE log[l]]
      /\ calls' = (calls \ {c}) \cup {d}
      /\ UNCHANGED <<queued, worker, faults, asked, attempts, shared>>
  BY DEF Commit, Become
<1>2. /\ c \in CallType /\ c.left = {} /\ c.snap \in Rows
      /\ \A x \in calls : x.no = c.no => x = c
  BY Numbered DEF CallOK, Commit, CallType
<1>3. d.no = c.no /\ d.left = left /\ DOMAIN d.snap = {}
  BY <1>2, NoRowsTyped DEF CallType
<1>. HIDE DEF d
<1>. SUFFICES ASSUME NEW l \in Logs \ shared'
              PROVE  Fair(l)'
  BY DEF Bounded
<1>4. Fair(l) /\ Tasks(l)' = Tasks(l) /\ \A w \in Tasks(l) : worker'[w] = worker[w]
  BY <1>1 DEF Bounded, Tasks
<1>5. CASE l \notin DOMAIN c.snap
  <2>1. \A x \in calls' : Handles(x, l) =>
            \E y \in calls : /\ y.no = x.no
                             /\ l \in DOMAIN x.snap => l \in DOMAIN y.snap /\ y.snap[l] = x.snap[l]
                             /\ l \in x.left => l \in y.left
    BY <1>1, <1>3, <1>5 DEF Handles
  <2>2. faults' >= faults /\ log'[l] = log[l]
    BY <1>1, <1>5 DEF LogsInv, QueueOK
  <2>. QED
    BY <1>1, <1>4, <2>1, <2>2, Frame DEF LogsInv
<1>6. CASE l \in DOMAIN c.snap
  <2>1. Handles(c, l)
    BY <1>6 DEF Handles
  <2>2. Tasks(l) = {} /\ queued[l] = 0
    BY <1>4, <2>1, Numbers DEF Fair, Alone, LogsInv
  <2>3. \A x \in calls : Handles(x, l) => x = c
    BY <1>2, <1>4, <2>1 DEF Fair, Alone
  <2>4. c.snap[l] = log[l] /\ log[l] \in Row
    BY <1>4, <1>6, Numbers DEF Fair, Known, LogsInv
  <2>5. \A x \in calls' : Handles(x, l) => x = d
    BY <1>1, <2>3 DEF Handles
  <2>6. log'[l] = new(l)
    <3>1. log'[l] = Write(log[l], log[l], new(l))
      BY <1>1, <1>6, <2>4
    <3>2. new(l) \in Row
      BY <2>4 DEF Row, Statuses
    <3>. HIDE DEF new
    <3>. QED
      BY <2>4, <3>1, <3>2 DEF Write, Row
  <2>7. l \in left => log'[l].count = 0
    BY <2>6
  <2>8. Alone(l)'
    BY <1>1, <1>4, <2>2, <2>5 DEF Alone
  <2>9. Known(l)'
    BY <1>3, <1>4, <2>2, <2>5, <2>7 DEF Known, Handles
  <2>10. Budget(l)'
    BY <1>1, <1>4, <2>2 DEF Fair, Budget, Allowed
  <2>. QED
    BY <2>8, <2>9, <2>10 DEF Fair
<1>. QED
  BY <1>5, <1>6

LEMMA DispatchFair ==
    ASSUME LogsInv, LogsInv', Bounded, NEW c \in calls, Dispatch(c)
    PROVE  Bounded'
<1>1. PICK k \in c.left :
        /\ queued' = [queued EXCEPT ![k] = @ + 1]
        /\ asked' = [asked EXCEPT ![k] = @ + 1]
        /\ Become(c, [c EXCEPT !.left = @ \ {k}])
  BY DEF Dispatch, Queue
<1>. DEFINE d == [c EXCEPT !.left = @ \ {k}]
<1>2. /\ c \in CallType /\ k \in Logs /\ DOMAIN c.snap = {}
      /\ \A x \in calls : x.no = c.no => x = c
  BY Numbered DEF CallOK, Dispatch, CallType
<1>3. d.no = c.no /\ d.left = c.left \ {k} /\ d.snap = c.snap
  BY <1>2 DEF CallType
<1>4. calls' = (calls \ {c}) \cup {d} /\ UNCHANGED <<log, worker, faults, attempts, shared>>
  BY <1>1 DEF Become, Dispatch
<1>. HIDE DEF d
<1>. SUFFICES ASSUME NEW l \in Logs \ shared'
              PROVE  Fair(l)'
  BY DEF Bounded
<1>5. Fair(l) /\ Tasks(l)' = Tasks(l) /\ \A w \in Tasks(l) : worker'[w] = worker[w]
  BY <1>4 DEF Bounded, Tasks
<1>6. CASE l # k
  <2>1. \A x \in calls' : Handles(x, l) =>
            \E y \in calls : /\ y.no = x.no
                             /\ l \in DOMAIN x.snap => l \in DOMAIN y.snap /\ y.snap[l] = x.snap[l]
                             /\ l \in x.left => l \in y.left
    BY <1>3, <1>4, <1>6 DEF Handles
  <2>2. faults' >= faults /\ queued'[l] = queued[l] /\ asked'[l] = asked[l]
    BY <1>1, <1>4, <1>6 DEF LogsInv, QueueOK
  <2>. QED
    BY <1>4, <1>5, <2>1, <2>2, Frame DEF LogsInv
<1>7. CASE l = k
  <2>1. Handles(c, l)
    BY <1>7 DEF Handles
  <2>2. Tasks(l) = {} /\ queued[l] = 0
    BY <1>5, <2>1, Numbers DEF Fair, Alone, LogsInv
  <2>3. \A x \in calls : Handles(x, l) => x = c
    BY <1>2, <1>5, <2>1 DEF Fair, Alone
  <2>4. \A x \in calls' : ~Handles(x, l)
    BY <1>2, <1>3, <1>4, <1>7, <2>3 DEF Handles
  <2>5. queued'[l] = 1 /\ asked'[l] = asked[l] + 1
    BY <1>1, <1>7, <2>2 DEF LogsInv, QueueOK
  <2>6. log[l].count = 0
    BY <1>5, <1>7 DEF Fair, Known
  <2>7. Alone(l)'
    BY <1>5, <2>2, <2>4, <2>5 DEF Alone
  <2>8. Known(l)'
    BY <1>5, <2>2, <2>4 DEF Known, Handles
  <2>9. Allowed(l)' = Allowed(l) + MaxRetries + 1
    <3>. DEFINE p == (MaxRetries + 1) * asked[l]
    <3>1. (MaxRetries + 1) * asked'[l] = p + MaxRetries + 1
      BY <2>5, AskedOnce, Numbers DEF LogsInv
    <3>2. p \in Nat /\ faults \in Nat /\ MaxRetries \in Nat
      BY Numbers, BoundsAssumption DEF LogsInv
    <3>. HIDE DEF p
    <3>3. Allowed(l) = p + faults /\ Allowed(l)' = p + MaxRetries + 1 + faults
      BY <1>4, <3>1 DEF Allowed, p
    <3>. QED
      BY <3>2, <3>3
  <2>10. attempts[l] <= Allowed(l)
    BY <1>5 DEF Fair, Budget
  <2>11. attempts'[l] = attempts[l] /\ log'[l].count = 0
    BY <1>4, <2>6
  <2>12. Budget(l)'
    BY <2>9, <2>10, <2>11, Numbers DEF LogsInv, Budget
  <2>. QED
    BY <2>7, <2>8, <2>12 DEF Fair
<1>. QED
  BY <1>6, <1>7

\* The steps of the page, and a dispatch or a request that fails.
LEMMA PageFair ==
    ASSUME LogsInv, LogsInv', Bounded,
           \/ \E t \in {"executions", "review"} : OpenTab(t)
           \/ Refresh \/ ListServed \/ ListArrives \/ RetryAll \/ Other
           \/ \E kind \in {"retry", "dismiss"}, l \in Logs : Press(kind, l)
           \/ \E c \in calls : Answered(c) \/ AnswerLost(c) \/ Dropped(c) \/ DispatchFails(c)
                              \/ RequestFails(c)
    PROVE  Bounded'
<1>. DEFINE Same == UNCHANGED <<log, queued, worker, asked, attempts, shared>> /\ faults' >= faults
            Goes(d) == \/ DOMAIN d.snap = {} /\ d.left = {}
                       \/ \E c \in calls : c.no = d.no /\ c.snap = d.snap /\ d.left \subseteq c.left
<1>1. faults' = faults => faults' >= faults
  BY DEF LogsInv, QueueOK
<1>2. \A x \in calls : Goes(x)
  OBVIOUS
<1>3. ASSUME UNCHANGED queueVars
      PROVE  Bounded'
  BY <1>1, <1>3, QuietFair DEF queueVars
<1>4. CASE (\E t \in {"executions", "review"} : OpenTab(t)) \/ Refresh \/ ListServed \/ ListArrives
  BY <1>3, <1>4 DEF OpenTab, Refresh, ListServed, ListArrives
<1>5. ASSUME NEW kind, NEW logs, NEW page, Send(kind, logs, page),
             UNCHANGED <<log, queued, worker, faults, asked, attempts, shared>>
      PROVE  Bounded'
  <2>. DEFINE d == [no |-> sent + 1, kind |-> kind, logs |-> logs, page |-> page,
                    snap |-> NoRows, left |-> {}, phase |-> "sent"]
  <2>1. DOMAIN d.snap = {} /\ d.left = {}
    BY NoRowsTyped
  <2>2. calls' = calls \cup {d}
    BY <1>5 DEF Send
  <2>. HIDE DEF d
  <2>3. \A x \in calls' : Goes(x)
    BY <1>2, <2>1, <2>2
  <2>. QED
    BY <1>1, <1>5, <2>3, QuietFair
<1>6. CASE Other \/ \E kind \in {"retry", "dismiss"}, l \in Logs : Press(kind, l)
  BY <1>5, <1>6 DEF Other, Press
<1>7. CASE RetryAll
  <2>1. /\ UNCHANGED <<log, queued, worker, faults, asked, attempts, shared>>
        /\ \A x \in calls' : x \in calls \/ (DOMAIN x.snap = {} /\ x.left = {})
    BY <1>7, NoRowsTyped DEF RetryAll
  <2>2. \A x \in calls' : Goes(x)
    BY <1>2, <2>1
  <2>. QED
    BY <1>1, <2>1, <2>2, QuietFair
<1>8. ASSUME NEW c \in calls, Answered(c) \/ Dropped(c)
      PROVE  Bounded'
  <2>1. /\ UNCHANGED <<log, queued, worker, faults, asked, attempts, shared>>
        /\ calls' = calls \ {c}
    BY <1>8 DEF Answered, Settled, Dropped
  <2>2. \A x \in calls' : Goes(x)
    BY <1>2, <2>1
  <2>. QED
    BY <1>1, <2>1, <2>2, QuietFair
<1>9. ASSUME NEW c \in calls, NEW d, d.no = c.no, d.snap = c.snap, d.left \subseteq c.left,
             Become(c, d), Same
      PROVE  Bounded'
  <2>1. \A x \in calls' : Goes(x)
    BY <1>2, <1>9 DEF Become
  <2>. QED
    BY <1>9, <2>1, QuietFair
<1>10. ASSUME NEW c \in calls, AnswerLost(c)
       PROVE  Bounded'
  <2>. DEFINE d == [c EXCEPT !.page = "none"]
  <2>1. d.no = c.no /\ d.snap = c.snap /\ d.left \subseteq c.left
    BY Numbered DEF CallType
  <2>2. Become(c, d) /\ UNCHANGED <<log, queued, worker, asked, attempts, shared>>
    BY <1>10 DEF AnswerLost, Settled
  <2>3. faults' >= faults
    BY <1>10 DEF AnswerLost, Fault, LogsInv, QueueOK
  <2>. HIDE DEF d
  <2>. QED
    BY <1>9, <2>1, <2>2, <2>3
<1>11. ASSUME NEW c \in calls, DispatchFails(c)
       PROVE  Bounded'
  <2>. DEFINE d == [c EXCEPT !.left = {}]
  <2>1. d.no = c.no /\ d.snap = c.snap /\ d.left \subseteq c.left
    BY Numbered DEF CallType
  <2>2. Become(c, d) /\ UNCHANGED <<log, queued, worker, asked, attempts, shared>>
    BY <1>11 DEF DispatchFails
  <2>3. faults' >= faults
    BY <1>11 DEF DispatchFails, Fault, LogsInv, QueueOK
  <2>. HIDE DEF d
  <2>. QED
    BY <1>9, <2>1, <2>2, <2>3
<1>12. ASSUME NEW c \in calls, RequestFails(c)
       PROVE  Bounded'
  <2>. DEFINE d == [c EXCEPT !.phase = "committed", !.snap = NoRows]
  <2>0. /\ c.phase # "committed" /\ Become(c, d) /\ faults' = faults + 1
        /\ UNCHANGED <<log, queued, worker, asked, attempts, shared>>
    BY <1>12 DEF RequestFails, Fault
  <2>1. DOMAIN d.snap = {} /\ d.left = {}
    <3>1. CallOK(c) /\ c \in CallType
      BY Numbered
    <3>. QED
      BY <2>0, <3>1, NoRowsTyped DEF CallOK, CallType
  <2>2. calls' = (calls \ {c}) \cup {d} /\ UNCHANGED <<log, queued, worker, asked, attempts, shared>>
    BY <2>0 DEF Become
  <2>3. faults' >= faults
    <3>1. faults \in Nat
      BY DEF LogsInv, QueueOK
    <3>. QED
      BY <2>0, <3>1
  <2>. HIDE DEF d
  <2>4. \A x \in calls' : Goes(x)
    BY <1>2, <2>1, <2>2
  <2>. QED
    BY <2>2, <2>3, <2>4, QuietFair
<1>. QED
  BY <1>4, <1>6, <1>7, <1>8, <1>10, <1>11, <1>12

LEMMA InitBounded == Init => Bounded
<1>. SUFFICES ASSUME Init, NEW l \in Logs
              PROVE  Fair(l)
  BY DEF Bounded
<1>1. queued[l] = 0 /\ Tasks(l) = {} /\ calls = {} /\ attempts[l] = 0
  BY DEF Init, QueueInit, Tasks, Resting
<1>2. Allowed(l) \in Nat
  BY InitInv, Numbers DEF LogsInv
<1>. QED
  BY <1>1, <1>2 DEF Fair, Alone, Known, Budget

LEMMA NextBounded == LogsInv /\ LogsInv' /\ Bounded /\ [Next]_vars => Bounded'
<1>. SUFFICES ASSUME LogsInv, LogsInv', Bounded, [Next]_vars
              PROVE  Bounded'
  OBVIOUS
<1>1. CASE UNCHANGED vars
  <2>1. UNCHANGED <<log, queued, worker, calls, faults, asked, attempts, shared>>
    BY <1>1 DEF vars, queueVars
  <2>2. faults' >= faults
    BY <2>1 DEF LogsInv, QueueOK
  <2>. QED
    BY <2>1, <2>2, QuietFair
<1>2. ASSUME NEW c \in calls, Server(c)
      PROVE  Bounded'
  BY <1>2, LoadFair, CommitFair, DispatchFair, PageFair DEF Server, Serve
<1>3. ASSUME NEW w \in Workers, Task(w)
      PROVE  Bounded'
  <2>1. QueueOK /\ QueueOK'
    BY DEF LogsInv
  <2>. QED
    BY <1>3, <2>1, TakeFair, UnmappedFair, AttemptFair, PutFair, EndsFair DEF Task
<1>. QED
  BY <1>1, <1>2, <1>3, PageFair DEF Next

\* The sync of an item is attempted once and MaxRetries times more for each
\* time a user asked for it, and again for each task that ended early, unless two
\* tasks or requests worked on it at a time (retry_single_item).
THEOREM AttemptsBoundedHolds == Spec => []AttemptsBounded
<1>1. Bounded => AttemptsBounded
  BY DEF Bounded, AttemptsBounded, Fair, Budget, Allowed
<1>2. LogsInv /\ Bounded /\ [Next]_vars => (LogsInv /\ Bounded)'
  BY NextInv, NextBounded
<1>3. Init => LogsInv /\ Bounded
  BY InitInv, InitBounded
<1>. QED
  BY <1>1, <1>2, <1>3, PTL DEF Spec

-----------------------------------------------------------------------------
(***************************************************************************)
(* NotLeftOnScreen. A log that is not shared is pending for as long as     *)
(* something is to be done about it, so that it is a request that takes a  *)
(* log that has failed out of that status: one of the page, which waits    *)
(* for it, or one that counts as unseen.                                   *)
(***************************************************************************)
Due(l) == queued[l] > 0 \/ Tasks(l) # {} \/ \E c \in calls : l \in c.left
DuePending == \A l \in Logs \ shared : Due(l) => log[l].status = "pending"

OthersUnseen == \A c \in calls : c.page = "none" => c.logs \subseteq unseen

Failing(l) == log[l].status = "failed_permanent"
OnPage(l) == bulk # {} \/ \E c \in calls : c.page = "row" /\ l \in c.logs

Excused(l) == Failing(l) \/ OnPage(l)
Right(list) == \A l \in list \ (unseen \cup shared) : Excused(l)

\* A stale list is asked for again when its tab is opened.
Outdated == stale /\ tab # "review"

ScreenInv ==
    /\ fetch = "served" => Right(bringing)
    /\ fetch = "idle" => Outdated \/ Right(items)

TidyInv == DuePending /\ OthersUnseen /\ ScreenInv

\* A step that leaves m alone, or takes away what is to be done about it.
LEMMA DueFrame ==
    ASSUME DuePending, shared \subseteq shared', NEW m \in Logs \ shared',
           log'[m] = log[m], Due(m)' => Due(m)
    PROVE  Due(m)' => log'[m].status = "pending"
BY DEF DuePending

\* A task works on a pending log, and may leave it pending only when it goes on.
LEMMA TaskDue ==
    ASSUME QueueOK, QueueOK', Bounded, DuePending, NEW w \in Workers, Task(w)
    PROVE  /\ DuePending'
           /\ \A m \in Logs \ shared' : Failing(m) => log'[m] = log[m]
<1>1. ASSUME NEW l \in Logs, Take(w, l)
      PROVE  /\ DuePending'
             /\ \A m \in Logs \ shared' : Failing(m) => log'[m] = log[m]
  <2>1. UNCHANGED <<log, calls>> /\ shared \subseteq shared' /\ queued[l] > 0
    BY <1>1 DEF Take
  <2>2. \A m \in Logs \ {l} : queued'[m] = queued[m]
    BY <1>1 DEF Take, QueueOK
  <2>3. \A m \in Logs \ {l} : Tasks(m)' \subseteq Tasks(m)
    BY <1>1 DEF Take, QueueOK, Tasks
  <2>4. \A m \in Logs : Due(m)' => Due(m)
    BY <2>1, <2>2, <2>3 DEF Due
  <2>. QED
    BY <2>1, <2>4 DEF DuePending
<1>. PICK l \in Logs : worker[w].log = l
  BY DEF QueueOK, TaskType
<1>2. ASSUME worker[w].phase # "idle", UNCHANGED <<calls, shared>>,
             \A x \in Workers \ {w} : worker'[x] = worker[x],
             worker'[w].phase # "idle" => worker'[w].log = l,
             \A m \in Logs \ {l} : log'[m] = log[m] /\ queued'[m] = queued[m],
             l \notin shared =>
                 \/ log'[l] = log[l] \/ log'[l].status = "pending"
                 \/ queued'[l] = queued[l] /\ worker'[w].phase = "idle"
      PROVE  /\ DuePending'
             /\ \A m \in Logs \ shared' : Failing(m) => log'[m] = log[m]
  <2>1. ASSUME NEW m \in Logs \ shared', m # l
        PROVE  Due(m)' => log'[m].status = "pending"
    <3>1. Tasks(m)' \subseteq Tasks(m)
      BY <1>2, <2>1 DEF Tasks
    <3>. QED
      BY <1>2, <2>1, <3>1, DueFrame DEF Due
  <2>2. ASSUME l \notin shared
        PROVE  /\ Tasks(l) = {w} /\ queued[l] = 0 /\ \A c \in calls : l \notin c.left
               /\ log[l].status = "pending"
    <3>1. Tasks(l) = {w} /\ queued[l] = 0 /\ \A c \in calls : ~Handles(c, l)
      BY <1>2, <2>2, OnlyTask
    <3>. QED
      BY <2>2, <3>1 DEF DuePending, Due, Handles
  <2>3. ASSUME l \notin shared', Due(l)'
        PROVE  log'[l].status = "pending"
    <3>1. CASE queued'[l] = queued[l] /\ worker'[w].phase = "idle"
      <4>1. Tasks(l)' = {}
        BY <1>2, <2>2, <2>3, <3>1 DEF Tasks
      <4>. QED
        BY <1>2, <2>2, <2>3, <3>1, <4>1 DEF Due
    <3>. QED
      BY <1>2, <2>2, <2>3, <3>1
  <2>. QED
    BY <1>2, <2>1, <2>2, <2>3 DEF DuePending, Failing
<1>3. worker' = Idle(w) => worker'[w].phase = "idle" /\ \A x \in Workers \ {w} : worker'[x] = worker[x]
  BY DEF Idle, Resting, QueueOK
<1>4. CASE Unmapped(w)
  <2>1. /\ worker[w].phase # "idle" /\ worker' = Idle(w) /\ UNCHANGED <<queued, calls, shared>>
        /\ \A m \in Logs \ {l} : log'[m] = log[m]
    BY <1>4 DEF Unmapped, Set, QueueOK
  <2>. QED
    BY <1>2, <1>3, <2>1
<1>5. CASE Attempt(w)
  <2>1. /\ worker[w].phase = "loaded" /\ UNCHANGED <<queued, calls, shared>>
        /\ \A m \in Logs \ {l} : log'[m] = log[m]
    BY <1>5 DEF Attempt, Set, QueueOK
  <2>2. CASE worker' = Idle(w)
    BY <1>2, <1>3, <2>1, <2>2
  <2>3. CASE worker' = [worker EXCEPT ![w].phase = "schedule"]
    <3>. PICK snap \in Row : worker[w].snap = snap
      BY DEF QueueOK, TaskType
    <3>. DEFINE again == [status |-> "pending", count |-> snap.count + 1]
    <3>1. worker[w] \in TaskType
      BY DEF QueueOK
    <3>2. worker'[w].phase = "schedule" /\ worker'[w].log = l
      BY <2>3, <3>1 DEF QueueOK, TaskType
    <3>3. Set(l, snap, again)
      BY <1>3, <1>5, <3>2 DEF Attempt
    <3>4. log[l] \in Row /\ again \in Row
      BY DEF QueueOK, Row, Statuses
    <3>5. log'[l].status = IF again.status # snap.status THEN again.status ELSE log[l].status
      <4>1. log'[l] = Write(log[l], snap, again)
        BY <3>3 DEF Set, QueueOK
      <4>. HIDE DEF again
      <4>. QED
        BY <3>4, <4>1, WriteRow
    <3>6. l \notin shared => snap = log[l]
      BY <2>1, OnlyTask DEF Fair, Known
    <3>7. \A x \in Workers \ {w} : worker'[x] = worker[x]
      BY <2>3 DEF QueueOK
    <3>8. l \notin shared => log'[l].status = "pending"
      BY <3>5, <3>6, <2>1, OnlyTask DEF DuePending, Due
    <3>. HIDE DEF again
    <3>. QED
      BY <1>2, <2>1, <3>2, <3>7, <3>8
  <2>. QED
    BY <1>5, <2>2, <2>3 DEF Attempt
<1>6. CASE \/ ScheduleRetry(w) \/ ScheduleFails(w) \/ Crash(w)
           \/ Kill(w) \/ DatabaseFails(w)
  <2>1. /\ worker[w].phase # "idle" /\ worker' = Idle(w) /\ UNCHANGED <<log, calls, shared>>
        /\ \A m \in Logs \ {l} : queued'[m] = queued[m]
    BY <1>6 DEF ScheduleRetry, ScheduleFails, Crash, Kill, DatabaseFails, Ends, Queue, QueueOK
  <2>. QED
    BY <1>2, <1>3, <2>1
<1>. QED
  BY <1>1, <1>4, <1>5, <1>6 DEF Task

\* A request takes a log it names from failed to something else.
LEMMA ServeDue ==
    ASSUME LogsInv, Bounded, DuePending, NEW c \in calls, Serve(c)
    PROVE  /\ DuePending'
           /\ \A m \in Logs \ shared' : Failing(m) => log'[m] = log[m] \/ m \in c.logs
<1>1. /\ c \in CallType /\ CallOK(c) /\ c.logs \subseteq Logs
      /\ \A x \in calls : x.no = c.no => x = c
  BY Numbered
<1>2. UNCHANGED worker /\ \A m \in Logs : Tasks(m)' = Tasks(m)
  BY DEF Serve, Load, Commit, Dispatch, DispatchFails, RequestFails, Tasks
<1>3. ASSUME shared \subseteq shared', UNCHANGED <<log, queued>>,
             NEW d, calls' = (calls \ {c}) \cup {d}, d.left \subseteq c.left
      PROVE  DuePending'
  <2>1. \A m \in Logs : Due(m)' => Due(m)
    BY <1>2, <1>3 DEF Due
  <2>. QED
    BY <1>3, <2>1 DEF DuePending
<1>4. CASE Load(c)
  <2>1. PICK s : /\ Become(c, [c EXCEPT !.phase = "loaded", !.snap = s])
                 /\ shared \subseteq shared' /\ UNCHANGED <<log, queued>>
    BY <1>4 DEF Load
  <2>. DEFINE d == [c EXCEPT !.phase = "loaded", !.snap = s]
  <2>2. d.left = c.left /\ calls' = (calls \ {c}) \cup {d}
    BY <1>1, <2>1 DEF Become, CallType
  <2>. HIDE DEF d
  <2>. QED
    BY <1>3, <2>1, <2>2
<1>5. CASE Commit(c)
  <2>. DEFINE new(l) == IF c.kind = "dismiss" THEN [c.snap[l] EXCEPT !.status = "dismissed"]
                        ELSE [status |-> "pending", count |-> 0]
              left == IF c.kind = "dismiss" THEN {} ELSE DOMAIN c.snap
              d == [c EXCEPT !.phase = "committed", !.snap = NoRows, !.left = left]
  <2>1. /\ log' = [l \in Logs |-> IF l \in DOMAIN c.snap THEN Write(log[l], c.snap[l], new(l)) ELSE log[l]]
        /\ calls' = (calls \ {c}) \cup {d}
        /\ UNCHANGED <<queued, shared>>
    BY <1>5 DEF Commit, Become
  <2>2. d.left = left /\ DOMAIN c.snap \subseteq c.logs
    BY <1>1 DEF CallType, CallOK
  <2>. HIDE DEF d
  <2>3. ASSUME NEW m \in Logs \ shared, m \notin DOMAIN c.snap
        PROVE  log'[m] = log[m] /\ (Due(m)' => log'[m].status = "pending")
    <3>1. log'[m] = log[m]
      BY <2>1, <2>3
    <3>2. Due(m)' => Due(m)
      BY <1>2, <2>1, <2>2, <2>3 DEF Due
    <3>. QED
      BY <3>1, <3>2 DEF DuePending
  <2>4. ASSUME NEW m \in Logs \ shared, m \in DOMAIN c.snap, Due(m)'
        PROVE  log'[m].status = "pending"
    <3>1. Fair(m) /\ Handles(c, m)
      BY <2>4 DEF Bounded, Handles
    <3>2. Tasks(m) = {} /\ ~(queued[m] > 0) /\ \A x \in calls : Handles(x, m) => x = c
      BY <1>1, <3>1 DEF Fair, Alone
    <3>3. m \in left
      BY <1>2, <2>1, <2>2, <2>4, <3>2 DEF Due, Handles
    <3>4. c.kind # "dismiss" /\ c.snap[m] = log[m] /\ log[m] \in Row
      BY <2>4, <3>1, <3>3, Numbers DEF Fair, Known, LogsInv
    <3>5. new(m) = [status |-> "pending", count |-> 0] /\ new(m) \in Row
      BY <3>4 DEF Row, Statuses
    <3>6. log'[m] = Write(log[m], log[m], new(m))
      BY <2>1, <2>4, <3>4
    <3>7. new(m).status = "pending"
      BY <3>5
    <3>. HIDE DEF new
    <3>. QED
      BY <3>4, <3>5, <3>6, <3>7, WriteRow
  <2>. QED
    BY <2>1, <2>2, <2>3, <2>4 DEF DuePending, Failing
<1>6. CASE Dispatch(c)
  <2>1. PICK k \in c.left :
          /\ queued' = [queued EXCEPT ![k] = @ + 1]
          /\ Become(c, [c EXCEPT !.left = @ \ {k}])
    BY <1>6 DEF Dispatch, Queue
  <2>. DEFINE d == [c EXCEPT !.left = @ \ {k}]
  <2>2. d.left \subseteq c.left /\ calls' = (calls \ {c}) \cup {d} /\ UNCHANGED <<log, shared>>
    BY <1>1, <1>6, <2>1 DEF Become, CallType, Dispatch
  <2>. HIDE DEF d
  <2>3. \A m \in Logs : Due(m)' => Due(m)
    BY <1>2, <2>1, <2>2 DEF Due, LogsInv, QueueOK
  <2>. QED
    BY <2>2, <2>3 DEF DuePending
<1>7. CASE DispatchFails(c)
  <2>. DEFINE d == [c EXCEPT !.left = {}]
  <2>1. d.left \subseteq c.left /\ calls' = (calls \ {c}) \cup {d} /\ UNCHANGED <<log, queued, shared>>
    BY <1>1, <1>7 DEF Become, CallType, DispatchFails
  <2>. HIDE DEF d
  <2>. QED
    BY <1>3, <2>1
<1>8. CASE RequestFails(c)
  <2>. DEFINE d == [c EXCEPT !.phase = "committed", !.snap = NoRows]
  <2>1. d.left \subseteq c.left /\ calls' = (calls \ {c}) \cup {d} /\ UNCHANGED <<log, queued, shared>>
    BY <1>1, <1>8 DEF Become, CallType, RequestFails
  <2>. HIDE DEF d
  <2>. QED
    BY <1>3, <2>1
<1>. QED
  BY <1>4, <1>5, <1>6, <1>7, <1>8 DEF Serve

\* The page and other clients send requests and take their answers.
LEMMA PageDue ==
    ASSUME LogsInv, DuePending, UNCHANGED <<log, queued, worker, shared>>,
           \A d \in calls' : d.left = {} \/ \E c \in calls : d.left = c.left
    PROVE  DuePending'
<1>1. \A m \in Logs : Due(m)' => Due(m)
  BY DEF Due, Tasks
<1>. QED
  BY <1>1 DEF DuePending

-----------------------------------------------------------------------------
(* The screen *)

\* Steps of the server change neither the page nor what its requests are.
LEMMA ServerTidy ==
    ASSUME LogsInv, LogsInv', Bounded, TidyInv, UNCHANGED pageVars, shared \subseteq shared',
           \/ \E c \in calls : Serve(c)
           \/ \E w \in Workers : Task(w)
    PROVE  TidyInv'
<1>1. UNCHANGED <<tab, fetch, bringing, items, stale, pressed, bulk, unseen>>
  BY DEF pageVars
<1>2. SUFFICES /\ DuePending' /\ OthersUnseen'
               /\ \A l \in Logs \ (unseen \cup shared') : Excused(l) => Excused(l)'
  BY <1>1 DEF TidyInv, ScreenInv, Outdated, Right, LogsInv, ScreenOK
<1>3. ASSUME NEW w \in Workers, Task(w)
      PROVE  /\ DuePending' /\ OthersUnseen'
             /\ \A l \in Logs \ (unseen \cup shared') : Excused(l) => Excused(l)'
  <2>1. /\ DuePending'
        /\ \A m \in Logs \ shared' : Failing(m) => log'[m] = log[m]
    BY <1>3, TaskDue DEF LogsInv, TidyInv
  <2>2. calls' = calls
    BY <1>3 DEF Task, Take, Unmapped, Attempt, ScheduleRetry, ScheduleFails, Crash, Kill,
           DatabaseFails, Ends
  <2>. QED
    BY <1>1, <2>1, <2>2 DEF TidyInv, OthersUnseen, Excused, Failing, OnPage
<1>4. ASSUME NEW c \in calls, Serve(c)
      PROVE  /\ DuePending' /\ OthersUnseen'
             /\ \A l \in Logs \ (unseen \cup shared') : Excused(l) => Excused(l)'
  <2>1. /\ DuePending'
        /\ \A m \in Logs \ shared' : Failing(m) => log'[m] = log[m] \/ m \in c.logs
    BY <1>4, ServeDue DEF TidyInv
  <2>2. c \in CallType
    BY Numbered
  <2>3. PICK d : calls' = (calls \ {c}) \cup {d} /\ d.page = c.page /\ d.logs = c.logs
    <3>1. ASSUME NEW s, NEW t, NEW ph,
                 calls' = (calls \ {c}) \cup {[c EXCEPT !.phase = ph, !.snap = s, !.left = t]}
          PROVE  \E d : calls' = (calls \ {c}) \cup {d} /\ d.page = c.page /\ d.logs = c.logs
      <4>1. [c EXCEPT !.phase = ph, !.snap = s, !.left = t].page = c.page
            /\ [c EXCEPT !.phase = ph, !.snap = s, !.left = t].logs = c.logs
        BY <2>2 DEF CallType
      <4>. QED
        BY <3>1, <4>1
    <3>2. CASE Load(c) \/ RequestFails(c)
      <4>1. PICK s, ph : Become(c, [c EXCEPT !.phase = ph, !.snap = s])
        BY <3>2 DEF Load, RequestFails
      <4>2. [c EXCEPT !.phase = ph, !.snap = s].page = c.page
            /\ [c EXCEPT !.phase = ph, !.snap = s].logs = c.logs
        BY <2>2 DEF CallType
      <4>. QED
        BY <4>1, <4>2 DEF Become
    <3>3. CASE Commit(c)
      BY <3>1, <3>3 DEF Commit, Become
    <3>4. CASE Dispatch(c) \/ DispatchFails(c)
      <4>1. PICK t : Become(c, [c EXCEPT !.left = t])
        BY <3>4 DEF Dispatch, DispatchFails
      <4>2. [c EXCEPT !.left = t].page = c.page /\ [c EXCEPT !.left = t].logs = c.logs
        BY <2>2 DEF CallType
      <4>. QED
        BY <4>1, <4>2 DEF Become
    <3>. QED
      BY <1>4, <3>2, <3>3, <3>4 DEF Serve
  <2>4. OthersUnseen'
    BY <1>1, <2>3 DEF TidyInv, OthersUnseen
  <2>5. \A l \in Logs : OnPage(l) => OnPage(l)'
    BY <1>1, <2>3 DEF OnPage
  <2>6. ASSUME NEW l \in Logs \ (unseen \cup shared'), l \in c.logs
        PROVE  OnPage(l)'
    <3>1. c.page # "none"
      BY <2>6 DEF TidyInv, OthersUnseen
    <3>2. c.page = "all" => bulk # {}
      BY DEF LogsInv, ButtonsOK, Bulk
    <3>. QED
      BY <1>1, <2>2, <2>3, <2>6, <3>1, <3>2 DEF OnPage, CallType
  <2>7. \A l \in Logs \ (unseen \cup shared') : Excused(l) => Excused(l)'
    BY <2>1, <2>5, <2>6 DEF Excused, Failing
  <2>. QED
    BY <2>1, <2>4, <2>7
<1>. QED
  BY <1>3, <1>4

\* The tab and the list.
LEMMA ListTidy ==
    ASSUME LogsInv, TidyInv, UNCHANGED <<queueVars, pressed, bulk, unseen>>,
           \/ \E t \in {"executions", "review"} : OpenTab(t)
           \/ Refresh \/ ListServed \/ ListArrives \/ UNCHANGED pageVars
    PROVE  TidyInv'
<1>1. UNCHANGED <<log, queued, worker, calls, shared, bulk, unseen>>
  BY DEF queueVars
<1>2. DuePending' /\ OthersUnseen'
  BY <1>1, PageDue DEF TidyInv, OthersUnseen
<1>3. \A l : Excused(l)' = Excused(l)
  BY <1>1 DEF Excused, Failing, OnPage
<1>4. CASE \E t \in {"executions", "review"} : OpenTab(t)
  <2>1. PICK t \in {"executions", "review"} : OpenTab(t)
    BY <1>4
  <2>2. UNCHANGED <<bringing, items, stale>> /\ (fetch' = "asked" \/ fetch' = fetch)
    BY <2>1 DEF OpenTab
  <2>3. Outdated => fetch' # "idle"
    BY <2>1 DEF OpenTab, Outdated, LogsInv, ScreenOK
  <2>. QED
    BY <1>1, <1>2, <1>3, <2>2, <2>3 DEF TidyInv, ScreenInv, Right
<1>5. CASE Refresh
  BY <1>2, <1>5 DEF TidyInv, ScreenInv, Refresh
<1>6. CASE ListServed
  <2>1. fetch' = "served" /\ bringing' \subseteq Listed
    BY <1>6 DEF ListServed
  <2>. QED
    BY <1>1, <1>2, <1>3, <2>1 DEF TidyInv, ScreenInv, Right, Listed, Excused, Failing
<1>7. CASE ListArrives
  <2>1. fetch = "served" /\ fetch' = "idle" /\ items' = bringing
    BY <1>7 DEF ListArrives
  <2>. QED
    BY <1>1, <1>2, <1>3, <2>1 DEF TidyInv, ScreenInv, Right
<1>8. CASE UNCHANGED pageVars
  BY <1>1, <1>2, <1>3, <1>8 DEF TidyInv, ScreenInv, Right, Outdated, pageVars
<1>. QED
  BY <1>4, <1>5, <1>6, <1>7, <1>8

\* A request is sent: one of the page, which waits for it, or one unseen.
LEMMA SentTidy ==
    ASSUME LogsInv, TidyInv, UNCHANGED <<log, queued, worker, shared, tab, fetch, bringing, items, stale>>,
           calls \subseteq calls', unseen \subseteq unseen', bulk # {} => bulk' # {},
           \A d \in calls' \ calls : d.left = {} /\ (d.page = "none" => d.logs \subseteq unseen')
    PROVE  TidyInv'
<1>1. DuePending'
  BY PageDue DEF TidyInv
<1>2. OthersUnseen'
  BY DEF TidyInv, OthersUnseen
<1>3. \A l : Excused(l) => Excused(l)'
  BY DEF Excused, Failing, OnPage
<1>. QED
  BY <1>1, <1>2, <1>3 DEF TidyInv, ScreenInv, Right, Outdated

LEMMA SendTidy ==
    ASSUME LogsInv, TidyInv,
           \/ RetryAll \/ Other
           \/ \E kind \in {"retry", "dismiss"}, l \in Logs : Press(kind, l)
    PROVE  TidyInv'
<1>1. ASSUME NEW kind, NEW logs, NEW page, Send(kind, logs, page), bulk' = bulk,
             UNCHANGED <<log, queued, worker, shared, tab, fetch, bringing, items, stale>>,
             unseen \subseteq unseen', page = "none" => logs \subseteq unseen'
      PROVE  TidyInv'
  <2>. DEFINE d == [no |-> sent + 1, kind |-> kind, logs |-> logs, page |-> page,
                    snap |-> NoRows, left |-> {}, phase |-> "sent"]
  <2>1. d.left = {} /\ d.page = page /\ d.logs = logs
    OBVIOUS
  <2>2. calls' = calls \cup {d}
    BY <1>1 DEF Send
  <2>. HIDE DEF d
  <2>. QED
    BY <1>1, <2>1, <2>2, SentTidy
<1>2. CASE Other
  <2>1. UNCHANGED <<log, queued, worker, shared, tab, fetch, bringing, items, stale, bulk>>
    BY <1>2 DEF Other
  <2>2. CASE Send("retry-all", Logs, "none") /\ unseen' = Logs
    BY <1>1, <2>1, <2>2 DEF LogsInv, ScreenOK
  <2>3. ASSUME NEW kind, NEW l \in Logs, Send(kind, {l}, "none"), unseen' = unseen \cup {l}
        PROVE  TidyInv'
    BY <1>1, <2>1, <2>3
  <2>. QED
    BY <1>2, <2>2, <2>3 DEF Other
<1>3. ASSUME NEW kind, NEW l \in Logs, Press(kind, l)
      PROVE  TidyInv'
  BY <1>1, <1>3 DEF Press
<1>4. CASE RetryAll
  <2>. DEFINE order == CHOOSE f \in [items -> 1..Cardinality(items)] :
                          \A l, m \in items : f[l] = f[m] => l = m
              call(l) == [no |-> sent + order[l], kind |-> "retry", logs |-> {l}, page |-> "all",
                          snap |-> NoRows, left |-> {}, phase |-> "sent"]
  <2>1. items # {} /\ bulk' = {sent + order[l] : l \in items}
        /\ calls' = calls \cup {call(l) : l \in items}
    BY <1>4 DEF RetryAll
  <2>2. /\ bulk' # {}
        /\ \A d \in calls' \ calls : d.left = {} /\ d.page = "all"
    <3>. HIDE DEF order
    <3>1. PICK l : l \in items
      BY <2>1
    <3>2. sent + order[l] \in bulk'
      BY <2>1, <3>1
    <3>3. \A m : call(m).left = {} /\ call(m).page = "all"
      OBVIOUS
    <3>. HIDE DEF call
    <3>4. \A d \in calls' \ calls : d.left = {} /\ d.page = "all"
      BY <2>1, <3>3
    <3>. QED
      BY <3>2, <3>4
  <2>3. UNCHANGED <<log, queued, worker, shared, tab, fetch, bringing, items, stale, unseen>>
    BY <1>4 DEF RetryAll
  <2>4. calls \subseteq calls'
    BY <2>1
  <2>. HIDE DEF order, call
  <2>. QED
    BY <2>2, <2>3, <2>4, SentTidy
<1>. QED
  BY <1>2, <1>3, <1>4

\* A request is settled: a list read before that is asked for again, when its
\* tab is opened again if it is not open now.
LEMMA SettledTidy ==
    ASSUME LogsInv, LogsInv', TidyInv, NEW c \in calls, Answered(c) \/ AnswerLost(c)
    PROVE  TidyInv'
<1>1. Settled(c) /\ unseen \subseteq unseen' /\ (Overtaken => unseen' = Logs)
  BY DEF Answered, AnswerLost, LogsInv, ScreenOK
<1>2. UNCHANGED <<log, queued, worker, shared, tab, items>>
  BY <1>1 DEF Settled
<1>3. c \in CallType
  BY Numbered
<1>4. /\ \A d \in calls' : \E x \in calls : d.left = x.left
      /\ \A d \in calls' : d \in calls \/ (d.logs = c.logs /\ c.logs \subseteq unseen')
  <2>1. CASE Answered(c)
    BY <2>1 DEF Answered
  <2>2. CASE AnswerLost(c)
    <3>. DEFINE d == [c EXCEPT !.page = "none"]
    <3>1. calls' = (calls \ {c}) \cup {d} /\ c.logs \subseteq unseen'
      BY <1>3, <2>2 DEF AnswerLost, Become, CallType
    <3>2. d.logs = c.logs /\ d.left = c.left
      BY <1>3 DEF CallType
    <3>. HIDE DEF d
    <3>. QED
      BY <3>1, <3>2
  <2>. QED
    BY <2>1, <2>2
<1>5. DuePending'
  BY <1>2, <1>4, PageDue DEF TidyInv
<1>6. OthersUnseen'
  BY <1>1, <1>4 DEF TidyInv, OthersUnseen
<1>7. CASE Invalidate
  <2>1. CASE tab = "review"
    <3>1. fetch' = "asked"
      BY <1>7, <2>1 DEF Invalidate
    <3>. QED
      BY <1>5, <1>6, <3>1 DEF TidyInv, ScreenInv
  <2>2. CASE tab # "review" /\ fetch = "idle"
    <3>1. fetch' = "idle" /\ Outdated'
      BY <1>2, <1>7, <2>2 DEF Invalidate, Outdated
    <3>. QED
      BY <1>5, <1>6, <3>1 DEF TidyInv, ScreenInv
  <2>3. CASE tab # "review" /\ fetch # "idle"
    <3>1. unseen' = Logs /\ bringing' \subseteq Logs /\ items' \subseteq Logs
      BY <1>1, <2>3 DEF Overtaken, LogsInv, ScreenOK
    <3>. QED
      BY <1>5, <1>6, <3>1 DEF TidyInv, ScreenInv, Right
  <2>. QED
    BY <2>1, <2>2, <2>3
<1>8. CASE ~Invalidate
  <2>1. bulk' # {}
    BY <1>1, <1>8 DEF Settled
  <2>. QED
    BY <1>5, <1>6, <2>1 DEF TidyInv, ScreenInv, Right, Excused, OnPage
<1>. QED
  BY <1>7, <1>8

LEMMA DroppedTidy ==
    ASSUME LogsInv, TidyInv, NEW c \in calls, Dropped(c)
    PROVE  TidyInv'
<1>1. /\ calls' = calls \ {c} /\ c.page = "none"
      /\ UNCHANGED <<log, queued, worker, shared, bulk, unseen, tab, fetch, bringing, items, stale>>
  BY DEF Dropped, pageVars
<1>2. DuePending' /\ OthersUnseen'
  BY <1>1, PageDue DEF TidyInv, OthersUnseen
<1>3. \A l : Excused(l) => Excused(l)'
  BY <1>1 DEF Excused, Failing, OnPage
<1>. QED
  BY <1>1, <1>2, <1>3 DEF TidyInv, ScreenInv, Right, Outdated

LEMMA NextTidy == LogsInv /\ LogsInv' /\ Bounded /\ TidyInv /\ [Next]_vars => TidyInv'
<1>. SUFFICES ASSUME LogsInv, LogsInv', Bounded, TidyInv, [Next]_vars
              PROVE  TidyInv'
  OBVIOUS
<1>1. CASE UNCHANGED vars
  BY <1>1, ListTidy DEF vars, pageVars
<1>2. CASE \/ \E t \in {"executions", "review"} : OpenTab(t)
           \/ Refresh \/ ListServed \/ ListArrives
  <2>1. UNCHANGED <<queueVars, pressed, bulk, unseen>>
    BY <1>2 DEF OpenTab, Refresh, ListServed, ListArrives
  <2>. QED
    BY <1>2, <2>1, ListTidy
<1>3. ASSUME NEW c \in calls, Server(c)
      PROVE  TidyInv'
  <2>1. shared \subseteq shared'
    BY <1>3 DEF Server, Serve, Load, Commit, Dispatch, DispatchFails, RequestFails
  <2>. QED
    BY <1>3, <2>1, ServerTidy DEF Server
<1>4. ASSUME NEW w \in Workers, Task(w), UNCHANGED pageVars
      PROVE  TidyInv'
  <2>1. shared \subseteq shared'
    BY <1>4 DEF Task, Take, Unmapped, Attempt, ScheduleRetry, ScheduleFails, Crash, Kill,
           DatabaseFails, Ends
  <2>. QED
    BY <1>4, <2>1, ServerTidy
<1>. QED
  BY <1>1, <1>2, <1>3, <1>4, SendTidy, SettledTidy, DroppedTidy DEF Next

\* The screen at rest shows no item that was retried or dismissed on it, and
\* whose retry is under way or over (logs/page.tsx:508): a list read before the
\* answer is dropped, or asked for again when the tab is opened.
THEOREM NotLeftOnScreenHolds == Spec => []NotLeftOnScreen
<1>1. Init => LogsInv /\ Bounded /\ TidyInv
  <2>1. Init => TidyInv
    BY DEF Init, QueueInit, TidyInv, DuePending, Due, Tasks, Resting, OthersUnseen, ScreenInv, Right
  <2>. QED
    BY <2>1, InitInv, InitBounded
<1>2. LogsInv /\ Bounded /\ TidyInv /\ [Next]_vars => (LogsInv /\ Bounded /\ TidyInv)'
  BY NextInv, NextBounded, NextTidy
<1>3. LogsInv /\ TidyInv => NotLeftOnScreen
  <2>. SUFFICES ASSUME LogsInv, TidyInv, tab = "review", fetch = "idle", pressed = {}, bulk = {},
                       NEW l \in items \ (unseen \cup shared)
                PROVE  log[l].status = "failed_permanent"
    BY DEF NotLeftOnScreen
  <2>1. Failing(l) \/ OnPage(l)
    BY DEF TidyInv, ScreenInv, Outdated, Right, Excused
  <2>2. ASSUME NEW c \in calls, c.page = "row", l \in c.logs
        PROVE  FALSE
    <3>1. <<c.kind, l>> \in Buttons
      BY <2>2 DEF Buttons
    <3>. QED
      BY <3>1 DEF LogsInv, ButtonsOK
  <2>. QED
    BY <2>1, <2>2 DEF Failing, OnPage
<1>. QED
  BY <1>1, <1>2, <1>3, PTL DEF Spec
=============================================================================
