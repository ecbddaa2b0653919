------------------------- MODULE ConnectionHealth -------------------------
(***************************************************************************)
(* The status of connections: the bulk health check, which Beat starts     *)
(* every five minutes and GET /api/health/all whenever it is asked for,    *)
(* against the requests that test, update and delete a connection.         *)
(*                                                                         *)
(* backend/connections/health.py, backend/tasks/scheduler.py and           *)
(* backend/api/connections.py. Each check and each request has a session   *)
(* of its own: it loads its rows once, waits for the stores, and writes    *)
(* the columns it has changed in one commit. The counters of failures are  *)
(* in Redis and not part of that transaction.                              *)
(***************************************************************************)
EXTENDS Naturals, FiniteSets

CONSTANTS
    Conns,          \* connections
    Checks,         \* bulk checks that may be under way at one time
    Beat,           \* the one that Beat starts
    ApiRequests,       \* requests that may be under way at one time
    MaxEvents       \* bound: stores that go down or come back, checks that die
                    \* or do not reach Redis, and requests, together

ASSUME HealthAssumption ==
    /\ Beat \in Checks /\ Checks \cap ApiRequests = {}
    /\ MaxEvents \in Nat

Threshold == 3
Statuses == {"ACTIVE", "DEGRADED", "INACTIVE"}
Watched == {"ACTIVE", "DEGRADED"}
Gone == "gone"

VARIABLES
    row,            \* the committed status of a connection, or Gone
    readable,       \* connections whose credentials can be decrypted
    up,             \* connections whose store answers
    fails,          \* health:failures:<id> in Redis, as far as Threshold
    check,          \* check[k]: step, rows and results of a bulk check
    req,            \* req[r]: step, row and result of a request
    events,         \* how many of the bounded events have happened
    off             \* history: connections whose user has switched them off

healthVars == <<row, readable, up, fails, check, req, events, off>>

\* loaded and sets: the status of the listed rows as read, and as the session
\* holds it. since: connections that were switched off since it began.
NoRows == [c \in {} |-> "ACTIVE"]
Resting == [phase |-> "idle", todo |-> {}, loaded |-> NoRows, sets |-> NoRows,
            redis |-> TRUE, conn |-> {}, ok |-> FALSE, since |-> {}]
NoRequest == [phase |-> "idle", kind |-> "none", conn |-> {}, loaded |-> "none",
              value |-> "none"]

Event == events < MaxEvents /\ events' = events + 1
UpTo(n) == IF n < Threshold THEN n ELSE Threshold
Becomes(k, c) == check' = [check EXCEPT ![k] = c]

-----------------------------------------------------------------------------
(* run_health_check_all *)

\* Bug form of Begin: inactive connections are listed too.
BeginAll(k) ==
    /\ check[k] = Resting
    /\ LET listed == {c \in Conns : row[c] # Gone}
           seen == [c \in listed |-> row[c]]
       IN  /\ listed # {}
           /\ \E redis \in BOOLEAN :
                 /\ IF redis THEN UNCHANGED events ELSE Event
                 /\ Becomes(k, [Resting EXCEPT !.phase = "loop", !.todo = listed,
                                               !.loaded = seen, !.sets = seen, !.redis = redis])
    /\ UNCHANGED <<row, readable, up, fails, req, off>>

\* All connections that are not inactive are read, and Redis is tried.
Begin(k) ==
    /\ check[k] = Resting
    /\ LET listed == {c \in Conns : row[c] \in Watched}
           seen == [c \in listed |-> row[c]]
       IN  /\ listed # {}
           /\ \E redis \in BOOLEAN :
                 /\ IF redis THEN UNCHANGED events ELSE Event
                 /\ Becomes(k, [Resting EXCEPT !.phase = "loop", !.todo = listed,
                                               !.loaded = seen, !.sets = seen, !.redis = redis])
    /\ UNCHANGED <<row, readable, up, fails, req, off>>

\* check_connection_health of the next connection; one that has been deleted
\* meanwhile is reported as failed.
Probe(k) ==
    /\ check[k].phase = "loop"
    /\ \E c \in check[k].todo :
        /\ row[c] # Gone => c \in readable
        /\ Becomes(k, [check[k] EXCEPT !.phase = "probed", !.conn = {c},
                                       !.ok = c \in up /\ row[c] # Gone])
    /\ UNCHANGED <<row, readable, up, fails, req, events, off>>

\* Credentials that cannot be decrypted raise out of the whole check.
Unreadable(k) ==
    /\ check[k].phase = "loop"
    /\ \E c \in check[k].todo : row[c] # Gone /\ c \notin readable
    /\ Becomes(k, Resting)
    /\ UNCHANGED <<row, readable, up, fails, req, events, off>>

\* What the result makes of the counter n and of the status s.
Counted(ok, redis, n) == IF ~redis THEN n ELSE IF ok THEN 0 ELSE UpTo(n + 1)
Judged(ok, redis, n, s) ==
    IF ok THEN "ACTIVE"
    ELSE IF redis /\ n + 1 < Threshold THEN s
    ELSE "DEGRADED"

\* The counter is changed at once, the status in the session only.
Count(k) ==
    /\ check[k].phase = "probed"
    /\ \E c \in check[k].conn :
        LET j == check[k]
        IN  /\ fails' = [fails EXCEPT ![c] = Counted(j.ok, j.redis, @)]
            /\ Becomes(k, [j EXCEPT !.phase = "loop", !.todo = @ \ {c}, !.conn = {}, !.ok = FALSE,
                                    !.sets[c] = Judged(j.ok, j.redis, fails[c], @)])
    /\ UNCHANGED <<row, readable, up, req, events, off>>

Changed(k) == {c \in DOMAIN check[k].sets : check[k].sets[c] # check[k].loaded[c]}
Finished(k) == check[k].phase = "loop" /\ check[k].todo = {}

\* Bug form of Commit: the session is closed without a commit.
CommitForgotten(k) ==
    /\ Finished(k)
    /\ Becomes(k, Resting)
    /\ UNCHANGED <<row, readable, up, fails, req, events, off>>

\* Only columns that differ from what was loaded are written. An update that
\* meets a deleted row is an error that undoes all of them, or is passed over:
\* that depends on how the driver batches the updates.
Commit(k) ==
    /\ Finished(k)
    /\ LET gone == \E c \in DOMAIN check[k].sets : row[c] = Gone
           write == {c \in Changed(k) : row[c] # Gone}
       IN  \/ /\ row' = [c \in Conns |-> IF c \in write THEN check[k].sets[c] ELSE row[c]]
              /\ off' = off \ (write \cap check[k].since)
           \/ gone /\ UNCHANGED <<row, off>>
    /\ Becomes(k, Resting)
    /\ UNCHANGED <<readable, up, fails, req, events>>

\* The worker or the API process dies, or Redis does.
Die(k) ==
    /\ check[k] # Resting
    /\ Event
    /\ Becomes(k, Resting)
    /\ UNCHANGED <<row, readable, up, fails, req, off>>

-----------------------------------------------------------------------------
(* test_connection, update_connection, delete_connection *)

Receive(r, new) ==
    /\ req[r] = NoRequest
    /\ Event
    /\ req' = [req EXCEPT ![r] = new]
    /\ UNCHANGED <<row, readable, up, fails, check, off>>

TestConnection(r, c) ==
    /\ row[c] # Gone /\ c \in readable
    /\ Receive(r, [NoRequest EXCEPT !.phase = "wait", !.kind = "test", !.conn = {c},
                                    !.loaded = row[c]])

\* is_active of an update.
Switch(r, c, value) ==
    /\ row[c] # Gone
    /\ Receive(r, [NoRequest EXCEPT !.phase = "write", !.kind = "switch", !.conn = {c},
                                    !.loaded = row[c], !.value = value])

\* The store has answered the test, or not.
Answer(r) ==
    /\ req[r].phase = "wait"
    /\ req' = [req EXCEPT ![r].phase = "write",
                          ![r].value = IF req[r].conn \subseteq up THEN "ACTIVE" ELSE "DEGRADED"]
    /\ UNCHANGED <<row, readable, up, fails, check, events, off>>

\* The commit writes the status if it differs from the one loaded.
Write(r) ==
    /\ req[r].phase = "write"
    /\ \E c \in req[r].conn :
        LET writes == row[c] # Gone /\ req[r].value # req[r].loaded
            switched == writes /\ req[r].value = "INACTIVE"
        IN  /\ row' = [row EXCEPT ![c] = IF writes THEN req[r].value ELSE @]
            /\ off' = IF switched THEN off \cup {c} ELSE IF writes THEN off \ {c} ELSE off
            /\ check' = [k \in Checks |->
                            IF switched /\ check[k] # Resting
                            THEN [check[k] EXCEPT !.since = @ \cup {c}]
                            ELSE check[k]]
    /\ req' = [req EXCEPT ![r] = NoRequest]
    /\ UNCHANGED <<readable, up, fails, events>>

Delete(c) ==
    /\ row[c] # Gone
    /\ Event
    /\ row' = [row EXCEPT ![c] = Gone]
    /\ UNCHANGED <<readable, up, fails, check, req, off>>

\* A store goes down or comes back.
Flip(c) ==
    /\ Event
    /\ up' = IF c \in up THEN up \ {c} ELSE up \cup {c}
    /\ UNCHANGED <<row, readable, fails, check, req, off>>

-----------------------------------------------------------------------------

HealthInit ==
    /\ row = [c \in Conns |-> "ACTIVE"]
    /\ readable \in SUBSET Conns
    /\ up = Conns
    /\ fails = [c \in Conns |-> 0]
    /\ check = [k \in Checks |-> Resting]
    /\ req = [r \in ApiRequests |-> NoRequest]
    /\ events = 0
    /\ off = {}

Step(k) == Probe(k) \/ Unreadable(k) \/ Count(k) \/ Commit(k)

HealthNext ==
    \/ \E k \in Checks : Begin(k) \/ Step(k) \/ Die(k)
    \/ \E r \in ApiRequests, c \in Conns :
          \/ TestConnection(r, c)
          \/ \E value \in {"ACTIVE", "INACTIVE"} : Switch(r, c, value)
    \/ \E r \in ApiRequests : Answer(r) \/ Write(r)
    \/ \E c \in Conns : Delete(c) \/ Flip(c)

\* Beat starts its check again and again, and what has begun goes on. Nobody
\* has to send a request.
HealthFairness ==
    /\ WF_healthVars(Begin(Beat))
    /\ \A k \in Checks : WF_healthVars(Step(k))
    /\ \A r \in ApiRequests : WF_healthVars(Answer(r) \/ Write(r))

HealthSpec == HealthInit /\ [][HealthNext]_healthVars
FairHealthSpec == HealthSpec /\ HealthFairness

-----------------------------------------------------------------------------
(* Properties *)

\* Every variable has its type; a check holds rows that were active or
\* degraded and makes them nothing else.
TypeOK ==
    /\ row \in [Conns -> Statuses \cup {Gone}]
    /\ readable \subseteq Conns /\ up \subseteq Conns /\ off \subseteq Conns
    /\ fails \in [Conns -> 0..Threshold]
    /\ \A k \in Checks :
          /\ check[k].phase \in {"idle", "loop", "probed"}
          /\ check[k].todo \subseteq DOMAIN check[k].sets
          /\ check[k].conn \subseteq check[k].todo
          /\ DOMAIN check[k].sets = DOMAIN check[k].loaded
          /\ \A c \in DOMAIN check[k].sets :
                c \in Conns /\ check[k].loaded[c] \in Watched /\ check[k].sets[c] \in Watched
          /\ check[k].since \subseteq Conns
    /\ \A r \in ApiRequests :
          /\ req[r].phase \in {"idle", "wait", "write"}
          /\ req[r].value \in Statuses \cup {"none"}
    /\ events \in 0..MaxEvents

\* A connection that its user has switched off stays off until a user switches
\* it on or tests it: no health check takes it up again. Only a check that had
\* loaded it before may still write over the switch.
OffStaysOff == \A c \in off : row[c] \in {"INACTIVE", Gone}

\* When the stores stop changing, the status of every connection that is
\* watched comes to say whether its store answers, through overlapping checks,
\* tests, deletions and checks that die; unless the credentials of some watched
\* connection cannot be decrypted: then no check ends, and no status changes.
AllReadable == \A c \in Conns : row[c] \in Watched => c \in readable
StatusFollowsStore ==
    <>[]AllReadable => <>[](\A c \in Conns : row[c] \in Watched => (row[c] = "ACTIVE" <=> c \in up))
=============================================================================
