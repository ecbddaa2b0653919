---------------------------- MODULE SyncSocket ----------------------------
(***************************************************************************)
(* The hook that follows a run over a WebSocket and reconnects:            *)
(* frontend/src/hooks/useWebSocketSync.ts, with the relay it listens to    *)
(* and the overlay it feeds. The hook's refs are its variables; its        *)
(* handlers are called by the browser, connect and disconnect by a page.   *)
(***************************************************************************)
EXTENDS ProgressRelay, ProgressOverlay

CONSTANTS
    MaxConnects,    \* bound: calls of connect
    NoSocket

ASSUME SocketAssumption == NoSocket \notin Sockets /\ MaxConnects \in Nat

MAX_RETRIES == 3

VARIABLES
    wsRef,          \* the socket that cleanup closes
    retries,        \* retriesRef
    timer,          \* the pending reconnect that cleanup clears
    lostTimers,     \* pending reconnects whose handle was overwritten
    following,      \* executionIdRef is set
    intentional,    \* intentionalCloseRef
    mounted,
    connects,       \* calls of connect so far
    replaced        \* history: connect came before a close was reported

hookVars == <<wsRef, retries, timer, lostTimers, following, intentional,
              mounted, connects, replaced>>
vars == <<relayVars, overlayVars, hookVars>>

\* An id is used again only when neither side, nor wsRef, knows it.
Unused(s) == Fresh(s) /\ s # wsRef
NextSocket == CHOOSE s \in Sockets : Unused(s)

\* Setting the state of an unmounted component does nothing.
SetStatus(new) == IF mounted THEN Show(new) ELSE UNCHANGED overlayVars

\* close() of the socket in wsRef: it reads no further message, and its close
\* event comes later.
Hangs(s) == s = wsRef /\ Live(s)
HangUp ==
    /\ client' = [s \in Sockets |-> IF Hangs(s) THEN "closing" ELSE client[s]]
    /\ broken' = broken \cup {s \in Sockets : Hangs(s)}
    /\ wire' = [s \in Sockets |-> IF Hangs(s) THEN <<>> ELSE wire[s]]

\* Bug form of Cleanup: the timer is not cleared.
CleanupKeepsTimer ==
    /\ UNCHANGED timer
    /\ wsRef' = NoSocket
    /\ intentional' = (intentional \/ wsRef # NoSocket)
    /\ HangUp

Cleanup ==
    /\ timer' = FALSE
    /\ wsRef' = NoSocket
    /\ intentional' = (intentional \/ wsRef # NoSocket)
    /\ HangUp

-----------------------------------------------------------------------------
(* What pages call *)

\* connectWs: cleanup, and a new socket. The refs are reset before the close
\* of the old socket is reported.
Connect ==
    /\ mounted /\ connects < MaxConnects
    /\ connects' = connects + 1
    /\ \E s \in Sockets : Unused(s)
    /\ LET s == NextSocket
       IN  /\ client' = [t \in Sockets |->
                            IF t = s THEN "connecting" ELSE IF Hangs(t) THEN "closing" ELSE client[t]]
           /\ broken' = (broken \cup {t \in Sockets : Hangs(t)}) \ {s}
           /\ wire' = [t \in Sockets |-> IF Hangs(t) THEN <<>> ELSE wire[t]]
           /\ wsRef' = s
    /\ timer' = FALSE
    /\ intentional' = FALSE
    /\ following' = TRUE
    /\ retries' = 0
    /\ replaced' = (replaced \/ \E t \in Sockets : client[t] # "none")
    /\ Show("running")
    /\ UNCHANGED <<up, endpointVars, published, drops, lostTimers, mounted>>

Disconnect ==
    /\ mounted
    /\ following' = FALSE
    /\ Cleanup
    /\ Show("idle")
    /\ UNCHANGED <<up, endpointVars, published, drops, retries, lostTimers, mounted,
                   connects, replaced>>

\* The page is left. executionIdRef keeps its value.
Unmount ==
    /\ mounted
    /\ mounted' = FALSE
    /\ timer' = FALSE
    /\ wsRef' = NoSocket
    /\ intentional' = TRUE
    /\ HangUp
    /\ Leave
    /\ UNCHANGED <<up, endpointVars, published, drops, retries, lostTimers, following,
                   connects, replaced>>

-----------------------------------------------------------------------------
(* Handlers of the socket *)

OnOpen(s) ==
    /\ client[s] = "connecting"
    /\ wire[s] # <<>> /\ Head(wire[s]) = "open"
    /\ wire' = [wire EXCEPT ![s] = Tail(@)]
    /\ client' = [client EXCEPT ![s] = "open"]
    /\ retries' = 0
    /\ UNCHANGED <<broken, up, endpointVars, published, drops, overlayVars, wsRef, timer,
                   lostTimers, following, intentional, mounted, connects, replaced>>

StatusAfter(k) ==
    CASE k = "sync_progress" -> "running"
      [] k = "sync_complete" -> "completed"
      [] k = "sync_error" -> "error"

\* The execution an event is about is not looked at.
OnMessage(s) ==
    /\ wire[s] # <<>> /\ Head(wire[s]) # "open"
    /\ wire' = [wire EXCEPT ![s] = Tail(@)]
    /\ IF Head(wire[s]) = Untyped THEN UNCHANGED overlayVars
       ELSE SetStatus(StatusAfter(Head(wire[s])))
    /\ UNCHANGED <<client, broken, up, endpointVars, published, drops, hookVars>>

\* Bug form of Reconnects: attempts are not counted.
ReconnectsForever ==
    /\ timer' = TRUE
    /\ lostTimers' = lostTimers + (IF timer THEN 1 ELSE 0)
    /\ UNCHANGED retries

\* A timer replaces the handle of one that is still pending.
Reconnects ==
    /\ retries' = retries + 1
    /\ timer' = TRUE
    /\ lostTimers' = lostTimers + (IF timer THEN 1 ELSE 0)

OnClose(s) ==
    /\ \/ client[s] = "closing"
       \/ Live(s) /\ s \in broken /\ wire[s] = <<>>
    /\ client' = [client EXCEPT ![s] = "none"]
    /\ IF ~intentional /\ retries < MAX_RETRIES /\ following
       THEN Reconnects
       ELSE UNCHANGED <<retries, timer, lostTimers>>
    /\ UNCHANGED <<broken, wire, up, endpointVars, published, drops, overlayVars, wsRef,
                   following, intentional, mounted, connects, replaced>>

\* The callback of a timer, two seconds after a close.
Redial ==
    IF following
    THEN /\ \E s \in Sockets : Unused(s)
         /\ Dial(NextSocket)
         /\ wsRef' = NextSocket
    ELSE UNCHANGED <<client, broken, wsRef>>

TimerFires ==
    /\ timer /\ timer' = FALSE
    /\ Redial
    /\ UNCHANGED <<wire, up, endpointVars, published, drops, overlayVars, retries, lostTimers,
                   following, intentional, mounted, connects, replaced>>

LostTimerFires ==
    /\ lostTimers > 0 /\ lostTimers' = lostTimers - 1
    /\ Redial
    /\ UNCHANGED <<wire, up, endpointVars, published, drops, overlayVars, retries, timer,
                   following, intentional, mounted, connects, replaced>>

-----------------------------------------------------------------------------

Init ==
    /\ RelayInit
    /\ OverlayInit
    /\ wsRef = NoSocket
    /\ retries = 0
    /\ timer = FALSE
    /\ lostTimers = 0
    /\ following = FALSE
    /\ intentional = FALSE
    /\ mounted = TRUE
    /\ connects = 0
    /\ replaced = FALSE

Relay(A) == A /\ UNCHANGED <<overlayVars, hookVars>>
Overlay == mounted /\ (Dismiss \/ AutoDismiss) /\ UNCHANGED <<relayVars, hookVars>>

Browser ==
    \/ \E s \in Sockets : OnOpen(s) \/ OnMessage(s) \/ OnClose(s)
    \/ \E s \in Sockets : Relay(Unreachable(s))
    \/ TimerFires
    \/ LostTimerFires

Next ==
    \/ Connect
    \/ Disconnect
    \/ Unmount
    \/ Browser
    \/ Overlay
    \/ \E s \in Sockets : Relay(Endpoint(s))
    \/ \E s \in Sockets : Relay(Break(s))
    \/ \E s \in Sockets : Relay(Reject(s))
    \/ \E k \in Kinds : Relay(Publish(k))
    \/ Relay(ServerStops)
    \/ Relay(ServerStarts)

\* The browser delivers what it has and runs its timers.
Fairness == WF_vars(Browser)

Spec == Init /\ [][Next]_vars
FairSpec == Spec /\ Fairness

-----------------------------------------------------------------------------
(* Properties *)

Events == Kinds \cup {"open"}

\* Every variable has its type; who is in the list of active sockets has an
\* endpoint, and is there once.
TypeOK ==
    /\ client \in [Sockets -> {"none", "connecting", "open", "closing"}]
    /\ broken \subseteq Sockets
    /\ \A s \in Sockets : ToSet(wire[s]) \subseteq Events /\ ToSet(queue[s]) \subseteq Kinds
    /\ up \in BOOLEAN
    /\ relaying \subseteq Sockets /\ ToSet(active) \subseteq relaying
    /\ IsInjective(active)
    /\ \A s \in Sockets : cast[s].next \in 1..(Cardinality(Sockets) + 1) /\ cast[s].dead \subseteq Sockets
    /\ drops \in 0..MaxDrops
    /\ \A s \in Sockets : since[s] \in 0..Len(published)
    /\ status \in Statuses
    /\ {dismissed, armed, timer, following, intentional, mounted, replaced,
        disturbed} \subseteq BOOLEAN
    /\ wsRef \in Sockets \cup {NoSocket}
    /\ retries \in 0..MAX_RETRIES
    /\ lostTimers \in 0..MaxConnects
    /\ connects \in 0..MaxConnects

\* The hook keeps at most one socket or one pending reconnect, and none after
\* disconnect or unmount. The exception is a page that connects again before
\* the close of the former socket was reported: connectWs resets
\* intentionalCloseRef too early, and that close starts a second line of
\* reconnects that nothing ends.
Lines == {s \in Sockets : Live(s)}
Timers == lostTimers + (IF timer THEN 1 ELSE 0)
OneLine ==
    ~replaced =>
        /\ Cardinality(Lines) + Timers <= 1
        /\ Lines \subseteq {wsRef}
        /\ ~following \/ ~mounted => Lines = {} /\ Timers = 0

\* What is shown is in the end what was published last, although every event
\* arrives once from each endpoint: when nothing is under way, the status is
\* that of the last typed event published since the open socket subscribed.
\* A socket that leaves in the middle of a broadcast may make others miss the
\* event, or hear a stale copy last.
Settled == \A s \in Sockets : queue[s] = <<>> /\ wire[s] = <<>>
Typed == {i \in DOMAIN published : published[i] # Untyped}
ShowsLastEvent ==
    /\ mounted /\ wsRef \in Lines \ broken /\ wsRef \in relaying
    /\ Settled /\ ~disturbed /\ ~replaced
    =>
    \A i \in Typed :
        i > since[wsRef] /\ (\A j \in Typed : j <= i) => status = StatusAfter(published[i])

\* A running sync is hidden only by the user: the timer that puts a finished
\* one away does not outlast it.
HiddenByUser == [][status = "running" /\ ~dismissed /\ dismissed' => Dismiss]_vars

\* When the server stays away, the hook gives up: after MAX_RETRIES failures
\* without an open in between there is neither socket nor timer.
GivesUp == <>[](~up) => <>[](Lines = {} /\ Timers = 0)
=============================================================================
