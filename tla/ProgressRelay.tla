--------------------------- MODULE ProgressRelay ---------------------------
(***************************************************************************)
(* Relay of sync events from Redis to browsers: backend/ws/publisher.py,   *)
(* backend/ws/manager.py and backend/ws/router.py, with the messages of    *)
(* backend/tasks/phase_runner.py.                                          *)
(*                                                                         *)
(* Every socket has an endpoint with a Redis subscription of its own, and  *)
(* every endpoint broadcasts what it hears to the sockets of all. A        *)
(* broadcast awaits each send and walks a list that others change.         *)
(***************************************************************************)
EXTENDS Naturals, Sequences, FiniteSets, SequencesExt

CONSTANTS
    Sockets,        \* sockets of the browsers, used again once forgotten
    Kinds,          \* the events that are published
    MaxEvents,      \* bound: events published
    MaxDrops        \* bound: connections that break, and server restarts

\* phase_runner publishes messages without a type: no browser reads them.
Untyped == "phase completed"

ASSUME RelayAssumption ==
    /\ Kinds \subseteq {Untyped, "sync_progress", "sync_complete", "sync_error"}
    /\ IsFiniteSet(Sockets)
    /\ MaxEvents \in Nat /\ MaxDrops \in Nat

VARIABLES
    client,         \* client[s]: what the browser knows of the socket
    broken,         \* sockets whose connection has ended
    wire,           \* wire[s]: what is on its way to the browser
    up,             \* the API process is running
    relaying,       \* sockets whose endpoint is subscribed to Redis
    active,         \* manager.active_connections
    queue,          \* queue[s]: heard from Redis, the first being broadcast
    cast,           \* cast[s]: how far the broadcast of this endpoint is
    published,      \* the events published so far
    drops,          \* how often something has broken
    since,          \* history: events published when s subscribed, if it is
    disturbed       \* history: an event was cut off, or a socket passed over

relayVars == <<client, broken, wire, up, relaying, active, queue, cast,
               published, drops, since, disturbed>>
endpointVars == <<relaying, active, queue, cast, since, disturbed>>

\* A listener broadcasts the head of its queue; next is the place in the list.
Idle == [next |-> 1, dead |-> {}]
Live(s) == client[s] \in {"connecting", "open"}

\* The browser opens a socket: one it has not used, or that all have forgotten.
Fresh(s) ==
    /\ client[s] = "none" /\ s \notin relaying /\ wire[s] = <<>>
    /\ \A u \in Sockets : s \notin cast[u].dead
Dial(s) == client' = [client EXCEPT ![s] = "connecting"] /\ broken' = broken \ {s}

Drop == drops < MaxDrops /\ drops' = drops + 1

-----------------------------------------------------------------------------
(* The connection manager *)

\* Removing an entry that a broadcast has passed moves the next one to a
\* place the broadcast has passed too.
Shifts(s) ==
    \E u \in Sockets : \E p \in DOMAIN active :
        active[p] = s /\ p < cast[u].next /\ cast[u].next <= Len(active)

\* A list of distinct entries without some of them, in the order it had.
Without(list, gone) ==
    LET kept == {p \in DOMAIN list : list[p] \notin gone}
        place(p) == Cardinality({q \in kept : q <= p})
    IN  [n \in 1..Cardinality(kept) |-> list[CHOOSE p \in kept : place(p) = n]]

\* websocket_sync up to the subscription; between the two awaits the socket
\* hears only what other endpoints broadcast.
Accept(s) ==
    /\ up /\ client[s] = "connecting" /\ s \notin relaying /\ wire[s] = <<>>
    /\ s \notin broken
    /\ relaying' = relaying \cup {s}
    /\ active' = Append(active, s)
    /\ since' = [since EXCEPT ![s] = Len(published)]
    /\ wire' = [wire EXCEPT ![s] = <<"open">>]
    /\ UNCHANGED <<client, broken, up, queue, cast, published, drops, disturbed>>

\* A token that has expired: the socket is accepted, told so and closed.
Reject(s) ==
    /\ up /\ client[s] = "connecting" /\ s \notin relaying /\ wire[s] = <<>>
    /\ s \notin broken
    /\ Drop
    /\ wire' = [wire EXCEPT ![s] = <<"open">>]
    /\ broken' = broken \cup {s}
    /\ UNCHANGED <<client, up, endpointVars, published>>

\* Redis hands a message to the subscriptions there are.
Publish(k) ==
    /\ Len(published) < MaxEvents
    /\ published' = Append(published, k)
    /\ queue' = [s \in Sockets |-> IF s \in relaying THEN Append(queue[s], k) ELSE queue[s]]
    /\ UNCHANGED <<client, broken, wire, up, relaying, active, cast, drops, since, disturbed>>

\* Bug form of Send: a send that raises ends the broadcast.
SendOrStop(s) ==
    /\ queue[s] # <<>> /\ cast[s].next \in DOMAIN active
    /\ LET t == active[cast[s].next]
       IN  IF t \in broken
           THEN cast' = [cast EXCEPT ![s].next = Len(active) + 1] /\ UNCHANGED wire
           ELSE /\ cast' = [cast EXCEPT ![s].next = @ + 1]
                /\ wire' = [wire EXCEPT ![t] = Append(@, Head(queue[s]))]
    /\ UNCHANGED <<client, broken, up, relaying, active, queue, published, drops, since, disturbed>>

\* One send of a broadcast; on a broken connection it raises.
Send(s) ==
    /\ queue[s] # <<>> /\ cast[s].next \in DOMAIN active
    /\ LET t == active[cast[s].next]
       IN  IF t \in broken
           THEN /\ cast' = [cast EXCEPT ![s] = [next |-> @.next + 1, dead |-> @.dead \cup {t}]]
                /\ UNCHANGED wire
           ELSE /\ cast' = [cast EXCEPT ![s].next = @ + 1]
                /\ wire' = [wire EXCEPT ![t] = Append(@, Head(queue[s]))]
    /\ UNCHANGED <<client, broken, up, relaying, active, queue, published, drops, since, disturbed>>

\* The broadcast is through: the sockets it could not reach are taken out.
Sent(s) ==
    /\ queue[s] # <<>> /\ cast[s].next > Len(active)
    /\ active' = Without(active, cast[s].dead)
    /\ queue' = [queue EXCEPT ![s] = Tail(@)]
    /\ cast' = [cast EXCEPT ![s] = Idle]
    /\ disturbed' = (disturbed \/ \E t \in cast[s].dead : Shifts(t))
    /\ UNCHANGED <<client, broken, wire, up, relaying, published, drops, since>>

\* Bug form of Depart: manager.disconnect is not called.
DepartListed(s) ==
    /\ s \in relaying /\ s \in broken
    /\ relaying' = relaying \ {s}
    /\ queue' = [queue EXCEPT ![s] = <<>>]
    /\ cast' = [cast EXCEPT ![s] = Idle]
    /\ since' = [since EXCEPT ![s] = 0]
    /\ UNCHANGED <<client, broken, wire, up, active, published, drops, disturbed>>

\* receive_text raises: the listener is cancelled wherever it is, and the
\* socket leaves the list.
Depart(s) ==
    /\ s \in relaying /\ s \in broken
    /\ relaying' = relaying \ {s}
    /\ active' = Without(active, {s})
    /\ queue' = [queue EXCEPT ![s] = <<>>]
    /\ cast' = [cast EXCEPT ![s] = Idle]
    /\ disturbed' = (disturbed \/ Shifts(s) \/ queue[s] # <<>>)
    /\ since' = [since EXCEPT ![s] = 0]
    /\ UNCHANGED <<client, broken, wire, up, published, drops>>

-----------------------------------------------------------------------------
(* What breaks *)

\* The connection is lost with all that was on its way.
Break(s) ==
    /\ client[s] = "open" /\ s \notin broken
    /\ Drop
    /\ broken' = broken \cup {s}
    /\ wire' = [wire EXCEPT ![s] = <<>>]
    /\ UNCHANGED <<client, up, endpointVars, published>>

\* The API process ends; its lists and subscriptions are memory.
ServerStops ==
    /\ up /\ Drop
    /\ up' = FALSE
    /\ broken' = broken \cup {s \in Sockets : client[s] # "none"}
    /\ wire' = [s \in Sockets |-> <<>>]
    /\ relaying' = {}
    /\ active' = <<>>
    /\ queue' = [s \in Sockets |-> <<>>]
    /\ cast' = [s \in Sockets |-> Idle]
    /\ since' = [s \in Sockets |-> 0]
    /\ UNCHANGED <<client, published, disturbed>>

ServerStarts ==
    /\ ~up
    /\ up' = TRUE
    /\ UNCHANGED <<client, broken, wire, endpointVars, published, drops>>

\* Nothing listens: the handshake fails.
Unreachable(s) ==
    /\ ~up /\ client[s] = "connecting" /\ s \notin broken
    /\ broken' = broken \cup {s}
    /\ UNCHANGED <<client, wire, up, endpointVars, published, drops>>

Endpoint(s) ==
    Accept(s) \/ Send(s) \/ Sent(s) \/ Depart(s)

RelayInit ==
    /\ client = [s \in Sockets |-> "none"]
    /\ broken = {}
    /\ wire = [s \in Sockets |-> <<>>]
    /\ up = TRUE
    /\ relaying = {}
    /\ active = <<>>
    /\ queue = [s \in Sockets |-> <<>>]
    /\ cast = [s \in Sockets |-> Idle]
    /\ published = <<>>
    /\ drops = 0
    /\ since = [s \in Sockets |-> 0]
    /\ disturbed = FALSE
=============================================================================
