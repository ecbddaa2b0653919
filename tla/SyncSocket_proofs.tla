------------------------- MODULE SyncSocket_proofs -------------------------
(* Theorems about SyncSocket, for any sockets, events and failures.         *)
EXTENDS SyncSocket, FiniteSetTheorems, TLAPS

(***************************************************************************)
(* The overlay                                                             *)
(***************************************************************************)

\* The timer that puts the overlay away runs only over a completed run.
OverlayInv ==
    /\ armed \in BOOLEAN /\ dismissed \in BOOLEAN
    /\ armed => status = "completed"

LEMMA OverlayStarts == Init => OverlayInv
BY DEF Init, OverlayInit, OverlayInv

\* What the hook reports keeps the invariant and hides nothing.
LEMMA ShowKeepsOverlay ==
    ASSUME OverlayInv, NEW new, Show(new)
    PROVE  OverlayInv' /\ (dismissed' => dismissed)
BY DEF OverlayInv, Show

LEMMA SetStatusKeepsOverlay ==
    ASSUME OverlayInv, NEW new, SetStatus(new)
    PROVE  OverlayInv' /\ (dismissed' => dismissed)
<1>1. CASE mounted
  <2>1. Show(new)  BY <1>1 DEF SetStatus
  <2>2. QED  BY <2>1, ShowKeepsOverlay
<1>2. CASE ~mounted
  BY <1>2 DEF SetStatus, overlayVars, OverlayInv
<1>3. QED  BY <1>1, <1>2

\* Every step keeps the invariant; one that hides the overlay of a running
\* sync is the user's.
LEMMA OverlayStep ==
    ASSUME OverlayInv, [Next]_vars
    PROVE  OverlayInv' /\ (status = "running" /\ ~dismissed /\ dismissed' => Dismiss)
<1> DEFINE Kept == OverlayInv' /\ (dismissed' => dismissed)
<1> SUFFICES ASSUME Kept \/ Overlay  PROVE OverlayInv' /\ (status = "running" /\ ~dismissed /\ dismissed' => Dismiss)
  <2>0. ASSUME UNCHANGED overlayVars  PROVE Kept
    BY <2>0 DEF overlayVars, OverlayInv
  <2>1. CASE Connect  BY <2>1, ShowKeepsOverlay DEF Connect
  <2>2. CASE Disconnect  BY <2>2, ShowKeepsOverlay DEF Disconnect
  <2>3. CASE Unmount  BY <2>3 DEF Unmount, Leave, OverlayInv
  <2>4. CASE Browser
    <3>1. CASE \E s \in Sockets : OnOpen(s)
      BY <3>1, <2>0 DEF OnOpen
    <3>2. CASE \E s \in Sockets : OnMessage(s)
      <4>1. PICK s \in Sockets : OnMessage(s)  BY <3>2
      <4>2. CASE Head(wire[s]) = Untyped
        BY <4>1, <4>2, <2>0 DEF OnMessage
      <4>3. CASE Head(wire[s]) # Untyped
        <5>1. SetStatus(StatusAfter(Head(wire[s])))  BY <4>1, <4>3 DEF OnMessage
        <5>2. QED  BY <5>1, SetStatusKeepsOverlay
      <4>4. QED  BY <4>2, <4>3
    <3>3. CASE \E s \in Sockets : OnClose(s)
      BY <3>3, <2>0 DEF OnClose
    <3>4. CASE \E s \in Sockets : Relay(Unreachable(s))
      BY <3>4, <2>0 DEF Relay
    <3>5. CASE TimerFires  BY <3>5, <2>0 DEF TimerFires
    <3>6. CASE LostTimerFires  BY <3>6, <2>0 DEF LostTimerFires
    <3>7. QED  BY <2>4, <3>1, <3>2, <3>3, <3>4, <3>5, <3>6 DEF Browser
  <2>5. CASE \E s \in Sockets : Relay(Endpoint(s)) \/ Relay(Break(s)) \/ Relay(Reject(s))
    BY <2>5, <2>0 DEF Relay
  <2>6. CASE (\E k \in Kinds : Relay(Publish(k))) \/ Relay(ServerStops) \/ Relay(ServerStarts)
    BY <2>6, <2>0 DEF Relay
  <2>7. CASE UNCHANGED vars  BY <2>7, <2>0 DEF vars
  <2>8. QED  BY <2>1, <2>2, <2>3, <2>4, <2>5, <2>6, <2>7 DEF Next
<1>1. CASE Kept  BY <1>1
<1>2. CASE Overlay /\ Dismiss
  BY <1>2 DEF Dismiss, OverlayInv
<1>3. CASE Overlay /\ AutoDismiss
  BY <1>3 DEF AutoDismiss, OverlayInv
<1>4. QED  BY <1>1, <1>2, <1>3 DEF Overlay

\* A running sync is hidden only by the user: useWebSocketSync.ts and
\* SyncProgressOverlay.tsx never hide it by themselves.
THEOREM HiddenByUserHolds == Spec => HiddenByUser
<1>1. OverlayInv /\ [Next]_vars => OverlayInv'
  BY OverlayStep
<1>2. OverlayInv /\ [Next]_vars =>
        [status = "running" /\ ~dismissed /\ dismissed' => Dismiss]_vars
  BY OverlayStep
<1>3. QED  BY OverlayStarts, <1>1, <1>2, PTL DEF Spec, HiddenByUser

(***************************************************************************)
(* The sockets                                                             *)
(***************************************************************************)
Reports == {"none", "connecting", "open", "closing"}

\* As long as every connect came after the former socket had closed: there is
\* one socket or one timer, a socket in use is the one the hook knows, and one
\* that is closing was closed by the hook itself.
Followed ==
    /\ lostTimers = 0
    /\ \A s, t \in Sockets : client[s] # "none" /\ client[t] # "none" => s = t
    /\ \A s \in Sockets : Live(s) => s = wsRef /\ following /\ mounted
    /\ \A s \in Sockets : client[s] = "closing" => intentional
    /\ timer => following /\ mounted /\ \A s \in Sockets : client[s] = "none"

LineInv ==
    /\ client \in [Sockets -> Reports]
    /\ timer \in BOOLEAN
    /\ ~replaced => Followed

LEMMA LineStarts == Init => LineInv
BY DEF Init, RelayInit, LineInv, Followed, Reports, Live

\* A step that concerns none of this.
LEMMA LineUntouched ==
    ASSUME LineInv, UNCHANGED <<client, hookVars>>
    PROVE  LineInv'
BY DEF LineInv, Followed, hookVars, Live

LEMMA ConnectKeepsLine ==
    ASSUME LineInv, Connect
    PROVE  LineInv'
<1> DEFINE n == NextSocket
<1>1. client' = [t \in Sockets |-> IF t = n THEN "connecting"
                                   ELSE IF Hangs(t) THEN "closing" ELSE client[t]]
  BY DEF Connect
<1>2. client' \in [Sockets -> Reports]
  BY <1>1 DEF LineInv, Reports
<1>3. ASSUME ~replaced'  PROVE Followed'
  <2>1. ~replaced /\ \A t \in Sockets : client[t] = "none"
    BY <1>3 DEF Connect
  <2>2. \A t \in Sockets : ~Hangs(t)
    BY <2>1 DEF Hangs, Live
  <2>3. \A t \in Sockets : client'[t] = IF t = n THEN "connecting" ELSE "none"
    BY <1>1, <2>1, <2>2
  <2>4. wsRef' = n /\ following' /\ mounted' /\ ~timer' /\ lostTimers' = 0
    BY <2>1 DEF Connect, LineInv, Followed
  <2>5. QED  BY <2>3, <2>4 DEF Followed, Live
<1>4. timer' \in BOOLEAN  BY DEF Connect
<1>5. QED  BY <1>2, <1>3, <1>4 DEF LineInv

\* cleanup closes the socket in use, and says so before the close is reported.
LEMMA HangUpKeepsLine ==
    ASSUME LineInv, HangUp, timer' = FALSE, UNCHANGED <<lostTimers, replaced>>,
           intentional \/ wsRef # NoSocket => intentional'
    PROVE  LineInv'
<1>1. client' = [s \in Sockets |-> IF Hangs(s) THEN "closing" ELSE client[s]]
  BY DEF HangUp
<1>2. client' \in [Sockets -> Reports]
  BY <1>1 DEF LineInv, Reports
<1>3. ASSUME ~replaced'  PROVE Followed'
  <2>1. Followed  BY <1>3 DEF LineInv
  <2>2. \A s \in Sockets : Live(s) => Hangs(s)
    BY <2>1 DEF Followed, Hangs
  <2>3. \A s \in Sockets : client'[s] \in {"none", "closing"} /\ (client'[s] # "none" => client[s] # "none")
    <3> SUFFICES ASSUME NEW s \in Sockets  PROVE client'[s] \in {"none", "closing"} /\ (client'[s] # "none" => client[s] # "none")
      OBVIOUS
    <3>1. CASE Live(s)  BY <3>1, <2>2, <1>1 DEF Live
    <3>2. CASE ~Live(s)
      <4>1. client'[s] = client[s]  BY <3>2, <1>1 DEF Hangs
      <4>2. client[s] \in {"none", "closing"}  BY <3>2 DEF Live, LineInv, Reports
      <4>3. QED  BY <4>1, <4>2
    <3>3. QED  BY <3>1, <3>2
  <2>4. \A s \in Sockets : client'[s] = "closing" => intentional'
    <3> SUFFICES ASSUME NEW s \in Sockets, client'[s] = "closing"  PROVE intentional'
      OBVIOUS
    <3>1. CASE wsRef = NoSocket
      <4>1. client[s] = "closing"  BY <3>1, <1>1, SocketAssumption DEF Hangs
      <4>2. intentional  BY <4>1, <2>1 DEF Followed
      <4>3. QED  BY <4>2
    <3>2. CASE wsRef # NoSocket  BY <3>2
    <3>3. QED  BY <3>1, <3>2
  <2>5. QED  BY <2>1, <2>3, <2>4 DEF Followed, Live
<1>4. QED  BY <1>2, <1>3 DEF LineInv

LEMMA OpenKeepsLine ==
    ASSUME LineInv, NEW s \in Sockets, OnOpen(s)
    PROVE  LineInv'
<1>1. client[s] = "connecting" /\ client' = [client EXCEPT ![s] = "open"]
  BY DEF OnOpen
<1>2. UNCHANGED <<wsRef, timer, lostTimers, following, intentional, mounted, replaced>>
  BY DEF OnOpen
<1>3. \A t \in Sockets : client'[t] = IF t = s THEN "open" ELSE client[t]
  BY <1>1 DEF LineInv
<1>4. client' \in [Sockets -> Reports]  BY <1>1 DEF LineInv, Reports
<1>5. QED  BY <1>1, <1>2, <1>3, <1>4 DEF LineInv, Followed, Live

\* A close that the hook did not ask for is of its only socket, and leads to
\* the only timer.
LEMMA CloseKeepsLine ==
    ASSUME LineInv, NEW s \in Sockets, OnClose(s)
    PROVE  LineInv'
<1>1. client' = [client EXCEPT ![s] = "none"] /\ client[s] # "none"
  BY DEF OnClose, Live
<1>2. \A t \in Sockets : client'[t] = IF t = s THEN "none" ELSE client[t]
  BY <1>1 DEF LineInv
<1>3. UNCHANGED <<wsRef, following, intentional, mounted, replaced>>
  BY DEF OnClose
<1>4. client' \in [Sockets -> Reports]  BY <1>1 DEF LineInv, Reports
<1>5. CASE Reconnects /\ ~intentional /\ following
  <2>1. ASSUME ~replaced'  PROVE Followed'
    <3>1. Followed  BY <2>1, <1>3 DEF LineInv
    <3>2. client[s] # "closing"  BY <3>1, <1>5 DEF Followed
    <3>3. mounted  BY <3>1, <3>2 DEF Followed, OnClose
    <3>4. \A t \in Sockets : client'[t] = "none"  BY <3>1, <1>1, <1>2 DEF Followed
    <3>5. ~timer  BY <3>1, <1>1 DEF Followed
    <3>6. lostTimers' = 0  BY <3>1, <3>5, <1>5 DEF Followed, Reconnects
    <3>7. QED  BY <3>3, <3>4, <3>6, <1>3, <1>5 DEF Followed, Live
  <2>2. QED  BY <2>1, <1>4, <1>5 DEF LineInv, Reconnects
<1>6. CASE UNCHANGED <<retries, timer, lostTimers>>
  BY <1>1, <1>2, <1>3, <1>4, <1>6 DEF LineInv, Followed, Live
<1>7. QED  BY <1>5, <1>6 DEF OnClose

\* The timer's callback opens a socket when there is none.
LEMMA TimerKeepsLine ==
    ASSUME LineInv, TimerFires
    PROVE  LineInv'
<1> DEFINE n == NextSocket
<1>0. timer /\ ~timer' /\ Redial
      /\ UNCHANGED <<lostTimers, following, intentional, mounted, replaced>>
  BY DEF TimerFires
<1>1. CASE following
  <2>1. wsRef' = n /\ client' = [client EXCEPT ![n] = "connecting"]
    BY <1>0, <1>1 DEF Redial, Dial
  <2>2. \A t \in Sockets : client'[t] = IF t = n THEN "connecting" ELSE client[t]
    BY <2>1 DEF LineInv
  <2>3. client' \in [Sockets -> Reports]  BY <2>1 DEF LineInv, Reports
  <2>4. timer' = FALSE  BY DEF TimerFires
  <2>5. ASSUME ~replaced'  PROVE Followed'
    <3>1. Followed  BY <2>5, <1>0 DEF LineInv
    <3>2. mounted /\ \A t \in Sockets : client[t] = "none"  BY <3>1, <1>0 DEF Followed
    <3>3. \A t \in Sockets : client'[t] = IF t = n THEN "connecting" ELSE "none"
      BY <3>2, <2>2
    <3>4. QED  BY <3>1, <3>2, <3>3, <2>1, <1>0, <1>1 DEF Followed, Live
  <2>6. QED  BY <2>3, <2>4, <2>5 DEF LineInv
<1>2. CASE ~following
  <2>1. UNCHANGED <<client, wsRef>>  BY <1>0, <1>2 DEF Redial
  <2>2. timer' = FALSE  BY DEF TimerFires
  <2>3. QED  BY <1>0, <2>1, <2>2 DEF LineInv, Followed, Live
<1>3. QED  BY <1>1, <1>2

LEMMA LostTimerKeepsLine ==
    ASSUME LineInv, LostTimerFires
    PROVE  LineInv'
<1>1. lostTimers > 0 /\ UNCHANGED <<timer, replaced>> /\ Redial
  BY DEF LostTimerFires
<1>2. client' \in [Sockets -> Reports]
  BY <1>1 DEF LineInv, Redial, Dial, Reports
<1>3. replaced  BY <1>1 DEF LineInv, Followed
<1>4. QED  BY <1>1, <1>2, <1>3 DEF LineInv

\* What happens on the server's side reaches the hook only as events.
LEMMA RelayKeepsLine ==
    ASSUME LineInv,
           \/ \E s \in Sockets : \/ Relay(Unreachable(s)) \/ Relay(Endpoint(s))
                                 \/ Relay(Break(s)) \/ Relay(Reject(s))
           \/ \E k \in Kinds : Relay(Publish(k))
           \/ Relay(ServerStops)
           \/ Relay(ServerStarts)
    PROVE  LineInv'
<1>1. UNCHANGED hookVars  BY DEF Relay
<1>2. UNCHANGED client
  BY DEF Relay, Unreachable, Endpoint, Accept, Send, Sent, Depart, Break, Reject,
         Publish, ServerStops, ServerStarts
<1>3. QED  BY <1>1, <1>2, LineUntouched

LEMMA MessageKeepsLine ==
    ASSUME LineInv, NEW s \in Sockets, OnMessage(s)
    PROVE  LineInv'
<1>1. UNCHANGED <<client, hookVars>>  BY DEF OnMessage
<1>2. QED  BY <1>1, LineUntouched

LEMMA LineStep ==
    ASSUME LineInv, [Next]_vars
    PROVE  LineInv'
<1>1. CASE Connect  BY <1>1, ConnectKeepsLine
<1>2. CASE Disconnect
  <2>1. HangUp /\ timer' = FALSE /\ UNCHANGED <<lostTimers, replaced>>
        /\ (intentional \/ wsRef # NoSocket => intentional')
    BY <1>2 DEF Disconnect, Cleanup
  <2>2. QED  BY <2>1, HangUpKeepsLine
<1>3. CASE Unmount
  <2>1. HangUp /\ timer' = FALSE /\ UNCHANGED <<lostTimers, replaced>> /\ intentional'
    BY <1>3 DEF Unmount
  <2>2. QED  BY <2>1, HangUpKeepsLine
<1>4. CASE Browser
  BY <1>4, OpenKeepsLine, CloseKeepsLine, TimerKeepsLine, LostTimerKeepsLine,
     RelayKeepsLine, MessageKeepsLine DEF Browser
<1>5. CASE Overlay
  BY <1>5, LineUntouched DEF Overlay, relayVars
<1>6. CASE UNCHANGED vars
  BY <1>6, LineUntouched DEF vars, relayVars
<1>7. QED
  BY <1>1, <1>2, <1>3, <1>4, <1>5, <1>6, RelayKeepsLine DEF Next

\* One socket or one pending reconnect, and none after disconnect or unmount,
\* unless connect came before a close was reported (useWebSocketSync.ts).
THEOREM OneLineHolds == Spec => []OneLine
<1>1. LineInv => OneLine
  <2> SUFFICES ASSUME LineInv, ~replaced
               PROVE  /\ Cardinality(Lines) + Timers <= 1
                      /\ Lines \subseteq {wsRef}
                      /\ ~following \/ ~mounted => Lines = {} /\ Timers = 0
    BY DEF OneLine
  <2>1. Followed  BY DEF LineInv
  <2>2. Lines \subseteq {wsRef}  BY <2>1 DEF Followed, Lines
  <2>3. Timers = IF timer THEN 1 ELSE 0  BY <2>1 DEF Timers, Followed
  <2>4. timer => Lines = {}  BY <2>1 DEF Followed, Lines, Live
  <2>5. Lines = {} \/ Lines = {wsRef}  BY <2>2
  <2>6. Cardinality({}) = 0 /\ Cardinality({wsRef}) = 1
    BY FS_EmptySet, FS_Singleton
  <2>7. Cardinality(Lines) + Timers <= 1  BY <2>3, <2>4, <2>5, <2>6
  <2>8. ~following \/ ~mounted => Lines = {} /\ Timers = 0
    BY <2>1, <2>3 DEF Followed, Lines
  <2>9. QED  BY <2>2, <2>7, <2>8
<1>2. LineInv /\ [Next]_vars => LineInv'  BY LineStep
<1>3. QED  BY LineStarts, <1>1, <1>2, PTL DEF Spec

(***************************************************************************)
(* A list without some of its entries                                      *)
(***************************************************************************)
Kept(list, gone) == {p \in DOMAIN list : list[p] \notin gone}
Place(list, gone, p) == Cardinality({q \in Kept(list, gone) : q <= p})

LEMMA FirstNumbers ==
    ASSUME NEW n \in Nat
    PROVE  IsFiniteSet(1..n) /\ Cardinality(1..n) = n
<1>1. 1 \in Int /\ n \in Int
  OBVIOUS
<1>2. /\ IsFiniteSet(1..n)
      /\ Cardinality(1..n) = IF 1 > n THEN 0 ELSE n - 1 + 1
  BY <1>1, FS_Interval, Zenon
<1>. QED  BY <1>2

LEMMA PlacesGrow ==
    ASSUME NEW S, NEW list \in Seq(S), NEW gone
    PROVE  /\ Kept(list, gone) \subseteq 1..Len(list) /\ IsFiniteSet(Kept(list, gone))
           /\ Cardinality(Kept(list, gone)) \in Nat
           /\ Cardinality(Kept(list, gone)) <= Len(list)
           /\ \A p \in Kept(list, gone) :
                 Place(list, gone, p) \in 1..Cardinality(Kept(list, gone))
           /\ \A p, q \in Kept(list, gone) :
                 p < q => Place(list, gone, p) < Place(list, gone, q)
<1> DEFINE K == Kept(list, gone)
           upTo(p) == {q \in K : q <= p}
<1>1. /\ K \subseteq 1..Len(list) /\ Len(list) \in Nat
      /\ IsFiniteSet(1..Len(list)) /\ Cardinality(1..Len(list)) = Len(list)
  BY FS_Interval DEF Kept
<1>2. IsFiniteSet(K) /\ Cardinality(K) <= Len(list) /\ Cardinality(K) \in Nat
  BY <1>1, FS_Subset, FS_CardinalityType
<1>3. \A p \in K : IsFiniteSet(upTo(p)) /\ Cardinality(upTo(p)) \in Nat
  BY <1>2, FS_Subset, FS_CardinalityType
<1>4. ASSUME NEW p \in K  PROVE Place(list, gone, p) \in 1..Cardinality(K)
  <2>1. Cardinality(upTo(p)) <= Cardinality(K)
    BY <1>2, FS_Subset
  <2>2. upTo(p) # {}
    BY <1>1
  <2>3. Cardinality(upTo(p)) # 0
    BY <1>3, <2>2, FS_EmptySet
  <2>4. Cardinality(upTo(p)) \in Nat
    BY <1>3
  <2>5. Place(list, gone, p) = Cardinality(upTo(p))
    BY DEF Place
  <2> HIDE DEF upTo, K
  <2>. QED
    BY <1>2, <2>1, <2>3, <2>4, <2>5
<1>5. ASSUME NEW p \in K, NEW q \in K, p < q
      PROVE  Place(list, gone, p) < Place(list, gone, q)
  <2>1. upTo(p) \subseteq upTo(q) /\ q \in upTo(q) \ upTo(p)
    BY <1>1, <1>5
  <2>2. /\ Cardinality(upTo(p)) <= Cardinality(upTo(q))
        /\ Cardinality(upTo(p)) # Cardinality(upTo(q))
    BY <1>3, <2>1, FS_Subset
  <2>3. Cardinality(upTo(p)) \in Nat /\ Cardinality(upTo(q)) \in Nat
    BY <1>3
  <2>4. /\ Place(list, gone, p) = Cardinality(upTo(p))
        /\ Place(list, gone, q) = Cardinality(upTo(q))
    BY DEF Place
  <2> HIDE DEF upTo, K
  <2>. QED
    BY <2>2, <2>3, <2>4
<1>. QED  BY <1>1, <1>2, <1>4, <1>5

\* Every place up to the number of entries kept is that of one of them.
LEMMA PlacesFill ==
    ASSUME NEW S, NEW list \in Seq(S), NEW gone,
           NEW n \in 1..Cardinality(Kept(list, gone))
    PROVE  \E p \in Kept(list, gone) : Place(list, gone, p) = n
<1> DEFINE K == Kept(list, gone)
           N == 1..Cardinality(K)
           f == [p \in K |-> Place(list, gone, p)]
<1>1. /\ K \subseteq 1..Len(list) /\ Len(list) \in Nat /\ Cardinality(K) \in Nat
      /\ \A p \in K : f[p] \in N
      /\ \A p, q \in K : p < q => f[p] < f[q]
  BY PlacesGrow
<1>2. f \in Injection(K, N)
  <2>1. f \in [K -> N]
    BY <1>1
  <2>2. \A p, q \in K : f[p] = f[q] => p = q
    <3> SUFFICES ASSUME NEW p \in K, NEW q \in K, p # q  PROVE f[p] # f[q]
      OBVIOUS
    <3>1. p \in Nat /\ q \in Nat /\ f[p] \in Nat /\ f[q] \in Nat
      BY <1>1
    <3>. QED  BY <1>1, <3>1
  <2>. QED  BY <2>1, <2>2 DEF Injection, IsInjective
<1>3. IsFiniteSet(N) /\ Cardinality(N) = Cardinality(K)
  BY <1>1, FS_Interval
<1>4. f \in Surjection(K, N)
  BY <1>2, <1>3, FS_Injection
<1>. QED  BY <1>4 DEF Surjection

LEMMA WithoutIs ==
    ASSUME NEW S, NEW list \in Seq(S), NEW gone
    PROVE  /\ Without(list, gone) \in Seq(S)
           /\ Len(Without(list, gone)) <= Len(list)
           /\ \A p \in Kept(list, gone) :
                 /\ Place(list, gone, p) \in DOMAIN Without(list, gone)
                 /\ Without(list, gone)[Place(list, gone, p)] = list[p]
           /\ \A n \in DOMAIN Without(list, gone) :
                 \E p \in Kept(list, gone) :
                    Place(list, gone, p) = n /\ Without(list, gone)[n] = list[p]
<1> DEFINE K == Kept(list, gone)
           N == 1..Cardinality(K)
           at(n) == CHOOSE p \in K : Place(list, gone, p) = n
<1>1. /\ K \subseteq 1..Len(list) /\ Len(list) \in Nat /\ Cardinality(K) \in Nat
      /\ Cardinality(K) <= Len(list)
      /\ \A p \in K : Place(list, gone, p) \in N
      /\ \A p, q \in K : p < q => Place(list, gone, p) < Place(list, gone, q)
  BY PlacesGrow
<1>2. Without(list, gone) = [n \in N |-> list[at(n)]]
  BY DEF Without, Kept, Place
<1>3. \A n \in N : at(n) \in K /\ Place(list, gone, at(n)) = n
  BY PlacesFill
<1>4. \A p \in K : at(Place(list, gone, p)) = p
  <2> SUFFICES ASSUME NEW p \in K, NEW q \in K, Place(list, gone, q) = Place(list, gone, p)
               PROVE  p = q
    BY <1>1, <1>3
  <2>1. p \in Nat /\ q \in Nat /\ Place(list, gone, p) \in Nat
    BY <1>1
  <2>. QED  BY <1>1, <2>1
<1>5. \A p \in K : list[p] \in S
  BY <1>1
<1> HIDE DEF at
<1>6. Without(list, gone) \in [1..Cardinality(K) -> S]
  BY <1>2, <1>3, <1>5
<1>7. Without(list, gone) \in Seq(S) /\ Len(Without(list, gone)) = Cardinality(K)
  BY <1>1, <1>6
<1>. QED  BY <1>1, <1>2, <1>3, <1>4, <1>7

LEMMA WithoutKeeps ==
    ASSUME NEW S, NEW list \in Seq(S), IsInjective(list), NEW gone
    PROVE  /\ Without(list, gone) \in Seq(S \ gone)
           /\ ToSet(Without(list, gone)) = ToSet(list) \ gone
           /\ IsInjective(Without(list, gone))
           /\ Len(Without(list, gone)) <= Len(list)
<1> DEFINE W == Without(list, gone)
           K == Kept(list, gone)
<1>1. /\ W \in Seq(S) /\ Len(W) <= Len(list)
      /\ \A p \in K : Place(list, gone, p) \in DOMAIN W /\ W[Place(list, gone, p)] = list[p]
      /\ \A n \in DOMAIN W : \E p \in K : Place(list, gone, p) = n /\ W[n] = list[p]
  BY WithoutIs
<1>2. K \subseteq DOMAIN list /\ \A p \in DOMAIN list : p \in K <=> list[p] \notin gone
  BY DEF Kept
<1> HIDE DEF W, K
<1>3. W \in Seq(S \ gone)
  <2>1. \A n \in 1..Len(W) : W[n] \in S \ gone
    BY <1>1, <1>2
  <2>. QED  BY <1>1, <2>1
<1>4. ToSet(W) = ToSet(list) \ gone
  BY <1>1, <1>2 DEF ToSet
<1>5. IsInjective(W)
  <2> SUFFICES ASSUME NEW m \in DOMAIN W, NEW n \in DOMAIN W, W[m] = W[n]  PROVE m = n
    BY DEF IsInjective
  <2>1. PICK p \in K : Place(list, gone, p) = m /\ W[m] = list[p]
    BY <1>1
  <2>2. PICK q \in K : Place(list, gone, q) = n /\ W[n] = list[q]
    BY <1>1
  <2>3. p = q
    BY <1>2, <2>1, <2>2 DEF IsInjective
  <2>. QED  BY <2>1, <2>2, <2>3
<1>. QED  BY <1>1, <1>3, <1>4, <1>5 DEF W

\* An entry at a place from which on all that goes is, stays behind that place.
LEMMA WithoutBehind ==
    ASSUME NEW S, NEW list \in Seq(S), NEW gone, NEW next \in Nat \ {0},
           \A p \in DOMAIN list : p < next => list[p] \notin gone,
           NEW p \in Kept(list, gone), p >= next
    PROVE  Place(list, gone, p) >= next
<1> DEFINE upTo == {q \in Kept(list, gone) : q <= p}
<1>1. Kept(list, gone) \subseteq 1..Len(list) /\ IsFiniteSet(Kept(list, gone))
  BY PlacesGrow
<1>2. IsFiniteSet(upTo) /\ Cardinality(upTo) \in Nat
  BY <1>1, FS_Subset, FS_CardinalityType
<1>3. 1..next \subseteq 1..p /\ Len(list) \in Nat /\ p \in 1..Len(list)
  BY <1>1
<1>4. (1..(next - 1)) \cup {p} \subseteq upTo
  BY <1>1, <1>3 DEF Kept
<1> DEFINE first == 1..(next - 1)
<1>5. IsFiniteSet(first) /\ Cardinality(first) = next - 1 /\ p \notin first
  <2>1. next - 1 \in Nat /\ p \notin first
    OBVIOUS
  <2>. QED  BY <2>1, FirstNumbers
<1>6. Cardinality(first \cup {p}) = next
  <2> HIDE DEF first
  <2>1. Cardinality(first \cup {p}) = IF p \in first THEN Cardinality(first) ELSE Cardinality(first) + 1
    BY <1>5, FS_AddElement
  <2>. QED  BY <1>5, <2>1
<1>7. Cardinality((1..(next - 1)) \cup {p}) <= Cardinality(upTo)
  BY <1>2, <1>4, FS_Subset
<1>. QED  BY <1>2, <1>6, <1>7 DEF Place

(***************************************************************************)
(* Type correctness                                                        *)
(***************************************************************************)
Casts == [next : 1..(Cardinality(Sockets) + 1), dead : SUBSET Sockets]

RelayTypes ==
    /\ client \in [Sockets -> Reports]
    /\ broken \subseteq Sockets
    /\ wire \in [Sockets -> Seq(Events)]
    /\ up \in BOOLEAN
    /\ relaying \subseteq Sockets
    /\ active \in Seq(relaying) /\ IsInjective(active)
    /\ queue \in [Sockets -> Seq(Kinds)]
    /\ cast \in [Sockets -> Casts]
    /\ published \in Seq(Kinds)
    /\ drops \in 0..MaxDrops
    /\ since \in [Sockets -> Nat] /\ \A s \in Sockets : since[s] <= Len(published)
    /\ disturbed \in BOOLEAN

\* A list of different sockets is no longer than there are sockets.
LEMMA ListFits ==
    ASSUME RelayTypes
    PROVE  Len(active) \in Nat /\ Len(active) <= Cardinality(Sockets) /\ Cardinality(Sockets) \in Nat
<1>1. active \in [1..Len(active) -> Sockets] /\ Len(active) \in Nat
  BY DEF RelayTypes
<1>2. active \in Injection(1..Len(active), Sockets)
  BY <1>1 DEF RelayTypes, Injection, IsInjective
<1>3. IsFiniteSet(Sockets) /\ Cardinality(Sockets) \in Nat
  BY RelayAssumption, FS_CardinalityType
<1>4. IsFiniteSet(1..Len(active)) /\ Cardinality(1..Len(active)) = Len(active)
  BY <1>1, FirstNumbers
<1>. QED  BY <1>1, <1>2, <1>3, <1>4, FS_Injection

LEMMA ListIs ==
    ASSUME RelayTypes
    PROVE  /\ Len(active) \in Nat /\ DOMAIN active = 1..Len(active)
           /\ \A p \in 1..Len(active) : active[p] \in relaying /\ active[p] \in Sockets
           /\ \A p, q \in 1..Len(active) : active[p] = active[q] => p = q
<1>1. active \in Seq(relaying) /\ relaying \subseteq Sockets /\ IsInjective(active)
  BY DEF RelayTypes
<1>2. /\ Len(active) \in Nat /\ DOMAIN active = 1..Len(active)
      /\ \A p \in 1..Len(active) : active[p] \in relaying
  BY <1>1
<1>. QED  BY <1>1, <1>2 DEF IsInjective

LEMMA AcceptTypes ==
    ASSUME RelayTypes, NEW s \in Sockets, Accept(s)
    PROVE  RelayTypes'
<1>1. active' \in Seq(relaying') /\ IsInjective(active')
  <2>1. active \in Seq(relaying') /\ s \in relaying' /\ active' = Append(active, s)
    BY DEF RelayTypes, Accept
  <2>2. active' \in Seq(relaying') /\ Len(active') = Len(active) + 1
        /\ active'[Len(active) + 1] = s
        /\ \A n \in 1..Len(active) : active'[n] = active[n] /\ active[n] # s
    <3>1. \A n \in 1..Len(active) : active[n] # s
      BY ListIs DEF Accept
    <3>. QED  BY <2>1, <3>1
  <2>3. \A m, n \in 1..Len(active) : active[m] = active[n] => m = n
    BY DEF RelayTypes, IsInjective
  <2>4. Len(active) \in Nat /\ DOMAIN active' = 1..(Len(active) + 1)
    BY <2>2 DEF RelayTypes
  <2>5. IsInjective(active')
    BY <2>2, <2>3, <2>4 DEF IsInjective
  <2>. QED  BY <2>2, <2>5
<1>2. wire' \in [Sockets -> Seq(Events)]
  BY DEF RelayTypes, Accept, Events
<1>3. since' \in [Sockets -> Nat] /\ \A t \in Sockets : since'[t] <= Len(published')
  <2>1. Len(published) \in Nat
    BY DEF RelayTypes
  <2>. QED  BY <2>1 DEF RelayTypes, Accept
<1>. QED  BY <1>1, <1>2, <1>3 DEF RelayTypes, Accept

\* What a send changes: how far its broadcast is, and the wire of the socket
\* whose turn it is.
LEMMA SendEffect ==
    ASSUME RelayTypes, NEW s \in Sockets, Send(s)
    PROVE  \E t \in Sockets :
              /\ cast[s].next \in 1..Len(active) /\ t = active[cast[s].next]
              /\ cast' = [cast EXCEPT ![s] = [next |-> cast[s].next + 1,
                             dead |-> IF t \in broken THEN cast[s].dead \cup {t}
                                      ELSE cast[s].dead]]
              /\ wire' = [wire EXCEPT ![t] = IF t \in broken THEN wire[t]
                                             ELSE Append(wire[t], Head(queue[s]))]
              /\ queue[s] # <<>> /\ Head(queue[s]) \in Kinds
<1>1. cast[s].next \in 1..Len(active) /\ active[cast[s].next] \in Sockets
  BY ListIs DEF Send
<1> PICK t \in Sockets : t = active[cast[s].next]
  BY <1>1
<1>2. cast \in [Sockets -> Casts] /\ cast[s] = [next |-> cast[s].next, dead |-> cast[s].dead]
  BY DEF RelayTypes, Casts
<1>3. cast' = [cast EXCEPT ![s] = [next |-> cast[s].next + 1,
                  dead |-> IF t \in broken THEN cast[s].dead \cup {t} ELSE cast[s].dead]]
  <2>1. CASE t \in broken
    <3>1. cast' = [cast EXCEPT ![s] = [next |-> @.next + 1, dead |-> @.dead \cup {t}]]
      BY <2>1 DEF Send
    <3>. QED  BY <2>1, <3>1
  <2>2. CASE t \notin broken
    <3>1. cast' = [cast EXCEPT ![s].next = @ + 1]
      BY <2>2 DEF Send
    <3>2. [cast[s] EXCEPT !.next = @ + 1] = [next |-> cast[s].next + 1, dead |-> cast[s].dead]
      BY <1>2
    <3>. QED  BY <1>2, <2>2, <3>1, <3>2
  <2>. QED  BY <2>1, <2>2
<1>4. wire' = [wire EXCEPT ![t] = IF t \in broken THEN wire[t]
                                  ELSE Append(wire[t], Head(queue[s]))]
  <2>1. wire \in [Sockets -> Seq(Events)]
    BY DEF RelayTypes
  <2>2. CASE t \in broken
    BY <2>1, <2>2 DEF Send
  <2>3. CASE t \notin broken
    BY <2>1, <2>3 DEF Send
  <2>. QED  BY <2>2, <2>3
<1>5. queue[s] # <<>> /\ Head(queue[s]) \in Kinds
  BY DEF RelayTypes, Send
<1>. QED  BY <1>1, <1>3, <1>4, <1>5

LEMMA SendTypes ==
    ASSUME RelayTypes, NEW s \in Sockets, Send(s)
    PROVE  RelayTypes'
<1>1. PICK t \in Sockets :
              /\ cast[s].next \in 1..Len(active) /\ t = active[cast[s].next]
              /\ cast' = [cast EXCEPT ![s] = [next |-> cast[s].next + 1,
                             dead |-> IF t \in broken THEN cast[s].dead \cup {t}
                                      ELSE cast[s].dead]]
              /\ wire' = [wire EXCEPT ![t] = IF t \in broken THEN wire[t]
                                             ELSE Append(wire[t], Head(queue[s]))]
              /\ queue[s] # <<>> /\ Head(queue[s]) \in Kinds
  BY SendEffect
<1>2. cast[s].next + 1 \in 1..(Cardinality(Sockets) + 1)
  BY <1>1, ListFits
<1>3. wire' \in [Sockets -> Seq(Events)]
  <2>1. wire \in [Sockets -> Seq(Events)] /\ wire[t] \in Seq(Events) /\ Head(queue[s]) \in Events
    BY <1>1 DEF RelayTypes, Events
  <2>2. Append(wire[t], Head(queue[s])) \in Seq(Events)
    BY <2>1
  <2>. QED  BY <1>1, <2>1, <2>2
<1>4. cast' \in [Sockets -> Casts]
  <2>1. cast \in [Sockets -> Casts] /\ cast[s].dead \subseteq Sockets
    BY DEF RelayTypes, Casts
  <2>2. [next |-> cast[s].next + 1,
         dead |-> IF t \in broken THEN cast[s].dead \cup {t} ELSE cast[s].dead] \in Casts
    BY <1>2, <2>1 DEF Casts
  <2>. QED  BY <1>1, <2>1, <2>2
<1>. QED  BY <1>3, <1>4 DEF RelayTypes, Send

LEMMA IdleIsCast == Idle \in Casts
<1>1. Cardinality(Sockets) \in Nat
  BY RelayAssumption, FS_CardinalityType
<1>. QED  BY <1>1 DEF Idle, Casts

LEMMA SentTypes ==
    ASSUME RelayTypes, NEW s \in Sockets, Sent(s)
    PROVE  RelayTypes'
<1>1. active' \in Seq(relaying \ cast[s].dead) /\ IsInjective(active')
  BY WithoutKeeps DEF RelayTypes, Sent
<1>2. active' \in Seq(relaying')
  BY <1>1 DEF Sent
<1>3. queue' \in [Sockets -> Seq(Kinds)]
  BY DEF RelayTypes, Sent
<1>4. cast' \in [Sockets -> Casts]
  BY IdleIsCast DEF RelayTypes, Sent
<1>5. disturbed' \in BOOLEAN
  BY DEF RelayTypes, Sent
<1>. QED  BY <1>1, <1>2, <1>3, <1>4, <1>5 DEF RelayTypes, Sent

LEMMA DepartTypes ==
    ASSUME RelayTypes, NEW s \in Sockets, Depart(s)
    PROVE  RelayTypes'
<1>1. active' \in Seq(relaying \ {s}) /\ IsInjective(active')
  BY WithoutKeeps DEF RelayTypes, Depart
<1>2. queue' \in [Sockets -> Seq(Kinds)]
  BY DEF RelayTypes, Depart
<1>3. cast' \in [Sockets -> Casts]
  BY IdleIsCast DEF RelayTypes, Depart
<1>4. disturbed' \in BOOLEAN
  BY DEF RelayTypes, Depart
<1>5. since' \in [Sockets -> Nat] /\ \A t \in Sockets : since'[t] <= Len(published')
  <2>1. Len(published) \in Nat
    BY DEF RelayTypes
  <2>. QED  BY <2>1 DEF RelayTypes, Depart
<1>. QED  BY <1>1, <1>2, <1>3, <1>4, <1>5 DEF RelayTypes, Depart

LEMMA PublishTypes ==
    ASSUME RelayTypes, NEW k \in Kinds, Publish(k)
    PROVE  RelayTypes'
<1>1. published' \in Seq(Kinds) /\ Len(published') = Len(published) + 1 /\ Len(published) \in Nat
  BY DEF RelayTypes, Publish
<1>2. queue' \in [Sockets -> Seq(Kinds)]
  BY DEF RelayTypes, Publish
<1>3. \A s \in Sockets : since'[s] <= Len(published')
  BY <1>1 DEF RelayTypes, Publish
<1>. QED  BY <1>1, <1>2, <1>3 DEF RelayTypes, Publish

LEMMA StopTypes ==
    ASSUME RelayTypes, ServerStops
    PROVE  RelayTypes'
<1>1. active' = <<>> /\ active' \in Seq(relaying') /\ IsInjective(active')
  BY DEF ServerStops, IsInjective
<1>2. cast' \in [Sockets -> Casts]
  BY IdleIsCast DEF ServerStops
<1>3. drops' \in 0..MaxDrops
  BY RelayAssumption DEF RelayTypes, ServerStops, Drop
<1>4. since' \in [Sockets -> Nat] /\ \A t \in Sockets : since'[t] <= Len(published')
  BY DEF RelayTypes, ServerStops
<1>5. wire' \in [Sockets -> Seq(Events)] /\ queue' \in [Sockets -> Seq(Kinds)]
  BY DEF ServerStops
<1>. QED  BY <1>1, <1>2, <1>3, <1>4, <1>5 DEF RelayTypes, ServerStops

LEMMA FaultTypes ==
    ASSUME RelayTypes, NEW s \in Sockets, Break(s) \/ Reject(s) \/ Unreachable(s)
    PROVE  RelayTypes'
<1>1. drops' \in 0..MaxDrops
  BY RelayAssumption DEF RelayTypes, Break, Reject, Unreachable, Drop
<1>2. wire' \in [Sockets -> Seq(Events)]
  <2>1. wire \in [Sockets -> Seq(Events)] /\ <<>> \in Seq(Events) /\ <<"open">> \in Seq(Events)
    BY DEF RelayTypes, Events
  <2>. QED  BY <2>1 DEF Break, Reject, Unreachable
<1>. QED
  BY <1>1, <1>2 DEF RelayTypes, Break, Reject, Unreachable, endpointVars

LEMMA StartTypes ==
    ASSUME RelayTypes, ServerStarts
    PROVE  RelayTypes'
BY DEF RelayTypes, ServerStarts, endpointVars

-----------------------------------------------------------------------------
(* Steps of the hook *)

LEMMA NextIs ==
    ASSUME \E s \in Sockets : Unused(s)
    PROVE  NextSocket \in Sockets /\ Unused(NextSocket)
BY DEF NextSocket

LEMMA HangUpTypes ==
    ASSUME RelayTypes, HangUp, LineInv', UNCHANGED <<up, endpointVars, published, drops>>
    PROVE  RelayTypes'
<1>1. wire' \in [Sockets -> Seq(Events)]
  BY DEF RelayTypes, HangUp
<1>2. broken' \subseteq Sockets
  BY DEF RelayTypes, HangUp
<1>. QED  BY <1>1, <1>2 DEF RelayTypes, LineInv, endpointVars

LEMMA ConnectTypes ==
    ASSUME RelayTypes, Connect, LineInv'
    PROVE  RelayTypes'
<1>1. wire' \in [Sockets -> Seq(Events)]
  BY DEF RelayTypes, Connect
<1>2. broken' \subseteq Sockets
  BY DEF RelayTypes, Connect
<1>3. UNCHANGED <<up, endpointVars, published, drops>>
  BY DEF Connect
<1>. QED  BY <1>1, <1>2, <1>3 DEF RelayTypes, LineInv, endpointVars

LEMMA ReadTypes ==
    ASSUME RelayTypes, NEW s \in Sockets, OnOpen(s) \/ OnMessage(s), LineInv'
    PROVE  RelayTypes'
<1>1. wire' = [wire EXCEPT ![s] = Tail(wire[s])] /\ wire[s] # <<>>
      /\ UNCHANGED <<broken, up, endpointVars, published, drops>>
  BY DEF OnOpen, OnMessage
<1>2. wire \in [Sockets -> Seq(Events)] /\ wire[s] \in Seq(Events)
  BY DEF RelayTypes
<1>3. wire' \in [Sockets -> Seq(Events)]
  <2>1. Tail(wire[s]) \in Seq(Events)
    BY <1>1, <1>2
  <2>. QED  BY <1>1, <1>2, <2>1
<1>. QED  BY <1>1, <1>3 DEF RelayTypes, LineInv, endpointVars

LEMMA LineTypes ==
    ASSUME RelayTypes, LineInv',
           (\E s \in Sockets : OnClose(s)) \/ TimerFires \/ LostTimerFires
    PROVE  RelayTypes'
<1>1. UNCHANGED <<wire, up, endpointVars, published, drops>>
  BY DEF OnClose, TimerFires, LostTimerFires
<1>2. broken' \subseteq broken
  BY DEF OnClose, TimerFires, LostTimerFires, Redial, Dial
<1>. QED  BY <1>1, <1>2 DEF RelayTypes, LineInv, endpointVars

InUse == {s \in Sockets : client[s] # "none"}

\* Each socket and each timer goes back to a call of connect.
HookTypes ==
    /\ status \in Statuses
    /\ following \in BOOLEAN /\ intentional \in BOOLEAN /\ mounted \in BOOLEAN
    /\ replaced \in BOOLEAN
    /\ wsRef \in Sockets \cup {NoSocket}
    /\ retries \in 0..MAX_RETRIES
    /\ lostTimers \in Nat
    /\ connects \in 0..MaxConnects
    /\ Cardinality(InUse) + Timers <= connects

LEMMA InUseFinite ==
    /\ IsFiniteSet(InUse) /\ Cardinality(InUse) \in Nat
    /\ IsFiniteSet(InUse') /\ Cardinality(InUse') \in Nat
<1>1. IsFiniteSet(Sockets)
  BY RelayAssumption
<1>2. InUse \subseteq Sockets /\ InUse' \subseteq Sockets
  BY DEF InUse
<1>. QED  BY <1>1, <1>2, FS_Subset, FS_CardinalityType

LEMMA HookUntouched ==
    ASSUME HookTypes, UNCHANGED <<client, hookVars>>, status' \in Statuses
    PROVE  HookTypes'
<1>1. InUse' = InUse /\ Timers' = Timers
  BY DEF InUse, Timers, hookVars
<1>. QED  BY <1>1 DEF HookTypes, hookVars

LEMMA StatusTyped ==
    ASSUME NEW k \in Events \ {"open", Untyped}
    PROVE  StatusAfter(k) \in Statuses
BY RelayAssumption DEF Events, StatusAfter, Statuses

LEMMA HookConnect ==
    ASSUME HookTypes, LineInv, Connect
    PROVE  HookTypes'
<1> DEFINE n == NextSocket
<1>1. n \in Sockets /\ client[n] = "none"
  BY NextIs DEF Connect, Unused, Fresh
<1>2. \A t \in Sockets : client'[t] = IF t = n THEN "connecting"
                                      ELSE IF Hangs(t) THEN "closing" ELSE client[t]
  BY DEF Connect
<1>3. InUse' = InUse \cup {n} /\ n \notin InUse
  BY <1>1, <1>2 DEF InUse, Hangs, Live
<1>4. Cardinality(InUse') = Cardinality(InUse) + 1
  BY <1>3, InUseFinite, FS_AddElement
<1>5. Timers' = lostTimers /\ lostTimers <= Timers /\ Timers \in Nat
  BY DEF Timers, Connect, HookTypes
<1>6. connects' \in 0..MaxConnects /\ connects' = connects + 1 /\ connects \in Nat
  BY SocketAssumption DEF Connect, HookTypes
<1>7. Cardinality(InUse') + Timers' <= connects'
  BY <1>4, <1>5, <1>6, InUseFinite DEF HookTypes
<1>8. status' \in Statuses /\ wsRef' = n
  BY DEF Connect, Show, Statuses
<1>9. /\ following' \in BOOLEAN /\ intentional' \in BOOLEAN /\ mounted' \in BOOLEAN
      /\ retries' \in 0..MAX_RETRIES /\ lostTimers' \in Nat
  <2>1. /\ following' = TRUE /\ intentional' = FALSE /\ mounted' = mounted /\ retries' = 0
        /\ lostTimers' = lostTimers
    BY DEF Connect
  <2>2. mounted \in BOOLEAN /\ lostTimers \in Nat /\ 0 \in 0..MAX_RETRIES
    BY DEF HookTypes, MAX_RETRIES
  <2>. QED  BY <2>1, <2>2
<1>10. replaced' \in BOOLEAN
  BY DEF Connect, HookTypes
<1>. QED  BY <1>1, <1>6, <1>7, <1>8, <1>9, <1>10 DEF HookTypes

LEMMA HookHangUp ==
    ASSUME HookTypes, LineInv, Disconnect \/ Unmount
    PROVE  HookTypes'
<1>1. HangUp /\ timer' = FALSE /\ UNCHANGED <<lostTimers, connects, retries, replaced>>
      /\ wsRef' = NoSocket /\ status' = "idle"
      /\ following' \in BOOLEAN /\ intentional' \in BOOLEAN /\ mounted' \in BOOLEAN
  BY DEF Disconnect, Unmount, Cleanup, Show, Leave, HookTypes
<1>2. InUse' = InUse
  BY <1>1 DEF InUse, HangUp, Hangs, Live
<1>3. Timers' = lostTimers /\ lostTimers <= Timers /\ Timers \in Nat
  BY <1>1 DEF Timers, HookTypes
<1>4. Cardinality(InUse') + Timers' <= connects'
  BY <1>1, <1>2, <1>3, InUseFinite DEF HookTypes
<1>. QED  BY <1>1, <1>4 DEF HookTypes, Statuses

LEMMA HookOpen ==
    ASSUME HookTypes, LineInv, NEW s \in Sockets, OnOpen(s)
    PROVE  HookTypes'
<1>1. InUse' = InUse
  BY DEF OnOpen, InUse, LineInv
<1>2. Timers' = Timers
  BY DEF OnOpen, Timers
<1>3. retries' \in 0..MAX_RETRIES
  BY DEF OnOpen, MAX_RETRIES
<1>. QED  BY <1>1, <1>2, <1>3 DEF HookTypes, OnOpen, overlayVars

LEMMA HookMessage ==
    ASSUME HookTypes, RelayTypes, NEW s \in Sockets, OnMessage(s)
    PROVE  HookTypes'
<1>1. UNCHANGED <<client, hookVars>> /\ Head(wire[s]) \in Events
  BY DEF OnMessage, RelayTypes
<1>2. status' \in Statuses
  <2>1. CASE status' = status
    BY <2>1 DEF HookTypes
  <2>2. CASE Head(wire[s]) # Untyped /\ status' = StatusAfter(Head(wire[s]))
    BY <1>1, <2>2, StatusTyped DEF OnMessage
  <2>. QED  BY <2>1, <2>2 DEF OnMessage, SetStatus, Show, overlayVars
<1>. QED  BY <1>1, <1>2, HookUntouched

LEMMA HookClose ==
    ASSUME HookTypes, LineInv, NEW s \in Sockets, OnClose(s)
    PROVE  HookTypes'
<1>1. s \in InUse /\ InUse' = InUse \ {s}
  BY DEF OnClose, InUse, LineInv, Live
<1>2. Cardinality(InUse') = Cardinality(InUse) - 1
  BY <1>1, InUseFinite, FS_RemoveElement
<1>3. Timers \in Nat /\ Timers' \in Nat /\ Timers' <= Timers + 1 /\ lostTimers' \in Nat
      /\ retries' \in 0..MAX_RETRIES
  <2>1. CASE Reconnects /\ retries < MAX_RETRIES
    BY <2>1 DEF Reconnects, Timers, HookTypes, LineInv, MAX_RETRIES
  <2>2. CASE UNCHANGED <<retries, timer, lostTimers>>
    BY <2>2 DEF Timers, HookTypes
  <2>. QED  BY <2>1, <2>2 DEF OnClose
<1>4. connects \in Nat /\ Cardinality(InUse) + Timers <= connects
  BY DEF HookTypes
<1>5. Cardinality(InUse') + Timers' <= connects
  BY <1>2, <1>3, <1>4, InUseFinite
<1>. QED  BY <1>3, <1>5 DEF HookTypes, OnClose, overlayVars

LEMMA TimerForSocket ==
    \A n, t, m, u, c \in Nat : m <= n + 1 /\ u + 1 = t /\ n + t <= c => m + u <= c
OBVIOUS

LEMMA HookTimer ==
    ASSUME HookTypes, LineInv, TimerFires \/ LostTimerFires
    PROVE  HookTypes'
<1>1. Redial /\ Timers \in Nat /\ Timers' \in Nat /\ Timers' + 1 = Timers
      /\ lostTimers' \in Nat
      /\ UNCHANGED <<retries, following, intentional, mounted, connects, replaced, status>>
  BY DEF TimerFires, LostTimerFires, Timers, HookTypes, LineInv, overlayVars
<1>2. wsRef' \in Sockets \cup {NoSocket}
      /\ (InUse' = InUse \/ \E n : InUse' = InUse \cup {n})
  <2>1. CASE following
    <3>1. PICK n \in Sockets : n = NextSocket
      BY <1>1, <2>1, NextIs DEF Redial
    <3>2. wsRef' = n /\ client' = [client EXCEPT ![n] = "connecting"]
      BY <1>1, <2>1, <3>1 DEF Redial, Dial
    <3>3. InUse' = InUse \cup {n}
      BY <3>2 DEF InUse, LineInv
    <3>. QED  BY <3>2, <3>3
  <2>2. CASE ~following
    BY <1>1, <2>2 DEF Redial, HookTypes, InUse
  <2>. QED  BY <2>1, <2>2
<1>3. Cardinality(InUse') <= Cardinality(InUse) + 1
  <2>1. CASE InUse' = InUse
    BY <2>1, InUseFinite
  <2>2. ASSUME NEW n, InUse' = InUse \cup {n}  PROVE Cardinality(InUse') <= Cardinality(InUse) + 1
    <3>1. Cardinality(InUse') = IF n \in InUse THEN Cardinality(InUse) ELSE Cardinality(InUse) + 1
      BY <2>2, InUseFinite, FS_AddElement
    <3>. QED  BY <3>1, InUseFinite
  <2>. QED  BY <1>2, <2>1, <2>2
<1>4. connects \in Nat /\ Cardinality(InUse) + Timers <= connects
  BY DEF HookTypes
<1>5. Cardinality(InUse') + Timers' <= connects
  BY <1>1, <1>3, <1>4, InUseFinite, TimerForSocket, Zenon
<1>. QED  BY <1>1, <1>2, <1>5 DEF HookTypes

-----------------------------------------------------------------------------
(* All together *)

TypesInv == OverlayInv /\ LineInv /\ RelayTypes /\ HookTypes

LEMMA TypesStart == Init => TypesInv
<1> SUFFICES ASSUME Init  PROVE TypesInv
  OBVIOUS
<1>1. OverlayInv /\ LineInv
  BY OverlayStarts, LineStarts
<1>2. RelayTypes
  <2>1. active \in Seq(relaying) /\ IsInjective(active) /\ published \in Seq(Kinds)
        /\ Len(published) = 0
    BY DEF Init, RelayInit, IsInjective
  <2>2. cast \in [Sockets -> Casts]
    BY IdleIsCast DEF Init, RelayInit
  <2>3. wire \in [Sockets -> Seq(Events)] /\ queue \in [Sockets -> Seq(Kinds)]
    BY DEF Init, RelayInit
  <2>4. drops \in 0..MaxDrops
    BY RelayAssumption DEF Init, RelayInit
  <2>5. since \in [Sockets -> Nat] /\ \A s \in Sockets : since[s] <= Len(published)
    BY <2>1 DEF Init, RelayInit
  <2>6. /\ client \in [Sockets -> Reports] /\ broken \subseteq Sockets /\ up \in BOOLEAN
        /\ relaying \subseteq Sockets /\ disturbed \in BOOLEAN
    BY DEF Init, RelayInit, Reports
  <2>. QED  BY <2>1, <2>2, <2>3, <2>4, <2>5, <2>6 DEF RelayTypes
<1>3. HookTypes
  <2>1. InUse = {} /\ Timers = 0
    BY DEF Init, RelayInit, InUse, Timers
  <2>2. Cardinality(InUse) + Timers <= connects
    BY <2>1, FS_EmptySet DEF Init
  <2>3. connects \in 0..MaxConnects /\ retries \in 0..MAX_RETRIES /\ lostTimers \in Nat
    BY SocketAssumption DEF Init, MAX_RETRIES
  <2>4. /\ status \in Statuses /\ wsRef \in Sockets \cup {NoSocket}
        /\ following \in BOOLEAN /\ intentional \in BOOLEAN /\ mounted \in BOOLEAN
        /\ replaced \in BOOLEAN
    BY DEF Init, OverlayInit, Statuses
  <2>. QED  BY <2>2, <2>3, <2>4 DEF HookTypes
<1>. QED  BY <1>1, <1>2, <1>3 DEF TypesInv

LEMMA TypesStep == TypesInv /\ [Next]_vars => TypesInv'
<1> SUFFICES ASSUME TypesInv, [Next]_vars  PROVE RelayTypes' /\ HookTypes'
  BY OverlayStep, LineStep DEF TypesInv
<1>1. RelayTypes /\ HookTypes /\ LineInv /\ LineInv'
  BY LineStep DEF TypesInv
<1>2. CASE Connect
  BY <1>1, <1>2, ConnectTypes, HookConnect
<1>3. CASE Disconnect \/ Unmount
  <2>1. HangUp /\ UNCHANGED <<up, endpointVars, published, drops>>
    BY <1>3 DEF Disconnect, Unmount, Cleanup
  <2>. QED  BY <1>1, <1>3, <2>1, HangUpTypes, HookHangUp
<1>4. ASSUME NEW s \in Sockets, OnOpen(s)  PROVE RelayTypes' /\ HookTypes'
  BY <1>1, <1>4, ReadTypes, HookOpen
<1>5. ASSUME NEW s \in Sockets, OnMessage(s)  PROVE RelayTypes' /\ HookTypes'
  BY <1>1, <1>5, ReadTypes, HookMessage
<1>6. ASSUME NEW s \in Sockets, OnClose(s)  PROVE RelayTypes' /\ HookTypes'
  BY <1>1, <1>6, LineTypes, HookClose
<1>7. CASE TimerFires \/ LostTimerFires
  BY <1>1, <1>7, LineTypes, HookTimer
<1>8. CASE Overlay \/ UNCHANGED vars
  <2>1. UNCHANGED <<relayVars, hookVars>> /\ status' = status
    BY <1>8 DEF Overlay, vars, overlayVars, Dismiss, AutoDismiss
  <2>2. UNCHANGED client
    BY <2>1 DEF relayVars
  <2>3. RelayTypes'
    BY <1>1, <2>1 DEF RelayTypes, relayVars
  <2>. QED  BY <1>1, <2>1, <2>2, <2>3, HookUntouched DEF HookTypes
<1>9. ASSUME RelayTypes', UNCHANGED <<client, overlayVars, hookVars>>
      PROVE  RelayTypes' /\ HookTypes'
  BY <1>1, <1>9, HookUntouched DEF HookTypes, overlayVars
<1>10. ASSUME NEW s \in Sockets, Relay(Endpoint(s))  PROVE RelayTypes' /\ HookTypes'
  <2>1. RelayTypes'
    BY <1>1, <1>10, AcceptTypes, SendTypes, SentTypes, DepartTypes DEF Relay, Endpoint
  <2>2. UNCHANGED <<client, overlayVars, hookVars>>
    BY <1>10 DEF Relay, Endpoint, Accept, Send, Sent, Depart
  <2>. QED  BY <1>9, <2>1, <2>2
<1>11. ASSUME NEW s \in Sockets, Relay(Break(s)) \/ Relay(Reject(s)) \/ Relay(Unreachable(s))
       PROVE  RelayTypes' /\ HookTypes'
  <2>1. RelayTypes'
    BY <1>1, <1>11, FaultTypes DEF Relay
  <2>2. UNCHANGED <<client, overlayVars, hookVars>>
    BY <1>11 DEF Relay, Break, Reject, Unreachable
  <2>. QED  BY <1>9, <2>1, <2>2
<1>12. ASSUME NEW k \in Kinds, Relay(Publish(k))  PROVE RelayTypes' /\ HookTypes'
  <2>1. RelayTypes'
    BY <1>1, <1>12, PublishTypes DEF Relay
  <2>2. UNCHANGED <<client, overlayVars, hookVars>>
    BY <1>12 DEF Relay, Publish
  <2>. QED  BY <1>9, <2>1, <2>2
<1>13. CASE Relay(ServerStops) \/ Relay(ServerStarts)
  <2>1. RelayTypes'
    BY <1>1, <1>13, StopTypes, StartTypes DEF Relay
  <2>2. UNCHANGED <<client, overlayVars, hookVars>>
    BY <1>13 DEF Relay, ServerStops, ServerStarts
  <2>. QED  BY <1>9, <2>1, <2>2
<1>. QED
  BY <1>2, <1>3, <1>4, <1>5, <1>6, <1>7, <1>8, <1>10, <1>11, <1>12, <1>13 DEF Next, Browser

LEMMA TypesAreEnough == TypesInv => TypeOK
<1> SUFFICES ASSUME TypesInv  PROVE TypeOK
  OBVIOUS
<1>1. RelayTypes /\ HookTypes /\ LineInv /\ OverlayInv
  BY DEF TypesInv
<1>2. \A s \in Sockets : ToSet(wire[s]) \subseteq Events /\ ToSet(queue[s]) \subseteq Kinds
  <2> SUFFICES ASSUME NEW s \in Sockets
               PROVE  ToSet(wire[s]) \subseteq Events /\ ToSet(queue[s]) \subseteq Kinds
    OBVIOUS
  <2>1. wire[s] \in Seq(Events) /\ queue[s] \in Seq(Kinds)
    BY <1>1 DEF RelayTypes
  <2>. QED  BY <2>1 DEF ToSet
<1>3. ToSet(active) \subseteq relaying
  BY <1>1, ListIs DEF ToSet
<1>4. \A s \in Sockets : /\ cast[s].next \in 1..(Cardinality(Sockets) + 1)
                         /\ cast[s].dead \subseteq Sockets
  BY <1>1 DEF RelayTypes, Casts
<1>5. \A s \in Sockets : since[s] \in 0..Len(published)
  <2>1. Len(published) \in Nat
    BY <1>1 DEF RelayTypes
  <2>. QED  BY <1>1, <2>1 DEF RelayTypes
<1>6. lostTimers \in 0..MaxConnects
  <2>1. lostTimers \in Nat /\ connects \in Nat /\ connects <= MaxConnects /\ MaxConnects \in Nat
        /\ Cardinality(InUse) \in Nat /\ Cardinality(InUse) + Timers <= connects
    BY <1>1, InUseFinite, SocketAssumption DEF HookTypes
  <2>2. Timers = lostTimers \/ Timers = lostTimers + 1
    BY <2>1 DEF Timers
  <2>. QED  BY <2>1, <2>2
<1>7. {dismissed, armed, timer, following, intentional, mounted, replaced, disturbed}
         \subseteq BOOLEAN
  BY <1>1 DEF RelayTypes, HookTypes, LineInv, OverlayInv
<1>. QED
  BY <1>1, <1>2, <1>3, <1>4, <1>5, <1>6, <1>7
     DEF TypeOK, RelayTypes, HookTypes, Reports

LEMMA AlwaysTypes == Spec => []TypesInv
BY TypesStart, TypesStep, PTL DEF Spec

\* Type correctness of relay and hook; the list of active sockets has no socket
\* twice and none without an endpoint, and no more timers are lost than connect
\* was called (manager.py, router.py, useWebSocketSync.ts).
THEOREM SocketTypesHold == Spec => []TypeOK
BY AlwaysTypes, TypesAreEnough, PTL

(***************************************************************************)
(* What is shown in the end                                                *)
(***************************************************************************)
\* Sockets whose connection has ended carry no event any more; those that are
\* served are open, known to the hook, and in the list of active ones.
ConnInv ==
    /\ \A s \in Sockets : client[s] = "closing" => s \in broken
    /\ \A s \in relaying \ broken : Live(s) /\ \E p \in DOMAIN active : active[p] = s
    /\ \A s \in Sockets \ (relaying \cup broken) : wire[s] = <<>>
    /\ \A s \in broken : \A n \in DOMAIN wire[s] : wire[s][n] = "open"
    /\ \A s \in Sockets : cast[s].dead \subseteq broken
    /\ ~up => relaying = {}

\* How many events an endpoint has done with: its queue holds the rest.
Offset(e) == Len(published) - Len(queue[e])

Queued(e) ==
    /\ e \notin relaying => queue[e] = <<>>
    /\ queue[e] = <<>> => cast[e] = Idle
    /\ e \in relaying => since[e] <= Offset(e)
    /\ \A n \in 1..Len(queue[e]) : queue[e][n] = published[Offset(e) + n]

\* The endpoint has still to send event m to w.
Due(e, w, m) ==
    /\ m > Offset(e)
    /\ m = Offset(e) + 1 => \E p \in DOMAIN active : active[p] = w /\ p >= cast[e].next

\* Events that are not shown; a wire on which the last one shown will be k, or
\* none.
Unshown == {"open", Untyped}
Ends(list, k) ==
    \E n \in DOMAIN list : list[n] = k /\ \A j \in DOMAIN list : j > n => list[j] \in Unshown
SaysNothing(list) == \A n \in DOMAIN list : list[n] \in Unshown

\* The last typed event is still to be sent to the socket in use, or is the
\* last on its wire, or is shown.
Followable == wsRef \in relaying \ broken /\ mounted /\ ~disturbed /\ ~replaced
Latest(m) == m \in Typed /\ \A j \in Typed : j <= m
Arriving(m) ==
    \/ \E e \in relaying : Due(e, wsRef, m)
    \/ Ends(wire[wsRef], published[m])
    \/ SaysNothing(wire[wsRef]) /\ status = StatusAfter(published[m])

Arrivals == Followable => \A m \in Typed : Latest(m) /\ m > since[wsRef] => Arriving(m)

ArrivesInv == ConnInv /\ (\A e \in Sockets : Queued(e)) /\ Arrivals

ShowInv == TypesInv /\ ArrivesInv

-----------------------------------------------------------------------------
(* Connections *)

LEMMA TailKeeps ==
    ASSUME NEW S, NEW list \in Seq(S), list # <<>>
    PROVE  /\ Tail(list) \in Seq(S) /\ Len(Tail(list)) = Len(list) - 1 /\ Len(list) \in Nat \ {0}
           /\ \A n \in 1..(Len(list) - 1) : Tail(list)[n] = list[n + 1]
OBVIOUS

LEMMA AppendKeeps ==
    ASSUME NEW S, NEW list \in Seq(S), NEW x \in S
    PROVE  /\ Append(list, x) \in Seq(S) /\ Len(Append(list, x)) = Len(list) + 1 /\ Len(list) \in Nat
           /\ DOMAIN Append(list, x) = 1..(Len(list) + 1) /\ DOMAIN list = 1..Len(list)
           /\ \A n \in 1..Len(list) : Append(list, x)[n] = list[n]
           /\ Append(list, x)[Len(list) + 1] = x
OBVIOUS

LEMMA AcceptConn ==
    ASSUME RelayTypes, ConnInv, NEW s \in Sockets, Accept(s)
    PROVE  ConnInv'
<1>1. /\ UNCHANGED <<client, broken, cast, up>> /\ up /\ s \notin broken /\ Live(s)
      /\ relaying' = relaying \cup {s} /\ active' = Append(active, s)
      /\ \A t \in Sockets \ {s} : wire'[t] = wire[t]
  BY DEF Accept, Live, RelayTypes
<1>2. /\ active'[Len(active) + 1] = s /\ DOMAIN active' = 1..(Len(active) + 1)
      /\ Len(active) \in Nat /\ DOMAIN active = 1..Len(active)
      /\ \A n \in 1..Len(active) : active'[n] = active[n]
  BY <1>1, AppendKeeps DEF RelayTypes
<1>3. \A t \in relaying' \ broken' : Live(t)' /\ \E p \in DOMAIN active' : active'[p] = t
  <2> SUFFICES ASSUME NEW t \in relaying' \ broken'
               PROVE  Live(t)' /\ \E p \in DOMAIN active' : active'[p] = t
    OBVIOUS
  <2>1. CASE t = s
    BY <1>1, <1>2, <2>1 DEF Live
  <2>2. CASE t # s
    BY <1>1, <1>2, <2>2 DEF ConnInv, Live
  <2>. QED  BY <2>1, <2>2
<1>4. \A t \in Sockets : client'[t] = "closing" => t \in broken'
  BY <1>1 DEF ConnInv
<1>5. \A t \in Sockets \ (relaying' \cup broken') : wire'[t] = <<>>
  BY <1>1 DEF ConnInv
<1>6. \A t \in broken' : \A n \in DOMAIN wire'[t] : wire'[t][n] = "open"
  <2>1. broken' \subseteq Sockets \ {s}
    BY <1>1 DEF RelayTypes
  <2>. QED  BY <1>1, <2>1 DEF ConnInv
<1>. QED  BY <1>1, <1>3, <1>4, <1>5, <1>6 DEF ConnInv

LEMMA SendConn ==
    ASSUME RelayTypes, ConnInv, NEW s \in Sockets, Send(s)
    PROVE  ConnInv'
<1>1. PICK t \in Sockets :
              /\ cast[s].next \in 1..Len(active) /\ t = active[cast[s].next]
              /\ cast' = [cast EXCEPT ![s] = [next |-> cast[s].next + 1,
                             dead |-> IF t \in broken THEN cast[s].dead \cup {t}
                                      ELSE cast[s].dead]]
              /\ wire' = [wire EXCEPT ![t] = IF t \in broken THEN wire[t]
                                             ELSE Append(wire[t], Head(queue[s]))]
  BY SendEffect
<1>2. t \in relaying
  BY <1>1, ListIs
<1>3. UNCHANGED <<client, broken, up, relaying, active>>
  BY DEF Send
<1>4. \A u \in Sockets : u \in broken \/ u \notin relaying => wire'[u] = wire[u]
  BY <1>1, <1>2 DEF RelayTypes
<1>5. \A u \in Sockets : cast'[u].dead \subseteq broken
  <2>1. \A u \in Sockets \ {s} : cast'[u] = cast[u]
    BY <1>1 DEF RelayTypes
  <2>2. cast'[s].dead \subseteq cast[s].dead \cup (broken \cap {t})
    BY <1>1 DEF RelayTypes
  <2>. QED  BY <2>1, <2>2 DEF ConnInv
<1>. QED  BY <1>3, <1>4, <1>5 DEF ConnInv, Live, RelayTypes

\* An entry that is not taken out of the list stays in it.
LEMMA StaysListed ==
    ASSUME NEW S, NEW list \in Seq(S), NEW gone, NEW p \in DOMAIN list, list[p] \notin gone
    PROVE  \E q \in DOMAIN Without(list, gone) : Without(list, gone)[q] = list[p]
BY WithoutIs DEF Kept

LEMMA SentConn ==
    ASSUME RelayTypes, ConnInv, NEW s \in Sockets, Sent(s)
    PROVE  ConnInv'
<1>1. /\ UNCHANGED <<client, broken, wire, up, relaying>>
      /\ active' = Without(active, cast[s].dead) /\ cast' = [cast EXCEPT ![s] = Idle]
  BY DEF Sent
<1>2. \A t \in relaying \ broken : \E p \in DOMAIN active' : active'[p] = t
  <2> SUFFICES ASSUME NEW t \in relaying \ broken  PROVE \E p \in DOMAIN active' : active'[p] = t
    OBVIOUS
  <2>1. PICK p \in DOMAIN active : active[p] = t
    BY DEF ConnInv
  <2>2. t \notin cast[s].dead
    BY DEF ConnInv
  <2>. QED  BY <1>1, <2>1, <2>2, StaysListed DEF RelayTypes
<1>3. \A u \in Sockets : cast'[u].dead \subseteq broken
  BY <1>1 DEF ConnInv, RelayTypes, Idle
<1>. QED  BY <1>1, <1>2, <1>3 DEF ConnInv, Live

LEMMA DepartConn ==
    ASSUME RelayTypes, ConnInv, NEW s \in Sockets, Depart(s)
    PROVE  ConnInv'
<1>1. /\ UNCHANGED <<client, broken, wire, up>> /\ s \in broken /\ relaying' = relaying \ {s}
      /\ active' = Without(active, {s}) /\ cast' = [cast EXCEPT ![s] = Idle]
  BY DEF Depart
<1>2. \A t \in relaying' \ broken' : \E p \in DOMAIN active' : active'[p] = t
  <2> SUFFICES ASSUME NEW t \in relaying \ broken  PROVE \E p \in DOMAIN active' : active'[p] = t
    BY <1>1
  <2>1. PICK p \in DOMAIN active : active[p] = t
    BY DEF ConnInv
  <2>. QED  BY <1>1, <2>1, StaysListed DEF RelayTypes
<1>3. \A u \in Sockets : cast'[u].dead \subseteq broken
  BY <1>1 DEF ConnInv, RelayTypes, Idle
<1>. QED  BY <1>1, <1>2, <1>3 DEF ConnInv, Live

LEMMA FaultConn ==
    ASSUME RelayTypes, ConnInv, NEW s \in Sockets, Break(s) \/ Reject(s) \/ Unreachable(s)
    PROVE  ConnInv'
<1>1. /\ UNCHANGED <<client, up, relaying, active, cast>> /\ broken' = broken \cup {s}
      /\ s \notin broken
      /\ \A t \in Sockets \ {s} : wire'[t] = wire[t]
  BY DEF Break, Reject, Unreachable, endpointVars, RelayTypes
<1>2. \A n \in DOMAIN wire'[s] : wire'[s][n] = "open"
  <2>1. CASE Break(s)
    BY <2>1 DEF Break, RelayTypes
  <2>2. CASE Reject(s)
    BY <2>2 DEF Reject, RelayTypes
  <2>3. CASE Unreachable(s)
    <3>1. wire'[s] = <<>>
      BY <1>1, <2>3 DEF Unreachable, ConnInv
    <3>. QED  BY <3>1
  <2>. QED  BY <2>1, <2>2, <2>3
<1>. QED  BY <1>1, <1>2 DEF ConnInv, Live, RelayTypes

LEMMA StopConn ==
    ASSUME RelayTypes, ConnInv, ServerStops
    PROVE  ConnInv'
<1>1. /\ client' = client /\ broken \subseteq broken' /\ relaying' = {}
      /\ \A s \in Sockets : wire'[s] = <<>> /\ cast'[s] = Idle
      /\ broken' \subseteq Sockets
  BY DEF ServerStops, RelayTypes
<1>. QED  BY <1>1 DEF ConnInv, Idle

LEMMA HangUpConn ==
    ASSUME RelayTypes, ConnInv, HangUp, UNCHANGED <<up, endpointVars>>
    PROVE  ConnInv'
<1>1. /\ broken' = broken \cup {s \in Sockets : Hangs(s)}
      /\ UNCHANGED <<up, relaying, active, cast>>
      /\ \A s \in Sockets : /\ client'[s] = IF Hangs(s) THEN "closing" ELSE client[s]
                            /\ wire'[s] = IF Hangs(s) THEN <<>> ELSE wire[s]
  BY DEF HangUp, endpointVars
<1>. QED  BY <1>1 DEF ConnInv, Live, RelayTypes

LEMMA ConnectConn ==
    ASSUME RelayTypes, ConnInv, Connect
    PROVE  ConnInv'
<1> PICK n \in Sockets : n = NextSocket /\ Unused(n)
  BY NextIs DEF Connect
<1>1. /\ client[n] = "none" /\ n \notin relaying /\ wire[n] = <<>> /\ ~Hangs(n)
      /\ \A u \in Sockets : n \notin cast[u].dead
  BY DEF Unused, Fresh, Hangs, Live
<1>2. /\ broken' = (broken \cup {s \in Sockets : Hangs(s)}) \ {n}
      /\ UNCHANGED <<up, relaying, active, cast>>
      /\ \A s \in Sockets : /\ client'[s] = IF s = n THEN "connecting"
                                            ELSE IF Hangs(s) THEN "closing" ELSE client[s]
                            /\ wire'[s] = IF Hangs(s) THEN <<>> ELSE wire[s]
  BY DEF Connect, endpointVars
<1>. QED  BY <1>1, <1>2 DEF ConnInv, Live, RelayTypes

LEMMA ReadConn ==
    ASSUME RelayTypes, ConnInv, NEW s \in Sockets, OnOpen(s) \/ OnMessage(s)
    PROVE  ConnInv'
<1>1. /\ UNCHANGED <<broken, up, relaying, active, cast>>
      /\ wire[s] # <<>> /\ wire'[s] = Tail(wire[s])
      /\ \A t \in Sockets \ {s} : wire'[t] = wire[t] /\ client'[t] = client[t]
      /\ client'[s] = client[s] \/ client'[s] = "open"
      /\ client[s] = "closing" => client'[s] = client[s]
  BY DEF OnOpen, OnMessage, endpointVars, RelayTypes
<1>2. s \in broken => \A n \in DOMAIN wire'[s] : wire'[s][n] = "open"
  <2>1. wire[s] \in Seq(Events)
    BY DEF RelayTypes
  <2>2. \A n \in DOMAIN wire'[s] : n + 1 \in DOMAIN wire[s] /\ wire'[s][n] = wire[s][n + 1]
    BY <1>1, <2>1, TailKeeps
  <2>. QED  BY <2>2 DEF ConnInv
<1>3. s \notin relaying \cup broken => FALSE
  BY <1>1 DEF ConnInv
<1>4. \A t \in relaying' \ broken' : Live(t)' /\ \E p \in DOMAIN active' : active'[p] = t
  <2>1. \A t \in Sockets : Live(t) => Live(t)'
    BY <1>1 DEF Live
  <2>. QED  BY <1>1, <2>1 DEF ConnInv, RelayTypes
<1>5. \A t \in Sockets : client'[t] = "closing" => t \in broken'
  BY <1>1 DEF ConnInv
<1>6. \A t \in Sockets \ (relaying' \cup broken') : wire'[t] = <<>>
  BY <1>1, <1>3 DEF ConnInv
<1>7. \A t \in broken' : \A n \in DOMAIN wire'[t] : wire'[t][n] = "open"
  <2>1. broken' \subseteq Sockets
    BY <1>1 DEF RelayTypes
  <2>2. \A t \in broken \ {s} : \A n \in DOMAIN wire'[t] : wire'[t][n] = "open"
    <3>1. \A t \in broken \ {s} : wire'[t] = wire[t]
      BY <1>1, <2>1
    <3>. QED  BY <3>1 DEF ConnInv
  <2>. QED  BY <1>1, <1>2, <2>2
<1>. QED  BY <1>1, <1>4, <1>5, <1>6, <1>7 DEF ConnInv

LEMMA CloseConn ==
    ASSUME RelayTypes, ConnInv, NEW s \in Sockets, OnClose(s)
    PROVE  ConnInv'
<1>1. /\ UNCHANGED <<broken, wire, up, relaying, active, cast>> /\ client'[s] = "none"
      /\ \A t \in Sockets \ {s} : client'[t] = client[t]
      /\ s \in broken
  BY DEF OnClose, endpointVars, RelayTypes, ConnInv
<1>. QED  BY <1>1 DEF ConnInv, Live, RelayTypes

LEMMA TimerConn ==
    ASSUME RelayTypes, ConnInv, TimerFires \/ LostTimerFires
    PROVE  ConnInv'
<1>1. Redial /\ UNCHANGED <<wire, up, relaying, active, cast>>
  BY DEF TimerFires, LostTimerFires, endpointVars
<1>2. CASE following
  <2> PICK n \in Sockets : n = NextSocket /\ Unused(n)
    BY <1>1, <1>2, NextIs DEF Redial
  <2>1. /\ client[n] = "none" /\ n \notin relaying /\ wire[n] = <<>>
        /\ \A u \in Sockets : n \notin cast[u].dead
    BY DEF Unused, Fresh
  <2>2. /\ broken' = broken \ {n} /\ client'[n] = "connecting"
        /\ \A t \in Sockets \ {n} : client'[t] = client[t]
    BY <1>1, <1>2 DEF Redial, Dial, RelayTypes
  <2>3. \A s \in Sockets : client'[s] = "closing" => s \in broken'
    BY <2>1, <2>2 DEF ConnInv
  <2>4. \A s \in relaying' \ broken' : Live(s)' /\ \E p \in DOMAIN active' : active'[p] = s
    BY <1>1, <2>1, <2>2 DEF ConnInv, Live, RelayTypes
  <2>5. /\ \A s \in Sockets \ (relaying' \cup broken') : wire'[s] = <<>>
        /\ \A s \in broken' : \A i \in DOMAIN wire'[s] : wire'[s][i] = "open"
    BY <1>1, <2>1, <2>2 DEF ConnInv
  <2>6. /\ \A s \in Sockets : cast'[s].dead \subseteq broken'
        /\ ~up' => relaying' = {}
    BY <1>1, <2>1, <2>2 DEF ConnInv
  <2>. QED  BY <2>3, <2>4, <2>5, <2>6 DEF ConnInv
<1>3. CASE ~following
  BY <1>1, <1>3 DEF Redial, ConnInv, Live
<1>. QED  BY <1>2, <1>3

LEMMA ConnUntouched ==
    ASSUME ConnInv, UNCHANGED <<client, broken, wire, relaying, active, cast>>, up => up'
    PROVE  ConnInv'
BY DEF ConnInv, Live

LEMMA ConnStep ==
    ASSUME RelayTypes, ConnInv, [Next]_vars
    PROVE  ConnInv'
<1>1. CASE Connect
  BY <1>1, ConnectConn
<1>2. CASE Disconnect \/ Unmount
  <2>1. HangUp /\ UNCHANGED <<up, endpointVars>>
    BY <1>2 DEF Disconnect, Unmount, Cleanup
  <2>. QED  BY <2>1, HangUpConn
<1>3. CASE \E s \in Sockets : OnOpen(s) \/ OnMessage(s) \/ OnClose(s)
  BY <1>3, ReadConn, CloseConn
<1>4. CASE TimerFires \/ LostTimerFires
  BY <1>4, TimerConn
<1>5. CASE Overlay \/ UNCHANGED vars \/ Relay(ServerStarts) \/ \E k \in Kinds : Relay(Publish(k))
  <2>1. UNCHANGED <<client, broken, wire, relaying, active, cast>> /\ (up => up')
    BY <1>5 DEF Overlay, Relay, ServerStarts, Publish, vars, relayVars, endpointVars
  <2>. QED  BY <2>1, ConnUntouched
<1>6. CASE \E s \in Sockets : Relay(Endpoint(s))
  BY <1>6, AcceptConn, SendConn, SentConn, DepartConn DEF Relay, Endpoint
<1>7. CASE \E s \in Sockets : Relay(Break(s)) \/ Relay(Reject(s)) \/ Relay(Unreachable(s))
  BY <1>7, FaultConn DEF Relay
<1>8. CASE Relay(ServerStops)
  BY <1>8, StopConn DEF Relay
<1>. QED  BY <1>1, <1>2, <1>3, <1>4, <1>5, <1>6, <1>7, <1>8 DEF Next, Browser

-----------------------------------------------------------------------------
(* Queues *)

LEMMA QueuedUntouched ==
    ASSUME NEW e, Queued(e), e \in relaying' <=> e \in relaying, published' = published,
           queue'[e] = queue[e], cast'[e] = cast[e], since'[e] = since[e]
    PROVE  Queued(e)'
BY DEF Queued, Offset

LEMMA QueueIs ==
    ASSUME RelayTypes, NEW e \in Sockets
    PROVE  /\ queue[e] \in Seq(Kinds) /\ Len(queue[e]) \in Nat
           /\ published \in Seq(Kinds) /\ Len(published) \in Nat
           /\ Offset(e) \in Int /\ (queue[e] = <<>> <=> Len(queue[e]) = 0)
BY DEF RelayTypes, Offset

LEMMA AcceptQueued ==
    ASSUME RelayTypes, NEW s \in Sockets, Accept(s), \A e \in Sockets : Queued(e)
    PROVE  \A e \in Sockets : Queued(e)'
<1>1. /\ UNCHANGED <<queue, cast, published>> /\ s \notin relaying
      /\ relaying' = relaying \cup {s} /\ since'[s] = Len(published)
      /\ \A e \in Sockets \ {s} : since'[e] = since[e]
  BY DEF Accept, RelayTypes
<1>2. Queued(s)'
  <2>1. queue[s] = <<>> /\ Queued(s)
    BY <1>1 DEF Queued
  <2>2. Offset(s)' = Len(published) /\ Len(published) \in Nat /\ Offset(s)' = Offset(s)
    BY <1>1, <2>1, QueueIs DEF Offset
  <2>. QED  BY <1>1, <2>1, <2>2 DEF Queued
<1>3. \A e \in Sockets \ {s} : Queued(e)'
  BY <1>1, QueuedUntouched
<1>. QED  BY <1>2, <1>3

LEMMA SendQueued ==
    ASSUME RelayTypes, NEW s \in Sockets, Send(s), \A e \in Sockets : Queued(e)
    PROVE  \A e \in Sockets : Queued(e)'
<1>1. UNCHANGED <<relaying, queue, published, since>> /\ queue[s] # <<>>
  BY DEF Send
<1>2. \A e \in Sockets \ {s} : cast'[e] = cast[e]
  BY DEF Send, RelayTypes
<1>3. Queued(s)'
  BY <1>1 DEF Queued, Offset
<1>4. \A e \in Sockets \ {s} : Queued(e)'
  BY <1>1, <1>2, QueuedUntouched
<1>. QED  BY <1>3, <1>4

LEMMA SentQueued ==
    ASSUME RelayTypes, NEW s \in Sockets, Sent(s), \A e \in Sockets : Queued(e)
    PROVE  /\ \A e \in Sockets : Queued(e)'
           /\ Offset(s)' = Offset(s) + 1
           /\ cast'[s] = Idle
           /\ \A e \in Sockets \ {s} : Offset(e)' = Offset(e) /\ cast'[e] = cast[e]
<1>1. /\ UNCHANGED <<relaying, published, since>> /\ queue[s] # <<>>
      /\ queue'[s] = Tail(queue[s]) /\ cast'[s] = Idle
      /\ \A e \in Sockets \ {s} : queue'[e] = queue[e] /\ cast'[e] = cast[e]
  BY DEF Sent, RelayTypes
<1>2. /\ Len(queue'[s]) = Len(queue[s]) - 1 /\ Len(queue[s]) \in Nat \ {0}
      /\ \A n \in 1..(Len(queue[s]) - 1) : queue'[s][n] = queue[s][n + 1]
  BY <1>1, TailKeeps, QueueIs
<1>3. Offset(s)' = Offset(s) + 1 /\ Offset(s) \in Int
  <2>1. Offset(s)' = Len(published) - Len(queue'[s])
    BY <1>1 DEF Offset
  <2>2. Len(published) \in Nat
    BY QueueIs
  <2>. QED  BY <1>2, <2>1, <2>2 DEF Offset
<1>4. Queued(s)'
  <2>1. s \in relaying' /\ Queued(s)
    BY <1>1 DEF Queued
  <2>2. since'[s] <= Offset(s)'
    BY <1>1, <1>3, <2>1 DEF Queued, RelayTypes
  <2>3. \A n \in 1..Len(queue'[s]) : queue'[s][n] = published[Offset(s)' + n]
    <3> SUFFICES ASSUME NEW n \in 1..Len(queue'[s])  PROVE queue'[s][n] = published[Offset(s)' + n]
      OBVIOUS
    <3>1. n + 1 \in 1..Len(queue[s]) /\ queue'[s][n] = queue[s][n + 1]
      BY <1>2
    <3>2. queue[s][n + 1] = published[Offset(s) + (n + 1)]
      BY <2>1, <3>1 DEF Queued
    <3>. QED  BY <1>2, <1>3, <3>1, <3>2
  <2>. QED  BY <1>1, <2>1, <2>2, <2>3 DEF Queued
<1>5. \A e \in Sockets \ {s} : Queued(e)'
  BY <1>1, QueuedUntouched
<1>. QED  BY <1>1, <1>3, <1>4, <1>5 DEF Offset

LEMMA DepartQueued ==
    ASSUME RelayTypes, NEW s \in Sockets, Depart(s), \A e \in Sockets : Queued(e)
    PROVE  \A e \in Sockets : Queued(e)'
<1>1. /\ published' = published /\ relaying' = relaying \ {s}
      /\ queue'[s] = <<>> /\ cast'[s] = Idle
      /\ \A e \in Sockets \ {s} : queue'[e] = queue[e] /\ cast'[e] = cast[e] /\ since'[e] = since[e]
  BY DEF Depart, RelayTypes
<1>2. Queued(s)'
  BY <1>1 DEF Queued
<1>3. \A e \in Sockets \ {s} : Queued(e)'
  BY <1>1, QueuedUntouched
<1>. QED  BY <1>2, <1>3

LEMMA PublishQueued ==
    ASSUME RelayTypes, NEW k \in Kinds, Publish(k), \A e \in Sockets : Queued(e)
    PROVE  \A e \in Sockets : Queued(e)' /\ (e \in relaying => Offset(e)' = Offset(e))
<1> SUFFICES ASSUME NEW e \in Sockets
             PROVE  Queued(e)' /\ (e \in relaying => Offset(e)' = Offset(e))
  OBVIOUS
<1>1. /\ UNCHANGED <<relaying, cast, since>> /\ Queued(e)
      /\ queue'[e] = IF e \in relaying THEN Append(queue[e], k) ELSE queue[e]
      /\ published' = Append(published, k)
  BY DEF Publish, RelayTypes
<1>2. CASE e \notin relaying
  <2>1. queue'[e] = <<>> /\ cast'[e] = Idle
    BY <1>1, <1>2 DEF Queued
  <2>. QED  BY <1>1, <1>2, <2>1 DEF Queued
<1>3. CASE e \in relaying
  <2>1. /\ Len(queue'[e]) = Len(queue[e]) + 1 /\ Len(queue[e]) \in Nat
        /\ \A n \in 1..Len(queue[e]) : queue'[e][n] = queue[e][n]
        /\ queue'[e][Len(queue[e]) + 1] = k
    BY <1>1, <1>3, QueueIs, AppendKeeps
  <2>2. /\ Len(published') = Len(published) + 1 /\ Len(published) \in Nat
        /\ \A n \in 1..Len(published) : published'[n] = published[n]
        /\ published'[Len(published) + 1] = k
    BY <1>1, QueueIs, AppendKeeps
  <2>3. Offset(e)' = Offset(e) /\ Offset(e) \in Int /\ Offset(e) + Len(queue[e]) = Len(published)
    BY <2>1, <2>2 DEF Offset
  <2>4. since[e] \in Nat /\ since[e] <= Offset(e)
    BY <1>1, <1>3 DEF Queued, RelayTypes
  <2>5. \A n \in 1..Len(queue'[e]) : queue'[e][n] = published'[Offset(e) + n]
    <3> SUFFICES ASSUME NEW n \in 1..(Len(queue[e]) + 1)  PROVE queue'[e][n] = published'[Offset(e) + n]
      BY <2>1
    <3>1. CASE n = Len(queue[e]) + 1
      <4>1. Offset(e) + n = Len(published) + 1
        BY <2>1, <2>2, <2>3, <3>1
      <4>. QED  BY <2>1, <2>2, <3>1, <4>1
    <3>2. CASE n # Len(queue[e]) + 1
      <4>1. n \in 1..Len(queue[e]) /\ Offset(e) + n \in 1..Len(published)
        BY <2>1, <2>2, <2>3, <2>4, <3>2
      <4>. QED  BY <1>1, <2>1, <2>2, <4>1 DEF Queued
    <3>. QED  BY <3>1, <3>2
  <2>6. queue'[e] # <<>>
    BY <2>1
  <2>. QED  BY <1>1, <1>3, <2>3, <2>4, <2>5, <2>6 DEF Queued
<1>. QED  BY <1>2, <1>3

LEMMA StopQueued ==
    ASSUME RelayTypes, ServerStops
    PROVE  \A e \in Sockets : Queued(e)'
<1>1. relaying' = {} /\ \A e \in Sockets : queue'[e] = <<>> /\ cast'[e] = Idle
  BY DEF ServerStops
<1>. QED  BY <1>1 DEF Queued

LEMMA QueuedStep ==
    ASSUME RelayTypes, \A e \in Sockets : Queued(e), [Next]_vars
    PROVE  \A e \in Sockets : Queued(e)'
<1>1. CASE UNCHANGED <<endpointVars, published>>
  BY <1>1, QueuedUntouched DEF endpointVars
<1>2. CASE \E s \in Sockets : Relay(Endpoint(s))
  BY <1>2, AcceptQueued, SendQueued, SentQueued, DepartQueued DEF Relay, Endpoint
<1>3. CASE \E k \in Kinds : Relay(Publish(k))
  BY <1>3, PublishQueued DEF Relay
<1>4. CASE Relay(ServerStops)
  BY <1>4, StopQueued DEF Relay
<1>5. CASE \E s \in Sockets : Relay(Break(s)) \/ Relay(Reject(s)) \/ Relay(Unreachable(s))
  BY <1>1, <1>5 DEF Relay, Break, Reject, Unreachable
<1>6. CASE Connect \/ Disconnect \/ Unmount \/ Relay(ServerStarts)
  BY <1>1, <1>6 DEF Connect, Disconnect, Unmount, Relay, ServerStarts
<1>7. CASE Overlay \/ UNCHANGED vars
  BY <1>1, <1>7 DEF Overlay, vars, relayVars, endpointVars
<1>8. CASE \E s \in Sockets : OnOpen(s) \/ OnMessage(s) \/ OnClose(s)
  BY <1>1, <1>8 DEF OnOpen, OnMessage, OnClose
<1>9. CASE TimerFires \/ LostTimerFires
  BY <1>1, <1>9 DEF TimerFires, LostTimerFires
<1>. QED  BY <1>2, <1>3, <1>4, <1>5, <1>6, <1>7, <1>8, <1>9 DEF Next, Browser

-----------------------------------------------------------------------------
(* Reading and sending *)

\* After the first event is read, the last one shown is the same, unless the
\* first was that one.
LEMMA ReadOn ==
    ASSUME NEW S, NEW list \in Seq(S), list # <<>>, NEW k
    PROVE  /\ Ends(list, k) => Ends(Tail(list), k) \/ (Head(list) = k /\ SaysNothing(Tail(list)))
           /\ SaysNothing(list) => Head(list) \in Unshown /\ SaysNothing(Tail(list))
<1>1. /\ Len(list) \in Nat \ {0} /\ DOMAIN list = 1..Len(list) /\ Head(list) = list[1]
      /\ DOMAIN Tail(list) = 1..(Len(list) - 1)
      /\ \A n \in 1..(Len(list) - 1) : Tail(list)[n] = list[n + 1]
  BY TailKeeps
<1>2. SaysNothing(list) => Head(list) \in Unshown /\ SaysNothing(Tail(list))
  BY <1>1 DEF SaysNothing
<1>3. ASSUME Ends(list, k)
      PROVE  Ends(Tail(list), k) \/ (Head(list) = k /\ SaysNothing(Tail(list)))
  <2> PICK n \in DOMAIN list : list[n] = k /\ \A j \in DOMAIN list : j > n => list[j] \in Unshown
    BY <1>3 DEF Ends
  <2>1. \A j \in DOMAIN Tail(list) : j + 1 > n => Tail(list)[j] \in Unshown
    BY <1>1
  <2>2. CASE n = 1
    BY <1>1, <2>1, <2>2 DEF SaysNothing
  <2>3. CASE n # 1
    <3>1. n - 1 \in DOMAIN Tail(list) /\ Tail(list)[n - 1] = k
      BY <1>1, <2>3
    <3>2. \A j \in DOMAIN Tail(list) : j > n - 1 => Tail(list)[j] \in Unshown
      BY <1>1, <2>1
    <3>. QED  BY <3>1, <3>2 DEF Ends
  <2>. QED  BY <2>2, <2>3
<1>. QED  BY <1>2, <1>3

LEMMA SendsLast ==
    ASSUME NEW S, NEW list \in Seq(S), NEW x \in S, NEW k
    PROVE  /\ Ends(Append(list, x), x)
           /\ x \in Unshown /\ Ends(list, k) => Ends(Append(list, x), k)
           /\ x \in Unshown /\ SaysNothing(list) => SaysNothing(Append(list, x))
<1>1. /\ Len(list) \in Nat /\ DOMAIN list = 1..Len(list)
      /\ DOMAIN Append(list, x) = 1..(Len(list) + 1)
      /\ \A n \in 1..Len(list) : Append(list, x)[n] = list[n]
      /\ Append(list, x)[Len(list) + 1] = x
  BY AppendKeeps
<1>2. Ends(Append(list, x), x)
  BY <1>1 DEF Ends
<1>3. ASSUME x \in Unshown, Ends(list, k)  PROVE Ends(Append(list, x), k)
  <2> PICK n \in DOMAIN list : list[n] = k /\ \A j \in DOMAIN list : j > n => list[j] \in Unshown
    BY <1>3 DEF Ends
  <2>1. \A j \in 1..(Len(list) + 1) : j \in 1..Len(list) \/ j = Len(list) + 1
    BY <1>1
  <2>2. \A j \in DOMAIN Append(list, x) : j > n => Append(list, x)[j] \in Unshown
    BY <1>1, <1>3, <2>1
  <2>3. n \in DOMAIN Append(list, x) /\ Append(list, x)[n] = k
    BY <1>1
  <2>. QED  BY <2>2, <2>3 DEF Ends
<1>4. ASSUME x \in Unshown, SaysNothing(list)  PROVE SaysNothing(Append(list, x))
  <2>1. \A j \in 1..(Len(list) + 1) : j \in 1..Len(list) \/ j = Len(list) + 1
    BY <1>1
  <2>. QED  BY <1>1, <1>4, <2>1 DEF SaysNothing
<1>. QED  BY <1>2, <1>3, <1>4

-----------------------------------------------------------------------------
(* The last event is on its way *)

LEMMA ArrivesStill ==
    ASSUME Arrivals, published' = published,
           Followable' => /\ Followable /\ wsRef' = wsRef /\ since'[wsRef] = since[wsRef]
                          /\ \A m \in Typed : Latest(m) /\ Arriving(m) => Arriving(m)'
    PROVE  Arrivals'
BY DEF Arrivals, Typed, Latest

\* Nobody follows: there is nothing to show.
LEMMA ArrivesToNobody ==
    ASSUME wsRef' \notin relaying' \ broken'
    PROVE  Arrivals'
BY DEF Arrivals, Followable

\* A step that neither sends nor reads what the socket in use gets.
LEMMA ArrivalsUntouched ==
    ASSUME Arrivals, UNCHANGED <<endpointVars, published>>, wsRef' = wsRef, status' = status,
           Followable' => Followable /\ wire'[wsRef] = wire[wsRef]
    PROVE  Arrivals'
<1>1. \A m \in Typed, e \in relaying : Due(e, wsRef, m) => Due(e, wsRef, m)'
  BY DEF endpointVars, Due, Offset
<1>2. UNCHANGED <<relaying, since>>
  BY DEF endpointVars
<1>3. \A m \in Typed : StatusAfter(published[m])' = StatusAfter(published[m])
  BY DEF StatusAfter
<1>4. Followable' => \A m \in Typed : Arriving(m) => Arriving(m)'
  BY <1>1, <1>2, <1>3 DEF Arriving, Ends, SaysNothing
<1>. QED  BY <1>2, <1>4, ArrivesStill

LEMMA HookArrivals ==
    ASSUME ShowInv, Connect \/ Disconnect \/ Unmount \/ TimerFires \/ LostTimerFires
    PROVE  Arrivals'
<1>0. RelayTypes /\ Arrivals
  BY DEF ShowInv, TypesInv, ArrivesInv
<1>1. UNCHANGED <<endpointVars, published>>
  BY DEF Connect, Disconnect, Unmount, TimerFires, LostTimerFires
<1>2. relaying' = relaying /\ relaying \subseteq Sockets
  BY <1>0, <1>1 DEF endpointVars, RelayTypes
<1>3. CASE Connect
  <2>1. wsRef' = NextSocket /\ NextSocket \notin relaying
    BY <1>3, NextIs DEF Connect, Unused, Fresh
  <2>. QED  BY <1>2, <2>1, ArrivesToNobody
<1>4. CASE Disconnect \/ Unmount
  <2>1. wsRef' = NoSocket
    BY <1>4 DEF Disconnect, Unmount, Cleanup
  <2>. QED  BY <1>2, <2>1, SocketAssumption, ArrivesToNobody
<1>5. CASE TimerFires \/ LostTimerFires
  <2>0. /\ Redial /\ UNCHANGED <<endpointVars, published, wire, mounted, replaced>>
        /\ UNCHANGED overlayVars
    BY <1>5 DEF TimerFires, LostTimerFires
  <2>1. CASE following
    <3>1. wsRef' = NextSocket /\ NextSocket \notin relaying
      BY <2>0, <2>1, NextIs DEF Redial, Unused, Fresh
    <3>. QED  BY <1>2, <3>1, ArrivesToNobody
  <2>2. CASE ~following
    <3>1. UNCHANGED <<broken, wsRef>>
      BY <2>0, <2>2 DEF Redial
    <3>2. status' = status /\ (Followable' => Followable)
      BY <2>0, <3>1 DEF overlayVars, endpointVars, Followable
    <3>. QED  BY <1>0, <2>0, <3>1, <3>2, ArrivalsUntouched
  <2>. QED  BY <2>1, <2>2
<1>. QED  BY <1>3, <1>4, <1>5

LEMMA CloseArrivals ==
    ASSUME ShowInv, NEW s \in Sockets, OnClose(s)
    PROVE  Arrivals'
<1>1. /\ UNCHANGED <<endpointVars, published, wire, broken, wsRef, mounted, replaced>>
      /\ UNCHANGED overlayVars
  BY DEF OnClose
<1>2. status' = status /\ (Followable' => Followable)
  BY <1>1 DEF overlayVars, endpointVars, Followable
<1>. QED  BY <1>1, <1>2, ArrivalsUntouched DEF ShowInv, ArrivesInv

LEMMA OverlayArrivals ==
    ASSUME ShowInv, Overlay \/ UNCHANGED vars
    PROVE  Arrivals'
<1>1. UNCHANGED <<relayVars, hookVars>> /\ status' = status
  BY DEF Overlay, Dismiss, AutoDismiss, vars, overlayVars
<1>2. UNCHANGED <<endpointVars, published, wire, broken, wsRef, mounted, replaced>>
  BY <1>1 DEF relayVars, hookVars, endpointVars
<1>3. Followable' => Followable
  BY <1>2 DEF endpointVars, Followable
<1>. QED  BY <1>1, <1>2, <1>3, ArrivalsUntouched DEF ShowInv, ArrivesInv

LEMMA FaultArrivals ==
    ASSUME ShowInv,
           \/ \E s \in Sockets : Relay(Break(s)) \/ Relay(Reject(s)) \/ Relay(Unreachable(s))
           \/ Relay(ServerStarts)
    PROVE  Arrivals'
<1>0. RelayTypes /\ Arrivals
  BY DEF ShowInv, TypesInv, ArrivesInv
<1>1. /\ UNCHANGED <<endpointVars, published, wsRef, mounted, replaced, status>>
      /\ broken \subseteq broken'
  BY DEF Relay, Break, Reject, Unreachable, ServerStarts, overlayVars, hookVars
<1>2. Followable' => Followable
  BY <1>1 DEF endpointVars, Followable
<1>3. ASSUME Followable'  PROVE wire'[wsRef] = wire[wsRef]
  <2>1. wsRef \in Sockets /\ wsRef \notin broken'
    BY <1>0, <1>1, <1>2, <1>3 DEF Followable, RelayTypes
  <2>. QED  BY <1>0, <2>1 DEF Relay, Break, Reject, Unreachable, ServerStarts, RelayTypes
<1>. QED  BY <1>0, <1>1, <1>2, <1>3, ArrivalsUntouched

LEMMA StopArrivals ==
    ASSUME ShowInv, Relay(ServerStops)
    PROVE  Arrivals'
<1>1. relaying' = {}
  BY DEF Relay, ServerStops
<1>. QED  BY <1>1, ArrivesToNobody

\* Only the socket in use delivers messages.
LEMMA ReadsFromUsed ==
    ASSUME ShowInv, NEW s \in Sockets, OnMessage(s), ~replaced
    PROVE  s = wsRef
<1>1. ConnInv /\ Followed /\ wire[s] \in Seq(Events)
  BY DEF ShowInv, TypesInv, LineInv, ArrivesInv, RelayTypes
<1>2. wire[s] # <<>> /\ 1 \in DOMAIN wire[s] /\ wire[s][1] # "open"
  BY <1>1 DEF OnMessage
<1>3. s \notin broken /\ s \in relaying
  BY <1>1, <1>2 DEF ConnInv
<1>4. Live(s)
  BY <1>1, <1>3 DEF ConnInv
<1>. QED  BY <1>1, <1>4 DEF Followed

LEMMA ReadArrivals ==
    ASSUME ShowInv, NEW s \in Sockets, OnOpen(s) \/ OnMessage(s)
    PROVE  Arrivals'
<1>0. RelayTypes /\ Arrivals
  BY DEF ShowInv, TypesInv, ArrivesInv
<1>1. /\ UNCHANGED <<endpointVars, published, wsRef, broken, mounted, replaced>>
      /\ wire[s] # <<>> /\ wire' = [wire EXCEPT ![s] = Tail(wire[s])]
  BY DEF OnOpen, OnMessage, hookVars
<1>2. Followable' => Followable
  BY <1>1 DEF endpointVars, Followable
<1>3. CASE s # wsRef
  <2>1. wire'[wsRef] = wire[wsRef] \/ ~Followable'
    BY <1>0, <1>1, <1>2, <1>3 DEF Followable, RelayTypes
  <2>2. CASE OnOpen(s)
    <3>1. status' = status
      BY <2>2 DEF OnOpen, overlayVars
    <3>. QED  BY <1>0, <1>1, <1>2, <2>1, <3>1, ArrivalsUntouched
  <2>3. CASE OnMessage(s)
    <3>1. replaced /\ replaced'
      BY <1>1, <1>3, <2>3, ReadsFromUsed
    <3>. QED  BY <3>1 DEF Arrivals, Followable
  <2>. QED  BY <2>2, <2>3
<1>4. CASE s = wsRef
  <2> DEFINE w == wire[s]
  <2>0. w \in Seq(Events) /\ w # <<>> /\ wire'[s] = Tail(w)
    BY <1>0, <1>1 DEF RelayTypes
  <2>1. Head(w) \in Unshown => status' = status
    BY DEF Unshown, OnOpen, OnMessage, overlayVars
  <2>2. mounted /\ Head(w) \notin Unshown => status' = StatusAfter(Head(w))
    BY DEF Unshown, OnOpen, OnMessage, SetStatus, Show
  <2>3. \A m \in Typed : published[m] \notin Unshown
    <3>1. \A m \in Typed : published[m] \in Kinds /\ published[m] # Untyped
      BY <1>0 DEF Typed, RelayTypes
    <3>. QED  BY <3>1, RelayAssumption DEF Unshown, Untyped
  <2> HIDE DEF w
  <2>4. ASSUME Followable, NEW m \in Typed, Arriving(m)  PROVE Arriving(m)'
    <3>0. mounted /\ StatusAfter(published[m])' = StatusAfter(published[m])
          /\ relaying' = relaying /\ published' = published /\ wsRef' = s
      BY <1>1, <1>4, <2>4 DEF Followable, StatusAfter, endpointVars
    <3>1. CASE \E e \in relaying : Due(e, wsRef, m)
      <4>1. \A e \in relaying : Due(e, wsRef, m) => Due(e, wsRef, m)'
        BY <1>1 DEF endpointVars, Due, Offset
      <4>. QED  BY <3>0, <3>1, <4>1 DEF Arriving
    <3>2. CASE Ends(w, published[m])
      <4>1. CASE Ends(Tail(w), published[m])
        BY <2>0, <3>0, <4>1 DEF Arriving, Ends
      <4>2. CASE Head(w) = published[m] /\ SaysNothing(Tail(w))
        <5>1. status' = StatusAfter(published[m])
          BY <2>2, <2>3, <3>0, <4>2
        <5>2. SaysNothing(wire[wsRef])'
          BY <2>0, <3>0, <4>2 DEF SaysNothing
        <5>. QED  BY <3>0, <5>1, <5>2 DEF Arriving
      <4>. QED  BY <2>0, <3>2, <4>1, <4>2, ReadOn
    <3>3. CASE SaysNothing(w) /\ status = StatusAfter(published[m])
      <4>1. Head(w) \in Unshown /\ SaysNothing(Tail(w))
        BY <2>0, <3>3, ReadOn
      <4>2. SaysNothing(wire[wsRef])'
        BY <2>0, <3>0, <4>1 DEF SaysNothing
      <4>. QED  BY <2>1, <3>0, <3>3, <4>1, <4>2 DEF Arriving
    <3>. QED  BY <1>4, <2>4, <3>1, <3>2, <3>3 DEF Arriving, w
  <2>. QED  BY <1>0, <1>1, <1>2, <2>4, ArrivesStill DEF endpointVars
<1>. QED  BY <1>3, <1>4

LEMMA AcceptArrivals ==
    ASSUME ShowInv, NEW s \in Sockets, Relay(Accept(s))
    PROVE  Arrivals'
<1>0. RelayTypes /\ Arrivals
  BY DEF ShowInv, TypesInv, ArrivesInv
<1>1. /\ UNCHANGED <<broken, queue, cast, published, disturbed, wsRef, mounted, replaced, status>>
      /\ relaying' = relaying \cup {s} /\ active' = Append(active, s)
      /\ since'[s] = Len(published)
      /\ \A e \in Sockets \ {s} : since'[e] = since[e] /\ wire'[e] = wire[e]
  BY <1>0 DEF Relay, Accept, hookVars, overlayVars, RelayTypes
<1>2. CASE wsRef = s
  <2>1. \A m \in Typed' : m \in Nat /\ m <= Len(published) /\ Len(published) \in Nat
    BY <1>0, <1>1 DEF Typed, RelayTypes
  <2>. QED  BY <1>1, <1>2, <2>1 DEF Arrivals
<1>3. CASE wsRef # s
  <2>1. Followable' => Followable /\ wsRef \in Sockets \ {s}
    BY <1>0, <1>1, <1>3 DEF Followable, RelayTypes
  <2>2. \A m \in Typed, e \in relaying : Due(e, wsRef, m) => Due(e, wsRef, m)'
    <3>1. /\ DOMAIN active \subseteq DOMAIN active'
          /\ \A p \in DOMAIN active : active'[p] = active[p]
      <4>1. active \in Seq(Sockets)
        BY <1>0 DEF RelayTypes
      <4>2. /\ Len(active) \in Nat /\ DOMAIN active = 1..Len(active)
            /\ DOMAIN active' = 1..(Len(active) + 1)
            /\ \A p \in 1..Len(active) : active'[p] = active[p]
        BY <1>1, <4>1, AppendKeeps
      <4>. QED  BY <4>2
    <3>2. \A e \in Sockets : Offset(e)' = Offset(e)
      BY <1>1 DEF Offset
    <3>3. \A e \in relaying : e \in Sockets /\ cast'[e] = cast[e]
      BY <1>0, <1>1 DEF RelayTypes
    <3> HIDE DEF Offset
    <3>. QED  BY <1>1, <3>1, <3>2, <3>3 DEF Due
  <2>3. \A m \in Typed : StatusAfter(published[m])' = StatusAfter(published[m])
    BY <1>1 DEF StatusAfter
  <2>4. Followable' => \A m \in Typed : Arriving(m) => Arriving(m)'
    BY <1>1, <2>1, <2>2, <2>3 DEF Arriving, Ends, SaysNothing
  <2>. QED  BY <1>0, <1>1, <2>1, <2>4, ArrivesStill
<1>. QED  BY <1>2, <1>3

\* A typed event that is published is due at the endpoint of the socket in use.
LEMMA PublishArrivals ==
    ASSUME ShowInv, NEW k \in Kinds, Relay(Publish(k))
    PROVE  Arrivals'
<1>0. RelayTypes /\ Arrivals /\ ConnInv /\ \A e \in Sockets : Queued(e)
  BY DEF ShowInv, TypesInv, ArrivesInv
<1>1. /\ UNCHANGED <<broken, wire, relaying, active, cast, since, disturbed>>
      /\ UNCHANGED <<wsRef, mounted, replaced, status>>
  BY DEF Relay, Publish, hookVars, overlayVars
<1>2. \A e \in relaying : e \in Sockets /\ Offset(e)' = Offset(e)
  BY <1>0, PublishQueued DEF Relay, RelayTypes
<1>3. /\ Len(published) \in Nat /\ DOMAIN published = 1..Len(published)
      /\ DOMAIN published' = 1..(Len(published) + 1)
      /\ \A n \in 1..Len(published) : published'[n] = published[n]
      /\ published'[Len(published) + 1] = k
  <2>1. published' = Append(published, k) /\ published \in Seq(Kinds)
    BY <1>0 DEF Relay, Publish, RelayTypes
  <2>. QED  BY <2>1, AppendKeeps
<1>4. Followable' => Followable
  BY <1>1 DEF Followable
<1> DEFINE last == Len(published) + 1
<1>5. Typed' = Typed \cup (IF k = Untyped THEN {} ELSE {last})
  <2>1. \A n : n \in DOMAIN published' <=> n \in DOMAIN published \/ n = last
    BY <1>3
  <2>2. \A n \in DOMAIN published : published'[n] = published[n]
    BY <1>3
  <2>3. published'[last] = k
    BY <1>3
  <2> HIDE DEF last
  <2>4. \A n : n \in Typed' <=> (n \in Typed \/ (n = last /\ k # Untyped))
    <3> SUFFICES ASSUME NEW n  PROVE n \in Typed' <=> (n \in Typed \/ (n = last /\ k # Untyped))
      OBVIOUS
    <3>1. last \notin DOMAIN published
      BY <1>3 DEF last
    <3>. QED  BY <2>1, <2>2, <2>3, <3>1 DEF Typed
  <2>. QED  BY <2>4
<1> HIDE DEF last
<1>6. CASE k = Untyped
  <2> SUFFICES ASSUME Followable', NEW m \in Typed, Latest(m), m > since[wsRef]
               PROVE  Arriving(m)'
    BY <1>1, <1>5, <1>6 DEF Arrivals, Latest
  <2>1. Arriving(m)
    BY <1>0, <1>4 DEF Arrivals
  <2>2. published'[m] = published[m] /\ StatusAfter(published[m])' = StatusAfter(published[m])
    BY <1>3 DEF Typed, StatusAfter
  <2>3. \A e \in relaying : Due(e, wsRef, m) => Due(e, wsRef, m)'
    BY <1>1, <1>2 DEF Due
  <2>. QED  BY <1>1, <2>1, <2>2, <2>3 DEF Arriving, Ends, SaysNothing
<1>7. CASE k # Untyped
  <2> SUFFICES ASSUME Followable', NEW m \in Typed', Latest(m)'
               PROVE  Arriving(m)'
    BY DEF Arrivals
  <2>1. m = last
    <3>1. last \in Typed' /\ last <= m
      BY <1>5, <1>7 DEF Latest
    <3>2. m \in 1..last
      BY <1>3 DEF Typed, last
    <3>. QED  BY <1>3, <3>1, <3>2 DEF last
  <2>2. wsRef \in relaying \ broken /\ wsRef \in Sockets
    BY <1>0, <1>4 DEF Followable, RelayTypes
  <2>3. Offset(wsRef) = Len(published) - Len(queue[wsRef]) /\ Len(queue[wsRef]) \in Nat
    BY <1>0, <2>2, QueueIs DEF Offset
  <2>4. m > Offset(wsRef)
    BY <1>3, <2>1, <2>3 DEF last
  <2>5. m = Offset(wsRef) + 1 => \E p \in DOMAIN active : active[p] = wsRef /\ p >= cast[wsRef].next
    <3> SUFFICES ASSUME m = Offset(wsRef) + 1
                 PROVE  \E p \in DOMAIN active : active[p] = wsRef /\ p >= cast[wsRef].next
      OBVIOUS
    <3>1. Len(queue[wsRef]) = 0
      BY <1>3, <2>1, <2>3 DEF last
    <3>2. cast[wsRef].next = 1
      BY <1>0, <2>2, <3>1, QueueIs DEF Queued, Idle
    <3>3. PICK p \in DOMAIN active : active[p] = wsRef
      BY <1>0, <2>2 DEF ConnInv
    <3>4. p \in Nat /\ p >= 1
      BY <1>0, ListIs
    <3>. QED  BY <3>2, <3>3, <3>4
  <2>6. Due(wsRef, wsRef, m)'
    BY <1>1, <1>2, <2>2, <2>4, <2>5 DEF Due
  <2>. QED  BY <1>1, <2>2, <2>6 DEF Arriving
<1>. QED  BY <1>6, <1>7

\* What an endpoint is sending is the event after those it has done with.
LEMMA HeadIs ==
    ASSUME RelayTypes, NEW e \in Sockets, Queued(e), queue[e] # <<>>
    PROVE  /\ e \in relaying /\ Offset(e) \in Nat /\ Offset(e) + 1 \in DOMAIN published
           /\ Head(queue[e]) = published[Offset(e) + 1]
<1>1. e \in relaying /\ since[e] \in Nat /\ since[e] <= Offset(e)
  BY DEF Queued, RelayTypes
<1>2. /\ queue[e] \in Seq(Kinds) /\ Len(queue[e]) \in Nat \ {0}
      /\ Len(published) \in Nat /\ DOMAIN published = 1..Len(published)
  BY QueueIs
<1>3. Offset(e) \in Nat /\ Offset(e) + 1 \in 1..Len(published)
  BY <1>1, <1>2 DEF Offset
<1>4. Head(queue[e]) = queue[e][1] /\ 1 \in 1..Len(queue[e])
  BY <1>2
<1>5. queue[e][1] = published[Offset(e) + 1]
  BY <1>4 DEF Queued
<1>. QED  BY <1>1, <1>2, <1>3, <1>4, <1>5

LEMMA SendArrivals ==
    ASSUME ShowInv, NEW s \in Sockets, Relay(Send(s))
    PROVE  Arrivals'
<1>0. RelayTypes /\ Arrivals /\ \A e \in Sockets : Queued(e)
  BY DEF ShowInv, TypesInv, ArrivesInv
<1> PICK t \in Sockets :
              /\ cast[s].next \in 1..Len(active) /\ t = active[cast[s].next]
              /\ cast' = [cast EXCEPT ![s] = [next |-> cast[s].next + 1,
                             dead |-> IF t \in broken THEN cast[s].dead \cup {t}
                                      ELSE cast[s].dead]]
              /\ wire' = [wire EXCEPT ![t] = IF t \in broken THEN wire[t]
                                             ELSE Append(wire[t], Head(queue[s]))]
              /\ queue[s] # <<>> /\ Head(queue[s]) \in Kinds
  BY <1>0, SendEffect DEF Relay
<1>1. /\ UNCHANGED <<broken, relaying, active, queue, published, since, disturbed>>
      /\ UNCHANGED <<wsRef, mounted, replaced, status>>
  BY DEF Relay, Send, hookVars, overlayVars
<1>2. /\ cast'[s].next = cast[s].next + 1 /\ cast[s].next \in Nat
      /\ \A e \in Sockets \ {s} : cast'[e] = cast[e]
  BY <1>0 DEF RelayTypes
<1>3. /\ s \in relaying /\ Offset(s) \in Nat /\ Offset(s) + 1 \in DOMAIN published
      /\ Head(queue[s]) = published[Offset(s) + 1]
  BY <1>0, HeadIs
<1>4. Followable' => Followable
  BY <1>1 DEF Followable
<1>5. \A e \in Sockets : Offset(e)' = Offset(e)
  BY <1>1 DEF Offset
<1> HIDE DEF Offset
<1>6. ASSUME Followable, NEW m \in Typed, Latest(m), Arriving(m)
      PROVE  Arriving(m)'
  <2>1. StatusAfter(published[m])' = StatusAfter(published[m]) /\ m \in Nat
    BY <1>0, <1>1 DEF StatusAfter, Typed, RelayTypes
  <2>2. wsRef \in relaying \ broken /\ relaying \subseteq Sockets
    BY <1>0, <1>6 DEF Followable, RelayTypes
  <2>3. \A e \in relaying \ {s} : Due(e, wsRef, m) => Due(e, wsRef, m)'
    BY <1>1, <1>2, <1>5, <2>2 DEF Due
  <2>4. m # Offset(s) + 1 => (Due(s, wsRef, m) => Due(s, wsRef, m)')
    BY <1>1, <1>5 DEF Due
  <2>5. CASE t # wsRef
    <3>1. wire'[wsRef] = wire[wsRef]
      BY <1>0, <2>2, <2>5 DEF RelayTypes
    <3>2. Due(s, wsRef, m) => Due(s, wsRef, m)'
      <4> SUFFICES ASSUME Due(s, wsRef, m), m = Offset(s) + 1  PROVE Due(s, wsRef, m)'
        BY <2>4
      <4> PICK p \in DOMAIN active : active[p] = wsRef /\ p >= cast[s].next
        BY DEF Due
      <4>1. p \in Nat /\ p # cast[s].next
        BY <1>0, <2>5, ListIs
      <4>2. p >= cast'[s].next
        BY <1>2, <4>1
      <4>. QED  BY <1>1, <1>5, <4>2 DEF Due
    <3>. QED  BY <1>1, <1>3, <1>6, <2>1, <2>3, <3>1, <3>2 DEF Arriving, Ends, SaysNothing
  <2>6. CASE t = wsRef
    <3>1. /\ wire'[wsRef] = Append(wire[wsRef], Head(queue[s]))
          /\ wire[wsRef] \in Seq(Events) /\ Head(queue[s]) \in Events
      BY <1>0, <2>2, <2>6 DEF RelayTypes, Events
    <3>2. CASE Head(queue[s]) = Untyped
      <4>1. m # Offset(s) + 1
        BY <1>3, <3>2 DEF Typed
      <4>2. /\ Ends(wire[wsRef], published[m]) => Ends(wire[wsRef], published[m])'
            /\ SaysNothing(wire[wsRef]) => SaysNothing(wire[wsRef])'
        <5>1. Head(queue[s]) \in Unshown
          BY <3>2 DEF Unshown
        <5>2. /\ Ends(wire[wsRef], published[m]) => Ends(wire'[wsRef], published[m])
              /\ SaysNothing(wire[wsRef]) => SaysNothing(wire'[wsRef])
          BY <3>1, <5>1, SendsLast
        <5>. QED  BY <1>1, <5>2 DEF Ends, SaysNothing
      <4>. QED  BY <1>1, <1>3, <1>6, <2>1, <2>3, <2>4, <4>1, <4>2 DEF Arriving
    <3>3. CASE Head(queue[s]) # Untyped
      <4>1. Offset(s) + 1 <= m
        BY <1>3, <1>6, <3>3 DEF Latest, Typed
      <4>2. CASE m = Offset(s) + 1
        <5>1. Ends(wire'[wsRef], published[m])
          BY <1>3, <3>1, <4>2, SendsLast
        <5>2. Ends(wire[wsRef], published[m])'
          BY <1>1, <5>1 DEF Ends
        <5>. QED  BY <5>2 DEF Arriving
      <4>3. CASE m # Offset(s) + 1
        <5>1. m > Offset(s)
          BY <1>3, <2>1, <4>1
        <5>2. Due(s, wsRef, m)'
          BY <1>1, <1>5, <4>3, <5>1 DEF Due
        <5>. QED  BY <1>1, <1>3, <5>2 DEF Arriving
      <4>. QED  BY <4>2, <4>3
    <3>. QED  BY <3>2, <3>3
  <2>. QED  BY <2>5, <2>6
<1>. QED  BY <1>0, <1>1, <1>4, <1>6, ArrivesStill

\* Where nobody passed leaves the list, who is still to be reached stays so.
LEMMA StaysDue ==
    ASSUME RelayTypes, NEW gone, \A t \in gone : ~Shifts(t), NEW u \in Sockets,
           NEW p \in DOMAIN active, p >= cast[u].next, active[p] \notin gone
    PROVE  \E q \in DOMAIN Without(active, gone) :
              Without(active, gone)[q] = active[p] /\ q >= cast[u].next
<1>1. /\ Len(active) \in Nat /\ DOMAIN active = 1..Len(active) /\ active \in Seq(relaying)
      /\ cast[u].next \in Nat \ {0}
  <2>1. cast[u].next \in 1..(Cardinality(Sockets) + 1) /\ Cardinality(Sockets) \in Nat
    BY ListFits DEF RelayTypes, Casts
  <2>. QED  BY <2>1, ListIs DEF RelayTypes
<1>2. cast[u].next <= Len(active)
  BY <1>1
<1>3. \A q \in DOMAIN active : q < cast[u].next => active[q] \notin gone
  BY <1>2 DEF Shifts
<1>4. p \in Kept(active, gone)
  BY DEF Kept
<1>5. Place(active, gone, p) >= cast[u].next
  BY <1>1, <1>3, <1>4, WithoutBehind
<1>6. /\ Place(active, gone, p) \in DOMAIN Without(active, gone)
      /\ Without(active, gone)[Place(active, gone, p)] = active[p]
  BY <1>1, <1>4, WithoutIs
<1>. QED  BY <1>5, <1>6

LEMMA SentArrivals ==
    ASSUME ShowInv, NEW s \in Sockets, Relay(Sent(s))
    PROVE  Arrivals'
<1>0. RelayTypes /\ Arrivals /\ ConnInv /\ ConnInv' /\ \A e \in Sockets : Queued(e)
  BY SentConn DEF ShowInv, TypesInv, ArrivesInv, Relay
<1>1. /\ UNCHANGED <<broken, wire, relaying, published, since>>
      /\ UNCHANGED <<wsRef, mounted, replaced, status>>
      /\ active' = Without(active, cast[s].dead) /\ queue[s] # <<>> /\ cast[s].next > Len(active)
      /\ ~disturbed' => ~disturbed /\ \A t \in cast[s].dead : ~Shifts(t)
  BY DEF Relay, Sent, hookVars, overlayVars
<1>2. /\ Offset(s)' = Offset(s) + 1 /\ cast'[s] = Idle
      /\ \A e \in Sockets \ {s} : Offset(e)' = Offset(e) /\ cast'[e] = cast[e]
  BY <1>0, SentQueued DEF Relay
<1>3. /\ s \in relaying /\ Offset(s) \in Nat
  BY <1>0, <1>1, HeadIs
<1>4. Followable' => Followable /\ \A t \in cast[s].dead : ~Shifts(t)
  BY <1>1 DEF Followable
<1> HIDE DEF Offset
<1>5. ASSUME Followable, \A t \in cast[s].dead : ~Shifts(t), NEW m \in Typed, Arriving(m)
      PROVE  Arriving(m)'
  <2>1. /\ StatusAfter(published[m])' = StatusAfter(published[m]) /\ m \in Nat
        /\ published' = published /\ wsRef' = wsRef /\ status' = status /\ relaying' = relaying
    BY <1>0, <1>1 DEF StatusAfter, Typed, RelayTypes
  <2>2. /\ wsRef \in relaying \ broken /\ relaying \subseteq Sockets
        /\ wsRef \notin cast[s].dead
    BY <1>0, <1>3, <1>5 DEF Followable, RelayTypes, ConnInv
  <2>3. ASSUME NEW e \in relaying \ {s}, Due(e, wsRef, m)  PROVE Due(e, wsRef, m)'
    <3>1. Offset(e)' = Offset(e) /\ cast'[e] = cast[e] /\ m > Offset(e)
      BY <1>2, <2>2, <2>3 DEF Due
    <3>2. m = Offset(e) + 1 => \E q \in DOMAIN active' : active'[q] = wsRef /\ q >= cast[e].next
      <4> SUFFICES ASSUME m = Offset(e) + 1
                   PROVE  \E q \in DOMAIN active' : active'[q] = wsRef /\ q >= cast[e].next
        OBVIOUS
      <4> PICK p \in DOMAIN active : active[p] = wsRef /\ p >= cast[e].next
        BY <2>3 DEF Due
      <4>. QED  BY <1>0, <1>1, <1>5, <2>2, StaysDue
    <3>. QED  BY <2>1, <3>1, <3>2 DEF Due
  <2>4. ASSUME Due(s, wsRef, m)  PROVE Due(s, wsRef, m)'
    <3>1. m # Offset(s) + 1
      <4>1. \A p \in DOMAIN active : ~(p >= cast[s].next)
        <5>1. /\ Len(active) \in Nat /\ DOMAIN active = 1..Len(active)
              /\ cast[s].next \in 1..(Cardinality(Sockets) + 1) /\ Cardinality(Sockets) \in Nat
          BY <1>0, ListIs, ListFits DEF RelayTypes, Casts
        <5>. QED  BY <1>1, <5>1
      <4>. QED  BY <2>4, <4>1 DEF Due
    <3>2. m > Offset(s)'
      BY <1>2, <1>3, <2>1, <2>4, <3>1 DEF Due
    <3>3. \E p \in DOMAIN active' : active'[p] = wsRef /\ p >= cast'[s].next
      <4>1. PICK p \in DOMAIN active' : active'[p] = wsRef
        BY <1>0, <1>1, <2>2 DEF ConnInv
      <4>2. p \in Nat /\ p >= 1
        <5>1. active' \in Seq(relaying)
          <6>1. active \in Seq(relaying)
            BY <1>0 DEF RelayTypes
          <6>. QED  BY <1>1, <6>1, WithoutIs
        <5>. QED  BY <4>1, <5>1
      <4>. QED  BY <1>2, <4>1, <4>2 DEF Idle
    <3>. QED  BY <2>1, <3>2, <3>3 DEF Due
  <2>. QED  BY <1>1, <1>5, <2>1, <2>3, <2>4 DEF Arriving, Ends, SaysNothing
<1>. QED  BY <1>0, <1>1, <1>4, <1>5, ArrivesStill

LEMMA DepartArrivals ==
    ASSUME ShowInv, NEW s \in Sockets, Relay(Depart(s))
    PROVE  Arrivals'
<1>0. RelayTypes /\ Arrivals /\ \A e \in Sockets : Queued(e)
  BY DEF ShowInv, TypesInv, ArrivesInv
<1>1. /\ UNCHANGED <<broken, wire, published, wsRef, mounted, replaced, status>>
      /\ active' = Without(active, {s}) /\ relaying' = relaying \ {s} /\ s \in broken
      /\ ~disturbed' => ~disturbed /\ ~Shifts(s) /\ queue[s] = <<>>
  BY DEF Relay, Depart, hookVars, overlayVars
<1>2. \A e \in Sockets \ {s} : /\ Offset(e)' = Offset(e)
                               /\ cast'[e] = cast[e] /\ since'[e] = since[e]
  BY <1>0 DEF Relay, Depart, Offset, RelayTypes
<1>3. Followable' => /\ Followable /\ ~Shifts(s) /\ queue[s] = <<>>
                     /\ wsRef \in Sockets \ {s}
  BY <1>0, <1>1 DEF Followable, RelayTypes
<1>4. ASSUME Followable, ~Shifts(s), queue[s] = <<>>, wsRef # s, NEW m \in Typed, Arriving(m)
      PROVE  Arriving(m)'
  <2>1. /\ StatusAfter(published[m])' = StatusAfter(published[m]) /\ relaying \subseteq Sockets
    BY <1>0, <1>1 DEF StatusAfter, RelayTypes
  <2>2. ~Due(s, wsRef, m)
    <3>1. Offset(s) = Len(published) /\ Len(published) \in Nat /\ m \in 1..Len(published)
      <4>1. Len(published) \in Nat /\ Len(queue[s]) = 0 /\ DOMAIN published = 1..Len(published)
        BY <1>0, <1>4, QueueIs
      <4>. QED  BY <4>1 DEF Offset, Typed
    <3>. QED  BY <3>1 DEF Due
  <2> HIDE DEF Offset
  <2>3. ASSUME NEW e \in relaying \ {s}, Due(e, wsRef, m)  PROVE e \in relaying' /\ Due(e, wsRef, m)'
    <3>1. Offset(e)' = Offset(e) /\ cast'[e] = cast[e] /\ m > Offset(e)
      BY <1>2, <2>1, <2>3 DEF Due
    <3>2. m = Offset(e) + 1 => \E q \in DOMAIN active' : active'[q] = wsRef /\ q >= cast[e].next
      <4> SUFFICES ASSUME m = Offset(e) + 1
                   PROVE  \E q \in DOMAIN active' : active'[q] = wsRef /\ q >= cast[e].next
        OBVIOUS
      <4> PICK p \in DOMAIN active : active[p] = wsRef /\ p >= cast[e].next
        BY <2>3 DEF Due
      <4>1. \A t \in {s} : ~Shifts(t)
        BY <1>4
      <4>2. e \in Sockets /\ active[p] \notin {s}
        BY <1>4, <2>1
      <4>. QED  BY <1>0, <1>1, <4>1, <4>2, StaysDue
    <3>. QED  BY <1>1, <3>1, <3>2 DEF Due
  <2>. QED  BY <1>1, <1>4, <2>1, <2>2, <2>3 DEF Arriving, Ends, SaysNothing
<1>. QED  BY <1>0, <1>1, <1>2, <1>3, <1>4, ArrivesStill

-----------------------------------------------------------------------------
(* All together *)

LEMMA ShowStarts == Init => ShowInv
<1> SUFFICES ASSUME Init  PROVE ArrivesInv
  BY TypesStart DEF ShowInv
<1>1. ConnInv
  BY DEF Init, RelayInit, ConnInv, Idle
<1>2. \A e \in Sockets : Queued(e)
  <2>1. relaying = {} /\ \A e \in Sockets : queue[e] = <<>> /\ cast[e] = Idle
    BY DEF Init, RelayInit
  <2>. QED  BY <2>1 DEF Queued
<1>3. Arrivals
  BY DEF Init, RelayInit, Arrivals, Followable
<1>. QED  BY <1>1, <1>2, <1>3 DEF ArrivesInv

LEMMA ShowStep == ShowInv /\ [Next]_vars => ShowInv'
<1> SUFFICES ASSUME ShowInv, [Next]_vars  PROVE Arrivals'
  BY TypesStep, ConnStep, QueuedStep DEF ShowInv, ArrivesInv, TypesInv
<1>1. CASE Connect \/ Disconnect \/ Unmount \/ TimerFires \/ LostTimerFires
  BY <1>1, HookArrivals
<1>2. CASE \E s \in Sockets : OnOpen(s) \/ OnMessage(s) \/ OnClose(s)
  BY <1>2, ReadArrivals, CloseArrivals
<1>3. CASE Overlay \/ UNCHANGED vars
  BY <1>3, OverlayArrivals
<1>4. CASE \E s \in Sockets : Relay(Endpoint(s))
  BY <1>4, AcceptArrivals, SendArrivals, SentArrivals, DepartArrivals DEF Relay, Endpoint
<1>5. CASE \E s \in Sockets : Relay(Break(s)) \/ Relay(Reject(s)) \/ Relay(Unreachable(s))
  BY <1>5, FaultArrivals
<1>6. CASE Relay(ServerStarts)
  BY <1>6, FaultArrivals
<1>7. CASE \E k \in Kinds : Relay(Publish(k))
  BY <1>7, PublishArrivals
<1>8. CASE Relay(ServerStops)
  BY <1>8, StopArrivals
<1>. QED  BY <1>1, <1>2, <1>3, <1>4, <1>5, <1>6, <1>7, <1>8 DEF Next, Browser

\* Nothing is under way: the last event can only be shown.
LEMMA ShowIsEnough == ShowInv => ShowsLastEvent
<1> SUFFICES ASSUME ShowInv, mounted, wsRef \in Lines \ broken, wsRef \in relaying,
                    Settled, ~disturbed, ~replaced,
                    NEW m \in Typed, m > since[wsRef], \A j \in Typed : j <= m
             PROVE  status = StatusAfter(published[m])
  BY DEF ShowsLastEvent
<1>1. RelayTypes /\ Arrivals /\ Followable /\ Latest(m)
  BY DEF ShowInv, TypesInv, ArrivesInv, Followable, Latest
<1>2. Arriving(m)
  BY <1>1 DEF Arrivals
<1>3. ~Ends(wire[wsRef], published[m])
  <2>1. wire[wsRef] = <<>>
    BY DEF Settled, Lines
  <2>. QED  BY <2>1 DEF Ends
<1>4. ASSUME NEW e \in relaying  PROVE ~Due(e, wsRef, m)
  <2>1. e \in Sockets /\ queue[e] = <<>>
    BY <1>1 DEF RelayTypes, Settled
  <2>2. Len(published) \in Nat /\ Len(queue[e]) = 0 /\ DOMAIN published = 1..Len(published)
    BY <1>1, <2>1, QueueIs
  <2>. QED  BY <2>2 DEF Due, Offset, Typed
<1>. QED  BY <1>2, <1>3, <1>4 DEF Arriving

LEMMA AlwaysShow == Spec => []ShowInv
BY ShowStarts, ShowStep, PTL DEF Spec

\* What is shown in the end is what was published last: when nothing is under
\* way, and no socket has left in the middle of a broadcast, the status is that
\* of the last typed event since the open socket subscribed (router.py,
\* manager.py, useWebSocketSync.ts).
THEOREM ShowsLastEventHolds == Spec => []ShowsLastEvent
BY AlwaysShow, ShowIsEnough, PTL
=============================================================================
