------------------------- MODULE OrdersPage_proofs -------------------------
(* Theorems about OrderSync and OrdersPage, for any orders, requests,       *)
(* faults, deletions and visits.                                            *)
EXTENDS OrdersPage, FiniteSetTheorems, TLAPS

(***************************************************************************)
(* The server: types, and what a request's step says of its order.         *)
(***************************************************************************)
RequestType == [order : Orders \cup {Nothing}, phase : Phases,
                result : {"none", "synced", "failed", "error"}]

ServerOK ==
    /\ req \in [Requests -> RequestType]
    /\ \A i \in Requests : req[i].phase \in {"unused", "done"} <=> req[i].order = Nothing
    /\ odoo \in [Orders -> Nat] /\ paid \in [Orders -> Nat]
    /\ mapped \subseteq {o \in Orders : odoo[o] > 0}
    /\ \A i \in Requests : req[i].phase \in {"insert", "commit"} => odoo[req[i].order] > 0
    /\ unmapped \subseteq Orders /\ newer \in [Orders -> SUBSET Orders]
    /\ faults \in 0..MaxFaults /\ deletes \in 0..MaxDeletes

(***************************************************************************)
(* The page: types, and that a mutation that is pending is one of this     *)
(* visit whose request has not been answered.                              *)
(***************************************************************************)
PageOK ==
    /\ typed \in Orders \cup {Nothing}
    /\ sent \subseteq [id : Requests, visit : 1..MaxVisits]
    /\ feedback \in [kind : {"none", "success", "error"}, order : Orders \cup {Nothing}]
    /\ visit \in 1..MaxVisits /\ open \in BOOLEAN
    /\ listed \subseteq Orders
    /\ fetch \in [step : {"idle", "asked", "answered"}, brings : SUBSET Orders]
    /\ loaded \in BOOLEAN /\ stale \in BOOLEAN /\ missed \in BOOLEAN

Busy(i) == req[i].phase \notin {"unused", "done"}

PendingOK ==
    /\ \A m \in sent : Busy(m.id)
    /\ \A m, n \in sent : m.id = n.id => m = n
    /\ pending # 0 => open /\ \E m \in sent : m.id = pending /\ m.visit = visit

(***************************************************************************)
(* DuplicatesPaidFor is not inductive: a request about to create has its   *)
(* right to one sale order already, and a second one only for a price.     *)
(* Sale orders made and about to be made exceed what is paid for by at     *)
(* most one, and by none where there is no mapping and nobody past the     *)
(* check.                                                                  *)
(***************************************************************************)
Creating(o) == {i \in Requests : req[i].order = o /\ req[i].phase = "create"}
Inserting(o) == {i \in Requests : req[i].order = o /\ req[i].phase \in {"insert", "commit"}}
PastCheck(o) == \E i \in Requests : req[i].order = o /\ req[i].phase \in Past
Right(o) == IF o \in mapped \/ PastCheck(o) THEN 1 ELSE 0
N(o) == Cardinality(Creating(o))

WithinRight == \A o \in Orders : odoo[o] + N(o) <= paid[o] + Right(o)

OrdersInv == ServerOK /\ PageOK /\ PendingOK /\ WithinRight

-----------------------------------------------------------------------------
(* How many requests are about to create *)

LEMMA RequestsFinite == IsFiniteSet(Requests)
BY FS_Interval, OrderAssumption DEF Requests

LEMMA CreatingFinite ==
    ASSUME NEW o
    PROVE  IsFiniteSet(Creating(o)) /\ N(o) \in Nat
BY RequestsFinite, FS_Subset, FS_CardinalityType DEF Creating, N

LEMMA CreatedCount ==
    ASSUME NEW o
    PROVE  /\ Created(o) = Cardinality(Inserting(o))
           /\ Created(o) \in Nat
           /\ Inserting(o) # {} => Created(o) >= 1
<1>1. Created(o) = Cardinality(Inserting(o))
  BY DEF Created, Inserting
<1>2. IsFiniteSet(Inserting(o))
  BY RequestsFinite, FS_Subset DEF Inserting
<1>. QED
  BY <1>1, <1>2, FS_CardinalityType, FS_EmptySet

\* One request becomes r, as every step but a crash has it.
Turns(i, r) == req' = [req EXCEPT ![i] = r]

LEMMA SameCreating ==
    ASSUME ServerOK, NEW i \in Requests, NEW r, Turns(i, r), NEW o,
           req[i].phase # "create", r.phase # "create"
    PROVE  N(o)' = N(o)
<1>1. Creating(o)' = Creating(o)
  BY DEF ServerOK, Turns, Creating
<1>. QED
  BY <1>1 DEF N

LEMMA StartCreating ==
    ASSUME ServerOK, NEW i \in Requests, NEW r, Turns(i, r), NEW o,
           req[i].phase # "create", r.phase = "create"
    PROVE  N(o)' = IF o = r.order THEN N(o) + 1 ELSE N(o)
<1>1. CASE o = r.order
  <2>1. i \notin Creating(o) /\ Creating(o)' = Creating(o) \cup {i}
    BY <1>1 DEF ServerOK, Turns, Creating
  <2>. QED
    BY <1>1, <2>1, CreatingFinite, FS_AddElement DEF N
<1>2. CASE o # r.order
  <2>1. Creating(o)' = Creating(o)
    BY <1>2 DEF ServerOK, Turns, Creating
  <2>. QED
    BY <1>2, <2>1 DEF N
<1>. QED
  BY <1>1, <1>2

LEMMA StopCreating ==
    ASSUME ServerOK, NEW i \in Requests, NEW r, Turns(i, r), NEW o,
           req[i].phase = "create", r.phase # "create"
    PROVE  /\ N(o)' = IF o = req[i].order THEN N(o) - 1 ELSE N(o)
           /\ o = req[i].order => N(o) >= 1
<1>1. CASE o = req[i].order
  <2>1. i \in Creating(o) /\ Creating(o)' = Creating(o) \ {i}
    BY <1>1 DEF ServerOK, Turns, Creating
  <2>2. Creating(o) # {}
    BY <2>1
  <2>3. N(o) # 0
    BY <2>2, CreatingFinite, FS_EmptySet DEF N
  <2>. QED
    BY <1>1, <2>1, <2>3, CreatingFinite, FS_RemoveElement DEF N
<1>2. CASE o # req[i].order
  <2>1. Creating(o)' = Creating(o)
    BY <1>2 DEF ServerOK, Turns, Creating
  <2>. QED
    BY <1>2, <2>1 DEF N
<1>. QED
  BY <1>1, <1>2

-----------------------------------------------------------------------------
(* The steps of the server *)

LEMMA TypedRequest ==
    ASSUME ServerOK, NEW i \in Requests
    PROVE  /\ req[i] \in RequestType
           /\ Busy(i) => req[i].order \in Orders
BY DEF ServerOK, RequestType, Busy

\* What a step of a request, and a request that is asked or ends, must do.
ServerKept == ServerOK' /\ WithinRight'

LEMMA FaultType ==
    ASSUME ServerOK, Fault
    PROVE  faults' \in 0..MaxFaults
BY OrderAssumption DEF ServerOK, Fault

\* A step of a request that is past the check neither before nor after it.
LEMMA AwayStep ==
    ASSUME ServerOK, WithinRight, NEW i \in Requests, NEW r \in RequestType, Turns(i, r),
           req[i].phase \notin Past, r.phase \notin Past,
           r.phase \in {"unused", "done"} <=> r.order = Nothing,
           faults' \in 0..MaxFaults, UNCHANGED <<odoo, mapped, deletes, paid, unmapped, newer>>
    PROVE  ServerKept
<1>1. \A j \in Requests : req'[j] = IF j = i THEN r ELSE req[j]
  BY DEF ServerOK, Turns
<1>2. ServerOK'
  <2>1. req' \in [Requests -> RequestType]
    BY DEF ServerOK, Turns
  <2>2. \A j \in Requests : req'[j].phase \in {"unused", "done"} <=> req'[j].order = Nothing
    BY <1>1 DEF ServerOK
  <2>3. \A j \in Requests : req'[j].phase \in {"insert", "commit"} => odoo[req'[j].order] > 0
    BY <1>1 DEF ServerOK, Past
  <2>. QED
    BY <2>1, <2>2, <2>3 DEF ServerOK
<1>3. ASSUME NEW p \in Orders
      PROVE  N(p)' = N(p) /\ (PastCheck(p)' <=> PastCheck(p))
  <2>1. N(p)' = N(p)
    BY SameCreating DEF Past
  <2>2. PastCheck(p)' <=> PastCheck(p)
    BY <1>1 DEF PastCheck
  <2>. QED
    BY <2>1, <2>2
<1>. QED
  BY <1>2, <1>3 DEF ServerKept, WithinRight, Right

\* A request that is answered, with whatever Odoo has gained by it.
LEMMA AnsweredTypes ==
    ASSUME ServerOK, NEW i \in Requests, NEW r \in RequestType, Turns(i, r),
           r.phase = "answer", r.order \in Orders,
           NEW o \in Orders, NEW n \in Nat, NEW k \in Nat,
           odoo' = [odoo EXCEPT ![o] = @ + n], paid' = [paid EXCEPT ![o] = @ + k],
           faults' \in 0..MaxFaults, UNCHANGED <<mapped, deletes, unmapped, newer>>
    PROVE  ServerOK'
<1>1. \A j \in Requests : req'[j] = IF j = i THEN r ELSE req[j]
  BY DEF ServerOK, Turns
<1>2. \A p \in Orders : odoo'[p] >= odoo[p] /\ odoo[p] \in Nat /\ odoo'[p] \in Nat
  BY DEF ServerOK
<1>3. req' \in [Requests -> RequestType] /\ odoo' \in [Orders -> Nat] /\ paid' \in [Orders -> Nat]
  BY DEF ServerOK, Turns
<1>4. \A j \in Requests : req'[j].phase \in {"unused", "done"} <=> req'[j].order = Nothing
  BY <1>1, OrderAssumption DEF ServerOK
<1>5. ASSUME NEW j \in Requests, req'[j].phase \in {"insert", "commit"}
      PROVE  odoo'[req'[j].order] > 0
  <2>1. req'[j] = req[j] /\ odoo[req[j].order] > 0 /\ req[j].order \in Orders
    BY <1>1, <1>5, TypedRequest DEF ServerOK, Busy
  <2>. QED
    BY <1>2, <2>1
<1>6. mapped' \subseteq {p \in Orders : odoo'[p] > 0}
  BY <1>2 DEF ServerOK
<1>. QED
  BY <1>3, <1>4, <1>5, <1>6 DEF ServerOK

LEMMA CheckStep ==
    ASSUME ServerOK, WithinRight, NEW i \in Requests, Check(i)
    PROVE  ServerKept
<1>. DEFINE o == req[i].order
            moved == [req[i] EXCEPT !.phase = "create"]
            done == [req[i] EXCEPT !.phase = "answer", !.result = "synced"]
<1>1. req[i].phase = "check" /\ o \in Orders /\ req[i] \in RequestType
  BY TypedRequest DEF Check, In, Busy
<1>2. CASE o \in mapped
  <2>1. Turns(i, done)
    BY <1>2 DEF Check, Answers, Turns
  <2>2. done \in RequestType /\ done.phase = "answer" /\ done.order \in Orders
    BY <1>1 DEF RequestType, Phases
  <2>3. faults' \in 0..MaxFaults /\ UNCHANGED <<odoo, mapped, deletes, paid, unmapped, newer>>
    BY <1>2 DEF Check, ServerOK
  <2>. QED
    BY <1>1, <2>1, <2>2, <2>3, AwayStep, OrderAssumption DEF Past
<1>3. CASE o \notin mapped
  <2>1. Turns(i, moved) /\ Pay(o, IF Races(i) THEN 1 ELSE 0)
    BY <1>3 DEF Check, Goes, Turns
  <2>2. ServerOK'
    BY <1>1, <1>3, <2>1, OrderAssumption DEF ServerOK, RequestType, Phases, Turns, Check, Pay
  <2>3. \A p \in Orders : N(p)' = IF p = o THEN N(p) + 1 ELSE N(p)
    <3>1. moved.phase = "create" /\ moved.order = o
      BY <1>1 DEF RequestType
    <3>. QED
      BY <1>1, <2>1, <3>1, StartCreating
  <2>4. \A p \in Orders : PastCheck(p)' <=> PastCheck(p) \/ p = o
    BY <1>1, <2>1 DEF ServerOK, PastCheck, Past, Turns
  <2>5. Races(i) <=> PastCheck(o)
    BY <1>1 DEF Races, PastCheck, Past
  <2>6. ASSUME NEW p \in Orders
        PROVE  (odoo[p] + N(p) <= paid[p] + Right(p))'
    <3>1. odoo[p] \in Nat /\ N(p) \in Nat /\ paid[p] \in Nat /\ odoo[p] + N(p) <= paid[p] + Right(p)
      BY CreatingFinite DEF ServerOK, WithinRight
    <3>2. odoo' = odoo /\ mapped' = mapped
      BY DEF Check
    <3>3. CASE p = o
      <4>1. paid'[p] = paid[p] + (IF PastCheck(o) THEN 1 ELSE 0)
        BY <1>1, <2>1, <2>5, <3>3 DEF Pay, ServerOK
      <4>2. Right(p)' = 1 /\ Right(p) = IF PastCheck(o) THEN 1 ELSE 0
        BY <1>3, <2>4, <3>2, <3>3 DEF Right
      <4>. QED
        BY <2>3, <3>1, <3>2, <3>3, <4>1, <4>2
    <3>4. CASE p # o
      <4>1. paid'[p] = paid[p] /\ Right(p)' = Right(p)
        BY <1>1, <2>1, <2>4, <3>2, <3>4 DEF Pay, ServerOK, Right
      <4>. QED
        BY <2>3, <3>1, <3>2, <3>4, <4>1
    <3>. QED
      BY <3>3, <3>4
  <2>. QED
    BY <2>2, <2>6 DEF ServerKept, WithinRight
<1>. QED
  BY <1>2, <1>3

LEMMA FetchFailsStep ==
    ASSUME ServerOK, WithinRight, NEW i \in Requests, FetchFails(i)
    PROVE  ServerKept
<1>. DEFINE done == [req[i] EXCEPT !.phase = "answer", !.result = "failed"]
<1>1. req[i].phase = "check" /\ req[i] \in RequestType /\ Turns(i, done)
  BY TypedRequest DEF FetchFails, In, Answers, Turns
<1>2. done \in RequestType /\ done.phase = "answer" /\ done.order = req[i].order
  BY <1>1 DEF RequestType, Phases
<1>3. req[i].order \in Orders
  BY <1>1, TypedRequest DEF Busy
<1>. QED
  BY <1>1, <1>2, <1>3, AwayStep, FaultType, OrderAssumption DEF FetchFails, Past

LEMMA CreateStep ==
    ASSUME ServerOK, WithinRight, NEW i \in Requests, Create(i)
    PROVE  ServerKept
<1>. DEFINE o == req[i].order
            moved == [req[i] EXCEPT !.phase = "insert"]
<1>1. req[i].phase = "create" /\ o \in Orders /\ req[i] \in RequestType /\ Turns(i, moved)
  BY TypedRequest DEF Create, In, Busy, Goes, Turns
<1>2. PICK n \in 0..(Attempts - 1) :
        /\ faults + n <= MaxFaults /\ faults' = faults + n
        /\ odoo' = [odoo EXCEPT ![o] = @ + n + 1]
        /\ paid' = [paid EXCEPT ![o] = @ + n]
  BY DEF Create, Pay
<1>3. n \in Nat
  BY DEF Attempts
<1>4. ServerOK'
  BY <1>1, <1>2, <1>3, OrderAssumption DEF ServerOK, RequestType, Phases, Turns, Create
<1>5. \A p \in Orders : N(p)' = IF p = o THEN N(p) - 1 ELSE N(p)
  <2>1. moved.phase = "insert"
    BY <1>1 DEF RequestType
  <2>. QED
    BY <1>1, <2>1, StopCreating
<1>6. \A p \in Orders : PastCheck(p)' <=> PastCheck(p)
  BY <1>1 DEF ServerOK, PastCheck, Past, Turns
<1>7. PastCheck(o)
  BY <1>1 DEF PastCheck, Past
<1>8. ASSUME NEW p \in Orders
      PROVE  (odoo[p] + N(p) <= paid[p] + Right(p))'
  <2>1. odoo[p] \in Nat /\ N(p) \in Nat /\ paid[p] \in Nat /\ odoo[p] + N(p) <= paid[p] + Right(p)
    BY CreatingFinite DEF ServerOK, WithinRight
  <2>2. Right(p)' = Right(p) /\ Right(p) \in Nat
    BY <1>6 DEF Right, Create
  <2>3. odoo'[p] = odoo[p] + (IF p = o THEN n + 1 ELSE 0) /\ paid'[p] = paid[p] + (IF p = o THEN n ELSE 0)
    BY <1>2, <1>3, <2>1 DEF ServerOK
  <2>. QED
    BY <1>3, <1>5, <2>1, <2>2, <2>3
<1>. QED
  BY <1>4, <1>8 DEF ServerKept, WithinRight

LEMMA CreateFailsStep ==
    ASSUME ServerOK, WithinRight, NEW i \in Requests, CreateFails(i)
    PROVE  ServerKept
<1>. DEFINE o == req[i].order
            done == [req[i] EXCEPT !.phase = "answer", !.result = "failed"]
<1>1. req[i].phase = "create" /\ o \in Orders /\ req[i] \in RequestType /\ Turns(i, done)
  BY TypedRequest DEF CreateFails, In, Busy, Answers, Turns
<1>2. PICK n \in 0..Attempts :
        /\ faults + n + 1 <= MaxFaults /\ faults' = faults + n + 1
        /\ odoo' = [odoo EXCEPT ![o] = @ + n]
        /\ paid' = [paid EXCEPT ![o] = @ + n]
  BY DEF CreateFails, Pay
<1>3. n \in Nat
  BY DEF Attempts
<1>r. done \in RequestType /\ done.phase = "answer" /\ done.order = o
  BY <1>1 DEF RequestType, Phases
<1>4. ServerOK'
  <2>1. faults' \in 0..MaxFaults
    BY <1>2, <1>3, OrderAssumption DEF ServerOK
  <2>. QED
    BY <1>1, <1>r, <1>2, <1>3, <2>1, AnsweredTypes DEF CreateFails
<1>5. \A p \in Orders : N(p)' = (IF p = o THEN N(p) - 1 ELSE N(p)) /\ (p = o => N(p) >= 1)
  BY <1>1, <1>r, StopCreating
<1>6. \A p \in Orders : p # o => (PastCheck(p)' <=> PastCheck(p))
  BY <1>1 DEF ServerOK, PastCheck, Past, Turns
<1>7. ASSUME NEW p \in Orders
      PROVE  (odoo[p] + N(p) <= paid[p] + Right(p))'
  <2>1. odoo[p] \in Nat /\ N(p) \in Nat /\ paid[p] \in Nat /\ odoo[p] + N(p) <= paid[p] + Right(p)
    BY CreatingFinite DEF ServerOK, WithinRight
  <2>2. Right(p) \in {0, 1} /\ Right(p)' \in {0, 1} /\ (p # o => Right(p)' = Right(p))
    BY <1>6 DEF Right, CreateFails
  <2>3. odoo'[p] = odoo[p] + (IF p = o THEN n ELSE 0) /\ paid'[p] = paid[p] + (IF p = o THEN n ELSE 0)
    BY <1>2, <1>3, <2>1 DEF ServerOK
  <2>. QED
    BY <1>3, <1>5, <2>1, <2>2, <2>3
<1>. QED
  BY <1>4, <1>7 DEF ServerKept, WithinRight

LEMMA InsertStep ==
    ASSUME ServerOK, WithinRight, NEW i \in Requests, Insert(i)
    PROVE  ServerKept
<1>. DEFINE o == req[i].order
            r == IF o \in mapped THEN [req[i] EXCEPT !.phase = "answer", !.result = "error"]
                 ELSE [req[i] EXCEPT !.phase = "commit"]
<1>1. req[i].phase = "insert" /\ o \in Orders /\ req[i] \in RequestType /\ Turns(i, r)
  BY TypedRequest DEF Insert, In, Busy, Answers, Goes, Turns
<1>n. newer' \in [Orders -> SUBSET Orders]
  BY <1>1 DEF ServerOK, Insert, GetsId
<1>2. ServerOK'
  BY <1>1, <1>n DEF ServerOK, RequestType, Phases, Turns, Insert
<1>3. \A p \in Orders : N(p)' = N(p)
  <2>1. r.phase # "create"
    BY <1>1 DEF RequestType
  <2>. QED
    BY <1>1, <2>1, SameCreating
<1>4. \A p \in Orders : Right(p)' = Right(p)
  BY <1>1 DEF ServerOK, RequestType, Right, PastCheck, Past, Turns, Insert
<1>. QED
  BY <1>2, <1>3, <1>4 DEF ServerKept, WithinRight, Insert

LEMMA CommitStep ==
    ASSUME ServerOK, WithinRight, NEW i \in Requests, Commit(i)
    PROVE  ServerKept
<1>. DEFINE o == req[i].order
            done == [req[i] EXCEPT !.phase = "answer", !.result = "synced"]
<1>1. req[i].phase = "commit" /\ o \in Orders /\ req[i] \in RequestType /\ Turns(i, done)
  BY TypedRequest DEF Commit, In, Busy, Answers, Turns
<1>2. ServerOK'
  BY <1>1 DEF ServerOK, RequestType, Phases, Turns, Commit
<1>3. \A p \in Orders : N(p)' = N(p)
  <2>1. done.phase = "answer"
    BY <1>1 DEF RequestType
  <2>. QED
    BY <1>1, <2>1, SameCreating
<1>4. \A p \in Orders : Right(p)' = Right(p)
  BY <1>1 DEF ServerOK, RequestType, Right, PastCheck, Past, Turns, Commit
<1>. QED
  BY <1>2, <1>3, <1>4 DEF ServerKept, WithinRight, Commit

LEMMA CommitFailsStep ==
    ASSUME ServerOK, WithinRight, NEW i \in Requests, CommitFails(i)
    PROVE  ServerKept
<1>. DEFINE o == req[i].order
            done == [req[i] EXCEPT !.phase = "answer", !.result = "error"]
<1>1. req[i].phase = "commit" /\ o \in Orders /\ req[i] \in RequestType /\ Turns(i, done)
  BY TypedRequest DEF CommitFails, In, Busy, Answers, Turns
<1>2. paid' = [paid EXCEPT ![o] = @ + 1]
  BY DEF CommitFails, Pay
<1>r. done \in RequestType /\ done.phase = "answer" /\ done.order = o
  BY <1>1 DEF RequestType, Phases
<1>3. ServerOK'
  <2>1. odoo' = [odoo EXCEPT ![o] = @ + 0]
    BY <1>1 DEF ServerOK, CommitFails
  <2>. QED
    BY <1>1, <1>r, <1>2, <2>1, AnsweredTypes, FaultType DEF CommitFails
<1>4. \A p \in Orders : N(p)' = N(p)
  BY <1>1, <1>r, SameCreating
<1>5. ASSUME NEW p \in Orders
      PROVE  (odoo[p] + N(p) <= paid[p] + Right(p))'
  <2>1. odoo[p] \in Nat /\ N(p) \in Nat /\ paid[p] \in Nat /\ odoo[p] + N(p) <= paid[p] + Right(p)
    BY CreatingFinite DEF ServerOK, WithinRight
  <2>2. /\ Right(p) \in {0, 1} /\ Right(p)' \in {0, 1}
        /\ p # o => Right(p)' = Right(p)
    BY <1>1 DEF ServerOK, RequestType, Right, PastCheck, Past, Turns, CommitFails
  <2>3. odoo'[p] = odoo[p] /\ paid'[p] = paid[p] + (IF p = o THEN 1 ELSE 0)
    BY <1>2, <2>1 DEF ServerOK, CommitFails
  <2>. QED
    BY <1>4, <2>1, <2>2, <2>3
<1>. QED
  BY <1>3, <1>5 DEF ServerKept, WithinRight

LEMMA DeleteStep ==
    ASSUME ServerOK, WithinRight, NEW d \in Orders, Delete(d)
    PROVE  ServerKept
<1>1. paid' = [paid EXCEPT ![d] = @ + 1] /\ mapped' = mapped \ {d} /\ UNCHANGED <<req, odoo>>
  BY DEF Delete, Pay
<1>2. ServerOK'
  BY <1>1, OrderAssumption DEF ServerOK, Delete
<1>3. ASSUME NEW p \in Orders
      PROVE  (odoo[p] + N(p) <= paid[p] + Right(p))'
  <2>1. odoo[p] \in Nat /\ N(p) \in Nat /\ paid[p] \in Nat /\ odoo[p] + N(p) <= paid[p] + Right(p)
    BY CreatingFinite DEF ServerOK, WithinRight
  <2>2. N(p)' = N(p) /\ (PastCheck(p)' <=> PastCheck(p))
    BY <1>1 DEF N, Creating, PastCheck
  <2>3. Right(p) \in {0, 1} /\ Right(p)' \in {0, 1} /\ (p # d => Right(p)' = Right(p))
    BY <1>1, <2>2 DEF Right
  <2>4. odoo'[p] = odoo[p] /\ paid'[p] = paid[p] + (IF p = d THEN 1 ELSE 0)
    BY <1>1, <2>1 DEF ServerOK
  <2>. QED
    BY <2>1, <2>2, <2>3, <2>4
<1>. QED
  BY <1>2, <1>3 DEF ServerKept, WithinRight

LEMMA CrashStep ==
    ASSUME ServerOK, WithinRight, Crash
    PROVE  ServerKept
<1>1. PICK half \in {{}} \cup {{req[i].order} : i \in {j \in Requests : In(j, "create")}} :
        LET extra == [o \in Orders |-> IF o \in half THEN 1 ELSE 0]
        IN  /\ odoo' = [o \in Orders |-> odoo[o] + extra[o]]
            /\ paid' = [o \in Orders |-> paid[o] + Created(o) + extra[o]]
  BY DEF Crash
<1>. DEFINE extra == [o \in Orders |-> IF o \in half THEN 1 ELSE 0]
<1>2. \A p \in Orders : /\ extra[p] \in {0, 1}
                        /\ odoo'[p] = odoo[p] + extra[p]
                        /\ paid'[p] = paid[p] + Created(p) + extra[p]
  BY <1>1
<1>3. req' = [i \in Requests |->
                 IF Serving(i) THEN [req[i] EXCEPT !.phase = "answer", !.result = "error"] ELSE req[i]]
  BY DEF Crash
<1>s. ASSUME NEW i \in Requests
      PROVE  /\ req'[i] \in RequestType /\ req'[i].order = req[i].order
             /\ req'[i].phase = IF Serving(i) THEN "answer" ELSE req[i].phase
  BY <1>3, TypedRequest DEF RequestType, Phases
<1>4. \A i \in Requests : req'[i].phase \notin Past
  BY <1>s DEF Serving, Past
<1>5. ServerOK'
  <2>1. odoo' \in [Orders -> Nat] /\ paid' \in [Orders -> Nat]
    BY <1>1, <1>2, CreatedCount DEF ServerOK
  <2>2. mapped' \subseteq {o \in Orders : odoo'[o] > 0}
    <3>1. ASSUME NEW p \in mapped
          PROVE  p \in Orders /\ odoo'[p] > 0
      BY <1>2 DEF ServerOK
    <3>. QED
      BY <3>1 DEF Crash
  <2>3. req' \in [Requests -> RequestType]
    BY <1>3, <1>s
  <2>4. \A i \in Requests : req'[i].phase \in {"unused", "done"} <=> req'[i].order = Nothing
    BY <1>s DEF ServerOK, Serving, Past
  <2>5. faults' \in 0..MaxFaults /\ UNCHANGED <<unmapped, newer, deletes>>
    BY FaultType DEF Crash
  <2>6. \A i \in Requests : req'[i].phase \notin {"insert", "commit"}
    BY <1>4 DEF Past
  <2>. QED
    BY <2>1, <2>2, <2>3, <2>4, <2>5, <2>6 DEF ServerOK
<1>6. ASSUME NEW p \in Orders
      PROVE  (odoo[p] + N(p) <= paid[p] + Right(p))'
  <2>1. odoo[p] \in Nat /\ N(p) \in Nat /\ paid[p] \in Nat /\ odoo[p] + N(p) <= paid[p] + Right(p)
    BY CreatingFinite DEF ServerOK, WithinRight
  <2>2. N(p)' = 0
    <3>1. Creating(p)' = {}
      BY <1>4 DEF Creating, Past
    <3>. QED
      BY <3>1, FS_EmptySet DEF N
  <2>3. Created(p) \in Nat /\ Right(p)' \in {0, 1}
    BY CreatedCount DEF Right
  <2>4. CASE p \in mapped
    <3>1. Right(p) = 1 /\ Right(p)' = 1
      BY <2>4 DEF Right, Crash
    <3>. QED
      BY <1>2, <2>1, <2>2, <2>3, <3>1
  <2>5. CASE p \notin mapped /\ PastCheck(p)
    <3>1. Creating(p) # {} \/ Inserting(p) # {}
      BY <2>5 DEF PastCheck, Past, Creating, Inserting
    <3>2. N(p) >= 1 \/ Created(p) >= 1
      <4>1. CASE Creating(p) # {}
        BY <2>1, <4>1, CreatingFinite, FS_EmptySet DEF N
      <4>2. CASE Inserting(p) # {}
        BY <4>2, CreatedCount
      <4>. QED
        BY <3>1, <4>1, <4>2
    <3>3. Right(p) = 1
      BY <2>5 DEF Right
    <3>. QED
      BY <1>2, <2>1, <2>2, <2>3, <3>2, <3>3
  <2>6. CASE p \notin mapped /\ ~PastCheck(p)
    <3>1. Right(p) = 0
      BY <2>6 DEF Right
    <3>. QED
      BY <1>2, <2>1, <2>2, <2>3, <3>1
  <2>. QED
    BY <2>4, <2>5, <2>6
<1>. QED
  BY <1>5, <1>6 DEF ServerKept, WithinRight

LEMMA AskedStep ==
    ASSUME ServerOK, WithinRight, NEW i \in Requests, In(i, "unused"), NEW o \in Orders, Asked(i, o),
           UNCHANGED <<odoo, mapped, faults, deletes, paid, unmapped, newer>>
    PROVE  ServerKept
<1>. DEFINE r == [order |-> o, phase |-> "check", result |-> "none"]
<1>1. Turns(i, r) /\ req[i].phase = "unused" /\ req[i] \in RequestType
  BY TypedRequest DEF Asked, Turns, In
<1>2. r \in RequestType /\ r.phase = "check" /\ r.order \in Orders
  BY DEF RequestType, Phases
<1>3. faults' \in 0..MaxFaults
  BY DEF ServerOK
<1>. QED
  BY <1>1, <1>2, <1>3, AwayStep, OrderAssumption DEF Past

LEMMA EndsStep ==
    ASSUME ServerOK, WithinRight, NEW i \in Requests, In(i, "answer"), Ends(i),
           faults' \in 0..MaxFaults, UNCHANGED <<odoo, mapped, deletes, paid, unmapped, newer>>
    PROVE  ServerKept
<1>. DEFINE r == [Unused EXCEPT !.phase = "done"]
<1>1. Turns(i, r) /\ req[i].phase = "answer" /\ req[i] \in RequestType
  BY TypedRequest DEF Ends, Turns, In
<1>2. r \in RequestType /\ r.phase = "done" /\ r.order = Nothing
  BY DEF RequestType, Phases, Unused
<1>. QED
  BY <1>1, <1>2, AwayStep DEF Past

LEMMA QuietStep ==
    ASSUME ServerOK, WithinRight, UNCHANGED <<req, odoo, mapped, deletes, paid, unmapped, newer>>,
           faults' \in 0..MaxFaults
    PROVE  ServerKept
BY DEF ServerOK, ServerKept, WithinRight, Right, N, Creating, PastCheck

\* A request that somebody waits for stays one until its answer is handled.
LEMMA ServeBusy ==
    ASSUME ServerOK, PendingOK, (\E i \in Requests : Serve(i)) \/ (\E o \in Orders : Delete(o)) \/ Crash,
           PageOK, UNCHANGED pageVars
    PROVE  PendingOK'
<1>1. ASSUME NEW i \in Requests, Serve(i), NEW m \in Requests, Busy(m)
      PROVE  Busy(m)'
  BY <1>1 DEF Serve, Check, FetchFails, Create, CreateFails, Insert, Commit, CommitFails,
              Goes, Answers, ServerOK, RequestType, Busy
<1>2. ASSUME NEW o \in Orders, Delete(o), NEW m \in Requests, Busy(m)
      PROVE  Busy(m)'
  BY <1>2 DEF Delete, Busy
<1>3. ASSUME Crash, NEW m \in Requests, Busy(m)
      PROVE  Busy(m)'
  BY <1>3 DEF Crash, ServerOK, RequestType, Busy
<1>. QED
  BY <1>1, <1>2, <1>3 DEF PendingOK, PageOK, pageVars, formVars

-----------------------------------------------------------------------------
(* The steps of the page *)

LEMMA ServerPart ==
    ASSUME OrdersInv, Server /\ UNCHANGED pageVars
    PROVE  OrdersInv'
<1>1. ServerKept
  BY CheckStep, FetchFailsStep, CreateStep, CreateFailsStep, InsertStep, CommitStep,
     CommitFailsStep, DeleteStep, CrashStep DEF OrdersInv, Server, Serve
<1>2. PendingOK'
  BY ServeBusy DEF OrdersInv, Server
<1>. QED
  BY <1>1, <1>2 DEF OrdersInv, ServerKept, PageOK, pageVars, formVars, listVars

LEMMA SyncStep ==
    ASSUME OrdersInv, Sync
    PROVE  OrdersInv'
<1>1. PICK i \in Requests :
        /\ In(i, "unused") /\ Asked(i, typed)
        /\ pending' = i
        /\ sent' = sent \cup {[id |-> i, visit |-> visit]}
  BY DEF Sync, Free
<1>2. typed \in Orders /\ open
  BY DEF OrdersInv, PageOK, Sync, Offered
<1>3. ServerKept
  BY <1>1, <1>2, AskedStep DEF OrdersInv, Sync
<1>4. PageOK'
  BY <1>1 DEF OrdersInv, PageOK, Sync, NoFeedback, listVars
<1>5. PendingOK'
  <2>1. \A j \in Requests : req'[j].phase = IF j = i THEN "check" ELSE req[j].phase
    BY <1>1 DEF OrdersInv, ServerOK, Asked
  <2>2. \A m \in sent : m.id \in Requests /\ Busy(m.id) /\ m.id # i
    BY <1>1 DEF OrdersInv, PageOK, PendingOK, In, Busy
  <2>3. \A m \in sent' : Busy(m.id)'
    BY <1>1, <2>1, <2>2 DEF Busy
  <2>4. \A m, n \in sent' : m.id = n.id => m = n
    BY <1>1, <2>2 DEF OrdersInv, PendingOK
  <2>5. open' /\ \E m \in sent' : m.id = pending' /\ m.visit = visit'
    <3>. DEFINE m == [id |-> i, visit |-> visit]
    <3>1. m \in sent' /\ m.id = pending' /\ m.visit = visit' /\ open'
      BY <1>1, <1>2 DEF Sync
    <3>. QED
      BY <3>1
  <2>. QED
    BY <2>3, <2>4, <2>5 DEF PendingOK
<1>. QED
  BY <1>3, <1>4, <1>5 DEF OrdersInv, ServerKept

LEMMA TellStep ==
    ASSUME OrdersInv, NEW m \in sent, NEW kind \in {"success", "error"}, Tell(m, kind),
           In(m.id, "answer"), Ends(m.id), sent' = sent \ {m}, UNCHANGED <<visit, open>>
    PROVE  /\ PendingOK'
           /\ typed' \in Orders \cup {Nothing}
           /\ feedback' \in [kind : {"none", "success", "error"}, order : Orders \cup {Nothing}]
<1>1. m.id \in Requests /\ req[m.id] \in RequestType
  BY TypedRequest DEF OrdersInv, PageOK
<1>2. \A n \in sent' : n \in sent /\ n.id # m.id
  BY DEF OrdersInv, PendingOK
<1>3. \A n \in sent' : Busy(n.id)'
  BY <1>1, <1>2 DEF OrdersInv, PageOK, PendingOK, ServerOK, Ends, Busy
<1>4. pending' # 0 => open' /\ \E n \in sent' : n.id = pending' /\ n.visit = visit'
  <2>1. CASE open /\ m.visit = visit
    BY <2>1 DEF Tell
  <2>2. CASE ~(open /\ m.visit = visit)
    <3>1. pending' = pending
      BY <2>2 DEF Tell
    <3>2. ASSUME pending # 0
          PROVE  open /\ \E n \in sent \ {m} : n.id = pending /\ n.visit = visit
      BY <2>2, <3>2 DEF OrdersInv, PendingOK
    <3>. QED
      BY <3>1, <3>2
  <2>. QED
    BY <2>1, <2>2
<1>5. \A n, k \in sent' : n.id = k.id => n = k
  BY DEF OrdersInv, PendingOK
<1>6. PendingOK'
  BY <1>3, <1>4, <1>5 DEF PendingOK
<1>. QED
  BY <1>1, <1>6 DEF OrdersInv, PageOK, RequestType, Tell

LEMMA AnsweredStep ==
    ASSUME OrdersInv, NEW m \in sent, Answered(m)
    PROVE  OrdersInv'
<1>1. m.id \in Requests
  BY DEF OrdersInv, PageOK
<1>2. ServerKept
  BY <1>1, EndsStep DEF OrdersInv, Answered, ServerOK
<1>3. \/ Tell(m, "success") /\ Invalidate
      \/ Tell(m, "error") /\ UNCHANGED <<fetch, stale, missed>>
  BY DEF Answered
<1>4. /\ PendingOK'
      /\ typed' \in Orders \cup {Nothing}
      /\ feedback' \in [kind : {"none", "success", "error"}, order : Orders \cup {Nothing}]
  BY <1>3, TellStep DEF Answered
<1>5. fetch' \in [step : {"idle", "asked", "answered"}, brings : SUBSET Orders]
  BY <1>3 DEF OrdersInv, PageOK, Invalidate, AskedFor
<1>6. stale' \in BOOLEAN /\ missed' \in BOOLEAN
  BY <1>3 DEF OrdersInv, PageOK, Invalidate
<1>7. PageOK'
  BY <1>4, <1>5, <1>6 DEF OrdersInv, PageOK, Answered
<1>. QED
  BY <1>2, <1>4, <1>7 DEF OrdersInv, ServerKept

LEMMA ErrsStep ==
    ASSUME OrdersInv, NEW m \in sent, Errs(m)
    PROVE  OrdersInv'
<1>1. m.id \in Requests
  BY DEF OrdersInv, PageOK
<1>2. faults' \in 0..MaxFaults
  BY FaultType DEF OrdersInv, ServerOK, Errs
<1>3. ServerKept
  BY <1>1, <1>2, EndsStep DEF OrdersInv, Errs
<1>4. /\ PendingOK'
      /\ typed' \in Orders \cup {Nothing}
      /\ feedback' \in [kind : {"none", "success", "error"}, order : Orders \cup {Nothing}]
  BY TellStep DEF Errs
<1>5. PageOK'
  BY <1>4 DEF OrdersInv, PageOK, Errs, listVars
<1>. QED
  BY <1>3, <1>4, <1>5 DEF OrdersInv, ServerKept

LEMMA OtherSyncsStep ==
    ASSUME OrdersInv, NEW o \in Orders, OtherSyncs(o)
    PROVE  OrdersInv'
<1>1. PICK i \in Requests : In(i, "unused") /\ Asked(i, o)
  BY DEF OtherSyncs, Free
<1>2. ServerKept
  BY <1>1, AskedStep DEF OrdersInv, OtherSyncs
<1>3. PendingOK'
  BY <1>1 DEF OrdersInv, PageOK, PendingOK, ServerOK, Asked, Busy, OtherSyncs, pageVars, formVars
<1>. QED
  BY <1>2, <1>3 DEF OrdersInv, ServerKept, PageOK, OtherSyncs, pageVars, formVars, listVars

LEMMA OtherAnsweredStep ==
    ASSUME OrdersInv, NEW i \in Requests, OtherAnswered(i)
    PROVE  OrdersInv'
<1>1. ServerKept
  BY EndsStep DEF OrdersInv, OtherAnswered, ServerOK
<1>2. PendingOK'
  BY DEF OrdersInv, PageOK, PendingOK, ServerOK, Ends, Busy, OtherAnswered, pageVars, formVars
<1>. QED
  BY <1>1, <1>2 DEF OrdersInv, ServerKept, PageOK, OtherAnswered, pageVars, formVars, listVars

\* Steps that leave the server, the requests sent and what is pending alone.
LEMMA PageOnly ==
    ASSUME OrdersInv, UNCHANGED <<req, odoo, mapped, deletes, paid, unmapped, newer>>,
           faults' \in 0..MaxFaults, UNCHANGED <<sent, pending, visit, open>>, PageOK'
    PROVE  OrdersInv'
<1>1. ServerKept
  BY QuietStep DEF OrdersInv
<1>2. PendingOK'
  BY DEF OrdersInv, PendingOK, Busy
<1>. QED
  BY <1>1, <1>2 DEF OrdersInv, ServerKept

LEMMA ListSteps ==
    ASSUME OrdersInv, ListServed \/ ListArrives \/ ListFails \/ \E o \in Orders : Type(o)
    PROVE  OrdersInv'
<1>1. CASE ListServed
  <2>1. PageOK'
    BY <1>1 DEF OrdersInv, ServerOK, PageOK, ListServed, formVars
  <2>. QED
    BY <1>1, <2>1, PageOnly DEF OrdersInv, ServerOK, ListServed, syncVars, formVars
<1>2. CASE ListArrives
  <2>1. PageOK'
    BY <1>2 DEF OrdersInv, PageOK, ListArrives, Becomes, Idle, formVars
  <2>. QED
    BY <1>2, <2>1, PageOnly DEF OrdersInv, ServerOK, ListArrives, syncVars, formVars
<1>3. CASE ListFails
  <2>1. PageOK'
    BY <1>3 DEF OrdersInv, PageOK, ListFails, Becomes, Idle, formVars
  <2>. QED
    BY <1>3, <2>1, PageOnly, FaultType DEF OrdersInv, ListFails, formVars
<1>4. ASSUME NEW o \in Orders, Type(o)
      PROVE  OrdersInv'
  <2>1. PageOK'
    BY <1>4 DEF OrdersInv, PageOK, Type, listVars
  <2>. QED
    BY <1>4, <2>1, PageOnly DEF OrdersInv, ServerOK, Type, syncVars
<1>. QED
  BY <1>1, <1>2, <1>3, <1>4

LEMMA VisitSteps ==
    ASSUME OrdersInv, Leave \/ Return
    PROVE  OrdersInv'
<1>1. ServerKept
  BY QuietStep DEF OrdersInv, ServerOK, Leave, Return, syncVars
<1>2. CASE Leave
  <2>1. PageOK'
    BY <1>2 DEF OrdersInv, PageOK, Leave, NoFeedback, listVars
  <2>2. PendingOK'
    BY <1>2 DEF OrdersInv, PendingOK, Busy, Leave, syncVars
  <2>. QED
    BY <1>1, <2>1, <2>2 DEF OrdersInv, ServerKept
<1>3. CASE Return
  <2>1. PageOK'
    BY <1>3, VisitsAssumption DEF OrdersInv, PageOK, Return, AskedFor
  <2>2. PendingOK'
    BY <1>3 DEF OrdersInv, PendingOK, Busy, Return, syncVars
  <2>. QED
    BY <1>1, <2>1, <2>2 DEF OrdersInv, ServerKept
<1>. QED
  BY <1>2, <1>3

-----------------------------------------------------------------------------

LEMMA InitInv == Init => OrdersInv
<1>. SUFFICES ASSUME Init
              PROVE  OrdersInv
  OBVIOUS
<1>1. ServerOK
  BY OrderAssumption DEF Init, SyncInit, ServerOK, RequestType, Phases, Unused
<1>2. PageOK
  <2>1. visit \in 1..MaxVisits
    BY VisitsAssumption DEF Init
  <2>2. feedback \in [kind : {"none", "success", "error"}, order : Orders \cup {Nothing}]
    BY DEF Init, NoFeedback
  <2>3. fetch \in [step : {"idle", "asked", "answered"}, brings : SUBSET Orders]
    BY DEF Init, AskedFor
  <2>. QED
    BY <2>1, <2>2, <2>3 DEF Init, PageOK
<1>4. PendingOK
  BY DEF Init, PendingOK
<1>3. ASSUME NEW o \in Orders
      PROVE  odoo[o] + N(o) <= paid[o] + Right(o)
  <2>1. Creating(o) = {}
    BY DEF Init, SyncInit, Unused, Creating
  <2>2. N(o) = 0
    BY <2>1, FS_EmptySet DEF N
  <2>. QED
    BY <2>2 DEF Init, SyncInit, Right
<1>. QED
  BY <1>1, <1>2, <1>3, <1>4 DEF OrdersInv, WithinRight

LEMMA NextInv == OrdersInv /\ [Next]_vars => OrdersInv'
<1>. SUFFICES ASSUME OrdersInv, [Next]_vars
              PROVE  OrdersInv'
  OBVIOUS
<1>1. CASE UNCHANGED vars
  <2>1. PageOK'
    BY <1>1 DEF OrdersInv, PageOK, vars, pageVars, formVars, listVars
  <2>. QED
    BY <1>1, <2>1, PageOnly DEF OrdersInv, ServerOK, vars, syncVars, pageVars, formVars
<1>. QED
  BY <1>1, ListSteps, SyncStep, AnsweredStep, ErrsStep, VisitSteps, OtherSyncsStep,
     OtherAnsweredStep, ServerPart DEF Next

LEMMA AlwaysOrdersInv == Spec => []OrdersInv
BY InitInv, NextInv, PTL DEF Spec

\* Every variable keeps its type: a mapping names an order that Odoo has, and
\* a pending mutation one of the requests sent (orders/sync.py:149-165).
THEOREM OrderTypes == Spec => []TypeOK
<1>1. OrdersInv => TypeOK
  BY DEF OrdersInv, ServerOK, RequestType, PageOK, PendingOK, TypeOK
<1>. QED
  BY <1>1, AlwaysOrdersInv, PTL

\* Odoo has an order more than once only for a race, a retried create, a lost
\* transaction or a deleted mapping, once for each (orders/sync.py:79-165).
THEOREM DuplicatesPaidForHolds == Spec => []DuplicatesPaidFor
<1>1. OrdersInv => DuplicatesPaidFor
  <2>. SUFFICES ASSUME OrdersInv, NEW o \in Orders
                PROVE  odoo[o] <= 1 + paid[o]
    BY DEF DuplicatesPaidFor
  <2>1. odoo[o] \in Nat /\ paid[o] \in Nat /\ N(o) \in Nat /\ odoo[o] + N(o) <= paid[o] + Right(o)
    BY CreatingFinite DEF OrdersInv, ServerOK, WithinRight
  <2>2. Right(o) \in {0, 1}
    BY DEF Right
  <2>. QED
    BY <2>1, <2>2
<1>. QED
  BY <1>1, AlwaysOrdersInv, PTL

-----------------------------------------------------------------------------
(***************************************************************************)
(* SuccessIsListed is not inductive either: it says nothing while a list   *)
(* is under way. What a success names was mapped when it was answered, and *)
(* a list read after that brings it or a full page of orders that came     *)
(* after it, unless the mapping is deleted; that they came after it stays  *)
(* true, since an order gets a new row only when it has none.              *)
(***************************************************************************)
Known(o) == o \in mapped \cup unmapped

SyncedIsKnown ==
    \A i \in Requests : In(i, "answer") /\ req[i].result = "synced" => Known(req[i].order)

\* A list that has the order, or no room for it.
Covers(orders, o) ==
    \/ o \in orders \cup unmapped
    \/ orders \subseteq newer[o] /\ Cardinality(orders) = PageSize

\* The list on its way, or the one on the screen, covers the order.
OnItsWay ==
    \/ fetch = AskedFor
    \/ fetch.step = "answered" /\ Covers(fetch.brings, feedback.order)
    \/ fetch = Idle /\ Covers(Shown, feedback.order)

ListInv ==
    /\ SyncedIsKnown
    /\ feedback.kind = "success" => open /\ Known(feedback.order)
    /\ ReportsSuccess /\ ~missed => OnItsWay

\* A mapping that was there is there, or counts as deleted.
LEMMA KnownStays ==
    ASSUME [Next]_vars
    PROVE  mapped \subseteq mapped' \cup unmapped' /\ unmapped \subseteq unmapped'
BY DEF Next, Type, Sync, Answered, Errs, ListServed, ListArrives, ListFails, Leave, Return,
       OtherSyncs, OtherAnswered, Server, Serve, Check, FetchFails, Create, CreateFails, Insert,
       Commit, CommitFails, Delete, Crash, vars, syncVars

\* A row gets its id while there is none for its order.
LEMMA CoverStays ==
    ASSUME OrdersInv, [Next]_vars, NEW o \in Orders, Known(o),
           NEW orders \in SUBSET Orders, Covers(orders, o)
    PROVE  Covers(orders, o)'
<1>1. unmapped \subseteq unmapped'
  BY KnownStays
<1>2. CASE o \in orders \cup unmapped
  BY <1>1, <1>2 DEF Covers
<1>3. CASE o \notin unmapped /\ orders \subseteq newer[o] /\ Cardinality(orders) = PageSize
  <2>1. CASE UNCHANGED newer
    BY <1>3, <2>1 DEF Covers
  <2>2. ASSUME NEW i \in Requests, Insert(i), ~ UNCHANGED newer
        PROVE  newer[o] \subseteq newer'[o]
    <3>1. req[i].order \notin mapped /\ GetsId(req[i].order)
      BY <2>2 DEF Insert
    <3>2. o # req[i].order
      BY <1>3, <3>1 DEF Known
    <3>. QED
      BY <3>1, <3>2 DEF GetsId
  <2>3. UNCHANGED newer \/ \E i \in Requests : Insert(i)
    BY DEF Next, Type, Sync, Answered, Errs, ListServed, ListArrives, ListFails, Leave, Return,
           OtherSyncs, OtherAnswered, Server, Serve, Check, FetchFails, Create, CreateFails,
           Commit, CommitFails, Delete, Crash, vars, syncVars
  <2>. QED
    BY <1>3, <2>1, <2>2, <2>3 DEF Covers
<1>. QED
  BY <1>2, <1>3 DEF Covers

\* The first page of the rows covers every order that has one.
LEMMA PageCovers ==
    ASSUME NEW orders, IsFirstPage(orders), NEW o, Known(o)
    PROVE  Covers(orders, o)
BY DEF IsFirstPage, Known, Covers

LEMMA SyncedStays ==
    ASSUME OrdersInv, [Next]_vars, SyncedIsKnown
    PROVE  SyncedIsKnown'
<1>1. ASSUME NEW i \in Requests, In(i, "answer")', req'[i].result = "synced"
      PROVE  \/ req'[i] = req[i]
             \/ req'[i].order \in mapped' \cup unmapped'
  <2>. USE <1>1 DEF OrdersInv, ServerOK, RequestType, In
  <2>1. CASE UNCHANGED req
    BY <2>1
  <2>2. ASSUME NEW j \in Requests, Serve(j)
        PROVE  \/ req'[i] = req[i]
               \/ req'[i].order \in mapped' \cup unmapped'
    BY <2>2 DEF Serve, Check, FetchFails, Create, CreateFails, Insert, Commit, CommitFails,
                Goes, Answers
  <2>3. ASSUME NEW j \in Requests, (\E o \in Orders \cup {Nothing} : Asked(j, o)) \/ Ends(j)
        PROVE  req'[i] = req[i]
    BY <2>3 DEF Asked, Ends, Unused
  <2>4. CASE Crash
    <3>1. req'[i] = IF Serving(i) THEN [req[i] EXCEPT !.phase = "answer", !.result = "error"]
                    ELSE req[i]
      BY <2>4 DEF Crash
    <3>. QED
      BY <3>1
  <2>5. CASE Sync
    BY <2>3, <2>5 DEF Sync, PageOK
  <2>6. CASE \E m \in sent : Answered(m) \/ Errs(m)
    BY <2>3, <2>6 DEF Answered, Errs, PageOK
  <2>7. CASE \E o \in Orders : OtherSyncs(o)
    BY <2>3, <2>7 DEF OtherSyncs
  <2>8. CASE \E k \in Requests : OtherAnswered(k)
    BY <2>3, <2>8 DEF OtherAnswered
  <2>9. CASE Server
    BY <2>1, <2>2, <2>4, <2>9 DEF Server, Delete
  <2>. QED
    BY <2>1, <2>5, <2>6, <2>7, <2>8, <2>9
       DEF Next, Type, ListServed, ListArrives, ListFails, Leave, Return, vars, syncVars
<1>2. ASSUME NEW i \in Requests, In(i, "answer"), req[i].result = "synced"
      PROVE  req[i].order \in mapped' \cup unmapped'
  BY <1>2, KnownStays DEF SyncedIsKnown, Known
<1>3. ASSUME NEW i \in Requests, In(i, "answer")', req'[i].result = "synced"
      PROVE  req'[i].order \in mapped' \cup unmapped'
  BY <1>1, <1>2, <1>3 DEF In
<1>. QED
  BY <1>3 DEF SyncedIsKnown, Known, In

\* What a step does to the message and the list, for the steps that leave them
\* alone or only one of them.
LEMMA SameScreen ==
    ASSUME OrdersInv, ListInv, [Next]_vars, SyncedIsKnown',
           UNCHANGED <<feedback, open, fetch, listed, loaded, missed>>
    PROVE  ListInv'
<1>1. Shown' = Shown /\ Shown \subseteq Orders /\ fetch.brings \subseteq Orders
  BY DEF Shown, OrdersInv, PageOK
<1>2. feedback.kind = "success" => open' /\ Known(feedback.order)'
  BY KnownStays DEF ListInv, Known
<1>3. ASSUME ReportsSuccess, ~missed
      PROVE  OnItsWay'
  <2>1. OnItsWay /\ Known(feedback.order) /\ feedback.order \in Orders
    BY <1>3 DEF ListInv, ReportsSuccess, Known, OrdersInv, ServerOK
  <2>2. Covers(Shown, feedback.order) => Covers(Shown, feedback.order)'
    BY <1>1, <2>1, CoverStays DEF Covers
  <2>3. Covers(fetch.brings, feedback.order) => Covers(fetch.brings, feedback.order)'
    BY <1>1, <2>1, CoverStays DEF Covers
  <2>. QED
    BY <1>1, <2>1, <2>2, <2>3 DEF OnItsWay
<1>. QED
  BY <1>2, <1>3 DEF ListInv, ReportsSuccess

LEMMA AnsweredListed ==
    ASSUME OrdersInv, ListInv, NEW m \in sent, Answered(m), SyncedIsKnown'
    PROVE  ListInv'
<1>s. SyncedIsKnown'
  OBVIOUS
<1>1. m.id \in Requests /\ UNCHANGED <<open, visit, mapped, unmapped, newer>>
  BY DEF OrdersInv, PageOK, Answered
<1>2. CASE req[m.id].result = "synced"
  <2>1. Tell(m, "success") /\ Invalidate
    BY <1>2 DEF Answered
  <2>2. Known(req[m.id].order)
    BY <1>1, <1>2 DEF ListInv, SyncedIsKnown, Answered
  <2>3. feedback'.kind = "success" => open' /\ feedback'.order \in mapped' \cup unmapped'
    BY <1>1, <2>1, <2>2 DEF Tell, ListInv, Known
  <2>4. open' /\ ~missed' => fetch' = AskedFor
    BY <1>1, <2>1 DEF Invalidate, OrdersInv, PageOK
  <2>. QED
    BY <1>s, <2>3, <2>4 DEF ListInv, ReportsSuccess, OnItsWay, Known
<1>3. CASE req[m.id].result # "synced"
  <2>1. Tell(m, "error") /\ UNCHANGED <<fetch, missed, listed, loaded>>
    BY <1>3 DEF Answered
  <2>. QED
    BY <1>1, <2>1 DEF Tell, ListInv, ReportsSuccess, OnItsWay, Covers, Shown, Known
<1>. QED
  BY <1>2, <1>3

LEMMA ErrsListed ==
    ASSUME OrdersInv, ListInv, NEW m \in sent, Errs(m), SyncedIsKnown'
    PROVE  ListInv'
<1>1. Tell(m, "error") /\ UNCHANGED <<open, visit, mapped, unmapped, newer, fetch, missed, listed, loaded>>
  BY DEF Errs, listVars
<1>. QED
  BY <1>1 DEF Tell, ListInv, ReportsSuccess, OnItsWay, Covers, Shown, Known

LEMMA NextList == OrdersInv /\ ListInv /\ [Next]_vars => ListInv'
<1>. SUFFICES ASSUME OrdersInv, ListInv, [Next]_vars
              PROVE  ListInv'
  OBVIOUS
<1>1. SyncedIsKnown'
  BY SyncedStays DEF ListInv
<1>2. CASE \E m \in sent : Answered(m) \/ Errs(m)
  BY <1>1, <1>2, AnsweredListed, ErrsListed
<1>3. CASE Sync \/ Leave
  <2>1. feedback'.kind # "success"
    BY <1>3 DEF Sync, Leave, NoFeedback
  <2>. QED
    BY <1>1, <2>1 DEF ListInv, ReportsSuccess
<1>4. CASE Return
  <2>1. feedback'.kind # "success"
    BY <1>4 DEF Return, ListInv
  <2>. QED
    BY <1>1, <2>1 DEF ListInv, ReportsSuccess
<1>5. CASE ListServed
  <2>1. UNCHANGED <<mapped, unmapped, newer, feedback, open>>
    BY <1>5 DEF ListServed, syncVars, formVars
  <2>2. PICK orders \in SUBSET mapped :
            IsFirstPage(orders) /\ fetch' = [step |-> "answered", brings |-> orders]
    BY <1>5 DEF ListServed
  <2>3. ReportsSuccess => Covers(orders, feedback.order)
    BY <2>2, PageCovers DEF ListInv, ReportsSuccess
  <2>. QED
    BY <1>1, <2>1, <2>2, <2>3 DEF ListInv, ReportsSuccess, OnItsWay, Known, Covers
<1>6. CASE ListArrives
  <2>1. UNCHANGED <<mapped, unmapped, newer, feedback, open, missed>>
    BY <1>6 DEF ListArrives, syncVars, formVars
  <2>2. fetch' = Idle /\ Shown' = fetch.brings /\ fetch # AskedFor /\ fetch # Idle
    BY <1>6 DEF ListArrives, Becomes, Shown, AskedFor, Idle
  <2>. QED
    BY <1>1, <2>1, <2>2 DEF ListInv, ReportsSuccess, OnItsWay, Known, Covers
<1>7. CASE ListFails
  <2>1. UNCHANGED <<mapped, unmapped, feedback, open>> /\ missed'
    BY <1>7 DEF ListFails, formVars
  <2>. QED
    BY <1>1, <2>1 DEF ListInv, ReportsSuccess, Known
<1>8. CASE \/ \E o \in Orders : Type(o) \/ OtherSyncs(o)
           \/ \E i \in Requests : OtherAnswered(i)
           \/ Server /\ UNCHANGED pageVars
           \/ UNCHANGED vars
  <2>1. UNCHANGED <<feedback, open, fetch, listed, loaded, missed>>
    BY <1>8 DEF Type, OtherSyncs, OtherAnswered, vars, pageVars, formVars, listVars
  <2>. QED
    BY <1>1, <2>1, SameScreen
<1>. QED
  BY <1>2, <1>3, <1>4, <1>5, <1>6, <1>7, <1>8 DEF Next

\* An order that the page reports as synced is in its list, once that list is
\* read, or the list is a full page of orders that came after it: no list read
\* before the commit stays on screen (orders/page.tsx:137, orders/router.py:46).
THEOREM SuccessIsListedHolds == Spec => []SuccessIsListed
<1>1. Init => ListInv
  BY DEF Init, SyncInit, Unused, In, NoFeedback, ListInv, SyncedIsKnown, ReportsSuccess
<1>2. Spec => []ListInv
  BY <1>1, NextList, AlwaysOrdersInv, PTL DEF Spec
<1>3. ListInv => SuccessIsListed
  BY DEF ListInv, OnItsWay, Covers, SuccessIsListed, AskedFor, Idle
<1>. QED
  BY <1>2, <1>3, PTL
=============================================================================
