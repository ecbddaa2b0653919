------------------------- MODULE Connections_proofs -------------------------
(***************************************************************************)
(* Theorems about connections, first as one tab of the frontend handles    *)
(* them (ConnectionDesk), then about their status under health checks      *)
(* (ConnectionHealth). The two specifications share no variable, and each  *)
(* theorem is about one of them.                                           *)
(***************************************************************************)
EXTENDS ConnectionDesk, ConnectionHealth, FiniteSetTheorems, WellFoundedInduction, TLAPS

-----------------------------------------------------------------------------
(* The guard, the wizard and the forms of ConnectionDesk, for any            *)
(* credentials, presses, visits and failures.                                *)

ReqType == [kind : {"status", "job", "complete"}, visit : Nat,
            answer : {"none", "first run", "completed", "created", "error"}]
Completing == {r \in reqs : r.kind = "complete"}

\* Requests come from this visit or an earlier one, and a check that is still
\* heard was sent from a guarded path.
ReqsOK ==
    /\ visit \in Nat
    /\ reqs \subseteq ReqType
    /\ \A r \in reqs : r.visit <= visit
    /\ \A r \in reqs : r.kind = "status" /\ Live(r) => path \notin Excluded

\* While a user who never left a completing wizard waits for it, he is in it,
\* and there is one request.
Waits ==
    /\ \A r \in Completing : Live(r) /\ path = "/setup" /\ finishing
    /\ \A r, q \in Completing : r = q

NoLate == completed => \A r \in Pending("status", "first run") : ~Live(r)

GuardInv ==
    /\ ReqsOK
    /\ ~hasty => Waits /\ NoLate

LEMMA GuardStarts == Init => GuardInv
<1> SUFFICES ASSUME Init  PROVE GuardInv
  OBVIOUS
<1> DEFINE sent == [kind |-> "status", visit |-> 1, answer |-> "none"]
<1>1. sent \in ReqType /\ sent.kind = "status" /\ sent.visit = 1 /\ sent.answer = "none"
  BY DEF ReqType
<1>2. visit = 1 /\ reqs = IF path \in Excluded THEN {} ELSE {sent}
  BY DEF Init
<1> HIDE DEF sent
<1>3. ReqsOK  BY <1>1, <1>2 DEF ReqsOK
<1>4. Completing = {}  BY <1>1, <1>2 DEF Completing
<1>5. Waits /\ NoLate  BY <1>1, <1>2, <1>4 DEF Waits, NoLate, Pending
<1>6. QED  BY <1>3, <1>5 DEF GuardInv

\* Handlers of a section, and of the list, change neither requests of the
\* guard and the last steps, nor the visit.
LEMMA GuardUntouched ==
    ASSUME GuardInv, UNCHANGED <<visit, wizardVars>>
    PROVE  GuardInv'
BY DEF GuardInv, ReqsOK, Waits, NoLate, Completing, Pending, Live, wizardVars

\* A page that appears has at most a check of its own, not yet answered, and
\* every older request is one of a visit that is over.
LEMMA MountKeeps ==
    ASSUME GuardInv, NEW p, NEW rest \in SUBSET reqs, Mount(p, rest),
           ~hasty' => \A r \in rest : r.kind # "complete"
    PROVE  GuardInv'
<1> DEFINE new == [kind |-> "status", visit |-> visit + 1, answer |-> "none"]
<1>1. visit' = visit + 1 /\ path' = p /\ reqs' \subseteq rest \cup {new}
      /\ (p \in Excluded => reqs' \subseteq rest)
  BY DEF Mount
<1>2. visit \in Nat /\ reqs \subseteq ReqType /\ \A r \in reqs : r.visit <= visit
  BY DEF GuardInv, ReqsOK
<1>a. visit \in Nat  BY <1>2
<1>3. new \in ReqType /\ new.kind = "status" /\ new.answer = "none" /\ new.visit = visit'
  <2>1. visit + 1 \in Nat  BY <1>a
  <2>2. QED  BY <1>1, <2>1 DEF ReqType
<1> HIDE DEF new
<1>4. \A r \in rest : r \in ReqType /\ r.visit \in Nat /\ r.visit <= visit /\ r.visit # visit'
  <2> SUFFICES ASSUME NEW r \in rest
               PROVE r \in ReqType /\ r.visit \in Nat /\ r.visit <= visit /\ r.visit # visit'
    OBVIOUS
  <2>1. r \in ReqType /\ r.visit <= visit  BY <1>2
  <2>2. r.visit \in Nat  BY <2>1 DEF ReqType
  <2>3. r.visit # visit + 1  BY <1>a, <2>1, <2>2
  <2>4. QED  BY <1>1, <2>1, <2>2, <2>3
<1>5. ReqsOK'
  <2>1. visit' \in Nat /\ reqs' \subseteq ReqType  BY <1>1, <1>2, <1>3, <1>4
  <2>2. \A r \in reqs' : r.visit <= visit'
    <3> SUFFICES ASSUME NEW r \in reqs'  PROVE r.visit <= visit'
      OBVIOUS
    <3>1. CASE r = new  BY <3>1, <1>1, <1>3, <1>a
    <3>2. CASE r \in rest  BY <3>2, <1>1, <1>4, <1>a
    <3>3. QED  BY <3>1, <3>2, <1>1
  <2>3. \A r \in reqs' : r.kind = "status" /\ r.visit = visit' => path' \notin Excluded
    BY <1>1, <1>4
  <2>4. QED  BY <2>1, <2>2, <2>3 DEF ReqsOK, Live
<1>6. ASSUME ~hasty'  PROVE Waits' /\ NoLate'
  <2>1. \A r \in reqs' : r.kind # "complete"
    BY <1>1, <1>3, <1>6
  <2>2. \A r \in reqs' : r.answer = "first run" => r.visit # visit'
    BY <1>1, <1>3, <1>4
  <2>3. QED  BY <2>1, <2>2 DEF Waits, NoLate, Completing, Pending, Live
<1>7. QED  BY <1>5, <1>6 DEF GuardInv

\* An answer that the page takes in, or does not.
LEMMA RemovalKeeps ==
    ASSUME GuardInv, NEW r, reqs' = reqs \ {r},
           UNCHANGED <<visit, path, completed, hasty>>,
           finishing /\ r \notin Completing => finishing'
    PROVE  GuardInv'
<1>1. ReqsOK'  BY DEF GuardInv, ReqsOK, Live
<1>2. ASSUME ~hasty'  PROVE Waits' /\ NoLate'
  <2>1. Waits /\ NoLate  BY <1>2 DEF GuardInv
  <2>2. Completing' = Completing \ {r}  BY DEF Completing
  <2>3. Waits'
    <3>1. CASE r \in Completing
      <4>1. Completing' = {}  BY <2>1, <2>2, <3>1 DEF Waits
      <4>2. QED  BY <4>1 DEF Waits
    <3>2. CASE r \notin Completing
      BY <2>1, <2>2, <3>2 DEF Waits, Live
    <3>3. QED  BY <3>1, <3>2
  <2>4. NoLate'  BY <2>1 DEF NoLate, Pending, Live
  <2>5. QED  BY <2>3, <2>4
<1>3. QED  BY <1>1, <1>2 DEF GuardInv

\* A request that is sent from the page, or answered by the server.
LEMMA SwapKeeps ==
    ASSUME GuardInv, NEW old, NEW new \in ReqType, reqs' = (reqs \ {old}) \cup {new},
           UNCHANGED <<visit, path, finishing, hasty>>,
           completed' => completed \/ new.kind = "complete",
           new.visit <= visit,
           new.kind = "status" /\ new.visit = visit => path \notin Excluded,
           completed /\ new.answer = "first run" => new.kind # "status" \/ new.visit # visit,
           new.kind = "complete" =>
              \/ old \in Completing /\ old.visit = new.visit
    PROVE  GuardInv'
<1>1. ReqsOK'  BY DEF GuardInv, ReqsOK, Live
<1>2. ASSUME ~hasty'  PROVE Waits' /\ NoLate'
  <2>1. Waits /\ NoLate  BY <1>2 DEF GuardInv
  <2>2. Waits'
    <3>1. CASE new.kind = "complete"
      <4>1. Completing' = {new}
        <5>1. Completing = {old}  BY <2>1, <3>1 DEF Waits
        <5>2. QED  BY <5>1, <3>1 DEF Completing
      <4>2. old \in Completing /\ old.visit = new.visit  BY <3>1
      <4>3. QED  BY <2>1, <4>1, <4>2 DEF Waits, Live
    <3>2. CASE new.kind # "complete"
      <4>1. Completing' \subseteq Completing  BY <3>2 DEF Completing
      <4>2. QED  BY <2>1, <4>1 DEF Waits, Live
    <3>3. QED  BY <3>1, <3>2
  <2>3. NoLate'
    <3>1. CASE new.kind = "complete"
      <4>1. path = "/setup"  BY <2>1, <3>1 DEF Waits
      <4>2. \A r \in reqs : r.kind = "status" => ~Live(r)
        BY <4>1 DEF GuardInv, ReqsOK, Excluded
      <4>3. QED  BY <3>1, <4>2 DEF NoLate, Pending, Live
    <3>2. CASE new.kind # "complete"
      BY <2>1, <3>2 DEF NoLate, Pending, Live
    <3>3. QED  BY <3>1, <3>2
  <2>4. QED  BY <2>2, <2>3
<1>3. QED  BY <1>1, <1>2 DEF GuardInv

LEMMA UserStep ==
    ASSUME GuardInv, User
    PROVE  GuardInv'
<1>0. visit \in Nat /\ reqs \subseteq ReqType  BY DEF GuardInv, ReqsOK
<1>1. ASSUME NEW p \in Paths, Navigate(p)  PROVE GuardInv'
  <2>1. Mount(p, reqs) /\ (~hasty' => \A r \in reqs : r.kind # "complete")
    BY <1>1 DEF Navigate
  <2>2. QED  BY <2>1, MountKeeps
<1>2. CASE GoNext \/ GoBack
  <2>1. UNCHANGED <<visit, path, completed, reqs, finishing, hasty>>
    BY <1>2 DEF GoNext, GoBack, tableVars
  <2>2. QED
    BY <2>1 DEF GuardInv, ReqsOK, Waits, NoLate, Completing, Pending, Live
<1>3. ASSUME \/ \E g \in Configs["odoo"] : StepOdoo(g)
             \/ \E g \in Configs["woocommerce"] : StepWooCommerce(g)
      PROVE  GuardInv'
  <2>1. UNCHANGED <<visit, wizardVars>>
    BY <1>3 DEF StepOdoo, StepWooCommerce, SaveAndTest
  <2>2. QED  BY <2>1, GuardUntouched
<1>4. CASE StepFirstJob
  <2> DEFINE new == [kind |-> "job", visit |-> visit, answer |-> "none"]
  <2>1. new \in ReqType /\ new.kind = "job" /\ new.visit = visit /\ new.answer = "none"
    BY <1>0 DEF ReqType
  <2>2. reqs' = (reqs \ {new}) \cup {new}
    BY <1>4 DEF StepFirstJob
  <2>3. UNCHANGED <<visit, path, finishing, hasty, completed>>
    BY <1>4 DEF StepFirstJob
  <2> HIDE DEF new
  <2>4. new.visit <= visit  BY <1>0, <2>1
  <2>5. new.kind # "status" /\ new.kind # "complete"  BY <2>1
  <2>6. completed' => completed  BY <2>3
  <2>7. QED  BY <2>1, <2>2, <2>3, <2>4, <2>5, <2>6, SwapKeeps
<1>5. CASE StepComplete
  <2> DEFINE new == [kind |-> "complete", visit |-> visit, answer |-> "none"]
  <2>1. new \in ReqType /\ new.kind = "complete" /\ new.visit = visit
    BY <1>0 DEF ReqType
  <2>2. /\ reqs' = reqs \cup {new} /\ finishing' /\ ~finishing /\ path = "/setup"
        /\ UNCHANGED <<visit, path, hasty, completed>>
    BY <1>5 DEF StepComplete, OnWizard
  <2>3. ReqsOK'
    BY <1>0, <2>1, <2>2 DEF GuardInv, ReqsOK, Live
  <2>4. ASSUME ~hasty'  PROVE Waits' /\ NoLate'
    <3>1. Waits /\ NoLate  BY <2>2, <2>4 DEF GuardInv
    <3>2. Completing = {}  BY <2>2, <3>1 DEF Waits
    <3>3. Completing' = {new}  BY <2>1, <2>2, <3>2 DEF Completing
    <3>4. Waits'  BY <2>1, <2>2, <3>3 DEF Waits, Live
    <3>5. NoLate'  BY <2>1, <2>2, <3>1 DEF NoLate, Pending, Live
    <3>6. QED  BY <3>4, <3>5
  <2>5. QED  BY <2>3, <2>4 DEF GuardInv
<1>6. QED  BY <1>1, <1>2, <1>3, <1>4, <1>5 DEF User

LEMMA RequestStep ==
    ASSUME GuardInv, NEW r \in reqs, Requests(r) \/ CheckFails(r) \/ StepFails(r)
    PROVE  GuardInv'
<1>0. /\ visit \in Nat /\ r \in ReqType /\ r.visit <= visit
      /\ r.kind = "status" /\ Live(r) => path \notin Excluded
  BY DEF GuardInv, ReqsOK
<1> DEFINE with(a) == [r EXCEPT !.answer = a]
           Answers == {"none", "first run", "completed", "created", "error"}
<1>a. \A a \in Answers : /\ with(a) \in ReqType /\ with(a).kind = r.kind
                         /\ with(a).visit = r.visit /\ with(a).answer = a
  BY <1>0 DEF ReqType
<1> HIDE DEF with
<1>1. CASE ServerStatus(r)
  <2>1. PICK a \in Answers : /\ reqs' = (reqs \ {r}) \cup {with(a)}
                             /\ completed => a = "completed"
    BY <1>1 DEF ServerStatus, with
  <2>2. r.kind = "status" /\ UNCHANGED <<visit, path, finishing, hasty, completed>>
    BY <1>1 DEF ServerStatus, Pending, tableVars
  <2>3. QED  BY <1>0, <1>a, <2>1, <2>2, SwapKeeps DEF Live
<1>2. CASE Redirect(r)
  <2>1. Mount("/setup", reqs \ {r}) /\ hasty' = hasty /\ r.kind = "status" /\ Live(r)
    BY <1>2 DEF Redirect, Pending
  <2>2. path # "/setup"  BY <1>0, <2>1 DEF Excluded
  <2>3. ~hasty' => \A q \in reqs \ {r} : q.kind # "complete"
    BY <2>1, <2>2 DEF GuardInv, Waits, Completing
  <2>4. QED  BY <2>1, <2>3, MountKeeps
<1>3. CASE CheckPasses(r) \/ CheckIgnored(r) \/ CheckFails(r) \/ FirstJobAnswered(r)
  <2>1. /\ reqs' = reqs \ {r}
        /\ UNCHANGED <<visit, path, completed, hasty, finishing>>
    BY <1>3 DEF CheckPasses, CheckIgnored, CheckFails, FirstJobAnswered, tableVars
  <2>2. QED  BY <2>1, RemovalKeeps
<1>4. CASE ServerFirstJob(r)
  <2>1. PICK a \in {"created", "error"} : reqs' = (reqs \ {r}) \cup {with(a)}
    BY <1>4 DEF ServerFirstJob, with
  <2>2. r.kind = "job" /\ UNCHANGED <<visit, path, finishing, hasty, completed>>
    BY <1>4 DEF ServerFirstJob, Pending, tableVars
  <2>3. QED  BY <1>0, <1>a, <2>1, <2>2, SwapKeeps
<1>5. CASE ServerComplete(r)
  <2>1. reqs' = (reqs \ {r}) \cup {with("completed")}
    BY <1>5 DEF ServerComplete, with
  <2>2. r \in Completing /\ UNCHANGED <<visit, path, finishing, hasty>>
    BY <1>5 DEF ServerComplete, Pending, Completing, tableVars
  <2>3. r.kind = "complete"  BY <2>2 DEF Completing
  <2>4. QED  BY <1>0, <1>a, <2>1, <2>2, <2>3, SwapKeeps
<1>6. CASE Completed(r)
  <2>1. r \in Completing /\ UNCHANGED <<completed, hasty>>
    BY <1>6 DEF Completed, Pending, Completing
  <2>2. CASE path = "/"
    <3>1. reqs' = reqs \ {r} /\ UNCHANGED <<visit, path, finishing>>
      BY <1>6, <2>2 DEF Completed, tableVars
    <3>2. QED  BY <2>1, <3>1, RemovalKeeps
  <2>3. CASE path # "/"
    <3>1. Mount("/", reqs \ {r})  BY <1>6, <2>3 DEF Completed
    <3>2. ~hasty' => \A q \in reqs \ {r} : q.kind # "complete"
      BY <2>1 DEF GuardInv, Waits, Completing
    <3>3. QED  BY <3>1, <3>2, MountKeeps
  <2>4. QED  BY <2>2, <2>3
<1>7. CASE StepFails(r)
  <2>1. /\ reqs' = reqs \ {r}
        /\ UNCHANGED <<visit, path, completed, hasty>>
        /\ finishing' = (finishing /\ ~(Live(r) /\ r.kind = "complete"))
    BY <1>7 DEF StepFails
  <2>2. finishing /\ r \notin Completing => finishing'
    BY <2>1 DEF Completing
  <2>3. QED  BY <2>1, <2>2, RemovalKeeps
<1>8. QED  BY <1>1, <1>2, <1>3, <1>4, <1>5, <1>6, <1>7 DEF Requests

LEMMA GuardStep ==
    ASSUME GuardInv, [Next]_vars
    PROVE  GuardInv'
<1>1. CASE User  BY <1>1, UserStep
<1>2. ASSUME NEW r \in reqs, Requests(r) \/ CheckFails(r) \/ StepFails(r)
      PROVE  GuardInv'
  BY <1>2, RequestStep
<1>3. ASSUME NEW c \in calls, Chain(c) \/ RequestLost(c), UNCHANGED wizardVars
      PROVE  GuardInv'
  <2>1. UNCHANGED visit
    BY <1>3 DEF Chain, ServerCreates, ServerUpdates, Saved, ServerTests,
                MethodNotAllowed, RequestLost, Abandon
  <2>2. QED  BY <1>3, <2>1, GuardUntouched
<1>4. ASSUME NEW c \in calls, TestAnswered(c)  PROVE GuardInv'
  <2>1. UNCHANGED <<visit, wizardVars>>  BY <1>4 DEF TestAnswered, Answered
  <2>2. QED  BY <2>1, GuardUntouched
<1>5. ASSUME NEW s \in Sections, NEW g \in Configs[s], Test(s, g)  PROVE GuardInv'
  <2>1. UNCHANGED <<visit, wizardVars>>  BY <1>5 DEF Test, SaveAndTest
  <2>2. QED  BY <2>1, GuardUntouched
<1>6. CASE OpenPage \/ ServerLists \/ ListArrives \/ ListFails
  <2>1. UNCHANGED <<visit, wizardVars>>
    BY <1>6 DEF OpenPage, ServerLists, ListArrives, ListFails, tableVars
  <2>2. QED  BY <2>1, GuardUntouched
<1>7. CASE UNCHANGED vars
  BY <1>7, GuardUntouched DEF vars, tableVars
<1>8. QED  BY <1>1, <1>2, <1>3, <1>4, <1>5, <1>6, <1>7 DEF Next

\* SetupGuard.tsx and the last step of the wizard: once setup is completed no
\* answer to an older check takes the user back, unless the user left a wizard
\* that was completing.
THEOREM NoLateRedirectHolds == Spec => []NoLateRedirect
<1>1. GuardInv => NoLateRedirect
  BY DEF GuardInv, NoLate, NoLateRedirect
<1>2. GuardInv /\ [Next]_vars => GuardInv'  BY GuardStep
<1>3. QED  BY GuardStarts, <1>1, <1>2, PTL DEF Spec

-----------------------------------------------------------------------------
(* What the forms say of the connections table *)

Credentials == UNION {Configs[s] : s \in Sections}
Results == {"none", "failed"} \cup UNION {{CurrencyOf[s][g] : g \in Configs[s]} : s \in Sections}

RowType == [platform : {"odoo", "woocommerce"}, holds : Sections, config : Credentials,
            status : {"ACTIVE", "DEGRADED"}]
FormType == [id : Nat, busy : BOOLEAN, result : Results]
CallType == [visit : Nat, page : {"/setup", "/connections"}, sec : Sections,
             config : Credentials, id : Nat,
             phase : {"create", "saved", "update", "updated", "test", "tested"},
             result : Results]

DeskTypes ==
    /\ conns \in Seq(RowType)
    /\ section \in [Sections -> FormType]
    /\ calls \subseteq CallType
    /\ made \in [Sections -> SUBSET Ids]
    /\ {visit, presses, lost, opened} \subseteq Nat
    /\ opened <= visit
    /\ \A i \in Ids : conns[i].config \in Configs[conns[i].holds]
    /\ \A c \in calls : c.config \in Configs[c.sec]
    /\ cache \in {NoList} \cup 0..Len(conns)
    /\ fetch \in {Idle, Asked} \cup 0..Len(conns)

\* A row was there from the start or a press of a button has paid for it.
Creating == {c \in calls : c.phase = "create"}
RowsPaidFor ==
    /\ IsFiniteSet(calls)
    /\ presses <= MaxPresses
    /\ Len(conns) + Cardinality(Creating) <= presses + 1

\* The handlers of the mounted page: one for each form that waits for it.
Mounted(c) == c.visit = visit
CallsOK ==
    /\ \A c \in calls : /\ c.visit <= visit /\ c.id <= Len(conns)
                        /\ c.id = 0 => c.phase = "create"
    /\ \A c \in calls : Mounted(c) =>
          c.page = path /\ section[c.sec].busy /\ section[c.sec].result = "none"
    /\ \A c, d \in calls : Mounted(c) /\ Mounted(d) /\ c.sec = d.sec => c = d
    /\ \A c \in calls : ~Mounted(c) => \A s \in Sections : c.id \notin made[s]
    /\ \A s \in Sections : section[s].id <= Len(conns)

\* The page of the connections is used once its effects have run.
OpenedOK ==
    /\ opened = visit => path = "/connections" /\ Rendered
    /\ opened # visit /\ ~OnWizard =>
          (\A c \in calls : ~Mounted(c)) /\ \A s \in Sections : made[s] = {}

\* A result that names a currency is the one of a usable row.
Matches(i, result) ==
    result \notin {"none", "failed", Unknown} =>
        /\ i \in Ids
        /\ conns[i].status = "ACTIVE"
        /\ CurrencyOf[conns[i].holds][conns[i].config] = result

\* No connection of this visit is a section's yet, nor will the handler that
\* is under way make the one there is the section's.
Spare(s) ==
    /\ section[s].id = 0
    /\ \A c \in calls : Mounted(c) /\ c.sec = s => c.phase = "create"

WizardOK ==
    OnWizard =>
        /\ \A s \in Sections : section[s].id \in made[s] \cup {0}
        /\ \A s, t \in Sections : s # t => made[s] \cap made[t] = {}
        /\ \A c \in calls : Mounted(c) =>
              /\ c.phase = "create" => section[c.sec].id = 0
              /\ c.phase = "saved" => c.id \in made[c.sec] /\ section[c.sec].id = 0
              /\ c.phase \notin {"create", "saved"} => c.id = section[c.sec].id /\ c.id # 0
              /\ c.phase = "tested" => Matches(c.id, c.result)
        /\ \A s \in Sections : Matches(section[s].id, section[s].result)
        /\ \A s \in Sections :
              Cardinality(made[s]) <= lost + (IF Spare(s) THEN 0 ELSE 1)

\* The rows of this visit are on the list that is on its way, or on the form,
\* or their handler has still to ask for the list again.
Brings(n) == \A i \in made["odoo"] : i <= n
PageOK ==
    /\ \A i \in made["odoo"] : conns[i].platform = "odoo"
    /\ opened = visit /\ lost = 0 /\ ~missed =>
          \/ \E c \in calls : Mounted(c) /\ c.sec = "odoo"
          \/ fetch = Asked
          \/ fetch \in 0..Len(conns) /\ Brings(fetch)
          \/ fetch = Idle /\ Brings(section["odoo"].id)

DeskInv == DeskTypes /\ RowsPaidFor /\ CallsOK /\ OpenedOK /\ WizardOK /\ PageOK

LEMMA Bounds == MaxPresses \in Nat
BY TableAssumption

LEMMA TableFacts ==
    ASSUME DeskTypes, RowsPaidFor
    PROVE  /\ Len(conns) \in Nat /\ Ids = DOMAIN conns
           /\ Cardinality(Creating) \in Nat /\ IsFiniteSet(Creating)
           /\ Len(conns) <= MaxConns
           /\ MaxConns \in Nat /\ {NoList, Idle, Asked} \subseteq Nat
           /\ NoList > MaxConns /\ Idle > NoList /\ Asked > Idle
<1>1. Len(conns) \in Nat /\ Ids = DOMAIN conns
  BY DEF DeskTypes, Ids
<1>2. Cardinality(Creating) \in Nat /\ IsFiniteSet(Creating)
  BY FS_Subset, FS_CardinalityType DEF Creating, RowsPaidFor
<1>3. MaxConns \in Nat /\ {NoList, Idle, Asked} \subseteq Nat
      /\ NoList > MaxConns /\ Idle > NoList /\ Asked > Idle
  BY TableAssumption DEF MaxConns, NoList, Idle, Asked
<1>4. Len(conns) <= MaxConns
  BY <1>1, <1>2, TableAssumption DEF RowsPaidFor, MaxConns, DeskTypes
<1>. QED
  BY <1>1, <1>2, <1>3, <1>4

LEMMA MadeFinite ==
    ASSUME DeskTypes, RowsPaidFor
    PROVE  \A s \in Sections : IsFiniteSet(made[s]) /\ Cardinality(made[s]) \in Nat
<1>1. IsFiniteSet(Ids)
  BY TableFacts, FS_Interval DEF Ids
<1>. QED
  BY <1>1, FS_Subset, FS_CardinalityType DEF DeskTypes

LEMMA BlankForm == Blank \in FormType /\ Blank.id = 0 /\ Blank.result = "none" /\ ~Blank.busy
BY DEF Blank, FormType, Results

LEMMA DeskStarts == Init => DeskInv
<1> SUFFICES ASSUME Init  PROVE DeskInv
  OBVIOUS
<1>1. /\ visit = 1 /\ opened = 0 /\ presses = 0 /\ lost = 0 /\ calls = {} /\ fetch = Idle
      /\ section = [s \in Sections |-> Blank] /\ made = [s \in Sections |-> {}]
  BY DEF Init, Untouched
<1>2. conns \in Seq(RowType) /\ Len(conns) \in {0, 1}
      /\ \A i \in Ids : conns[i].config \in Configs[conns[i].holds]
  <2>1. CASE conns = <<>>
    BY <2>1 DEF Ids
  <2>2. ASSUME NEW g \in Configs["odoo"], conns = <<NewRow("odoo", g)>>
        PROVE  <1>2
    <3>1. NewRow("odoo", g) \in RowType /\ NewRow("odoo", g).holds = "odoo"
          /\ NewRow("odoo", g).config = g
      BY DEF NewRow, RowType, PlatformOf, Sections, Credentials
    <3>. HIDE DEF NewRow
    <3>2. Len(conns) = 1 /\ conns[1] = NewRow("odoo", g)
      BY <2>2
    <3>. QED
      BY <2>2, <3>1, <3>2 DEF Ids
  <2>. QED
    BY <2>1, <2>2 DEF Init
<1>3. cache \in {NoList} \cup 0..Len(conns)
  BY <1>2 DEF Init
<1>4. DeskTypes
  BY <1>1, <1>2, <1>3, BlankForm DEF DeskTypes
<1>5. RowsPaidFor
  <2>1. Creating = {}
    BY <1>1 DEF Creating
  <2>. QED
    <3>1. IsFiniteSet(calls) /\ Cardinality(Creating) = 0
      BY <1>1, <2>1, FS_EmptySet
    <3>2. Len(conns) + 0 <= 0 + 1
      <4>1. CASE Len(conns) = 0
        BY <4>1
      <4>2. CASE Len(conns) = 1
        BY <4>2
      <4>. QED
        BY <1>2, <4>1, <4>2
    <3>. QED
      BY <3>1, <3>2, <1>1, Bounds DEF RowsPaidFor
<1>6. CallsOK /\ OpenedOK
  BY <1>1, <1>2, BlankForm DEF CallsOK, OpenedOK
<1>7. WizardOK
  BY <1>1, BlankForm, FS_EmptySet DEF WizardOK, Matches
<1>8. PageOK
  BY <1>1 DEF PageOK, Sections
<1>. QED
  BY <1>4, <1>5, <1>6, <1>7, <1>8 DEF DeskInv

\* A page is left for another: handlers go on, and none is of the new one.
LEMMA MountDesk ==
    ASSUME DeskInv, NEW p \in Paths, NEW rest, Mount(p, rest),
           UNCHANGED <<conns, calls, presses, lost, listVars>>
    PROVE  DeskInv'
<1>1. /\ visit' = visit + 1 /\ made' = [s \in Sections |-> {}]
      /\ section' = [s \in Sections |-> Blank]
      /\ UNCHANGED <<conns, calls, presses, lost, fetch, cache, opened, missed, Creating, Ids>>
  BY DEF Mount, Untouched, listVars, Creating, Ids
<1>2. visit \in Nat /\ opened \in Nat /\ opened <= visit /\ opened # visit'
      /\ \A c \in calls : c.visit \in Nat /\ c.visit <= visit /\ c.visit <= visit'
                          /\ c.visit # visit'
  BY <1>1 DEF DeskInv, DeskTypes, CallsOK, CallType
<1>3. DeskTypes'
  BY <1>1, <1>2, BlankForm DEF DeskInv, DeskTypes
<1>4. RowsPaidFor'
  BY <1>1 DEF DeskInv, RowsPaidFor
<1>5. CallsOK'
  BY <1>1, <1>2, BlankForm, TableFacts DEF DeskInv, CallsOK, Mounted
<1>6. OpenedOK'
  BY <1>1, <1>2 DEF OpenedOK, Mounted
<1>7. WizardOK'
  BY <1>1, <1>2, BlankForm, FS_EmptySet DEF WizardOK, Matches, Mounted, DeskInv, DeskTypes
<1>8. PageOK'
  BY <1>1, <1>2 DEF PageOK, Sections
<1>. QED
  BY <1>3, <1>4, <1>5, <1>6, <1>7, <1>8 DEF DeskInv

\* Neither the table nor the handlers: requests of the guard and of the last
\* two steps, and those for the list.
LEMMA IdleDesk ==
    ASSUME DeskInv, UNCHANGED <<conns, visit, section, calls, made, path, opened, missed, cache>>,
           presses' \in Nat, presses <= presses', presses' <= MaxPresses,
           lost' \in Nat, lost <= lost', checked => checked',
           fetch' \in {fetch, Len(conns)} \/ (fetch' = Idle /\ lost' # 0)
    PROVE  DeskInv'
<1>1. DeskTypes'
  BY TableFacts DEF DeskInv, DeskTypes, Ids
<1>2. RowsPaidFor'
  BY TableFacts DEF DeskInv, RowsPaidFor, Creating, DeskTypes
<1>3. CallsOK'
  BY DEF DeskInv, CallsOK, Mounted
<1>4. OpenedOK'
  BY DEF DeskInv, OpenedOK, Mounted, Rendered, OnWizard
<1>5. \A s \in Sections : Spare(s)' = Spare(s)
  BY DEF Spare, Mounted
<1>6. \A i, r : Matches(i, r)' = Matches(i, r)
  BY DEF Matches, Ids
<1>7. WizardOK'
  <2>1. \A s \in Sections : Cardinality(made[s]) \in Nat
    BY MadeFinite DEF DeskInv
  <2>. QED
    BY <1>5, <1>6, <2>1 DEF DeskInv, WizardOK, OnWizard, Mounted, DeskTypes
<1>8. PageOK'
  <2>1. Len(conns) \in Nat /\ \A i \in made["odoo"] : i \in 1..Len(conns)
    BY TableFacts DEF DeskInv, DeskTypes, Ids, Sections
  <2>. QED
    BY <2>1 DEF DeskInv, DeskTypes, PageOK, Mounted, Brings
<1>. QED
  BY <1>1, <1>2, <1>3, <1>4, <1>7, <1>8 DEF DeskInv

\* A section's button is pressed: the handler of the section is the only one.
LEMMA PressDesk ==
    ASSUME DeskInv, NEW s \in Sections, NEW g \in Configs[s], SaveAndTest(path, s, g),
           OnWizard \/ opened = visit, UNCHANGED <<wizardVars, listVars>>
    PROVE  DeskInv'
<1>. DEFINE new == [visit |-> visit, page |-> path, sec |-> s, config |-> g, id |-> section[s].id,
                    phase |-> IF section[s].id = 0 THEN "create" ELSE "update",
                    result |-> "none"]
            form == [section[s] EXCEPT !.busy = TRUE, !.result = "none"]
<1>1. /\ ~section[s].busy /\ presses < MaxPresses /\ presses' = presses + 1
      /\ section' = [section EXCEPT ![s] = form] /\ calls' = calls \cup {new}
      /\ UNCHANGED <<conns, visit, lost, made, path, checked, fetch, cache, opened, missed, Ids>>
  BY DEF SaveAndTest, Press, wizardVars, listVars, Ids
<1>2. section[s] \in FormType /\ section[s].id \in Nat /\ section[s].id <= Len(conns)
  BY DEF DeskInv, DeskTypes, FormType, CallsOK
<1>3. form \in FormType /\ form.busy /\ form.result = "none" /\ form.id = section[s].id
  BY <1>2 DEF FormType, Results
<1>4. path \in {"/setup", "/connections"}
  BY DEF DeskInv, OpenedOK, OnWizard
<1>5. /\ new \in CallType /\ new.visit = visit /\ new.page = path /\ new.sec = s
      /\ new.config = g /\ new.id = section[s].id /\ new.phase \in {"create", "update"}
      /\ new.phase = "create" <=> section[s].id = 0
  BY <1>2, <1>4 DEF CallType, DeskInv, DeskTypes, Results, Credentials
<1>. HIDE DEF new, form
<1>6. \A c \in calls : Mounted(c) => c.sec # s
  BY <1>1 DEF DeskInv, CallsOK
<1>7. /\ section' \in [Sections -> FormType] /\ section'[s] = form
      /\ \A t \in Sections : t # s => section'[t] = section[t]
  BY <1>1, <1>3 DEF DeskInv, DeskTypes
<1>8. DeskTypes'
  BY <1>1, <1>5, <1>7, TableFacts, TableAssumption DEF DeskInv, DeskTypes
<1>9. RowsPaidFor'
  <2>1. Creating' = IF new.phase = "create" THEN Creating \cup {new} ELSE Creating
    BY <1>1 DEF Creating
  <2>2. IsFiniteSet(calls')
    BY <1>1, FS_AddElement DEF DeskInv, RowsPaidFor
  <2>3. Cardinality(Creating') <= Cardinality(Creating) + 1
    <3>1. IsFiniteSet(Creating) /\ Cardinality(Creating) \in Nat
      BY TableFacts DEF DeskInv
    <3>2. Cardinality(Creating \cup {new}) <= Cardinality(Creating) + 1
      BY <3>1, FS_AddElement
    <3>. QED
      BY <2>1, <3>1, <3>2
  <2>4. Cardinality(Creating') \in Nat
    BY <2>1, TableFacts, FS_AddElement, FS_CardinalityType DEF DeskInv
  <2>. QED
    BY <1>1, <2>2, <2>3, <2>4, TableFacts, Bounds DEF DeskInv, RowsPaidFor, DeskTypes
<1>10. CallsOK'
  <2>1. \A t \in Sections : section'[t].id = section[t].id
    BY <1>3, <1>7
  <2>2. /\ \A c \in calls' : c.visit <= visit' /\ c.id <= Len(conns')
                            /\ (c.id = 0 => c.phase = "create")
        /\ \A t \in Sections : section'[t].id <= Len(conns')
    BY <1>1, <1>2, <1>5, <2>1 DEF DeskInv, CallsOK, DeskTypes
  <2>3. \A c \in calls' : Mounted(c)' =>
          c.page = path' /\ section'[c.sec].busy /\ section'[c.sec].result = "none"
    BY <1>1, <1>3, <1>5, <1>6, <1>7 DEF DeskInv, CallsOK, DeskTypes, CallType, Mounted
  <2>4. \A c, d \in calls' : Mounted(c)' /\ Mounted(d)' /\ c.sec = d.sec => c = d
    BY <1>1, <1>5, <1>6 DEF DeskInv, CallsOK, Mounted
  <2>5. \A c \in calls' : ~Mounted(c)' => \A t \in Sections : c.id \notin made'[t]
    BY <1>1, <1>5 DEF DeskInv, CallsOK, Mounted
  <2>. QED
    BY <2>2, <2>3, <2>4, <2>5 DEF CallsOK
<1>11. OpenedOK'
  BY <1>1 DEF DeskInv, OpenedOK, Rendered, OnWizard
<1>12. WizardOK'
  <2>. SUFFICES ASSUME OnWizard'  PROVE WizardOK'
    BY DEF WizardOK
  <2>1. OnWizard
    BY <1>1 DEF OnWizard
  <2>2. \A i, r : Matches(i, r)' = Matches(i, r)
    BY <1>1 DEF Matches
  <2>3. \A t \in Sections : section'[t].id = section[t].id
    BY <1>3, <1>7
  <2>4. \A t \in Sections : Spare(t) <=> Spare(t)'
    BY <1>1, <1>5, <1>6, <2>3 DEF Spare, Mounted
  <2>5. \A t \in Sections : Matches(section'[t].id, section'[t].result)
    BY <1>3, <1>7, <2>1 DEF DeskInv, WizardOK, Matches
  <2>6. \A c \in calls' : Mounted(c)' =>
              /\ c.phase = "create" => section[c.sec].id = 0
              /\ c.phase = "saved" => c.id \in made[c.sec] /\ section[c.sec].id = 0
              /\ c.phase \notin {"create", "saved"} => c.id = section[c.sec].id /\ c.id # 0
              /\ c.phase = "tested" => Matches(c.id, c.result)
    BY <1>1, <1>5, <2>1 DEF DeskInv, WizardOK, Mounted
  <2>7. \A c \in calls' : c.sec \in Sections
    BY <1>8 DEF DeskTypes, CallType
  <2>. QED
    BY <1>1, <2>1, <2>2, <2>3, <2>4, <2>5, <2>6, <2>7 DEF DeskInv, WizardOK, OnWizard
<1>13. PageOK'
  <2>1. section'["odoo"].id = section["odoo"].id
    BY <1>3, <1>7 DEF Sections
  <2>. QED
    BY <1>1, <2>1 DEF DeskInv, PageOK, Mounted, Brings
<1>. QED
  BY <1>8, <1>9, <1>10, <1>11, <1>12, <1>13 DEF DeskInv

\* A handler goes on to its next request: the rest of the desk sees the same
\* handlers.
LEMMA GoesOn ==
    ASSUME DeskInv, NEW c \in calls, NEW d, calls' = (calls \ {c}) \cup {d},
           d.visit = c.visit, d.page = c.page, d.sec = c.sec,
           UNCHANGED <<visit, path, checked, opened, lost, missed, fetch>>,
           \A s \in Sections : section'[s].busy = section[s].busy
    PROVE  /\ \A e \in calls' : Mounted(e)' => e.page = path' /\ section'[e.sec].busy
           /\ \A e, f \in calls' : Mounted(e)' /\ Mounted(f)' /\ e.sec = f.sec => e = f
           /\ \A s \in Sections : (\E e \in calls' : Mounted(e)' /\ e.sec = s)
                                   <=> \E e \in calls : Mounted(e) /\ e.sec = s
BY DEF DeskInv, DeskTypes, CallType, CallsOK, Mounted, OpenedOK, Rendered

LEMMA CreateDesk ==
    ASSUME DeskInv, NEW c \in calls, ServerCreates(c), UNCHANGED <<wizardVars, listVars>>
    PROVE  DeskInv'
<1>. DEFINE n == Len(conns) + 1
            d == [c EXCEPT !.phase = "saved", !.id = n]
            line == NewRow(c.sec, c.config)
<1>1. /\ c.phase = "create" /\ conns' = Append(conns, line) /\ calls' = (calls \ {c}) \cup {d}
      /\ made' = IF Mounted(c) THEN [made EXCEPT ![c.sec] = @ \cup {n}] ELSE made
      /\ UNCHANGED <<visit, section, presses, lost, path, checked, fetch, cache, opened, missed>>
  BY DEF ServerCreates, Mounted, wizardVars, listVars
<1>2. c \in CallType /\ c.sec \in Sections /\ c.config \in Configs[c.sec] /\ Len(conns) \in Nat
      /\ n \in Nat
  BY TableFacts DEF DeskInv, DeskTypes, CallType
<1>3. /\ d \in CallType /\ d.visit = c.visit /\ d.page = c.page /\ d.sec = c.sec
      /\ d.config = c.config /\ d.result = c.result /\ d.phase = "saved" /\ d.id = n
  BY <1>2 DEF CallType
<1>4. /\ line \in RowType /\ line.platform = PlatformOf(c.sec) /\ line.holds = c.sec
      /\ line.config = c.config
  BY <1>2, TableAssumption DEF NewRow, RowType, PlatformOf, Sections, Credentials
<1>. HIDE DEF d, line
<1>5. /\ Len(conns') = n /\ conns' \in Seq(RowType) /\ conns'[n] = line
      /\ \A i \in Ids : conns'[i] = conns[i] /\ i # n /\ i \in Ids' /\ i <= n
      /\ Ids' = Ids \cup {n} /\ n \notin Ids /\ n # 0
  BY <1>1, <1>2, <1>4 DEF DeskInv, DeskTypes, Ids
<1>6. /\ \A s \in Sections : made[s] \subseteq Ids /\ made[s] \subseteq made'[s]
                             /\ made'[s] \subseteq made[s] \cup {n}
                             /\ (n \in made'[s] <=> Mounted(c) /\ s = c.sec)
      /\ made' \in [Sections -> SUBSET Ids']
  BY <1>1, <1>2, <1>5 DEF DeskInv, DeskTypes
<1>7. DeskTypes'
  <2>1. \A i \in Ids' : conns'[i].config \in Configs[conns'[i].holds]
    BY <1>2, <1>4, <1>5 DEF DeskInv, DeskTypes
  <2>2. \A e \in calls' : e.config \in Configs[e.sec]
    BY <1>1, <1>2, <1>3 DEF DeskInv, DeskTypes
  <2>3. cache' \in {NoList} \cup 0..Len(conns') /\ fetch' \in {Idle, Asked} \cup 0..Len(conns')
    BY <1>1, <1>2, <1>5 DEF DeskInv, DeskTypes
  <2>4. calls' \subseteq CallType
    BY <1>1, <1>3 DEF DeskInv, DeskTypes
  <2>5. NoList' = NoList /\ Idle' = Idle /\ Asked' = Asked
    BY DEF NoList, Idle, Asked, MaxConns
  <2>. QED
    BY <1>1, <1>5, <1>6, <2>1, <2>2, <2>3, <2>4, <2>5 DEF DeskInv, DeskTypes
<1>8. RowsPaidFor'
  <2>1. Creating' = Creating \ {c} /\ c \in Creating
    BY <1>1, <1>3 DEF Creating
  <2>2. IsFiniteSet(calls')
    BY <1>1, FS_AddElement, FS_RemoveElement DEF DeskInv, RowsPaidFor
  <2>3. Cardinality(Creating') = Cardinality(Creating) - 1
    BY <2>1, TableFacts, FS_RemoveElement DEF DeskInv
  <2>. QED
    BY <1>1, <1>2, <1>5, <2>2, <2>3, TableFacts DEF DeskInv, RowsPaidFor, DeskTypes
<1>9. CallsOK'
  <2>1. \A e \in calls' : e.visit <= visit' /\ e.id <= Len(conns') /\ (e.id = 0 => e.phase = "create")
    BY <1>1, <1>2, <1>3, <1>5 DEF DeskInv, DeskTypes, CallsOK, CallType
  <2>2. \A e \in calls' : Mounted(e)' => section'[e.sec].result = "none"
    BY <1>1, <1>3 DEF DeskInv, CallsOK, Mounted
  <2>3. \A e \in calls' : ~Mounted(e)' => \A s \in Sections : e.id \notin made'[s]
    BY <1>1, <1>2, <1>3, <1>5, <1>6 DEF DeskInv, CallsOK, Mounted, DeskTypes, CallType
  <2>4. \A s \in Sections : section'[s].id <= Len(conns')
    BY <1>1, <1>2, <1>5 DEF DeskInv, CallsOK, DeskTypes, FormType
  <2>. QED
    BY <1>1, <1>3, <2>1, <2>2, <2>3, <2>4, GoesOn DEF CallsOK
<1>10. OpenedOK'
  BY <1>1, <1>3, <1>6 DEF DeskInv, OpenedOK, Mounted, Rendered, OnWizard
<1>11. WizardOK'
  <2>. SUFFICES ASSUME OnWizard'  PROVE WizardOK'
    BY DEF WizardOK
  <2>1. OnWizard
    BY <1>1 DEF OnWizard
  <2>2. \A i, r : Matches(i, r) => Matches(i, r)'
    BY <1>5 DEF Matches
  <2>3. Mounted(c) => section[c.sec].id = 0
    BY <1>1, <2>1 DEF DeskInv, WizardOK
  <2>4. \A e \in calls' : Mounted(e)' =>
              /\ e.phase = "create" => section[e.sec].id = 0
              /\ e.phase = "saved" => e.id \in made'[e.sec] /\ section[e.sec].id = 0
              /\ e.phase \notin {"create", "saved"} => e.id = section[e.sec].id /\ e.id # 0
              /\ e.phase = "tested" => Matches(e.id, e.result)'
    <3>. SUFFICES ASSUME NEW e \in calls', Mounted(e)'
                  PROVE  /\ e.phase = "create" => section[e.sec].id = 0
                         /\ e.phase = "saved" => e.id \in made'[e.sec] /\ section[e.sec].id = 0
                         /\ e.phase \notin {"create", "saved"} => e.id = section[e.sec].id /\ e.id # 0
                         /\ e.phase = "tested" => Matches(e.id, e.result)'
      OBVIOUS
    <3>1. CASE e = d
      BY <1>1, <1>2, <1>3, <1>6, <2>3, <3>1 DEF Mounted
    <3>2. CASE e # d
      <4>1. e \in calls /\ Mounted(e) /\ e.sec \in Sections
        BY <1>1, <3>2 DEF Mounted, DeskInv, DeskTypes, CallType
      <4>. QED
        BY <1>6, <2>1, <2>2, <4>1 DEF DeskInv, WizardOK
    <3>. QED
      BY <3>1, <3>2
  <2>5. \A s, t \in Sections : s # t => made'[s] \cap made'[t] = {}
    BY <1>5, <1>6, <2>1 DEF DeskInv, WizardOK
  <2>6. \A s \in Sections : Cardinality(made'[s]) <= lost + (IF Spare(s)' THEN 0 ELSE 1)
    <3>. SUFFICES ASSUME NEW s \in Sections
                  PROVE  Cardinality(made'[s]) <= lost + (IF Spare(s)' THEN 0 ELSE 1)
      OBVIOUS
    <3>1. IsFiniteSet(made[s]) /\ Cardinality(made[s]) \in Nat /\ lost \in Nat
          /\ Cardinality(made[s]) <= lost + (IF Spare(s) THEN 0 ELSE 1)
      BY <2>1, MadeFinite DEF DeskInv, WizardOK, DeskTypes
    <3>2. CASE Mounted(c) /\ s = c.sec
      <4>1. \A e \in calls : Mounted(e) /\ e.sec = s => e = c
        BY <3>2 DEF DeskInv, CallsOK
      <4>2. Spare(s)
        BY <1>1, <2>3, <3>2, <4>1 DEF Spare
      <4>3. ~Spare(s)'
        BY <1>1, <1>3, <3>2 DEF Spare, Mounted
      <4>4. made'[s] = made[s] \cup {n}
        BY <1>1, <3>2 DEF DeskInv, DeskTypes
      <4>5. Cardinality(made[s] \cup {n}) <= Cardinality(made[s]) + 1
            /\ Cardinality(made[s] \cup {n}) \in Nat
        <5>. HIDE DEF n
        <5>1. /\ IsFiniteSet(made[s] \cup {n})
              /\ Cardinality(made[s] \cup {n}) =
                    IF n \in made[s] THEN Cardinality(made[s]) ELSE Cardinality(made[s]) + 1
          BY <3>1, FS_AddElement
        <5>. QED
          BY <3>1, <5>1
      <4>. HIDE DEF n
      <4>. QED
        BY <3>1, <4>2, <4>3, <4>4, <4>5
    <3>3. CASE ~(Mounted(c) /\ s = c.sec)
      <4>1. made'[s] = made[s]
        BY <1>1, <3>3 DEF DeskInv, DeskTypes
      <4>2. Spare(s)' = Spare(s)
        BY <1>1, <1>3, <3>3 DEF Spare, Mounted
      <4>. QED
        BY <3>1, <4>1, <4>2
    <3>. QED
      BY <3>2, <3>3
  <2>7. \A s \in Sections : section[s].id \in made'[s] \cup {0}
    BY <1>6, <2>1 DEF DeskInv, WizardOK
  <2>8. \A s \in Sections : Matches(section[s].id, section[s].result)'
    <3>1. \A s \in Sections : Matches(section[s].id, section[s].result)
      BY <2>1 DEF DeskInv, WizardOK
    <3>. QED
      BY <1>1, <1>5, <3>1 DEF Matches
  <2>. QED
    BY <1>1, <2>4, <2>5, <2>6, <2>7, <2>8 DEF WizardOK
<1>12. PageOK'
  <2>1. \A i \in made'["odoo"] : conns'[i].platform = "odoo"
    BY <1>4, <1>5, <1>6 DEF DeskInv, PageOK, PlatformOf, Sections
  <2>2. ASSUME ~\E e \in calls : Mounted(e) /\ e.sec = "odoo"
        PROVE  made'["odoo"] = made["odoo"]
    BY <1>1, <2>2 DEF DeskInv, DeskTypes
  <2>3. (\E e \in calls' : Mounted(e)' /\ e.sec = "odoo")
        <=> \E e \in calls : Mounted(e) /\ e.sec = "odoo"
    BY <1>1, <1>3, GoesOn DEF Sections
  <2>4. 0..Len(conns) \subseteq 0..Len(conns')
    BY <1>2, <1>5
  <2>. QED
    BY <1>1, <2>1, <2>2, <2>3, <2>4 DEF DeskInv, PageOK, Brings, Idle, Asked
<1>. QED
  BY <1>7, <1>8, <1>9, <1>10, <1>11, <1>12 DEF DeskInv

\* The last row of a platform: a nonempty set of naturals below a bound has a
\* greatest one.
LEMMA LastIs ==
    ASSUME NEW platform, NEW n \in Nat, Of(platform, n) # {}
    PROVE  /\ LastOf(platform, n) \in 1..n
           /\ \A i \in Of(platform, n) : i <= LastOf(platform, n)
<1>. DEFINE S == {n - i : i \in Of(platform, n)}
            R == OpToRel(<, Nat)
<1>1. Of(platform, n) \subseteq 1..n
  BY DEF Of
<1>2. S \subseteq Nat /\ S # {}
  BY <1>1
<1>3. IsWellFoundedOn(R, Nat)
  BY NatLessThanWellFounded
<1>4. \A i, j \in Nat : <<i, j>> \in R <=> i < j
  BY DEF OpToRel
<1>5. \E x \in S : \A y \in S : <<y, x>> \notin R
  <2>. HIDE DEF R, S
  <2>. QED
    BY <1>2, <1>3, WFMin
<1>. HIDE DEF R
<1>6. PICK x \in S : \A y \in S : ~(y < x)
  BY <1>2, <1>4, <1>5
<1>7. PICK i \in Of(platform, n) : x = n - i
  BY <1>6
<1>8. \A j \in Of(platform, n) : j <= i
  <2>. SUFFICES ASSUME NEW j \in Of(platform, n)  PROVE j <= i
    OBVIOUS
  <2>1. n - j \in S
    OBVIOUS
  <2>2. ~(n - j < n - i)
    BY <1>6, <1>7, <2>1
  <2>. QED
    BY <1>1, <2>2
<1>9. LastOf(platform, n) \in Of(platform, n)
      /\ \A j \in Of(platform, n) : j <= LastOf(platform, n)
  BY <1>7, <1>8 DEF LastOf
<1>. QED
  BY <1>1, <1>9

\* The list fills the forms with rows of the table.
LEMMA PopulateIs ==
    ASSUME DeskInv, NEW n, n \in {NoList} \cup 0..Len(conns)
    PROVE  /\ Populate(n) \in [Sections -> FormType]
           /\ \A s \in Sections : /\ Populate(n)[s].busy = section[s].busy
                                  /\ Populate(n)[s].result = section[s].result
                                  /\ Populate(n)[s].id <= Len(conns)
<1>1. Len(conns) \in Nat /\ \A s \in Sections :
         section[s] \in FormType /\ section[s].id \in Nat /\ section[s].id <= Len(conns)
  BY TableFacts DEF DeskInv, DeskTypes, CallsOK, FormType
<1>2. ASSUME NEW s \in Sections
      PROVE  LET form == Populate(n)[s]
             IN  /\ form \in FormType /\ form.busy = section[s].busy
                 /\ form.result = section[s].result /\ form.id <= Len(conns)
  <2>1. CASE s # "wordpress" /\ n # NoList /\ Of(s, n) # {}
    <3>1. n \in Nat /\ n <= Len(conns)
      BY <1>1, <2>1
    <3>2. LastOf(s, n) \in 1..n
      BY <2>1, <3>1, LastIs
    <3>3. LastOf(s, n) \in Nat /\ LastOf(s, n) <= Len(conns)
      BY <1>1, <3>1, <3>2
    <3>4. Populate(n)[s] = [section[s] EXCEPT !.id = LastOf(s, n)]
      BY <2>1 DEF Populate
    <3>. QED
      BY <1>1, <3>3, <3>4 DEF FormType
  <2>2. CASE ~(s # "wordpress" /\ n # NoList /\ Of(s, n) # {})
    BY <1>1, <2>2 DEF Populate
  <2>. QED
    BY <2>1, <2>2
<1>3. Populate(n) = [s \in Sections |-> Populate(n)[s]]
  BY DEF Populate
<1>. QED
  BY <1>2, <1>3

LEMMA OpenDesk ==
    ASSUME DeskInv, OpenPage
    PROVE  DeskInv'
<1>1. /\ path = "/connections" /\ Rendered /\ opened # visit /\ opened' = visit
      /\ section' = Populate(cache) /\ fetch' \in {fetch, Asked}
      /\ UNCHANGED <<conns, visit, calls, presses, lost, made, path, checked, cache, missed, Ids>>
  BY DEF OpenPage, wizardVars, Ask, Ids
<1>2. (\A c \in calls : ~Mounted(c)) /\ \A s \in Sections : made[s] = {}
  BY <1>1 DEF DeskInv, OpenedOK, OnWizard
<1>3. section' \in [Sections -> FormType] /\ \A s \in Sections : section'[s].id <= Len(conns)
  BY <1>1, PopulateIs DEF DeskInv, DeskTypes
<1>4. DeskTypes'
  BY <1>1, <1>3 DEF DeskInv, DeskTypes, NoList, Idle, Asked, MaxConns
<1>5. RowsPaidFor'
  BY <1>1 DEF DeskInv, RowsPaidFor, Creating
<1>6. CallsOK' /\ OpenedOK'
  BY <1>1, <1>2, <1>3 DEF DeskInv, CallsOK, OpenedOK, Mounted, Rendered
<1>7. WizardOK'
  BY <1>1 DEF WizardOK, OnWizard
<1>8. PageOK'
  BY <1>1, <1>2 DEF DeskInv, DeskTypes, PageOK, Brings, Sections, NoList, Idle, Asked
<1>. QED
  BY <1>4, <1>5, <1>6, <1>7, <1>8 DEF DeskInv

LEMMA ArrivesDesk ==
    ASSUME DeskInv, ListArrives
    PROVE  DeskInv'
<1>1. /\ fetch \in 0..MaxConns /\ cache' = fetch /\ fetch' = Idle
      /\ section' = IF OnPage THEN Populate(fetch) ELSE section
      /\ UNCHANGED <<conns, visit, calls, presses, lost, made, path, checked, opened, missed, Ids>>
  BY DEF ListArrives, wizardVars, Ids
<1>2. /\ fetch \in 0..Len(conns) /\ Len(conns) \in Nat
      /\ fetch # Idle /\ fetch # Asked /\ fetch # NoList
  <2>1. fetch # Idle /\ fetch # Asked /\ fetch # NoList /\ Len(conns) \in Nat
    BY <1>1, TableFacts DEF DeskInv
  <2>. QED
    BY <1>1, <2>1 DEF DeskInv, DeskTypes
<1>3. /\ section' \in [Sections -> FormType]
      /\ \A s \in Sections : section'[s].id <= Len(conns) /\ section'[s].busy = section[s].busy
                             /\ section'[s].result = section[s].result
  <2>1. CASE OnPage
    BY <1>1, <1>2, <2>1, PopulateIs
  <2>2. CASE ~OnPage
    BY <1>1, <2>2 DEF DeskInv, DeskTypes, CallsOK
  <2>. QED
    BY <2>1, <2>2
<1>4. OnWizard => section' = section
  BY <1>1 DEF OnWizard, OnPage
<1>5. DeskTypes'
  BY <1>1, <1>2, <1>3 DEF DeskInv, DeskTypes, NoList, Idle, Asked, MaxConns
<1>6. RowsPaidFor'
  BY <1>1 DEF DeskInv, RowsPaidFor, Creating
<1>7. CallsOK'
  BY <1>1, <1>3 DEF DeskInv, DeskTypes, CallType, CallsOK, Mounted
<1>8. OpenedOK'
  BY <1>1 DEF DeskInv, OpenedOK, Mounted, Rendered, OnWizard
<1>9. WizardOK'
  <2>. SUFFICES ASSUME OnWizard'  PROVE WizardOK'
    BY DEF WizardOK
  <2>1. OnWizard /\ section' = section
    BY <1>1, <1>4 DEF OnWizard
  <2>. QED
    BY <1>1, <2>1 DEF DeskInv, WizardOK, Matches, Mounted, Spare
<1>10. PageOK'
  <2>. SUFFICES ASSUME opened = visit, lost = 0, ~missed,
                       ~\E c \in calls : Mounted(c) /\ c.sec = "odoo"
                PROVE  Brings(section'["odoo"].id)
    BY <1>1 DEF DeskInv, PageOK, Mounted, Brings
  <2>1. OnPage
    BY DEF DeskInv, OpenedOK, OnPage
  <2>2. Brings(fetch)
    BY <1>2 DEF DeskInv, PageOK
  <2>3. ASSUME NEW i \in made["odoo"]  PROVE i <= section'["odoo"].id
    <3>1. i \in Of("odoo", fetch) /\ fetch # NoList
      BY <1>2, <2>2, <2>3, TableFacts DEF DeskInv, DeskTypes, PageOK, Of, Brings, Ids, Sections
    <3>2. i <= LastOf("odoo", fetch) /\ LastOf("odoo", fetch) \in 1..fetch
      BY <1>2, <3>1, LastIs
    <3>3. section'["odoo"] = [section["odoo"] EXCEPT !.id = LastOf("odoo", fetch)]
      BY <1>1, <2>1, <3>1 DEF Populate, Sections
    <3>. QED
      BY <3>2, <3>3 DEF DeskInv, DeskTypes, FormType, Sections
  <2>. QED
    BY <2>3 DEF Brings
<1>. QED
  BY <1>5, <1>6, <1>7, <1>8, <1>9, <1>10 DEF DeskInv

\* The server updates or tests the row of a handler: no other row is touched,
\* and the row is of no other section of this visit of the wizard.
LEMMA RowDesk ==
    ASSUME DeskInv, NEW c \in calls, NEW d \in CallType, NEW line,
           d.visit = c.visit, d.page = c.page, d.sec = c.sec, d.config = c.config, d.id = c.id,
           calls' = (calls \ {c}) \cup {d}, conns' = [conns EXCEPT ![c.id] = line],
           c.id \in Ids => /\ line \in RowType /\ line.config \in Configs[line.holds]
                           /\ line.platform = conns[c.id].platform,
           UNCHANGED <<visit, section, presses, lost, made, wizardVars, listVars>>,
           c.phase \notin {"create", "saved"}, d.phase \notin {"create", "saved"},
           OnWizard /\ Mounted(c) /\ d.result \notin {"none", "failed", Unknown} =>
               line.status = "ACTIVE" /\ CurrencyOf[line.holds][line.config] = d.result
    PROVE  DeskInv'
<1>1. UNCHANGED <<path, checked, fetch, cache, opened, missed>>
  BY DEF wizardVars, listVars
<1>2. /\ Len(conns) \in Nat /\ Len(conns') = Len(conns) /\ Ids' = Ids
      /\ conns' \in Seq(RowType)
      /\ \A i \in Ids : /\ i # c.id => conns'[i] = conns[i]
                        /\ i = c.id => conns'[i] = line
                        /\ conns'[i].platform = conns[i].platform
  <2>1. /\ conns \in [1..Len(conns) -> RowType] /\ Len(conns) \in Nat
        /\ conns \in Seq(RowType)
    BY TableFacts DEF DeskInv, DeskTypes
  <2>2. conns' \in [1..Len(conns) -> RowType]
    BY <2>1 DEF Ids
  <2>3. Len(conns') = Len(conns) /\ conns' \in Seq(RowType)
    BY <2>1, <2>2
  <2>. QED
    BY <2>1, <2>3 DEF Ids
<1>3. DeskTypes'
  <2>1. \A i \in Ids' : conns'[i].config \in Configs[conns'[i].holds]
    BY <1>2 DEF DeskInv, DeskTypes
  <2>. QED
    BY <1>1, <1>2, <2>1 DEF DeskInv, DeskTypes, NoList, Idle, Asked, MaxConns
<1>4. RowsPaidFor'
  <2>1. Creating' = Creating
    BY DEF Creating
  <2>2. IsFiniteSet(calls')
    BY FS_AddElement, FS_RemoveElement DEF DeskInv, RowsPaidFor
  <2>. QED
    BY <1>2, <2>1, <2>2 DEF DeskInv, RowsPaidFor
<1>5. CallsOK'
  <2>1. \A e \in calls' : e.visit <= visit' /\ e.id <= Len(conns') /\ (e.id = 0 => e.phase = "create")
    BY <1>2 DEF DeskInv, CallsOK
  <2>2. \A e \in calls' : Mounted(e)' => section'[e.sec].result = "none"
    BY DEF DeskInv, CallsOK, Mounted
  <2>3. \A e \in calls' : ~Mounted(e)' => \A s \in Sections : e.id \notin made'[s]
    BY DEF DeskInv, CallsOK, Mounted
  <2>. QED
    BY <1>1, <1>2, <2>1, <2>2, <2>3, GoesOn DEF DeskInv, CallsOK
<1>6. OpenedOK'
  BY <1>1 DEF DeskInv, OpenedOK, Mounted, Rendered, OnWizard
<1>7. WizardOK'
  <2>. SUFFICES ASSUME OnWizard'  PROVE WizardOK'
    BY DEF WizardOK
  <2>1. OnWizard
    BY <1>1 DEF OnWizard
  <2>2. \A i, r : i # c.id /\ Matches(i, r) => Matches(i, r)'
    BY <1>2 DEF Matches
  <2>3. c.sec \in Sections /\ \A e \in calls : e.sec \in Sections
    BY DEF DeskInv, DeskTypes, CallType
  <2>4. \A s \in Sections : section[s].id = c.id /\ c.id # 0 => Mounted(c) /\ s = c.sec
    <3>1. \A s \in Sections : section[s].id # 0 => section[s].id \in made[s]
      BY <2>1 DEF DeskInv, WizardOK
    <3>2. Mounted(c) => c.id = section[c.sec].id /\ c.id # 0
      BY <2>1 DEF DeskInv, WizardOK
    <3>. QED
      BY <2>1, <2>3, <3>1, <3>2 DEF DeskInv, WizardOK, CallsOK
  <2>5. ASSUME NEW s \in Sections  PROVE Matches(section[s].id, section[s].result)'
    <3>1. Matches(section[s].id, section[s].result)
      BY <2>1 DEF DeskInv, WizardOK
    <3>2. CASE section[s].id # c.id
      BY <1>2, <3>1, <3>2 DEF Matches
    <3>3. CASE section[s].id = c.id
      <4>1. CASE c.id = 0
        BY <1>2, <3>1, <3>3, <4>1 DEF Matches, Ids
      <4>2. CASE c.id # 0
        <5>1. Mounted(c) /\ s = c.sec
          BY <2>4, <3>3, <4>2
        <5>2. section[s].result = "none"
          BY <5>1 DEF DeskInv, CallsOK
        <5>. QED
          BY <5>2 DEF Matches
      <4>. QED
        BY <4>1, <4>2
    <3>. QED
      BY <3>2, <3>3
  <2>6. ASSUME NEW e \in calls', Mounted(e)'
        PROVE /\ e.phase = "create" => section[e.sec].id = 0
              /\ e.phase = "saved" => e.id \in made[e.sec] /\ section[e.sec].id = 0
              /\ e.phase \notin {"create", "saved"} => e.id = section[e.sec].id /\ e.id # 0
              /\ e.phase = "tested" => Matches(e.id, e.result)'
    <3>1. CASE e = d
      <4>1. Mounted(c) /\ c.id = section[c.sec].id /\ c.id # 0
        BY <2>1, <2>6, <3>1 DEF DeskInv, WizardOK, Mounted
      <4>2. c.id \in Ids
        BY <2>1, <2>3, <4>1 DEF DeskInv, WizardOK, DeskTypes
      <4>3. Matches(e.id, e.result)'
        BY <1>2, <2>1, <3>1, <4>1, <4>2 DEF Matches
      <4>. QED
        BY <3>1, <4>1, <4>3
    <3>2. CASE e # d
      <4>1. e \in calls /\ Mounted(e) /\ e # c
        BY <2>6, <3>2 DEF Mounted
      <4>2. e.phase = "tested" => e.id # c.id
        BY <2>1, <2>3, <2>4, <4>1 DEF DeskInv, WizardOK, CallsOK
      <4>3. e.phase = "tested" => Matches(e.id, e.result)
        BY <2>1, <4>1 DEF DeskInv, WizardOK
      <4>4. e.phase = "tested" => Matches(e.id, e.result)'
        BY <2>2, <4>2, <4>3
      <4>. QED
        BY <2>1, <4>1, <4>4 DEF DeskInv, WizardOK
    <3>. QED
      BY <3>1, <3>2
  <2>7. \A s \in Sections : Spare(s)' = Spare(s)
    BY DEF Spare, Mounted
  <2>. QED
    BY <2>1, <2>5, <2>6, <2>7 DEF DeskInv, WizardOK
<1>8. PageOK'
  <2>1. \A i \in made'["odoo"] : conns'[i].platform = "odoo"
    BY <1>2 DEF DeskInv, DeskTypes, PageOK, Sections
  <2>2. (\E e \in calls' : Mounted(e)' /\ e.sec = "odoo")
        <=> \E e \in calls : Mounted(e) /\ e.sec = "odoo"
    BY DEF Mounted
  <2>. QED
    BY <1>1, <1>2, <2>1, <2>2 DEF DeskInv, PageOK, Brings, Idle, Asked
<1>. QED
  BY <1>3, <1>4, <1>5, <1>6, <1>7, <1>8 DEF DeskInv

LEMMA SavedDesk ==
    ASSUME DeskInv, NEW c \in calls, Saved(c), UNCHANGED <<wizardVars, listVars>>
    PROVE  DeskInv'
<1>. DEFINE d == [c EXCEPT !.phase = "test"]
            form == [section[c.sec] EXCEPT !.id = IF c.phase = "saved" THEN c.id ELSE @]
<1>1. /\ c.phase \in {"saved", "updated"} /\ calls' = (calls \ {c}) \cup {d}
      /\ section' = IF Mounted(c) THEN [section EXCEPT ![c.sec] = form] ELSE section
      /\ UNCHANGED <<conns, visit, presses, lost, made, path, checked, fetch, cache, opened,
                     missed, Ids>>
  BY DEF Saved, SetSection, Mounted, wizardVars, listVars, Ids
<1>2. c \in CallType /\ c.sec \in Sections /\ section[c.sec] \in FormType
      /\ c.id \in Nat /\ c.id <= Len(conns) /\ section[c.sec].id <= Len(conns)
  BY DEF DeskInv, DeskTypes, CallType, CallsOK
<1>3. /\ d \in CallType /\ d.visit = c.visit /\ d.page = c.page /\ d.sec = c.sec
      /\ d.config = c.config /\ d.result = c.result /\ d.phase = "test" /\ d.id = c.id
  BY <1>2 DEF CallType
<1>4. /\ form \in FormType /\ form.busy = section[c.sec].busy
      /\ form.result = section[c.sec].result
      /\ form.id = IF c.phase = "saved" THEN c.id ELSE section[c.sec].id
  BY <1>2 DEF FormType
<1>. HIDE DEF d, form
<1>5. /\ section' \in [Sections -> FormType]
      /\ Mounted(c) => section'[c.sec] = form
      /\ \A s \in Sections : ~(Mounted(c) /\ s = c.sec) => section'[s] = section[s]
      /\ \A s \in Sections : /\ section'[s].busy = section[s].busy
                             /\ section'[s].result = section[s].result
                             /\ section'[s].id <= Len(conns)
  BY <1>1, <1>2, <1>4 DEF DeskInv, DeskTypes, CallsOK
<1>6. DeskTypes'
  BY <1>1, <1>3, <1>5 DEF DeskInv, DeskTypes, NoList, Idle, Asked, MaxConns
<1>7. RowsPaidFor'
  <2>1. Creating' = Creating
    BY <1>1, <1>3 DEF Creating
  <2>2. IsFiniteSet(calls')
    BY <1>1, FS_AddElement, FS_RemoveElement DEF DeskInv, RowsPaidFor
  <2>. QED
    BY <1>1, <2>1, <2>2 DEF DeskInv, RowsPaidFor
<1>8. CallsOK'
  <2>1. \A e \in calls' : e.visit <= visit' /\ e.id <= Len(conns') /\ (e.id = 0 => e.phase = "create")
    BY <1>1, <1>3 DEF DeskInv, CallsOK
  <2>2. \A e \in calls' : Mounted(e)' => section'[e.sec].result = "none"
    BY <1>1, <1>2, <1>3, <1>5 DEF DeskInv, DeskTypes, CallType, CallsOK, Mounted
  <2>3. \A e \in calls' : ~Mounted(e)' => \A s \in Sections : e.id \notin made'[s]
    BY <1>1, <1>3 DEF DeskInv, CallsOK, Mounted
  <2>. QED
    BY <1>1, <1>3, <1>5, <2>1, <2>2, <2>3, GoesOn DEF DeskInv, CallsOK
<1>9. OpenedOK'
  BY <1>1, <1>3 DEF DeskInv, OpenedOK, Mounted, Rendered, OnWizard
<1>10. WizardOK'
  <2>. SUFFICES ASSUME OnWizard'  PROVE WizardOK'
    BY DEF WizardOK
  <2>1. OnWizard
    BY <1>1 DEF OnWizard
  <2>2. \A i, r : Matches(i, r)' = Matches(i, r)
    BY <1>1 DEF Matches
  <2>3. Mounted(c) =>
          /\ section'[c.sec].id = c.id /\ c.id # 0 /\ c.id \in made[c.sec]
          /\ section[c.sec].result = "none"
    BY <1>1, <1>2, <1>4, <1>5, <2>1, TableFacts DEF DeskInv, DeskTypes, WizardOK, CallsOK, Ids
  <2>4. ASSUME NEW s \in Sections
        PROVE  /\ section'[s].id \in made[s] \cup {0}
               /\ Matches(section'[s].id, section'[s].result)
    BY <1>5, <2>1, <2>3, <2>4 DEF DeskInv, WizardOK, Matches
  <2>5. ASSUME NEW e \in calls', Mounted(e)'
        PROVE  /\ e.phase = "create" => section'[e.sec].id = 0
               /\ e.phase = "saved" => e.id \in made[e.sec] /\ section'[e.sec].id = 0
               /\ e.phase \notin {"create", "saved"} => e.id = section'[e.sec].id /\ e.id # 0
               /\ e.phase = "tested" => Matches(e.id, e.result)
    <3>1. CASE e = d
      BY <1>1, <1>3, <2>3, <2>5, <3>1 DEF Mounted
    <3>2. CASE e # d
      <4>1. e \in calls /\ Mounted(e) /\ e # c /\ e.sec \in Sections
        BY <1>1, <2>5, <3>2 DEF Mounted, DeskInv, DeskTypes, CallType
      <4>2. ~(Mounted(c) /\ e.sec = c.sec)
        BY <4>1 DEF DeskInv, CallsOK
      <4>. QED
        BY <1>5, <2>1, <4>1, <4>2 DEF DeskInv, WizardOK
    <3>. QED
      BY <3>1, <3>2
  <2>6. ASSUME NEW s \in Sections  PROVE Spare(s)' = Spare(s)
    <3>1. CASE Mounted(c) /\ s = c.sec
      BY <1>1, <1>3, <2>3, <3>1 DEF Spare, Mounted
    <3>2. CASE ~(Mounted(c) /\ s = c.sec)
      BY <1>1, <1>3, <1>5, <3>2 DEF Spare, Mounted
    <3>. QED
      BY <3>1, <3>2
  <2>7. \A s \in Sections : Matches(section[s].id, section[s].result)'
    BY <2>2, <2>4
  <2>. QED
    BY <1>1, <2>1, <2>2, <2>4, <2>5, <2>6, <2>7 DEF DeskInv, WizardOK
<1>11. PageOK'
  <2>1. (\E e \in calls' : Mounted(e)' /\ e.sec = "odoo")
        <=> \E e \in calls : Mounted(e) /\ e.sec = "odoo"
    BY <1>1, <1>3 DEF Mounted
  <2>2. ~(\E e \in calls : Mounted(e) /\ e.sec = "odoo") => section'["odoo"] = section["odoo"]
    BY <1>5 DEF Sections
  <2>. QED
    BY <1>1, <2>1, <2>2 DEF DeskInv, PageOK, Brings, Idle, Asked
<1>. QED
  BY <1>6, <1>7, <1>8, <1>9, <1>10, <1>11 DEF DeskInv

\* A handler ends: with the result of its test, or with a failure that a lost
\* request is the reason of unless the section has a connection already.
LEMMA EndsDesk ==
    ASSUME DeskInv, NEW c \in calls, NEW r \in Results, calls' = calls \ {c},
           SetSection(c, [section[c.sec] EXCEPT !.busy = FALSE, !.result = r]),
           r = "failed" \/ (c.phase = "tested" /\ r = c.result),
           lost' \in Nat, lost <= lost', lost < lost' \/ c.phase \in {"update", "tested"},
           UNCHANGED <<conns, visit, presses, made, wizardVars, cache, opened>>,
           fetch' \in {fetch, Asked}, missed => missed',
           opened = visit /\ Mounted(c) => lost < lost' \/ missed' \/ fetch' = Asked
    PROVE  DeskInv'
<1>. DEFINE form == [section[c.sec] EXCEPT !.busy = FALSE, !.result = r]
<1>1. /\ section' = IF Mounted(c) THEN [section EXCEPT ![c.sec] = form] ELSE section
      /\ UNCHANGED <<path, checked, Ids>>
  BY DEF SetSection, Mounted, wizardVars, Ids
<1>2. c \in CallType /\ c.sec \in Sections /\ section[c.sec] \in FormType
  BY DEF DeskInv, DeskTypes, CallType
<1>3. form \in FormType /\ form.result = r /\ form.id = section[c.sec].id
  BY <1>2 DEF FormType
<1>. HIDE DEF form
<1>4. /\ section' \in [Sections -> FormType]
      /\ Mounted(c) => section'[c.sec] = form
      /\ \A s \in Sections : ~(Mounted(c) /\ s = c.sec) => section'[s] = section[s]
      /\ \A s \in Sections : section'[s].id = section[s].id
  BY <1>1, <1>2, <1>3 DEF DeskInv, DeskTypes
<1>5. DeskTypes'
  BY <1>1, <1>4 DEF DeskInv, DeskTypes, NoList, Idle, Asked, MaxConns
<1>6. RowsPaidFor'
  <2>1. Creating' \subseteq Creating
    BY DEF Creating
  <2>2. IsFiniteSet(calls')
    BY FS_RemoveElement DEF DeskInv, RowsPaidFor
  <2>3. Cardinality(Creating') <= Cardinality(Creating) /\ Cardinality(Creating') \in Nat
        /\ Cardinality(Creating) \in Nat
    BY <2>1, TableFacts, FS_Subset, FS_CardinalityType DEF DeskInv
  <2>. QED
    BY <2>2, <2>3, TableFacts DEF DeskInv, DeskTypes, RowsPaidFor
<1>7. \A e \in calls' : Mounted(e)' => ~(Mounted(c) /\ e.sec = c.sec) /\ e.sec \in Sections
  BY DEF DeskInv, DeskTypes, CallType, CallsOK, Mounted
<1>8. CallsOK'
  BY <1>1, <1>4, <1>7 DEF DeskInv, CallsOK, Mounted
<1>9. OpenedOK'
  BY <1>1 DEF DeskInv, OpenedOK, Mounted, Rendered, OnWizard
<1>10. WizardOK'
  <2>. SUFFICES ASSUME OnWizard'  PROVE WizardOK'
    BY DEF WizardOK
  <2>1. OnWizard
    BY <1>1 DEF OnWizard
  <2>2. \A i, v : Matches(i, v)' = Matches(i, v)
    BY <1>1 DEF Matches
  <2>3. Mounted(c) /\ r # "failed" => Matches(section[c.sec].id, r)
    BY <1>2, <2>1 DEF DeskInv, WizardOK
  <2>4. ASSUME NEW s \in Sections  PROVE Matches(section'[s].id, section'[s].result)
    <3>1. CASE Mounted(c) /\ s = c.sec
      BY <1>3, <1>4, <2>3, <3>1 DEF Matches
    <3>2. CASE ~(Mounted(c) /\ s = c.sec)
      BY <1>4, <2>1, <3>2 DEF DeskInv, WizardOK
    <3>. QED
      BY <3>1, <3>2
  <2>5. ASSUME NEW e \in calls', Mounted(e)'
        PROVE  /\ e.phase = "create" => section'[e.sec].id = 0
               /\ e.phase = "saved" => e.id \in made[e.sec] /\ section'[e.sec].id = 0
               /\ e.phase \notin {"create", "saved"} => e.id = section'[e.sec].id /\ e.id # 0
               /\ e.phase = "tested" => Matches(e.id, e.result)
    BY <1>4, <1>7, <2>1, <2>5 DEF DeskInv, WizardOK, Mounted
  <2>6. ASSUME NEW s \in Sections
        PROVE  Cardinality(made[s]) <= lost' + (IF Spare(s)' THEN 0 ELSE 1)
    <3>1. Cardinality(made[s]) \in Nat /\ lost \in Nat
          /\ Cardinality(made[s]) <= lost + (IF Spare(s) THEN 0 ELSE 1)
      BY <2>1, MadeFinite DEF DeskInv, WizardOK, DeskTypes
    <3>2. CASE lost < lost'
      BY <3>1, <3>2
    <3>3. CASE ~(lost < lost')
      <4>1. lost' = lost
        BY <3>1, <3>3
      <4>2. CASE Mounted(c) /\ s = c.sec
        <5>1. section[s].id # 0
          BY <2>1, <3>3, <4>2 DEF DeskInv, WizardOK
        <5>2. ~Spare(s)'
          BY <1>4, <5>1 DEF Spare
        <5>. QED
          BY <3>1, <4>1, <5>2
      <4>3. CASE ~(Mounted(c) /\ s = c.sec)
        <5>1. Spare(s)' = Spare(s)
          BY <1>4, <4>3 DEF Spare, Mounted
        <5>. QED
          BY <3>1, <4>1, <5>1
      <4>. QED
        BY <4>2, <4>3
    <3>. QED
      BY <3>2, <3>3
  <2>7. \A s \in Sections : Matches(section[s].id, section[s].result)'
    BY <2>2, <2>4
  <2>8. \A s \in Sections : section'[s].id \in made[s] \cup {0}
    BY <1>4, <2>1 DEF DeskInv, WizardOK
  <2>. QED
    BY <1>1, <2>1, <2>2, <2>5, <2>6, <2>7, <2>8 DEF DeskInv, WizardOK
<1>11. PageOK'
  <2>1. section'["odoo"].id = section["odoo"].id
    BY <1>4 DEF Sections
  <2>2. lost' = 0 => lost = 0 /\ ~(lost < lost')
    BY DEF DeskInv, DeskTypes
  <2>3. (\E e \in calls : Mounted(e) /\ e.sec = "odoo") =>
            Mounted(c) \/ \E e \in calls' : Mounted(e)' /\ e.sec = "odoo"
    BY DEF Mounted
  <2>. QED
    BY <2>1, <2>2, <2>3 DEF DeskInv, PageOK, Brings, Idle, Asked
<1>. QED
  BY <1>5, <1>6, <1>8, <1>9, <1>10, <1>11 DEF DeskInv

LEMMA ChainDesk ==
    ASSUME DeskInv, NEW c \in calls, Chain(c) \/ RequestLost(c), UNCHANGED <<wizardVars, listVars>>
    PROVE  DeskInv'
<1>1. c \in CallType /\ c.config \in Configs[c.sec] /\ c.id \in Nat /\ c.sec \in Sections
  BY DEF DeskInv, DeskTypes, CallType
<1>2. "failed" \in Results /\ "none" \in Results
  BY DEF Results
<1>3. CASE ServerCreates(c)
  BY <1>3, CreateDesk
<1>4. CASE ServerUpdates(c)
  <2>. DEFINE d == [c EXCEPT !.phase = "updated"]
              line == [conns[c.id] EXCEPT !.holds = c.sec, !.config = c.config]
  <2>1. /\ c.phase = "update" /\ c.page = "/connections" /\ calls' = (calls \ {c}) \cup {d}
        /\ UNCHANGED <<visit, section, presses, lost, made>>
    BY <1>4 DEF ServerUpdates
  <2>2. conns' = [conns EXCEPT ![c.id] = line]
    BY <1>4 DEF ServerUpdates
  <2>3. /\ d \in CallType /\ d.visit = c.visit /\ d.page = c.page /\ d.sec = c.sec
        /\ d.config = c.config /\ d.id = c.id /\ d.phase = "updated"
    BY <1>1 DEF CallType
  <2>4. c.id \in Ids => /\ line \in RowType /\ line.config \in Configs[line.holds]
                        /\ line.platform = conns[c.id].platform
    <3>. SUFFICES ASSUME c.id \in Ids
                  PROVE  /\ line \in RowType /\ line.config \in Configs[line.holds]
                         /\ line.platform = conns[c.id].platform
      OBVIOUS
    <3>1. conns[c.id] \in RowType
      BY DEF DeskInv, DeskTypes, Ids
    <3>2. c.config \in Credentials
      BY <1>1 DEF Credentials
    <3>. QED
      BY <1>1, <3>1, <3>2 DEF RowType
  <2>5. ~(OnWizard /\ Mounted(c))
    BY <2>1 DEF DeskInv, CallsOK, OnWizard
  <2>. HIDE DEF d, line
  <2>. QED
    BY <2>1, <2>2, <2>3, <2>4, <2>5, RowDesk
<1>5. CASE Saved(c)
  BY <1>5, SavedDesk
<1>6. CASE ServerTests(c)
  <2>. DEFINE d(r) == [c EXCEPT !.phase = "tested", !.result = r]
              line(r) == Tested(conns[c.id], r)
  <2>1. PICK r \in TestResults(conns[c.id]) :
            conns' = [conns EXCEPT ![c.id] = line(r)] /\ calls' = (calls \ {c}) \cup {d(r)}
    BY <1>6 DEF ServerTests
  <2>2. c.phase = "test" /\ UNCHANGED <<visit, section, presses, lost, made>>
    BY <1>6 DEF ServerTests
  <2>3. c.id \in Ids => conns[c.id] \in RowType
                        /\ conns[c.id].config \in Configs[conns[c.id].holds]
    BY DEF DeskInv, DeskTypes, Ids
  <2>4. c.id \in Ids => /\ line(r) \in RowType /\ line(r).config \in Configs[line(r).holds]
                        /\ line(r).platform = conns[c.id].platform
                        /\ line(r).holds = conns[c.id].holds /\ line(r).config = conns[c.id].config
                        /\ line(r).status = IF r = "failed" THEN "DEGRADED" ELSE "ACTIVE"
    BY <2>3 DEF Tested, RowType
  <2>5. r \in Results
    <3>1. c.id \in Ids
      BY <1>1, <2>2, TableFacts DEF DeskInv, CallsOK, Ids
    <3>2. conns[c.id].holds \in Sections
      BY <2>3, <3>1 DEF RowType
    <3>. QED
      BY <2>1, <2>3, <3>1, <3>2 DEF TestResults, Results
  <2>6. /\ d(r) \in CallType /\ d(r).visit = c.visit /\ d(r).page = c.page /\ d(r).sec = c.sec
        /\ d(r).config = c.config /\ d(r).id = c.id /\ d(r).phase = "tested" /\ d(r).result = r
    BY <1>1, <2>5 DEF CallType
  <2>7. OnWizard /\ Mounted(c) /\ r \notin {"none", "failed", Unknown} =>
            line(r).status = "ACTIVE" /\ CurrencyOf[line(r).holds][line(r).config] = r
    <3>1. OnWizard /\ Mounted(c) => c.id \in Ids
      BY <1>1, <2>2 DEF DeskInv, DeskTypes, WizardOK
    <3>. QED
      BY <2>1, <2>4, <3>1 DEF TestResults
  <2>. HIDE DEF d, line
  <2>. QED
    BY <2>1, <2>2, <2>4, <2>6, <2>7, RowDesk
<1>7. CASE MethodNotAllowed(c)
  <2>1. /\ c.phase = "update" /\ c.page = "/setup" /\ calls' = calls \ {c}
        /\ SetSection(c, [section[c.sec] EXCEPT !.busy = FALSE, !.result = "failed"])
        /\ UNCHANGED <<conns, visit, presses, made, lost, cache, opened, fetch, missed>>
    BY <1>7 DEF MethodNotAllowed, Abandon, listVars
  <2>2. ~(opened = visit /\ Mounted(c)) /\ lost \in Nat /\ lost <= lost
    BY <2>1 DEF DeskInv, DeskTypes, CallsOK, OpenedOK
  <2>. QED
    BY <1>2, <2>1, <2>2, EndsDesk
<1>8. CASE RequestLost(c)
  <2>1. /\ lost' = lost + 1 /\ calls' = calls \ {c}
        /\ SetSection(c, [section[c.sec] EXCEPT !.busy = FALSE, !.result = "failed"])
        /\ UNCHANGED <<conns, visit, presses, made, cache, opened, fetch, missed>>
    BY <1>8 DEF RequestLost, Abandon, listVars
  <2>2. lost' \in Nat /\ lost < lost' /\ lost <= lost'
    BY <2>1 DEF DeskInv, DeskTypes
  <2>. QED
    BY <1>2, <2>1, <2>2, EndsDesk
<1>. QED
  BY <1>3, <1>4, <1>5, <1>6, <1>7, <1>8 DEF Chain

LEMMA DeskUser ==
    ASSUME DeskInv, User, UNCHANGED listVars
    PROVE  DeskInv'
<1>1. ASSUME NEW p \in Paths, Navigate(p)  PROVE DeskInv'
  BY <1>1, MountDesk DEF Navigate
<1>2. ASSUME NEW s \in Sections, NEW g \in Configs[s], OnWizard,
             SaveAndTest("/setup", s, g), UNCHANGED wizardVars
      PROVE  DeskInv'
  <2>1. path = "/setup"
    BY <1>2 DEF OnWizard
  <2>. QED
    BY <1>2, <2>1, PressDesk
<1>3. CASE GoNext \/ GoBack \/ StepFirstJob \/ StepComplete
  <2>1. /\ UNCHANGED <<conns, visit, section, calls, made, path, opened, missed, cache, fetch,
                       lost, checked>>
        /\ presses' = presses \/ (presses < MaxPresses /\ presses' = presses + 1)
    BY <1>3 DEF GoNext, GoBack, StepFirstJob, StepComplete, Press, tableVars, listVars
  <2>2. presses' \in Nat /\ presses <= presses' /\ presses' <= MaxPresses
        /\ lost' \in Nat /\ lost <= lost'
    BY <2>1, Bounds DEF DeskInv, DeskTypes, RowsPaidFor
  <2>. QED
    BY <2>1, <2>2, IdleDesk
<1>4. ASSUME NEW g \in Configs["odoo"], StepOdoo(g)  PROVE DeskInv'
  BY <1>2, <1>4 DEF StepOdoo, Sections
<1>5. ASSUME NEW g \in Configs["woocommerce"], StepWooCommerce(g)  PROVE DeskInv'
  BY <1>2, <1>5 DEF StepWooCommerce, Sections
<1>. QED
  BY <1>1, <1>3, <1>4, <1>5 DEF User

LEMMA DeskRequest ==
    ASSUME DeskInv, NEW r \in reqs, Requests(r) \/ CheckFails(r) \/ StepFails(r),
           UNCHANGED listVars
    PROVE  DeskInv'
<1>1. CASE \/ Redirect(r) \/ (Completed(r) /\ path # "/")
  <2>1. PICK p \in Paths : Mount(p, reqs \ {r})
    BY <1>1 DEF Redirect, Completed, Paths, Excluded
  <2>2. UNCHANGED <<conns, calls, presses, lost>>
    BY <1>1 DEF Redirect, Completed
  <2>. QED
    BY <2>1, <2>2, MountDesk
<1>2. CASE ~(\/ Redirect(r) \/ (Completed(r) /\ path # "/"))
  <2>1. /\ UNCHANGED <<conns, visit, section, calls, made, path, opened, missed, cache, fetch,
                       presses>>
        /\ lost' = lost \/ lost' = lost + 1
        /\ checked => checked'
    <3>1. UNCHANGED <<opened, missed, cache, fetch>>
      BY DEF listVars
    <3>2. CASE ServerStatus(r)
      BY <3>1, <3>2 DEF ServerStatus, tableVars
    <3>6. CASE CheckPasses(r)
      BY <3>1, <3>6 DEF CheckPasses, tableVars
    <3>7. CASE CheckIgnored(r)
      BY <3>1, <3>7 DEF CheckIgnored, tableVars
    <3>3. CASE ServerFirstJob(r) \/ FirstJobAnswered(r) \/ ServerComplete(r)
      BY <3>1, <3>3 DEF ServerFirstJob, FirstJobAnswered, ServerComplete, tableVars
    <3>4. CASE Completed(r) /\ path = "/"
      BY <3>1, <3>4 DEF Completed, tableVars
    <3>5. CASE CheckFails(r) \/ StepFails(r)
      BY <3>1, <3>5 DEF CheckFails, StepFails
    <3>. QED
      BY <1>2, <3>2, <3>3, <3>4, <3>5, <3>6, <3>7 DEF Requests
  <2>2. presses' \in Nat /\ presses <= presses' /\ presses' <= MaxPresses
        /\ lost' \in Nat /\ lost <= lost'
    BY <2>1, Bounds DEF DeskInv, DeskTypes, RowsPaidFor
  <2>. QED
    BY <2>1, <2>2, IdleDesk
<1>. QED
  BY <1>1, <1>2

LEMMA DeskStep ==
    ASSUME DeskInv, [Next]_vars
    PROVE  DeskInv'
<1>0. /\ {presses, lost} \subseteq Nat /\ presses <= presses /\ lost <= lost
      /\ presses <= MaxPresses
  BY Bounds DEF DeskInv, DeskTypes, RowsPaidFor
<1>1. ASSUME NEW c \in calls, TestAnswered(c)  PROVE DeskInv'
  <2>1. /\ c.phase = "tested" /\ calls' = calls \ {c} /\ c.result \in Results
        /\ SetSection(c, [section[c.sec] EXCEPT !.busy = FALSE, !.result = c.result])
        /\ UNCHANGED <<conns, visit, presses, made, lost, wizardVars, cache, opened>>
    BY <1>1 DEF TestAnswered, Answered, Invalidate, listVars, DeskInv, DeskTypes, CallType
  <2>2. fetch' \in {fetch, Asked} /\ (missed => missed')
    BY <1>1 DEF TestAnswered, Invalidate, listVars
  <2>3. opened = visit /\ Mounted(c) => missed' \/ fetch' = Asked
    BY <1>1 DEF TestAnswered, Invalidate, DeskInv, OpenedOK, CallsOK, OnPage
  <2>. QED
    BY <1>0, <2>1, <2>2, <2>3, EndsDesk
<1>2. ASSUME NEW s \in Sections, NEW g \in Configs[s], Test(s, g)  PROVE DeskInv'
  <2>1. path = "/connections" /\ opened = visit
    BY <1>2 DEF Test, Offered, OnPage
  <2>. QED
    BY <1>2, <2>1, PressDesk DEF Test
<1>3. CASE ServerLists \/ ListFails \/ UNCHANGED vars
  <2>1. /\ UNCHANGED <<conns, visit, section, calls, made, path, opened, missed, cache, presses,
                       checked>>
        /\ \/ fetch' \in {fetch, Len(conns)} /\ lost' = lost
           \/ fetch' = Idle /\ lost' = lost + 1
    BY <1>3 DEF ServerLists, ListFails, vars, tableVars, wizardVars, listVars
  <2>2. /\ presses' \in Nat /\ presses <= presses' /\ presses' <= MaxPresses
        /\ lost' \in Nat /\ lost <= lost'
        /\ fetch' \in {fetch, Len(conns)} \/ (fetch' = Idle /\ lost' # 0)
    BY <1>0, <2>1
  <2>. QED
    BY <2>1, <2>2, IdleDesk
<1>. QED
  BY <1>1, <1>2, <1>3, DeskUser, DeskRequest, ChainDesk, OpenDesk, ArrivesDesk DEF Next

LEMMA DeskAlways == Spec => []DeskInv
<1>1. DeskInv /\ [Next]_vars => DeskInv'
  BY DeskStep
<1>. QED
  BY DeskStarts, <1>1, PTL DEF Spec

\* setup/page.tsx: what the currency step says is said of rows that are stored
\* and usable, although the results it compares are those of two handlers that
\* run at the same time, beside handlers of pages already left.
THEOREM CurrencyOfStoredHolds == Spec => []CurrencyOfStored
<1>1. ASSUME DeskInv  PROVE CurrencyOfStored
  <2>. SUFFICES ASSUME OnWizard, StepCurrency # "not detected",
                       NEW s \in {"odoo", "woocommerce"}
                PROVE  LET line == conns[section[s].id]
                       IN  /\ section[s].id \in Ids
                           /\ line.status = "ACTIVE"
                           /\ CurrencyOf[line.holds][line.config] = section[s].result
    BY DEF CurrencyOfStored
  <2>1. Detected("odoo") /\ Detected("woocommerce")
    BY DEF StepCurrency
  <2>2. section[s].result \notin {"none", "failed", Unknown}
    BY <2>1 DEF Detected
  <2>3. Matches(section[s].id, section[s].result)
    BY <1>1 DEF DeskInv, WizardOK, Sections
  <2>. QED
    BY <2>2, <2>3 DEF Matches
<1>. QED
  BY <1>1, DeskAlways, PTL

\* setup/page.tsx: a section of the wizard gets a second connection in one
\* visit only when an answer was lost.
THEOREM OneConnectionPerVisitHolds == Spec => []OneConnectionPerVisit
<1>1. ASSUME DeskInv  PROVE OneConnectionPerVisit
  <2>1. lost \in Nat /\ \A s \in Sections : Cardinality(made[s]) \in Nat
    BY <1>1, MadeFinite DEF DeskInv, DeskTypes
  <2>. QED
    BY <1>1, <2>1 DEF DeskInv, WizardOK, OneConnectionPerVisit
<1>. QED
  BY <1>1, DeskAlways, PTL

\* connections/page.tsx: a list that was on its way before a connection was
\* saved does not put an older row in the place of the new one for good.
THEOREM KeepsNewRowHolds == Spec => []KeepsNewRow
<1>1. ASSUME DeskInv  PROVE KeepsNewRow
  <2>. SUFFICES ASSUME OnPage, Quiet, NEW i \in made["odoo"]
                PROVE  section["odoo"].id >= i
    BY DEF KeepsNewRow
  <2>1. fetch = Idle /\ calls = {} /\ lost = 0 /\ ~missed /\ opened = visit
    BY DEF Quiet, OnPage
  <2>2. fetch # Asked /\ fetch \notin 0..Len(conns)
    BY <1>1, <2>1, TableFacts DEF DeskInv
  <2>3. i <= section["odoo"].id
    BY <1>1, <2>1, <2>2 DEF DeskInv, PageOK, Brings
  <2>4. i \in Nat /\ section["odoo"].id \in Nat
    BY <1>1, TableFacts DEF DeskInv, DeskTypes, Ids, FormType, Sections
  <2>. QED
    BY <2>3, <2>4
<1>. QED
  BY <1>1, DeskAlways, PTL

-----------------------------------------------------------------------------
(* ConnectionHealth, for any connections, any number of overlapping checks   *)
(* and requests, and any number of events.                                   *)

(***************************************************************************)
(* OffStaysOff is not inductive: a check that holds a connection would     *)
(* write over the switch. What saves it is that every check which holds a  *)
(* connection that is off knows so (Informed): it has begun before the     *)
(* switch, since a check that begins later does not list the connection.   *)
(***************************************************************************)
CheckOK(j) ==
    /\ DOMAIN j = {"phase", "todo", "loaded", "sets", "redis", "conn", "ok", "since"}
    /\ j.phase \in {"idle", "loop", "probed"}
    /\ j.todo \subseteq DOMAIN j.sets
    /\ j.conn \subseteq j.todo
    /\ DOMAIN j.sets = DOMAIN j.loaded
    /\ \A c \in DOMAIN j.sets : c \in Conns /\ j.loaded[c] \in Watched /\ j.sets[c] \in Watched
    /\ j.since \subseteq Conns

ReqOK(q) ==
    /\ DOMAIN q = {"phase", "kind", "conn", "loaded", "value"}
    /\ q.phase \in {"idle", "wait", "write"}
    /\ q.value \in Statuses \cup {"none"}
    /\ q.phase = "write" => q.value \in Statuses
    /\ q.conn \subseteq Conns

\* What the requests and checks share.
TableOK ==
    /\ row \in [Conns -> Statuses \cup {Gone}]
    /\ readable \subseteq Conns /\ up \subseteq Conns /\ off \subseteq Conns
    /\ fails \in [Conns -> 0..Threshold]
    /\ events \in 0..MaxEvents

ChecksOK == check = [k \in Checks |-> check[k]] /\ \A k \in Checks : CheckOK(check[k])
HandlersOK == req = [r \in ApiRequests |-> req[r]] /\ \A r \in ApiRequests : ReqOK(req[r])

Informed == \A k \in Checks : DOMAIN check[k].sets \cap off \subseteq check[k].since

HealthInv == TableOK /\ ChecksOK /\ HandlersOK /\ OffStaysOff /\ Informed

-----------------------------------------------------------------------------
(* The pieces a step is made of *)

LEMMA RestingOK == CheckOK(Resting) /\ DOMAIN Resting.sets = {}
BY DEF CheckOK, Resting, NoRows

LEMMA NoRequestOK == ReqOK(NoRequest)
BY DEF ReqOK, NoRequest, Statuses

LEMMA EventStep ==
    ASSUME TableOK, Event
    PROVE  events' \in 0..MaxEvents
BY HealthAssumption DEF TableOK, Event

\* One check moves on to j, and nobody is switched on or off.
LEMMA CheckMoves ==
    ASSUME HealthInv, NEW k \in Checks, NEW j, Becomes(k, j), CheckOK(j),
           DOMAIN j.sets \cap off \subseteq j.since, UNCHANGED <<row, req, off>>, TableOK'
    PROVE  HealthInv'
<1>1. ChecksOK'
  BY DEF HealthInv, ChecksOK, Becomes
<1>2. Informed'
  BY DEF HealthInv, ChecksOK, Informed, Becomes
<1>. QED
  BY <1>1, <1>2 DEF HealthInv, HandlersOK, OffStaysOff

\* One request moves on to q.
LEMMA RequestMoves ==
    ASSUME HealthInv, NEW r \in ApiRequests, NEW q, req' = [req EXCEPT ![r] = q], ReqOK(q),
           UNCHANGED <<row, check, off>>, TableOK'
    PROVE  HealthInv'
<1>1. HandlersOK'
  BY DEF HealthInv, HandlersOK
<1>. QED
  BY <1>1 DEF HealthInv, ChecksOK, OffStaysOff, Informed

-----------------------------------------------------------------------------
(* The checks *)

LEMMA BeginStep ==
    ASSUME HealthInv, NEW k \in Checks, Begin(k)
    PROVE  HealthInv'
<1>. DEFINE listed == {c \in Conns : row[c] \in Watched}
            seen == [c \in listed |-> row[c]]
<1>1. PICK redis \in BOOLEAN :
        /\ IF redis THEN UNCHANGED events ELSE Event
        /\ Becomes(k, [Resting EXCEPT !.phase = "loop", !.todo = listed,
                                      !.loaded = seen, !.sets = seen, !.redis = redis])
  BY DEF Begin
<1>. DEFINE j == [Resting EXCEPT !.phase = "loop", !.todo = listed,
                                 !.loaded = seen, !.sets = seen, !.redis = redis]
<1>2. TableOK'
  BY <1>1, EventStep DEF HealthInv, TableOK, Begin
<1>3. CheckOK(j)
  BY DEF CheckOK, Resting
<1>4. DOMAIN j.sets \cap off = {}
  BY DEF HealthInv, OffStaysOff, Watched, Resting, Gone
<1>. QED
  BY <1>1, <1>2, <1>3, <1>4, CheckMoves DEF Begin

LEMMA ProbeStep ==
    ASSUME HealthInv, NEW k \in Checks, Probe(k)
    PROVE  HealthInv'
<1>1. PICK c \in check[k].todo :
        Becomes(k, [check[k] EXCEPT !.phase = "probed", !.conn = {c},
                                    !.ok = c \in up /\ row[c] # Gone])
  BY DEF Probe
<1>. DEFINE j == [check[k] EXCEPT !.phase = "probed", !.conn = {c},
                                  !.ok = c \in up /\ row[c] # Gone]
<1>2. CheckOK(check[k])
  BY DEF HealthInv, ChecksOK
<1>3. CheckOK(j) /\ j.sets = check[k].sets /\ j.since = check[k].since
  BY <1>2 DEF CheckOK
<1>4. TableOK'
  BY DEF HealthInv, TableOK, Probe
<1>. QED
  BY <1>1, <1>3, <1>4, CheckMoves DEF Probe, HealthInv, Informed

LEMMA CountStep ==
    ASSUME HealthInv, NEW k \in Checks, Count(k)
    PROVE  HealthInv'
<1>. DEFINE b == check[k]
<1>1. PICK c \in b.conn :
        /\ fails' = [fails EXCEPT ![c] = Counted(b.ok, b.redis, @)]
        /\ Becomes(k, [b EXCEPT !.phase = "loop", !.todo = @ \ {c}, !.conn = {}, !.ok = FALSE,
                                !.sets[c] = Judged(b.ok, b.redis, fails[c], @)])
  BY DEF Count
<1>. DEFINE j == [b EXCEPT !.phase = "loop", !.todo = @ \ {c}, !.conn = {}, !.ok = FALSE,
                           !.sets[c] = Judged(b.ok, b.redis, fails[c], @)]
<1>2. CheckOK(b)
  BY DEF HealthInv, ChecksOK
<1>3. c \in DOMAIN b.sets /\ c \in Conns /\ fails[c] \in 0..Threshold
  BY <1>2 DEF CheckOK, HealthInv, TableOK
<1>4. Judged(b.ok, b.redis, fails[c], b.sets[c]) \in Watched
  BY <1>2, <1>3 DEF Judged, CheckOK, Watched
<1>5. /\ DOMAIN j = DOMAIN b
      /\ j.phase = "loop" /\ j.todo = b.todo \ {c} /\ j.conn = {}
      /\ j.loaded = b.loaded /\ j.since = b.since
      /\ j.sets = [b.sets EXCEPT ![c] = Judged(b.ok, b.redis, fails[c], b.sets[c])]
  BY <1>2 DEF CheckOK
<1>6. CheckOK(j)
  BY <1>2, <1>3, <1>4, <1>5 DEF CheckOK
<1>7. DOMAIN j.sets \cap off \subseteq j.since
  BY <1>5 DEF HealthInv, Informed
<1>8. TableOK'
  <2>1. Counted(b.ok, b.redis, fails[c]) \in 0..Threshold
    BY <1>3 DEF Counted, UpTo, Threshold
  <2>. QED
    BY <1>1, <1>3, <2>1 DEF HealthInv, TableOK, Count
<1>. QED
  BY <1>1, <1>6, <1>7, <1>8, CheckMoves DEF Count

LEMMA RestStep ==
    ASSUME HealthInv, NEW k \in Checks, Becomes(k, Resting), UNCHANGED <<row, req, off>>, TableOK'
    PROVE  HealthInv'
BY RestingOK, CheckMoves

LEMMA CommitStep ==
    ASSUME HealthInv, NEW k \in Checks, Commit(k)
    PROVE  HealthInv'
<1>. DEFINE write == {c \in Changed(k) : row[c] # Gone}
<1>1. CASE UNCHANGED <<row, off>>
  BY <1>1, RestStep DEF Commit, HealthInv, TableOK
<1>2. CASE /\ row' = [c \in Conns |-> IF c \in write THEN check[k].sets[c] ELSE row[c]]
           /\ off' = off \ (write \cap check[k].since)
  <2>1. CheckOK(check[k])
    BY DEF HealthInv, ChecksOK
  <2>2. write \subseteq DOMAIN check[k].sets
    BY DEF Changed
  <2>3. TableOK'
    BY <1>2, <2>1, <2>2 DEF Commit, HealthInv, TableOK, CheckOK, Watched, Statuses
  <2>4. off' \subseteq off \ write
    BY <1>2, <2>2 DEF HealthInv, Informed
  <2>5. OffStaysOff'
    BY <1>2, <2>4 DEF HealthInv, TableOK, OffStaysOff
  <2>6. ChecksOK'
    BY RestingOK DEF HealthInv, ChecksOK, Commit, Becomes
  <2>7. Informed'
    BY <2>4, RestingOK DEF HealthInv, ChecksOK, Informed, Commit, Becomes
  <2>. QED
    BY <2>3, <2>5, <2>6, <2>7 DEF HealthInv, HandlersOK, Commit
<1>. QED
  BY <1>1, <1>2 DEF Commit

-----------------------------------------------------------------------------
(* The requests *)

LEMMA ReceiveStep ==
    ASSUME HealthInv, NEW r \in ApiRequests, NEW q, Receive(r, q), ReqOK(q)
    PROVE  HealthInv'
<1>1. TableOK'
  BY EventStep DEF HealthInv, TableOK, Receive
<1>. QED
  BY <1>1, RequestMoves DEF Receive

LEMMA AnswerStep ==
    ASSUME HealthInv, NEW r \in ApiRequests, Answer(r)
    PROVE  HealthInv'
<1>. DEFINE value == IF req[r].conn \subseteq up THEN "ACTIVE" ELSE "DEGRADED"
            q == [req[r] EXCEPT !.phase = "write", !.value = value]
<1>1. ReqOK(req[r])
  BY DEF HealthInv, HandlersOK
<1>2. req' = [req EXCEPT ![r] = q]
  BY <1>1 DEF Answer, ReqOK, HealthInv, HandlersOK
<1>3. ReqOK(q)
  BY <1>1 DEF ReqOK, Statuses
<1>4. TableOK'
  BY DEF HealthInv, TableOK, Answer
<1>. QED
  BY <1>2, <1>3, <1>4, RequestMoves DEF Answer

LEMMA WriteStep ==
    ASSUME HealthInv, NEW r \in ApiRequests, Write(r)
    PROVE  HealthInv'
<1>. DEFINE v == req[r].value
            writes(c) == row[c] # Gone /\ v # req[r].loaded
            switched(c) == writes(c) /\ v = "INACTIVE"
<1>1. PICK c \in req[r].conn :
        /\ row' = [row EXCEPT ![c] = IF writes(c) THEN v ELSE @]
        /\ off' = IF switched(c) THEN off \cup {c} ELSE IF writes(c) THEN off \ {c} ELSE off
        /\ check' = [k \in Checks |->
                        IF switched(c) /\ check[k] # Resting
                        THEN [check[k] EXCEPT !.since = @ \cup {c}]
                        ELSE check[k]]
  BY DEF Write
<1>2. ReqOK(req[r]) /\ c \in Conns /\ v \in Statuses
  BY DEF HealthInv, HandlersOK, ReqOK, Write
<1>3. TableOK'
  BY <1>1, <1>2 DEF HealthInv, TableOK, Write
<1>4. HandlersOK'
  BY NoRequestOK DEF HealthInv, HandlersOK, Write
<1>5. OffStaysOff'
  BY <1>1, <1>2 DEF HealthInv, TableOK, OffStaysOff, Statuses
<1>6. ASSUME NEW k \in Checks
      PROVE  CheckOK(check'[k]) /\ DOMAIN check'[k].sets \cap off' \subseteq check'[k].since
  <2>1. CheckOK(check[k]) /\ DOMAIN check[k].sets \cap off \subseteq check[k].since
    BY DEF HealthInv, ChecksOK, Informed
  <2>2. CASE switched(c) /\ check[k] # Resting
    <3>. DEFINE j == [check[k] EXCEPT !.since = @ \cup {c}]
    <3>1. check'[k] = j
      BY <1>1, <2>2
    <3>2. CheckOK(j) /\ j.sets = check[k].sets /\ j.since = check[k].since \cup {c}
      BY <1>2, <2>1 DEF CheckOK
    <3>3. off' = off \cup {c}
      BY <1>1, <2>2
    <3>. QED
      BY <2>1, <3>1, <3>2, <3>3
  <2>3. CASE switched(c) /\ check[k] = Resting
    <3>1. check'[k] = Resting
      BY <1>1, <2>3
    <3>. QED
      BY <3>1, RestingOK
  <2>4. CASE ~switched(c)
    <3>1. check'[k] = check[k] /\ off' \subseteq off
      BY <1>1, <2>4
    <3>. QED
      BY <2>1, <3>1
  <2>. QED
    BY <2>2, <2>3, <2>4
<1>7. ChecksOK'
  BY <1>1, <1>6 DEF ChecksOK
<1>8. Informed'
  BY <1>6 DEF Informed
<1>. QED
  BY <1>3, <1>4, <1>5, <1>7, <1>8 DEF HealthInv

-----------------------------------------------------------------------------

LEMMA InitInv == HealthInit => HealthInv
BY RestingOK, NoRequestOK, HealthAssumption
   DEF HealthInit, HealthInv, TableOK, ChecksOK, HandlersOK, OffStaysOff, Informed, Statuses, Threshold

LEMMA NextInv == HealthInv /\ [HealthNext]_healthVars => HealthInv'
<1>. SUFFICES ASSUME HealthInv, [HealthNext]_healthVars
              PROVE  HealthInv'
  OBVIOUS
<1>1. ASSUME NEW k \in Checks, Begin(k) \/ Step(k) \/ Die(k)
      PROVE  HealthInv'
  <2>1. CASE Unreadable(k)
    BY <2>1, RestStep DEF Unreadable, HealthInv, TableOK
  <2>2. CASE Die(k)
    BY <2>2, RestStep, EventStep DEF Die, HealthInv, TableOK
  <2>. QED
    BY <1>1, <2>1, <2>2, BeginStep, ProbeStep, CountStep, CommitStep DEF Step
<1>2. ASSUME NEW r \in ApiRequests, NEW c \in Conns, TestConnection(r, c)
      PROVE  HealthInv'
  <2>. DEFINE q == [NoRequest EXCEPT !.phase = "wait", !.kind = "test", !.conn = {c},
                                     !.loaded = row[c]]
  <2>1. ReqOK(q)
    BY DEF ReqOK, NoRequest, Statuses
  <2>. QED
    BY <1>2, <2>1, ReceiveStep DEF TestConnection
<1>3. ASSUME NEW r \in ApiRequests, NEW c \in Conns, NEW value \in {"ACTIVE", "INACTIVE"},
             Switch(r, c, value)
      PROVE  HealthInv'
  <2>. DEFINE q == [NoRequest EXCEPT !.phase = "write", !.kind = "switch", !.conn = {c},
                                     !.loaded = row[c], !.value = value]
  <2>1. ReqOK(q)
    BY DEF ReqOK, NoRequest, Statuses
  <2>. QED
    BY <1>3, <2>1, ReceiveStep DEF Switch
<1>4. ASSUME NEW r \in ApiRequests, Answer(r) \/ Write(r)
      PROVE  HealthInv'
  BY <1>4, AnswerStep, WriteStep
<1>5. ASSUME NEW c \in Conns, Delete(c)
      PROVE  HealthInv'
  <2>1. TableOK'
    BY <1>5, EventStep DEF HealthInv, TableOK, Delete
  <2>. QED
    BY <1>5, <2>1 DEF HealthInv, TableOK, ChecksOK, HandlersOK, OffStaysOff, Informed, Delete
<1>6. ASSUME NEW c \in Conns, Flip(c)
      PROVE  HealthInv'
  <2>1. TableOK'
    BY <1>6, EventStep DEF HealthInv, TableOK, Flip
  <2>. QED
    BY <1>6, <2>1 DEF HealthInv, ChecksOK, HandlersOK, OffStaysOff, Informed, Flip
<1>7. CASE UNCHANGED healthVars
  BY <1>7 DEF healthVars, HealthInv, TableOK, ChecksOK, HandlersOK, OffStaysOff, Informed
<1>. QED
  BY <1>1, <1>2, <1>3, <1>4, <1>5, <1>6, <1>7 DEF HealthNext

LEMMA AlwaysHealthInv == HealthSpec => []HealthInv
BY InitInv, NextInv, PTL DEF HealthSpec

\* Every variable keeps its type: a check holds rows that were active or
\* degraded and makes them nothing else (health.py:287-355).
THEOREM HealthTypes == HealthSpec => []TypeOK
<1>1. HealthInv => TypeOK
  BY DEF HealthInv, TableOK, ChecksOK, CheckOK, HandlersOK, ReqOK, TypeOK
<1>. QED
  BY <1>1, AlwaysHealthInv, PTL

\* No check and no request but a test or a switch takes up a connection that
\* its user has switched off, whichever overlap; only a check that had loaded
\* it before may (health.py:287-292, 340-357).
THEOREM OffStaysOffHolds == HealthSpec => []OffStaysOff
<1>1. HealthInv => OffStaysOff
  BY DEF HealthInv
<1>. QED
  BY <1>1, AlwaysHealthInv, PTL
=============================================================================
