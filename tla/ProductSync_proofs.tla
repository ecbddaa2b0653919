------------------------ MODULE ProductSync_proofs -------------------------
(* Theorems about ProductSync, for every set of runs and catalogue, every   *)
(* number of edits and every fault budget.                                  *)
EXTENDS ProductSync, FiniteSetTheorems, TLAPS

(***************************************************************************)
(* The inductive invariant adds to TypeOK and HashWasWritten what a run    *)
(* has in hand between the call of the store and the row that records it:  *)
(* the content it is about to record is one the store has received.        *)
(***************************************************************************)
InHand(w) ==
    /\ pc[w] = "variants" => item[w] \in Templates
    /\ pc[w] = "new" =>
          /\ product[w] \in Ids
          /\ item[w] \in Templates => product[w] = made[w]
          /\ <<made[w], plan[w][item[w]]>> \in written
    /\ pc[w] = "changed" =>
          <<Target(item[w], found[w]), plan[w][item[w]]>> \in written

RowsWritten ==
    \A r \in RowType :
        r \in mappings \/ (\E w \in Workers : r \in own[w]) =>
            <<Target(r.hash[1], r), r.hash[2]>> \in written

WrittenInv ==
    /\ TypeOK
    /\ \A w \in Workers : InHand(w)
    /\ RowsWritten

-----------------------------------------------------------------------------
(* The parts of a state *)

\* The database and the store.
StoreOK ==
    /\ variants \in [Templates -> SUBSET Variants]
    /\ sku \in [Items -> [Versions -> Skus \cup {NoSku}]]
    /\ invalid \subseteq Items \X Versions
    /\ odoo \in [Items -> Versions]
    /\ DOMAIN store \subseteq Ids
    /\ store \in [DOMAIN store -> Article]
    /\ mappings \subseteq RowType
    /\ nextId \in Ids
    /\ written \subseteq Ids \X Versions
    /\ edits \in 0..MaxEdits
    /\ restored \in BOOLEAN
    /\ overlapped \in BOOLEAN
    /\ spent \in [FaultKinds -> Nat]

\* The variables of one run.
RunOK(w) ==
    /\ own[w] \in SUBSET RowType
    /\ pc[w] \in Place
    /\ todo[w] \in SUBSET Items
    /\ plan[w] \in [Items -> Versions]
    /\ item[w] \in Items \cup {NoItem}
    /\ found[w] \in RowType \cup {NoRow}
    /\ product[w] \in Nat
    /\ made[w] \in Nat
    /\ pc[w] \in {"idle", "next"} <=> item[w] = NoItem
    /\ pc[w] = "new" <=> made[w] # 0
    /\ pc[w] = "changed" => found[w] # NoRow
    /\ InHand(w)

\* The runs, as functions of the worker.
Runs ==
    /\ own = [w \in Workers |-> own[w]]
    /\ pc = [w \in Workers |-> pc[w]]
    /\ todo = [w \in Workers |-> todo[w]]
    /\ plan = [w \in Workers |-> plan[w]]
    /\ item = [w \in Workers |-> item[w]]
    /\ found = [w \in Workers |-> found[w]]
    /\ product = [w \in Workers |-> product[w]]
    /\ made = [w \in Workers |-> made[w]]

LEMMA Parts ==
    WrittenInv <=> StoreOK /\ Runs /\ (\A w \in Workers : RunOK(w)) /\ RowsWritten
BY DEF WrittenInv, TypeOK, StoreOK, RunOK, Runs

\* What a step leaves to the other workers.
Untouched(w) ==
    /\ own'[w] = own[w]
    /\ pc'[w] = pc[w]
    /\ todo'[w] = todo[w]
    /\ plan'[w] = plan[w]
    /\ item'[w] = item[w]
    /\ found'[w] = found[w]
    /\ product'[w] = product[w]
    /\ made'[w] = made[w]

LEMMA UntouchedOK ==
    ASSUME NEW w \in Workers, RunOK(w), Untouched(w), written \subseteq written'
    PROVE  RunOK(w)'
BY DEF RunOK, Untouched, InHand, Target

\* A step of one run: what is left to show is the run's own part, the store's,
\* and the rows.
Effect(w) ==
    /\ StoreOK'
    /\ Runs'
    /\ RunOK(w)'
    /\ \A v \in Workers \ {w} : Untouched(v)
    /\ written \subseteq written'
    /\ RowsWritten'

LEMMA Assemble ==
    ASSUME WrittenInv, NEW w \in Workers, Effect(w)
    PROVE  WrittenInv'
<1>1. \A v \in Workers : RunOK(v)'
  BY Parts, UntouchedOK DEF Effect
<1>2. (StoreOK /\ Runs /\ (\A v \in Workers : RunOK(v)) /\ RowsWritten)'
  BY <1>1 DEF Effect
<1>. QED
  BY <1>2 DEF WrittenInv, TypeOK, StoreOK, RunOK, Runs

LEMMA SpendStep ==
    ASSUME spent \in [FaultKinds -> Nat], NEW kind \in FaultKinds, Spend(kind)
    PROVE  spent' \in [FaultKinds -> Nat]
BY DEF Spend

LEMMA NoRowIsNone == NoRow \notin RowType
BY ProductAssumption DEF NoRow, RowType, Items

\* Rows of a run that has not flushed anything more, and of mappings that have
\* not changed.
LEMMA SameRows ==
    ASSUME RowsWritten, UNCHANGED <<mappings, own>>, written \subseteq written'
    PROVE  RowsWritten'
BY DEF RowsWritten, Target

\* What a run looks up is a row.
LEMMA LookedUp ==
    ASSUME WrittenInv, NEW w \in Workers, NEW i
    PROVE  Rows(w, i) \subseteq RowType
BY DEF WrittenInv, TypeOK, Rows, View

\* The id of the article of a row is an id or, for a template's row taken for a
\* variant's, 0.
LEMMA TargetType ==
    ASSUME NEW i, NEW r \in RowType
    PROVE  Target(i, r) \in Nat
BY DEF Target, RowType, Ids

-----------------------------------------------------------------------------
(* The steps *)

\* What a run has read is some of the templates, or some of the variants.
LEMMA BeginReads ==
    ASSUME NEW w \in Workers, Begin(w)
    PROVE  \E page \in SUBSET Templates :
              /\ todo' = [todo EXCEPT ![w] = page]
              /\ plan' = [plan EXCEPT ![w] = [i \in Items |-> IF i \in page THEN odoo[i] ELSE 0]]
BY DEF Begin, Pages

LEMMA VariantsRead ==
    ASSUME NEW w \in Workers, FetchVariants(w)
    PROVE  \E page \in SUBSET variants[item[w]] :
              /\ todo' = [todo EXCEPT ![w] = @ \cup page]
              /\ plan' = [plan EXCEPT ![w] =
                             [i \in Items |-> IF i \in page THEN odoo[i] ELSE @[i]]]
BY DEF FetchVariants, Pages

LEMMA BeginStep ==
    ASSUME WrittenInv, NEW w \in Workers, Begin(w)
    PROVE  Effect(w)
<1>. PICK page \in SUBSET Templates :
        /\ todo' = [todo EXCEPT ![w] = page]
        /\ plan' = [plan EXCEPT ![w] = [i \in Items |-> IF i \in page THEN odoo[i] ELSE 0]]
  BY BeginReads
<1>1. StoreOK /\ Runs /\ RunOK(w) /\ RowsWritten
  BY Parts
<1>2. pc' = [pc EXCEPT ![w] = "next"]
  BY DEF Begin, Goto
<1>3. StoreOK'
  BY <1>1 DEF StoreOK, Begin, catalogue
<1>4. RowsWritten'
  BY <1>1, SameRows DEF Begin
<1>5. Runs'
  BY <1>1, <1>2 DEF Runs, Begin
<1>6. plan'[w] \in [Items -> Versions]
  BY <1>1, ProductAssumption DEF StoreOK, Begin, Runs, Versions, Items
<1>7. RunOK(w)'
  BY <1>1, <1>2, <1>6 DEF RunOK, Runs, Begin, Place, InHand, Items
<1>8. \A v \in Workers \ {w} : Untouched(v)
  BY <1>1, <1>2 DEF Runs, Begin, Untouched
<1>. QED
  BY <1>3, <1>4, <1>5, <1>7, <1>8 DEF Effect, Begin

\* The common part of the two ways a lookup ends.
LEMMA LookUpStep ==
    ASSUME WrittenInv, NEW w \in Workers, NEW i \in Items,
           NEW r \in Rows(w, i) \cup {NoRow}, LookUp(w, i, r)
    PROVE  /\ StoreOK'
           /\ RowsWritten'
           /\ todo'[w] \in SUBSET Items
           /\ product' \in [Workers -> Nat]
           /\ \A v \in Workers \ {w} :
                 todo'[v] = todo[v] /\ product'[v] = product[v]
           /\ r \in RowType \cup {NoRow}
<1>1. StoreOK /\ Runs /\ RunOK(w) /\ RowsWritten
  BY Parts
<1>2. r \in RowType \cup {NoRow}
  BY LookedUp
<1>3. product \in [Workers -> Nat]
  BY DEF WrittenInv, TypeOK
<1>4. r # NoRow => r.product \in Nat
  BY <1>2 DEF RowType, Ids
<1>5. StoreOK'
  BY <1>1 DEF StoreOK, LookUp, catalogue
<1>6. RowsWritten'
  BY <1>1, SameRows DEF LookUp
<1>. QED
  BY <1>1, <1>2, <1>3, <1>4, <1>5, <1>6 DEF LookUp, Runs, RunOK

LEMMA SkipUnchangedStep ==
    ASSUME WrittenInv, NEW w \in Workers, NEW i \in Items, SkipUnchanged(w, i)
    PROVE  Effect(w)
<1>1. StoreOK /\ Runs /\ RunOK(w) /\ RowsWritten
  BY Parts
<1>2. PICK r \in Rows(w, i) : LookUp(w, i, r) /\ Done(w, i)
  BY DEF SkipUnchanged
<1>3. /\ StoreOK'
      /\ RowsWritten'
      /\ todo'[w] \in SUBSET Items
      /\ product' \in [Workers -> Nat]
      /\ \A v \in Workers \ {w} : todo'[v] = todo[v] /\ product'[v] = product[v]
  BY <1>2, LookUpStep
<1>4. pc'[w] \in {"variants", "next"} /\ (pc'[w] = "variants" => i \in Templates)
  BY <1>1, <1>2 DEF Done, Goto, Runs
<1>5. Runs'
  BY <1>1, <1>2, <1>3 DEF Runs, Done, Goto, LookUp
<1>6. RunOK(w)'
  BY <1>1, <1>2, <1>3, ProductAssumption
     DEF RunOK, Runs, Done, Goto, LookUp, Place, InHand, Items
<1>7. \A v \in Workers \ {w} : Untouched(v)
  BY <1>1, <1>2, <1>3 DEF Runs, Done, Goto, LookUp, Untouched
<1>. QED
  BY <1>2, <1>3, <1>5, <1>6, <1>7 DEF Effect, LookUp

LEMMA NeedsCallStep ==
    ASSUME WrittenInv, NEW w \in Workers, NEW i \in Items, NeedsCall(w, i)
    PROVE  Effect(w)
<1>1. StoreOK /\ Runs /\ RunOK(w) /\ RowsWritten
  BY Parts
<1>2. PICK r \in Rows(w, i) \cup {NoRow} :
         /\ LookUp(w, i, r)
         /\ Goto(w, "call")
         /\ item' = [item EXCEPT ![w] = i]
         /\ found' = [found EXCEPT ![w] = r]
         /\ UNCHANGED made
  BY DEF NeedsCall
<1>3. /\ StoreOK'
      /\ RowsWritten'
      /\ todo'[w] \in SUBSET Items
      /\ product' \in [Workers -> Nat]
      /\ \A v \in Workers \ {w} : todo'[v] = todo[v] /\ product'[v] = product[v]
      /\ r \in RowType \cup {NoRow}
  BY <1>2, LookUpStep
<1>5. Runs'
  BY <1>1, <1>2, <1>3 DEF Runs, Goto, LookUp
<1>6. RunOK(w)'
  BY <1>1, <1>2, <1>3, ProductAssumption
     DEF RunOK, Runs, Goto, LookUp, Place, InHand, Items
<1>7. \A v \in Workers \ {w} : Untouched(v)
  BY <1>1, <1>2, <1>3 DEF Runs, Goto, LookUp, Untouched
<1>. QED
  BY <1>2, <1>3, <1>5, <1>6, <1>7 DEF Effect, LookUp

\* The run ends: nothing of it is left in the session.
LEMMA CloseStep ==
    ASSUME WrittenInv, NEW w \in Workers, Close(w)
    PROVE  /\ Runs'
           /\ RunOK(w)'
           /\ \A v \in Workers \ {w} : Untouched(v)
<1>1. Runs /\ RunOK(w)
  BY Parts
<1>2. [i \in Items |-> 0] \in [Items -> Versions]
  BY ProductAssumption DEF Versions
<1>. QED
  BY <1>1, <1>2 DEF Runs, RunOK, Close, Goto, Untouched, InHand, Place

LEMMA CommitRunStep ==
    ASSUME WrittenInv, NEW w \in Workers, CommitRun(w)
    PROVE  Effect(w)
<1>1. StoreOK /\ RowsWritten /\ own \in [Workers -> SUBSET RowType]
  BY Parts DEF WrittenInv, TypeOK
<1>2. mappings' \subseteq mappings \cup own[w]
  BY DEF CommitRun, View
<1>3. StoreOK'
  BY <1>1, <1>2 DEF StoreOK, CommitRun, catalogue
<1>4. \A v \in Workers : own'[v] \subseteq own[v]
  BY <1>1 DEF CommitRun, Close
<1>5. RowsWritten'
  BY <1>1, <1>2, <1>4 DEF RowsWritten, CommitRun, Target
<1>. QED
  BY <1>3, <1>5, CloseStep DEF Effect, CommitRun

LEMMA RollbackRunStep ==
    ASSUME WrittenInv, NEW w \in Workers, RollbackRun(w)
    PROVE  Effect(w)
<1>1. StoreOK /\ RowsWritten /\ own \in [Workers -> SUBSET RowType]
  BY Parts DEF WrittenInv, TypeOK
<1>2. StoreOK'
  BY <1>1, SpendStep DEF StoreOK, RollbackRun, catalogue, FaultKinds
<1>3. \A v \in Workers : own'[v] \subseteq own[v]
  BY <1>1 DEF RollbackRun, Close
<1>4. RowsWritten'
  BY <1>1, <1>3 DEF RowsWritten, RollbackRun, Target
<1>. QED
  BY <1>2, <1>4, CloseStep DEF Effect, RollbackRun

\* What the store does on a create or an update, answered or not.
LEMMA StoreStep ==
    ASSUME WrittenInv, NEW w \in Workers, pc[w] = "call", Addressed(w),
           UNCHANGED <<catalogue, mappings, overlapped>>,
           spent' \in [FaultKinds -> Nat],
           StoreCreates(w) \/ StoreUpdates(w)
    PROVE  StoreOK' /\ written \subseteq written'
<1>. DEFINE version == plan[w][item[w]]
<1>1. StoreOK /\ RunOK(w)
  BY Parts
<1>2. item[w] \in Items /\ version \in Versions
  BY <1>1 DEF RunOK
<1>3. CASE StoreCreates(w)
  <2>. DEFINE article == [item |-> item[w],
                          parent |-> IF item[w] \in Templates THEN 0 ELSE product[w],
                          version |-> version]
  <2>1. article \in Article
    BY <1>1, <1>2 DEF Article, RunOK
  <2>2. /\ DOMAIN store' = DOMAIN store \cup {nextId}
        /\ \A m \in DOMAIN store' : store'[m] = IF m = nextId THEN article ELSE store[m]
        /\ store' = [m \in DOMAIN store' |-> store'[m]]
    BY <1>3 DEF StoreCreates
  <2>3. store' \in [DOMAIN store' -> Article] /\ DOMAIN store' \subseteq Ids
    <3>1. \A m \in DOMAIN store : store[m] \in Article
      BY <1>1 DEF StoreOK
    <3>2. \A m \in DOMAIN store' : store'[m] \in Article
      BY <2>1, <2>2, <3>1
    <3>. QED
      BY <1>1, <2>2, <3>2 DEF StoreOK
  <2>4. nextId' \in Ids /\ written' = written \cup {<<nextId, version>>}
    BY <1>1, <1>3 DEF StoreCreates, StoreOK, Ids
  <2>5. written' \subseteq Ids \X Versions
    BY <1>1, <1>2, <2>4 DEF StoreOK
  <2>. QED
    BY <1>1, <2>3, <2>4, <2>5 DEF StoreOK, catalogue
<1>4. CASE StoreUpdates(w)
  <2>. DEFINE n == Target(item[w], found[w])
  <2>1. n \in DOMAIN store /\ n \in Ids
    BY <1>1, <1>4 DEF StoreUpdates, Addressed, StoreOK
  <2>2. store' = [store EXCEPT ![n].version = version]
    BY <1>4 DEF StoreUpdates
  <2>3. store[n] \in Article
    BY <1>1, <2>1 DEF StoreOK
  <2>4. [store[n] EXCEPT !.version = version] \in Article
    BY <1>2, <2>3 DEF Article
  <2>5. DOMAIN store' = DOMAIN store /\ store' \in [DOMAIN store -> Article]
    BY <1>1, <2>1, <2>2, <2>4 DEF StoreOK
  <2>6. written' \subseteq Ids \X Versions /\ written \subseteq written'
    BY <1>1, <1>2, <1>4, <2>1 DEF StoreUpdates, StoreOK
  <2>. QED
    BY <1>1, <1>4, <2>5, <2>6 DEF StoreOK, StoreUpdates, catalogue
<1>. QED
  BY <1>3, <1>4

LEMMA CreateStep ==
    ASSUME WrittenInv, NEW w \in Workers, Create(w)
    PROVE  Effect(w)
<1>1. StoreOK /\ Runs /\ RunOK(w) /\ RowsWritten
  BY Parts
<1>2. StoreOK' /\ written \subseteq written'
  BY <1>1, StoreStep DEF Create, StoreOK
<1>3. RowsWritten'
  BY <1>1, <1>2, SameRows DEF Create
<1>4. /\ made' = [made EXCEPT ![w] = nextId]
      /\ product' = IF item[w] \in Templates THEN [product EXCEPT ![w] = nextId]
                                             ELSE product
      /\ pc' = [pc EXCEPT ![w] = "new"]
      /\ nextId \in Nat /\ nextId # 0
  BY <1>1 DEF Create, Goto, StoreOK, Ids
<1>5. Runs'
  BY <1>1, <1>4 DEF Create, Runs
<1>6. \A v \in Workers \ {w} : Untouched(v)
  BY <1>1, <1>4 DEF Create, Runs, Untouched
<1>7. item[w] \in Variants => product[w] \in Ids
  BY <1>1 DEF Create, Addressed, StoreCreates, StoreOK
<1>8. <<nextId, plan[w][item[w]]>> \in written'
  BY DEF Create, StoreCreates
<1>9. item[w] \in Items
  BY <1>1 DEF RunOK, Create
<1>10. RunOK(w)'
  BY <1>1, <1>4, <1>7, <1>8, <1>9 DEF Create, StoreCreates, Runs, RunOK, InHand, Place, Items, Ids
<1>. QED
  BY <1>2, <1>3, <1>5, <1>6, <1>10 DEF Effect

LEMMA UpdateStep ==
    ASSUME WrittenInv, NEW w \in Workers, Update(w)
    PROVE  Effect(w)
<1>1. StoreOK /\ Runs /\ RunOK(w) /\ RowsWritten
  BY Parts
<1>2. StoreOK' /\ written \subseteq written'
  BY <1>1, StoreStep DEF Update, StoreOK
<1>3. RowsWritten'
  BY <1>1, <1>2, SameRows DEF Update, session
<1>4. pc' = [pc EXCEPT ![w] = "changed"] /\ UNCHANGED session
  BY DEF Update, Goto
<1>5. Runs'
  BY <1>1, <1>4 DEF session, Runs
<1>6. \A v \in Workers \ {w} : Untouched(v)
  BY <1>1, <1>4 DEF session, Runs, Untouched
<1>7. <<Target(item[w], found[w]), plan[w][item[w]]>> \in written' /\ found[w] # NoRow
  BY DEF Update, StoreUpdates
<1>8. RunOK(w)'
  BY <1>1, <1>4, <1>7 DEF Update, session, Runs, RunOK, InHand, Place, Target
<1>. QED
  BY <1>2, <1>3, <1>5, <1>6, <1>8 DEF Effect

LEMMA NextTemplateStep ==
    ASSUME WrittenInv, NEW w \in Workers, pc[w] \in {"call", "variants"}, NextTemplate(w)
    PROVE  /\ Runs'
           /\ RunOK(w)'
           /\ \A v \in Workers \ {w} : Untouched(v)
BY Parts, ProductAssumption
   DEF Runs, RunOK, NextTemplate, Goto, Untouched, InHand, Place, Items

LEMMA RejectedStep ==
    ASSUME WrittenInv, NEW w \in Workers, Rejected(w)
    PROVE  Effect(w)
<1>1. StoreOK' /\ RowsWritten'
  BY Parts, SameRows DEF StoreOK, Rejected, NextTemplate, catalogue
<1>. QED
  BY <1>1, NextTemplateStep DEF Effect, Rejected

LEMMA AnswerLostStep ==
    ASSUME WrittenInv, NEW w \in Workers, AnswerLost(w)
    PROVE  Effect(w)
<1>1. StoreOK /\ RowsWritten
  BY Parts
<1>2. spent' \in [FaultKinds -> Nat]
  BY <1>1, SpendStep DEF AnswerLost, StoreOK, FaultKinds
<1>3. StoreOK' /\ written \subseteq written'
  BY <1>2, StoreStep DEF AnswerLost
<1>4. RowsWritten'
  BY <1>1, <1>3, SameRows DEF AnswerLost, NextTemplate
<1>. QED
  BY <1>3, <1>4, NextTemplateStep DEF Effect, AnswerLost

LEMMA CallRefusedStep ==
    ASSUME WrittenInv, NEW w \in Workers, CallRefused(w)
    PROVE  Effect(w)
<1>1. StoreOK /\ RowsWritten
  BY Parts
<1>2. spent' \in [FaultKinds -> Nat]
  BY <1>1, SpendStep DEF CallRefused, StoreOK, FaultKinds
<1>3. StoreOK' /\ RowsWritten'
  BY <1>1, <1>2, SameRows DEF StoreOK, CallRefused, NextTemplate, catalogue
<1>. QED
  BY <1>3, NextTemplateStep DEF Effect, CallRefused

\* A row flushed by w is a new version of a row, or a new row, with the hash of a
\* content the store has received.
LEMMA FlushedRows ==
    ASSUME RowsWritten, NEW w \in Workers, NEW row \in RowType,
           <<Target(row.hash[1], row), row.hash[2]>> \in written,
           UNCHANGED <<mappings, written>>,
           own'[w] \subseteq own[w] \cup {row},
           \A v \in Workers \ {w} : own'[v] = own[v]
    PROVE  RowsWritten'
BY DEF RowsWritten, Target

LEMMA DoneStep ==
    ASSUME WrittenInv, NEW w \in Workers, NEW i \in Items, Done(w, i), i = item[w],
           own' \in [Workers -> SUBSET RowType],
           \A v \in Workers \ {w} : own'[v] = own[v],
           UNCHANGED <<todo, plan, product, written>>
    PROVE  /\ Runs'
           /\ RunOK(w)'
           /\ \A v \in Workers \ {w} : Untouched(v)
<1>1. Runs /\ RunOK(w)
  BY Parts
<1>2. pc'[w] \in {"variants", "next"} /\ (pc'[w] = "variants" => i \in Templates)
  BY <1>1 DEF Done, Goto, Runs
<1>. QED
  BY <1>1, <1>2, ProductAssumption DEF Runs, RunOK, Done, Goto, Untouched, InHand, Place, Items

LEMMA SaveNewStep ==
    ASSUME WrittenInv, NEW w \in Workers, SaveNew(w)
    PROVE  Effect(w)
<1>. DEFINE i == item[w]
            row == [item |-> i, product |-> product[w],
                    variation |-> IF i \in Templates THEN 0 ELSE made[w],
                    hash |-> Hash(w, i)]
<1>1. StoreOK /\ Runs /\ RunOK(w) /\ RowsWritten /\ own \in [Workers -> SUBSET RowType]
  BY Parts DEF WrittenInv, TypeOK
<1>2. i \in Items
  BY <1>1 DEF RunOK, SaveNew
<1>3. Hash(w, i) \in Hashes /\ Hash(w, i)[1] = i /\ Hash(w, i)[2] = plan[w][i]
  BY <1>1, <1>2 DEF Hash, Hashes, RunOK
<1>4. row \in RowType
  BY <1>1, <1>2, <1>3 DEF RowType, RunOK, InHand, SaveNew
<1>5. <<Target(row.hash[1], row), row.hash[2]>> \in written
  BY <1>1, <1>3 DEF Target, RunOK, InHand, SaveNew
<1>6. own' = [own EXCEPT ![w] = own[w] \cup {row}] \/ own' = [own EXCEPT ![w] = own[w]]
  BY DEF SaveNew
<1>7. /\ own' \in [Workers -> SUBSET RowType]
      /\ own'[w] \subseteq own[w] \cup {row}
      /\ \A v \in Workers \ {w} : own'[v] = own[v]
  BY <1>1, <1>4, <1>6
<1>8. RowsWritten'
  BY <1>1, <1>4, <1>5, <1>7, FlushedRows DEF SaveNew
<1>9. StoreOK'
  BY <1>1 DEF StoreOK, SaveNew, catalogue
<1>. QED
  BY <1>2, <1>7, <1>8, <1>9, DoneStep DEF Effect, SaveNew

LEMMA SaveHashStep ==
    ASSUME WrittenInv, NEW w \in Workers, SaveHash(w)
    PROVE  Effect(w)
<1>. DEFINE i == item[w]
            row == [found[w] EXCEPT !.hash = Hash(w, i)]
<1>1. StoreOK /\ Runs /\ RunOK(w) /\ RowsWritten /\ own \in [Workers -> SUBSET RowType]
  BY Parts DEF WrittenInv, TypeOK
<1>2. i \in Items /\ found[w] \in RowType
  BY <1>1 DEF RunOK, SaveHash
<1>3. Hash(w, i) \in Hashes /\ Hash(w, i)[1] = i /\ Hash(w, i)[2] = plan[w][i]
  BY <1>1, <1>2 DEF Hash, Hashes, RunOK
<1>4. /\ row \in RowType
      /\ row.hash = Hash(w, i)
      /\ row.product = found[w].product
      /\ row.variation = found[w].variation
  BY <1>2, <1>3 DEF RowType
<1>5. <<Target(row.hash[1], row), row.hash[2]>> \in written
  BY <1>1, <1>3, <1>4 DEF Target, RunOK, InHand, SaveHash
<1>6. own' = [own EXCEPT ![w] = {s \in own[w] : ~SameRow(s, row)} \cup {row}]
  BY DEF SaveHash
<1>7. /\ own' \in [Workers -> SUBSET RowType]
      /\ own'[w] \subseteq own[w] \cup {row}
      /\ \A v \in Workers \ {w} : own'[v] = own[v]
  BY <1>1, <1>4, <1>6
<1>8. RowsWritten'
  BY <1>1, <1>4, <1>5, <1>7, FlushedRows DEF SaveHash
<1>9. StoreOK'
  BY <1>1 DEF StoreOK, SaveHash, catalogue
<1>. QED
  BY <1>2, <1>7, <1>8, <1>9, DoneStep DEF Effect, SaveHash

LEMMA FetchVariantsStep ==
    ASSUME WrittenInv, NEW w \in Workers, FetchVariants(w)
    PROVE  Effect(w)
<1>. PICK vs \in SUBSET variants[item[w]] :
        /\ todo' = [todo EXCEPT ![w] = @ \cup vs]
        /\ plan' = [plan EXCEPT ![w] = [i \in Items |-> IF i \in vs THEN odoo[i] ELSE @[i]]]
  BY VariantsRead
<1>1. StoreOK /\ Runs /\ RunOK(w) /\ RowsWritten
  BY Parts
<1>2. vs \subseteq Variants
  BY <1>1 DEF StoreOK, RunOK, InHand, FetchVariants
<1>3. plan' = [plan EXCEPT ![w] = [j \in Items |-> IF j \in vs THEN odoo[j] ELSE plan[w][j]]]
  OBVIOUS
<1>4. [j \in Items |-> IF j \in vs THEN odoo[j] ELSE plan[w][j]] \in [Items -> Versions]
  BY <1>1 DEF StoreOK, RunOK
<1>5. StoreOK' /\ RowsWritten'
  BY <1>1, SameRows DEF StoreOK, FetchVariants, catalogue
<1>6. Runs'
  BY <1>1, <1>3 DEF Runs, FetchVariants, Goto
<1>7. \A v \in Workers \ {w} : Untouched(v)
  BY <1>1, <1>3 DEF Runs, FetchVariants, Goto, Untouched
<1>8. plan'[w] \in [Items -> Versions] /\ todo'[w] \in SUBSET Items
  BY <1>1, <1>2, <1>3, <1>4 DEF Runs, RunOK, FetchVariants, Items
<1>9. RunOK(w)'
  BY <1>1, <1>8 DEF Runs, RunOK, FetchVariants, Goto, InHand, Place
<1>. QED
  BY <1>5, <1>6, <1>7, <1>9 DEF Effect, FetchVariants

\* Odoo and the merchant do not touch the runs.
LEMMA OutsideStep ==
    ASSUME WrittenInv, StoreOK', UNCHANGED <<mappings, pc, session, written>>
    PROVE  WrittenInv'
BY DEF WrittenInv, TypeOK, StoreOK, session, InHand, RowsWritten, Target

LEMMA EditStep ==
    ASSUME WrittenInv, NEW i \in Items, NEW version \in Versions, Edit(i, version)
    PROVE  WrittenInv'
<1>1. StoreOK
  BY Parts
<1>2. StoreOK'
  BY <1>1, ProductAssumption DEF StoreOK, Edit
<1>. QED
  BY <1>2, OutsideStep DEF Edit

LEMMA MerchantDeletesStep ==
    ASSUME WrittenInv, NEW n, MerchantDeletes(n)
    PROVE  WrittenInv'
<1>1. StoreOK
  BY Parts
<1>2. spent' \in [FaultKinds -> Nat]
  BY <1>1, SpendStep DEF MerchantDeletes, StoreOK, FaultKinds
<1>3. /\ DOMAIN store' \subseteq DOMAIN store
      /\ store' = [m \in DOMAIN store' |-> store[m]]
  BY DEF MerchantDeletes
<1>4. store' \in [DOMAIN store' -> Article]
  BY <1>1, <1>3 DEF StoreOK
<1>5. StoreOK'
  BY <1>1, <1>2, <1>3, <1>4 DEF StoreOK, MerchantDeletes, catalogue
<1>. QED
  BY <1>5, OutsideStep DEF MerchantDeletes

-----------------------------------------------------------------------------
(* Theorems *)

LEMMA InitInv == Init => WrittenInv
<1>. SUFFICES ASSUME Init PROVE WrittenInv
  OBVIOUS
<1>1. [i \in Items |-> 0] \in [Items -> Versions]
  BY ProductAssumption DEF Versions
<1>2. /\ variants \in [Templates -> SUBSET Variants]
      /\ sku \in [Items -> [Versions -> Skus \cup {NoSku}]]
      /\ invalid \subseteq Items \X Versions
  BY ProductAssumption DEF Init, Items, Versions
<1>3. DOMAIN store = {} /\ store \in [DOMAIN store -> Article]
  BY DEF Init
<1>4. edits \in 0..MaxEdits
  BY ProductAssumption DEF Init
<1>5. odoo \in [Items -> Versions] /\ plan \in [Workers -> [Items -> Versions]]
  BY <1>1 DEF Init
<1>6. spent \in [FaultKinds -> Nat] /\ nextId \in Ids
  BY DEF Init, Ids
<1>7. /\ own \in [Workers -> SUBSET RowType]
      /\ pc \in [Workers -> Place]
      /\ todo \in [Workers -> SUBSET Items]
      /\ item \in [Workers -> Items \cup {NoItem}]
      /\ found \in [Workers -> RowType \cup {NoRow}]
      /\ product \in [Workers -> Nat]
      /\ made \in [Workers -> Nat]
  BY DEF Init, Place
<1>8. \A w \in Workers : pc[w] = "idle" /\ item[w] = NoItem /\ made[w] = 0
  BY DEF Init
<1>9. mappings \subseteq RowType /\ written \subseteq Ids \X Versions
  BY DEF Init
<1>10. restored \in BOOLEAN /\ overlapped \in BOOLEAN
  BY DEF Init
<1>11. TypeOK
  BY <1>2, <1>3, <1>4, <1>5, <1>6, <1>7, <1>8, <1>9, <1>10 DEF TypeOK
<1>. QED
  BY <1>11 DEF Init, WrittenInv, InHand, RowsWritten

LEMMA StepInv == WrittenInv /\ [Next]_vars => WrittenInv'
<1>. SUFFICES ASSUME WrittenInv, [Next]_vars PROVE WrittenInv'
  OBVIOUS
<1>1. CASE UNCHANGED vars
  BY <1>1 DEF vars, catalogue, session, WrittenInv, TypeOK, InHand, RowsWritten, Target
<1>2. ASSUME NEW i \in Items, NEW version \in Versions, Edit(i, version)
      PROVE  WrittenInv'
  BY <1>2, EditStep
<1>3. ASSUME NEW n \in DOMAIN store, MerchantDeletes(n)
      PROVE  WrittenInv'
  BY <1>3, MerchantDeletesStep
<1>4. ASSUME NEW w \in Workers, Begin(w) \/ Phase(w) \/ RunFault(w)
      PROVE  WrittenInv'
  <2>1. Effect(w)
    BY <1>4, BeginStep, SkipUnchangedStep, NeedsCallStep, CreateStep, UpdateStep,
       RejectedStep, SaveNewStep, SaveHashStep, FetchVariantsStep, CommitRunStep,
       AnswerLostStep, CallRefusedStep, RollbackRunStep
       DEF Phase, RunFault
  <2>. QED
    BY <2>1, Assemble
<1>. QED
  BY <1>1, <1>2, <1>3, <1>4 DEF Next, ReadFails

\* What sync_products has in hand and what the mappings say agree with what the
\* store has received, in every reachable state.
THEOREM WrittenInvHolds == Spec => []WrittenInv
BY InitInv, StepInv, PTL DEF Spec

\* Type correctness: rows, articles and the variables of the runs of
\* sync_products stay in their domains, and a run has something in hand exactly
\* where the code has.
THEOREM ProductTypes == Spec => []TypeOK
<1>1. WrittenInv => TypeOK
  BY DEF WrittenInv
<1>. QED
  BY <1>1, WrittenInvHolds, PTL

\* The hash that update_mapping and search_or_create store is of a content the
\* store has received for that product, whatever fails and however many runs
\* overlap.
THEOREM HashWasWrittenHolds == Spec => []HashWasWritten
<1>1. WrittenInv => HashWasWritten
  BY DEF WrittenInv, TypeOK, RowsWritten, HashWasWritten
<1>. QED
  BY <1>1, WrittenInvHolds, PTL
(***************************************************************************)
(* One row per item, as long as runs do not overlap. The invariant adds    *)
(* that one run is under way, that rows name articles of their own, and    *)
(* that what a run has looked up is still so: a row it has found is there, *)
(* and an item it has found no row for has none.                           *)
(***************************************************************************)
RowId(r) == Target(r.item, r)

Distinct(rows) == \A r, s \in rows : r.item = s.item \/ RowId(r) = RowId(s) => r = s

Solo == \A v, w \in Workers : pc[v] # "idle" /\ pc[w] # "idle" => v = w

LookedUpHolds(w) ==
    /\ pc[w] \in {"call", "new"} /\ found[w] = NoRow => \A r \in View(w) : r.item # item[w]
    /\ pc[w] \in {"call", "changed"} /\ found[w] # NoRow => found[w] \in View(w)
    /\ pc[w] = "new" => /\ found[w] = NoRow
                        /\ made[w] < nextId
                        /\ \A r \in View(w) : RowId(r) < made[w]
                        /\ item[w] \in Templates => product[w] = made[w]

OnceInv ==
    /\ Solo
    /\ Distinct(mappings)
    /\ \A r \in mappings : RowId(r) < nextId
    /\ \A w \in Workers :
          /\ pc[w] = "idle" => own[w] = {}
          /\ Distinct(View(w))
          /\ \A r \in View(w) : RowId(r) < nextId
          /\ LookedUpHolds(w)

MappedInv == WrittenInv /\ (~overlapped => OnceInv)

LEMMA MappedStarts == Init => MappedInv
<1> SUFFICES ASSUME Init  PROVE OnceInv
  BY InitInv DEF MappedInv
<1>1. mappings = {} /\ \A w \in Workers : own[w] = {} /\ pc[w] = "idle"
  BY DEF Init
<1>2. \A w \in Workers : View(w) = {}
  BY <1>1 DEF View
<1>. QED
  BY <1>1, <1>2 DEF OnceInv, Solo, Distinct, LookedUpHolds

\* The step of a run that is alone leaves the others idle, with nothing flushed.
LEMMA OthersIdle ==
    ASSUME WrittenInv, OnceInv, NEW w \in Workers, pc[w] # "idle",
           NEW v \in Workers \ {w}
    PROVE  pc[v] = "idle" /\ own[v] = {} /\ View(v) = mappings
BY DEF OnceInv, Solo, View

\* A step of the only run that flushes and commits nothing: what is left to
\* show is what the run has in hand.
LEMMA OnceSameRows ==
    ASSUME WrittenInv, OnceInv, NEW w \in Workers,
           \A v \in Workers \ {w} : pc[v] = "idle" /\ Untouched(v),
           pc'[w] # "idle",
           UNCHANGED <<mappings, own>>,
           nextId' \in Nat, nextId <= nextId',
           LookedUpHolds(w)'
    PROVE  OnceInv'
<1>1. \A v \in Workers : View(v)' = View(v)
  BY DEF View
<1>2. nextId \in Nat
  BY DEF WrittenInv, TypeOK, Ids
<1>3. \A r \in RowType : RowId(r) \in Nat
  BY TargetType DEF RowId
<1>4. \A v \in Workers : View(v) \subseteq RowType
  BY DEF WrittenInv, TypeOK, View
<1>5. \A r \in RowType : RowId(r)' = RowId(r)
  BY DEF RowId, Target
<1>6. mappings \subseteq RowType
  BY DEF WrittenInv, TypeOK
<1>7. \A r \in RowType : RowId(r) < nextId => RowId(r)' < nextId'
  BY <1>2, <1>3, <1>5
<1>8. Solo' /\ Distinct(mappings)' /\ \A r \in mappings' : RowId(r)' < nextId'
  <2>1. Solo'  BY DEF Solo, Untouched
  <2>2. Distinct(mappings)'  BY <1>5, <1>6 DEF OnceInv, Distinct
  <2>3. \A r \in mappings' : RowId(r)' < nextId'
    BY <1>6, <1>7 DEF OnceInv
  <2>. QED  BY <2>1, <2>2, <2>3
<1>9. ASSUME NEW v \in Workers
      PROVE  /\ pc'[v] = "idle" => own'[v] = {}
             /\ Distinct(View(v))'
             /\ \A r \in View(v)' : RowId(r)' < nextId'
             /\ LookedUpHolds(v)'
  <2>1. pc'[v] = "idle" => own'[v] = {}
    BY DEF OnceInv, Untouched
  <2>2. Distinct(View(v))'
    BY <1>1, <1>4, <1>5 DEF OnceInv, Distinct
  <2>3. \A r \in View(v)' : RowId(r)' < nextId'
    BY <1>1, <1>4, <1>7 DEF OnceInv
  <2>4. LookedUpHolds(v)'
    <3>1. CASE v = w  BY <3>1
    <3>2. CASE v # w
      <4>1. pc'[v] = "idle"  BY <3>2 DEF Untouched
      <4>. QED  BY <4>1 DEF LookedUpHolds
    <3>. QED  BY <3>1, <3>2
  <2>. QED  BY <2>1, <2>2, <2>3, <2>4
<1>. QED  BY <1>8, <1>9 DEF OnceInv
\* After a step of the only run the others are as idle as before.
LEMMA OnceRows ==
    ASSUME NEW w \in Workers,
           \A v \in Workers \ {w} : pc'[v] = "idle" /\ own'[v] = {},
           pc'[w] = "idle" => own'[w] = {},
           Distinct(mappings)', \A r \in mappings' : RowId(r)' < nextId',
           Distinct(View(w))', \A r \in View(w)' : RowId(r)' < nextId',
           LookedUpHolds(w)'
    PROVE  OnceInv'
<1>1. \A v \in Workers \ {w} : View(v)' = mappings'
  BY DEF View
<1>2. \A v \in Workers \ {w} : LookedUpHolds(v)'
  BY DEF LookedUpHolds
<1>3. Solo'
  BY DEF Solo
<1>. QED  BY <1>1, <1>2, <1>3 DEF OnceInv

\* The run that acts is the only one.
LEMMA Alone ==
    ASSUME WrittenInv, OnceInv, ~overlapped', NEW w \in Workers, Effect(w),
           Begin(w) \/ pc[w] # "idle"
    PROVE  \A v \in Workers \ {w} : /\ pc[v] = "idle" /\ own[v] = {} /\ Untouched(v)
                                    /\ pc'[v] = "idle" /\ own'[v] = {}
<1>1. \A v \in Workers \ {w} : pc[v] = "idle"
  BY DEF OnceInv, Solo, Begin
<1>2. \A v \in Workers \ {w} : own[v] = {}
  BY <1>1 DEF OnceInv
<1>. QED  BY <1>1, <1>2 DEF Effect, Untouched

\* A step after which the run has neither called the store nor anything found.
LEMMA OnceQuiet ==
    ASSUME WrittenInv, OnceInv, ~overlapped', NEW w \in Workers, Effect(w),
           Begin(w) \/ pc[w] # "idle",
           pc'[w] \in {"next", "variants"},
           UNCHANGED <<mappings, own>>,
           nextId' = nextId \/ nextId' = nextId + 1
    PROVE  OnceInv'
<1>1. LookedUpHolds(w)'
  BY DEF LookedUpHolds
<1>2. nextId' \in Nat /\ nextId <= nextId'
  BY DEF WrittenInv, TypeOK, Ids
<1>. QED
  BY <1>1, <1>2, Alone, OnceSameRows

LEMMA NeedsCallOnce ==
    ASSUME WrittenInv, OnceInv, ~overlapped', NEW w \in Workers, NEW i \in Items,
           NeedsCall(w, i)
    PROVE  OnceInv'
<1>1. Effect(w)  BY NeedsCallStep
<1>2. PICK r \in Rows(w, i) \cup {NoRow} :
         LookUp(w, i, r) /\ Goto(w, "call") /\ item' = [item EXCEPT ![w] = i]
         /\ found' = [found EXCEPT ![w] = r]
  BY DEF NeedsCall
<1>3. pc'[w] = "call" /\ item'[w] = i /\ found'[w] = r
  BY <1>2 DEF WrittenInv, TypeOK, Goto
<1>4. UNCHANGED <<mappings, own, nextId>> /\ pc[w] # "idle"
  BY <1>2 DEF LookUp
<1>5. View(w)' = View(w)
  BY <1>4 DEF View
<1>6. r = NoRow => \A s \in View(w) : s.item # i
  BY <1>2, NoRowIsNone, LookedUp DEF LookUp, Rows
<1>7. r # NoRow => r \in View(w)
  BY <1>2 DEF Rows
<1>8. LookedUpHolds(w)'
  BY <1>3, <1>5, <1>6, <1>7 DEF LookedUpHolds
<1>9. nextId \in Nat /\ nextId <= nextId
  BY DEF WrittenInv, TypeOK, Ids
<1>. QED
  BY <1>1, <1>3, <1>4, <1>8, <1>9, Alone, OnceSameRows

LEMMA CreateOnce ==
    ASSUME WrittenInv, OnceInv, ~overlapped', NEW w \in Workers, Create(w)
    PROVE  OnceInv'
<1>1. Effect(w)  BY CreateStep
<1>2. /\ pc[w] = "call" /\ pc'[w] = "new" /\ made'[w] = nextId /\ nextId' = nextId + 1
      /\ item[w] \in Templates => product'[w] = nextId
      /\ found[w] = NoRow
  BY DEF WrittenInv, TypeOK, Create, Goto, StoreCreates
<1>3. UNCHANGED <<mappings, own, item, found>>
  BY DEF Create
<1>4. nextId \in Nat /\ nextId < nextId' /\ nextId' \in Nat
  BY <1>2 DEF WrittenInv, TypeOK, Ids
<1>5. View(w)' = View(w)
  BY <1>3 DEF View
<1>6. \A r \in View(w) : RowId(r)' < nextId
  BY DEF OnceInv, RowId, Target
<1>7. LookedUpHolds(w)'
  <2>1. \A r \in View(w) : r.item # item[w]
    BY <1>2 DEF OnceInv, LookedUpHolds
  <2>. QED  BY <1>2, <1>3, <1>4, <1>5, <1>6, <2>1 DEF LookedUpHolds
<1>. QED
  BY <1>1, <1>2, <1>3, <1>4, <1>7, Alone, OnceSameRows

LEMMA UpdateOnce ==
    ASSUME WrittenInv, OnceInv, ~overlapped', NEW w \in Workers, Update(w)
    PROVE  OnceInv'
<1>1. Effect(w)  BY UpdateStep
<1>2. pc[w] = "call" /\ pc'[w] = "changed" /\ found[w] # NoRow /\ nextId' = nextId
  BY DEF WrittenInv, TypeOK, Update, Goto, StoreUpdates
<1>3. UNCHANGED <<mappings, own, item, found>>
  BY DEF Update, session
<1>4. nextId \in Nat /\ nextId <= nextId
  BY DEF WrittenInv, TypeOK, Ids
<1>5. View(w)' = View(w)
  BY <1>3 DEF View
<1>6. LookedUpHolds(w)'
  BY <1>2, <1>3, <1>5 DEF OnceInv, LookedUpHolds
<1>. QED
  BY <1>1, <1>2, <1>3, <1>4, <1>6, Alone, OnceSameRows

\* The article of a new row is younger than that of every other, and the item
\* has no row.
LEMMA SaveNewOnce ==
    ASSUME WrittenInv, OnceInv, ~overlapped', NEW w \in Workers, SaveNew(w)
    PROVE  OnceInv'
<1> DEFINE i == item[w]
           row == [item |-> i, product |-> product[w],
                   variation |-> IF i \in Templates THEN 0 ELSE made[w],
                   hash |-> Hash(w, i)]
<1>1. Effect(w)  BY SaveNewStep
<1>2. pc[w] = "new" /\ UNCHANGED <<mappings, nextId, overlapped>>
  BY DEF SaveNew
<1>3. pc'[w] \in {"next", "variants"}
  BY DEF WrittenInv, TypeOK, SaveNew, Done, Goto
<1>4. own' = [own EXCEPT ![w] = own[w] \cup {row}] \/ own' = [own EXCEPT ![w] = own[w]]
  BY DEF SaveNew
<1>5. own \in [Workers -> SUBSET RowType] /\ mappings \subseteq RowType
  BY DEF WrittenInv, TypeOK
<1>6. CASE own' = [own EXCEPT ![w] = own[w]]
  <2>1. own' = own  BY <1>5, <1>6
  <2>. QED  BY <1>1, <1>2, <1>3, <2>1, OnceQuiet
<1>7. CASE own' = [own EXCEPT ![w] = own[w] \cup {row}]
  <2>1. own'[w] = own[w] \cup {row}  BY <1>5, <1>7
  <2>2. /\ \A r \in View(w) : r.item # i /\ RowId(r) < made[w]
        /\ made[w] < nextId
        /\ i \in Templates => product[w] = made[w]
    BY <1>2 DEF OnceInv, LookedUpHolds
  <2>3. row.item = i /\ RowId(row) = made[w]
    BY <2>2 DEF RowId, Target
  <2> HIDE DEF row
  <2>4. View(w)' \subseteq View(w) \cup {row}
    BY <1>2, <2>1 DEF View, SameRow, Target
  <2>5. made[w] \in Nat
    BY DEF WrittenInv, TypeOK
  <2>6. \A r \in View(w) : r \in RowType /\ RowId(r) \in Nat
    BY <1>5, TargetType DEF View, RowId
  <2>7. \A r : RowId(r)' = RowId(r)
    BY DEF RowId, Target
  <2>8. \A r \in View(w) : r.item # row.item /\ RowId(r) # RowId(row)
    BY <2>2, <2>3, <2>5, <2>6
  <2>9. Distinct(View(w))'
    BY <2>4, <2>7, <2>8 DEF OnceInv, Distinct
  <2>10. \A r \in View(w)' : RowId(r)' < nextId'
    BY <1>2, <2>2, <2>3, <2>4, <2>7 DEF OnceInv
  <2>11. Distinct(mappings)' /\ \A r \in mappings' : RowId(r)' < nextId'
    BY <1>2, <2>7 DEF OnceInv, Distinct
  <2>12. LookedUpHolds(w)'
    BY <1>3 DEF LookedUpHolds
  <2>. QED
    BY <1>1, <1>2, <1>3, <2>9, <2>10, <2>11, <2>12, Alone, OnceRows
<1>. QED  BY <1>4, <1>6, <1>7

\* The row that was found is replaced by its new version.
LEMMA SaveHashOnce ==
    ASSUME WrittenInv, OnceInv, ~overlapped', NEW w \in Workers, SaveHash(w)
    PROVE  OnceInv'
<1> DEFINE row == [found[w] EXCEPT !.hash = Hash(w, item[w])]
<1>1. Effect(w)  BY SaveHashStep
<1>2. pc[w] = "changed" /\ UNCHANGED <<mappings, nextId, overlapped>>
  BY DEF SaveHash
<1>3. pc'[w] \in {"next", "variants"}
  BY DEF WrittenInv, TypeOK, SaveHash, Done, Goto
<1>4. own \in [Workers -> SUBSET RowType] /\ mappings \subseteq RowType
  BY DEF WrittenInv, TypeOK
<1>5. own'[w] = {s \in own[w] : ~SameRow(s, row)} \cup {row}
  BY <1>4 DEF SaveHash
<1>6. found[w] # NoRow /\ found[w] \in RowType
  BY <1>2 DEF WrittenInv, TypeOK
<1>7. found[w] \in View(w)
  BY <1>2, <1>6 DEF OnceInv, LookedUpHolds
<1>8. row.item = found[w].item /\ RowId(row) = RowId(found[w])
  BY <1>6 DEF RowType, RowId, Target
<1> HIDE DEF row
<1>9. \A r \in View(w)' : r = row \/ (r \in View(w) /\ RowId(r) # RowId(row))
  <2>1. \A r, s : SameRow(r, s)' <=> RowId(r) = RowId(s)
    BY DEF SameRow, RowId, Target
  <2>2. \A r, s : SameRow(r, s) <=> RowId(r) = RowId(s)
    BY DEF SameRow, RowId, Target
  <2>3. ASSUME NEW r \in View(w)', r # row
        PROVE  r \in View(w) /\ RowId(r) # RowId(row)
    <3>1. CASE r \in own'[w]
      BY <1>5, <2>2, <2>3, <3>1 DEF View
    <3>2. CASE r \notin own'[w]
      <4>1. r \in mappings /\ \A s \in own'[w] : RowId(r) # RowId(s)
        BY <1>2, <2>1, <2>3, <3>2 DEF View
      <4>2. RowId(r) # RowId(row)  BY <1>5, <4>1
      <4>3. \A s \in own[w] : RowId(r) # RowId(s)
        BY <1>5, <2>2, <4>1, <4>2
      <4>. QED  BY <2>2, <4>1, <4>2, <4>3 DEF View
    <3>. QED  BY <3>1, <3>2
  <2>. QED  BY <2>3
<1>10. \A r : RowId(r)' = RowId(r)
  BY DEF RowId, Target
<1>11. \A r \in View(w)' : r = row \/ (r \in View(w) /\ r.item # row.item)
  BY <1>7, <1>8, <1>9 DEF OnceInv, Distinct
<1>12. Distinct(View(w))'
  BY <1>9, <1>10, <1>11 DEF OnceInv, Distinct
<1>13. \A r \in View(w)' : RowId(r)' < nextId'
  BY <1>2, <1>7, <1>8, <1>9, <1>10 DEF OnceInv
<1>14. Distinct(mappings)' /\ \A r \in mappings' : RowId(r)' < nextId'
  BY <1>2, <1>10 DEF OnceInv, Distinct
<1>15. LookedUpHolds(w)'
  BY <1>3 DEF LookedUpHolds
<1>. QED
  BY <1>1, <1>2, <1>3, <1>12, <1>13, <1>14, <1>15, Alone, OnceRows

\* The end of a run: what is committed is what it has seen, or what was there.
LEMMA CloseOnce ==
    ASSUME WrittenInv, OnceInv, ~overlapped', NEW w \in Workers, Effect(w),
           pc[w] # "idle", Close(w), nextId' = nextId,
           mappings' = View(w) \/ mappings' = mappings
    PROVE  OnceInv'
<1>1. pc'[w] = "idle" /\ own'[w] = {}
  BY DEF WrittenInv, TypeOK, Close, Goto
<1>2. View(w)' = mappings'
  BY <1>1 DEF View
<1>3. \A r : RowId(r)' = RowId(r)
  BY DEF RowId, Target
<1>4. Distinct(mappings)' /\ \A r \in mappings' : RowId(r)' < nextId'
  BY <1>3 DEF OnceInv, Distinct
<1>5. Distinct(View(w))' /\ \A r \in View(w)' : RowId(r)' < nextId'
  BY <1>2, <1>4 DEF Distinct
<1>6. LookedUpHolds(w)'
  BY <1>1 DEF LookedUpHolds
<1>. QED
  BY <1>1, <1>4, <1>5, <1>6, Alone, OnceRows

LEMMA RunOnce ==
    ASSUME WrittenInv, OnceInv, ~overlapped', NEW w \in Workers,
           Begin(w) \/ Phase(w) \/ RunFault(w)
    PROVE  OnceInv'
<1>0. pc \in [Workers -> Place]
  BY DEF WrittenInv, TypeOK
<1>1. CASE Begin(w)
  <2>1. pc'[w] = "next" /\ UNCHANGED <<mappings, own, nextId>>
    BY <1>0, <1>1 DEF Begin, Goto
  <2>. QED  BY <1>1, <2>1, BeginStep, OnceQuiet
<1>2. ASSUME NEW i \in Items, SkipUnchanged(w, i)  PROVE OnceInv'
  <2>1. pc[w] = "next" /\ pc'[w] \in {"next", "variants"} /\ UNCHANGED <<mappings, own, nextId>>
    BY <1>0, <1>2 DEF SkipUnchanged, LookUp, Done, Goto
  <2>. QED  BY <1>2, <2>1, SkipUnchangedStep, OnceQuiet
<1>3. CASE Rejected(w) \/ AnswerLost(w) \/ CallRefused(w)
  <2>1. Effect(w)
    BY <1>3, RejectedStep, AnswerLostStep, CallRefusedStep
  <2>2. pc[w] # "idle" /\ pc'[w] = "next" /\ UNCHANGED <<mappings, own>>
    BY <1>0, <1>3 DEF Rejected, AnswerLost, CallRefused, NextTemplate, Goto
  <2>3. nextId' = nextId \/ nextId' = nextId + 1
    BY <1>3 DEF Rejected, AnswerLost, CallRefused, StoreCreates, StoreUpdates
  <2>. QED  BY <2>1, <2>2, <2>3, OnceQuiet
<1>4. CASE FetchVariants(w)
  <2>1. pc[w] # "idle" /\ pc'[w] = "next" /\ UNCHANGED <<mappings, own, nextId>>
    BY <1>0, <1>4 DEF FetchVariants, Goto
  <2>. QED  BY <1>4, <2>1, FetchVariantsStep, OnceQuiet
<1>5. CASE CommitRun(w)
  <2>1. Close(w) /\ mappings' = View(w) /\ nextId' = nextId /\ pc[w] # "idle"
    BY <1>5 DEF CommitRun
  <2>. QED  BY <1>5, <2>1, CommitRunStep, CloseOnce
<1>6. CASE RollbackRun(w)
  <2>1. Close(w) /\ mappings' = mappings /\ nextId' = nextId /\ pc[w] # "idle"
    BY <1>6 DEF RollbackRun
  <2>. QED  BY <1>6, <2>1, RollbackRunStep, CloseOnce
<1>. QED
  BY <1>1, <1>2, <1>3, <1>4, <1>5, <1>6, NeedsCallOnce, CreateOnce, UpdateOnce,
     SaveNewOnce, SaveHashOnce DEF Phase, RunFault

LEMMA MappedStep == MappedInv /\ [Next]_vars => MappedInv'
<1> SUFFICES ASSUME MappedInv, [Next]_vars, ~overlapped'  PROVE OnceInv'
  BY StepInv DEF MappedInv
<1>1. WrittenInv  BY DEF MappedInv
<1>2. ~overlapped
  <2>1. ASSUME NEW w \in Workers, Begin(w)  PROVE ~overlapped
    BY <2>1 DEF Begin
  <2>2. ASSUME NEW w \in Workers, Phase(w)  PROVE UNCHANGED overlapped
    BY <2>2 DEF Phase, SkipUnchanged, NeedsCall, LookUp, Create, Update, Rejected,
                SaveNew, SaveHash, FetchVariants, CommitRun
  <2>3. ASSUME NEW w \in Workers, RunFault(w)  PROVE UNCHANGED overlapped
    BY <2>3 DEF RunFault, AnswerLost, CallRefused, RollbackRun
  <2>4. ASSUME NEW i, NEW version, Edit(i, version)  PROVE UNCHANGED overlapped
    BY <2>4 DEF Edit
  <2>5. ASSUME NEW n, MerchantDeletes(n)  PROVE UNCHANGED overlapped
    BY <2>5 DEF MerchantDeletes
  <2>6. CASE UNCHANGED vars  BY <2>6 DEF vars
  <2>. QED  BY <2>1, <2>2, <2>3, <2>4, <2>5, <2>6 DEF Next, ReadFails
<1>3. OnceInv  BY <1>2 DEF MappedInv
<1>4. ASSUME NEW w \in Workers, Begin(w) \/ Phase(w) \/ RunFault(w)  PROVE OnceInv'
  BY <1>1, <1>3, <1>4, RunOnce
<1>5. ASSUME UNCHANGED <<mappings, pc, session, nextId>>  PROVE OnceInv'
  BY <1>3, <1>5 DEF OnceInv, Solo, Distinct, View, LookedUpHolds, RowId, SameRow, Target, session
<1>6. ASSUME NEW i \in Items, NEW version \in Versions, Edit(i, version)  PROVE OnceInv'
  BY <1>5, <1>6 DEF Edit
<1>7. ASSUME NEW n \in DOMAIN store, MerchantDeletes(n)  PROVE OnceInv'
  BY <1>5, <1>7 DEF MerchantDeletes
<1>8. CASE UNCHANGED vars  BY <1>5, <1>8 DEF vars
<1>. QED  BY <1>4, <1>6, <1>7, <1>8 DEF Next, ReadFails

\* As long as no two runs overlap, search_or_create and the lookup of variants
\* leave one row for an item, however many runs there are and whatever fails.
THEOREM MappedOnceHolds == Spec => []MappedOnce
<1>1. MappedInv => MappedOnce
  BY DEF MappedInv, OnceInv, Distinct, MappedOnce
<1>. QED
  BY <1>1, MappedStarts, MappedStep, PTL DEF Spec

(***************************************************************************)
(* The products of a template are paid for. As long as no committed row    *)
(* speaks of the template, each product is that of a run that still holds  *)
(* what it recorded of it, or that of a lost answer or a lost transaction. *)
(* From the first committed row on, no lookup misses: what the runs that   *)
(* had looked before may still create was counted at the commit.           *)
(***************************************************************************)
Family(t) == {t} \cup variants[t]

\* The lookup of template t finds a row that is committed, or a row of w.
Known(t) == \E r \in mappings : r.item \in Family(t)
Held(w, t) == \E r \in own[w] : r.item \in Family(t)

Holding(t) == {w \in Workers : Held(w, t) \/ (pc[w] = "new" /\ item[w] = t)}
Racing(t) == {w \in Workers : pc[w] = "call" /\ item[w] = t /\ found[w] = NoRow}
Articles(t) == {n \in DOMAIN store : store[n].item = t}

Losses == spent["lost"] + spent["rollback"]
Allowed == IF overlapped THEN Cardinality(Workers) ELSE 1

PaidFor(t) ==
    IF Known(t)
    THEN Cardinality(Articles(t)) + Cardinality(Racing(t)) <= Allowed + Losses
    ELSE Cardinality(Articles(t)) <= Cardinality(Holding(t)) + Losses

\* A row, or a run about to insert one, says that article n is that of item i.
Says(n, i) ==
    \/ \E r \in mappings : RowId(r) = n /\ r.item = i
    \/ \E w \in Workers :
          \/ \E r \in own[w] : RowId(r) = n /\ r.item = i
          \/ found[w] # NoRow /\ RowId(found[w]) = n /\ found[w].item = i
          \/ pc[w] = "new" /\ made[w] = n /\ item[w] = i

\* Nobody says of an article that it is that of two items.
OneItem ==
    /\ \A n, i, j : Says(n, i) /\ Says(n, j) => i = j
    /\ \A n, i : Says(n, i) => n \in Nat /\ n < nextId

\* A run that creates a product has no row of the template.
NothingHeld ==
    \A w \in Workers, t \in Templates : w \in Racing(t) => ~Held(w, t)

Paid ==
    /\ IsFiniteSet(DOMAIN store)
    /\ OneItem
    /\ NothingHeld
    /\ \A t \in Templates : PaidFor(t)

PaidInv == MappedInv /\ Paid

\* What the counts are about is finite.
LEMMA Counts ==
    ASSUME WrittenInv, IsFiniteSet(DOMAIN store), NEW t
    PROVE  /\ IsFiniteSet(Articles(t)) /\ Cardinality(Articles(t)) \in Nat
           /\ IsFiniteSet(Holding(t)) /\ Cardinality(Holding(t)) \in Nat
           /\ IsFiniteSet(Racing(t)) /\ Cardinality(Racing(t)) \in Nat
           /\ Cardinality(Workers) \in Nat /\ Allowed \in Nat
           /\ Losses \in Nat
<1>1. IsFiniteSet(Workers)
  BY ProductAssumption
<1>2. IsFiniteSet(Articles(t)) /\ IsFiniteSet(Holding(t)) /\ IsFiniteSet(Racing(t))
  <2>1. Articles(t) \subseteq DOMAIN store  BY DEF Articles
  <2>2. Holding(t) \subseteq Workers  BY DEF Holding
  <2>3. Racing(t) \subseteq Workers  BY DEF Racing
  <2>. QED  BY <1>1, <2>1, <2>2, <2>3, FS_Subset
<1>3. /\ Cardinality(Articles(t)) \in Nat /\ Cardinality(Holding(t)) \in Nat
      /\ Cardinality(Racing(t)) \in Nat /\ Cardinality(Workers) \in Nat
  BY <1>1, <1>2, FS_CardinalityType
<1>4. Allowed \in Nat
  BY <1>3 DEF Allowed
<1>5. Losses \in Nat
  BY DEF Losses, WrittenInv, TypeOK, FaultKinds
<1>. QED  BY <1>2, <1>3, <1>4, <1>5

\* The same after a step.
LEMMA CountsNext ==
    ASSUME WrittenInv', IsFiniteSet(DOMAIN store)', NEW t
    PROVE  /\ IsFiniteSet(Articles(t))' /\ Cardinality(Articles(t))' \in Nat
           /\ IsFiniteSet(Holding(t))' /\ Cardinality(Holding(t))' \in Nat
           /\ IsFiniteSet(Racing(t))' /\ Cardinality(Racing(t))' \in Nat
           /\ Cardinality(Workers) \in Nat /\ Allowed' \in Nat
           /\ Losses' \in Nat
<1>1. IsFiniteSet(Workers)
  BY ProductAssumption
<1>2. IsFiniteSet(Articles(t))' /\ IsFiniteSet(Holding(t))' /\ IsFiniteSet(Racing(t))'
  <2>1. Articles(t)' \subseteq DOMAIN store'  BY DEF Articles
  <2>2. Holding(t)' \subseteq Workers  BY DEF Holding
  <2>3. Racing(t)' \subseteq Workers  BY DEF Racing
  <2>. QED  BY <1>1, <2>1, <2>2, <2>3, FS_Subset
<1>3. /\ Cardinality(Articles(t))' \in Nat /\ Cardinality(Holding(t))' \in Nat
      /\ Cardinality(Racing(t))' \in Nat /\ Cardinality(Workers) \in Nat
  BY <1>1, <1>2, FS_CardinalityType
<1>4. Allowed' \in Nat
  BY <1>3 DEF Allowed
<1>5. Losses' \in Nat
  BY DEF Losses, WrittenInv, TypeOK, FaultKinds
<1>. QED  BY <1>2, <1>3, <1>4, <1>5

\* A set with at most one element more.
LEMMA OneMore ==
    ASSUME NEW S, NEW T, NEW x, IsFiniteSet(S), T \subseteq S \cup {x}
    PROVE  IsFiniteSet(T) /\ Cardinality(T) <= Cardinality(S) + 1
<1> DEFINE U == S \cup {x}
<1>1. /\ IsFiniteSet(U)
      /\ Cardinality(U) = IF x \in S THEN Cardinality(S) ELSE Cardinality(S) + 1
  BY FS_AddElement
<1>2. T \subseteq U  OBVIOUS
<1> HIDE DEF U
<1>3. IsFiniteSet(T) /\ Cardinality(T) <= Cardinality(U)
  BY <1>1, <1>2, FS_Subset
<1>4. Cardinality(S) \in Nat /\ Cardinality(T) \in Nat /\ Cardinality(U) \in Nat
  BY <1>1, <1>3, FS_CardinalityType
<1>. QED  BY <1>1, <1>3, <1>4

\* A set with one element more.
LEMMA OneOut ==
    ASSUME NEW S, NEW T, NEW x, IsFiniteSet(T), S \cup {x} \subseteq T, x \notin S
    PROVE  IsFiniteSet(S) /\ Cardinality(S) + 1 <= Cardinality(T)
<1> DEFINE U == S \cup {x}
<1>1. IsFiniteSet(S)
  BY FS_Subset
<1>2. IsFiniteSet(U) /\ Cardinality(U) = Cardinality(S) + 1
  BY <1>1, FS_AddElement
<1>3. U \subseteq T  OBVIOUS
<1> HIDE DEF U
<1>4. Cardinality(U) <= Cardinality(T)
  BY <1>2, <1>3, FS_Subset
<1>. QED  BY <1>1, <1>2, <1>4

\* One more on the left is balanced by one more on the right.
LEMMA OneMoreRight ==
    ASSUME NEW a \in Nat, NEW c \in Nat, NEW d \in Nat,
           NEW a1 \in Nat, NEW c1 \in Nat, NEW d1 \in Nat,
           a1 <= a + 1, a <= c + d, c <= c1, d <= d1, c + 1 <= c1 \/ d + 1 <= d1
    PROVE  a1 <= c1 + d1
OBVIOUS

\* One less on the right is balanced by one more there.
LEMMA OneForOne ==
    ASSUME NEW a \in Nat, NEW c \in Nat, NEW d \in Nat,
           NEW a1 \in Nat, NEW c1 \in Nat, NEW d1 \in Nat,
           a1 <= a, a <= c + d, c <= c1 + 1, d + 1 <= d1
    PROVE  a1 <= c1 + d1
OBVIOUS

\* A step after which no product more has to be paid for.
Still(t) ==
    /\ Articles(t)' \subseteq Articles(t)
    /\ ~Known(t) => Holding(t) \subseteq Holding(t)'
    /\ Known(t) => Racing(t)' \subseteq Racing(t)
    /\ Known(t)' <=> Known(t)
    /\ Losses <= Losses' /\ Allowed <= Allowed'

\* The arithmetic of the two bounds of PaidFor.
LEMMA SumsCarried ==
    \A a, r, A, L, a1, r1, A1, L1 \in Nat :
        /\ a1 <= a /\ L <= L1 /\ A <= A1
        /\ r1 <= r /\ a + r <= A + L
        => a1 + r1 <= A1 + L1
OBVIOUS

LEMMA BoundCarried ==
    \A a, h, L, a1, h1, L1 \in Nat :
        /\ a1 <= a /\ L <= L1
        /\ h <= h1 /\ a <= h + L
        => a1 <= h1 + L1
OBVIOUS

LEMMA PaidStill ==
    ASSUME WrittenInv, WrittenInv', IsFiniteSet(DOMAIN store), IsFiniteSet(DOMAIN store)',
           NEW t \in Templates, PaidFor(t), Still(t)
    PROVE  PaidFor(t)'
<1> DEFINE a == Cardinality(Articles(t))   h == Cardinality(Holding(t))   r == Cardinality(Racing(t))
<1>1. /\ IsFiniteSet(Articles(t)) /\ IsFiniteSet(Racing(t))
      /\ a \in Nat /\ h \in Nat /\ r \in Nat /\ Allowed \in Nat /\ Losses \in Nat
  BY Counts
<1>2. /\ IsFiniteSet(Holding(t))'
      /\ a' \in Nat /\ h' \in Nat /\ r' \in Nat /\ Allowed' \in Nat /\ Losses' \in Nat
  BY CountsNext
<1>3. a' <= a /\ Losses <= Losses' /\ Allowed <= Allowed'
  BY <1>1, FS_Subset DEF Still
<1>4. Known(t) => r' <= r /\ a + r <= Allowed + Losses
  <2>1. Known(t) => r' <= r  BY <1>1, FS_Subset DEF Still
  <2>2. Known(t) => a + r <= Allowed + Losses  BY DEF PaidFor
  <2>. QED  BY <2>1, <2>2
<1>5. ~Known(t) => h <= h' /\ a <= h + Losses
  <2>1. ~Known(t) => h <= h'  BY <1>2, FS_Subset DEF Still
  <2>2. ~Known(t) => a <= h + Losses  BY DEF PaidFor
  <2>. QED  BY <2>1, <2>2
<1> HIDE DEF a, h, r
<1>6. r' <= r /\ a + r <= Allowed + Losses => a' + r' <= Allowed' + Losses'
  BY <1>1, <1>2, <1>3, SumsCarried, Zenon
<1>7. h <= h' /\ a <= h + Losses => a' <= h' + Losses'
  BY <1>1, <1>2, <1>3, BoundCarried, Zenon
<1>8. (Known(t)' => a' + r' <= Allowed' + Losses') /\ (~Known(t)' => a' <= h' + Losses')
  BY <1>4, <1>5, <1>6, <1>7 DEF Still
<1>. QED  BY <1>8 DEF PaidFor, a, h, r

\* A product more: the run that raced for it holds it, or its answer was lost.
Creation(w, t) ==
    /\ Articles(t)' \subseteq Articles(t) \cup {nextId}
    /\ w \in Racing(t) /\ w \notin Racing(t)' /\ Racing(t)' \subseteq Racing(t)
    /\ w \notin Holding(t) /\ Holding(t) \subseteq Holding(t)'
    /\ Losses <= Losses'
    /\ w \in Holding(t)' \/ Losses + 1 <= Losses'
    /\ Known(t)' <=> Known(t)
    /\ Allowed' = Allowed

LEMMA PaidCreate ==
    ASSUME WrittenInv, WrittenInv', IsFiniteSet(DOMAIN store), IsFiniteSet(DOMAIN store)',
           NEW t \in Templates, PaidFor(t), NEW w \in Workers, Creation(w, t)
    PROVE  PaidFor(t)'
<1> DEFINE a == Cardinality(Articles(t))   h == Cardinality(Holding(t))   r == Cardinality(Racing(t))
<1>1. /\ IsFiniteSet(Articles(t)) /\ IsFiniteSet(Racing(t))
      /\ a \in Nat /\ h \in Nat /\ r \in Nat /\ Allowed \in Nat /\ Losses \in Nat
  BY Counts
<1>2. /\ IsFiniteSet(Holding(t))'
      /\ a' \in Nat /\ h' \in Nat /\ r' \in Nat /\ Allowed' \in Nat /\ Losses' \in Nat
  BY CountsNext
<1>3. a' <= a + 1
  BY <1>1, OneMore DEF Creation
<1>4. r' + 1 <= r
  BY <1>1, OneOut DEF Creation
<1>5. h <= h' /\ (w \in Holding(t)' => h + 1 <= h')
  BY <1>2, FS_Subset, OneOut DEF Creation
<1>6. h <= h' /\ Losses <= Losses' /\ (h + 1 <= h' \/ Losses + 1 <= Losses')
  BY <1>5 DEF Creation
<1>7. (Known(t)' <=> Known(t)) /\ Allowed' = Allowed
  BY DEF Creation
<1>8. (Known(t) => a + r <= Allowed + Losses) /\ (~Known(t) => a <= h + Losses)
  BY DEF PaidFor
<1> HIDE DEF a, h, r
<1>9. a + r <= Allowed + Losses => a' + r' <= Allowed + Losses'
  BY <1>1, <1>2, <1>3, <1>4, <1>6
<1>10. a <= h + Losses => a' <= h' + Losses'
  BY <1>1, <1>2, <1>3, <1>6, OneMoreRight
<1>11. (Known(t)' => a' + r' <= Allowed' + Losses') /\ (~Known(t)' => a' <= h' + Losses')
  BY <1>7, <1>8, <1>9, <1>10
<1>. QED  BY <1>11 DEF PaidFor, a, h, r

\* A transaction that is lost pays for what its run held.
LEMMA PaidRollback ==
    ASSUME WrittenInv, WrittenInv', IsFiniteSet(DOMAIN store), IsFiniteSet(DOMAIN store)',
           NEW t \in Templates, PaidFor(t), NEW w \in Workers,
           Articles(t)' \subseteq Articles(t),
           Racing(t)' \subseteq Racing(t),
           Holding(t) \subseteq Holding(t)' \cup {w},
           Losses + 1 <= Losses',
           Known(t)' <=> Known(t),
           Allowed' = Allowed
    PROVE  PaidFor(t)'
<1> DEFINE a == Cardinality(Articles(t))   h == Cardinality(Holding(t))   r == Cardinality(Racing(t))
<1>1. /\ IsFiniteSet(Articles(t)) /\ IsFiniteSet(Racing(t))
      /\ a \in Nat /\ h \in Nat /\ r \in Nat /\ Allowed \in Nat /\ Losses \in Nat
  BY Counts
<1>2. /\ IsFiniteSet(Holding(t))'
      /\ a' \in Nat /\ h' \in Nat /\ r' \in Nat /\ Allowed' \in Nat /\ Losses' \in Nat
  BY CountsNext
<1>3. a' <= a /\ r' <= r
  BY <1>1, FS_Subset
<1>4. h <= h' + 1
  BY <1>2, OneMore
<1>5. (Known(t) => a + r <= Allowed + Losses) /\ (~Known(t) => a <= h + Losses)
  BY DEF PaidFor
<1>6. Known(t) => a' + r' <= Allowed' + Losses'
  <2> SUFFICES ASSUME Known(t)  PROVE a' + r' <= Allowed' + Losses'
    OBVIOUS
  <2>1. a + r <= Allowed + Losses  BY <1>5
  <2> HIDE DEF a, h, r
  <2>. QED  BY <1>1, <1>2, <1>3, <2>1
<1>7. ~Known(t) => a' <= h' + Losses'
  <2> SUFFICES ASSUME ~Known(t)  PROVE a' <= h' + Losses'
    OBVIOUS
  <2>1. a <= h + Losses  BY <1>5
  <2> HIDE DEF a, h, r
  <2>. QED  BY <1>1, <1>2, <1>3, <1>4, <2>1, OneForOne
<1>. QED  BY <1>6, <1>7 DEF PaidFor

\* The runs that hold a product of the template and those that race for one are
\* different runs, and no more than may be under way.
LEMMA RunsApart ==
    ASSUME MappedInv, NothingHeld, IsFiniteSet(DOMAIN store), NEW t \in Templates
    PROVE  Cardinality(Holding(t)) + Cardinality(Racing(t)) <= Allowed
<1> DEFINE U == Holding(t) \cup Racing(t)
<1>0. WrittenInv  BY DEF MappedInv
<1>1. /\ IsFiniteSet(Holding(t)) /\ IsFiniteSet(Racing(t))
      /\ Cardinality(Holding(t)) \in Nat /\ Cardinality(Racing(t)) \in Nat
      /\ Cardinality(Workers) \in Nat
  BY <1>0, Counts
<1>2. Holding(t) \cap Racing(t) = {}
  BY DEF NothingHeld, Holding, Racing
<1>3. /\ IsFiniteSet(U)
      /\ Cardinality(U) = Cardinality(Holding(t)) + Cardinality(Racing(t)) - 0
  BY <1>1, <1>2, FS_Union, FS_EmptySet
<1>4. U \subseteq Workers
  BY DEF Holding, Racing
<1> HIDE DEF U
<1>5. CASE overlapped
  <2>1. Cardinality(U) <= Cardinality(Workers)
    BY <1>4, FS_Subset, ProductAssumption
  <2>. QED  BY <1>1, <1>3, <1>5, <2>1 DEF Allowed
<1>6. CASE ~overlapped
  <2>1. \A v \in U : pc[v] # "idle"
    BY <1>6 DEF U, Holding, Racing, Held, MappedInv, OnceInv
  <2>2. \A v, w \in U : v = w
    BY <1>4, <1>6, <2>1 DEF MappedInv, OnceInv, Solo
  <2>3. Cardinality(U) <= 1
    <3>1. CASE U = {}
      BY <3>1, FS_EmptySet
    <3>2. CASE U # {}
      <4>1. PICK v \in U : TRUE  BY <3>2
      <4>2. U = {v}  BY <2>2
      <4>3. Cardinality({v}) = 1  BY FS_Singleton
      <4>. QED  BY <4>2, <4>3
    <3>. QED  BY <3>1, <3>2
  <2>. QED  BY <1>1, <1>3, <1>6, <2>3 DEF Allowed
<1>. QED  BY <1>5, <1>6

LEMMA SumsBounded ==
    ASSUME NEW a \in Nat, NEW b \in Nat, NEW h \in Nat, NEW r \in Nat, NEW q \in Nat,
           NEW bound \in Nat, NEW extra \in Nat,
           b <= a, q <= r, h + r <= bound, a <= h + extra
    PROVE  b + q <= bound + extra
OBVIOUS

\* The first commit that speaks of the template.
LEMMA PaidCommit ==
    ASSUME MappedInv, WrittenInv', IsFiniteSet(DOMAIN store), IsFiniteSet(DOMAIN store)',
           NothingHeld, NEW t \in Templates, PaidFor(t),
           Articles(t)' \subseteq Articles(t),
           Racing(t)' \subseteq Racing(t),
           ~Known(t), Known(t)', Losses' = Losses, Allowed' = Allowed
    PROVE  PaidFor(t)'
<1> DEFINE a == Cardinality(Articles(t))   h == Cardinality(Holding(t))   r == Cardinality(Racing(t))
<1>0. WrittenInv  BY DEF MappedInv
<1>1. /\ IsFiniteSet(Articles(t)) /\ IsFiniteSet(Racing(t))
      /\ a \in Nat /\ h \in Nat /\ r \in Nat /\ Allowed \in Nat /\ Losses \in Nat
  BY <1>0, Counts
<1>2. a' \in Nat /\ r' \in Nat
  BY CountsNext
<1>3. a' <= a /\ r' <= r
  BY <1>1, FS_Subset
<1>4. h + r <= Allowed
  BY RunsApart
<1>5. a <= h + Losses
  BY DEF PaidFor
<1>6. a' + r' <= Allowed' + Losses'
  <2> HIDE DEF a, h, r
  <2>1. a' + r' <= Allowed + Losses  BY <1>1, <1>2, <1>3, <1>4, <1>5, SumsBounded
  <2>. QED  BY <2>1
<1>. QED  BY <1>6 DEF PaidFor

\* What a step of w leaves to the other runs.
LEMMA OthersSame ==
    ASSUME NEW w \in Workers, \A v \in Workers \ {w} : Untouched(v), UNCHANGED variants, NEW t
    PROVE  \A v \in Workers \ {w} :
              /\ v \in Holding(t)' <=> v \in Holding(t)
              /\ v \in Racing(t)' <=> v \in Racing(t)
              /\ Held(v, t)' <=> Held(v, t)
BY DEF Untouched, Holding, Racing, Held, Family

LEMMA KnownSame ==
    ASSUME UNCHANGED <<variants, mappings>>, NEW t
    PROVE  Known(t)' <=> Known(t)
BY DEF Known, Family

LEMMA NothingHeldStep ==
    ASSUME NothingHeld, NEW w \in Workers, \A v \in Workers \ {w} : Untouched(v),
           UNCHANGED variants,
           \A t \in Templates : w \in Racing(t)' => ~Held(w, t)'
    PROVE  NothingHeld'
BY OthersSame DEF NothingHeld

\* Who says something of an article after a step of w.
LEMMA SaysStep ==
    ASSUME NEW w \in Workers, \A v \in Workers \ {w} : Untouched(v),
           NEW n, NEW i, Says(n, i)'
    PROVE  \/ Says(n, i)
           \/ \E r \in mappings' : RowId(r) = n /\ r.item = i
           \/ \E r \in own'[w] : RowId(r) = n /\ r.item = i
           \/ found'[w] # NoRow /\ RowId(found'[w]) = n /\ found'[w].item = i
           \/ pc'[w] = "new" /\ made'[w] = n /\ item'[w] = i
<1>1. \A r : RowId(r)' = RowId(r)
  BY DEF RowId, Target
<1>2. CASE \E r \in mappings' : RowId(r)' = n /\ r.item = i
  BY <1>1, <1>2
<1>3. ASSUME NEW v \in Workers,
             \/ \E r \in own'[v] : RowId(r)' = n /\ r.item = i
             \/ found'[v] # NoRow /\ RowId(found[v])' = n /\ found'[v].item = i
             \/ pc'[v] = "new" /\ made'[v] = n /\ item'[v] = i
      PROVE  \/ Says(n, i)
             \/ \E r \in own'[w] : RowId(r) = n /\ r.item = i
             \/ found'[w] # NoRow /\ RowId(found'[w]) = n /\ found'[w].item = i
             \/ pc'[w] = "new" /\ made'[w] = n /\ item'[w] = i
  <2>1. RowId(found[v])' = RowId(found'[v])
    BY DEF RowId, Target
  <2>2. CASE v = w
    BY <1>1, <1>3, <2>1, <2>2
  <2>3. CASE v # w
    BY <1>1, <1>3, <2>1, <2>3 DEF Says, Untouched
  <2>. QED  BY <2>2, <2>3
<1>. QED  BY <1>2, <1>3 DEF Says

LEMMA OneItemKept ==
    ASSUME WrittenInv, OneItem, nextId' = nextId \/ nextId' = nextId + 1,
           \A n, i : Says(n, i)' => Says(n, i)
    PROVE  OneItem'
<1>1. nextId \in Nat
  BY DEF WrittenInv, TypeOK, Ids
<1>2. \A n \in Nat : n < nextId => n < nextId'
  BY <1>1
<1>. QED  BY <1>2 DEF OneItem

\* The allowance does not shrink.
LEMMA BeginAllows ==
    ASSUME WrittenInv, NEW w \in Workers, Begin(w)
    PROVE  Allowed <= Allowed'
<1>1. IsFiniteSet(Workers) /\ Workers # {}
  BY ProductAssumption
<1>2. Cardinality(Workers) \in Nat /\ Cardinality(Workers) # 0
  BY <1>1, FS_CardinalityType, FS_EmptySet
<1>3. overlapped => overlapped'
  BY DEF Begin
<1>. QED  BY <1>2, <1>3 DEF Allowed

LEMMA SpendLosses ==
    ASSUME WrittenInv, NEW kind \in FaultKinds, Spend(kind)
    PROVE  /\ Losses <= Losses'
           /\ kind \in {"lost", "rollback"} => Losses + 1 <= Losses'
<1>1. spent \in [FaultKinds -> Nat]
  BY DEF WrittenInv, TypeOK
<1>2. spent' = [spent EXCEPT ![kind] = @ + 1]
  BY DEF Spend
<1>3. /\ spent["lost"] \in Nat /\ spent["rollback"] \in Nat
      /\ spent'["lost"] = spent["lost"] + (IF kind = "lost" THEN 1 ELSE 0)
      /\ spent'["rollback"] = spent["rollback"] + (IF kind = "rollback" THEN 1 ELSE 0)
  BY <1>1, <1>2 DEF FaultKinds
<1>. QED  BY <1>3 DEF Losses

\* A step of a run that changes no row, calls for nothing and holds nothing more.
LEMMA PlainStep ==
    ASSUME PaidInv, WrittenInv', NEW w \in Workers, \A v \in Workers \ {w} : Untouched(v),
           UNCHANGED <<variants, mappings, own>>,
           pc[w] # "new", pc'[w] \notin {"call", "new"},
           found'[w] = found[w] \/ found'[w] = NoRow
    PROVE  /\ NothingHeld'
           /\ \A n, i : Says(n, i)' => Says(n, i)
           /\ \A t \in Templates :
                 /\ Holding(t)' = Holding(t)
                 /\ Racing(t)' \subseteq Racing(t) \ {w}
                 /\ Known(t)' <=> Known(t)
<1>1. NothingHeld'
  <2>1. \A t \in Templates : w \notin Racing(t)'  BY DEF Racing
  <2>. QED  BY <2>1, NothingHeldStep DEF PaidInv, Paid
<1>2. ASSUME NEW n, NEW i, Says(n, i)'  PROVE Says(n, i)
  BY <1>2, SaysStep DEF Says
<1>3. ASSUME NEW t \in Templates
      PROVE  /\ Holding(t)' = Holding(t)
             /\ Racing(t)' \subseteq Racing(t) \ {w}
             /\ Known(t)' <=> Known(t)
  <2>1. w \in Holding(t)' <=> w \in Holding(t)
    BY DEF Holding, Held, Family
  <2>2. w \notin Racing(t)'  BY DEF Racing
  <2>3. Holding(t) \subseteq Workers /\ Racing(t)' \subseteq Workers /\ Holding(t)' \subseteq Workers
    BY DEF Holding, Racing
  <2>. QED  BY <2>1, <2>2, <2>3, OthersSame, KnownSame
<1>. QED  BY <1>1, <1>2, <1>3

LEMMA PlainPaid ==
    ASSUME PaidInv, WrittenInv', NEW w \in Workers, \A v \in Workers \ {w} : Untouched(v),
           UNCHANGED <<variants, mappings, own>>,
           pc[w] # "new", pc'[w] \notin {"call", "new"},
           found'[w] = found[w] \/ found'[w] = NoRow,
           IsFiniteSet(DOMAIN store)', nextId' = nextId \/ nextId' = nextId + 1,
           \A t \in Templates : Articles(t)' \subseteq Articles(t),
           Losses <= Losses' /\ Allowed <= Allowed'
    PROVE  Paid'
<1>1. WrittenInv /\ OneItem /\ IsFiniteSet(DOMAIN store)
  BY DEF PaidInv, MappedInv, Paid
<1>2. NothingHeld' /\ OneItem'
  BY <1>1, PlainStep, OneItemKept
<1>3. ASSUME NEW t \in Templates  PROVE PaidFor(t)'
  <2>1. Still(t)
    BY PlainStep DEF Still
  <2>. QED  BY <1>1, <2>1, PaidStill DEF PaidInv, Paid
<1>. QED  BY <1>2, <1>3 DEF Paid

\* What a call does to the products of a template.
LEMMA UpdatedArticles ==
    ASSUME WrittenInv, NEW w \in Workers, StoreUpdates(w), NEW t
    PROVE  Articles(t)' \subseteq Articles(t) /\ DOMAIN store' = DOMAIN store
<1> DEFINE n == Target(item[w], found[w])
           version == plan[w][item[w]]
<1>1. store' = [store EXCEPT ![n].version = version]
  BY DEF StoreUpdates
<1> HIDE DEF version
<1>2. DOMAIN store' = DOMAIN store
  BY <1>1
<1>3. ASSUME NEW m \in DOMAIN store  PROVE store'[m].item = store[m].item
  <2>1. store[m] \in Article  BY DEF WrittenInv, TypeOK
  <2>2. CASE m # n  BY <1>1, <2>2
  <2>3. CASE m = n
    <3>1. store'[m] = [store[m] EXCEPT !.version = version]  BY <1>1, <2>3
    <3>. QED  BY <2>1, <3>1 DEF Article
  <2>. QED  BY <2>2, <2>3
<1>. QED  BY <1>2, <1>3 DEF Articles

LEMMA CreatedArticles ==
    ASSUME WrittenInv, NEW w \in Workers, StoreCreates(w), IsFiniteSet(DOMAIN store), NEW t
    PROVE  /\ item[w] = t => Articles(t)' \subseteq Articles(t) \cup {nextId}
           /\ item[w] # t => Articles(t)' \subseteq Articles(t)
           /\ IsFiniteSet(DOMAIN store)'
<1>1. DOMAIN store' = DOMAIN store \cup {nextId}
  BY DEF StoreCreates
<1>2. IsFiniteSet(DOMAIN store)'
  BY <1>1, FS_AddElement
<1>3. \A m \in DOMAIN store : m # nextId => store'[m] = store[m]
  BY DEF StoreCreates
<1>4. store'[nextId].item = item[w]
  BY DEF StoreCreates
<1>. QED  BY <1>1, <1>2, <1>3, <1>4 DEF Articles

LEMMA CreatePaidFor ==
    ASSUME PaidInv, WrittenInv', NEW w \in Workers, Create(w), Effect(w)
    PROVE  Paid'
<1>1. /\ WrittenInv /\ OneItem /\ NothingHeld /\ IsFiniteSet(DOMAIN store)
      /\ \A v \in Workers \ {w} : Untouched(v)
  BY DEF PaidInv, MappedInv, Paid, Effect
<1>2. /\ pc[w] = "call" /\ pc'[w] = "new" /\ found[w] = NoRow /\ found'[w] = NoRow
      /\ made'[w] = nextId /\ nextId' = nextId + 1 /\ item'[w] = item[w] /\ own'[w] = own[w]
      /\ UNCHANGED <<variants, mappings, overlapped, spent>>
      /\ StoreCreates(w)
  BY <1>1 DEF WrittenInv, TypeOK, Create, Goto, StoreCreates, catalogue
<1>3. \A n, i : Says(n, i)' => Says(n, i) \/ (n = nextId /\ i = item[w])
  <2> SUFFICES ASSUME NEW n, NEW i, Says(n, i)'
               PROVE  Says(n, i) \/ (n = nextId /\ i = item[w])
    OBVIOUS
  <2>. QED  BY <1>1, <1>2, SaysStep DEF Says
<1>4. OneItem'
  <2>1. nextId \in Nat  BY <1>1 DEF WrittenInv, TypeOK, Ids
  <2>2. \A i : ~Says(nextId, i)  BY <1>1, <2>1 DEF OneItem
  <2>3. \A n \in Nat : n < nextId => n < nextId'  BY <1>2, <2>1
  <2>4. nextId < nextId'  BY <1>2, <2>1
  <2>. QED  BY <1>1, <1>3, <2>1, <2>2, <2>3, <2>4 DEF OneItem
<1>5. NothingHeld'
  <2>1. \A t \in Templates : w \notin Racing(t)'  BY <1>2 DEF Racing
  <2>. QED  BY <1>1, <1>2, <2>1, NothingHeldStep
<1>6. IsFiniteSet(DOMAIN store)'
  BY <1>1, <1>2, CreatedArticles
<1>7. Losses' = Losses /\ Allowed' = Allowed /\ Losses \in Nat /\ Allowed \in Nat
  BY <1>1, <1>2, Counts DEF Losses, Allowed
<1>8. ASSUME NEW t \in Templates  PROVE PaidFor(t)'
  <2>1. Known(t)' <=> Known(t)
    BY <1>2, KnownSame
  <2>2. w \in Holding(t) => w \in Holding(t)'
    BY <1>2 DEF Holding, Held, Family
  <2>3. Holding(t) \subseteq Workers /\ Racing(t)' \subseteq Workers /\ w \notin Racing(t)'
    BY <1>2 DEF Holding, Racing
  <2>4. Holding(t) \subseteq Holding(t)' /\ Racing(t)' \subseteq Racing(t)
    BY <1>1, <1>2, <2>2, <2>3, OthersSame
  <2>5. CASE item[w] = t
    <3>1. w \in Racing(t)  BY <1>2, <2>5 DEF Racing
    <3>2. w \notin Holding(t)  BY <1>1, <1>2, <3>1 DEF NothingHeld, Holding
    <3>3. w \in Holding(t)'  BY <1>2, <2>5 DEF Holding
    <3>4. Articles(t)' \subseteq Articles(t) \cup {nextId}
      BY <1>1, <1>2, <2>5, CreatedArticles
    <3>5. Losses <= Losses'  BY <1>7
    <3>6. Creation(w, t)
      BY <1>7, <2>1, <2>3, <2>4, <3>1, <3>2, <3>3, <3>4, <3>5 DEF Creation
    <3>. QED  BY <1>1, <1>6, <3>6, PaidCreate DEF PaidInv, Paid
  <2>6. CASE item[w] # t
    <3>1. Articles(t)' \subseteq Articles(t)
      BY <1>1, <1>2, <2>6, CreatedArticles
    <3>2. Losses <= Losses' /\ Allowed <= Allowed'  BY <1>7
    <3>3. Still(t)  BY <2>1, <2>4, <3>1, <3>2 DEF Still
    <3>. QED  BY <1>1, <1>6, <3>3, PaidStill DEF PaidInv, Paid
  <2>. QED  BY <2>5, <2>6
<1>. QED  BY <1>4, <1>5, <1>6, <1>8 DEF Paid

\* The product that the store has made without an answer.
LEMMA LostPaidFor ==
    ASSUME PaidInv, WrittenInv', NEW w \in Workers, AnswerLost(w), Effect(w)
    PROVE  Paid'
<1>1. /\ WrittenInv /\ OneItem /\ NothingHeld /\ IsFiniteSet(DOMAIN store)
      /\ \A v \in Workers \ {w} : Untouched(v)
  BY DEF PaidInv, MappedInv, Paid, Effect
<1>2. /\ pc[w] = "call" /\ pc'[w] = "next" /\ found'[w] = NoRow
      /\ nextId' = nextId \/ nextId' = nextId + 1
      /\ UNCHANGED <<variants, mappings, own, overlapped>>
  BY <1>1 DEF WrittenInv, TypeOK, AnswerLost, NextTemplate, Goto, StoreCreates, StoreUpdates,
              catalogue
<1>3. Losses + 1 <= Losses' /\ Losses <= Losses'
  BY <1>1, SpendLosses DEF AnswerLost, FaultKinds
<1>4. Allowed' = Allowed /\ Allowed <= Allowed'
  BY <1>1, <1>2, Counts DEF Allowed
<1>5. CASE StoreUpdates(w)
  <2>1. IsFiniteSet(DOMAIN store)' /\ \A t : Articles(t)' \subseteq Articles(t)
    BY <1>1, <1>5, UpdatedArticles
  <2>. QED  BY <1>1, <1>2, <1>3, <1>4, <2>1, PlainPaid
<1>6. CASE StoreCreates(w)
  <2>1. found[w] = NoRow  BY <1>6 DEF StoreCreates
  <2>2. IsFiniteSet(DOMAIN store)'
    BY <1>1, <1>6, CreatedArticles
  <2>3. NothingHeld' /\ OneItem'
    BY <1>1, <1>2, PlainStep, OneItemKept
  <2>4. ASSUME NEW t \in Templates  PROVE PaidFor(t)'
    <3>1. /\ Holding(t)' = Holding(t) /\ Racing(t)' \subseteq Racing(t) \ {w}
          /\ Known(t)' <=> Known(t)
      BY <1>1, <1>2, PlainStep
    <3>2. CASE item[w] = t
      <4>1. w \in Racing(t)  BY <1>2, <2>1, <3>2 DEF Racing
      <4>2. w \notin Holding(t)  BY <1>1, <1>2, <4>1 DEF NothingHeld, Holding
      <4>3. Articles(t)' \subseteq Articles(t) \cup {nextId}
        BY <1>1, <1>6, <3>2, CreatedArticles
      <4>4. Creation(w, t)
        BY <1>3, <1>4, <3>1, <4>1, <4>2, <4>3 DEF Creation
      <4>. QED  BY <1>1, <2>2, <4>4, PaidCreate DEF PaidInv, Paid
    <3>3. CASE item[w] # t
      <4>1. Articles(t)' \subseteq Articles(t)
        BY <1>1, <1>6, <3>3, CreatedArticles
      <4>2. Still(t)  BY <1>3, <1>4, <3>1, <4>1 DEF Still
      <4>. QED  BY <1>1, <2>2, <4>2, PaidStill DEF PaidInv, Paid
    <3>. QED  BY <3>2, <3>3
  <2>. QED  BY <2>2, <2>3, <2>4 DEF Paid
<1>. QED  BY <1>5, <1>6 DEF AnswerLost

\* A run sees what is committed of a template, in its own version or that one.
LEMMA KnownIsSeen ==
    ASSUME OneItem, NEW w \in Workers, NEW t \in Templates, Known(t) \/ Held(w, t)
    PROVE  \E r \in View(w) : r.item \in Family(t)
<1>1. CASE Held(w, t)
  BY <1>1 DEF Held, View
<1>2. CASE Known(t)
  <2>1. PICK r \in mappings : r.item \in Family(t)  BY <1>2 DEF Known
  <2>2. CASE r \in View(w)  BY <2>1, <2>2
  <2>3. CASE r \notin View(w)
    <3>1. PICK s \in own[w] : RowId(r) = RowId(s)
      BY <2>3 DEF View, SameRow, RowId
    <3>2. Says(RowId(r), r.item) /\ Says(RowId(r), s.item)
      BY <3>1 DEF Says
    <3>3. s.item = r.item  BY <3>2 DEF OneItem
    <3>. QED  BY <2>1, <3>3 DEF View
  <2>. QED  BY <2>2, <2>3
<1>. QED  BY <1>1, <1>2

LEMMA NeedsCallPaid ==
    ASSUME PaidInv, WrittenInv', NEW w \in Workers, NEW i \in Items, NeedsCall(w, i), Effect(w)
    PROVE  Paid'
<1>1. /\ WrittenInv /\ OneItem /\ NothingHeld /\ IsFiniteSet(DOMAIN store)
      /\ \A v \in Workers \ {w} : Untouched(v)
  BY DEF PaidInv, MappedInv, Paid, Effect
<1>2. PICK r \in Rows(w, i) \cup {NoRow} :
         LookUp(w, i, r) /\ Goto(w, "call") /\ item' = [item EXCEPT ![w] = i]
         /\ found' = [found EXCEPT ![w] = r]
  BY DEF NeedsCall
<1>3. /\ pc[w] = "next" /\ pc'[w] = "call" /\ item'[w] = i /\ found'[w] = r
      /\ UNCHANGED <<variants, mappings, own, store, nextId, overlapped, spent>>
  BY <1>1, <1>2 DEF WrittenInv, TypeOK, Goto, LookUp, catalogue
<1>4. r = NoRow => Rows(w, i) = {}
  BY <1>1, <1>2, NoRowIsNone, LookedUp DEF LookUp
<1>5. r # NoRow => Says(RowId(r), r.item)
  BY <1>2 DEF Rows, View, Says
<1>6. \A n, j : Says(n, j)' => Says(n, j)
  <2> SUFFICES ASSUME NEW n, NEW j, Says(n, j)'
               PROVE  Says(n, j)
    OBVIOUS
  <2>1. \A q \in mappings \cup own[w] : Says(RowId(q), q.item)  BY DEF Says
  <2>. QED  BY <1>1, <1>3, <1>5, <2>1, SaysStep
<1>7. OneItem'
  BY <1>1, <1>3, <1>6, OneItemKept
<1>8. ASSUME NEW t \in Templates, w \in Racing(t)'
      PROVE  ~Known(t) /\ ~Held(w, t)
  <2>1. i = t /\ r = NoRow  BY <1>3, <1>8 DEF Racing
  <2>2. \A s \in View(w) : s.item \notin Family(t)
    BY <1>4, <2>1 DEF Rows, Family
  <2>. QED  BY <1>1, <2>2, KnownIsSeen
<1>9. NothingHeld'
  <2>1. \A t \in Templates : w \in Racing(t)' => ~Held(w, t)'
    BY <1>3, <1>8 DEF Held, Family
  <2>. QED  BY <1>1, <1>3, <2>1, NothingHeldStep
<1>10. Losses <= Losses' /\ Allowed <= Allowed'
  <2>1. Losses' = Losses /\ Allowed' = Allowed  BY <1>3 DEF Losses, Allowed
  <2>. QED  BY <1>1, <2>1, Counts
<1>11. ASSUME NEW t \in Templates  PROVE PaidFor(t)'
  <2>1. Known(t)' <=> Known(t)
    BY <1>3, KnownSame
  <2>2. w \in Holding(t) => w \in Holding(t)'
    BY <1>3 DEF Holding, Held, Family
  <2>3. Known(t) => w \notin Racing(t)'  BY <1>8
  <2>4. Holding(t) \subseteq Workers /\ Racing(t)' \subseteq Workers
    BY DEF Holding, Racing
  <2>5. Articles(t)' \subseteq Articles(t)  BY <1>3 DEF Articles
  <2>6. Holding(t) \subseteq Holding(t)' /\ (Known(t) => Racing(t)' \subseteq Racing(t))
    BY <1>1, <1>3, <2>2, <2>3, <2>4, OthersSame
  <2>7. Still(t)  BY <1>10, <2>1, <2>5, <2>6 DEF Still
  <2>8. IsFiniteSet(DOMAIN store)'  BY <1>1, <1>3
  <2>. QED  BY <1>1, <2>7, <2>8, PaidStill DEF PaidInv, Paid
<1>. QED  BY <1>1, <1>3, <1>7, <1>9, <1>11 DEF Paid

\* The row of a template that a run saves is about the article it has made, and
\* from then on the run holds it.
LEMMA SaveNewPaid ==
    ASSUME PaidInv, WrittenInv', NEW w \in Workers, SaveNew(w), Effect(w)
    PROVE  Paid'
<1> DEFINE i == item[w]
           row == [item |-> i, product |-> product[w],
                   variation |-> IF i \in Templates THEN 0 ELSE made[w],
                   hash |-> Hash(w, i)]
<1>1. /\ WrittenInv /\ OneItem /\ NothingHeld /\ IsFiniteSet(DOMAIN store)
      /\ \A v \in Workers \ {w} : Untouched(v)
  BY DEF PaidInv, MappedInv, Paid, Effect
<1>2. /\ pc[w] = "new" /\ pc'[w] \in {"next", "variants"} /\ found'[w] = NoRow
      /\ UNCHANGED <<variants, mappings, store, nextId, overlapped, spent>>
  BY <1>1 DEF WrittenInv, TypeOK, SaveNew, Done, Goto, catalogue
<1>3. own \in [Workers -> SUBSET RowType]
  BY <1>1 DEF WrittenInv, TypeOK
<1>4. \/ i \in Templates /\ Rows(w, i) # {} /\ own'[w] = own[w]
      \/ own'[w] = own[w] \cup {row}
  BY <1>3 DEF SaveNew
<1>5. row.item = i /\ RowId(row) = made[w]
  BY <1>1, <1>2 DEF RowId, Target, WrittenInv, InHand
<1>6. Says(made[w], i)
  BY <1>2 DEF Says
<1> HIDE DEF row
<1>7. \A n, j : Says(n, j)' => Says(n, j)
  <2> SUFFICES ASSUME NEW n, NEW j, Says(n, j)'
               PROVE  Says(n, j)
    OBVIOUS
  <2>1. \A r \in own'[w] : r \in own[w] \/ r = row  BY <1>4
  <2>. QED  BY <1>1, <1>2, <1>5, <1>6, <2>1, SaysStep DEF Says
<1>8. OneItem'
  BY <1>1, <1>2, <1>7, OneItemKept
<1>9. NothingHeld'
  <2>1. \A t \in Templates : w \notin Racing(t)'  BY <1>2 DEF Racing
  <2>. QED  BY <1>1, <1>2, <2>1, NothingHeldStep
<1>10. Losses <= Losses' /\ Allowed <= Allowed'
  <2>1. Losses' = Losses /\ Allowed' = Allowed  BY <1>2 DEF Losses, Allowed
  <2>. QED  BY <1>1, <2>1, Counts
<1>11. ASSUME NEW t \in Templates  PROVE PaidFor(t)'
  <2>1. Known(t)' <=> Known(t)
    BY <1>2, KnownSame
  <2>2. Held(w, t) => w \in Holding(t)'
    BY <1>2, <1>4 DEF Holding, Held, Family
  <2>3. ~Known(t) /\ i = t => w \in Holding(t)'
    <3>1. own'[w] = own[w] \cup {row} /\ i = t => w \in Holding(t)'
      BY <1>5 DEF Holding, Held, Family
    <3>2. Rows(w, t) # {} => Known(t) \/ Held(w, t)
      BY <1>2 DEF Rows, View, Known, Held, Family
    <3>. QED  BY <1>4, <2>2, <3>1, <3>2
  <2>4. ~Known(t) /\ w \in Holding(t) => w \in Holding(t)'
    BY <2>2, <2>3 DEF Holding
  <2>5. Holding(t) \subseteq Workers /\ Racing(t)' \subseteq Workers /\ w \notin Racing(t)'
    BY <1>2 DEF Holding, Racing
  <2>6. Articles(t)' \subseteq Articles(t)  BY <1>2 DEF Articles
  <2>7. (~Known(t) => Holding(t) \subseteq Holding(t)') /\ Racing(t)' \subseteq Racing(t)
    BY <1>1, <1>2, <2>4, <2>5, OthersSame
  <2>8. Still(t)  BY <1>10, <2>1, <2>6, <2>7 DEF Still
  <2>9. IsFiniteSet(DOMAIN store)'  BY <1>1, <1>2
  <2>. QED  BY <1>1, <2>8, <2>9, PaidStill DEF PaidInv, Paid
<1>. QED  BY <1>1, <1>2, <1>8, <1>9, <1>11 DEF Paid

\* The new version of a row is of the same item.
LEMMA SaveHashPaid ==
    ASSUME PaidInv, WrittenInv', NEW w \in Workers, SaveHash(w), Effect(w)
    PROVE  Paid'
<1> DEFINE row == [found[w] EXCEPT !.hash = Hash(w, item[w])]
<1>1. /\ WrittenInv /\ OneItem /\ NothingHeld /\ IsFiniteSet(DOMAIN store)
      /\ \A v \in Workers \ {w} : Untouched(v)
  BY DEF PaidInv, MappedInv, Paid, Effect
<1>2. /\ pc[w] = "changed" /\ pc'[w] \in {"next", "variants"} /\ found'[w] = NoRow
      /\ UNCHANGED <<variants, mappings, store, nextId, overlapped, spent>>
  BY <1>1 DEF WrittenInv, TypeOK, SaveHash, Done, Goto, catalogue
<1>3. own'[w] = {s \in own[w] : ~SameRow(s, row)} \cup {row}
  BY <1>1 DEF WrittenInv, TypeOK, SaveHash
<1>4. found[w] # NoRow /\ found[w] \in RowType
  BY <1>1, <1>2 DEF WrittenInv, TypeOK
<1>5. row.item = found[w].item /\ RowId(row) = RowId(found[w])
  BY <1>4 DEF RowType, RowId, Target
<1>6. Says(RowId(row), row.item)
  BY <1>4, <1>5 DEF Says
<1> HIDE DEF row
<1>7. \A s \in own[w] : SameRow(s, row) => s.item = row.item
  <2> SUFFICES ASSUME NEW s \in own[w], RowId(s) = RowId(row)
               PROVE  s.item = row.item
    BY DEF SameRow, RowId
  <2>1. Says(RowId(s), s.item)  BY DEF Says
  <2>. QED  BY <1>1, <1>6, <2>1 DEF OneItem
<1>8. \A n, j : Says(n, j)' => Says(n, j)
  <2> SUFFICES ASSUME NEW n, NEW j, Says(n, j)'
               PROVE  Says(n, j)
    OBVIOUS
  <2>1. \A r \in own'[w] : r \in own[w] \/ r = row  BY <1>3
  <2>. QED  BY <1>1, <1>2, <1>6, <2>1, SaysStep DEF Says
<1>9. OneItem'
  BY <1>1, <1>2, <1>8, OneItemKept
<1>10. NothingHeld'
  <2>1. \A t \in Templates : w \notin Racing(t)'  BY <1>2 DEF Racing
  <2>. QED  BY <1>1, <1>2, <2>1, NothingHeldStep
<1>11. Losses <= Losses' /\ Allowed <= Allowed'
  <2>1. Losses' = Losses /\ Allowed' = Allowed  BY <1>2 DEF Losses, Allowed
  <2>. QED  BY <1>1, <2>1, Counts
<1>12. ASSUME NEW t \in Templates  PROVE PaidFor(t)'
  <2>1. Known(t)' <=> Known(t)
    BY <1>2, KnownSame
  <2>2. Held(w, t) => Held(w, t)'
    BY <1>2, <1>3, <1>7 DEF Held, Family
  <2>3. w \in Holding(t) => w \in Holding(t)'
    BY <1>2, <2>2 DEF Holding
  <2>4. Holding(t) \subseteq Workers /\ Racing(t)' \subseteq Workers /\ w \notin Racing(t)'
    BY <1>2 DEF Holding, Racing
  <2>5. Articles(t)' \subseteq Articles(t)  BY <1>2 DEF Articles
  <2>6. Holding(t) \subseteq Holding(t)' /\ Racing(t)' \subseteq Racing(t)
    BY <1>1, <1>2, <2>3, <2>4, OthersSame
  <2>7. Still(t)  BY <1>11, <2>1, <2>5, <2>6 DEF Still
  <2>8. IsFiniteSet(DOMAIN store)'  BY <1>1, <1>2
  <2>. QED  BY <1>1, <2>7, <2>8, PaidStill DEF PaidInv, Paid
<1>. QED  BY <1>1, <1>2, <1>9, <1>10, <1>12 DEF Paid

\* A run that commits makes known what it held; one that is rolled back pays.
LEMMA ClosePaid ==
    ASSUME PaidInv, WrittenInv', NEW w \in Workers, CommitRun(w) \/ RollbackRun(w), Effect(w)
    PROVE  Paid'
<1>1. /\ WrittenInv /\ OneItem /\ NothingHeld /\ IsFiniteSet(DOMAIN store)
      /\ \A v \in Workers \ {w} : Untouched(v)
  BY DEF PaidInv, MappedInv, Paid, Effect
<1>2. /\ pc'[w] = "idle" /\ own'[w] = {} /\ found'[w] = NoRow
      /\ UNCHANGED <<variants, store, nextId, overlapped>>
  BY <1>1 DEF WrittenInv, TypeOK, CommitRun, RollbackRun, Close, Goto, catalogue
<1>3. mappings' = View(w) \/ mappings' = mappings
  BY DEF CommitRun, RollbackRun
<1>4. \A n, j : Says(n, j)' => Says(n, j)
  <2> SUFFICES ASSUME NEW n, NEW j, Says(n, j)'
               PROVE  Says(n, j)
    OBVIOUS
  <2>1. \A q \in View(w) \cup mappings : Says(RowId(q), q.item)  BY DEF Says, View
  <2>. QED  BY <1>1, <1>2, <1>3, <2>1, SaysStep
<1>5. OneItem'
  BY <1>1, <1>2, <1>4, OneItemKept
<1>6. NothingHeld'
  <2>1. \A t \in Templates : w \notin Racing(t)'  BY <1>2 DEF Racing
  <2>. QED  BY <1>1, <1>2, <2>1, NothingHeldStep
<1>7. Allowed' = Allowed /\ Allowed <= Allowed'
  BY <1>1, <1>2, Counts DEF Allowed
<1>8. IsFiniteSet(DOMAIN store)'
  BY <1>1, <1>2
<1>9. ASSUME NEW t \in Templates  PROVE PaidFor(t)'
  <2>1. Articles(t)' \subseteq Articles(t)  BY <1>2 DEF Articles
  <2>2. Holding(t) \subseteq Workers /\ Racing(t)' \subseteq Workers /\ w \notin Racing(t)'
    BY <1>2 DEF Holding, Racing
  <2>3. Holding(t) \subseteq Holding(t)' \cup {w} /\ Racing(t)' \subseteq Racing(t)
    BY <1>1, <1>2, <2>2, OthersSame
  <2>4. CASE RollbackRun(w)
    <3>1. Losses + 1 <= Losses'
      BY <1>1, <2>4, SpendLosses DEF RollbackRun, FaultKinds
    <3>2. Known(t)' <=> Known(t)
      BY <1>2, <2>4, KnownSame DEF RollbackRun
    <3>. QED  BY <1>1, <1>7, <1>8, <2>1, <2>3, <3>1, <3>2, PaidRollback DEF PaidInv, Paid
  <2>5. CASE CommitRun(w)
    <3>1. mappings' = View(w) /\ pc[w] = "next" /\ UNCHANGED spent
      BY <2>5 DEF CommitRun
    <3>2. Losses' = Losses /\ Losses <= Losses'
      BY <1>1, <3>1, Counts DEF Losses
    <3>3. Known(t) \/ Held(w, t) => Known(t)'
      BY <1>1, <1>2, <3>1, KnownIsSeen DEF Known, Family
    <3>4. CASE ~Known(t) /\ Known(t)'
      BY <1>1, <1>7, <1>8, <2>1, <2>3, <3>2, <3>4, PaidCommit DEF PaidInv, Paid
    <3>5. CASE Known(t)' <=> Known(t)
      <4>1. ~Known(t) => w \notin Holding(t)
        BY <3>1, <3>3, <3>5 DEF Holding
      <4>2. Still(t)
        BY <1>7, <2>1, <2>3, <3>2, <3>5, <4>1 DEF Still
      <4>. QED  BY <1>1, <1>8, <4>2, PaidStill DEF PaidInv, Paid
    <3>. QED  BY <3>3, <3>4, <3>5
  <2>. QED  BY <2>4, <2>5
<1>. QED  BY <1>5, <1>6, <1>8, <1>9 DEF Paid

\* Odoo and the merchant create nothing.
LEMMA OutsidePaid ==
    ASSUME PaidInv, WrittenInv', IsFiniteSet(DOMAIN store)',
           UNCHANGED <<variants, mappings, pc, session, nextId, overlapped>>,
           \A t \in Templates : Articles(t)' \subseteq Articles(t), Losses <= Losses'
    PROVE  Paid'
<1>1. WrittenInv /\ OneItem /\ NothingHeld /\ IsFiniteSet(DOMAIN store)
  BY DEF PaidInv, MappedInv, Paid
<1>2. \A n, i : Says(n, i)' => Says(n, i)
  BY DEF Says, session, RowId, Target
<1>3. OneItem'
  BY <1>1, <1>2, OneItemKept
<1>4. \A t : /\ Holding(t)' = Holding(t) /\ Racing(t)' = Racing(t)
             /\ \A w : Held(w, t)' <=> Held(w, t)
  BY DEF Holding, Racing, Held, Family, session
<1>5. NothingHeld'
  BY <1>1, <1>4 DEF NothingHeld
<1>6. Allowed <= Allowed'
  <2>1. Allowed' = Allowed  BY DEF Allowed
  <2>. QED  BY <1>1, <2>1, Counts
<1>7. ASSUME NEW t \in Templates  PROVE PaidFor(t)'
  <2>1. Known(t)' <=> Known(t)  BY KnownSame
  <2>2. Still(t)  BY <1>4, <1>6, <2>1 DEF Still
  <2>. QED  BY <1>1, <2>2, PaidStill DEF PaidInv, Paid
<1>. QED  BY <1>3, <1>5, <1>7 DEF Paid

LEMMA RunPaid ==
    ASSUME PaidInv, WrittenInv', NEW w \in Workers, Begin(w) \/ Phase(w) \/ RunFault(w)
    PROVE  Paid'
<1>1. WrittenInv /\ IsFiniteSet(DOMAIN store)
  BY DEF PaidInv, MappedInv, Paid
<1>2. Effect(w)
  BY <1>1, BeginStep, SkipUnchangedStep, NeedsCallStep, CreateStep, UpdateStep,
     RejectedStep, SaveNewStep, SaveHashStep, FetchVariantsStep, CommitRunStep,
     AnswerLostStep, CallRefusedStep, RollbackRunStep
     DEF Phase, RunFault
<1>3. /\ pc \in [Workers -> Place] /\ found \in [Workers -> RowType \cup {NoRow}]
      /\ \A v \in Workers \ {w} : Untouched(v)
  BY <1>1, <1>2 DEF WrittenInv, TypeOK, Effect
<1>4. overlapped' = overlapped /\ spent' = spent => Losses <= Losses' /\ Allowed <= Allowed'
  <2> SUFFICES ASSUME overlapped' = overlapped, spent' = spent
               PROVE  Losses <= Losses' /\ Allowed <= Allowed'
    OBVIOUS
  <2>1. Losses' = Losses /\ Allowed' = Allowed  BY DEF Losses, Allowed
  <2>. QED  BY <1>1, <2>1, Counts
<1>5. store' = store => \A t : Articles(t)' \subseteq Articles(t)
  BY DEF Articles
<1>6. CASE Begin(w)
  <2>1. /\ pc[w] = "idle" /\ pc'[w] = "next"
        /\ UNCHANGED <<variants, mappings, own, found, store, nextId, spent>>
    BY <1>3, <1>6 DEF Begin, Goto, catalogue
  <2>2. Losses <= Losses' /\ Allowed <= Allowed'
    <3>1. Losses' = Losses  BY <2>1 DEF Losses
    <3>. QED  BY <1>1, <1>6, <3>1, Counts, BeginAllows
  <2>. QED  BY <1>1, <1>3, <1>5, <2>1, <2>2, PlainPaid
<1>7. ASSUME NEW i \in Items, SkipUnchanged(w, i)  PROVE Paid'
  <2>1. /\ pc[w] = "next" /\ pc'[w] \in {"next", "variants"} /\ found'[w] = NoRow
        /\ UNCHANGED <<variants, mappings, own, store, nextId, overlapped, spent>>
    BY <1>3, <1>7 DEF SkipUnchanged, LookUp, Done, Goto, catalogue
  <2>. QED  BY <1>1, <1>3, <1>4, <1>5, <2>1, PlainPaid
<1>8. ASSUME NEW i \in Items, NeedsCall(w, i)  PROVE Paid'
  BY <1>2, <1>8, NeedsCallPaid
<1>9. CASE Update(w)
  <2>1. /\ pc[w] = "call" /\ pc'[w] = "changed"
        /\ UNCHANGED <<variants, mappings, own, found, nextId, overlapped, spent>>
    BY <1>3, <1>9 DEF Update, StoreUpdates, session, Goto, catalogue
  <2>2. IsFiniteSet(DOMAIN store)' /\ \A t : Articles(t)' \subseteq Articles(t)
    BY <1>1, <1>9, UpdatedArticles DEF Update
  <2>. QED  BY <1>3, <1>4, <2>1, <2>2, PlainPaid
<1>10. CASE Rejected(w)
  <2>1. /\ pc[w] # "new" /\ pc'[w] = "next" /\ found'[w] = NoRow
        /\ UNCHANGED <<variants, mappings, own, store, nextId, overlapped, spent>>
    BY <1>3, <1>10 DEF Rejected, NextTemplate, Goto, catalogue
  <2>. QED  BY <1>1, <1>3, <1>4, <1>5, <2>1, PlainPaid
<1>11. CASE CallRefused(w)
  <2>1. /\ pc[w] # "new" /\ pc'[w] = "next" /\ found'[w] = NoRow
        /\ UNCHANGED <<variants, mappings, own, store, nextId, overlapped>>
    BY <1>3, <1>11 DEF CallRefused, NextTemplate, Goto, catalogue
  <2>2. Losses <= Losses'
    BY <1>1, <1>11, SpendLosses DEF CallRefused, FaultKinds
  <2>3. Allowed <= Allowed'
    <3>1. Allowed' = Allowed  BY <2>1 DEF Allowed
    <3>. QED  BY <1>1, <3>1, Counts
  <2>. QED  BY <1>1, <1>3, <1>5, <2>1, <2>2, <2>3, PlainPaid
<1>12. CASE FetchVariants(w)
  <2>1. /\ pc[w] = "variants" /\ pc'[w] = "next"
        /\ UNCHANGED <<variants, mappings, own, found, store, nextId, overlapped, spent>>
    BY <1>3, <1>12 DEF FetchVariants, Goto, catalogue
  <2>. QED  BY <1>1, <1>3, <1>4, <1>5, <2>1, PlainPaid
<1>. QED
  BY <1>2, <1>6, <1>7, <1>8, <1>9, <1>10, <1>11, <1>12, CreatePaidFor, LostPaidFor,
     SaveNewPaid, SaveHashPaid, ClosePaid DEF Phase, RunFault

LEMMA PaidStarts == Init => PaidInv
<1> SUFFICES ASSUME Init  PROVE Paid
  BY MappedStarts DEF PaidInv
<1>1. /\ mappings = {} /\ nextId = 1 /\ DOMAIN store = {}
      /\ \A w \in Workers : own[w] = {} /\ pc[w] = "idle" /\ found[w] = NoRow
  BY DEF Init
<1>2. \A n, i : ~Says(n, i)
  BY <1>1 DEF Says
<1>3. ASSUME NEW t \in Templates  PROVE PaidFor(t)
  <2>1. ~Known(t) /\ Holding(t) = {} /\ Articles(t) = {}
    BY <1>1 DEF Known, Holding, Held, Articles
  <2>2. Cardinality(Holding(t)) = 0 /\ Cardinality(Articles(t)) = 0
    BY <2>1, FS_EmptySet
  <2>3. Losses = 0  BY DEF Init, Losses, FaultKinds
  <2>. QED  BY <2>1, <2>2, <2>3 DEF PaidFor
<1>4. NothingHeld
  BY <1>1 DEF NothingHeld, Racing
<1>5. IsFiniteSet(DOMAIN store)
  BY <1>1, FS_EmptySet
<1>. QED  BY <1>2, <1>3, <1>4, <1>5 DEF Paid, OneItem

LEMMA PaidStep == PaidInv /\ [Next]_vars => PaidInv'
<1> SUFFICES ASSUME PaidInv, [Next]_vars  PROVE Paid'
  BY MappedStep DEF PaidInv
<1>1. WrittenInv /\ WrittenInv' /\ IsFiniteSet(DOMAIN store)
  BY StepInv DEF PaidInv, MappedInv, Paid
<1>2. ASSUME NEW w \in Workers, Begin(w) \/ Phase(w) \/ RunFault(w)  PROVE Paid'
  BY <1>1, <1>2, RunPaid
<1>3. ASSUME UNCHANGED <<variants, store, mappings, pc, session, nextId, overlapped, spent>>
      PROVE  Paid'
  <2>1. Losses <= Losses'
    <3>1. Losses' = Losses  BY <1>3 DEF Losses
    <3>. QED  BY <1>1, <3>1, Counts
  <2>2. \A t : Articles(t)' \subseteq Articles(t)  BY <1>3 DEF Articles
  <2>. QED  BY <1>1, <1>3, <2>1, <2>2, OutsidePaid
<1>4. ASSUME NEW i \in Items, NEW version \in Versions, Edit(i, version)  PROVE Paid'
  BY <1>3, <1>4 DEF Edit
<1>5. ASSUME NEW n \in DOMAIN store, MerchantDeletes(n)  PROVE Paid'
  <2>1. /\ UNCHANGED <<variants, mappings, pc, session, nextId, overlapped>>
        /\ DOMAIN store' \subseteq DOMAIN store
        /\ \A m \in DOMAIN store' : store'[m] = store[m]
    BY <1>5 DEF MerchantDeletes, catalogue
  <2>2. Losses <= Losses'
    BY <1>1, <1>5, SpendLosses DEF MerchantDeletes, FaultKinds
  <2>3. \A t : Articles(t)' \subseteq Articles(t)  BY <2>1 DEF Articles
  <2>4. IsFiniteSet(DOMAIN store)'  BY <1>1, <2>1, FS_Subset
  <2>. QED  BY <1>1, <2>1, <2>2, <2>3, <2>4, OutsidePaid
<1>6. CASE UNCHANGED vars
  BY <1>3, <1>6 DEF vars, catalogue
<1>. QED  BY <1>2, <1>4, <1>5, <1>6 DEF Next, ReadFails

LEMMA PaidIsEnough == PaidInv => DuplicatesPaidFor
<1> SUFFICES ASSUME PaidInv, NEW t \in Templates
             PROVE  Cardinality(Articles(t)) <= Allowed + spent["lost"] + spent["rollback"]
  BY DEF DuplicatesPaidFor, Articles, Allowed
<1>1. WrittenInv /\ IsFiniteSet(DOMAIN store) /\ MappedInv /\ NothingHeld /\ PaidFor(t)
  BY DEF PaidInv, MappedInv, Paid
<1> DEFINE a == Cardinality(Articles(t))   h == Cardinality(Holding(t))   r == Cardinality(Racing(t))
<1>2. a \in Nat /\ h \in Nat /\ r \in Nat /\ Allowed \in Nat /\ Losses \in Nat
  BY <1>1, Counts
<1>3. h + r <= Allowed
  BY <1>1, RunsApart
<1>4. a + r <= Allowed + Losses \/ a <= h + Losses
  BY <1>1 DEF PaidFor
<1> HIDE DEF a, h, r
<1>5. a <= Allowed + Losses
  BY <1>2, <1>3, <1>4
<1>6. Allowed + Losses = Allowed + spent["lost"] + spent["rollback"]
  BY <1>1, <1>2 DEF Losses, WrittenInv, TypeOK, FaultKinds
<1>. QED  BY <1>5, <1>6 DEF a

\* However often runs of sync_products are repeated, whatever calls fail and
\* however many runs overlap, the products of a template are no more than the
\* runs that may overlap and the answers and transactions that were lost.
THEOREM DuplicatesPaidForHolds == Spec => []DuplicatesPaidFor
BY PaidStarts, PaidStep, PaidIsEnough, PTL DEF Spec

(***************************************************************************)
(* No change is missed. Three layers: the rows, and what runs have in      *)
(* hand, name articles of the item they are about (NamesInv); without an   *)
(* overlap, and before an old content is restored, contents only grow, and *)
(* no row is ahead of its article (GrowsInv); as long as no answer and no  *)
(* transaction is lost, the hash of a row is that of its article's         *)
(* content, but for the row whose update a run is about to record, and for *)
(* the hash of a variable product, which may be in the row of a variant    *)
(* (ExactInv).                                                             *)
(***************************************************************************)
\* The lookup of item i can return the row: get_mapping_by_odoo_id finds the
\* rows of variants too.
Speaks(r, i) == r.item = i \/ (i \in Templates /\ r.item \in variants[i])

\* Article n, if the store still has it, is one of item i.
IsOf(n, i) == n < nextId /\ (n \in DOMAIN store => store[n].item = i)

Names(r) ==
    /\ \A t \in Templates : r.item \in Family(t) => IsOf(r.product, t)
    /\ r.item \in Variants => IsOf(r.variation, r.item)
    /\ Speaks(r, r.hash[1])

\* What a run has in hand is of the item it is at, and its product of the
\* template whose variants it is at.
Hand(w) ==
    /\ found[w] # NoRow => Names(found[w]) /\ Speaks(found[w], item[w])
    /\ pc[w] \in {"next", "variants"} => found[w] = NoRow
    /\ pc[w] = "new" => IsOf(made[w], item[w])
    /\ item[w] \in Templates => todo[w] \cap Variants = {}
    /\ \A t \in Templates :
          Family(t) \cap ({item[w]} \cup (todo[w] \cap Variants)) # {} => IsOf(product[w], t)

\* A variant is one of a single template.
Apart == \A t, u \in Templates : variants[t] \cap variants[u] # {} => t = u

NamesInv ==
    /\ Apart
    /\ \A n \in DOMAIN store : n < nextId
    /\ \A r \in mappings : Names(r)
    /\ \A w \in Workers : Hand(w) /\ \A r \in own[w] : Names(r)

\* The article a row's hash is about, and its content.
HashId(r) == Target(r.hash[1], r)
Behind(r) == HashId(r) \in DOMAIN store => r.hash[2] <= store[HashId(r)].version
Fresh(r) == HashId(r) \in DOMAIN store => r.hash[2] = store[HashId(r)].version
Variable(r) == r.hash[1] \in Templates /\ variants[r.hash[1]] # {}

\* Between the call of the store and the row that records it, the article has
\* the content that was sent.
JustSent(w) ==
    /\ pc[w] = "new" /\ made[w] \in DOMAIN store => store[made[w]].version = plan[w][item[w]]
    /\ pc[w] = "changed" /\ Target(item[w], found[w]) \in DOMAIN store =>
          store[Target(item[w], found[w])].version = plan[w][item[w]]

\* What a run has still to send is not older than what the store has.
Planned(w) ==
    \A i \in todo[w] \cup {item[w]} : \A n \in DOMAIN store :
        store[n].item = i => store[n].version <= plan[w][i]

GrowsInv ==
    /\ \A n \in DOMAIN store : store[n].version <= odoo[store[n].item]
    /\ \A r \in mappings : Behind(r)
    /\ \A w \in Workers :
          /\ \A i \in Items : plan[w][i] <= odoo[i]
          /\ \A r \in own[w] : Behind(r)
          /\ pc[w] # "idle" => Planned(w)

Recorded(w, r) == Fresh(r) \/ Variable(r) \/ (pc[w] = "changed" /\ r = found[w])

ExactInv ==
    /\ \A w \in Workers : pc[w] # "idle" => \A r \in View(w) : Recorded(w, r)
    /\ (\A w \in Workers : pc[w] = "idle") => \A r \in mappings : Fresh(r) \/ Variable(r)

NothingMissed ==
    /\ NamesInv
    /\ ~overlapped =>
          /\ \A w \in Workers : JustSent(w)
          /\ ~restored => GrowsInv
          /\ Losses = 0 => ExactInv

MissedInv == PaidInv /\ NothingMissed

\* What every step does to articles: none changes its item, and a new one has
\* a new id.
KeepsArticles ==
    /\ UNCHANGED variants
    /\ nextId' \in Nat /\ nextId <= nextId'
    /\ \A n \in DOMAIN store' :
          \/ n \in DOMAIN store /\ store'[n].item = store[n].item
          \/ n = nextId /\ nextId < nextId'

LEMMA IsOfKept ==
    ASSUME WrittenInv, KeepsArticles, NEW n \in Nat, NEW i, IsOf(n, i)
    PROVE  IsOf(n, i)'
<1>1. nextId \in Nat
  BY DEF WrittenInv, TypeOK, Ids
<1>2. n < nextId' /\ n # nextId
  BY <1>1 DEF KeepsArticles, IsOf
<1>. QED  BY <1>2 DEF KeepsArticles, IsOf

LEMMA NamesKept ==
    ASSUME WrittenInv, KeepsArticles, NEW r \in RowType, Names(r)
    PROVE  Names(r)'
<1>1. r.product \in Nat /\ r.variation \in Nat
  BY DEF RowType, Ids
<1>2. UNCHANGED variants
  BY DEF KeepsArticles
<1>3. Speaks(r, r.hash[1])'
  BY <1>2 DEF Names, Speaks
<1>4. \A t \in Templates : Family(t)' = Family(t)
  BY <1>2 DEF Family
<1>. QED  BY <1>1, <1>3, <1>4, IsOfKept DEF Names

LEMMA HandKept ==
    ASSUME WrittenInv, KeepsArticles, NEW v \in Workers, Untouched(v), Hand(v)
    PROVE  Hand(v)'
<1>1. product[v] \in Nat /\ made[v] \in Nat /\ found[v] \in RowType \cup {NoRow}
  BY DEF WrittenInv, TypeOK
<1>2. UNCHANGED variants
  BY DEF KeepsArticles
<1>3. found'[v] = found[v] /\ item'[v] = item[v] /\ pc'[v] = pc[v] /\ made'[v] = made[v]
      /\ product'[v] = product[v] /\ todo'[v] = todo[v]
  BY DEF Untouched
<1>4. ASSUME NEW r \in RowType, NEW i, Names(r), Speaks(r, i)
      PROVE  Names(r)' /\ Speaks(r, i)'
  BY <1>2, <1>4, NamesKept DEF Speaks
<1>5. found'[v] # NoRow => Names(found[v])' /\ Speaks(found[v], item[v])'
  BY <1>1, <1>3, <1>4 DEF Hand, Names, Speaks, IsOf, Family
<1>6. pc'[v] = "new" => IsOf(made[v], item[v])'
  BY <1>1, <1>3, IsOfKept DEF Hand, IsOf
<1>7. ASSUME NEW t \in Templates, Family(t)' \cap ({item'[v]} \cup (todo'[v] \cap Variants)) # {}
      PROVE  IsOf(product[v], t)'
  <2>1. IsOf(product[v], t)  BY <1>2, <1>3, <1>7 DEF Hand, Family
  <2>. QED  BY <1>1, <1>3, <2>1, IsOfKept DEF IsOf
<1>8. /\ pc'[v] \in {"next", "variants"} => found'[v] = NoRow
      /\ item'[v] \in Templates => todo'[v] \cap Variants = {}
  BY <1>3 DEF Hand
<1>. QED  BY <1>5, <1>6, <1>7, <1>8 DEF Hand

\* What a run has in hand after a step, from what can be said before it.
LEMMA HandNow ==
    ASSUME WrittenInv, KeepsArticles, NEW w \in Workers,
           NEW f \in RowType \cup {NoRow}, f = found'[w],
           NEW i, i = item'[w], NEW p \in Nat, p = product'[w],
           NEW m \in Nat, m = made'[w], NEW td, td = todo'[w],
           f # NoRow => Names(f) /\ Speaks(f, i),
           pc'[w] \in {"next", "variants"} => f = NoRow,
           pc'[w] = "new" => IsOf(m, i) \/ IsOf(m, i)',
           i \in Templates => td \cap Variants = {},
           \A t \in Templates :
               Family(t) \cap ({i} \cup (td \cap Variants)) # {} => IsOf(p, t) \/ IsOf(p, t)'
    PROVE  Hand(w)'
<1>1. UNCHANGED variants
  BY DEF KeepsArticles
<1>2. found'[w] # NoRow => Names(found[w])' /\ Speaks(found[w], item[w])'
  <2>1. f # NoRow => Names(f)' /\ Speaks(f, i)'
    BY <1>1, NamesKept DEF Speaks
  <2>. QED  BY <2>1 DEF Names, Speaks, IsOf, Family
<1>3. pc'[w] = "new" => IsOf(made[w], item[w])'
  BY IsOfKept DEF IsOf
<1>4. ASSUME NEW t \in Templates, Family(t)' \cap ({item'[w]} \cup (todo'[w] \cap Variants)) # {}
      PROVE  IsOf(product[w], t)'
  <2>1. IsOf(p, t) \/ IsOf(p, t)'  BY <1>1, <1>4 DEF Family
  <2>. QED  BY <2>1, IsOfKept DEF IsOf
<1>. QED  BY <1>2, <1>3, <1>4 DEF Hand

\* The invariant after a step of w, whose rows are known or new.
LEMMA NamesNow ==
    ASSUME WrittenInv, NamesInv, NEW w \in Workers, \A v \in Workers \ {w} : Untouched(v),
           KeepsArticles, Hand(w)',
           \A r \in mappings' \cup own'[w] : (r \in RowType /\ Names(r)) \/ Names(r)'
    PROVE  NamesInv'
<1>1. /\ nextId \in Nat /\ own \in [Workers -> SUBSET RowType]
      /\ \A n \in DOMAIN store : n \in Nat
  BY DEF WrittenInv, TypeOK, Ids
<1>2. Apart'
  BY DEF KeepsArticles, NamesInv, Apart
<1>3. \A n \in DOMAIN store' : n < nextId'
  BY <1>1 DEF KeepsArticles, NamesInv
<1>4. \A r \in mappings' \cup own'[w] : Names(r)'
  BY NamesKept
<1>5. ASSUME NEW v \in Workers \ {w}  PROVE Hand(v)' /\ \A r \in own'[v] : Names(r)'
  <2>1. own'[v] = own[v]  BY DEF Untouched
  <2>. QED  BY <1>1, <2>1, HandKept, NamesKept DEF NamesInv
<1>. QED  BY <1>2, <1>3, <1>4, <1>5 DEF NamesInv

\* The article a row gives for an item it speaks of is one of the item.
LEMMA TargetIsOf ==
    ASSUME NEW r \in RowType, NEW i \in Items, Names(r), Speaks(r, i)
    PROVE  /\ IsOf(Target(i, r), i)
           /\ i \in Templates => IsOf(r.product, i)
BY ProductAssumption DEF Names, Speaks, Target, Family, Items

\* What a lookup returns speaks of the item.
LEMMA FoundSpeaks ==
    ASSUME WrittenInv, NamesInv, NEW w \in Workers, NEW i \in Items, NEW r \in Rows(w, i)
    PROVE  r \in RowType /\ Names(r) /\ Speaks(r, i)
<1>1. r \in mappings \cup own[w] /\ r \in RowType
  BY LookedUp DEF Rows, View
<1>2. Speaks(r, i)
  BY DEF Rows, Speaks
<1>. QED  BY <1>1, <1>2 DEF NamesInv

LEMMA QuietArticles ==
    ASSUME WrittenInv, UNCHANGED <<variants, store, nextId>>
    PROVE  KeepsArticles
BY DEF KeepsArticles, WrittenInv, TypeOK, Ids

\* A lookup: the product of a template is that of the row, which is of it.
LEMMA LookUpNames ==
    ASSUME WrittenInv, WrittenInv', NamesInv, NEW w \in Workers, NEW i \in Items,
           SkipUnchanged(w, i) \/ NeedsCall(w, i), \A v \in Workers \ {w} : Untouched(v)
    PROVE  NamesInv'
<1>1. PICK r \in Rows(w, i) \cup {NoRow} :
         /\ LookUp(w, i, r)
         /\ \/ item'[w] = i /\ (found'[w] = NoRow \/ found'[w] = r)
            \/ item'[w] = NoItem /\ found'[w] = NoRow
         /\ pc'[w] # "new" /\ (pc'[w] \in {"next", "variants"} => found'[w] = NoRow)
  BY DEF SkipUnchanged, NeedsCall, Done, Goto, WrittenInv, TypeOK
<1>2. /\ UNCHANGED <<variants, store, nextId, mappings, own>>
      /\ todo'[w] = todo[w] \ {i} /\ i \in todo[w]
      /\ todo[w] \cap Variants # {} => i \in Variants
      /\ i \in Variants => product'[w] = product[w]
      /\ i \notin Variants => product'[w] = IF r = NoRow THEN 0 ELSE r.product
  BY <1>1 DEF LookUp, WrittenInv, TypeOK, catalogue
<1>3. KeepsArticles
  BY <1>2, QuietArticles
<1>4. r # NoRow => r \in RowType /\ Names(r) /\ Speaks(r, i) /\ (i \in Templates => IsOf(r.product, i))
  BY <1>1, FoundSpeaks, TargetIsOf
<1>5. \A n : IsOf(0, n)
  BY DEF WrittenInv, TypeOK, Ids, IsOf
<1>6. variants \in [Templates -> SUBSET Variants] /\ Templates \cap Variants = {}
      /\ NoItem \notin Templates \cup Variants
  BY ProductAssumption DEF WrittenInv, TypeOK
<1>7. \A t \in Templates :
         Family(t) \cap ({item'[w]} \cup (todo'[w] \cap Variants)) # {} => IsOf(product'[w], t)
  <2> SUFFICES ASSUME NEW t \in Templates,
                      Family(t) \cap ({item'[w]} \cup (todo'[w] \cap Variants)) # {}
               PROVE  IsOf(product'[w], t)
    OBVIOUS
  <2>1. CASE i \in Variants
    <3>1. Family(t) \cap (todo[w] \cap Variants) # {}
      BY <1>1, <1>2, <1>6, <2>1 DEF Family
    <3>. QED  BY <1>2, <2>1, <3>1 DEF NamesInv, Hand
  <2>2. CASE i \in Templates
    <3>1. t = i /\ i \notin Variants
      BY <1>1, <1>2, <1>6, <2>2 DEF Family
    <3>. QED  BY <1>2, <1>4, <1>5, <2>2, <3>1
  <2>. QED  BY <2>1, <2>2 DEF Items
<1>8. item'[w] \in Templates => todo'[w] \cap Variants = {}
  BY <1>1, <1>2, <1>6
<1>9. Hand(w)'
  <2>1. /\ found'[w] \in RowType \cup {NoRow} /\ product'[w] \in Nat /\ made'[w] \in Nat
    BY DEF WrittenInv, TypeOK
  <2>2. found'[w] # NoRow => Names(found'[w]) /\ Speaks(found'[w], item'[w])
    BY <1>1, <1>4
  <2>. QED  BY <1>1, <1>3, <1>7, <1>8, <2>1, <2>2, HandNow
<1>10. \A s \in mappings' \cup own'[w] : (s \in RowType /\ Names(s)) \/ Names(s)'
  BY <1>2 DEF NamesInv, WrittenInv, TypeOK
<1>. QED  BY <1>3, <1>9, <1>10, NamesNow

\* A step after which the run is at no item, and has the variants still to be
\* visited that it had.
LEMMA LeaveNames ==
    ASSUME WrittenInv, WrittenInv', NamesInv, NEW w \in Workers,
           \A v \in Workers \ {w} : Untouched(v), KeepsArticles,
           item'[w] = NoItem, found'[w] = NoRow, pc'[w] # "new",
           todo'[w] \cap Variants = {} \/ (todo'[w] \subseteq todo[w] /\ product'[w] = product[w]),
           mappings' \cup own'[w] \subseteq mappings \cup own[w]
    PROVE  NamesInv'
<1>1. NoItem \notin Templates \cup Variants /\ variants \in [Templates -> SUBSET Variants]
  BY ProductAssumption DEF WrittenInv, TypeOK
<1>2. /\ found'[w] \in RowType \cup {NoRow} /\ product'[w] \in Nat /\ made'[w] \in Nat
  BY DEF WrittenInv, TypeOK
<1>3. \A t \in Templates :
         Family(t) \cap ({NoItem} \cup (todo'[w] \cap Variants)) # {} => IsOf(product'[w], t)
  BY <1>1 DEF Family, NamesInv, Hand
<1>4. Hand(w)'
  BY <1>1, <1>2, <1>3, HandNow
<1>5. \A r \in mappings' \cup own'[w] : (r \in RowType /\ Names(r)) \/ Names(r)'
  BY DEF NamesInv, WrittenInv, TypeOK
<1>. QED  BY <1>4, <1>5, NamesNow

\* What the calls do to the store.
LEMMA CreatedStore ==
    ASSUME WrittenInv, NEW w \in Workers, StoreCreates(w), UNCHANGED variants
    PROVE  /\ KeepsArticles
           /\ DOMAIN store' = DOMAIN store \cup {nextId} /\ nextId' = nextId + 1
           /\ store'[nextId].item = item[w] /\ store'[nextId].version = plan[w][item[w]]
           /\ \A n \in DOMAIN store : n # nextId => store'[n] = store[n]
<1>1. nextId \in Nat
  BY DEF WrittenInv, TypeOK, Ids
<1>2. /\ DOMAIN store' = DOMAIN store \cup {nextId} /\ nextId' = nextId + 1
      /\ store'[nextId].item = item[w] /\ store'[nextId].version = plan[w][item[w]]
      /\ \A n \in DOMAIN store : n # nextId => store'[n] = store[n]
  BY DEF StoreCreates
<1>3. nextId' \in Nat /\ nextId <= nextId' /\ nextId < nextId'
  BY <1>1, <1>2
<1>4. \A n \in DOMAIN store' :
         (n \in DOMAIN store /\ store'[n].item = store[n].item) \/ n = nextId
  BY <1>2
<1>. QED  BY <1>2, <1>3, <1>4 DEF KeepsArticles

LEMMA UpdatedStore ==
    ASSUME WrittenInv, NEW w \in Workers, StoreUpdates(w), Addressed(w), UNCHANGED variants,
           NEW n, n = Target(item[w], found[w])
    PROVE  /\ KeepsArticles
           /\ DOMAIN store' = DOMAIN store /\ n \in DOMAIN store /\ nextId' = nextId
           /\ \A m \in DOMAIN store : m # n => store'[m] = store[m]
           /\ store'[n].item = store[n].item /\ store'[n].version = plan[w][item[w]]
<1> DEFINE version == plan[w][item[w]]
<1>1. store' = [store EXCEPT ![n].version = version] /\ n \in DOMAIN store /\ nextId' = nextId
  BY DEF StoreUpdates, Addressed
<1> HIDE DEF version
<1>2. DOMAIN store' = DOMAIN store /\ \A m \in DOMAIN store : m # n => store'[m] = store[m]
  BY <1>1
<1>3. store'[n].item = store[n].item /\ store'[n].version = version
  <2>1. store[n] \in Article  BY <1>1 DEF WrittenInv, TypeOK
  <2>2. store'[n] = [store[n] EXCEPT !.version = version]  BY <1>1
  <2>. QED  BY <2>1, <2>2 DEF Article
<1>4. nextId' \in Nat /\ nextId <= nextId'
  BY <1>1 DEF WrittenInv, TypeOK, Ids
<1>5. KeepsArticles
  BY <1>2, <1>3, <1>4 DEF KeepsArticles
<1>. QED  BY <1>1, <1>2, <1>3, <1>5 DEF version

\* The new product is one of the item it was created for.
LEMMA CreateNames ==
    ASSUME WrittenInv, WrittenInv', NamesInv, NEW w \in Workers, Create(w),
           \A v \in Workers \ {w} : Untouched(v)
    PROVE  NamesInv'
<1>1. /\ UNCHANGED <<variants, mappings, own, todo, item, found>>
      /\ StoreCreates(w) /\ made'[w] = nextId /\ found[w] = NoRow /\ pc'[w] = "new"
      /\ product'[w] = IF item[w] \in Templates THEN nextId ELSE product[w]
  BY DEF Create, StoreCreates, Goto, catalogue, WrittenInv, TypeOK
<1>2. KeepsArticles /\ store'[nextId].item = item[w] /\ nextId' = nextId + 1
  BY <1>1, CreatedStore
<1>. PICK m \in Nat : m = nextId
  BY DEF WrittenInv, TypeOK, Ids
<1>. PICK i : i = item[w]
  OBVIOUS
<1>4. IsOf(m, i)'
  BY <1>2 DEF IsOf
<1>5. variants \in [Templates -> SUBSET Variants] /\ Templates \cap Variants = {}
  BY ProductAssumption DEF WrittenInv, TypeOK
<1>6. i \in Templates => todo[w] \cap Variants = {}
  BY DEF NamesInv, Hand
<1>. PICK p \in Nat : p = product'[w]
  BY DEF WrittenInv, TypeOK
<1>7. ASSUME NEW t \in Templates, Family(t) \cap ({i} \cup (todo[w] \cap Variants)) # {}
      PROVE  IsOf(p, t) \/ IsOf(p, t)'
  <2>1. CASE i \in Templates
    <3>1. t = i /\ p = m  BY <1>1, <1>5, <1>6, <1>7, <2>1 DEF Family
    <3>. QED  BY <1>4, <3>1
  <2>2. CASE i \notin Templates
    BY <1>1, <1>7, <2>2 DEF NamesInv, Hand
  <2>. QED  BY <2>1, <2>2
<1>8. Hand(w)'
  BY <1>1, <1>2, <1>4, <1>6, <1>7, HandNow
<1>9. \A r \in mappings' \cup own'[w] : (r \in RowType /\ Names(r)) \/ Names(r)'
  BY <1>1 DEF NamesInv, WrittenInv, TypeOK
<1>. QED  BY <1>2, <1>8, <1>9, NamesNow

LEMMA UpdateNames ==
    ASSUME WrittenInv, WrittenInv', NamesInv, NEW w \in Workers, Update(w),
           \A v \in Workers \ {w} : Untouched(v)
    PROVE  NamesInv'
<1>1. /\ UNCHANGED <<variants, mappings, own, todo, item, found, product, made>>
      /\ StoreUpdates(w) /\ Addressed(w) /\ pc'[w] = "changed"
  BY DEF Update, StoreUpdates, session, catalogue, WrittenInv, TypeOK, Goto
<1>2. KeepsArticles
  BY <1>1, UpdatedStore
<1>3. found[w] \in RowType \cup {NoRow} /\ product[w] \in Nat /\ made[w] \in Nat
  BY DEF WrittenInv, TypeOK
<1>4. Hand(w)'
  BY <1>1, <1>2, <1>3, HandNow DEF NamesInv, Hand
<1>5. \A r \in mappings' \cup own'[w] : (r \in RowType /\ Names(r)) \/ Names(r)'
  BY <1>1 DEF NamesInv, WrittenInv, TypeOK
<1>. QED  BY <1>2, <1>4, <1>5, NamesNow

\* After an item is done the run is at none, or at the template whose variants
\* follow.
LEMMA DoneHand ==
    ASSUME WrittenInv, WrittenInv', NamesInv, NEW w \in Workers, Done(w, item[w]),
           UNCHANGED <<variants, store, nextId, todo, product>>
    PROVE  KeepsArticles /\ Hand(w)'
<1>1. KeepsArticles
  BY QuietArticles
<1>2. found'[w] = NoRow /\ item'[w] \in {item[w], NoItem} /\ pc'[w] # "new"
  BY DEF Done, Goto, WrittenInv, TypeOK
<1>3. product[w] \in Nat /\ made'[w] \in Nat
  BY DEF WrittenInv, TypeOK
<1>4. NoItem \notin Templates \cup Variants /\ variants \in [Templates -> SUBSET Variants]
  BY ProductAssumption DEF WrittenInv, TypeOK
<1>5. \A t \in Templates :
         Family(t) \cap ({item'[w]} \cup (todo[w] \cap Variants)) # {} => IsOf(product[w], t)
  BY <1>2, <1>4 DEF NamesInv, Hand, Family
<1>6. item'[w] \in Templates => todo[w] \cap Variants = {}
  BY <1>2, <1>4 DEF NamesInv, Hand
<1>7. Hand(w)'
  BY <1>1, <1>2, <1>3, <1>5, <1>6, HandNow
<1>. QED  BY <1>1, <1>7

\* The new row: its product is that of the template the run is at, its
\* variation the one just created.
LEMMA SaveNewNames ==
    ASSUME WrittenInv, WrittenInv', NamesInv, NEW w \in Workers, SaveNew(w),
           \A v \in Workers \ {w} : Untouched(v)
    PROVE  NamesInv'
<1> DEFINE i == item[w]
           row == [item |-> i, product |-> product[w],
                   variation |-> IF i \in Templates THEN 0 ELSE made[w],
                   hash |-> Hash(w, i)]
<1>1. /\ UNCHANGED <<variants, store, nextId, mappings, todo, product>>
      /\ pc[w] = "new" /\ Done(w, i) /\ own'[w] \subseteq own[w] \cup {row}
  BY DEF SaveNew, catalogue, WrittenInv, TypeOK
<1>2. KeepsArticles /\ Hand(w)'
  BY <1>1, DoneHand
<1>3. row.item = i /\ row.product = product[w] /\ row.hash[1] = i
      /\ (i \notin Templates => row.variation = made[w])
  BY DEF Hash
<1>4. /\ IsOf(made[w], i)
      /\ \A t \in Templates : i \in Family(t) => IsOf(product[w], t)
  BY <1>1 DEF NamesInv, Hand
<1>5. i \in Items /\ Templates \cap Variants = {}
  BY <1>1, ProductAssumption DEF WrittenInv, TypeOK
<1> HIDE DEF row, i
<1>6. Names(row)
  BY <1>3, <1>4, <1>5 DEF Names, Speaks
<1>7. row \in own'[w] => row \in RowType
  BY DEF WrittenInv, TypeOK
<1>8. \A r \in mappings' \cup own'[w] : (r \in RowType /\ Names(r)) \/ Names(r)'
  BY <1>1, <1>6, <1>7 DEF NamesInv, WrittenInv, TypeOK
<1>. QED  BY <1>2, <1>8, NamesNow

\* The new version of a row names the same articles.
LEMMA SaveHashNames ==
    ASSUME WrittenInv, WrittenInv', NamesInv, NEW w \in Workers, SaveHash(w),
           \A v \in Workers \ {w} : Untouched(v)
    PROVE  NamesInv'
<1> DEFINE i == item[w]
           row == [found[w] EXCEPT !.hash = Hash(w, i)]
<1>1. /\ UNCHANGED <<variants, store, nextId, mappings, todo, product>>
      /\ pc[w] = "changed" /\ Done(w, i) /\ own'[w] \subseteq own[w] \cup {row}
  BY DEF SaveHash, catalogue, WrittenInv, TypeOK
<1>2. KeepsArticles /\ Hand(w)'
  BY <1>1, DoneHand
<1>3. found[w] \in RowType /\ Names(found[w]) /\ Speaks(found[w], i)
  BY <1>1 DEF WrittenInv, TypeOK, NamesInv, Hand
<1>4. row.item = found[w].item /\ row.product = found[w].product
      /\ row.variation = found[w].variation /\ row.hash[1] = i
  BY <1>3 DEF RowType, Hash
<1> HIDE DEF row, i
<1>5. Names(row)
  BY <1>3, <1>4 DEF Names, Speaks
<1>6. row \in own'[w] => row \in RowType
  BY DEF WrittenInv, TypeOK
<1>7. \A r \in mappings' \cup own'[w] : (r \in RowType /\ Names(r)) \/ Names(r)'
  BY <1>1, <1>5, <1>6 DEF NamesInv, WrittenInv, TypeOK
<1>. QED  BY <1>2, <1>7, NamesNow

\* The variants to be visited next are those of the template the run was at.
LEMMA FetchNames ==
    ASSUME WrittenInv, WrittenInv', NamesInv, NEW w \in Workers, FetchVariants(w),
           \A v \in Workers \ {w} : Untouched(v)
    PROVE  NamesInv'
<1> DEFINE i == item[w]
<1> PICK page \in SUBSET variants[i] : todo' = [todo EXCEPT ![w] = @ \cup page]
  BY VariantsRead
<1>1. /\ UNCHANGED <<variants, store, nextId, mappings, own, found, product, made>>
      /\ pc[w] = "variants" /\ pc'[w] = "next" /\ item'[w] = NoItem
      /\ todo'[w] = todo[w] \cup page
  BY DEF FetchVariants, Goto, catalogue, WrittenInv, TypeOK
<1>2. KeepsArticles
  BY <1>1, QuietArticles
<1>3. i \in Templates /\ NoItem \notin Items /\ NoItem \notin Templates
      /\ variants \in [Templates -> SUBSET Variants]
      /\ found[w] \in RowType \cup {NoRow} /\ product[w] \in Nat /\ made[w] \in Nat
  BY <1>1, ProductAssumption DEF WrittenInv, TypeOK, InHand, Items
<1>4. todo[w] \cap Variants = {} /\ IsOf(product[w], i)
  BY <1>3 DEF NamesInv, Hand, Family
<1> HIDE DEF i
<1>5. \A t \in Templates :
         Family(t) \cap ({NoItem} \cup (todo'[w] \cap Variants)) # {} => IsOf(product[w], t)
  <2> SUFFICES ASSUME NEW t \in Templates,
                      Family(t) \cap ({NoItem} \cup (todo'[w] \cap Variants)) # {}
               PROVE  t = i
    BY <1>4
  <2>1. PICK x \in Variants : x \in Family(t) /\ x \in todo'[w]
    BY <1>3 DEF Family, Items
  <2>2. x \in variants[i] /\ x \in variants[t]
    BY <1>1, <1>4, <2>1, ProductAssumption DEF Family
  <2>. QED  BY <1>3, <2>2 DEF NamesInv, Apart
<1>6. found[w] = NoRow
  BY <1>1 DEF NamesInv, Hand
<1>7. Hand(w)'
  BY <1>1, <1>2, <1>3, <1>5, <1>6, HandNow
<1>8. \A r \in mappings' \cup own'[w] : (r \in RowType /\ Names(r)) \/ Names(r)'
  BY <1>1 DEF NamesInv, WrittenInv, TypeOK
<1>. QED  BY <1>2, <1>7, <1>8, NamesNow

\* The steps after which the run is at no item.
LEMMA OtherNames ==
    ASSUME WrittenInv, WrittenInv', NamesInv, NEW w \in Workers,
           \A v \in Workers \ {w} : Untouched(v),
           Begin(w) \/ Rejected(w) \/ AnswerLost(w) \/ CallRefused(w)
             \/ CommitRun(w) \/ RollbackRun(w)
    PROVE  NamesInv'
<1>1. UNCHANGED variants
  BY DEF Begin, Rejected, AnswerLost, CallRefused, CommitRun, RollbackRun, catalogue
<1>2. KeepsArticles
  <2>1. CASE AnswerLost(w)
    BY <1>1, <2>1, CreatedStore, UpdatedStore DEF AnswerLost
  <2>2. CASE ~AnswerLost(w)
    <3>1. UNCHANGED <<store, nextId>>
      BY <2>2 DEF Begin, Rejected, CallRefused, CommitRun, RollbackRun
    <3>. QED  BY <1>1, <3>1, QuietArticles
  <2>. QED  BY <2>1, <2>2
<1>3. item'[w] = NoItem /\ pc'[w] # "new" /\ todo'[w] \cap Variants = {}
  <2>1. CASE Begin(w)
    <3>. PICK page \in SUBSET Templates : todo' = [todo EXCEPT ![w] = page]
      BY <2>1, BeginReads
    <3>. QED  BY <2>1, ProductAssumption DEF Begin, Goto, WrittenInv, TypeOK
  <2>2. CASE ~Begin(w)
    BY <2>2, ProductAssumption
       DEF Rejected, AnswerLost, CallRefused, CommitRun, RollbackRun, NextTemplate,
           Close, Goto, WrittenInv, TypeOK
  <2>. QED  BY <2>1, <2>2
<1>4. found'[w] = NoRow
  <2>1. CASE Begin(w)
    <3>1. found' = found /\ item[w] = NoItem  BY <2>1 DEF Begin, WrittenInv, TypeOK
    <3>2. \A r \in RowType : ~Speaks(r, NoItem)
      BY ProductAssumption DEF Speaks, RowType, Items
    <3>. QED  BY <3>1, <3>2 DEF NamesInv, Hand, WrittenInv, TypeOK
  <2>2. CASE ~Begin(w)
    BY <2>2 DEF Rejected, AnswerLost, CallRefused, CommitRun, RollbackRun, NextTemplate,
                Close, WrittenInv, TypeOK
  <2>. QED  BY <2>1, <2>2
<1>5. mappings' \cup own'[w] \subseteq mappings \cup own[w]
  BY DEF Begin, Rejected, AnswerLost, CallRefused, CommitRun, RollbackRun, NextTemplate,
         Close, View, WrittenInv, TypeOK
<1>. QED  BY <1>2, <1>3, <1>4, <1>5, LeaveNames

LEMMA RunNames ==
    ASSUME WrittenInv, WrittenInv', NamesInv, NEW w \in Workers, Effect(w),
           Begin(w) \/ Phase(w) \/ RunFault(w)
    PROVE  NamesInv'
<1>1. \A v \in Workers \ {w} : Untouched(v)
  BY DEF Effect
<1>. QED
  BY <1>1, LookUpNames, CreateNames, UpdateNames, SaveNewNames, SaveHashNames, FetchNames,
     OtherNames DEF Phase, RunFault

\* Odoo and the merchant: no row and no run changes.
LEMMA OutsideNames ==
    ASSUME WrittenInv, NamesInv, UNCHANGED <<variants, mappings, pc, session, nextId>>,
           DOMAIN store' \subseteq DOMAIN store,
           \A n \in DOMAIN store' : store'[n] = store[n]
    PROVE  NamesInv'
<1>1. KeepsArticles
  BY DEF KeepsArticles, WrittenInv, TypeOK, Ids
<1>2. \A v \in Workers : Untouched(v)
  BY DEF Untouched, session
<1>3. \A v \in Workers : Hand(v)'
  BY <1>1, <1>2, HandKept DEF NamesInv
<1>4. \A r \in RowType : Names(r) => Names(r)'
  BY <1>1, NamesKept
<1>5. mappings \subseteq RowType /\ \A v \in Workers : own[v] \subseteq RowType
  BY DEF WrittenInv, TypeOK
<1>6. \A r \in mappings' : Names(r)'
  BY <1>4, <1>5 DEF NamesInv
<1>7. \A v \in Workers : \A r \in own'[v] : Names(r)'
  BY <1>4, <1>5 DEF NamesInv, session
<1>. QED  BY <1>3, <1>6, <1>7 DEF NamesInv, Apart

(***************************************************************************)
(* The second and the third layer: what rows say of contents. Runs do not  *)
(* overlap: the run that acts is the only one.                             *)
(***************************************************************************)
\* The article that a row's hash is about is one of the hash's item.
LEMMA HashIdIsOf ==
    ASSUME NEW r \in RowType, Names(r)
    PROVE  HashId(r) \in Nat /\ IsOf(HashId(r), r.hash[1]) /\ r.hash[1] \in Items
<1>1. r.hash[1] \in Items
  BY DEF RowType, Hashes
<1>. QED  BY <1>1, TargetIsOf, TargetType DEF HashId, Names

\* Articles keep their content, but for one that may be new.
SameContent(n) ==
    /\ UNCHANGED variants
    /\ \A m \in DOMAIN store' : m # n => m \in DOMAIN store /\ store'[m] = store[m]

LEMMA ContentKept ==
    ASSUME NEW n, SameContent(n), NEW r, HashId(r) # n
    PROVE  /\ Behind(r) => Behind(r)'
           /\ Fresh(r) => Fresh(r)'
           /\ Variable(r)' <=> Variable(r)
<1>1. HashId(r)' = HashId(r)
  BY DEF HashId, Target
<1>. QED  BY <1>1 DEF SameContent, Behind, Fresh, Variable

\* What is not in the store is not about the new article.
LEMMA NotNew ==
    ASSUME WrittenInv, NEW r \in RowType, Names(r)
    PROVE  HashId(r) # nextId
<1>1. nextId \in Nat /\ HashId(r) \in Nat /\ HashId(r) < nextId
  BY HashIdIsOf DEF WrittenInv, TypeOK, Ids, IsOf
<1>. QED  BY <1>1

\* Only a call that was answered leaves the run with something sent.
LEMMA JustSentStep ==
    ASSUME WrittenInv, NEW w \in Workers, Effect(w), Begin(w) \/ Phase(w) \/ RunFault(w),
           \A v \in Workers \ {w} : pc'[v] = "idle"
    PROVE  \A v \in Workers : JustSent(v)'
<1>1. \A v \in Workers \ {w} : JustSent(v)'
  BY DEF JustSent
<1>2. CASE Create(w)
  <2>1. /\ made'[w] = nextId /\ pc'[w] = "new" /\ StoreCreates(w)
        /\ UNCHANGED <<variants, item, plan>>
    BY <1>2 DEF Create, Goto, catalogue, WrittenInv, TypeOK
  <2>2. store'[nextId].version = plan[w][item[w]]
    BY <2>1, CreatedStore
  <2>. QED  BY <1>1, <2>1, <2>2 DEF JustSent
<1>3. CASE Update(w)
  <2>1. /\ pc'[w] = "changed" /\ StoreUpdates(w) /\ Addressed(w)
        /\ UNCHANGED <<variants, item, plan, found>>
    BY <1>3 DEF Update, Goto, catalogue, session, WrittenInv, TypeOK
  <2>. PICK n : n = Target(item[w], found[w])
    OBVIOUS
  <2>2. store'[n].version = plan[w][item[w]] /\ Target(item[w], found[w])' = n
    BY <2>1, UpdatedStore DEF Target
  <2>. QED  BY <1>1, <2>1, <2>2 DEF JustSent
<1>4. CASE ~Create(w) /\ ~Update(w)
  <2>1. pc'[w] \notin {"new", "changed"}
    BY <1>4 DEF Begin, Phase, RunFault, SkipUnchanged, NeedsCall, Rejected, SaveNew, SaveHash,
                FetchVariants, CommitRun, AnswerLost, CallRefused, RollbackRun, Done, Close,
                NextTemplate, Goto, WrittenInv, TypeOK
  <2>. QED  BY <1>1, <2>1 DEF JustSent
<1>. QED  BY <1>2, <1>3, <1>4

\* The second layer after a step of the only run.
LEMMA GrowsNow ==
    ASSUME GrowsInv, NEW w \in Workers, UNCHANGED odoo,
           \A v \in Workers \ {w} : Untouched(v) /\ pc'[v] = "idle" /\ own'[v] = {},
           \A n \in DOMAIN store' : store'[n].version <= odoo[store'[n].item],
           \A i \in Items : plan'[w][i] <= odoo[i],
           \A r \in mappings' \cup own'[w] : Behind(r)',
           pc'[w] # "idle" => Planned(w)'
    PROVE  GrowsInv'
<1>1. ASSUME NEW v \in Workers
      PROVE  /\ \A i \in Items : plan'[v][i] <= odoo'[i]
             /\ \A r \in own'[v] : Behind(r)'
             /\ pc'[v] # "idle" => Planned(v)'
  BY DEF Untouched, GrowsInv
<1>. QED  BY <1>1 DEF GrowsInv

\* A step that leaves the store as it is, and adds no row.
LEMMA QuietGrows ==
    ASSUME GrowsInv, NEW w \in Workers, UNCHANGED <<odoo, store, variants>>,
           \A v \in Workers \ {w} : Untouched(v) /\ pc'[v] = "idle" /\ own'[v] = {},
           mappings' \cup own'[w] \subseteq mappings \cup own[w],
           \A i \in Items : plan'[w][i] <= odoo[i],
           pc'[w] # "idle" => Planned(w)'
    PROVE  GrowsInv'
<1>1. \A r : Behind(r)' <=> Behind(r)
  BY DEF Behind, HashId, Target
<1>2. \A r \in mappings' \cup own'[w] : Behind(r)'
  BY <1>1 DEF GrowsInv
<1>. QED  BY <1>2, GrowsNow DEF GrowsInv

\* What a run has still to send, when it visits no item that it did not before.
LEMMA PlannedKept ==
    ASSUME WrittenInv, NEW w \in Workers, Planned(w), UNCHANGED store, plan'[w] = plan[w],
           todo'[w] \cup {item'[w]} \subseteq todo[w] \cup {item[w], NoItem}
    PROVE  Planned(w)'
<1>1. \A n \in DOMAIN store : store[n].item # NoItem
  BY ProductAssumption DEF WrittenInv, TypeOK, Article, Items
<1>. QED  BY <1>1 DEF Planned

LEMMA LookUpGrows ==
    ASSUME WrittenInv, GrowsInv, NEW w \in Workers, NEW i \in Items,
           SkipUnchanged(w, i) \/ NeedsCall(w, i),
           \A v \in Workers \ {w} : Untouched(v) /\ pc'[v] = "idle" /\ own'[v] = {}
    PROVE  GrowsInv'
<1>1. /\ UNCHANGED <<odoo, store, variants, mappings, own, plan>>
      /\ todo'[w] \subseteq todo[w] /\ i \in todo[w] /\ item'[w] \in {i, NoItem}
      /\ pc[w] = "next"
  BY DEF SkipUnchanged, NeedsCall, LookUp, Done, Goto, catalogue, WrittenInv, TypeOK
<1>2. Planned(w)'
  BY <1>1, PlannedKept DEF GrowsInv
<1>. QED  BY <1>1, <1>2, QuietGrows DEF GrowsInv

LEMMA SkippedGrows ==
    ASSUME WrittenInv, GrowsInv, NEW w \in Workers, Rejected(w) \/ CallRefused(w),
           \A v \in Workers \ {w} : Untouched(v) /\ pc'[v] = "idle" /\ own'[v] = {}
    PROVE  GrowsInv'
<1>1. /\ UNCHANGED <<odoo, store, variants, mappings, own, plan>>
      /\ todo'[w] \subseteq todo[w] /\ item'[w] = NoItem /\ pc[w] # "idle"
  BY DEF Rejected, CallRefused, NextTemplate, catalogue, WrittenInv, TypeOK
<1>2. Planned(w)'
  BY <1>1, PlannedKept DEF GrowsInv
<1>. QED  BY <1>1, <1>2, QuietGrows DEF GrowsInv

\* What has just been read from Odoo is not older than what was ever sent.
LEMMA ReadGrows ==
    ASSUME WrittenInv, GrowsInv, NEW w \in Workers, Begin(w) \/ FetchVariants(w),
           \A v \in Workers \ {w} : Untouched(v) /\ pc'[v] = "idle" /\ own'[v] = {}
    PROVE  GrowsInv'
<1>1. /\ UNCHANGED <<odoo, store, variants, mappings, own>>
      /\ \A n \in DOMAIN store : store[n] \in Article
      /\ \A i \in Items : odoo[i] \in Nat
      /\ NoItem \notin Items /\ Templates \subseteq Items /\ Templates \cap Variants = {}
  BY ProductAssumption
     DEF Begin, FetchVariants, catalogue, WrittenInv, TypeOK, Items, Versions
<1>2. CASE Begin(w)
  <2> PICK page \in SUBSET Templates :
         /\ todo' = [todo EXCEPT ![w] = page]
         /\ plan' = [plan EXCEPT ![w] = [i \in Items |-> IF i \in page THEN odoo[i] ELSE 0]]
    BY <1>2, BeginReads
  <2>1. /\ plan'[w] = [i \in Items |-> IF i \in page THEN odoo[i] ELSE 0]
        /\ todo'[w] = page /\ item'[w] = NoItem
    BY <1>2 DEF Begin, WrittenInv, TypeOK
  <2>2. \A i \in Items : plan'[w][i] <= odoo[i]
    BY <1>1, <2>1
  <2>3. \A i \in page \cup {NoItem} : \A n \in DOMAIN store :
           store[n].item = i => store[n].version <= plan'[w][i]
    BY <1>1, <2>1 DEF Article, GrowsInv
  <2>4. Planned(w)'
    BY <1>1, <2>1, <2>3 DEF Planned
  <2>. QED  BY <1>1, <2>2, <2>4, QuietGrows
<1>3. CASE FetchVariants(w)
  <2> PICK vs \in SUBSET variants[item[w]] :
         /\ todo' = [todo EXCEPT ![w] = @ \cup vs]
         /\ plan' = [plan EXCEPT ![w] = [i \in Items |-> IF i \in vs THEN odoo[i] ELSE @[i]]]
    BY <1>3, VariantsRead
  <2>1. /\ plan'[w] = [i \in Items |-> IF i \in vs THEN odoo[i] ELSE plan[w][i]]
        /\ todo'[w] = todo[w] \cup vs /\ item'[w] = NoItem
        /\ pc[w] = "variants"
    BY <1>3 DEF FetchVariants, WrittenInv, TypeOK
  <2>2. item[w] \in Templates /\ vs \subseteq Items /\ todo[w] \subseteq Items
    BY <2>1 DEF WrittenInv, TypeOK, InHand, Items
  <2>3. \A i \in Items : plan'[w][i] <= odoo[i]
    BY <1>1, <2>1 DEF GrowsInv
  <2>4. \A i \in todo[w] \cup vs \cup {NoItem} : \A n \in DOMAIN store :
           store[n].item = i => store[n].version <= plan'[w][i]
    BY <1>1, <2>1, <2>2 DEF Article, GrowsInv, Planned
  <2>5. Planned(w)'
    BY <1>1, <2>1, <2>4 DEF Planned
  <2>. QED  BY <1>1, <2>3, <2>5, QuietGrows
<1>. QED  BY <1>2, <1>3

LEMMA CloseGrows ==
    ASSUME WrittenInv, GrowsInv, NEW w \in Workers, CommitRun(w) \/ RollbackRun(w),
           \A v \in Workers \ {w} : Untouched(v) /\ pc'[v] = "idle" /\ own'[v] = {}
    PROVE  GrowsInv'
<1>1. /\ UNCHANGED <<odoo, store, variants>>
      /\ mappings' \cup own'[w] \subseteq mappings \cup own[w]
      /\ pc'[w] = "idle" /\ plan'[w] = [i \in Items |-> 0]
  BY DEF CommitRun, RollbackRun, Close, Goto, View, catalogue, WrittenInv, TypeOK
<1>2. \A i \in Items : plan'[w][i] <= odoo[i]
  BY <1>1 DEF WrittenInv, TypeOK, Versions
<1>. QED  BY <1>1, <1>2, QuietGrows

\* What a call does, answered or not: one article, n, gets the content the run
\* has read of its item.
SentTo(w, n) ==
    /\ SameContent(n)
    /\ n \in DOMAIN store'
    /\ store'[n].item = item[w] /\ store'[n].version = plan[w][item[w]]
    /\ n = nextId \/ (/\ found[w] # NoRow /\ n = Target(item[w], found[w])
                      /\ n \in DOMAIN store /\ store[n].item = item[w])

LEMMA CallSends ==
    ASSUME WrittenInv, NamesInv, NEW w \in Workers, pc[w] = "call", Addressed(w),
           StoreCreates(w) \/ StoreUpdates(w), UNCHANGED variants
    PROVE  /\ \E n : SentTo(w, n)
           /\ StoreUpdates(w) => SentTo(w, Target(item[w], found[w]))
           /\ StoreCreates(w) => SentTo(w, nextId)
<1>1. CASE StoreCreates(w)
  <2>1. SentTo(w, nextId)
    BY <1>1, CreatedStore DEF SentTo, SameContent
  <2>2. ~StoreUpdates(w)
    BY <1>1 DEF StoreCreates, StoreUpdates
  <2>. QED  BY <2>1, <2>2
<1>2. CASE StoreUpdates(w)
  <2>. PICK n : n = Target(item[w], found[w])
    OBVIOUS
  <2>1. /\ DOMAIN store' = DOMAIN store /\ n \in DOMAIN store
        /\ \A m \in DOMAIN store : m # n => store'[m] = store[m]
        /\ store'[n].item = store[n].item /\ store'[n].version = plan[w][item[w]]
    BY <1>2, UpdatedStore
  <2>2. found[w] # NoRow
    BY <1>2 DEF StoreUpdates
  <2>3. found[w] \in RowType /\ item[w] \in Items
    BY <2>2 DEF WrittenInv, TypeOK
  <2>4. store[n].item = item[w]
    <3>1. IsOf(n, item[w])
      BY <2>2, <2>3, TargetIsOf DEF NamesInv, Hand
    <3>. QED  BY <2>1, <3>1 DEF IsOf
  <2>5. SentTo(w, n)
    BY <2>1, <2>2, <2>4 DEF SentTo, SameContent
  <2>6. ~StoreCreates(w)
    BY <1>2 DEF StoreCreates, StoreUpdates
  <2>. QED  BY <2>5, <2>6
<1>. QED  BY <1>1, <1>2

\* A call sends nothing older than what the store has, and no row is ahead of
\* what it sends.
LEMMA CallGrows ==
    ASSUME WrittenInv, NamesInv, GrowsInv, NEW w \in Workers,
           Create(w) \/ Update(w) \/ AnswerLost(w),
           \A v \in Workers \ {w} : Untouched(v) /\ pc'[v] = "idle" /\ own'[v] = {}
    PROVE  GrowsInv'
<1>1. /\ UNCHANGED <<odoo, variants, mappings, own, plan>>
      /\ pc[w] = "call" /\ Addressed(w) /\ (StoreCreates(w) \/ StoreUpdates(w))
      /\ todo'[w] \subseteq todo[w] /\ item'[w] \in {item[w], NoItem}
  BY DEF Create, Update, AnswerLost, NextTemplate, session, catalogue, WrittenInv, TypeOK
<1>2. PICK n : SentTo(w, n)
  BY <1>1, CallSends
<1>3. /\ \A m \in DOMAIN store : store[m] \in Article
      /\ item[w] \in Items /\ plan[w][item[w]] \in Nat /\ \A i \in Items : odoo[i] \in Nat
      /\ NoItem \notin Items
  BY <1>1, ProductAssumption DEF WrittenInv, TypeOK, Items, Versions
<1>4. \A m \in DOMAIN store' : store'[m].version <= odoo[store'[m].item]
  <2>1. store'[n].version <= odoo[store'[n].item]
    BY <1>2, <1>3 DEF SentTo, GrowsInv
  <2>. QED  BY <1>2, <2>1 DEF SentTo, SameContent, GrowsInv
<1>5. \A i \in Items : plan'[w][i] <= odoo[i]
  BY <1>1 DEF GrowsInv
<1>6. Planned(w)
  BY <1>1 DEF GrowsInv
<1>7. ASSUME NEW r \in mappings \cup own[w]  PROVE Behind(r)'
  <2>1. r \in RowType /\ Names(r) /\ Behind(r)
    BY DEF NamesInv, WrittenInv, TypeOK, GrowsInv
  <2>2. CASE HashId(r) # n
    BY <1>2, <2>1, <2>2, ContentKept DEF SentTo
  <2>3. CASE HashId(r) = n
    <3>1. n # nextId  BY <2>1, <2>3, NotNew
    <3>2. n \in DOMAIN store /\ store[n].item = item[w]
      BY <1>2, <3>1 DEF SentTo
    <3>3. r.hash[2] \in Nat
      BY <2>1 DEF RowType, Hashes, Versions
    <3>4. r.hash[2] <= store[n].version /\ store[n].version <= plan[w][item[w]]
      BY <1>6, <2>1, <2>3, <3>2 DEF Behind, Planned
    <3>5. store[n].version \in Nat
      BY <1>3, <3>2 DEF Article, Versions
    <3>6. r.hash[2] <= plan[w][item[w]]
      BY <1>3, <3>3, <3>4, <3>5
    <3>7. HashId(r)' = n
      BY <1>1, <2>3 DEF HashId, Target
    <3>. QED  BY <1>2, <3>6, <3>7 DEF SentTo, Behind
  <2>. QED  BY <2>2, <2>3
<1>8. Planned(w)'
  <2> SUFFICES ASSUME NEW i \in todo[w] \cup {item[w], NoItem}, NEW m \in DOMAIN store',
                      store'[m].item = i
               PROVE  store'[m].version <= plan[w][i]
    BY <1>1 DEF Planned
  <2>1. CASE m = n
    BY <1>2, <1>3, <2>1 DEF SentTo
  <2>2. CASE m # n
    <3>1. m \in DOMAIN store /\ store'[m] = store[m]
      BY <1>2, <2>2 DEF SentTo, SameContent
    <3>2. i # NoItem
      BY <1>3, <3>1 DEF Article
    <3>. QED  BY <1>6, <3>1, <3>2 DEF Planned
  <2>. QED  BY <2>1, <2>2
<1>. QED  BY <1>1, <1>4, <1>5, <1>7, <1>8, GrowsNow

\* The row that is saved has the hash of what has just been sent.
LEMMA SavedRow ==
    ASSUME WrittenInv, NamesInv, NEW w \in Workers, JustSent(w), SaveNew(w) \/ SaveHash(w)
    PROVE  \E row :
              /\ own'[w] \subseteq own[w] \cup {row} /\ row.hash[1] = item[w]
              /\ Fresh(row) /\ Behind(row)
              /\ SaveHash(w) => /\ row.item = found[w].item
                                /\ row.product = found[w].product
                                /\ row.variation = found[w].variation
                                /\ own'[w] = {s \in own[w] : ~SameRow(s, row)} \cup {row}
<1> DEFINE i == item[w]
<1>1. i \in Items /\ plan[w][i] \in Nat
  <2>1. pc[w] \in {"new", "changed"}
    BY DEF SaveNew, SaveHash
  <2>2. i \in Items /\ plan[w] \in [Items -> Versions]
    BY <2>1 DEF WrittenInv, TypeOK
  <2>. QED  BY <2>2 DEF Versions
<1>2. CASE SaveNew(w)
  <2> DEFINE row == [item |-> i, product |-> product[w],
                     variation |-> IF i \in Templates THEN 0 ELSE made[w],
                     hash |-> Hash(w, i)]
  <2>1. pc[w] = "new" /\ own'[w] \subseteq own[w] \cup {row}
    BY <1>2 DEF SaveNew, WrittenInv, TypeOK
  <2>2. row.hash[1] = i /\ row.hash[2] = plan[w][i] /\ HashId(row) = made[w]
    BY <2>1 DEF Hash, HashId, Target, WrittenInv, InHand
  <2> HIDE DEF row
  <2>3. Fresh(row) /\ Behind(row)
    BY <1>1, <2>1, <2>2 DEF JustSent, Fresh, Behind
  <2>4. ~SaveHash(w)
    BY <2>1 DEF SaveHash
  <2>. QED  BY <2>1, <2>2, <2>3, <2>4
<1>3. CASE SaveHash(w)
  <2> DEFINE row == [found[w] EXCEPT !.hash = Hash(w, i)]
  <2>1. pc[w] = "changed" /\ own'[w] = {s \in own[w] : ~SameRow(s, row)} \cup {row}
    BY <1>3 DEF SaveHash, WrittenInv, TypeOK
  <2>2. found[w] \in RowType
    BY <2>1 DEF WrittenInv, TypeOK
  <2>3. /\ row.item = found[w].item /\ row.product = found[w].product
        /\ row.variation = found[w].variation
        /\ row.hash[1] = i /\ row.hash[2] = plan[w][i]
    BY <2>2 DEF RowType, Hash
  <2> HIDE DEF row
  <2>4. HashId(row) = Target(i, found[w])
    BY <2>3 DEF HashId, Target
  <2>5. Fresh(row) /\ Behind(row)
    BY <1>1, <2>1, <2>3, <2>4 DEF JustSent, Fresh, Behind
  <2>. QED  BY <2>1, <2>3, <2>5
<1>. QED  BY <1>2, <1>3

LEMMA SaveGrows ==
    ASSUME WrittenInv, NamesInv, GrowsInv, NEW w \in Workers, JustSent(w),
           SaveNew(w) \/ SaveHash(w),
           \A v \in Workers \ {w} : Untouched(v) /\ pc'[v] = "idle" /\ own'[v] = {}
    PROVE  GrowsInv'
<1>1. /\ UNCHANGED <<odoo, store, variants, mappings, plan, todo>>
      /\ pc[w] # "idle" /\ item'[w] \in {item[w], NoItem}
  BY DEF SaveNew, SaveHash, Done, Goto, catalogue, WrittenInv, TypeOK
<1>2. PICK row : own'[w] \subseteq own[w] \cup {row} /\ Behind(row)
  BY SavedRow
<1>3. \A r : Behind(r)' <=> Behind(r)
  BY <1>1 DEF Behind, HashId, Target
<1>4. \A r \in mappings' \cup own'[w] : Behind(r)'
  BY <1>1, <1>2, <1>3 DEF GrowsInv
<1>5. Planned(w)'
  BY <1>1, PlannedKept DEF GrowsInv
<1>. QED  BY <1>1, <1>4, <1>5, GrowsNow DEF GrowsInv

\* The second layer, as long as no old content is restored.
LEMMA RunGrows ==
    ASSUME WrittenInv, NamesInv, GrowsInv, NEW w \in Workers, JustSent(w),
           Begin(w) \/ Phase(w) \/ RunFault(w),
           \A v \in Workers \ {w} : Untouched(v) /\ pc'[v] = "idle" /\ own'[v] = {}
    PROVE  GrowsInv'
BY LookUpGrows, SkippedGrows, ReadGrows, CloseGrows, CallGrows, SaveGrows DEF Phase, RunFault

\* The third layer after a step of the only run.
LEMMA ExactNow ==
    ASSUME NEW w \in Workers, \A v \in Workers \ {w} : pc'[v] = "idle",
           pc'[w] # "idle" => \A r \in View(w)' : Recorded(w, r)',
           pc'[w] = "idle" => \A r \in mappings' : Fresh(r)' \/ Variable(r)'
    PROVE  ExactInv'
BY DEF ExactInv

\* A step that leaves the store and the rows, of a run that has sent nothing it
\* is about to record.
LEMMA QuietExact ==
    ASSUME ExactInv, NEW w \in Workers, UNCHANGED <<store, variants, mappings, own>>,
           \A v \in Workers \ {w} : pc'[v] = "idle",
           pc[w] \in {"next", "call", "variants"}, pc'[w] # "idle"
    PROVE  ExactInv'
<1>1. View(w)' = View(w)
  BY DEF View, SameRow, Target
<1>2. \A r : (Fresh(r)' <=> Fresh(r)) /\ (Variable(r)' <=> Variable(r))
  BY DEF Fresh, Variable, HashId, Target
<1>3. \A r \in View(w)' : Recorded(w, r)'
  BY <1>1, <1>2 DEF ExactInv, Recorded
<1>. QED  BY <1>3, ExactNow

\* The run sees what is committed, or commits what it has seen.
LEMMA BeginExact ==
    ASSUME WrittenInv, OnceInv, ExactInv, NEW w \in Workers, Begin(w),
           \A v \in Workers \ {w} : pc[v] = "idle" /\ pc'[v] = "idle"
    PROVE  ExactInv'
<1>1. /\ pc[w] = "idle" /\ pc'[w] = "next" /\ own[w] = {}
      /\ UNCHANGED <<store, variants, mappings, own>>
  BY DEF Begin, Goto, catalogue, WrittenInv, TypeOK, OnceInv
<1>2. View(w)' = mappings
  BY <1>1 DEF View
<1>3. \A r : (Fresh(r)' <=> Fresh(r)) /\ (Variable(r)' <=> Variable(r))
  BY <1>1 DEF Fresh, Variable, HashId, Target
<1>4. \A r \in View(w)' : Recorded(w, r)'
  BY <1>1, <1>2, <1>3 DEF ExactInv, Recorded
<1>. QED  BY <1>1, <1>4, ExactNow

LEMMA CommitExact ==
    ASSUME WrittenInv, ExactInv, NEW w \in Workers, CommitRun(w),
           \A v \in Workers \ {w} : pc'[v] = "idle"
    PROVE  ExactInv'
<1>1. /\ pc[w] = "next" /\ pc'[w] = "idle" /\ mappings' = View(w)
      /\ UNCHANGED <<store, variants>>
  BY DEF CommitRun, Close, Goto, catalogue, WrittenInv, TypeOK
<1>2. \A r : (Fresh(r)' <=> Fresh(r)) /\ (Variable(r)' <=> Variable(r))
  BY <1>1 DEF Fresh, Variable, HashId, Target
<1>3. \A r \in mappings' : Fresh(r)' \/ Variable(r)'
  BY <1>1, <1>2 DEF ExactInv, Recorded
<1>. QED  BY <1>1, <1>3, ExactNow

\* The only row that a call leaves behind is the one the run has found, or one
\* with the hash of a variable product.
LEMMA CallExact ==
    ASSUME WrittenInv, NamesInv, OnceInv, ExactInv, NEW w \in Workers,
           Create(w) \/ Update(w), \A v \in Workers \ {w} : pc'[v] = "idle"
    PROVE  ExactInv'
<1>1. /\ pc[w] = "call" /\ Addressed(w) /\ (StoreCreates(w) \/ StoreUpdates(w))
      /\ pc'[w] # "idle" /\ (StoreUpdates(w) => pc'[w] = "changed")
      /\ UNCHANGED <<variants, mappings, own, found>>
  BY DEF Create, Update, StoreCreates, StoreUpdates, session, catalogue, Goto, WrittenInv, TypeOK
<1>2. PICK n : SentTo(w, n) /\ (n # nextId => StoreUpdates(w))
  BY <1>1, CallSends
<1>3. View(w)' = View(w)
  BY <1>1 DEF View, SameRow, Target
<1>4. ASSUME NEW r \in View(w)  PROVE Recorded(w, r)'
  <2>1. r \in RowType /\ Names(r)
    BY DEF View, NamesInv, WrittenInv, TypeOK
  <2>2. Fresh(r) \/ Variable(r)
    BY <1>1 DEF ExactInv, Recorded
  <2>3. Variable(r)' <=> Variable(r)
    BY <1>1 DEF Variable
  <2>4. CASE HashId(r) # n
    BY <1>2, <2>2, <2>4, ContentKept DEF SentTo, Recorded
  <2>5. CASE HashId(r) = n /\ ~Variable(r)
    <3>1. n # nextId  BY <2>1, <2>5, NotNew
    <3>2. /\ found[w] # NoRow /\ n = Target(item[w], found[w])
          /\ n \in DOMAIN store /\ store[n].item = item[w]
      BY <1>2, <3>1 DEF SentTo
    <3>3. r.hash[1] = item[w]
      BY <2>1, <2>5, <3>2, HashIdIsOf DEF IsOf
    <3>4. r.item = item[w]
      <4>1. Speaks(r, r.hash[1])  BY <2>1 DEF Names
      <4>. QED  BY <2>5, <3>3, <4>1 DEF Speaks, Variable
    <3>5. Speaks(found[w], item[w]) /\ found[w] \in View(w)
      BY <1>1, <3>2 DEF NamesInv, Hand, OnceInv, LookedUpHolds
    <3>6. found[w].item = r.item
      BY <2>5, <3>3, <3>4, <3>5 DEF Speaks, Variable
    <3>7. r = found[w]
      BY <3>5, <3>6 DEF OnceInv, Distinct
    <3>. QED  BY <1>1, <1>2, <3>1, <3>7 DEF Recorded
  <2>6. CASE Variable(r)
    BY <2>3, <2>6 DEF Recorded
  <2>. QED  BY <2>4, <2>5, <2>6
<1>. QED  BY <1>1, <1>3, <1>4, ExactNow

\* The row that was behind is replaced by its new version.
LEMMA SaveExact ==
    ASSUME WrittenInv, NamesInv, OnceInv, ExactInv, NEW w \in Workers, JustSent(w),
           SaveNew(w) \/ SaveHash(w), \A v \in Workers \ {w} : pc'[v] = "idle"
    PROVE  ExactInv'
<1>1. /\ pc[w] \in {"new", "changed"} /\ pc'[w] # "idle" /\ (pc[w] = "changed" => SaveHash(w))
      /\ UNCHANGED <<store, variants, mappings>>
  BY DEF SaveNew, SaveHash, Done, Goto, catalogue, WrittenInv, TypeOK
<1>2. PICK row :
         /\ own'[w] \subseteq own[w] \cup {row} /\ Fresh(row)
         /\ SaveHash(w) => /\ row.item = found[w].item
                           /\ row.product = found[w].product
                           /\ row.variation = found[w].variation
                           /\ own'[w] = {s \in own[w] : ~SameRow(s, row)} \cup {row}
  BY SavedRow
<1>3. \A r : (Fresh(r)' <=> Fresh(r)) /\ (Variable(r)' <=> Variable(r))
  BY <1>1 DEF Fresh, Variable, HashId, Target
<1>4. \A r, s : SameRow(r, s)' <=> SameRow(r, s)
  BY DEF SameRow, Target
<1>5. ASSUME NEW r \in View(w)', r # row
      PROVE  r \in View(w) /\ (SaveHash(w) => ~SameRow(r, row))
  <2>1. CASE r \in own'[w]
    BY <1>2, <1>5, <2>1 DEF View
  <2>2. CASE r \notin own'[w]
    <3>1. r \in mappings /\ \A s \in own'[w] : ~SameRow(r, s)
      BY <1>1, <1>4, <2>2 DEF View
    <3>2. CASE SaveHash(w)
      <4>1. ~SameRow(r, row)
        BY <1>2, <3>1, <3>2
      <4>2. \A s \in own[w] : ~SameRow(r, s)
        <5>1. \A s \in own[w] : s \in own'[w] \/ SameRow(s, row)
          BY <1>2, <3>2
        <5>2. \A s : SameRow(s, row) /\ SameRow(r, s) => SameRow(r, row)
          BY DEF SameRow
        <5>. QED  BY <3>1, <4>1, <5>1, <5>2
      <4>. QED  BY <3>1, <4>1, <4>2 DEF View
    <3>3. CASE SaveNew(w)
      <4>1. own[w] \subseteq own'[w] /\ ~SaveHash(w)
        BY <3>3 DEF SaveNew, SaveHash, WrittenInv, TypeOK
      <4>. QED  BY <3>1, <4>1 DEF View
    <3>. QED  BY <3>2, <3>3
  <2>. QED  BY <2>1, <2>2
<1>6. ASSUME NEW r \in View(w)'  PROVE Recorded(w, r)'
  <2>1. CASE r = row
    BY <1>2, <1>3, <2>1 DEF Recorded
  <2>2. CASE r # row
    <3>1. r \in View(w) /\ (SaveHash(w) => ~SameRow(r, row))
      BY <1>5, <2>2
    <3>2. pc[w] = "changed" => r # found[w]
      <4>1. SaveHash(w) => SameRow(found[w], row)
        BY <1>2 DEF SameRow, Target
      <4>. QED  BY <1>1, <3>1, <4>1
    <3>3. Fresh(r) \/ Variable(r)
      BY <1>1, <3>1, <3>2 DEF ExactInv, Recorded
    <3>. QED  BY <1>3, <3>3 DEF Recorded
  <2>. QED  BY <2>1, <2>2
<1>. QED  BY <1>1, <1>6, ExactNow

\* The third layer, as long as no answer and no transaction is lost.
LEMMA RunExact ==
    ASSUME WrittenInv, NamesInv, OnceInv, ExactInv, NEW w \in Workers, JustSent(w),
           Begin(w) \/ Phase(w) \/ RunFault(w), Losses \in Nat, Losses' = 0,
           \A v \in Workers \ {w} : pc[v] = "idle" /\ pc'[v] = "idle"
    PROVE  ExactInv'
<1>1. ~AnswerLost(w) /\ ~RollbackRun(w)
  <2>1. ~(Losses + 1 <= Losses')
    OBVIOUS
  <2>. QED  BY <2>1, SpendLosses DEF AnswerLost, RollbackRun, FaultKinds
<1>2. ASSUME NEW i \in Items, SkipUnchanged(w, i) \/ NeedsCall(w, i)  PROVE ExactInv'
  <2>1. /\ pc[w] = "next" /\ pc'[w] # "idle" /\ UNCHANGED <<store, variants, mappings, own>>
    BY <1>2 DEF SkipUnchanged, NeedsCall, LookUp, Done, Goto, catalogue, WrittenInv, TypeOK
  <2>. QED  BY <2>1, QuietExact
<1>3. CASE Rejected(w) \/ CallRefused(w) \/ FetchVariants(w)
  <2>1. /\ pc[w] \in {"call", "variants"} /\ pc'[w] # "idle"
        /\ UNCHANGED <<store, variants, mappings, own>>
    BY <1>3 DEF Rejected, CallRefused, FetchVariants, NextTemplate, Goto, catalogue,
                WrittenInv, TypeOK
  <2>. QED  BY <2>1, QuietExact
<1>. QED
  BY <1>1, <1>2, <1>3, BeginExact, CommitExact, CallExact, SaveExact DEF Phase, RunFault

\* An edit that is not the restoring of an older content.
LEMMA EditGrows ==
    ASSUME WrittenInv, GrowsInv, NEW i \in Items, NEW version \in Versions, Edit(i, version),
           ~restored'
    PROVE  GrowsInv'
<1>1. /\ UNCHANGED <<store, variants, mappings, own, plan, pc, todo, item>>
      /\ odoo' = [odoo EXCEPT ![i] = version] /\ ~(version < odoo[i])
  BY DEF Edit, session
<1>2. /\ \A j \in Items : odoo[j] \in Nat /\ odoo'[j] \in Nat /\ odoo[j] <= odoo'[j]
  BY <1>1 DEF WrittenInv, TypeOK, Versions
<1>3. /\ \A n \in DOMAIN store : store[n].item \in Items /\ store[n].version \in Nat
      /\ \A w \in Workers, j \in Items : plan[w][j] \in Nat
  BY DEF WrittenInv, TypeOK, Article, Versions
<1>4. \A n \in DOMAIN store' : store'[n].version <= odoo'[store'[n].item]
  BY <1>1, <1>2, <1>3 DEF GrowsInv
<1>5. ASSUME NEW w \in Workers, NEW j \in Items  PROVE plan'[w][j] <= odoo'[j]
  BY <1>1, <1>2, <1>3 DEF GrowsInv
<1>6. \A r : Behind(r)' <=> Behind(r)
  BY <1>1 DEF Behind, HashId, Target
<1>7. \A w \in Workers : Planned(w)' <=> Planned(w)
  BY <1>1 DEF Planned
<1>8. \A r \in mappings' : Behind(r)'
  BY <1>1, <1>6 DEF GrowsInv
<1>9. \A w \in Workers : (\A r \in own'[w] : Behind(r)') /\ (pc'[w] # "idle" => Planned(w)')
  BY <1>1, <1>6, <1>7 DEF GrowsInv
<1>. QED  BY <1>4, <1>5, <1>8, <1>9 DEF GrowsInv

\* A store with fewer articles.
LEMMA FewerGrows ==
    ASSUME GrowsInv, UNCHANGED <<odoo, variants, mappings, pc, session>>,
           \A n \in DOMAIN store' : n \in DOMAIN store /\ store'[n] = store[n]
    PROVE  GrowsInv'
<1>1. \A r : Behind(r) => Behind(r)'
  BY DEF Behind, HashId, Target
<1>2. \A w \in Workers : Planned(w) => Planned(w)'
  BY DEF Planned, session
<1>3. \A r \in mappings' : Behind(r)'
  BY <1>1 DEF GrowsInv
<1>4. \A w \in Workers : /\ \A r \in own'[w] : Behind(r)'
                         /\ pc'[w] # "idle" => Planned(w)'
                         /\ \A i \in Items : plan'[w][i] <= odoo'[i]
  BY <1>1, <1>2 DEF GrowsInv, session
<1>. QED  BY <1>3, <1>4 DEF GrowsInv

LEMMA FewerExact ==
    ASSUME ExactInv, UNCHANGED <<variants, mappings, pc, session>>,
           \A n \in DOMAIN store' : n \in DOMAIN store /\ store'[n] = store[n]
    PROVE  ExactInv'
<1>1. \A r : (Fresh(r) => Fresh(r)') /\ (Variable(r)' <=> Variable(r))
  BY DEF Fresh, Variable, HashId, Target
<1>2. \A w \in Workers : View(w)' = View(w)
  BY DEF View, SameRow, Target, session
<1>3. \A w \in Workers : \A r : Recorded(w, r) => Recorded(w, r)'
  BY <1>1 DEF Recorded, session
<1>. QED  BY <1>1, <1>2, <1>3 DEF ExactInv

LEMMA FewerJustSent ==
    ASSUME NEW w, JustSent(w), UNCHANGED <<pc, session>>,
           \A n \in DOMAIN store' : n \in DOMAIN store /\ store'[n] = store[n]
    PROVE  JustSent(w)'
BY DEF JustSent, session, Target

LEMMA OutsideMissed ==
    ASSUME MissedInv, UNCHANGED <<variants, mappings, pc, session, nextId, overlapped>>,
           \A n \in DOMAIN store' : n \in DOMAIN store /\ store'[n] = store[n],
           ~overlapped /\ ~restored' /\ GrowsInv => GrowsInv', restored => restored',
           Losses' = 0 => Losses = 0
    PROVE  NothingMissed'
<1>1. NamesInv'
  <2>1. DOMAIN store' \subseteq DOMAIN store  OBVIOUS
  <2>. QED  BY <2>1, OutsideNames DEF MissedInv, PaidInv, MappedInv, NothingMissed
<1>2. ASSUME ~overlapped'
      PROVE  /\ \A w \in Workers : JustSent(w)'
             /\ ~restored' => GrowsInv'
             /\ Losses' = 0 => ExactInv'
  BY <1>2, FewerJustSent, FewerExact DEF MissedInv, NothingMissed
<1>. QED  BY <1>1, <1>2 DEF NothingMissed

LEMMA RunMissed ==
    ASSUME MissedInv, WrittenInv', NEW w \in Workers, Begin(w) \/ Phase(w) \/ RunFault(w)
    PROVE  NothingMissed'
<1>1. WrittenInv /\ NamesInv /\ IsFiniteSet(DOMAIN store)
  BY DEF MissedInv, PaidInv, MappedInv, Paid, NothingMissed
<1>2. Effect(w)
  BY <1>1, BeginStep, SkipUnchangedStep, NeedsCallStep, CreateStep, UpdateStep,
     RejectedStep, SaveNewStep, SaveHashStep, FetchVariantsStep, CommitRunStep,
     AnswerLostStep, CallRefusedStep, RollbackRunStep
     DEF Phase, RunFault
<1>3. NamesInv'
  BY <1>1, <1>2, RunNames
<1>4. /\ overlapped => overlapped'
      /\ restored' = restored
      /\ Begin(w) \/ pc[w] # "idle"
  <2>1. CASE Begin(w)
    BY <2>1 DEF Begin, catalogue
  <2>2. CASE RunFault(w)
    BY <2>2 DEF RunFault, AnswerLost, CallRefused, RollbackRun, catalogue
  <2>3. CASE Phase(w)
    <3>1. CASE (\E i \in Items : SkipUnchanged(w, i) \/ NeedsCall(w, i)) \/ Create(w) \/ Update(w)
      BY <3>1 DEF SkipUnchanged, NeedsCall, LookUp, Create, Update, catalogue
    <3>2. CASE Rejected(w) \/ SaveNew(w) \/ SaveHash(w)
      BY <3>2 DEF Rejected, SaveNew, SaveHash, catalogue
    <3>3. CASE FetchVariants(w) \/ CommitRun(w)
      BY <3>3 DEF FetchVariants, CommitRun, catalogue
    <3>. QED  BY <2>3, <3>1, <3>2, <3>3 DEF Phase
  <2>. QED  BY <2>1, <2>2, <2>3
<1>5. ASSUME ~overlapped'
      PROVE  /\ \A v \in Workers : JustSent(v)'
             /\ ~restored' => GrowsInv'
             /\ Losses' = 0 => ExactInv'
  <2>1. /\ ~overlapped /\ OnceInv /\ JustSent(w)
        /\ ~restored => GrowsInv
        /\ Losses = 0 => ExactInv
    BY <1>4, <1>5 DEF MissedInv, PaidInv, MappedInv, NothingMissed
  <2>2. \A v \in Workers \ {w} : /\ pc[v] = "idle" /\ Untouched(v)
                                 /\ pc'[v] = "idle" /\ own'[v] = {}
    BY <1>1, <1>2, <1>4, <1>5, <2>1, Alone
  <2>3. \A v \in Workers : JustSent(v)'
    BY <1>1, <1>2, <2>2, JustSentStep
  <2>4. ~restored' => GrowsInv'
    BY <1>1, <1>4, <2>1, <2>2, RunGrows
  <2>5. Losses' = 0 => ExactInv'
    <3> SUFFICES ASSUME Losses' = 0  PROVE ExactInv'
      OBVIOUS
    <3>1. Losses \in Nat
      BY <1>1, Counts
    <3>2. Losses <= Losses'
      <4>1. CASE spent' = spent
        BY <3>1, <4>1 DEF Losses
      <4>2. CASE spent' # spent
        <5>1. AnswerLost(w) \/ CallRefused(w) \/ RollbackRun(w)
          BY <4>2 DEF Begin, Phase, RunFault, SkipUnchanged, NeedsCall, LookUp, Create, Update,
                      Rejected, SaveNew, SaveHash, FetchVariants, CommitRun
        <5>. QED
          BY <1>1, <5>1, SpendLosses DEF AnswerLost, CallRefused, RollbackRun, FaultKinds
      <4>. QED  BY <4>1, <4>2
    <3>3. Losses = 0
      BY <3>1, <3>2
    <3>. QED  BY <1>1, <2>1, <2>2, <3>1, <3>3, RunExact
  <2>. QED  BY <2>3, <2>4, <2>5
<1>. QED  BY <1>3, <1>5 DEF NothingMissed

LEMMA MissedStarts == Init => MissedInv
<1> SUFFICES ASSUME Init  PROVE NothingMissed
  BY PaidStarts DEF MissedInv
<1>. PICK c \in Catalogues : variants = c.variants
  BY DEF Init
<1>1. /\ mappings = {} /\ DOMAIN store = {} /\ nextId = 1
      /\ odoo = [i \in Items |-> 0]
      /\ \A w \in Workers : /\ own[w] = {} /\ pc[w] = "idle" /\ found[w] = NoRow
                            /\ item[w] = NoItem /\ todo[w] = {} /\ plan[w] = [i \in Items |-> 0]
  BY DEF Init
<1>2. Apart /\ variants \in [Templates -> SUBSET Variants] /\ NoItem \notin Templates \cup Variants
  BY ProductAssumption DEF Apart
<1>3. \A w \in Workers : Hand(w)
  BY <1>1, <1>2 DEF Hand, Family
<1>4. NamesInv
  BY <1>1, <1>2, <1>3 DEF NamesInv
<1>5. GrowsInv
  BY <1>1 DEF GrowsInv
<1>6. ExactInv /\ \A w \in Workers : JustSent(w)
  BY <1>1 DEF ExactInv, JustSent
<1>. QED  BY <1>4, <1>5, <1>6 DEF NothingMissed

LEMMA MissedStep == MissedInv /\ [Next]_vars => MissedInv'
<1> SUFFICES ASSUME MissedInv, [Next]_vars  PROVE NothingMissed'
  BY PaidStep DEF MissedInv
<1>1. WrittenInv /\ WrittenInv' /\ IsFiniteSet(DOMAIN store)
  BY StepInv DEF MissedInv, PaidInv, MappedInv, Paid
<1>2. ASSUME NEW w \in Workers, Begin(w) \/ Phase(w) \/ RunFault(w)  PROVE NothingMissed'
  BY <1>1, <1>2, RunMissed
<1>3. ASSUME NEW i \in Items, NEW version \in Versions, Edit(i, version)  PROVE NothingMissed'
  <2>1. /\ UNCHANGED <<variants, mappings, pc, session, nextId, overlapped, store, spent>>
        /\ restored => restored'
    BY <1>3 DEF Edit
  <2>2. Losses' = Losses  BY <2>1 DEF Losses
  <2>3. ~restored' /\ GrowsInv => GrowsInv'  BY <1>1, <1>3, EditGrows
  <2>. QED  BY <2>1, <2>2, <2>3, OutsideMissed
<1>4. ASSUME NEW n \in DOMAIN store, MerchantDeletes(n)  PROVE NothingMissed'
  <2>1. /\ UNCHANGED <<variants, odoo, restored, mappings, pc, session, nextId, overlapped>>
        /\ \A m \in DOMAIN store' : m \in DOMAIN store /\ store'[m] = store[m]
    BY <1>4 DEF MerchantDeletes, catalogue
  <2>2. Losses' = 0 => Losses = 0
    <3>1. Losses <= Losses' /\ Losses \in Nat
      BY <1>1, <1>4, Counts, SpendLosses DEF MerchantDeletes, FaultKinds
    <3>. QED  BY <3>1
  <2>3. GrowsInv => GrowsInv'  BY <2>1, FewerGrows
  <2>. QED  BY <2>1, <2>2, <2>3, OutsideMissed
<1>5. CASE UNCHANGED vars
  <2>1. /\ UNCHANGED <<variants, odoo, restored, mappings, pc, session, nextId, overlapped>>
        /\ UNCHANGED <<store, spent>>
    BY <1>5 DEF vars, catalogue
  <2>2. Losses' = Losses  BY <2>1 DEF Losses
  <2>3. GrowsInv => GrowsInv'  BY <2>1, FewerGrows
  <2>. QED  BY <2>1, <2>2, <2>3, OutsideMissed
<1>. QED  BY <1>2, <1>3, <1>4, <1>5 DEF Next, ReadFails

LEMMA MissedIsEnough == MissedInv => NoMissedUpdate
<1> SUFFICES ASSUME MissedInv, Quiet, NEW r \in mappings,
                    ~(restored /\ Losses > 0),
                    ~(restored /\ Variable(r))
             PROVE  UpToDate(r)
  BY DEF NoMissedUpdate, Losses, Variable
<1> DEFINE n == HashId(r)
           i == r.hash[1]
<1>1. WrittenInv /\ NamesInv /\ IsFiniteSet(DOMAIN store)
  BY DEF MissedInv, PaidInv, MappedInv, Paid, NothingMissed
<1>2. r \in RowType /\ Names(r)
  BY <1>1 DEF WrittenInv, TypeOK, NamesInv
<1> SUFFICES ASSUME n \in DOMAIN store, r.hash[2] = odoo[i]
             PROVE  store[n].version = odoo[i]
  BY DEF UpToDate, HashId
<1>3. CASE ~restored
  <2>1. GrowsInv
    BY <1>3 DEF MissedInv, NothingMissed, Quiet
  <2>2. store[n].item = i
    BY <1>2, HashIdIsOf DEF IsOf
  <2>3. store[n] \in Article /\ i \in Items
    BY <1>1, <1>2, HashIdIsOf DEF WrittenInv, TypeOK
  <2>4. store[n].version \in Nat /\ odoo[i] \in Nat
    BY <1>1, <2>3 DEF WrittenInv, TypeOK, Article, Versions
  <2>5. odoo[i] <= store[n].version /\ store[n].version <= odoo[i]
    BY <2>1, <2>2 DEF GrowsInv, Behind
  <2>. QED  BY <2>4, <2>5
<1>4. CASE restored
  <2>1. Losses = 0
    <3>1. Losses \in Nat  BY <1>1, Counts
    <3>. QED  BY <1>4, <3>1
  <2>2. Fresh(r)
    BY <1>4, <2>1 DEF MissedInv, NothingMissed, Quiet, ExactInv
  <2>. QED  BY <2>2 DEF Fresh
<1>. QED  BY <1>3, <1>4

\* Between two runs that did not overlap, an item that the next run would skip
\* as unchanged is up to date in the store, whatever calls failed. The cases
\* where an old content restored in Odoo is missed are those named.
THEOREM NoMissedUpdateHolds == Spec => []NoMissedUpdate
BY MissedStarts, MissedStep, MissedIsEnough, PTL DEF Spec
=============================================================================
