---------------------------- MODULE CategorySync ----------------------------
(***************************************************************************)
(* The categories phase: sync_categories_odoo_to_wc reads the category     *)
(* tree of Odoo, sorts it parents first, and creates or renames the        *)
(* categories of the WooCommerce store one by one. category_mappings holds *)
(* which category of the store stands for which one of Odoo, and the name  *)
(* it was last given.                                                      *)
(*                                                                         *)
(* backend/sync/engines/categories.py over backend/sync/mappings.py.       *)
(*                                                                         *)
(* As in ProductSync, a call of the store takes effect at once and a row   *)
(* only when the run commits; runs of different jobs may overlap. What is  *)
(* particular here is the tree: a category is placed under whatever the    *)
(* run knows of its parent when its turn comes, and never moved again but  *)
(* by a change of its name.                                                *)
(*                                                                         *)
(* A name is a version number: two categories never have one name.         *)
(***************************************************************************)
EXTENDS Naturals, FiniteSets, Sequences, SequencesExt

CONSTANTS
    Workers,        \* runs that may be in the categories phase
    Cats,           \* ids of product.category
    Root,           \* no category: the parent of a top category
    Trees,          \* the trees a behaviour may start with
    Limit,          \* how many categories get_categories returns at most
    MaxVersion,     \* bound: the last version of a name
    MaxEvents       \* bound: how many edits, faults and overlaps there are

Names == 0..MaxVersion

\* A category of Odoo: parent_id is False or names another one.
OdooTrees == UNION {[S -> [name: Names, parent: S \cup {Root}]] : S \in SUBSET Cats}

\* Odoo accepts no recursive categories: of any set of them, one has its parent
\* outside.
Acyclic(tree) == \A S \in SUBSET DOMAIN tree :
                     S # {} => \E c \in S : tree[c].parent \notin S

ASSUME CategoryAssumption ==
    /\ Root \notin Cats
    /\ IsFiniteSet(Cats)
    /\ Trees \subseteq OdooTrees
    /\ \A t \in Trees : Acyclic(t)
    /\ Limit \in Nat \ {0}
    /\ MaxVersion \in Nat
    /\ MaxEvents \in Nat

VARIABLES
    odoo,           \* odoo[c]: name and parent, for the categories Odoo has
    store,          \* the product categories of the store, by id, see StoreWrites
    mappings,       \* committed rows of category_mappings, see Row
    own,            \* own[w]: rows w has flushed: new rows and new names
    pc,             \* pc[w]: "idle", "read", "next", "call", "new", "insert", "changed"
    plan,           \* plan[w]: what w has read from Odoo
    order,          \* order[w]: sorted_cats
    at,             \* at[w]: index of the category in hand in it
    lookup,         \* lookup[w]: odoo_to_woo
    kept,           \* kept[w]: the row the loop variable `existing` still holds
    found,          \* found[w]: the mapping looked up for the category
    made,           \* made[w]: id of the category just created
    nextId,         \* the next id of the store
    mishaps,        \* history: what has happened to each category, see below
    overlapped,     \* history: two runs were in the phase at the same time
    events          \* edits, faults and overlaps so far

\* Mishaps of a category. "refused": a call of the store failed; "lost": the store
\* acted and the answer did not arrive; "rollback": the transaction was lost after
\* the store had acted; "deleted": the merchant deleted it; "unread": a run did
\* not get it from Odoo.

session == <<own, plan, order, at, lookup, kept, found, made>>
history == <<mishaps, overlapped, events>>
vars == <<odoo, store, mappings, session, pc, nextId, history>>

-----------------------------------------------------------------------------
(* _topological_sort *)

\* One pass over what remains: a category follows when it is a top category,
\* its parent has been taken, or its parent was not read.
Pass(tree, st) ==
    LET Take(s, c) ==
            IF tree[c].parent \in ToSet(s.sorted) \/ tree[c].parent \notin DOMAIN tree
            THEN [s EXCEPT !.sorted = Append(@, c)]
            ELSE [s EXCEPT !.remaining = Append(@, c)]
    IN  FoldLeft(Take, [st EXCEPT !.remaining = <<>>], st.remaining)

\* Bug form of TopologicalSort: the order in which Odoo lists the categories.
AsListed(tree, cats) == cats

\* Passes until one makes no progress; the members of a cycle, and what is below
\* them, come last, as they were.
TopologicalSort(tree, cats) ==
    LET pass[n \in 0..Len(cats)] ==
            IF n = 0 THEN [sorted |-> <<>>, remaining |-> cats]
            ELSE Pass(tree, pass[n - 1])
        last == pass[Len(cats)]
    IN  last.sorted \o last.remaining

-----------------------------------------------------------------------------
(* Helpers *)

Cat(w) == order[w][at[w]]

\* A row of category_mappings.
Row(c, woo, name) == [cat |-> c, woo |-> woo, name |-> name]
NoRow == [cat |-> Root]

\* What a SELECT of w returns: the committed rows, with its own changes.
View(w) ==
    own[w] \cup {r \in mappings : \A s \in own[w] : s.cat # r.cat}

\* get_mapping_by_odoo_id. The session returns an object it still has as it is,
\* not as the database has it by now.
Mapping(w, c) ==
    IF kept[w].cat = c THEN kept[w]
    ELSE IF \E r \in View(w) : r.cat = c THEN CHOOSE r \in View(w) : r.cat = c
    ELSE NoRow

\* Another run has flushed a row of the category: an INSERT or UPDATE waits for
\* its transaction. (Of runs that wait for one another PostgreSQL fails one,
\* see RollbackRun.)
Contended(w) == \E v \in Workers \ {w} : \E r \in own[v] : r.cat = Cat(w)

\* wc_parent_id: 0 also when the run knows no category of the store for the
\* parent.
WooParent(w) ==
    LET p == plan[w][Cat(w)].parent
    IN  IF p \in DOMAIN lookup[w] THEN lookup[w][p] ELSE 0

\* odoo_to_woo[odoo_id] = n
Know(w, c, n) ==
    lookup' = [lookup EXCEPT ![w] =
                  [d \in DOMAIN @ \cup {c} |-> IF d = c THEN n ELSE @[d]]]

Goto(w, place) == pc' = [pc EXCEPT ![w] = place]

\* On to the next category.
Advance(w) ==
    /\ Goto(w, "next")
    /\ at' = [at EXCEPT ![w] = @ + 1]
    /\ found' = [found EXCEPT ![w] = NoRow]
    /\ made' = [made EXCEPT ![w] = 0]
    /\ UNCHANGED <<plan, order, kept>>

\* The exception is recorded in the result, and the loop goes on.
Failed(w, kind) ==
    /\ Advance(w)
    /\ mishaps' = [mishaps EXCEPT ![Cat(w)] = @ \cup {kind}]
    /\ UNCHANGED <<own, lookup>>

\* The session ends.
Close(w) ==
    /\ Goto(w, "idle")
    /\ own' = [own EXCEPT ![w] = {}]
    /\ plan' = [plan EXCEPT ![w] = <<>>]
    /\ order' = [order EXCEPT ![w] = <<>>]
    /\ at' = [at EXCEPT ![w] = 1]
    /\ lookup' = [lookup EXCEPT ![w] = <<>>]
    /\ kept' = [kept EXCEPT ![w] = NoRow]
    /\ found' = [found EXCEPT ![w] = NoRow]
    /\ made' = [made EXCEPT ![w] = 0]

\* Nothing the run has flushed remains; what the store has done does.
Abandon(w) ==
    LET touched == {r.cat : r \in own[w]} \cup
                   (IF pc[w] \in {"new", "insert", "changed"} THEN {Cat(w)} ELSE {})
    IN  /\ Close(w)
        /\ mishaps' = [c \in Cats |-> IF c \in touched THEN mishaps[c] \cup {"rollback"}
                                      ELSE mishaps[c]]

Event ==
    /\ events < MaxEvents
    /\ events' = events + 1

-----------------------------------------------------------------------------
(* Odoo and the merchant *)

\* A user renames a category, moves it elsewhere in the tree, or adds one (an
\* edit that does two of these is two edits).
Edit(c, entry) ==
    /\ Event
    /\ entry.parent \in DOMAIN odoo \cup {Root}
    /\ IF c \in DOMAIN odoo
       THEN entry.name = odoo[c].name \/ entry.parent = odoo[c].parent
       ELSE entry.name = 0
    /\ LET tree == [d \in DOMAIN odoo \cup {c} |-> IF d = c THEN entry ELSE odoo[d]]
       IN  /\ tree # odoo
           /\ Acyclic(tree)
           /\ odoo' = tree
    /\ UNCHANGED <<store, mappings, session, pc, nextId, mishaps, overlapped>>

\* The merchant deletes a category; its children go to its parent.
MerchantDeletes(n) ==
    /\ n \in DOMAIN store
    /\ Event
    /\ store' = [m \in DOMAIN store \ {n} |->
                    IF store[m].parent = n THEN [store[m] EXCEPT !.parent = store[n].parent]
                    ELSE store[m]]
    /\ mishaps' = [mishaps EXCEPT ![store[n].cat] = @ \cup {"deleted"}]
    /\ UNCHANGED <<odoo, mappings, session, pc, nextId, overlapped>>

-----------------------------------------------------------------------------
(* The phase *)

\* get_categories returns up to Limit categories in any order; they are sorted.
\* (A failed read ends the phase before it has done anything.)
Begin(w) ==
    /\ pc[w] = "idle"
    /\ \E S \in SUBSET DOMAIN odoo :
          /\ Cardinality(S) <= Limit
          /\ S = DOMAIN odoo \/ Cardinality(S) = Limit
          /\ \E cats \in SetToSeqs(S) :
                LET tree == Restrict(odoo, S)
                IN  /\ plan' = [plan EXCEPT ![w] = tree]
                    /\ order' = [order EXCEPT ![w] = TopologicalSort(tree, cats)]
          /\ mishaps' = [c \in Cats |-> IF c \in DOMAIN odoo \ S
                                        THEN mishaps[c] \cup {"unread"} ELSE mishaps[c]]
    /\ Goto(w, IF order'[w] = <<>> THEN "next" ELSE "read")
    /\ IF \E v \in Workers \ {w} : pc[v] # "idle" THEN Event /\ overlapped' = TRUE
       ELSE UNCHANGED <<events, overlapped>>
    /\ UNCHANGED <<odoo, store, mappings, own, at, lookup, kept, found, made, nextId>>

\* Pre-population of odoo_to_woo, one SELECT per category. The last row stays
\* in the loop variable.
Read(w) ==
    LET c == Cat(w)
        r == Mapping(w, c)
        last == at[w] = Len(order[w])
    IN  /\ pc[w] = "read"
        /\ IF r = NoRow THEN UNCHANGED lookup ELSE Know(w, c, r.woo)
        /\ kept' = [kept EXCEPT ![w] = r]
        /\ at' = [at EXCEPT ![w] = IF last THEN 1 ELSE @ + 1]
        /\ Goto(w, IF last THEN "next" ELSE "read")
        /\ UNCHANGED <<odoo, store, mappings, own, plan, order, found, made, nextId,
                       history>>

\* Bug form of SkipUnchanged: the name is not compared.
SkipMapped(w) ==
    /\ pc[w] = "next" /\ at[w] <= Len(order[w])
    /\ LET r == Mapping(w, Cat(w))
       IN  r # NoRow /\ Know(w, Cat(w), r.woo)
    /\ Advance(w)
    /\ UNCHANGED <<odoo, store, mappings, own, nextId, history>>

\* Mapped, and the name is the one in the mapping: nothing else is compared.
SkipUnchanged(w) ==
    /\ pc[w] = "next" /\ at[w] <= Len(order[w])
    /\ LET r == Mapping(w, Cat(w))
       IN  /\ r # NoRow /\ r.name = plan[w][Cat(w)].name
           /\ Know(w, Cat(w), r.woo)
    /\ Advance(w)
    /\ UNCHANGED <<odoo, store, mappings, own, nextId, history>>

\* Not mapped, or another name.
NeedsCall(w) ==
    /\ pc[w] = "next" /\ at[w] <= Len(order[w])
    /\ LET r == Mapping(w, Cat(w))
       IN  /\ r # NoRow => r.name # plan[w][Cat(w)].name
           /\ found' = [found EXCEPT ![w] = r]
    /\ Goto(w, "call")
    /\ UNCHANGED <<odoo, store, mappings, own, plan, order, at, lookup, kept, made, nextId,
                   history>>

\* The store knows the category to update and the parent, and has no other
\* category of the name under that parent.
Accepted(w) ==
    /\ WooParent(w) \in DOMAIN store \cup {0}
    /\ IF found[w] # NoRow THEN found[w].woo \in DOMAIN store
       ELSE \A n \in DOMAIN store :
                ~ /\ store[n].cat = Cat(w)
                  /\ store[n].name = plan[w][Cat(w)].name
                  /\ store[n].parent = WooParent(w)

\* create_category or update_category: what the store does. Both give name and
\* parent (an id, or 0). cat and meant are history: the category of Odoo it is
\* written for, and the parent that one had.
StoreWrites(w) ==
    LET n == IF found[w] = NoRow THEN nextId ELSE found[w].woo
        term == [cat |-> Cat(w), name |-> plan[w][Cat(w)].name,
                 parent |-> WooParent(w), meant |-> plan[w][Cat(w)].parent]
    IN  /\ store' = [m \in DOMAIN store \cup {n} |-> IF m = n THEN term ELSE store[m]]
        /\ nextId' = IF found[w] = NoRow THEN nextId + 1 ELSE nextId

Call(w) ==
    /\ pc[w] = "call" /\ Accepted(w)
    /\ StoreWrites(w)
    /\ made' = [made EXCEPT ![w] = IF found[w] = NoRow THEN nextId ELSE 0]
    /\ Goto(w, IF found[w] = NoRow THEN "new" ELSE "changed")
    /\ UNCHANGED <<odoo, mappings, own, plan, order, at, lookup, kept, found, history>>

\* The store acts; its answer times out or cannot be parsed.
AnswerLost(w) ==
    /\ pc[w] = "call" /\ Accepted(w)
    /\ Event
    /\ StoreWrites(w)
    /\ Failed(w, "lost")
    /\ UNCHANGED <<odoo, mappings, overlapped>>

\* The store refuses what it cannot do.
CallRejected(w) ==
    /\ pc[w] = "call" /\ ~Accepted(w)
    /\ Failed(w, "refused")
    /\ UNCHANGED <<odoo, store, mappings, nextId, overlapped, events>>

\* The store refuses, or is not reached.
CallRefused(w) ==
    /\ pc[w] = "call"
    /\ Event
    /\ Failed(w, "refused")
    /\ UNCHANGED <<odoo, store, mappings, nextId, overlapped>>

\* search_or_create looks again, and keeps a row that has appeared meanwhile.
KeepRow(w) ==
    /\ pc[w] = "new"
    /\ Mapping(w, Cat(w)) # NoRow
    /\ Know(w, Cat(w), made[w])
    /\ Advance(w)
    /\ UNCHANGED <<odoo, store, mappings, own, nextId, history>>

\* odoo_category_id is unique: the INSERT waits for a run that has inserted the
\* row too, and goes through if that one fails.
SaveNew(w) ==
    LET row == Row(Cat(w), made[w], plan[w][Cat(w)].name)
    IN  /\ pc[w] \in {"new", "insert"}
        /\ Mapping(w, Cat(w)) = NoRow
        /\ IF Contended(w)
           THEN /\ pc[w] = "new" /\ Goto(w, "insert")
                /\ UNCHANGED session
           ELSE /\ own' = [own EXCEPT ![w] = @ \cup {row}]
                /\ Know(w, Cat(w), made[w])
                /\ Advance(w)
        /\ UNCHANGED <<odoo, store, mappings, nextId, history>>

\* The INSERT fails: the row has been committed. The failed flush leaves a
\* session in which every further statement raises, and the run's transaction
\* is lost.
InsertFails(w) ==
    /\ pc[w] = "insert"
    /\ \E r \in mappings : r.cat = Cat(w)
    /\ Abandon(w)
    /\ UNCHANGED <<odoo, store, mappings, nextId, overlapped, events>>

\* update_mapping stores the new name.
SaveName(w) ==
    LET row == Row(Cat(w), found[w].woo, plan[w][Cat(w)].name)
    IN  /\ pc[w] = "changed"
        /\ ~Contended(w)
        /\ own' = [own EXCEPT ![w] = @ \cup {row}]
        /\ Know(w, Cat(w), row.woo)
        /\ Advance(w)
        /\ UNCHANGED <<odoo, store, mappings, nextId, history>>

\* The phase is over and the run commits.
CommitRun(w) ==
    /\ pc[w] = "next" /\ at[w] > Len(order[w])
    /\ mappings' = View(w)
    /\ Close(w)
    /\ UNCHANGED <<odoo, store, nextId, history>>

\* A crash, a cancellation, a failed flush of a later phase, or a deadlock.
RollbackRun(w) ==
    /\ pc[w] # "idle"
    /\ Event
    /\ Abandon(w)
    /\ UNCHANGED <<odoo, store, mappings, nextId, overlapped>>

-----------------------------------------------------------------------------
(* Specification *)

Init ==
    /\ odoo \in Trees
    /\ store = <<>>
    /\ mappings = {}
    /\ own = [w \in Workers |-> {}]
    /\ pc = [w \in Workers |-> "idle"]
    /\ plan = [w \in Workers |-> <<>>]
    /\ order = [w \in Workers |-> <<>>]
    /\ at = [w \in Workers |-> 1]
    /\ lookup = [w \in Workers |-> <<>>]
    /\ kept = [w \in Workers |-> NoRow]
    /\ found = [w \in Workers |-> NoRow]
    /\ made = [w \in Workers |-> 0]
    /\ nextId = 1
    /\ mishaps = [c \in Cats |-> {}]
    /\ overlapped = FALSE
    /\ events = 0

Phase(w) ==
    \/ Read(w)
    \/ SkipUnchanged(w)
    \/ NeedsCall(w)
    \/ Call(w)
    \/ CallRejected(w)
    \/ KeepRow(w)
    \/ SaveNew(w)
    \/ InsertFails(w)
    \/ SaveName(w)
    \/ CommitRun(w)

RunFault(w) == AnswerLost(w) \/ CallRefused(w) \/ RollbackRun(w)

Next ==
    \/ \E c \in Cats, entry \in [name: Names, parent: Cats \cup {Root}] : Edit(c, entry)
    \/ \E n \in DOMAIN store : MerchantDeletes(n)
    \/ \E w \in Workers : Begin(w) \/ Phase(w) \/ RunFault(w)

Spec == Init /\ [][Next]_vars

\* Runs go on, and there is always another one (a schedule).
Fairness == WF_vars(\E w \in Workers : Begin(w) \/ Phase(w))

FairSpec == Spec /\ Fairness

-----------------------------------------------------------------------------
(* Properties *)

\* The category of the store that stands for c, or 0.
Woo(c) == IF \E r \in mappings : r.cat = c THEN (CHOOSE r \in mappings : r.cat = c).woo ELSE 0

\* Between runs, a mapped category that was last written for the parent it has
\* in Odoo is under the category of that parent. A refused or lost call, a lost
\* transaction or a deletion can put it elsewhere only when it struck the
\* parent itself: no failure elsewhere in the tree spreads to it, nor does the
\* order in which Odoo lists the categories. It is then a top category, or under
\* a second category made for the same parent (as it may be where runs overlap),
\* but never under a stranger, except that a deletion by the merchant moves it.
TreeKept ==
    (\A w \in Workers : pc[w] = "idle") =>
        \A r \in {s \in mappings : s.woo \in DOMAIN store} :
            LET p == odoo[r.cat].parent
                above == store[r.woo].parent
                second == above \in DOMAIN store /\ store[above].cat = p
            IN  store[r.woo].meant = p =>
                    IF p = Root THEN above = 0
                    ELSE \/ above = Woo(p)
                         \/ second /\ (overlapped \/ mishaps[p] # {})
                         \/ above = 0 /\ mishaps[p] # {}
                         \/ "deleted" \in mishaps[p]

\* Once Odoo stops changing, every category is mapped and has its name in the
\* store, through refused calls and through whatever strikes the others. Not
\* claimed of a category whose answer or transaction got lost, that was not read,
\* or that the merchant deleted, nor of the children of a deleted one: the
\* mapping of a deleted category stays, and every call that names it is refused.
EventuallyNamed ==
    <>[](\A c \in DOMAIN odoo :
            \/ overlapped
            \/ ~(mishaps[c] \subseteq {"refused"})
            \/ odoo[c].parent # Root /\ "deleted" \in mishaps[odoo[c].parent]
            \/ /\ Woo(c) \in DOMAIN store
               /\ store[Woo(c)].name = odoo[c].name)

=============================================================================
