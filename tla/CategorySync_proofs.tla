------------------------ MODULE CategorySync_proofs ------------------------
(***************************************************************************)
(* Theorems about CategorySync: the sort puts every parent before its      *)
(* children, for any acyclic tree and any order of the rows, and a         *)
(* category is where it was meant to be whatever fails and overlaps.       *)
(*                                                                         *)
(* TreeKept is not inductive. A category is put at the top when its parent *)
(* is not known to the run, so a step needs to know why: the plan of a run *)
(* lists parents first, what comes before in the plan was dealt with       *)
(* (Processed), and a category to which nothing has happened has one id,   *)
(* that of its mapping or of the run which has it in hand (CleanOK).       *)
(***************************************************************************)
EXTENDS CategorySync, FiniteSetTheorems, TLAPS

-----------------------------------------------------------------------------
(* Passes over the rows *)

\* Induction over the naturals. A set closed under +1 that misses b would give
\* the finite set of the numbers below an injection into itself that misses 0.
LEMMA Induction ==
    ASSUME NEW G, 0 \in G, \A n \in Nat : n \in G => n + 1 \in G
    PROVE  Nat \subseteq G
<1>. SUFFICES ASSUME NEW b \in Nat \ G PROVE FALSE
  OBVIOUS
<1>. DEFINE S == {n \in Nat : \A m \in Nat \ G : n <= m}
            next == [n \in S |-> n + 1]
<1>1. IsFiniteSet(S) /\ 0 \in S
  BY FS_BoundedSetOfNaturals
<1>2. ASSUME NEW n \in S
      PROVE  n + 1 \in S
  <2>1. CASE n \notin G
    <3>1. n # 0 /\ n - 1 \in Nat /\ n - 1 \in G
      BY <2>1
    <3>2. (n - 1) + 1 \in G
      BY <3>1
    <3>. QED  BY <2>1, <3>2
  <2>2. CASE n \in G
    BY <2>2
  <2>. QED  BY <2>1, <2>2
<1>3. next \in Injection(S, S)
  BY <1>2 DEF Injection, IsInjective
<1>4. next \in Surjection(S, S)
  BY <1>1, <1>3, FS_Injection
<1>5. \E n \in S : next[n] = 0
  BY <1>1, <1>4 DEF Surjection
<1>. QED  BY <1>5

\* What a pass does with one category: it is taken or left.
Take(tree, s, c) ==
    IF tree[c].parent \in ToSet(s.sorted) \/ tree[c].parent \notin DOMAIN tree
    THEN [s EXCEPT !.sorted = Append(@, c)]
    ELSE [s EXCEPT !.remaining = Append(@, c)]

\* FoldLeft as it is defined: over all subsets of the indices, the greatest last.
Folds(it, tree, base, cats, S) ==
    it = [s \in SUBSET S |->
            IF s = {} THEN base ELSE Take(tree, it[s \ {Max(s)}], cats[Max(s)])]

LEMMA PassIsFold ==
    ASSUME NEW tree, NEW st
    PROVE  Pass(tree, st) = (CHOOSE it : Folds(it, tree, [st EXCEPT !.remaining = <<>>], st.remaining,
                                DOMAIN st.remaining))[DOMAIN st.remaining]
BY DEF Pass, FoldLeft, MapThenFoldSet, Folds, Take

LEMMA Greatest ==
    ASSUME NEW n \in Nat, NEW s \in SUBSET (1..n), n \in s
    PROVE  Max(s) = n
<1>1. \A m \in s : m \in Nat /\ n >= m
  OBVIOUS
<1>2. Max(s) \in s /\ \A m \in s : Max(s) >= m
  BY <1>1 DEF Max
<1>3. n >= Max(s) /\ Max(s) >= n /\ Max(s) \in Nat
  BY <1>1, <1>2
<1>. QED  BY <1>3

\* Such a function exists, so that the fold is what its equation says.
LEMMA FoldExists ==
    ASSUME NEW tree, NEW base, NEW cats, NEW n \in Nat
    PROVE  \E it : Folds(it, tree, base, cats, 1..n)
<1>. DEFINE G == {k \in Nat : \E it : Folds(it, tree, base, cats, 1..k)}
<1>1. 0 \in G
  <2>1. Folds([s \in {{}} |-> base], tree, base, cats, 1..0)
    BY DEF Folds
  <2>. QED  BY <2>1
<1>2. ASSUME NEW k \in Nat, k \in G
      PROVE  k + 1 \in G
  <2>. PICK it : Folds(it, tree, base, cats, 1..k)
    BY <1>2
  <2>. DEFINE new == [s \in SUBSET (1..(k + 1)) |->
                        IF k + 1 \in s THEN Take(tree, it[s \ {k + 1}], cats[k + 1]) ELSE it[s]]
  <2>1. ASSUME NEW s \in SUBSET (1..(k + 1))
        PROVE  new[s] = IF s = {} THEN base ELSE Take(tree, new[s \ {Max(s)}], cats[Max(s)])
    <3>1. CASE k + 1 \in s
      <4>1. Max(s) = k + 1
        BY <3>1, Greatest
      <4>2. s \ {k + 1} \in SUBSET (1..(k + 1)) /\ k + 1 \notin s \ {k + 1}
        OBVIOUS
      <4>3. new[s \ {k + 1}] = it[s \ {k + 1}]
        BY <4>2
      <4>. QED  BY <3>1, <4>1, <4>3
    <3>2. CASE k + 1 \notin s
      <4>1. s \in SUBSET (1..k)
        BY <3>2
      <4>2. s \ {Max(s)} \in SUBSET (1..k) /\ s \ {Max(s)} \in SUBSET (1..(k + 1))
            /\ k + 1 \notin s \ {Max(s)}
        BY <3>2, <4>1
      <4>3. new[s \ {Max(s)}] = it[s \ {Max(s)}]
        BY <4>2
      <4>4. it[s] = IF s = {} THEN base ELSE Take(tree, it[s \ {Max(s)}], cats[Max(s)])
        BY <4>1 DEF Folds
      <4>. QED  BY <3>2, <4>3, <4>4
    <3>. QED  BY <3>1, <3>2
  <2>2. Folds(new, tree, base, cats, 1..(k + 1))
    <3>1. new = [s \in SUBSET (1..(k + 1)) |-> new[s]]
      OBVIOUS
    <3>. HIDE DEF new
    <3>. QED  BY <2>1, <3>1 DEF Folds
  <2>. QED  BY <2>2
<1>. HIDE DEF G
<1>3. n \in G
  BY <1>1, <1>2, Induction
<1>. QED  BY <1>3 DEF G

\* What a pass does with the categories that are left, one after the other.
LEMMA PassSteps ==
    ASSUME NEW tree, NEW st, NEW S, st.remaining \in Seq(S)
    PROVE  \E f : /\ f[0] = [st EXCEPT !.remaining = <<>>]
                  /\ \A k \in 0..(Len(st.remaining) - 1) :
                        f[k + 1] = Take(tree, f[k], st.remaining[k + 1])
                  /\ Pass(tree, st) = f[Len(st.remaining)]
<1>. DEFINE base == [st EXCEPT !.remaining = <<>>]
            cats == st.remaining
            n == Len(cats)
            it == CHOOSE it : Folds(it, tree, base, cats, DOMAIN cats)
            f == [k \in 0..n |-> it[1..k]]
<1>1. n \in Nat /\ DOMAIN cats = 1..n
  OBVIOUS
<1>2. Pass(tree, st) = it[1..n]
  BY <1>1, PassIsFold
<1>3. Folds(it, tree, base, cats, 1..n)
  BY <1>1, FoldExists
<1>. HIDE DEF it, base, cats
<1>4. f[0] = base
  <2>1. {} \in SUBSET (1..n) /\ 1..0 = {} /\ 0 \in 0..n
    BY <1>1
  <2>2. it[{}] = base
    BY <1>3, <2>1 DEF Folds
  <2>. QED  BY <2>1, <2>2
<1>5. ASSUME NEW k \in 0..(n - 1)
      PROVE  f[k + 1] = Take(tree, f[k], cats[k + 1])
  <2>. DEFINE s == 1..(k + 1)
  <2>1. s \in SUBSET (1..n) /\ k + 1 \in s /\ k \in 0..n /\ k + 1 \in 0..n /\ k + 1 \in Nat
    <3>. HIDE DEF n
    <3>. QED  BY <1>1
  <2>2. Max(s) = k + 1
    BY <2>1, Greatest
  <2>3. s \ {k + 1} = 1..k
    BY <1>1
  <2>. HIDE DEF s
  <2>4. it[s] = Take(tree, it[s \ {Max(s)}], cats[Max(s)])
    BY <1>3, <2>1 DEF Folds
  <2>. QED  BY <2>1, <2>2, <2>3, <2>4 DEF s
<1>6. f[n] = it[1..n]
  BY <1>1
<1>. HIDE DEF f
<1>7. /\ f[0] = base
      /\ \A k \in 0..(n - 1) : f[k + 1] = Take(tree, f[k], cats[k + 1])
      /\ Pass(tree, st) = f[n]
  BY <1>2, <1>4, <1>5, <1>6
<1>. QED  BY <1>7 DEF base, cats

\* No category comes before its parent, if that is one of them.
ParentsFirst(tree, cats) ==
    \A i \in 1..Len(cats) :
        tree[cats[i]].parent \in DOMAIN tree =>
            \E j \in 1..Len(cats) : j < i /\ cats[j] = tree[cats[i]].parent

\* The guard of the loop: c has no parent to wait for.
Ready(tree, sorted, c) == tree[c].parent \in ToSet(sorted) \/ tree[c].parent \notin DOMAIN tree

\* The invariant of a pass: s is what it has made of the first k categories of cats,
\* when sorted had been taken before it.
Prefix(tree, cats, sorted, s, k) ==
    /\ s = [sorted |-> s.sorted, remaining |-> s.remaining]
    /\ s.sorted \in Seq(DOMAIN tree)
    /\ s.remaining \in Seq(DOMAIN tree)
    /\ ParentsFirst(tree, s.sorted)
    /\ ToSet(sorted) \subseteq ToSet(s.sorted)
    /\ \A i \in 1..k : cats[i] \in ToSet(s.sorted) \cup ToSet(s.remaining)
    /\ Len(s.remaining) <= k
    /\ (\E i \in 1..k : Ready(tree, sorted, cats[i])) => Len(s.remaining) < k

LEMMA AppendOne ==
    ASSUME NEW S, NEW s \in Seq(S), NEW c \in S
    PROVE  /\ Append(s, c) \in Seq(S)
           /\ Len(s) \in Nat
           /\ Len(Append(s, c)) = Len(s) + 1
           /\ \A i \in 1..Len(s) : Append(s, c)[i] = s[i]
           /\ Append(s, c)[Len(s) + 1] = c
           /\ ToSet(Append(s, c)) = ToSet(s) \cup {c}
<1>1. /\ Append(s, c) \in Seq(S)
      /\ Len(s) \in Nat
      /\ Len(Append(s, c)) = Len(s) + 1
      /\ \A i \in 1..Len(s) : Append(s, c)[i] = s[i]
      /\ Append(s, c)[Len(s) + 1] = c
  OBVIOUS
<1>2. DOMAIN Append(s, c) = 1..(Len(s) + 1) /\ DOMAIN s = 1..Len(s)
  BY <1>1
<1>3. \A i : i \in 1..(Len(s) + 1) <=> i \in 1..Len(s) \/ i = Len(s) + 1
  BY <1>1
<1>. QED  BY <1>1, <1>2, <1>3 DEF ToSet

LEMMA ParentsFirstAppend ==
    ASSUME NEW tree, NEW s \in Seq(DOMAIN tree), NEW c \in DOMAIN tree,
           ParentsFirst(tree, s), Ready(tree, s, c)
    PROVE  ParentsFirst(tree, Append(s, c))
<1>. DEFINE n == Len(s)
            t == Append(s, c)
<1>1. n \in Nat /\ Len(t) = n + 1 /\ (\A i \in 1..n : t[i] = s[i]) /\ t[n + 1] = c
  BY AppendOne
<1>2. ToSet(s) = {s[i] : i \in 1..n}
  BY DEF ToSet
<1>. HIDE DEF n, t
<1>. SUFFICES ASSUME NEW i \in 1..(n + 1), tree[t[i]].parent \in DOMAIN tree
              PROVE  \E j \in 1..(n + 1) : j < i /\ t[j] = tree[t[i]].parent
  BY <1>1 DEF ParentsFirst, t
<1>3. CASE i = n + 1
  <2>1. PICK j \in 1..n : s[j] = tree[c].parent
    BY <1>1, <1>2, <1>3 DEF Ready
  <2>2. j \in 1..(n + 1) /\ j < i /\ t[j] = tree[t[i]].parent
    BY <1>1, <1>3, <2>1
  <2>. QED  BY <2>2
<1>4. CASE i # n + 1
  <2>1. i \in 1..n /\ t[i] = s[i]
    BY <1>1, <1>4
  <2>2. PICK j \in 1..n : j < i /\ s[j] = tree[s[i]].parent
    BY <2>1 DEF ParentsFirst, n
  <2>3. j \in 1..(n + 1) /\ t[j] = tree[t[i]].parent
    BY <1>1, <2>1, <2>2
  <2>. QED  BY <2>2, <2>3
<1>. QED  BY <1>3, <1>4

\* One more category keeps the invariant of a pass.
LEMMA TakeOne ==
    ASSUME NEW tree, NEW sorted, NEW cats \in Seq(DOMAIN tree), NEW s, NEW k \in 0..(Len(cats) - 1),
           Prefix(tree, cats, sorted, s, k)
    PROVE  Prefix(tree, cats, sorted, Take(tree, s, cats[k + 1]), k + 1)
<1>. DEFINE c == cats[k + 1]
            t == Take(tree, s, c)
<1>1. c \in DOMAIN tree /\ k \in Nat
  OBVIOUS
<1>2. \A i : i \in 1..(k + 1) <=> i \in 1..k \/ i = k + 1
  BY <1>1
<1>3. Len(s.remaining) \in Nat /\ Len(s.remaining) <= k
  BY DEF Prefix
<1>4. CASE Ready(tree, s.sorted, c)
  <2>1. t = [sorted |-> Append(s.sorted, c), remaining |-> s.remaining]
    BY <1>4 DEF Take, Ready, Prefix
  <2>. HIDE DEF c, t
  <2>2. t.sorted = Append(s.sorted, c) /\ t.remaining = s.remaining
    BY <2>1
  <2>3. t.sorted \in Seq(DOMAIN tree) /\ ToSet(t.sorted) = ToSet(s.sorted) \cup {c}
    BY <1>1, <2>2, AppendOne DEF Prefix
  <2>4. ParentsFirst(tree, t.sorted)
    BY <1>1, <1>4, <2>2, ParentsFirstAppend DEF Prefix
  <2>5. \A i \in 1..(k + 1) : cats[i] \in ToSet(t.sorted) \cup ToSet(t.remaining)
    BY <1>2, <2>2, <2>3 DEF Prefix, c
  <2>6. Len(t.remaining) <= k + 1 /\ Len(t.remaining) < k + 1
    BY <1>1, <1>3, <2>2
  <2>7. t = [sorted |-> t.sorted, remaining |-> t.remaining]
    BY <2>1, <2>2
  <2>8. t.remaining \in Seq(DOMAIN tree) /\ ToSet(sorted) \subseteq ToSet(t.sorted)
    BY <2>2, <2>3 DEF Prefix
  <2>. QED  BY <2>3, <2>4, <2>5, <2>6, <2>7, <2>8 DEF Prefix, t, c
<1>5. CASE ~Ready(tree, s.sorted, c)
  <2>1. t = [sorted |-> s.sorted, remaining |-> Append(s.remaining, c)]
    BY <1>5 DEF Take, Ready, Prefix
  <2>. HIDE DEF c, t
  <2>2. t.sorted = s.sorted /\ t.remaining = Append(s.remaining, c)
    BY <2>1
  <2>3. /\ t.remaining \in Seq(DOMAIN tree)
        /\ Len(t.remaining) = Len(s.remaining) + 1
        /\ ToSet(t.remaining) = ToSet(s.remaining) \cup {c}
    BY <1>1, <2>2, AppendOne DEF Prefix
  <2>4. \A i \in 1..(k + 1) : cats[i] \in ToSet(t.sorted) \cup ToSet(t.remaining)
    BY <1>2, <2>2, <2>3 DEF Prefix, c
  <2>5. Len(t.remaining) <= k + 1
    BY <1>1, <1>3, <2>3
  <2>6. ~Ready(tree, sorted, c)
    BY <1>5 DEF Ready, Prefix
  <2>7. (\E i \in 1..(k + 1) : Ready(tree, sorted, cats[i])) => Len(t.remaining) < k + 1
    <3>1. SUFFICES ASSUME NEW i \in 1..(k + 1), Ready(tree, sorted, cats[i])
                   PROVE  Len(t.remaining) < k + 1
      OBVIOUS
    <3>2. i \in 1..k
      BY <1>2, <2>6, <3>1 DEF c
    <3>3. Len(s.remaining) < k
      BY <3>1, <3>2 DEF Prefix
    <3>. QED  BY <1>1, <1>3, <2>3, <3>3
  <2>8. t = [sorted |-> t.sorted, remaining |-> t.remaining]
    BY <2>1, <2>2
  <2>9. t.sorted \in Seq(DOMAIN tree) /\ ParentsFirst(tree, t.sorted)
        /\ ToSet(sorted) \subseteq ToSet(t.sorted)
    BY <2>2 DEF Prefix
  <2>. QED  BY <2>3, <2>4, <2>5, <2>7, <2>8, <2>9 DEF Prefix, t, c
<1>. QED  BY <1>4, <1>5

\* What is sorted and what remains after some passes over cats.
Sorting(tree, st) ==
    /\ st = [sorted |-> st.sorted, remaining |-> st.remaining]
    /\ st.sorted \in Seq(DOMAIN tree)
    /\ st.remaining \in Seq(DOMAIN tree)
    /\ ParentsFirst(tree, st.sorted)
    /\ DOMAIN tree \subseteq ToSet(st.sorted) \cup ToSet(st.remaining)

\* In a tree without a cycle a pass takes one of the categories that remain.
LEMMA SomeReady ==
    ASSUME NEW tree, Acyclic(tree), NEW st, Sorting(tree, st), st.remaining # <<>>
    PROVE  \E i \in 1..Len(st.remaining) : Ready(tree, st.sorted, st.remaining[i])
<1>. DEFINE cats == st.remaining
            S == DOMAIN tree \ ToSet(st.sorted)
<1>1. cats \in Seq(DOMAIN tree) /\ Len(cats) \in Nat /\ Len(cats) # 0
  BY DEF Sorting
<1>2. ToSet(cats) = {cats[i] : i \in 1..Len(cats)}
  BY <1>1 DEF ToSet
<1>3. \A i \in 1..Len(cats) : cats[i] \in DOMAIN tree
  BY <1>1
<1>. HIDE DEF cats
<1>4. CASE S = {}
  <2>1. 1 \in 1..Len(cats) /\ cats[1] \in DOMAIN tree
    BY <1>1, <1>3
  <2>2. Ready(tree, st.sorted, cats[1])
    BY <1>4 DEF Ready
  <2>. QED  BY <2>1, <2>2 DEF cats
<1>5. CASE S # {}
  <2>1. PICK c \in S : tree[c].parent \notin S
    BY <1>5 DEF Acyclic
  <2>2. c \in ToSet(cats)
    BY <2>1 DEF Sorting, cats
  <2>3. PICK i \in 1..Len(cats) : cats[i] = c
    BY <1>2, <2>2
  <2>4. Ready(tree, st.sorted, c)
    BY <2>1 DEF Ready
  <2>. QED  BY <2>3, <2>4 DEF cats
<1>. QED  BY <1>4, <1>5

\* A pass keeps parents first and leaves fewer categories than it found.
LEMMA PassSorts ==
    ASSUME NEW tree, Acyclic(tree), NEW st, Sorting(tree, st)
    PROVE  /\ Sorting(tree, Pass(tree, st))
           /\ Len(Pass(tree, st).remaining) <= Len(st.remaining)
           /\ st.remaining # <<>> => Len(Pass(tree, st).remaining) < Len(st.remaining)
<1>. DEFINE cats == st.remaining
            n == Len(cats)
            last == Pass(tree, st)
<1>1. cats \in Seq(DOMAIN tree) /\ n \in Nat
  BY DEF Sorting
<1>2. PICK f : /\ f[0] = [st EXCEPT !.remaining = <<>>]
               /\ \A k \in 0..(n - 1) : f[k + 1] = Take(tree, f[k], cats[k + 1])
               /\ last = f[n]
  BY <1>1, PassSteps
<1>. HIDE DEF cats, n, last
<1>. DEFINE G == {k \in Nat : k <= n => Prefix(tree, cats, st.sorted, f[k], k)}
<1>3. 0 \in G
  <2>1. f[0] = [sorted |-> st.sorted, remaining |-> <<>>]
    BY <1>2 DEF Sorting
  <2>2. f[0].sorted = st.sorted /\ f[0].remaining = <<>>
    BY <2>1
  <2>3. f[0].remaining \in Seq(DOMAIN tree) /\ Len(f[0].remaining) = 0 /\ 1..0 = {}
    <3>1. <<>> \in Seq(DOMAIN tree)
      OBVIOUS
    <3>. QED  BY <2>2, <3>1
  <2>4. f[0] = [sorted |-> f[0].sorted, remaining |-> f[0].remaining]
    BY <2>1, <2>2
  <2>5. f[0].sorted \in Seq(DOMAIN tree) /\ ParentsFirst(tree, f[0].sorted)
        /\ ToSet(st.sorted) \subseteq ToSet(f[0].sorted)
    BY <2>2 DEF Sorting
  <2>6. Prefix(tree, cats, st.sorted, f[0], 0)
    <3>1. \A i \in 1..0 : FALSE
      BY <2>3
    <3>. QED  BY <2>3, <2>4, <2>5, <3>1 DEF Prefix
  <2>. QED  BY <2>6
<1>4. ASSUME NEW k \in Nat, k \in G
      PROVE  k + 1 \in G
  <2>. SUFFICES ASSUME k + 1 <= n PROVE Prefix(tree, cats, st.sorted, f[k + 1], k + 1)
    OBVIOUS
  <2>1. k \in 0..(n - 1) /\ k <= n
    BY <1>1
  <2>2. Prefix(tree, cats, st.sorted, f[k], k)
    BY <1>4, <2>1
  <2>3. Prefix(tree, cats, st.sorted, Take(tree, f[k], cats[k + 1]), k + 1)
    BY <1>1, <2>1, <2>2, TakeOne DEF n
  <2>. QED  BY <1>2, <2>1, <2>3
<1>. HIDE DEF G
<1>5. n \in G
  BY <1>1, <1>3, <1>4, Induction
<1>6. Prefix(tree, cats, st.sorted, last, n)
  BY <1>1, <1>2, <1>5 DEF G
<1>7. DOMAIN tree \subseteq ToSet(last.sorted) \cup ToSet(last.remaining)
  <2>1. ToSet(cats) = {cats[i] : i \in 1..n}
    BY <1>1 DEF ToSet, n
  <2>2. ToSet(cats) \subseteq ToSet(last.sorted) \cup ToSet(last.remaining)
    BY <1>6, <2>1 DEF Prefix
  <2>. QED  BY <1>6, <2>2 DEF Sorting, Prefix, cats
<1>8. Sorting(tree, last)
  BY <1>6, <1>7 DEF Sorting, Prefix
<1>9. Len(last.remaining) <= n
  BY <1>6 DEF Prefix
<1>10. cats # <<>> => Len(last.remaining) < n
  BY <1>6, SomeReady DEF Prefix, cats, n
<1>. QED  BY <1>8, <1>9, <1>10 DEF cats, n, last

\* pass[k] is what k passes have made of cats.
Passes(pass, tree, cats) ==
    pass = [n \in 0..Len(cats) |->
              IF n = 0 THEN [sorted |-> <<>>, remaining |-> cats] ELSE Pass(tree, pass[n - 1])]

LEMMA PassesExist ==
    ASSUME NEW tree, NEW cats, Len(cats) \in Nat
    PROVE  \E pass : Passes(pass, tree, cats)
<1>. DEFINE start == [sorted |-> <<>>, remaining |-> cats]
            Made(p, k) == p = [m \in 0..k |-> IF m = 0 THEN start ELSE Pass(tree, p[m - 1])]
            G == {k \in Nat : \E p : Made(p, k)}
<1>. HIDE DEF start
<1>1. 0 \in G
  <2>1. Made([m \in 0..0 |-> start], 0)
    <3>1. 0..0 = {0}
      OBVIOUS
    <3>. QED  BY <3>1
  <2>. QED  BY <2>1
<1>2. ASSUME NEW k \in Nat, k \in G
      PROVE  k + 1 \in G
  <2>. PICK p : Made(p, k)
    BY <1>2
  <2>. DEFINE q == [m \in 0..(k + 1) |-> IF m = k + 1 THEN Pass(tree, p[k]) ELSE p[m]]
  <2>1. ASSUME NEW m \in 0..(k + 1)
        PROVE  q[m] = IF m = 0 THEN start ELSE Pass(tree, q[m - 1])
    <3>1. CASE m = k + 1
      <4>1. m # 0 /\ m - 1 = k /\ k \in 0..(k + 1) /\ k # k + 1
        BY <3>1
      <4>. QED  BY <3>1, <4>1
    <3>2. CASE m # k + 1
      <4>1. m \in 0..k
        BY <3>2
      <4>2. m # 0 => m - 1 \in 0..(k + 1) /\ m - 1 # k + 1
        BY <4>1
      <4>. QED  BY <3>2, <4>1, <4>2
    <3>. QED  BY <3>1, <3>2
  <2>2. q = [m \in 0..(k + 1) |-> q[m]]
    OBVIOUS
  <2>. HIDE DEF q
  <2>3. Made(q, k + 1)
    BY <2>1, <2>2
  <2>. HIDE DEF Made
  <2>. QED  BY <2>3
<1>. HIDE DEF G
<1>3. Len(cats) \in G
  BY <1>1, <1>2, Induction
<1>4. PICK p : Made(p, Len(cats))
  BY <1>3 DEF G
<1>5. Passes(p, tree, cats)
  BY <1>4 DEF Passes, start
<1>. QED  BY <1>5

LEMMA PassesOfSort ==
    ASSUME NEW tree, NEW cats \in Seq(DOMAIN tree)
    PROVE  \E pass : /\ Passes(pass, tree, cats)
                     /\ TopologicalSort(tree, cats) =
                            pass[Len(cats)].sorted \o pass[Len(cats)].remaining
<1>. DEFINE pass == CHOOSE pass : Passes(pass, tree, cats)
<1>1. Len(cats) \in Nat
  OBVIOUS
<1>2. Passes(pass, tree, cats)
  <2>1. \E p : Passes(p, tree, cats)
    BY <1>1, PassesExist
  <2>. QED  BY <2>1
<1>3. TopologicalSort(tree, cats) = pass[Len(cats)].sorted \o pass[Len(cats)].remaining
  BY DEF TopologicalSort, Passes
<1>. HIDE DEF pass
<1>. QED  BY <1>2, <1>3

\* _topological_sort: of categories without a cycle, in whatever order Odoo lists
\* them, every one is in the result, and after its parent if that was read too.
\* As many passes as there are categories are enough, and the code allows for one
\* more (max_iterations).
THEOREM ParentsComeFirst ==
    ASSUME NEW tree, Acyclic(tree), NEW cats \in Seq(DOMAIN tree), DOMAIN tree \subseteq ToSet(cats)
    PROVE  /\ TopologicalSort(tree, cats) \in Seq(DOMAIN tree)
           /\ ParentsFirst(tree, TopologicalSort(tree, cats))
           /\ DOMAIN tree \subseteq ToSet(TopologicalSort(tree, cats))
<1>. DEFINE L == Len(cats)
<1>1. L \in Nat
  OBVIOUS
<1>2. PICK pass : /\ Passes(pass, tree, cats)
                  /\ TopologicalSort(tree, cats) = pass[L].sorted \o pass[L].remaining
  BY PassesOfSort
<1>3. pass[0] = [sorted |-> <<>>, remaining |-> cats]
  <2>1. 0 \in 0..L
    BY <1>1
  <2>. QED  BY <1>2, <2>1 DEF Passes
<1>4. ASSUME NEW k \in Nat, k + 1 <= L
      PROVE  pass[k + 1] = Pass(tree, pass[k])
  <2>1. k + 1 \in 0..L /\ k + 1 # 0 /\ (k + 1) - 1 = k
    BY <1>1, <1>4
  <2>. QED  BY <1>2, <2>1 DEF Passes
<1>. HIDE DEF L
<1>. DEFINE G == {k \in Nat : k <= L => Sorting(tree, pass[k]) /\ Len(pass[k].remaining) <= L - k}
<1>5. 0 \in G
  <2>1. pass[0].sorted = <<>> /\ pass[0].remaining = cats
    BY <1>3
  <2>2. pass[0] = [sorted |-> pass[0].sorted, remaining |-> pass[0].remaining]
    BY <1>3, <2>1
  <2>3. pass[0].sorted \in Seq(DOMAIN tree) /\ ParentsFirst(tree, pass[0].sorted)
    <3>1. <<>> \in Seq(DOMAIN tree) /\ Len(<<>>) = 0 /\ \A i \in 1..0 : FALSE
      OBVIOUS
    <3>. QED  BY <2>1, <3>1 DEF ParentsFirst
  <2>4. Sorting(tree, pass[0])
    BY <2>1, <2>2, <2>3 DEF Sorting
  <2>5. Len(pass[0].remaining) <= L - 0
    BY <1>1, <2>1 DEF L
  <2>. QED  BY <2>4, <2>5
<1>6. ASSUME NEW k \in Nat, k \in G
      PROVE  k + 1 \in G
  <2>. SUFFICES ASSUME k + 1 <= L
                PROVE  Sorting(tree, pass[k + 1]) /\ Len(pass[k + 1].remaining) <= L - (k + 1)
    OBVIOUS
  <2>1. Sorting(tree, pass[k]) /\ Len(pass[k].remaining) <= L - k
    BY <1>1, <1>6
  <2>2. /\ Sorting(tree, pass[k + 1])
        /\ Len(pass[k + 1].remaining) <= Len(pass[k].remaining)
        /\ pass[k].remaining # <<>> => Len(pass[k + 1].remaining) < Len(pass[k].remaining)
    BY <1>4, <2>1, PassSorts
  <2>3. Len(pass[k].remaining) \in Nat /\ Len(pass[k + 1].remaining) \in Nat
    BY <2>1, <2>2 DEF Sorting
  <2>4. CASE pass[k].remaining = <<>>
    <3>1. Len(pass[k].remaining) = 0
      BY <2>4
    <3>. QED  BY <1>1, <2>2, <2>3, <3>1
  <2>5. CASE pass[k].remaining # <<>>
    BY <1>1, <2>1, <2>2, <2>3, <2>5
  <2>. QED  BY <2>4, <2>5
<1>. HIDE DEF G
<1>7. L \in G
  BY <1>1, <1>5, <1>6, Induction
<1>8. Sorting(tree, pass[L]) /\ Len(pass[L].remaining) <= 0
  <2>1. Sorting(tree, pass[L]) /\ Len(pass[L].remaining) <= L - L
    BY <1>1, <1>7 DEF G
  <2>. QED  BY <1>1, <2>1
<1>9. pass[L].remaining = <<>>
  <2>1. pass[L].remaining \in Seq(DOMAIN tree)
    BY <1>8 DEF Sorting
  <2>. QED  BY <1>8, <2>1
<1>10. TopologicalSort(tree, cats) = pass[L].sorted /\ ToSet(<<>>) = {}
  <2>1. pass[L].sorted \in Seq(DOMAIN tree)
    BY <1>8 DEF Sorting
  <2>2. pass[L].sorted \o <<>> = pass[L].sorted
    BY <2>1
  <2>3. ToSet(<<>>) = {}
    BY DEF ToSet
  <2>. QED  BY <1>2, <1>9, <2>2, <2>3
<1>. QED  BY <1>8, <1>9, <1>10 DEF Sorting

\* Every category is in each of the orders SetToSeqs lists.
LEMMA ListsAll ==
    ASSUME NEW S, IsFiniteSet(S), NEW cats \in SetToSeqs(S)
    PROVE  cats \in Seq(S) /\ S \subseteq ToSet(cats)
<1>. DEFINE n == Cardinality(S)
<1>1. n \in Nat /\ IsFiniteSet(1..n) /\ Cardinality(1..n) = n
  BY FS_CardinalityType, FS_Interval
<1>2. cats \in Injection(1..n, S)
  BY DEF SetToSeqs, Injection, IsInjective
<1>3. cats \in Surjection(1..n, S)
  BY <1>1, <1>2, FS_Injection
<1>4. cats \in [1..n -> S] /\ \A c \in S : \E i \in 1..n : cats[i] = c
  BY <1>3 DEF Surjection
<1>. HIDE DEF n
<1>5. cats \in Seq(S)
  BY <1>1, <1>4
<1>6. DOMAIN cats = 1..n
  BY <1>4
<1>. QED  BY <1>4, <1>5, <1>6 DEF ToSet

\* A part of an acyclic tree, as a run reads it, is acyclic.
LEMMA AcyclicPart ==
    ASSUME NEW tree, Acyclic(tree), NEW S \in SUBSET DOMAIN tree
    PROVE  Acyclic(Restrict(tree, S))
<1>1. DOMAIN Restrict(tree, S) = S /\ \A c \in S : Restrict(tree, S)[c] = tree[c]
  BY DEF Restrict
<1>2. ASSUME NEW T \in SUBSET S, T # {}
      PROVE  \E c \in T : Restrict(tree, S)[c].parent \notin T
  <2>1. T \in SUBSET DOMAIN tree
    OBVIOUS
  <2>2. PICK c \in T : tree[c].parent \notin T
    BY <1>2, <2>1 DEF Acyclic
  <2>. QED  BY <1>1, <2>2
<1>. QED  BY <1>1, <1>2 DEF Acyclic

-----------------------------------------------------------------------------
(* The inductive invariant *)

Places == {"idle", "read", "next", "call", "new", "insert", "changed"}
Kinds == {"refused", "lost", "rollback", "deleted", "unread"}
Rows == [cat : Cats, woo : Nat, name : Names]

\* The types of the variables.
TypeOK ==
    /\ DOMAIN odoo \subseteq Cats
    /\ odoo \in [DOMAIN odoo -> [name : Names, parent : DOMAIN odoo \cup {Root}]]
    /\ nextId \in Nat \ {0}
    /\ DOMAIN store \subseteq 1..(nextId - 1)
    /\ store \in [DOMAIN store -> [cat : Cats, name : Names, parent : Nat,
                                   meant : Cats \cup {Root}]]
    /\ mappings \in SUBSET Rows
    /\ own \in [Workers -> SUBSET Rows]
    /\ pc \in [Workers -> Places]
    /\ plan = [w \in Workers |-> plan[w]]
    /\ order \in [Workers -> Seq(Cats)]
    /\ at \in [Workers -> Nat \ {0}]
    /\ lookup = [w \in Workers |-> lookup[w]]
    /\ kept \in [Workers -> Rows \cup {NoRow}]
    /\ found \in [Workers -> Rows \cup {NoRow}]
    /\ made \in [Workers -> Nat]
    /\ mishaps \in [Cats -> SUBSET Kinds]
    /\ overlapped \in BOOLEAN

\* What a run has read: whose parent it does not have was not read.
PlanOK(w) ==
    /\ DOMAIN plan[w] \subseteq Cats
    /\ plan[w] \in [DOMAIN plan[w] -> [name : Names, parent : Cats \cup {Root}]]
    /\ \A c \in DOMAIN plan[w] :
           plan[w][c].parent \in DOMAIN plan[w] \cup {Root} \/ mishaps[plan[w][c].parent] # {}

\* The categories of a run are in the order of the sort.
OrderOK(w) ==
    /\ order[w] \in Seq(DOMAIN plan[w])
    /\ ParentsFirst(plan[w], order[w])

\* At what place a run has a category and a row in hand.
PlaceOK(w) ==
    /\ pc[w] = "idle" => own[w] = {} /\ at[w] = 1
    /\ pc[w] \notin {"idle", "next"} => at[w] <= Len(order[w])
    /\ found[w] # NoRow => pc[w] \in {"call", "changed"} /\ found[w].cat = Cat(w)
    /\ pc[w] = "changed" => found[w] # NoRow

\* The category of the store with this id stands for c, if it still exists.
For(c, n) == n \in 1..(nextId - 1) /\ (n \in DOMAIN store => store[n].cat = c)

\* The ids a run knows are of the categories it has them for.
IdsOK(w) ==
    /\ \A r \in own[w] : For(r.cat, r.woo)
    /\ kept[w] # NoRow => For(kept[w].cat, kept[w].woo)
    /\ found[w] # NoRow => For(found[w].cat, found[w].woo)
    /\ pc[w] \in {"new", "insert"} => For(Cat(w), made[w])
    /\ DOMAIN lookup[w] \subseteq Cats
    /\ \A c \in DOMAIN lookup[w] : For(c, lookup[w][c])

MappedOK == \A r \in mappings : For(r.cat, r.woo)

\* Before its turn is over, a category is known or something happened to it.
Processed(w) ==
    pc[w] \notin {"idle", "read"} =>
        \A i \in 1..Len(order[w]) :
            i < at[w] => order[w][i] \in DOMAIN lookup[w] \/ mishaps[order[w][i]] # {}

\* A category meant for p is put under a: under p, or at the top after a mishap of p.
Placed(p, a) ==
    IF p = Root THEN a = 0
    ELSE \/ "deleted" \in mishaps[p]
         \/ a = 0 /\ mishaps[p] # {}
         \/ a \in DOMAIN store /\ store[a].cat = p

PlacedOK == \A m \in DOMAIN store : Placed(store[m].meant, store[m].parent)

\* Without an overlap, at most one run is under way.
Alone == ~overlapped => \A v, w \in Workers : pc[v] # "idle" /\ pc[w] # "idle" => v = w

\* Nothing has happened to p that could have left it a second id, or none.
Clean(p) == ~overlapped /\ mishaps[p] = {}

\* By n a run knows the category of the store for p: in a row it has flushed, or
\* as what it has just created.
Holds(w, p, n) ==
    \/ \E r \in own[w] : r.cat = p /\ r.woo = n
    \/ pc[w] \in {"new", "insert"} /\ Cat(w) = p /\ made[w] = n

Knows(p, n) ==
    \/ \E r \in mappings : r.cat = p /\ r.woo = n
    \/ \E w \in Workers : Holds(w, p, n)

\* There is one id for p, the store has no other category for p, and what a run
\* has looked up is that one.
Single(p) ==
    /\ \A m, n \in Nat : Knows(p, m) /\ Knows(p, n) => m = n
    /\ \A n \in DOMAIN store : store[n].cat = p => Knows(p, n)
    /\ \A w \in Workers : /\ kept[w].cat = p => Knows(p, kept[w].woo)
                          /\ found[w].cat = p => Knows(p, found[w].woo)

\* A run that makes a category for p has none for it.
Unmapped(w, p) ==
    pc[w] \in {"call", "new", "insert"} /\ found[w] = NoRow /\ Cat(w) = p =>
        kept[w].cat # p /\ \A r \in mappings \cup own[w] : r.cat # p

CleanOK == \A p \in Cats : Clean(p) => Single(p) /\ \A w \in Workers : Unmapped(w, p)

Local(w) == PlanOK(w) /\ OrderOK(w) /\ PlaceOK(w) /\ IdsOK(w) /\ Processed(w)

Inv ==
    /\ TypeOK
    /\ Acyclic(odoo)
    /\ \A w \in Workers : Local(w)
    /\ MappedOK
    /\ PlacedOK
    /\ Alone
    /\ CleanOK

-----------------------------------------------------------------------------
(* What a step leaves as it is *)

\* The step is not one of v.
Same(v) ==
    /\ own'[v] = own[v] /\ pc'[v] = pc[v] /\ plan'[v] = plan[v] /\ order'[v] = order[v]
    /\ at'[v] = at[v] /\ lookup'[v] = lookup[v] /\ kept'[v] = kept[v]
    /\ found'[v] = found[v] /\ made'[v] = made[v]

\* No category of the store becomes another one, and a new one gets a new id.
StoreKeeps ==
    /\ nextId' \in Nat /\ nextId' >= nextId
    /\ \A n \in DOMAIN store' :
           n < nextId => n \in DOMAIN store /\ store'[n].cat = store[n].cat

Worse == \A c \in Cats : mishaps[c] \subseteq mishaps'[c]

LEMMA Growing ==
    ASSUME NEW a \in Nat, NEW b \in Nat, b >= a, NEW n \in 1..(a - 1)
    PROVE  n \in 1..(b - 1) /\ n < a
OBVIOUS

LEMMA ForKept ==
    ASSUME TypeOK, StoreKeeps, NEW c, NEW n, For(c, n)
    PROVE  For(c, n)'
<1>1. n \in 1..(nextId - 1) /\ nextId \in Nat /\ nextId' \in Nat /\ nextId' >= nextId
  BY DEF TypeOK, For, StoreKeeps
<1>2. n \in 1..(nextId' - 1) /\ n < nextId
  BY <1>1, Growing
<1>3. n \in DOMAIN store' => store'[n].cat = c
  BY <1>2 DEF For, StoreKeeps
<1>. QED  BY <1>2, <1>3 DEF For

LEMMA PlanKept ==
    ASSUME TypeOK, TypeOK', Worse, NEW v \in Workers, PlanOK(v), plan'[v] = plan[v]
    PROVE  PlanOK(v)'
<1>1. \A c \in Cats : mishaps[c] # {} => mishaps'[c] # {}
  BY DEF Worse
<1>2. \A c \in DOMAIN plan[v] : plan[v][c].parent \in Cats \cup {Root}
  BY DEF PlanOK
<1>3. ASSUME NEW c \in DOMAIN plan[v]
      PROVE  plan[v][c].parent \in DOMAIN plan[v] \cup {Root} \/ mishaps'[plan[v][c].parent] # {}
  BY <1>1, <1>2 DEF PlanOK
<1>. QED  BY <1>3 DEF PlanOK

LEMMA ProcessedKept ==
    ASSUME Worse, NEW v \in Workers, Processed(v), order[v] \in Seq(Cats),
           pc'[v] = pc[v], order'[v] = order[v], at'[v] = at[v], lookup'[v] = lookup[v]
    PROVE  Processed(v)'
<1>1. \A i \in 1..Len(order[v]) : order[v][i] \in Cats
  OBVIOUS
<1>2. \A c \in Cats : mishaps[c] # {} => mishaps'[c] # {}
  BY DEF Worse
<1>. QED  BY <1>1, <1>2 DEF Processed

\* What another run or the environment does keeps what holds of run v.
LEMMA LocalKept ==
    ASSUME TypeOK, TypeOK', StoreKeeps, Worse, NEW v \in Workers, Same(v), Local(v)
    PROVE  Local(v)'
<1>1. PlanOK(v)'
  BY PlanKept DEF Local, Same
<1>2. OrderOK(v)'
  BY DEF Local, Same, OrderOK
<1>3. PlaceOK(v)'
  BY DEF Local, Same, PlaceOK, Cat
<1>4. IdsOK(v)'
  <2>1. \A c, n : For(c, n) => For(c, n)'
    BY ForKept
  <2>2. \A r \in own'[v] : For(r.cat, r.woo)'
    BY <2>1 DEF Local, Same, IdsOK
  <2>3. /\ kept'[v] # NoRow => For(kept[v].cat, kept[v].woo)'
        /\ found'[v] # NoRow => For(found[v].cat, found[v].woo)'
    BY <2>1 DEF Local, Same, IdsOK
  <2>4. pc'[v] \in {"new", "insert"} => For(Cat(v), made[v])'
    BY <2>1 DEF Local, Same, IdsOK, Cat
  <2>5. DOMAIN lookup'[v] \subseteq Cats /\ \A c \in DOMAIN lookup'[v] : For(c, lookup[v][c])'
    BY <2>1 DEF Local, Same, IdsOK
  <2>. QED  BY <2>2, <2>3, <2>4, <2>5 DEF IdsOK
<1>5. Processed(v)'
  BY ProcessedKept DEF Local, Same, TypeOK
<1>. QED  BY <1>1, <1>2, <1>3, <1>4, <1>5 DEF Local

LEMMA HoldsKept ==
    ASSUME NEW v, Same(v), NEW p, NEW n
    PROVE  Holds(v, p, n)' <=> Holds(v, p, n)
BY DEF Holds, Same, Cat

LEMMA CleanBefore ==
    ASSUME Worse, overlapped => overlapped', NEW p \in Cats, Clean(p)'
    PROVE  Clean(p)
BY DEF Worse, Clean

\* The step of w keeps a category in order.
LEMMA CleanOne ==
    ASSUME NEW w, \A v \in Workers \ {w} : Same(v), NEW p \in Cats, Single(p),
           \A n : Knows(p, n)' <=> Knows(p, n),
           \A n \in DOMAIN store' :
               store'[n].cat = p => Knows(p, n) \/ (n \in DOMAIN store /\ store[n].cat = p),
           w \in Workers => /\ kept'[w].cat = p => Knows(p, kept'[w].woo)
                            /\ found'[w].cat = p => Knows(p, found'[w].woo)
                            /\ Unmapped(w, p)',
           \A v \in Workers \ {w} : Unmapped(v, p)'
    PROVE  Single(p)' /\ \A v \in Workers : Unmapped(v, p)'
<1>1. \A m, n \in Nat : Knows(p, m)' /\ Knows(p, n)' => m = n
  BY DEF Single
<1>2. \A n \in DOMAIN store' : store'[n].cat = p => Knows(p, n)'
  BY DEF Single
<1>3. ASSUME NEW v \in Workers
      PROVE  /\ kept'[v].cat = p => Knows(p, kept[v].woo)'
             /\ found'[v].cat = p => Knows(p, found[v].woo)'
  <2>1. /\ kept'[v].cat = p => Knows(p, kept'[v].woo)
        /\ found'[v].cat = p => Knows(p, found'[v].woo)
    BY DEF Single, Same
  <2>2. \A n : Knows(p, n) => Knows(p, n)'
    OBVIOUS
  <2>. QED  BY <2>1, <2>2
<1>4. Single(p)'
  BY <1>1, <1>2, <1>3 DEF Single
<1>. QED  BY <1>4

\* A step of w that makes no id of a clean category known or unknown keeps CleanOK.
LEMMA CleanKept ==
    ASSUME TypeOK, CleanOK, NEW w, \A v \in Workers \ {w} : Same(v),
           Worse, overlapped => overlapped',
           \A p \in Cats : Clean(p) /\ Clean(p)' =>
               /\ \A n : Knows(p, n)' <=> Knows(p, n)
               /\ \A n \in DOMAIN store' :
                      store'[n].cat = p => Knows(p, n) \/ (n \in DOMAIN store /\ store[n].cat = p)
               /\ w \in Workers => /\ kept'[w].cat = p => Knows(p, kept'[w].woo)
                                   /\ found'[w].cat = p => Knows(p, found'[w].woo)
                                   /\ Unmapped(w, p)'
               /\ \A v \in Workers \ {w} : Unmapped(v, p)'
    PROVE  CleanOK'
<1>. SUFFICES ASSUME NEW p \in Cats, Clean(p)'
              PROVE  Single(p)' /\ \A v \in Workers : Unmapped(v, p)'
  BY DEF CleanOK
<1>1. Clean(p)
  BY CleanBefore
<1>2. Single(p)
  BY <1>1 DEF CleanOK
<1>3. \A n : Knows(p, n)' <=> Knows(p, n)
  BY <1>1
<1>4. \A n \in DOMAIN store' :
          store'[n].cat = p => Knows(p, n) \/ (n \in DOMAIN store /\ store[n].cat = p)
  BY <1>1
<1>5. w \in Workers => /\ kept'[w].cat = p => Knows(p, kept'[w].woo)
                       /\ found'[w].cat = p => Knows(p, found'[w].woo)
                       /\ Unmapped(w, p)'
  BY <1>1
<1>6. \A v \in Workers \ {w} : Unmapped(v, p)'
  BY <1>1
<1>. QED  BY <1>2, <1>3, <1>4, <1>5, <1>6, CleanOne

\* Of the others nothing changes when the rows are the same.
LEMMA UnmappedKept ==
    ASSUME NEW v, Same(v), mappings' = mappings, NEW p, Unmapped(v, p)
    PROVE  Unmapped(v, p)'
BY DEF Unmapped, Same, Cat

LEMMA KnowsKept ==
    ASSUME mappings' = mappings, NEW w, \A v \in Workers \ {w} : Same(v), NEW p,
           w \in Workers => \A n : Holds(w, p, n)' <=> Holds(w, p, n)
    PROVE  \A n : Knows(p, n)' <=> Knows(p, n)
<1>1. \A v \in Workers : \A n : Holds(v, p, n)' <=> Holds(v, p, n)
  BY HoldsKept
<1>. QED  BY <1>1 DEF Knows

LEMMA MappedKept ==
    ASSUME TypeOK, StoreKeeps, MappedOK, mappings' = mappings
    PROVE  MappedOK'
<1>1. \A c, n : For(c, n) => For(c, n)'
  BY ForKept
<1>2. \A r \in mappings' : For(r.cat, r.woo)'
  BY <1>1 DEF MappedOK
<1>. QED  BY <1>2 DEF MappedOK

LEMMA PlacedKept ==
    ASSUME TypeOK, PlacedOK, store' = store, Worse
    PROVE  PlacedOK'
<1>. SUFFICES ASSUME NEW m \in DOMAIN store PROVE Placed(store[m].meant, store[m].parent)'
  BY DEF PlacedOK
<1>1. Placed(store[m].meant, store[m].parent) /\ store[m].meant \in Cats \cup {Root}
  BY DEF PlacedOK, TypeOK
<1>2. store[m].meant # Root => /\ mishaps[store[m].meant] \subseteq mishaps'[store[m].meant]
  BY <1>1 DEF Worse
<1>. QED  BY <1>1, <1>2 DEF Placed

LEMMA AloneKept ==
    ASSUME Alone, overlapped' = overlapped, \A v \in Workers : pc'[v] # "idle" => pc[v] # "idle"
    PROVE  Alone'
BY DEF Alone

\* A step of w: what has to be shown of it.
LEMMA InvKept ==
    ASSUME Inv, TypeOK', Acyclic(odoo)', StoreKeeps, Worse,
           NEW w, \A v \in Workers \ {w} : Same(v), w \in Workers => Local(w)',
           MappedOK', PlacedOK', Alone', CleanOK'
    PROVE  Inv'
<1>1. \A v \in Workers \ {w} : Local(v)'
  BY LocalKept DEF Inv
<1>. QED  BY <1>1 DEF Inv

LEMMA StoreIdle ==
    ASSUME TypeOK, store' = store, nextId' = nextId
    PROVE  StoreKeeps
BY DEF TypeOK, StoreKeeps

LEMMA MishapsIdle ==
    ASSUME mishaps' = mishaps
    PROVE  Worse
BY DEF Worse

LEMMA SessionIdle ==
    ASSUME UNCHANGED <<session, pc>>, NEW v
    PROVE  Same(v)
BY DEF session, Same

-----------------------------------------------------------------------------
(* The actions *)

LEMMA InitInv ==
    ASSUME CategoryAssumption, Init
    PROVE  Inv
<1>. USE DEF Init
<1>1. TypeOK
  <2>1. PICK S \in SUBSET Cats : odoo \in [S -> [name : Names, parent : S \cup {Root}]]
    BY DEF CategoryAssumption, OdooTrees
  <2>2. DOMAIN odoo = S
    BY <2>1
  <2>3. store \in [DOMAIN store -> [cat : Cats, name : Names, parent : Nat,
                                    meant : Cats \cup {Root}]] /\ DOMAIN store = {}
    OBVIOUS
  <2>4. order \in [Workers -> Seq(Cats)]
    <3>1. <<>> \in Seq(Cats)
      OBVIOUS
    <3>. QED  BY <3>1
  <2>5. /\ nextId \in Nat \ {0}
        /\ mappings \in SUBSET Rows
        /\ own \in [Workers -> SUBSET Rows]
    OBVIOUS
  <2>9. kept \in [Workers -> Rows \cup {NoRow}] /\ found \in [Workers -> Rows \cup {NoRow}]
    OBVIOUS
  <2>7. pc \in [Workers -> Places]
    BY DEF Places
  <2>8. at \in [Workers -> Nat \ {0}] /\ made \in [Workers -> Nat]
    OBVIOUS
  <2>10. mishaps \in [Cats -> SUBSET Kinds]
    OBVIOUS
  <2>11. overlapped \in BOOLEAN
    OBVIOUS
  <2>6. plan = [v \in Workers |-> plan[v]] /\ lookup = [v \in Workers |-> lookup[v]]
    OBVIOUS
  <2>. QED  BY <2>1, <2>2, <2>3, <2>4, <2>5, <2>6, <2>7, <2>8, <2>9, <2>10, <2>11 DEF TypeOK
<1>2. Acyclic(odoo)
  BY DEF CategoryAssumption
<1>3. ASSUME NEW w \in Workers
      PROVE  Local(w)
  <2>1. plan[w] = <<>> /\ order[w] = <<>> /\ lookup[w] = <<>> /\ DOMAIN <<>> = {}
        /\ Len(<<>>) = 0 /\ <<>> \in Seq({})
    OBVIOUS
  <2>2. pc[w] = "idle" /\ own[w] = {} /\ kept[w] = NoRow /\ found[w] = NoRow /\ at[w] = 1
    OBVIOUS
  <2>3. <<>> \in [{} -> [name : Names, parent : Cats \cup {Root}]]
    OBVIOUS
  <2>4. PlanOK(w)
    BY <2>1, <2>3 DEF PlanOK
  <2>5. OrderOK(w)
    BY <2>1 DEF OrderOK, ParentsFirst
  <2>6. PlaceOK(w) /\ Processed(w)
    BY <2>2 DEF PlaceOK, Processed
  <2>7. IdsOK(w)
    BY <2>1, <2>2 DEF IdsOK
  <2>. QED  BY <2>4, <2>5, <2>6, <2>7 DEF Local
<1>4. MappedOK /\ PlacedOK /\ Alone
  BY DEF MappedOK, PlacedOK, Alone
<1>5. CleanOK
  <2>. SUFFICES ASSUME NEW p \in Cats PROVE Single(p) /\ \A w \in Workers : Unmapped(w, p)
    BY DEF CleanOK
  <2>1. p # Root /\ NoRow.cat = Root
    BY DEF CategoryAssumption, NoRow
  <2>2. \A n : ~Knows(p, n)
    BY DEF Knows, Holds
  <2>3. Single(p)
    BY <2>1, <2>2 DEF Single
  <2>. QED  BY <2>3 DEF Unmapped
<1>. QED  BY <1>1, <1>2, <1>3, <1>4, <1>5 DEF Inv

\* Steps that neither any run nor the mappings take part in.
LEMMA CleanOutside ==
    ASSUME Inv, UNCHANGED <<mappings, session, pc, overlapped>>, Worse,
           \A n \in DOMAIN store' : n \in DOMAIN store /\ store'[n].cat = store[n].cat
    PROVE  CleanOK'
<1>1. \A v : Same(v)
  BY SessionIdle
<1>2. ASSUME NEW p \in Cats, Clean(p)
      PROVE  /\ \A n : Knows(p, n)' <=> Knows(p, n)
             /\ \A n \in DOMAIN store' :
                    store'[n].cat = p => Knows(p, n) \/ (n \in DOMAIN store /\ store[n].cat = p)
             /\ \A v \in Workers : /\ kept'[v].cat = p => Knows(p, kept'[v].woo)
                                   /\ found'[v].cat = p => Knows(p, found'[v].woo)
                                   /\ Unmapped(v, p)'
  <2>1. Single(p) /\ \A v \in Workers : Unmapped(v, p)
    BY <1>2 DEF Inv, CleanOK
  <2>2. \A n : Knows(p, n)' <=> Knows(p, n)
    BY <1>1, HoldsKept DEF Knows
  <2>3. \A v \in Workers : Unmapped(v, p)'
    BY <1>1, <2>1, UnmappedKept
  <2>4. \A v \in Workers : /\ kept'[v].cat = p => Knows(p, kept'[v].woo)
                           /\ found'[v].cat = p => Knows(p, found'[v].woo)
    BY <1>1, <2>1 DEF Single, Same
  <2>. QED  BY <2>2, <2>3, <2>4
<1>3. \A v \in Workers \ {Root} : Same(v)
  BY <1>1
<1>. QED  BY <1>2, <1>3, CleanKept DEF Inv

LEMMA EditInv ==
    ASSUME CategoryAssumption, Inv, NEW c \in Cats,
           NEW entry \in [name : Names, parent : Cats \cup {Root}], Edit(c, entry)
    PROVE  Inv'
<1>1. UNCHANGED <<store, mappings, session, pc, nextId, mishaps, overlapped>>
  BY DEF Edit
<1>. DEFINE tree == [d \in DOMAIN odoo \cup {c} |-> IF d = c THEN entry ELSE odoo[d]]
<1>2. odoo' = tree /\ Acyclic(tree) /\ entry.parent \in DOMAIN odoo \cup {Root}
  BY DEF Edit
<1>3. TypeOK'
  <2>1. DOMAIN odoo \subseteq Cats
        /\ odoo \in [DOMAIN odoo -> [name : Names, parent : DOMAIN odoo \cup {Root}]]
    BY DEF Inv, TypeOK
  <2>2. DOMAIN odoo' = DOMAIN odoo \cup {c}
    BY <1>2
  <2>3. ASSUME NEW d \in DOMAIN odoo \cup {c}
        PROVE  odoo'[d] \in [name : Names, parent : DOMAIN odoo' \cup {Root}]
    BY <1>2, <2>1, <2>2
  <2>4. odoo' \in [DOMAIN odoo' -> [name : Names, parent : DOMAIN odoo' \cup {Root}]]
    BY <1>2, <2>2, <2>3
  <2>5. DOMAIN odoo' \subseteq Cats
    BY <2>1, <2>2
  <2>. HIDE DEF tree
  <2>. QED  BY <1>1, <2>4, <2>5 DEF Inv, TypeOK, session
<1>4. Acyclic(odoo)'
  <2>. HIDE DEF tree
  <2>1. Acyclic(odoo')
    BY <1>2
  <2>. QED  BY <2>1 DEF Acyclic
<1>. HIDE DEF tree
<1>5. StoreKeeps /\ Worse /\ \A v : Same(v)
  BY <1>1, StoreIdle, MishapsIdle, SessionIdle DEF Inv
<1>6. MappedOK' /\ PlacedOK' /\ Alone'
  BY <1>1, <1>5, MappedKept, PlacedKept, AloneKept DEF Inv
<1>7. CleanOK'
  BY <1>1, <1>5, CleanOutside
<1>8. Root \in Workers => Local(Root)'
  BY <1>3, <1>5, LocalKept DEF Inv
<1>. QED  BY <1>3, <1>4, <1>5, <1>6, <1>7, <1>8, InvKept

LEMMA DeleteInv ==
    ASSUME CategoryAssumption, Inv, NEW n \in DOMAIN store, MerchantDeletes(n)
    PROVE  Inv'
<1>1. UNCHANGED <<odoo, mappings, session, pc, nextId, overlapped>>
  BY DEF MerchantDeletes
<1>2. store' = [m \in DOMAIN store \ {n} |->
                   IF store[m].parent = n THEN [store[m] EXCEPT !.parent = store[n].parent]
                   ELSE store[m]]
  BY DEF MerchantDeletes
<1>3. mishaps' = [mishaps EXCEPT ![store[n].cat] = @ \cup {"deleted"}]
  BY DEF MerchantDeletes
<1>4. store \in [DOMAIN store -> [cat : Cats, name : Names, parent : Nat, meant : Cats \cup {Root}]]
      /\ DOMAIN store \subseteq 1..(nextId - 1)
      /\ mishaps \in [Cats -> SUBSET Kinds]
      /\ nextId \in Nat \ {0}
  BY DEF Inv, TypeOK
<1>5. DOMAIN store' = DOMAIN store \ {n}
  BY <1>2
<1>6. ASSUME NEW m \in DOMAIN store'
      PROVE  /\ m \in DOMAIN store /\ m # n
             /\ store'[m].cat = store[m].cat
             /\ store'[m].meant = store[m].meant
             /\ store'[m].parent = IF store[m].parent = n THEN store[n].parent ELSE store[m].parent
             /\ store'[m] \in [cat : Cats, name : Names, parent : Nat, meant : Cats \cup {Root}]
  <2>1. m \in DOMAIN store /\ m # n
    BY <1>5
  <2>2. store'[m] = IF store[m].parent = n THEN [store[m] EXCEPT !.parent = store[n].parent]
                    ELSE store[m]
    BY <1>2, <1>5
  <2>3. store[m] \in [cat : Cats, name : Names, parent : Nat, meant : Cats \cup {Root}]
        /\ store[n].parent \in Nat
    BY <1>4, <2>1
  <2>4. CASE store[m].parent = n
    <3>1. store'[m] = [store[m] EXCEPT !.parent = store[n].parent]
      BY <2>2, <2>4
    <3>. QED  BY <2>1, <2>3, <2>4, <3>1
  <2>5. CASE store[m].parent # n
    BY <2>1, <2>2, <2>3, <2>5
  <2>. QED  BY <2>4, <2>5
<1>7. StoreKeeps
  <2>1. nextId' \in Nat /\ nextId' >= nextId
    <3>1. nextId >= nextId
      BY <1>4
    <3>. QED  BY <1>1, <1>4, <3>1
  <2>. QED  BY <1>6, <2>1 DEF StoreKeeps
<1>8. Worse /\ mishaps' \in [Cats -> SUBSET Kinds] /\ "deleted" \in mishaps'[store[n].cat]
  <2>1. store[n].cat \in Cats
    BY <1>4
  <2>. QED  BY <1>3, <1>4, <2>1 DEF Worse, Kinds
<1>9. TypeOK'
  <2>1. store' \in [DOMAIN store' -> [cat : Cats, name : Names, parent : Nat,
                                      meant : Cats \cup {Root}]]
    <3>1. store' = [m \in DOMAIN store' |-> store'[m]]
      BY <1>2
    <3>. QED  BY <1>6, <3>1
  <2>2. DOMAIN store' \subseteq 1..(nextId' - 1)
    BY <1>1, <1>4, <1>5
  <2>. QED  BY <1>1, <1>8, <2>1, <2>2 DEF Inv, TypeOK, session
<1>10. Acyclic(odoo)'
  BY <1>1 DEF Inv, Acyclic
<1>11. \A v : Same(v)
  BY <1>1, SessionIdle
<1>12. MappedOK' /\ Alone'
  BY <1>1, <1>7, MappedKept, AloneKept DEF Inv
<1>13. PlacedOK'
  <2>. SUFFICES ASSUME NEW m \in DOMAIN store' PROVE Placed(store[m].meant, store[m].parent)'
    BY DEF PlacedOK
  <2>. DEFINE p == store[m].meant
              a == store[m].parent
  <2>1. m \in DOMAIN store /\ store'[m].meant = p /\ p \in Cats \cup {Root}
        /\ store'[m].parent = IF a = n THEN store[n].parent ELSE a
    BY <1>4, <1>6
  <2>2. Placed(p, a)
    BY <2>1 DEF Inv, PlacedOK
  <2>. HIDE DEF p, a
  <2>3. CASE p = Root
    <3>1. a = 0 /\ a # n
      BY <1>4, <2>2, <2>3 DEF Placed
    <3>. QED  BY <2>1, <2>3, <3>1 DEF Placed
  <2>4. CASE p # Root
    <3>1. p \in Cats /\ mishaps[p] \subseteq mishaps'[p]
      BY <1>8, <2>1, <2>4 DEF Worse
    <3>2. CASE "deleted" \in mishaps[p]
      BY <2>1, <2>4, <3>1, <3>2 DEF Placed
    <3>3. CASE a = 0 /\ mishaps[p] # {}
      <4>1. a # n
        BY <1>4, <3>3
      <4>. QED  BY <2>1, <2>4, <3>1, <3>3, <4>1 DEF Placed
    <3>4. CASE a \in DOMAIN store /\ store[a].cat = p
      <4>1. CASE a = n
        BY <1>8, <2>1, <2>4, <3>4, <4>1 DEF Placed
      <4>2. CASE a # n
        <5>1. a \in DOMAIN store' /\ store'[a].cat = p
          BY <1>5, <1>6, <3>4, <4>2
        <5>. QED  BY <2>1, <2>4, <4>2, <5>1 DEF Placed
      <4>. QED  BY <4>1, <4>2
    <3>. QED  BY <2>2, <2>4, <3>2, <3>3, <3>4 DEF Placed
  <2>. QED  BY <2>3, <2>4
<1>14. CleanOK'
  BY <1>1, <1>6, <1>8, CleanOutside
<1>15. Root \in Workers => Local(Root)'
  BY <1>7, <1>8, <1>9, <1>11, LocalKept DEF Inv
<1>. QED  BY <1>7, <1>8, <1>9, <1>10, <1>11, <1>12, <1>13, <1>14, <1>15, InvKept

-----------------------------------------------------------------------------
(* The steps of a run *)

LEMMA CatOK ==
    ASSUME TypeOK, NEW w \in Workers, Local(w), at[w] <= Len(order[w])
    PROVE  /\ at[w] \in 1..Len(order[w])
           /\ Cat(w) \in DOMAIN plan[w] /\ Cat(w) \in Cats
           /\ plan[w][Cat(w)].name \in Names
           /\ plan[w][Cat(w)].parent \in Cats \cup {Root}
<1>1. at[w] \in Nat \ {0} /\ order[w] \in Seq(DOMAIN plan[w])
  BY DEF TypeOK, Local, OrderOK
<1>2. at[w] \in 1..Len(order[w])
  BY <1>1
<1>3. order[w][at[w]] \in DOMAIN plan[w]
  BY <1>1, <1>2
<1>. QED  BY <1>2, <1>3 DEF Cat, Local, PlanOK

LEMMA MappingOK ==
    ASSUME CategoryAssumption, TypeOK, MappedOK, NEW w \in Workers, Local(w), NEW c \in Cats
    PROVE  /\ Mapping(w, c) \in Rows \cup {NoRow}
           /\ Mapping(w, c) # NoRow => /\ Mapping(w, c).cat = c
                                       /\ Mapping(w, c) \in Rows
                                       /\ For(c, Mapping(w, c).woo)
           /\ Mapping(w, c) = NoRow =>
                  kept[w].cat # c /\ \A r \in mappings \cup own[w] : r.cat # c
           /\ Single(c) /\ Mapping(w, c) # NoRow => Knows(c, Mapping(w, c).woo)
<1>. DEFINE r == Mapping(w, c)
<1>1. /\ NoRow.cat = Root /\ c # Root /\ \A s \in Rows : s # NoRow
      /\ mappings \subseteq Rows /\ own[w] \subseteq Rows /\ kept[w] \in Rows \cup {NoRow}
  <2>1. NoRow.cat = Root /\ c # Root
    BY DEF CategoryAssumption, NoRow
  <2>2. \A s \in Rows : s.cat \in Cats
    BY DEF Rows
  <2>3. \A s \in Rows : s # NoRow
    BY <2>1, <2>2 DEF CategoryAssumption
  <2>. QED  BY <2>1, <2>3 DEF TypeOK
<1>2. CASE kept[w].cat = c
  <2>1. r = kept[w] /\ r \in Rows
    BY <1>1, <1>2 DEF Mapping
  <2>2. For(c, r.woo)
    BY <1>1, <1>2, <2>1 DEF Local, IdsOK
  <2>3. Single(c) => Knows(c, r.woo)
    BY <1>2, <2>1 DEF Single
  <2>. HIDE DEF r
  <2>4. r.cat = c /\ r # NoRow
    BY <1>1, <1>2, <2>1
  <2>. QED  BY <2>1, <2>2, <2>3, <2>4 DEF r
<1>3. CASE kept[w].cat # c /\ \E s \in View(w) : s.cat = c
  <2>1. r = CHOOSE s \in View(w) : s.cat = c
    BY <1>3 DEF Mapping
  <2>2. r \in View(w) /\ r.cat = c
    BY <1>3, <2>1
  <2>. HIDE DEF r
  <2>3. r \in mappings \cup own[w]
    BY <2>2 DEF View
  <2>4. For(c, r.woo)
    BY <2>2, <2>3 DEF MappedOK, Local, IdsOK
  <2>5. Knows(c, r.woo)
    BY <2>2, <2>3 DEF Knows, Holds
  <2>6. r \in Rows /\ r # NoRow
    BY <1>1, <2>3
  <2>. QED  BY <2>2, <2>4, <2>5, <2>6 DEF r
<1>4. CASE kept[w].cat # c /\ ~\E s \in View(w) : s.cat = c
  <2>1. r = NoRow
    BY <1>4 DEF Mapping
  <2>2. \A s \in own[w] : s.cat # c
    BY <1>4 DEF View
  <2>3. \A s \in mappings : s.cat # c
    BY <1>4, <2>2 DEF View
  <2>. HIDE DEF r
  <2>. QED  BY <1>4, <2>1, <2>2, <2>3 DEF r
<1>. QED  BY <1>2, <1>3, <1>4

\* What a run knows of the store.
LookupOK(w) == DOMAIN lookup[w] \subseteq Cats /\ \A c \in DOMAIN lookup[w] : For(c, lookup[w][c])

LEMMA LookupKept ==
    ASSUME TypeOK, StoreKeeps, NEW w, Local(w), lookup'[w] = lookup[w]
    PROVE  LookupOK(w)'
<1>1. \A c, n : For(c, n) => For(c, n)'
  BY ForKept
<1>. QED  BY <1>1 DEF LookupOK, Local, IdsOK

LEMMA KnowOK ==
    ASSUME TypeOK, StoreKeeps, NEW w \in Workers, Local(w), NEW c \in Cats, NEW n, For(c, n),
           Know(w, c, n)
    PROVE  /\ lookup' = [v \in Workers |-> lookup'[v]]
           /\ \A v \in Workers \ {w} : lookup'[v] = lookup[v]
           /\ DOMAIN lookup'[w] = DOMAIN lookup[w] \cup {c}
           /\ LookupOK(w)'
<1>1. lookup = [v \in Workers |-> lookup[v]]
  BY DEF TypeOK
<1>2. lookup'[w] = [d \in DOMAIN lookup[w] \cup {c} |-> IF d = c THEN n ELSE lookup[w][d]]
  BY <1>1 DEF Know
<1>3. lookup' = [v \in Workers |-> lookup'[v]] /\ \A v \in Workers \ {w} : lookup'[v] = lookup[v]
  BY <1>1 DEF Know
<1>4. DOMAIN lookup'[w] = DOMAIN lookup[w] \cup {c} /\ DOMAIN lookup[w] \subseteq Cats
  BY <1>2 DEF Local, IdsOK
<1>5. \A d, m : For(d, m) => For(d, m)'
  BY ForKept
<1>6. ASSUME NEW d \in DOMAIN lookup'[w]
      PROVE  For(d, lookup[w][d])'
  <2>1. CASE d = c
    BY <1>2, <1>4, <1>5, <2>1
  <2>2. CASE d # c
    <3>1. lookup'[w][d] = lookup[w][d] /\ For(d, lookup[w][d])
      BY <1>2, <1>4, <2>2 DEF Local, IdsOK
    <3>2. For(d, lookup[w][d])'
      BY <1>5, <3>1
    <3>. QED  BY <3>2
  <2>. QED  BY <2>1, <2>2
<1>. QED  BY <1>3, <1>4, <1>6 DEF LookupOK

LEMMA AdvanceOK ==
    ASSUME TypeOK, NEW w \in Workers, Advance(w)
    PROVE  /\ pc' \in [Workers -> Places] /\ at' \in [Workers -> Nat \ {0}]
           /\ found' \in [Workers -> Rows \cup {NoRow}] /\ made' \in [Workers -> Nat]
           /\ plan' = plan /\ order' = order /\ kept' = kept
           /\ pc'[w] = "next" /\ at'[w] = at[w] + 1 /\ found'[w] = NoRow /\ made'[w] = 0
           /\ \A v \in Workers \ {w} : /\ pc'[v] = pc[v] /\ at'[v] = at[v]
                                       /\ found'[v] = found[v] /\ made'[v] = made[v]
<1>. USE DEF Advance, Goto
<1>1. pc' \in [Workers -> Places] /\ pc'[w] = "next" /\ \A v \in Workers \ {w} : pc'[v] = pc[v]
  BY DEF TypeOK, Places
<1>2. at' \in [Workers -> Nat \ {0}] /\ at'[w] = at[w] + 1
      /\ \A v \in Workers \ {w} : at'[v] = at[v]
  <2>1. at \in [Workers -> Nat \ {0}] /\ at[w] + 1 \in Nat \ {0}
    BY DEF TypeOK
  <2>. QED  BY <2>1
<1>3. found' \in [Workers -> Rows \cup {NoRow}] /\ found'[w] = NoRow
      /\ \A v \in Workers \ {w} : found'[v] = found[v]
  BY DEF TypeOK
<1>4. made' \in [Workers -> Nat] /\ made'[w] = 0 /\ \A v \in Workers \ {w} : made'[v] = made[v]
  BY DEF TypeOK
<1>. QED  BY <1>1, <1>2, <1>3, <1>4

LEMMA Below ==
    ASSUME NEW i \in Nat, NEW k \in Nat, i < k + 1
    PROVE  i < k \/ i = k
OBVIOUS

\* The run goes on to the next category, with the last one known or mishandled.
LEMMA AdvanceLocal ==
    ASSUME TypeOK, TypeOK', StoreKeeps, Worse, NEW w \in Workers, Local(w),
           pc[w] \notin {"idle", "read"}, at[w] <= Len(order[w]), Advance(w),
           \A r \in own'[w] : For(r.cat, r.woo)',
           LookupOK(w)', DOMAIN lookup[w] \subseteq DOMAIN lookup'[w],
           Cat(w) \in DOMAIN lookup'[w] \/ mishaps'[Cat(w)] # {}
    PROVE  Local(w)'
<1>1. /\ plan' = plan /\ order' = order /\ kept' = kept
      /\ pc'[w] = "next" /\ at'[w] = at[w] + 1 /\ found'[w] = NoRow
  BY AdvanceOK
<1>2. PlanOK(w)' /\ OrderOK(w)'
  BY <1>1, PlanKept DEF Local, OrderOK
<1>3. PlaceOK(w)'
  BY <1>1 DEF PlaceOK
<1>4. IdsOK(w)'
  <2>1. kept'[w] # NoRow => For(kept[w].cat, kept[w].woo)'
    <3>1. kept[w] # NoRow => For(kept[w].cat, kept[w].woo)
      BY DEF Local, IdsOK
    <3>2. \A c, n : For(c, n) => For(c, n)'
      BY ForKept
    <3>. QED  BY <1>1, <3>1, <3>2
  <2>. QED  BY <1>1, <2>1 DEF IdsOK, LookupOK
<1>5. Processed(w)'
  <2>. SUFFICES ASSUME NEW i \in 1..Len(order[w]), i < at'[w]
                PROVE  order[w][i] \in DOMAIN lookup'[w] \/ mishaps'[order[w][i]] # {}
    BY <1>1 DEF Processed
  <2>1. order[w] \in Seq(Cats) /\ at[w] \in Nat /\ i \in Nat
    BY DEF TypeOK
  <2>2. i < at[w] \/ i = at[w]
    BY <1>1, <2>1, Below
  <2>3. CASE i < at[w]
    <3>1. order[w][i] \in DOMAIN lookup[w] \/ mishaps[order[w][i]] # {}
      BY <2>3 DEF Local, Processed
    <3>2. order[w][i] \in Cats
      BY <2>1
    <3>. QED  BY <3>1, <3>2 DEF Worse
  <2>4. CASE i = at[w]
    BY <2>4 DEF Cat
  <2>. QED  BY <2>2, <2>3, <2>4
<1>. QED  BY <1>2, <1>3, <1>4, <1>5 DEF Local

\* A step of w that changes neither the store nor a row.
LEMMA QuietInv ==
    ASSUME Inv, TypeOK', NEW w \in Workers, pc[w] # "idle",
           UNCHANGED <<odoo, store, mappings, own, nextId, history>>,
           \A v \in Workers \ {w} : Same(v), Local(w)',
           \A p \in Cats : Clean(p) /\ Single(p) /\ Unmapped(w, p) =>
               /\ \A n : Holds(w, p, n)' <=> Holds(w, p, n)
               /\ kept'[w].cat = p => Knows(p, kept'[w].woo)
               /\ found'[w].cat = p => Knows(p, found'[w].woo)
               /\ Unmapped(w, p)'
    PROVE  Inv'
<1>1. StoreKeeps /\ Worse /\ overlapped' = overlapped
  BY StoreIdle, MishapsIdle DEF Inv, history
<1>2. Acyclic(odoo)'
  BY DEF Inv, Acyclic
<1>3. MappedOK' /\ PlacedOK'
  BY <1>1, MappedKept, PlacedKept DEF Inv
<1>4. Alone'
  <2>1. \A v \in Workers : pc'[v] # "idle" => pc[v] # "idle"
    BY DEF Same
  <2>. QED  BY <1>1, <2>1, AloneKept DEF Inv
<1>5. CleanOK'
  <2>1. ASSUME NEW p \in Cats, Clean(p)
        PROVE  /\ \A n : Knows(p, n)' <=> Knows(p, n)
               /\ \A n \in DOMAIN store' :
                      store'[n].cat = p => Knows(p, n) \/ (n \in DOMAIN store /\ store[n].cat = p)
               /\ /\ kept'[w].cat = p => Knows(p, kept'[w].woo)
                  /\ found'[w].cat = p => Knows(p, found'[w].woo)
                  /\ Unmapped(w, p)'
               /\ \A v \in Workers \ {w} : Unmapped(v, p)'
    <3>1. Single(p) /\ \A v \in Workers : Unmapped(v, p)
      BY <2>1 DEF Inv, CleanOK
    <3>2. /\ \A n : Holds(w, p, n)' <=> Holds(w, p, n)
          /\ kept'[w].cat = p => Knows(p, kept'[w].woo)
          /\ found'[w].cat = p => Knows(p, found'[w].woo)
          /\ Unmapped(w, p)'
      BY <2>1, <3>1
    <3>3. \A n : Knows(p, n)' <=> Knows(p, n)
      BY <3>2, KnowsKept
    <3>4. \A v \in Workers \ {w} : Unmapped(v, p)'
      BY <3>1, UnmappedKept
    <3>. QED  BY <3>2, <3>3, <3>4
  <2>. QED  BY <1>1, <2>1, CleanKept DEF Inv
<1>. QED  BY <1>1, <1>2, <1>3, <1>4, <1>5, InvKept

LEMMA NoRowFacts ==
    ASSUME CategoryAssumption
    PROVE  NoRow.cat = Root /\ \A p \in Cats : NoRow.cat # p
BY DEF CategoryAssumption, NoRow

LEMMA ReadInv ==
    ASSUME CategoryAssumption, Inv, NEW w \in Workers, Read(w)
    PROVE  Inv'
<1>. DEFINE c == Cat(w)
            r == Mapping(w, c)
            last == at[w] = Len(order[w])
<1>1. /\ pc[w] = "read"
      /\ IF r = NoRow THEN UNCHANGED lookup ELSE Know(w, c, r.woo)
      /\ kept' = [kept EXCEPT ![w] = r]
      /\ at' = [at EXCEPT ![w] = IF last THEN 1 ELSE @ + 1]
      /\ pc' = [pc EXCEPT ![w] = IF last THEN "next" ELSE "read"]
      /\ UNCHANGED <<odoo, store, mappings, own, plan, order, found, made, nextId, history>>
  BY DEF Read, Goto
<1>2. TypeOK /\ Local(w) /\ MappedOK /\ at[w] <= Len(order[w])
  BY <1>1 DEF Inv, Local, PlaceOK
<1>3. c \in Cats /\ at[w] \in 1..Len(order[w]) /\ order[w] \in Seq(Cats)
  BY <1>2, CatOK DEF TypeOK
<1>4. /\ r \in Rows \cup {NoRow}
      /\ r # NoRow => r.cat = c /\ For(c, r.woo)
      /\ Single(c) /\ r # NoRow => Knows(c, r.woo)
  BY <1>2, <1>3, MappingOK
<1>. HIDE DEF c, r
<1>5. StoreKeeps /\ Worse
  BY <1>1, <1>2, StoreIdle, MishapsIdle DEF history
<1>6. /\ lookup' = [v \in Workers |-> lookup'[v]]
      /\ \A v \in Workers \ {w} : lookup'[v] = lookup[v]
      /\ LookupOK(w)'
  <2>1. CASE r = NoRow
    <3>1. lookup' = lookup
      BY <1>1, <2>1
    <3>2. lookup = [v \in Workers |-> lookup[v]]
      BY <1>2 DEF TypeOK
    <3>. QED  BY <1>2, <1>5, <3>1, <3>2, LookupKept
  <2>2. CASE r # NoRow
    <3>1. Know(w, c, r.woo) /\ For(c, r.woo)
      BY <1>1, <1>4, <2>2
    <3>. QED  BY <1>2, <1>3, <1>5, <3>1, KnowOK
  <2>. QED  BY <2>1, <2>2
<1>7. /\ pc'[w] = (IF last THEN "next" ELSE "read") /\ pc' \in [Workers -> Places]
      /\ \A v \in Workers \ {w} : pc'[v] = pc[v]
  BY <1>1, <1>2 DEF TypeOK, Places
<1>8. /\ at'[w] = (IF last THEN 1 ELSE at[w] + 1) /\ at' \in [Workers -> Nat \ {0}]
      /\ \A v \in Workers \ {w} : at'[v] = at[v]
  <2>1. at \in [Workers -> Nat \ {0}] /\ at[w] + 1 \in Nat \ {0} /\ 1 \in Nat \ {0}
    BY <1>2 DEF TypeOK
  <2>. QED  BY <1>1, <2>1
<1>9. /\ kept'[w] = r /\ kept' \in [Workers -> Rows \cup {NoRow}]
      /\ \A v \in Workers \ {w} : kept'[v] = kept[v]
  BY <1>1, <1>2, <1>4 DEF TypeOK
<1>10. TypeOK'
  BY <1>1, <1>2, <1>6, <1>7, <1>8, <1>9 DEF TypeOK, history
<1>11. \A v \in Workers \ {w} : Same(v)
  BY <1>1, <1>6, <1>7, <1>8, <1>9 DEF Same
<1>12. found[w] = NoRow
  BY <1>1, <1>2 DEF Local, PlaceOK
<1>13. Local(w)'
  <2>1. PlanOK(w)' /\ OrderOK(w)'
    BY <1>1, <1>2, <1>5, <1>10, PlanKept DEF Local, OrderOK
  <2>2. PlaceOK(w)'
    <3>1. pc'[w] # "next" => at'[w] <= Len(order[w])
      BY <1>3, <1>7, <1>8
    <3>. QED  BY <1>1, <1>7, <1>12, <3>1 DEF PlaceOK
  <2>3. IdsOK(w)'
    <3>1. \A d, n : For(d, n) => For(d, n)'
      BY <1>2, <1>5, ForKept
    <3>2. \A s \in own'[w] : For(s.cat, s.woo)'
      BY <1>1, <1>2, <3>1 DEF Local, IdsOK
    <3>3. kept'[w] # NoRow => For(kept[w].cat, kept[w].woo)'
      BY <1>4, <1>9, <3>1
    <3>. QED  BY <1>1, <1>6, <1>7, <1>12, <3>2, <3>3 DEF IdsOK, LookupOK
  <2>4. Processed(w)'
    <3>1. CASE last
      <4>1. ~\E i \in 1..Len(order[w]) : i < 1
        OBVIOUS
      <4>. QED  BY <1>1, <1>8, <3>1, <4>1 DEF Processed
    <3>2. CASE ~last
      BY <1>7, <3>2 DEF Processed
    <3>. QED  BY <3>1, <3>2
  <2>. QED  BY <2>1, <2>2, <2>3, <2>4 DEF Local
<1>14. ASSUME NEW p \in Cats, Single(p)
       PROVE  /\ \A n : Holds(w, p, n)' <=> Holds(w, p, n)
              /\ kept'[w].cat = p => Knows(p, kept'[w].woo)
              /\ found'[w].cat = p => Knows(p, found'[w].woo)
              /\ Unmapped(w, p)'
  <2>1. \A n : Holds(w, p, n)' <=> Holds(w, p, n)
    BY <1>1, <1>7 DEF Holds
  <2>2. kept'[w].cat = p => Knows(p, kept'[w].woo)
    BY <1>4, <1>9, <1>14, NoRowFacts
  <2>3. found'[w].cat # p
    BY <1>1, <1>12, NoRowFacts
  <2>4. Unmapped(w, p)'
    BY <1>7 DEF Unmapped
  <2>. QED  BY <2>1, <2>2, <2>3, <2>4
<1>. QED  BY <1>1, <1>10, <1>11, <1>13, <1>14, QuietInv

\* A run goes on, knowing the category in hand.
LEMMA LearnInv ==
    ASSUME CategoryAssumption, Inv, NEW w \in Workers, pc[w] \in {"next", "new"},
           at[w] <= Len(order[w]), NEW n, For(Cat(w), n), Know(w, Cat(w), n), Advance(w),
           UNCHANGED <<odoo, store, mappings, own, nextId, history>>,
           pc[w] = "new" => ~(Clean(Cat(w)) /\ Unmapped(w, Cat(w)))
    PROVE  Inv'
<1>1. TypeOK /\ Local(w)
  BY DEF Inv
<1>2. StoreKeeps /\ Worse
  BY <1>1, StoreIdle, MishapsIdle DEF history
<1>3. Cat(w) \in Cats
  BY <1>1, CatOK
<1>4. /\ lookup' = [v \in Workers |-> lookup'[v]]
      /\ \A v \in Workers \ {w} : lookup'[v] = lookup[v]
      /\ DOMAIN lookup'[w] = DOMAIN lookup[w] \cup {Cat(w)}
      /\ LookupOK(w)'
  BY <1>1, <1>2, <1>3, KnowOK
<1>5. /\ pc' \in [Workers -> Places] /\ at' \in [Workers -> Nat \ {0}]
      /\ found' \in [Workers -> Rows \cup {NoRow}] /\ made' \in [Workers -> Nat]
      /\ plan' = plan /\ order' = order /\ kept' = kept
      /\ pc'[w] = "next" /\ at'[w] = at[w] + 1 /\ found'[w] = NoRow /\ made'[w] = 0
      /\ \A v \in Workers \ {w} : /\ pc'[v] = pc[v] /\ at'[v] = at[v]
                                  /\ found'[v] = found[v] /\ made'[v] = made[v]
  BY <1>1, AdvanceOK
<1>6. TypeOK'
  BY <1>1, <1>4, <1>5 DEF TypeOK, history
<1>7. \A v \in Workers \ {w} : Same(v)
  BY <1>4, <1>5 DEF Same
<1>8. \A r \in own'[w] : For(r.cat, r.woo)'
  <2>1. \A d, m : For(d, m) => For(d, m)'
    BY <1>1, <1>2, ForKept
  <2>. QED  BY <1>1, <2>1 DEF Local, IdsOK
<1>9. Local(w)'
  <2>1. DOMAIN lookup[w] \subseteq DOMAIN lookup'[w] /\ Cat(w) \in DOMAIN lookup'[w]
    BY <1>4
  <2>. QED  BY <1>1, <1>2, <1>4, <1>6, <1>8, <2>1, AdvanceLocal
<1>10. ASSUME NEW p \in Cats, Clean(p), Single(p), Unmapped(w, p)
       PROVE  /\ \A m : Holds(w, p, m)' <=> Holds(w, p, m)
              /\ kept'[w].cat = p => Knows(p, kept'[w].woo)
              /\ found'[w].cat = p => Knows(p, found'[w].woo)
              /\ Unmapped(w, p)'
  <2>1. pc[w] = "new" => Cat(w) # p
    BY <1>10
  <2>2. \A m : Holds(w, p, m)' <=> Holds(w, p, m)
    BY <1>5, <2>1 DEF Holds
  <2>3. kept'[w].cat = p => Knows(p, kept'[w].woo)
    BY <1>5, <1>10 DEF Single
  <2>4. found'[w].cat # p
    BY <1>5, NoRowFacts
  <2>5. Unmapped(w, p)'
    BY <1>5 DEF Unmapped
  <2>. QED  BY <2>2, <2>3, <2>4, <2>5
<1>. QED  BY <1>6, <1>7, <1>9, <1>10, QuietInv

LEMMA SkipInv ==
    ASSUME CategoryAssumption, Inv, NEW w \in Workers, SkipUnchanged(w)
    PROVE  Inv'
<1>. DEFINE r == Mapping(w, Cat(w))
<1>1. /\ pc[w] = "next" /\ at[w] <= Len(order[w]) /\ r # NoRow /\ Know(w, Cat(w), r.woo)
      /\ Advance(w) /\ UNCHANGED <<odoo, store, mappings, own, nextId, history>>
  BY DEF SkipUnchanged
<1>2. Cat(w) \in Cats
  BY <1>1, CatOK DEF Inv
<1>3. For(Cat(w), r.woo)
  BY <1>1, <1>2, MappingOK DEF Inv
<1>. QED  BY <1>1, <1>3, LearnInv

LEMMA KeepRowInv ==
    ASSUME CategoryAssumption, Inv, NEW w \in Workers, KeepRow(w)
    PROVE  Inv'
<1>1. /\ pc[w] = "new" /\ Mapping(w, Cat(w)) # NoRow /\ Know(w, Cat(w), made[w])
      /\ Advance(w) /\ UNCHANGED <<odoo, store, mappings, own, nextId, history>>
  BY DEF KeepRow
<1>2. Local(w)
  BY DEF Inv
<1>3. at[w] <= Len(order[w]) /\ For(Cat(w), made[w]) /\ found[w] = NoRow
  BY <1>1, <1>2 DEF Local, PlaceOK, IdsOK
<1>4. ~Unmapped(w, Cat(w))
  <2>1. kept[w].cat = Cat(w) \/ \E r \in View(w) : r.cat = Cat(w)
    BY <1>1 DEF Mapping
  <2>2. kept[w].cat = Cat(w) \/ \E r \in mappings \cup own[w] : r.cat = Cat(w)
    BY <2>1 DEF View
  <2>. QED  BY <1>1, <1>3, <2>2 DEF Unmapped
<1>. QED  BY <1>1, <1>3, <1>4, LearnInv

LEMMA NeedsCallInv ==
    ASSUME CategoryAssumption, Inv, NEW w \in Workers, NeedsCall(w)
    PROVE  Inv'
<1>. DEFINE c == Cat(w)
            r == Mapping(w, c)
<1>1. /\ pc[w] = "next" /\ at[w] <= Len(order[w])
      /\ found' = [found EXCEPT ![w] = r]
      /\ pc' = [pc EXCEPT ![w] = "call"]
      /\ UNCHANGED <<odoo, store, mappings, own, plan, order, at, lookup, kept, made, nextId,
                     history>>
  BY DEF NeedsCall, Goto
<1>2. TypeOK /\ Local(w) /\ MappedOK
  BY DEF Inv
<1>3. c \in Cats
  BY <1>1, <1>2, CatOK
<1>4. /\ r \in Rows \cup {NoRow}
      /\ r # NoRow => r.cat = c /\ For(c, r.woo)
      /\ r = NoRow => kept[w].cat # c /\ \A s \in mappings \cup own[w] : s.cat # c
      /\ Single(c) /\ r # NoRow => Knows(c, r.woo)
  BY <1>2, <1>3, MappingOK
<1>5. Cat(w)' = c
  BY <1>1 DEF Cat
<1>. HIDE DEF c, r
<1>6. StoreKeeps /\ Worse
  BY <1>1, <1>2, StoreIdle, MishapsIdle DEF history
<1>7. /\ found'[w] = r /\ found' \in [Workers -> Rows \cup {NoRow}]
      /\ \A v \in Workers \ {w} : found'[v] = found[v]
  BY <1>1, <1>2, <1>4 DEF TypeOK
<1>8. /\ pc'[w] = "call" /\ pc' \in [Workers -> Places]
      /\ \A v \in Workers \ {w} : pc'[v] = pc[v]
  BY <1>1, <1>2 DEF TypeOK, Places
<1>9. TypeOK'
  BY <1>1, <1>2, <1>7, <1>8 DEF TypeOK, history
<1>10. \A v \in Workers \ {w} : Same(v)
  BY <1>1, <1>7, <1>8 DEF Same
<1>11. Local(w)'
  <2>1. PlanOK(w)' /\ OrderOK(w)'
    BY <1>1, <1>2, <1>6, <1>9, PlanKept DEF Local, OrderOK
  <2>2. PlaceOK(w)'
    BY <1>1, <1>4, <1>5, <1>7, <1>8 DEF PlaceOK
  <2>3. IdsOK(w)'
    <3>1. \A d, n : For(d, n) => For(d, n)'
      BY <1>2, <1>6, ForKept
    <3>2. \A s \in own'[w] : For(s.cat, s.woo)'
      BY <1>1, <1>2, <3>1 DEF Local, IdsOK
    <3>3. kept'[w] # NoRow => For(kept[w].cat, kept[w].woo)'
      BY <1>1, <1>2, <3>1 DEF Local, IdsOK
    <3>4. found'[w] # NoRow => For(found[w].cat, found[w].woo)'
      BY <1>4, <1>7, <3>1
    <3>5. LookupOK(w)'
      BY <1>1, <1>2, <1>6, LookupKept
    <3>. QED  BY <1>8, <3>2, <3>3, <3>4, <3>5 DEF IdsOK, LookupOK
  <2>4. Processed(w)'
    BY <1>1, <1>2, <1>8 DEF Local, Processed, history
  <2>. QED  BY <2>1, <2>2, <2>3, <2>4 DEF Local
<1>12. ASSUME NEW p \in Cats, Single(p)
       PROVE  /\ \A n : Holds(w, p, n)' <=> Holds(w, p, n)
              /\ kept'[w].cat = p => Knows(p, kept'[w].woo)
              /\ found'[w].cat = p => Knows(p, found'[w].woo)
              /\ Unmapped(w, p)'
  <2>1. \A n : Holds(w, p, n)' <=> Holds(w, p, n)
    BY <1>1, <1>8 DEF Holds
  <2>2. kept'[w].cat = p => Knows(p, kept'[w].woo)
    BY <1>1, <1>12 DEF Single
  <2>3. found'[w].cat = p => Knows(p, found'[w].woo)
    BY <1>4, <1>7, <1>12, NoRowFacts
  <2>4. Unmapped(w, p)'
    BY <1>1, <1>4, <1>5, <1>7 DEF Unmapped
  <2>. QED  BY <2>1, <2>2, <2>3, <2>4
<1>. QED  BY <1>1, <1>9, <1>10, <1>11, <1>12, QuietInv

LEMMA PlacedSame ==
    ASSUME Worse, \A n \in DOMAIN store : n \in DOMAIN store' /\ store'[n].cat = store[n].cat,
           NEW p \in Cats \cup {Root}, NEW a, Placed(p, a)
    PROVE  Placed(p, a)'
<1>1. p # Root => mishaps[p] \subseteq mishaps'[p]
  BY DEF Worse
<1>. QED  BY <1>1 DEF Placed

\* The parent a run gives a category is where its parent is, or something has
\* happened to that: parents come first.
LEMMA WooParentOK ==
    ASSUME CategoryAssumption, TypeOK, NEW w \in Workers, Local(w), pc[w] = "call",
           WooParent(w) \in DOMAIN store \cup {0}
    PROVE  WooParent(w) \in Nat /\ Placed(plan[w][Cat(w)].parent, WooParent(w))
<1>. DEFINE p == plan[w][Cat(w)].parent
<1>1. at[w] \in 1..Len(order[w]) /\ Cat(w) \in DOMAIN plan[w] /\ p \in Cats \cup {Root}
      /\ at[w] \in Nat
  BY CatOK DEF Local, PlaceOK
<1>2. WooParent(w) = IF p \in DOMAIN lookup[w] THEN lookup[w][p] ELSE 0
  BY DEF WooParent
<1>3. p = Root \/ p \in DOMAIN plan[w] \/ mishaps[p] # {}
  BY <1>1 DEF Local, PlanOK
<1>4. ParentsFirst(plan[w], order[w]) /\ Cat(w) = order[w][at[w]]
  BY DEF Local, OrderOK, Cat
<1>5. p \in DOMAIN plan[w] => p \in DOMAIN lookup[w] \/ mishaps[p] # {}
  <2>. SUFFICES ASSUME p \in DOMAIN plan[w] PROVE p \in DOMAIN lookup[w] \/ mishaps[p] # {}
    OBVIOUS
  <2>1. PICK j \in 1..Len(order[w]) : j < at[w] /\ order[w][j] = p
    BY <1>1, <1>4 DEF ParentsFirst
  <2>. HIDE DEF p
  <2>. QED  BY <2>1 DEF Local, Processed
<1>6. DOMAIN lookup[w] \subseteq Cats /\ \A c \in DOMAIN lookup[w] : For(c, lookup[w][c])
  BY DEF Local, IdsOK
<1>. HIDE DEF p
<1>7. CASE p \in DOMAIN lookup[w]
  <2>1. For(p, WooParent(w)) /\ p # Root
    BY <1>2, <1>6, <1>7 DEF CategoryAssumption
  <2>2. WooParent(w) \in 1..(nextId - 1)
    BY <2>1 DEF For
  <2>3. nextId \in Nat
    BY DEF TypeOK
  <2>4. WooParent(w) \in Nat /\ WooParent(w) # 0
    BY <2>2, <2>3
  <2>5. WooParent(w) \in DOMAIN store /\ store[WooParent(w)].cat = p
    BY <2>1, <2>4 DEF For
  <2>. QED  BY <2>1, <2>4, <2>5 DEF Placed, p
<1>8. CASE p \notin DOMAIN lookup[w]
  <2>1. WooParent(w) = 0
    BY <1>2, <1>8
  <2>2. p = Root \/ mishaps[p] # {}
    BY <1>3, <1>5, <1>8
  <2>. QED  BY <2>1, <2>2 DEF Placed, p
<1>. QED  BY <1>7, <1>8

\* create_category and update_category change no category of the store into one of
\* another, and put this one where its parent is known to be.
LEMMA StoreWritesOK ==
    ASSUME CategoryAssumption, Inv, NEW w \in Workers, pc[w] = "call", Accepted(w),
           StoreWrites(w), Worse
    PROVE  /\ StoreKeeps
           /\ store' \in [DOMAIN store' -> [cat : Cats, name : Names, parent : Nat,
                                            meant : Cats \cup {Root}]]
           /\ nextId' \in Nat \ {0}
           /\ DOMAIN store' \subseteq 1..(nextId' - 1)
           /\ PlacedOK'
           /\ \A n \in DOMAIN store' :
                  \/ n \in DOMAIN store /\ store'[n].cat = store[n].cat
                  \/ found[w] = NoRow /\ n = nextId /\ store'[n].cat = Cat(w)
           /\ found[w] = NoRow => /\ nextId' = nextId + 1 /\ nextId \in DOMAIN store'
                                  /\ store'[nextId].cat = Cat(w)
<1>. DEFINE id == IF found[w] = NoRow THEN nextId ELSE found[w].woo
            term == [cat |-> Cat(w), name |-> plan[w][Cat(w)].name,
                     parent |-> WooParent(w), meant |-> plan[w][Cat(w)].parent]
            Terms == [cat : Cats, name : Names, parent : Nat, meant : Cats \cup {Root}]
<1>1. TypeOK /\ Local(w) /\ PlacedOK
  BY DEF Inv
<1>2. /\ Cat(w) \in Cats /\ plan[w][Cat(w)].name \in Names
      /\ plan[w][Cat(w)].parent \in Cats \cup {Root}
  BY <1>1, CatOK DEF Local, PlaceOK
<1>3. WooParent(w) \in Nat /\ Placed(plan[w][Cat(w)].parent, WooParent(w))
  BY <1>1, WooParentOK DEF Accepted
<1>4. term \in Terms
  BY <1>2, <1>3
<1>5. store' = [m \in DOMAIN store \cup {id} |-> IF m = id THEN term ELSE store[m]]
      /\ nextId' = IF found[w] = NoRow THEN nextId + 1 ELSE nextId
  BY DEF StoreWrites
<1>6. nextId \in Nat \ {0} /\ DOMAIN store \subseteq 1..(nextId - 1)
      /\ store \in [DOMAIN store -> Terms]
  BY <1>1 DEF TypeOK
<1>7. term.cat = Cat(w) /\ term.meant = plan[w][Cat(w)].parent /\ term.parent = WooParent(w)
  OBVIOUS
<1>8. id \in DOMAIN store => store[id].cat = Cat(w)
  <2>1. CASE found[w] = NoRow
    <3>1. nextId \notin 1..(nextId - 1)
      BY <1>6
    <3>. QED  BY <1>6, <2>1, <3>1
  <2>2. CASE found[w] # NoRow
    <3>1. found[w].cat = Cat(w) /\ For(found[w].cat, found[w].woo)
      BY <1>1, <2>2 DEF Local, PlaceOK, IdsOK
    <3>. QED  BY <2>2, <3>1 DEF For
  <2>. QED  BY <2>1, <2>2
<1>9. found[w] # NoRow => id \in DOMAIN store
  BY DEF Accepted
<1>. HIDE DEF term, Terms
<1>10. DOMAIN store' = DOMAIN store \cup {id}
       /\ \A m \in DOMAIN store' : store'[m] = IF m = id THEN term ELSE store[m]
  BY <1>5
<1>11. store' \in [DOMAIN store' -> Terms]
  <2>1. \A m \in DOMAIN store' : store'[m] \in Terms
    BY <1>4, <1>6, <1>10
  <2>2. store' = [m \in DOMAIN store' |-> store'[m]]
    <3>. HIDE DEF id
    <3>. QED  BY <1>5
  <2>. QED  BY <2>1, <2>2
<1>12. \A n \in DOMAIN store' :
           \/ n \in DOMAIN store /\ store'[n].cat = store[n].cat
           \/ found[w] = NoRow /\ n = nextId /\ store'[n].cat = Cat(w)
  <2>. SUFFICES ASSUME NEW n \in DOMAIN store'
                PROVE  \/ n \in DOMAIN store /\ store'[n].cat = store[n].cat
                       \/ found[w] = NoRow /\ n = nextId /\ store'[n].cat = Cat(w)
    OBVIOUS
  <2>1. CASE n = id
    <3>1. store'[n].cat = Cat(w)
      BY <1>7, <1>10, <2>1
    <3>. QED  BY <1>8, <1>9, <2>1, <3>1
  <2>2. CASE n # id
    BY <1>10, <2>2
  <2>. QED  BY <2>1, <2>2
<1>13. \A n \in DOMAIN store : n \in DOMAIN store' /\ store'[n].cat = store[n].cat
  <2>. SUFFICES ASSUME NEW n \in DOMAIN store
                PROVE  n \in DOMAIN store' /\ store'[n].cat = store[n].cat
    OBVIOUS
  <2>1. CASE n = id
    BY <1>7, <1>8, <1>10, <2>1
  <2>2. CASE n # id
    BY <1>10, <2>2
  <2>. QED  BY <2>1, <2>2
<1>14. found[w] = NoRow => nextId' = nextId + 1 /\ nextId \in DOMAIN store' /\ store'[nextId].cat = Cat(w)
  BY <1>5, <1>7, <1>10
<1>15. nextId' \in Nat \ {0} /\ nextId' >= nextId /\ DOMAIN store' \subseteq 1..(nextId' - 1)
  <2>1. CASE found[w] = NoRow
    <3>1. \A m \in 1..(nextId - 1) : m \in 1..((nextId + 1) - 1)
      BY <1>6
    <3>2. nextId \in 1..((nextId + 1) - 1) /\ nextId + 1 \in Nat \ {0} /\ nextId + 1 >= nextId
      BY <1>6
    <3>3. DOMAIN store' \subseteq 1..((nextId + 1) - 1)
      BY <1>6, <1>10, <2>1, <3>1, <3>2
    <3>. QED  BY <1>14, <2>1, <3>2, <3>3
  <2>2. CASE found[w] # NoRow
    <3>1. nextId' = nextId /\ DOMAIN store' \subseteq DOMAIN store /\ nextId >= nextId
      BY <1>5, <1>6, <1>9, <1>10, <2>2
    <3>. QED  BY <1>6, <3>1
  <2>. QED  BY <2>1, <2>2
<1>16. StoreKeeps
  <2>1. ASSUME NEW n \in DOMAIN store', n < nextId
        PROVE  n \in DOMAIN store /\ store'[n].cat = store[n].cat
    <3>1. n # nextId
      BY <1>6, <2>1
    <3>. QED  BY <1>12, <3>1
  <2>. QED  BY <1>15, <2>1 DEF StoreKeeps
<1>17. PlacedOK'
  <2>1. \A p \in Cats \cup {Root} : \A a : Placed(p, a) => Placed(p, a)'
    BY <1>13, PlacedSame
  <2>2. ASSUME NEW m \in DOMAIN store'
        PROVE  Placed(store[m].meant, store[m].parent)'
    <3>1. CASE m = id
      <4>1. store'[m].meant = plan[w][Cat(w)].parent /\ store'[m].parent = WooParent(w)
        BY <1>7, <1>10, <3>1
      <4>. QED  BY <1>2, <1>3, <2>1, <4>1
    <3>2. CASE m # id
      <4>1. m \in DOMAIN store /\ store'[m] = store[m]
        BY <1>10, <3>2
      <4>2. store[m].meant \in Cats \cup {Root} /\ Placed(store[m].meant, store[m].parent)
        BY <1>1, <1>6, <4>1 DEF PlacedOK, Terms
      <4>. QED  BY <2>1, <4>1, <4>2
    <3>. QED  BY <3>1, <3>2
  <2>. QED  BY <2>2 DEF PlacedOK
<1>. QED  BY <1>11, <1>12, <1>14, <1>15, <1>16, <1>17 DEF Terms

LEMMA FailedWorse ==
    ASSUME TypeOK, NEW w \in Workers, Cat(w) \in Cats, NEW kind \in Kinds, Failed(w, kind)
    PROVE  /\ Worse /\ mishaps' \in [Cats -> SUBSET Kinds] /\ mishaps'[Cat(w)] # {}
           /\ Advance(w) /\ own' = own /\ lookup' = lookup
<1>1. mishaps' = [mishaps EXCEPT ![Cat(w)] = @ \cup {kind}] /\ mishaps \in [Cats -> SUBSET Kinds]
  BY DEF TypeOK, Failed
<1>2. mishaps' \in [Cats -> SUBSET Kinds] /\ kind \in mishaps'[Cat(w)]
      /\ \A c \in Cats : mishaps[c] \subseteq mishaps'[c]
  BY <1>1
<1>. QED  BY <1>2 DEF Failed, Worse

\* A refused or a lost call: nothing is known of the category, and the loop goes on.
LEMMA FailedInv ==
    ASSUME CategoryAssumption, Inv, NEW w \in Workers, pc[w] = "call",
           NEW kind \in Kinds, Failed(w, kind), UNCHANGED <<odoo, mappings, overlapped>>,
           StoreKeeps,
           store' \in [DOMAIN store' -> [cat : Cats, name : Names, parent : Nat,
                                         meant : Cats \cup {Root}]],
           nextId' \in Nat \ {0},
           DOMAIN store' \subseteq 1..(nextId' - 1),
           PlacedOK',
           \A n \in DOMAIN store' :
               \/ n \in DOMAIN store /\ store'[n].cat = store[n].cat
               \/ store'[n].cat = Cat(w)
    PROVE  Inv'
<1>1. TypeOK /\ Local(w) /\ at[w] <= Len(order[w])
  BY DEF Inv, Local, PlaceOK
<1>2. Cat(w) \in Cats
  BY <1>1, CatOK
<1>3. /\ Worse /\ mishaps' \in [Cats -> SUBSET Kinds] /\ mishaps'[Cat(w)] # {}
      /\ Advance(w) /\ own' = own /\ lookup' = lookup
  BY <1>1, <1>2, FailedWorse
<1>4. /\ pc' \in [Workers -> Places] /\ at' \in [Workers -> Nat \ {0}]
      /\ found' \in [Workers -> Rows \cup {NoRow}] /\ made' \in [Workers -> Nat]
      /\ plan' = plan /\ order' = order /\ kept' = kept
      /\ pc'[w] = "next" /\ at'[w] = at[w] + 1 /\ found'[w] = NoRow /\ made'[w] = 0
      /\ \A v \in Workers \ {w} : /\ pc'[v] = pc[v] /\ at'[v] = at[v]
                                  /\ found'[v] = found[v] /\ made'[v] = made[v]
  BY <1>1, <1>3, AdvanceOK
<1>5. TypeOK'
  BY <1>1, <1>3, <1>4 DEF TypeOK
<1>6. \A v \in Workers \ {w} : Same(v)
  BY <1>3, <1>4 DEF Same
<1>7. \A r \in own'[w] : For(r.cat, r.woo)'
  <2>1. \A d, m : For(d, m) => For(d, m)'
    BY <1>1, ForKept
  <2>. QED  BY <1>1, <1>3, <2>1 DEF Local, IdsOK
<1>8. Local(w)'
  <2>1. LookupOK(w)' /\ DOMAIN lookup[w] \subseteq DOMAIN lookup'[w]
    BY <1>1, <1>3, LookupKept
  <2>. QED  BY <1>1, <1>3, <1>5, <1>7, <2>1, AdvanceLocal
<1>9. MappedOK' /\ Acyclic(odoo)'
  BY <1>1, MappedKept DEF Inv, Acyclic
<1>10. Alone'
  <2>1. \A v \in Workers : pc'[v] # "idle" => pc[v] # "idle"
    BY <1>4
  <2>. QED  BY <2>1, AloneKept DEF Inv
<1>11. CleanOK'
  <2>1. ASSUME NEW p \in Cats, Clean(p), Clean(p)'
        PROVE  /\ \A n : Knows(p, n)' <=> Knows(p, n)
               /\ \A n \in DOMAIN store' :
                      store'[n].cat = p => Knows(p, n) \/ (n \in DOMAIN store /\ store[n].cat = p)
               /\ kept'[w].cat = p => Knows(p, kept'[w].woo)
               /\ found'[w].cat = p => Knows(p, found'[w].woo)
               /\ Unmapped(w, p)'
               /\ \A v \in Workers \ {w} : Unmapped(v, p)'
    <3>1. Single(p) /\ \A v \in Workers : Unmapped(v, p)
      BY <2>1 DEF Inv, CleanOK
    <3>2. p # Cat(w)
      BY <1>3, <2>1 DEF Clean
    <3>3. \A n : Holds(w, p, n)' <=> Holds(w, p, n)
      BY <1>3, <1>4 DEF Holds
    <3>4. \A n : Knows(p, n)' <=> Knows(p, n)
      BY <1>6, <3>3, KnowsKept
    <3>5. \A n \in DOMAIN store' : store'[n].cat = p => n \in DOMAIN store /\ store[n].cat = p
      BY <3>2
    <3>6. kept'[w].cat = p => Knows(p, kept'[w].woo)
      BY <1>4, <3>1 DEF Single
    <3>7. found'[w].cat # p
      BY <1>4, NoRowFacts
    <3>8. Unmapped(w, p)'
      BY <1>4 DEF Unmapped
    <3>9. \A v \in Workers \ {w} : Unmapped(v, p)'
      BY <1>6, <3>1, UnmappedKept
    <3>. QED  BY <3>4, <3>5, <3>6, <3>7, <3>8, <3>9
  <2>. QED  BY <1>1, <1>3, <1>6, <2>1, CleanKept DEF Inv
<1>. QED  BY <1>3, <1>5, <1>6, <1>8, <1>9, <1>10, <1>11, InvKept

LEMMA RejectedInv ==
    ASSUME CategoryAssumption, Inv, NEW w \in Workers, CallRejected(w) \/ CallRefused(w)
    PROVE  Inv'
<1>1. /\ pc[w] = "call" /\ Failed(w, "refused") /\ "refused" \in Kinds
      /\ UNCHANGED <<odoo, store, mappings, nextId, overlapped>>
  BY DEF CallRejected, CallRefused, Kinds
<1>2. TypeOK /\ StoreKeeps
  BY <1>1, StoreIdle DEF Inv
<1>3. Worse
  <2>1. Cat(w) \in Cats
    BY <1>1, CatOK DEF Inv, Local, PlaceOK
  <2>. QED  BY <1>1, <1>2, <2>1, FailedWorse
<1>4. PlacedOK'
  BY <1>1, <1>3, PlacedKept DEF Inv
<1>5. /\ store' \in [DOMAIN store' -> [cat : Cats, name : Names, parent : Nat,
                                       meant : Cats \cup {Root}]]
      /\ nextId' \in Nat \ {0}
      /\ DOMAIN store' \subseteq 1..(nextId' - 1)
  BY <1>1, <1>2 DEF TypeOK
<1>6. \A n \in DOMAIN store' : n \in DOMAIN store /\ store'[n].cat = store[n].cat
  BY <1>1
<1>. QED  BY <1>1, <1>2, <1>4, <1>5, <1>6, FailedInv

LEMMA LostInv ==
    ASSUME CategoryAssumption, Inv, NEW w \in Workers, AnswerLost(w)
    PROVE  Inv'
<1>1. /\ pc[w] = "call" /\ Failed(w, "lost") /\ "lost" \in Kinds
      /\ Accepted(w) /\ StoreWrites(w) /\ UNCHANGED <<odoo, mappings, overlapped>>
  BY DEF AnswerLost, Kinds
<1>2. Worse
  <2>1. Cat(w) \in Cats
    BY <1>1, CatOK DEF Inv, Local, PlaceOK
  <2>. QED  BY <1>1, <2>1, FailedWorse DEF Inv
<1>3. /\ StoreKeeps
      /\ store' \in [DOMAIN store' -> [cat : Cats, name : Names, parent : Nat,
                                       meant : Cats \cup {Root}]]
      /\ nextId' \in Nat \ {0}
      /\ DOMAIN store' \subseteq 1..(nextId' - 1)
      /\ PlacedOK'
      /\ \A n \in DOMAIN store' :
             \/ n \in DOMAIN store /\ store'[n].cat = store[n].cat
             \/ found[w] = NoRow /\ n = nextId /\ store'[n].cat = Cat(w)
  BY <1>1, <1>2, StoreWritesOK
<1>. QED  BY <1>1, <1>3, FailedInv

LEMMA CallInv ==
    ASSUME CategoryAssumption, Inv, NEW w \in Workers, Call(w)
    PROVE  Inv'
<1>. DEFINE new == found[w] = NoRow
<1>1. /\ pc[w] = "call" /\ Accepted(w) /\ StoreWrites(w)
      /\ made' = [made EXCEPT ![w] = IF new THEN nextId ELSE 0]
      /\ pc' = [pc EXCEPT ![w] = IF new THEN "new" ELSE "changed"]
      /\ UNCHANGED <<odoo, mappings, own, plan, order, at, lookup, kept, found, history>>
  BY DEF Call, Goto
<1>2. TypeOK /\ Local(w) /\ at[w] <= Len(order[w])
  BY <1>1 DEF Inv, Local, PlaceOK
<1>3. Cat(w) \in Cats
  BY <1>2, CatOK
<1>4. Worse
  BY <1>1, MishapsIdle DEF history
<1>5. /\ StoreKeeps
      /\ store' \in [DOMAIN store' -> [cat : Cats, name : Names, parent : Nat,
                                       meant : Cats \cup {Root}]]
      /\ nextId' \in Nat \ {0}
      /\ DOMAIN store' \subseteq 1..(nextId' - 1)
      /\ PlacedOK'
      /\ \A n \in DOMAIN store' :
             \/ n \in DOMAIN store /\ store'[n].cat = store[n].cat
             \/ new /\ n = nextId /\ store'[n].cat = Cat(w)
      /\ new => /\ nextId' = nextId + 1 /\ nextId \in DOMAIN store'
                /\ store'[nextId].cat = Cat(w)
  BY <1>1, <1>4, StoreWritesOK
<1>6. Cat(w)' = Cat(w)
  BY <1>1 DEF Cat
<1>. HIDE DEF new
<1>7. /\ pc'[w] = (IF new THEN "new" ELSE "changed") /\ pc' \in [Workers -> Places]
      /\ \A v \in Workers \ {w} : pc'[v] = pc[v]
  BY <1>1, <1>2 DEF TypeOK, Places
<1>8. /\ made'[w] = (IF new THEN nextId ELSE 0) /\ made' \in [Workers -> Nat]
      /\ \A v \in Workers \ {w} : made'[v] = made[v]
  BY <1>1, <1>2 DEF TypeOK
<1>9. TypeOK'
  BY <1>1, <1>2, <1>5, <1>7, <1>8 DEF TypeOK, history
<1>10. \A v \in Workers \ {w} : Same(v)
  BY <1>1, <1>7, <1>8 DEF Same
<1>11. Local(w)'
  <2>1. PlanOK(w)' /\ OrderOK(w)'
    BY <1>1, <1>2, <1>4, <1>9, PlanKept DEF Local, OrderOK
  <2>2. PlaceOK(w)'
    <3>1. found[w] # NoRow => found[w].cat = Cat(w)
      BY <1>2 DEF Local, PlaceOK
    <3>2. at'[w] <= Len(order'[w]) /\ found'[w] = found[w]
      BY <1>1, <1>2
    <3>3. pc'[w] # "idle" /\ (found[w] # NoRow => pc'[w] = "changed")
          /\ (pc'[w] = "changed" => found[w] # NoRow)
      BY <1>7 DEF new
    <3>. QED  BY <1>6, <3>1, <3>2, <3>3 DEF PlaceOK
  <2>3. IdsOK(w)'
    <3>1. \A d, n : For(d, n) => For(d, n)'
      BY <1>2, <1>5, ForKept
    <3>2. \A s \in own'[w] : For(s.cat, s.woo)'
      BY <1>1, <1>2, <3>1 DEF Local, IdsOK
    <3>3. kept'[w] # NoRow => For(kept[w].cat, kept[w].woo)'
      BY <1>1, <1>2, <3>1 DEF Local, IdsOK
    <3>4. found'[w] # NoRow => For(found[w].cat, found[w].woo)'
      BY <1>1, <1>2, <3>1 DEF Local, IdsOK
    <3>5. LookupOK(w)'
      BY <1>1, <1>2, <1>5, LookupKept
    <3>6. pc'[w] \in {"new", "insert"} => For(Cat(w), made[w])'
      <4>. SUFFICES ASSUME new PROVE For(Cat(w), made[w])'
        BY <1>7
      <4>1. made'[w] = nextId /\ nextId \in DOMAIN store' /\ store'[nextId].cat = Cat(w)
        BY <1>5, <1>8
      <4>2. nextId \in 1..(nextId' - 1)
        BY <1>5, <4>1
      <4>. QED  BY <1>6, <4>1, <4>2 DEF For
    <3>. QED  BY <3>2, <3>3, <3>4, <3>5, <3>6 DEF IdsOK, LookupOK
  <2>4. Processed(w)'
    <3>1. pc[w] \notin {"idle", "read"}
      BY <1>1
    <3>. QED  BY <1>1, <1>2, <3>1 DEF Local, Processed, history
  <2>. QED  BY <2>1, <2>2, <2>3, <2>4 DEF Local
<1>12. MappedOK' /\ Acyclic(odoo)'
  BY <1>1, <1>2, <1>5, MappedKept DEF Inv, Acyclic
<1>13. Alone'
  <2>1. \A v \in Workers : pc'[v] # "idle" => pc[v] # "idle"
    BY <1>1, <1>7
  <2>. QED  BY <1>1, <2>1, AloneKept DEF Inv, history
<1>14. ASSUME NEW p \in Cats, Clean(p)'
       PROVE  Single(p)' /\ \A v \in Workers : Unmapped(v, p)'
  <2>1. Clean(p)
    BY <1>1, <1>14 DEF Clean, history
  <2>2. Single(p) /\ \A v \in Workers : Unmapped(v, p)
    BY <2>1 DEF Inv, CleanOK
  <2>3. \A v \in Workers \ {w} : Unmapped(v, p)'
    BY <1>1, <1>10, <2>2, UnmappedKept
  <2>4. Unmapped(w, p)'
    <3>1. Unmapped(w, p)
      BY <2>2
    <3>2. kept'[w] = kept[w] /\ found'[w] = found[w] /\ own'[w] = own[w] /\ mappings' = mappings
      BY <1>1
    <3>. QED  BY <1>1, <1>6, <3>1, <3>2 DEF Unmapped
  <2>5. CASE ~(new /\ p = Cat(w))
    <3>1. \A n : Holds(w, p, n)' <=> Holds(w, p, n)
      BY <1>1, <1>6, <1>7, <2>5 DEF Holds
    <3>2. \A n : Knows(p, n)' <=> Knows(p, n)
      BY <1>1, <1>10, <3>1, KnowsKept
    <3>3. \A n \in DOMAIN store' : store'[n].cat = p => n \in DOMAIN store /\ store[n].cat = p
      BY <1>5, <2>5
    <3>4. /\ kept'[w].cat = p => Knows(p, kept'[w].woo)
          /\ found'[w].cat = p => Knows(p, found'[w].woo)
      BY <1>1, <2>2 DEF Single
    <3>. QED  BY <1>10, <2>2, <2>3, <2>4, <3>2, <3>3, <3>4, CleanOne
  <2>6. CASE new /\ p = Cat(w)
    <3>1. \A r \in mappings \cup own[w] : r.cat # p
      BY <1>1, <2>2, <2>6 DEF Unmapped, new
    <3>2. \A v \in Workers \ {w} : pc[v] = "idle" /\ own[v] = {}
      <4>1. \A v \in Workers \ {w} : pc[v] = "idle"
        BY <1>1, <2>1 DEF Clean, Inv, Alone
      <4>. QED  BY <4>1 DEF Inv, Local, PlaceOK
    <3>3. \A n : ~Knows(p, n)
      <4>1. \A n : \A v \in Workers \ {w} : ~Holds(v, p, n)
        BY <3>2 DEF Holds
      <4>2. \A n : ~Holds(w, p, n)
        BY <1>1, <3>1 DEF Holds
      <4>. QED  BY <3>1, <4>1, <4>2 DEF Knows
    <3>4. \A n : Knows(p, n)' <=> n = nextId
      <4>1. \A n : \A v \in Workers \ {w} : ~Holds(v, p, n)'
        BY <1>10, <3>2 DEF Holds, Same
      <4>2. \A n : Holds(w, p, n)' <=> n = nextId
        BY <1>1, <1>6, <1>7, <1>8, <2>6, <3>1 DEF Holds
      <4>3. \A r \in mappings' : r.cat # p
        BY <1>1, <3>1
      <4>. QED  BY <4>1, <4>2, <4>3 DEF Knows
    <3>5. \A n \in DOMAIN store' : store'[n].cat = p => Knows(p, n)'
      BY <1>5, <2>2, <3>3, <3>4 DEF Single
    <3>6. \A v \in Workers : kept'[v].cat # p /\ found'[v].cat # p
      BY <1>1, <2>2, <3>3 DEF Single
    <3>7. Single(p)'
      BY <3>4, <3>5, <3>6 DEF Single
    <3>. QED  BY <2>3, <2>4, <3>7
  <2>. QED  BY <2>5, <2>6
<1>15. CleanOK'
  BY <1>14 DEF CleanOK
<1>. QED  BY <1>4, <1>5, <1>9, <1>10, <1>11, <1>12, <1>13, <1>15, InvKept

\* A run flushes a row of the category in hand, and goes on.
LEMMA SaveInv ==
    ASSUME CategoryAssumption, Inv, NEW w \in Workers, pc[w] \in {"new", "insert", "changed"},
           NEW n \in Nat, For(Cat(w), n),
           own' = [own EXCEPT ![w] = @ \cup {Row(Cat(w), n, plan[w][Cat(w)].name)}],
           Know(w, Cat(w), n), Advance(w),
           UNCHANGED <<odoo, store, mappings, nextId, history>>,
           pc[w] \in {"new", "insert"} => made[w] = n,
           Single(Cat(w)) => Knows(Cat(w), n)
    PROVE  Inv'
<1>. DEFINE c == Cat(w)
            row == Row(c, n, plan[w][c].name)
<1>1. TypeOK /\ Local(w) /\ at[w] <= Len(order[w])
  BY DEF Inv, Local, PlaceOK
<1>2. c \in Cats /\ plan[w][c].name \in Names
  BY <1>1, CatOK
<1>3. row \in Rows /\ row.cat = c /\ row.woo = n
  BY <1>2 DEF Row, Rows
<1>4. own'[w] = own[w] \cup {row} /\ own' \in [Workers -> SUBSET Rows]
      /\ \A v \in Workers \ {w} : own'[v] = own[v]
  <2>. HIDE DEF row
  <2>1. own' = [own EXCEPT ![w] = @ \cup {row}] /\ own \in [Workers -> SUBSET Rows]
    BY <1>1 DEF TypeOK, row
  <2>2. own[w] \cup {row} \in SUBSET Rows
    BY <1>3, <2>1
  <2>. QED  BY <2>1, <2>2
<1>5. Know(w, c, n) /\ For(c, n) /\ (Single(c) => Knows(c, n))
  OBVIOUS
<1>. HIDE DEF row
<1>6. StoreKeeps /\ Worse
  BY <1>1, StoreIdle, MishapsIdle DEF history
<1>7. /\ lookup' = [v \in Workers |-> lookup'[v]]
      /\ \A v \in Workers \ {w} : lookup'[v] = lookup[v]
      /\ DOMAIN lookup'[w] = DOMAIN lookup[w] \cup {c}
      /\ LookupOK(w)'
  BY <1>1, <1>2, <1>5, <1>6, KnowOK
<1>8. /\ pc' \in [Workers -> Places] /\ at' \in [Workers -> Nat \ {0}]
      /\ found' \in [Workers -> Rows \cup {NoRow}] /\ made' \in [Workers -> Nat]
      /\ plan' = plan /\ order' = order /\ kept' = kept
      /\ pc'[w] = "next" /\ at'[w] = at[w] + 1 /\ found'[w] = NoRow /\ made'[w] = 0
      /\ \A v \in Workers \ {w} : /\ pc'[v] = pc[v] /\ at'[v] = at[v]
                                  /\ found'[v] = found[v] /\ made'[v] = made[v]
  BY <1>1, AdvanceOK
<1>9. TypeOK'
  BY <1>1, <1>4, <1>7, <1>8 DEF TypeOK, history
<1>10. \A v \in Workers \ {w} : Same(v)
  BY <1>4, <1>7, <1>8 DEF Same
<1>11. \A r \in own'[w] : For(r.cat, r.woo)'
  <2>1. \A d, m : For(d, m) => For(d, m)'
    BY <1>1, <1>6, ForKept
  <2>2. \A r \in own'[w] : For(r.cat, r.woo)
    BY <1>1, <1>3, <1>4, <1>5 DEF Local, IdsOK
  <2>. QED  BY <2>1, <2>2
<1>12. Local(w)'
  <2>1. DOMAIN lookup[w] \subseteq DOMAIN lookup'[w] /\ Cat(w) \in DOMAIN lookup'[w]
    BY <1>7
  <2>. QED  BY <1>1, <1>6, <1>7, <1>9, <1>11, <2>1, AdvanceLocal
<1>13. MappedOK' /\ PlacedOK' /\ Acyclic(odoo)'
  BY <1>1, <1>6, MappedKept, PlacedKept DEF Inv, Acyclic
<1>14. Alone'
  <2>1. \A v \in Workers : pc'[v] # "idle" => pc[v] # "idle"
    BY <1>8
  <2>. QED  BY <2>1, AloneKept DEF Inv, history
<1>15. CleanOK'
  <2>1. ASSUME NEW p \in Cats, Clean(p)
        PROVE  /\ \A m : Knows(p, m)' <=> Knows(p, m)
               /\ \A m \in DOMAIN store' :
                      store'[m].cat = p => Knows(p, m) \/ (m \in DOMAIN store /\ store[m].cat = p)
               /\ kept'[w].cat = p => Knows(p, kept'[w].woo)
               /\ found'[w].cat = p => Knows(p, found'[w].woo)
               /\ Unmapped(w, p)'
               /\ \A v \in Workers \ {w} : Unmapped(v, p)'
    <3>1. Single(p) /\ \A v \in Workers : Unmapped(v, p)
      BY <2>1 DEF Inv, CleanOK
    <3>2. \A m : Holds(w, p, m)' <=> (\E r \in own[w] : r.cat = p /\ r.woo = m) \/ (p = c /\ m = n)
      BY <1>3, <1>4, <1>8 DEF Holds
    <3>3. \A m : Knows(p, m)' <=> Knows(p, m)
      <4>1. CASE p # c
        <5>1. \A m : Holds(w, p, m)' <=> Holds(w, p, m)
          BY <3>2, <4>1 DEF Holds
        <5>. QED  BY <1>10, <5>1, KnowsKept
      <4>2. CASE p = c
        <5>1. Knows(p, n)
          BY <1>5, <3>1, <4>2
        <5>2. \A m : Holds(w, p, m) => Holds(w, p, m)'
          BY <3>2, <4>2 DEF Holds
        <5>3. \A m : Holds(w, p, m)' => Holds(w, p, m) \/ m = n
          BY <3>2 DEF Holds
        <5>4. \A v \in Workers \ {w} : \A m : Holds(v, p, m)' <=> Holds(v, p, m)
          BY <1>10, HoldsKept
        <5>5. ASSUME NEW m, Knows(p, m)
              PROVE  Knows(p, m)'
          BY <5>2, <5>4, <5>5 DEF Knows
        <5>6. ASSUME NEW m, Knows(p, m)'
              PROVE  Knows(p, m)
          <6>1. CASE m = n
            BY <5>1, <6>1
          <6>2. CASE m # n
            BY <5>3, <5>4, <5>6, <6>2 DEF Knows
          <6>. QED  BY <6>1, <6>2
        <5>. QED  BY <5>5, <5>6
      <4>. QED  BY <4>1, <4>2
    <3>4. kept'[w].cat = p => Knows(p, kept'[w].woo)
      BY <1>8, <3>1 DEF Single
    <3>5. found'[w].cat # p
      BY <1>8, NoRowFacts
    <3>6. Unmapped(w, p)'
      BY <1>8 DEF Unmapped
    <3>7. \A v \in Workers \ {w} : Unmapped(v, p)'
      BY <1>10, <3>1, UnmappedKept
    <3>. QED  BY <3>3, <3>4, <3>5, <3>6, <3>7
  <2>. QED  BY <1>1, <1>6, <1>10, <2>1, CleanKept DEF Inv, history
<1>. QED  BY <1>6, <1>9, <1>10, <1>12, <1>13, <1>14, <1>15, InvKept

LEMMA SaveNameInv ==
    ASSUME CategoryAssumption, Inv, NEW w \in Workers, SaveName(w)
    PROVE  Inv'
<1>. DEFINE n == found[w].woo
<1>1. /\ pc[w] = "changed"
      /\ own' = [own EXCEPT ![w] = @ \cup {Row(Cat(w), n, plan[w][Cat(w)].name)}]
      /\ Advance(w)
      /\ UNCHANGED <<odoo, store, mappings, nextId, history>>
  BY DEF SaveName
<1>2. Know(w, Cat(w), n)
  BY DEF SaveName, Row
<1>3. found[w] # NoRow /\ found[w].cat = Cat(w) /\ found[w] \in Rows /\ For(Cat(w), n)
  BY <1>1 DEF Inv, Local, PlaceOK, IdsOK, TypeOK
<1>4. n \in Nat
  BY <1>3 DEF Rows
<1>5. Single(Cat(w)) => Knows(Cat(w), n)
  BY <1>3 DEF Single
<1>. HIDE DEF n
<1>. QED  BY <1>1, <1>2, <1>3, <1>4, <1>5, SaveInv

LEMMA SaveNewInv ==
    ASSUME CategoryAssumption, Inv, NEW w \in Workers, SaveNew(w)
    PROVE  Inv'
<1>. DEFINE row == Row(Cat(w), made[w], plan[w][Cat(w)].name)
<1>1. /\ pc[w] \in {"new", "insert"}
      /\ UNCHANGED <<odoo, store, mappings, nextId, history>>
      /\ \/ pc' = [pc EXCEPT ![w] = "insert"] /\ UNCHANGED session
         \/ /\ own' = [own EXCEPT ![w] = @ \cup {row}]
            /\ Know(w, Cat(w), made[w])
            /\ Advance(w)
  BY DEF SaveNew, Goto
<1>2. TypeOK /\ Local(w)
  BY DEF Inv
<1>3. For(Cat(w), made[w]) /\ made[w] \in Nat
  BY <1>1, <1>2 DEF Local, IdsOK, TypeOK
<1>4. CASE /\ own' = [own EXCEPT ![w] = @ \cup {row}]
           /\ Know(w, Cat(w), made[w])
           /\ Advance(w)
  <2>1. Knows(Cat(w), made[w])
    BY <1>1 DEF Knows, Holds
  <2>. QED  BY <1>1, <1>3, <1>4, <2>1, SaveInv
<1>5. CASE pc' = [pc EXCEPT ![w] = "insert"] /\ UNCHANGED session
  <2>1. StoreKeeps /\ Worse
    BY <1>1, <1>2, StoreIdle, MishapsIdle DEF history
  <2>2. /\ pc'[w] = "insert" /\ pc' \in [Workers -> Places]
        /\ \A v \in Workers \ {w} : pc'[v] = pc[v]
    BY <1>2, <1>5 DEF TypeOK, Places
  <2>3. /\ own' = own /\ plan' = plan /\ order' = order /\ at' = at /\ lookup' = lookup
        /\ kept' = kept /\ found' = found /\ made' = made /\ Cat(w)' = Cat(w)
    BY <1>5 DEF session, Cat
  <2>4. TypeOK'
    BY <1>1, <1>2, <2>2, <2>3 DEF TypeOK, history
  <2>5. \A v \in Workers \ {w} : Same(v)
    BY <2>2, <2>3 DEF Same
  <2>6. Local(w)'
    <3>1. PlanOK(w)' /\ OrderOK(w)'
      BY <1>2, <2>1, <2>3, <2>4, PlanKept DEF Local, OrderOK
    <3>2. PlaceOK(w)'
      BY <1>1, <1>2, <2>2, <2>3 DEF Local, PlaceOK
    <3>3. IdsOK(w)'
      <4>1. \A d, n : For(d, n) => For(d, n)'
        BY <1>2, <2>1, ForKept
      <4>2. \A s \in own'[w] : For(s.cat, s.woo)'
        BY <1>2, <2>3, <4>1 DEF Local, IdsOK
      <4>3. /\ kept'[w] # NoRow => For(kept[w].cat, kept[w].woo)'
            /\ found'[w] # NoRow => For(found[w].cat, found[w].woo)'
        BY <1>2, <2>3, <4>1 DEF Local, IdsOK
      <4>4. For(Cat(w), made[w])'
        BY <1>3, <2>3, <4>1
      <4>5. LookupOK(w)'
        BY <1>2, <2>1, <2>3, LookupKept
      <4>. QED  BY <4>2, <4>3, <4>4, <4>5 DEF IdsOK, LookupOK
    <3>4. Processed(w)'
      BY <1>1, <1>2, <2>2, <2>3 DEF Local, Processed, history
    <3>. QED  BY <3>1, <3>2, <3>3, <3>4 DEF Local
  <2>7. ASSUME NEW p \in Cats, Single(p), Unmapped(w, p)
        PROVE  /\ \A n : Holds(w, p, n)' <=> Holds(w, p, n)
               /\ kept'[w].cat = p => Knows(p, kept'[w].woo)
               /\ found'[w].cat = p => Knows(p, found'[w].woo)
               /\ Unmapped(w, p)'
    <3>1. \A n : Holds(w, p, n)' <=> Holds(w, p, n)
      BY <1>1, <2>2, <2>3 DEF Holds
    <3>2. /\ kept'[w].cat = p => Knows(p, kept'[w].woo)
          /\ found'[w].cat = p => Knows(p, found'[w].woo)
      BY <2>3, <2>7 DEF Single
    <3>3. Unmapped(w, p)'
      BY <1>1, <2>2, <2>3, <2>7 DEF Unmapped
    <3>. QED  BY <3>1, <3>2, <3>3
  <2>. QED  BY <1>1, <2>3, <2>4, <2>5, <2>6, <2>7, QuietInv
<1>. QED  BY <1>1, <1>4, <1>5

\* The session of a run ends.
LEMMA CloseOK ==
    ASSUME TypeOK, NEW w \in Workers, Close(w)
    PROVE  /\ own' \in [Workers -> SUBSET Rows] /\ pc' \in [Workers -> Places]
           /\ plan' = [v \in Workers |-> plan'[v]] /\ order' \in [Workers -> Seq(Cats)]
           /\ at' \in [Workers -> Nat \ {0}] /\ lookup' = [v \in Workers |-> lookup'[v]]
           /\ kept' \in [Workers -> Rows \cup {NoRow}]
           /\ found' \in [Workers -> Rows \cup {NoRow}] /\ made' \in [Workers -> Nat]
           /\ own'[w] = {} /\ pc'[w] = "idle" /\ kept'[w] = NoRow /\ found'[w] = NoRow
           /\ Local(w)'
           /\ \A v \in Workers \ {w} : Same(v)
<1>1. /\ pc' = [pc EXCEPT ![w] = "idle"]
      /\ own' = [own EXCEPT ![w] = {}]
      /\ plan' = [plan EXCEPT ![w] = <<>>]
      /\ order' = [order EXCEPT ![w] = <<>>]
      /\ at' = [at EXCEPT ![w] = 1]
      /\ lookup' = [lookup EXCEPT ![w] = <<>>]
      /\ kept' = [kept EXCEPT ![w] = NoRow]
      /\ found' = [found EXCEPT ![w] = NoRow]
      /\ made' = [made EXCEPT ![w] = 0]
  BY DEF Close, Goto
<1>2. /\ own \in [Workers -> SUBSET Rows] /\ pc \in [Workers -> Places]
      /\ plan = [v \in Workers |-> plan[v]] /\ order \in [Workers -> Seq(Cats)]
      /\ at \in [Workers -> Nat \ {0}] /\ lookup = [v \in Workers |-> lookup[v]]
      /\ kept \in [Workers -> Rows \cup {NoRow}]
      /\ found \in [Workers -> Rows \cup {NoRow}] /\ made \in [Workers -> Nat]
  BY DEF TypeOK
<1>3. own' \in [Workers -> SUBSET Rows] /\ own'[w] = {}
  BY <1>1, <1>2
<1>4. pc' \in [Workers -> Places] /\ pc'[w] = "idle"
  BY <1>1, <1>2 DEF Places
<1>5. plan' = [v \in Workers |-> plan'[v]] /\ plan'[w] = <<>>
  BY <1>1, <1>2
<1>6. order' \in [Workers -> Seq(Cats)] /\ order'[w] = <<>>
  <2>1. <<>> \in Seq(Cats)
    OBVIOUS
  <2>. QED  BY <1>1, <1>2, <2>1
<1>7. at' \in [Workers -> Nat \ {0}] /\ at'[w] = 1
  BY <1>1, <1>2
<1>8. lookup' = [v \in Workers |-> lookup'[v]] /\ lookup'[w] = <<>>
  BY <1>1, <1>2
<1>9. kept' \in [Workers -> Rows \cup {NoRow}] /\ kept'[w] = NoRow
  BY <1>1, <1>2
<1>10. found' \in [Workers -> Rows \cup {NoRow}] /\ found'[w] = NoRow
  BY <1>1, <1>2
<1>11. made' \in [Workers -> Nat]
  BY <1>1, <1>2
<1>12. \A v \in Workers \ {w} : Same(v)
  BY <1>1, <1>2 DEF Same
<1>13. Local(w)'
  <2>1. DOMAIN <<>> = {} /\ Len(<<>>) = 0 /\ <<>> \in Seq({})
        /\ <<>> \in [{} -> [name : Names, parent : Cats \cup {Root}]]
    OBVIOUS
  <2>2. PlanOK(w)'
    BY <1>5, <2>1 DEF PlanOK
  <2>3. OrderOK(w)'
    BY <1>5, <1>6, <2>1 DEF OrderOK, ParentsFirst
  <2>4. PlaceOK(w)' /\ Processed(w)'
    BY <1>3, <1>4, <1>7, <1>10 DEF PlaceOK, Processed
  <2>5. IdsOK(w)'
    BY <1>3, <1>4, <1>8, <1>9, <1>10, <2>1 DEF IdsOK
  <2>. QED  BY <2>2, <2>3, <2>4, <2>5 DEF Local
<1>. QED  BY <1>3, <1>4, <1>5, <1>6, <1>7, <1>8, <1>9, <1>10, <1>11, <1>12, <1>13

\* A transaction is lost: what the store had done for it happened to a category.
LEMMA AbandonInv ==
    ASSUME CategoryAssumption, Inv, NEW w \in Workers, pc[w] # "idle", Abandon(w),
           UNCHANGED <<odoo, store, mappings, nextId, overlapped>>
    PROVE  Inv'
<1>. DEFINE touched == {r.cat : r \in own[w]} \cup
                       (IF pc[w] \in {"new", "insert", "changed"} THEN {Cat(w)} ELSE {})
<1>1. Close(w) /\ mishaps' = [c \in Cats |-> IF c \in touched THEN mishaps[c] \cup {"rollback"}
                                             ELSE mishaps[c]]
  BY DEF Abandon
<1>2. /\ \A r \in own[w] : r.cat \in touched
      /\ pc[w] \in {"new", "insert"} => Cat(w) \in touched
  OBVIOUS
<1>. HIDE DEF touched
<1>3. TypeOK
  BY DEF Inv
<1>4. StoreKeeps
  BY <1>3, StoreIdle
<1>5. Worse /\ mishaps' \in [Cats -> SUBSET Kinds]
      /\ \A c \in Cats : c \in touched => mishaps'[c] # {}
  <2>1. mishaps \in [Cats -> SUBSET Kinds]
    BY <1>3 DEF TypeOK
  <2>2. \A c \in Cats : mishaps'[c] = IF c \in touched THEN mishaps[c] \cup {"rollback"}
                                      ELSE mishaps[c]
    BY <1>1
  <2>3. \A c \in Cats : mishaps'[c] \in SUBSET Kinds
    BY <2>1, <2>2 DEF Kinds
  <2>. QED  BY <1>1, <2>2, <2>3 DEF Worse
<1>6. /\ own' \in [Workers -> SUBSET Rows] /\ pc' \in [Workers -> Places]
      /\ plan' = [v \in Workers |-> plan'[v]] /\ order' \in [Workers -> Seq(Cats)]
      /\ at' \in [Workers -> Nat \ {0}] /\ lookup' = [v \in Workers |-> lookup'[v]]
      /\ kept' \in [Workers -> Rows \cup {NoRow}]
      /\ found' \in [Workers -> Rows \cup {NoRow}] /\ made' \in [Workers -> Nat]
      /\ own'[w] = {} /\ pc'[w] = "idle" /\ kept'[w] = NoRow /\ found'[w] = NoRow
      /\ Local(w)'
      /\ \A v \in Workers \ {w} : Same(v)
  BY <1>1, <1>3, CloseOK
<1>7. TypeOK'
  BY <1>3, <1>5, <1>6 DEF TypeOK
<1>8. MappedOK' /\ PlacedOK' /\ Acyclic(odoo)'
  BY <1>3, <1>4, <1>5, MappedKept, PlacedKept DEF Inv, Acyclic
<1>9. Alone'
  <2>1. \A v \in Workers : pc'[v] # "idle" => pc[v] # "idle"
    BY <1>6 DEF Same
  <2>. QED  BY <2>1, AloneKept DEF Inv
<1>10. CleanOK'
  <2>1. ASSUME NEW p \in Cats, Clean(p), Clean(p)'
        PROVE  /\ \A n : Knows(p, n)' <=> Knows(p, n)
               /\ \A n \in DOMAIN store' :
                      store'[n].cat = p => Knows(p, n) \/ (n \in DOMAIN store /\ store[n].cat = p)
               /\ kept'[w].cat = p => Knows(p, kept'[w].woo)
               /\ found'[w].cat = p => Knows(p, found'[w].woo)
               /\ Unmapped(w, p)'
               /\ \A v \in Workers \ {w} : Unmapped(v, p)'
    <3>1. \A v \in Workers : Unmapped(v, p)
      BY <2>1 DEF Inv, CleanOK
    <3>2. p \notin touched
      BY <1>5, <2>1 DEF Clean
    <3>3. \A n : ~Holds(w, p, n) /\ ~Holds(w, p, n)'
      BY <1>2, <1>6, <3>2 DEF Holds
    <3>4. \A n : Knows(p, n)' <=> Knows(p, n)
      BY <1>6, <3>3, KnowsKept
    <3>5. kept'[w].cat # p /\ found'[w].cat # p
      BY <1>6, NoRowFacts
    <3>6. Unmapped(w, p)'
      BY <1>6 DEF Unmapped
    <3>7. \A v \in Workers \ {w} : Unmapped(v, p)'
      BY <1>6, <3>1, UnmappedKept
    <3>. QED  BY <3>4, <3>5, <3>6, <3>7
  <2>. QED  BY <1>3, <1>5, <1>6, <2>1, CleanKept DEF Inv
<1>. QED  BY <1>4, <1>5, <1>6, <1>7, <1>8, <1>9, <1>10, InvKept

LEMMA CommitInv ==
    ASSUME CategoryAssumption, Inv, NEW w \in Workers, CommitRun(w)
    PROVE  Inv'
<1>1. /\ pc[w] = "next" /\ mappings' = View(w) /\ Close(w)
      /\ UNCHANGED <<odoo, store, nextId, history>>
  BY DEF CommitRun
<1>2. TypeOK /\ Local(w)
  BY DEF Inv
<1>3. StoreKeeps /\ Worse
  BY <1>1, <1>2, StoreIdle, MishapsIdle DEF history
<1>4. /\ own' \in [Workers -> SUBSET Rows] /\ pc' \in [Workers -> Places]
      /\ plan' = [v \in Workers |-> plan'[v]] /\ order' \in [Workers -> Seq(Cats)]
      /\ at' \in [Workers -> Nat \ {0}] /\ lookup' = [v \in Workers |-> lookup'[v]]
      /\ kept' \in [Workers -> Rows \cup {NoRow}]
      /\ found' \in [Workers -> Rows \cup {NoRow}] /\ made' \in [Workers -> Nat]
      /\ own'[w] = {} /\ pc'[w] = "idle" /\ kept'[w] = NoRow /\ found'[w] = NoRow
      /\ Local(w)'
      /\ \A v \in Workers \ {w} : Same(v)
  BY <1>1, <1>2, CloseOK
<1>5. /\ \A r \in mappings' : r \in mappings \/ r \in own[w]
      /\ own[w] \subseteq mappings'
      /\ \A r \in mappings : r \in mappings' \/ \E s \in own[w] : s.cat = r.cat
  BY <1>1 DEF View
<1>6. mappings \subseteq Rows /\ own[w] \subseteq Rows
  BY <1>2 DEF TypeOK
<1>7. TypeOK'
  <2>1. mappings' \in SUBSET Rows
    BY <1>5, <1>6
  <2>. QED  BY <1>1, <1>2, <1>4, <2>1 DEF TypeOK, history
<1>8. MappedOK'
  <2>1. \A c, n : For(c, n) => For(c, n)'
    BY <1>2, <1>3, ForKept
  <2>2. \A r \in mappings' : For(r.cat, r.woo)
    BY <1>2, <1>5 DEF Inv, MappedOK, Local, IdsOK
  <2>3. \A r \in mappings' : For(r.cat, r.woo)'
    BY <2>1, <2>2
  <2>. QED  BY <2>3 DEF MappedOK
<1>9. PlacedOK' /\ Acyclic(odoo)'
  BY <1>1, <1>2, <1>3, PlacedKept DEF Inv, Acyclic
<1>10. Alone'
  <2>1. \A v \in Workers : pc'[v] # "idle" => pc[v] # "idle"
    BY <1>4 DEF Same
  <2>. QED  BY <1>1, <2>1, AloneKept DEF Inv, history
<1>11. CleanOK'
  <2>1. ASSUME NEW p \in Cats, Clean(p)
        PROVE  /\ \A n : Knows(p, n)' <=> Knows(p, n)
               /\ \A n \in DOMAIN store' :
                      store'[n].cat = p => Knows(p, n) \/ (n \in DOMAIN store /\ store[n].cat = p)
               /\ kept'[w].cat = p => Knows(p, kept'[w].woo)
               /\ found'[w].cat = p => Knows(p, found'[w].woo)
               /\ Unmapped(w, p)'
               /\ \A v \in Workers \ {w} : Unmapped(v, p)'
    <3>1. Single(p)
      BY <2>1 DEF Inv, CleanOK
    <3>2. \A n : Holds(w, p, n) <=> \E r \in own[w] : r.cat = p /\ r.woo = n
      BY <1>1 DEF Holds
    <3>3. \A n : ~Holds(w, p, n)'
      BY <1>4 DEF Holds
    <3>4. \A v \in Workers \ {w} : \A n : Holds(v, p, n)' <=> Holds(v, p, n)
      BY <1>4, HoldsKept
    <3>5. ASSUME NEW n, Knows(p, n)'
          PROVE  Knows(p, n)
      <4>1. CASE \E r \in mappings' : r.cat = p /\ r.woo = n
        <5>1. PICK r \in mappings' : r.cat = p /\ r.woo = n
          BY <4>1
        <5>2. CASE r \in mappings
          BY <5>1, <5>2 DEF Knows
        <5>3. CASE r \in own[w]
          BY <3>2, <5>1, <5>3 DEF Knows
        <5>. QED  BY <1>5, <5>1, <5>2, <5>3
      <4>2. CASE ~\E r \in mappings' : r.cat = p /\ r.woo = n
        <5>1. PICK v \in Workers : Holds(v, p, n)'
          BY <3>5, <4>2 DEF Knows
        <5>. QED  BY <3>3, <3>4, <5>1 DEF Knows
      <4>. QED  BY <4>1, <4>2
    <3>6. ASSUME NEW n, Knows(p, n)
          PROVE  Knows(p, n)'
      <4>1. CASE \E r \in mappings : r.cat = p /\ r.woo = n
        <5>1. PICK r \in mappings : r.cat = p /\ r.woo = n
          BY <4>1
        <5>2. CASE r \in mappings'
          BY <5>1, <5>2 DEF Knows
        <5>3. CASE r \notin mappings'
          <6>1. PICK s \in own[w] : s.cat = p
            BY <1>5, <5>1, <5>3
          <6>2. s.woo \in Nat /\ n \in Nat
            BY <1>6, <5>1, <6>1 DEF Rows
          <6>3. Knows(p, s.woo)
            BY <3>2, <6>1 DEF Knows
          <6>4. s.woo = n
            BY <3>1, <3>6, <6>2, <6>3 DEF Single
          <6>. QED  BY <1>5, <6>1, <6>4 DEF Knows
        <5>. QED  BY <5>2, <5>3
      <4>2. CASE Holds(w, p, n)
        BY <1>5, <3>2, <4>2 DEF Knows
      <4>3. CASE \E v \in Workers \ {w} : Holds(v, p, n)
        BY <3>4, <4>3 DEF Knows
      <4>. QED  BY <3>6, <4>1, <4>2, <4>3 DEF Knows
    <3>7. kept'[w].cat # p /\ found'[w].cat # p
      BY <1>4, NoRowFacts
    <3>8. Unmapped(w, p)'
      BY <1>4 DEF Unmapped
    <3>9. \A v \in Workers \ {w} : Unmapped(v, p)'
      <4>1. \A v \in Workers \ {w} : pc[v] = "idle"
        BY <1>1, <2>1 DEF Clean, Inv, Alone
      <4>2. \A v \in Workers \ {w} : pc'[v] = "idle"
        BY <1>4, <4>1 DEF Same
      <4>. QED  BY <4>2 DEF Unmapped
    <3>10. \A n \in DOMAIN store' : store'[n].cat = p => n \in DOMAIN store /\ store[n].cat = p
      BY <1>1
    <3>. QED  BY <3>5, <3>6, <3>7, <3>8, <3>9, <3>10
  <2>. QED  BY <1>1, <1>2, <1>3, <1>4, <2>1, CleanKept DEF Inv, history
<1>. QED  BY <1>3, <1>4, <1>7, <1>8, <1>9, <1>10, <1>11, InvKept

LEMMA EmptyOrder ==
    ASSUME NEW s \in Seq(Cats), s # <<>>
    PROVE  1 <= Len(s)
OBVIOUS

LEMMA BeginInv ==
    ASSUME CategoryAssumption, Inv, NEW w \in Workers, Begin(w)
    PROVE  Inv'
<1>1. TypeOK /\ Local(w) /\ Acyclic(odoo)
  BY DEF Inv
<1>2. pc[w] = "idle" /\ own[w] = {} /\ at[w] = 1 /\ found[w] = NoRow
  BY <1>1 DEF Begin, Local, PlaceOK
<1>3. PICK S \in SUBSET DOMAIN odoo :
         /\ \E cats \in SetToSeqs(S) :
               /\ plan' = [plan EXCEPT ![w] = Restrict(odoo, S)]
               /\ order' = [order EXCEPT ![w] = TopologicalSort(Restrict(odoo, S), cats)]
         /\ mishaps' = [c \in Cats |-> IF c \in DOMAIN odoo \ S
                                       THEN mishaps[c] \cup {"unread"} ELSE mishaps[c]]
  BY DEF Begin
<1>. DEFINE tree == Restrict(odoo, S)
<1>4. PICK cats \in SetToSeqs(S) : /\ plan' = [plan EXCEPT ![w] = tree]
                                   /\ order' = [order EXCEPT ![w] = TopologicalSort(tree, cats)]
  BY <1>3
<1>. DEFINE sorted == TopologicalSort(tree, cats)
<1>5. /\ pc' = [pc EXCEPT ![w] = IF order'[w] = <<>> THEN "next" ELSE "read"]
      /\ UNCHANGED <<odoo, store, mappings, own, at, lookup, kept, found, made, nextId>>
      /\ IF \E v \in Workers \ {w} : pc[v] # "idle" THEN overlapped' = TRUE
         ELSE overlapped' = overlapped
  BY DEF Begin, Goto, Event
<1>6. /\ DOMAIN odoo \subseteq Cats
      /\ odoo \in [DOMAIN odoo -> [name : Names, parent : DOMAIN odoo \cup {Root}]]
  BY <1>1 DEF TypeOK
<1>7. DOMAIN tree = S /\ S \subseteq Cats /\ \A c \in S : tree[c] = odoo[c]
  BY <1>6 DEF Restrict
<1>8. Acyclic(tree)
  BY <1>1, AcyclicPart
<1>9. IsFiniteSet(S)
  BY <1>7, FS_Subset DEF CategoryAssumption
<1>10. tree \in [S -> [name : Names, parent : DOMAIN odoo \cup {Root}]]
  BY <1>6 DEF Restrict
<1>. HIDE DEF tree, sorted
<1>11. cats \in Seq(DOMAIN tree) /\ DOMAIN tree \subseteq ToSet(cats)
  BY <1>7, <1>9, ListsAll
<1>12. sorted \in Seq(DOMAIN tree) /\ ParentsFirst(tree, sorted)
  BY <1>8, <1>11, ParentsComeFirst DEF sorted
<1>13. sorted \in Seq(Cats)
  BY <1>7, <1>12
<1>14. /\ plan' = [v \in Workers |-> plan'[v]] /\ plan'[w] = tree
       /\ \A v \in Workers \ {w} : plan'[v] = plan[v]
  BY <1>1, <1>4 DEF TypeOK
<1>15. /\ order' \in [Workers -> Seq(Cats)] /\ order'[w] = sorted
       /\ \A v \in Workers \ {w} : order'[v] = order[v]
  <2>1. order \in [Workers -> Seq(Cats)] /\ order' = [order EXCEPT ![w] = sorted]
    BY <1>1, <1>4 DEF TypeOK, sorted
  <2>. QED  BY <1>13, <2>1
<1>16. /\ pc' \in [Workers -> Places] /\ pc'[w] = (IF sorted = <<>> THEN "next" ELSE "read")
       /\ \A v \in Workers \ {w} : pc'[v] = pc[v]
  BY <1>1, <1>5, <1>15 DEF TypeOK, Places
<1>17. /\ mishaps' \in [Cats -> SUBSET Kinds] /\ Worse
       /\ \A c \in DOMAIN odoo : c \in S \/ mishaps'[c] # {}
  <2>1. mishaps \in [Cats -> SUBSET Kinds]
    BY <1>1 DEF TypeOK
  <2>2. \A c \in Cats : mishaps'[c] = IF c \in DOMAIN odoo \ S THEN mishaps[c] \cup {"unread"}
                                      ELSE mishaps[c]
    BY <1>3
  <2>3. \A c \in Cats : mishaps'[c] \in SUBSET Kinds
    BY <2>1, <2>2 DEF Kinds
  <2>. QED  BY <1>3, <1>6, <2>2, <2>3 DEF Worse
<1>18. overlapped' \in BOOLEAN /\ (overlapped => overlapped')
  <2>1. overlapped \in BOOLEAN
    BY <1>1 DEF TypeOK
  <2>. QED  BY <1>5, <2>1
<1>19. TypeOK'
  BY <1>1, <1>5, <1>14, <1>15, <1>16, <1>17, <1>18 DEF TypeOK
<1>20. \A v \in Workers \ {w} : Same(v)
  BY <1>5, <1>14, <1>15, <1>16 DEF Same
<1>21. StoreKeeps
  BY <1>1, <1>5, StoreIdle
<1>22. Local(w)'
  <2>1. PlanOK(w)'
    <3>1. tree \in [S -> [name : Names, parent : Cats \cup {Root}]]
      BY <1>6, <1>10
    <3>2. \A c \in S : tree[c].parent \in S \cup {Root} \/ mishaps'[tree[c].parent] # {}
      BY <1>10, <1>17
    <3>. QED  BY <1>7, <1>14, <3>1, <3>2 DEF PlanOK
  <2>2. OrderOK(w)'
    BY <1>12, <1>14, <1>15 DEF OrderOK
  <2>3. PlaceOK(w)'
    <3>1. sorted # <<>> => at'[w] <= Len(order'[w])
      BY <1>2, <1>5, <1>13, <1>15, EmptyOrder
    <3>. QED  BY <1>2, <1>5, <1>16, <3>1 DEF PlaceOK
  <2>4. IdsOK(w)'
    <3>1. \A d, n : For(d, n) => For(d, n)'
      BY <1>1, <1>21, ForKept
    <3>2. kept'[w] # NoRow => For(kept[w].cat, kept[w].woo)'
      BY <1>1, <1>5, <3>1 DEF Local, IdsOK
    <3>3. LookupOK(w)'
      BY <1>1, <1>5, <1>21, LookupKept
    <3>4. own'[w] = {} /\ found'[w] = NoRow /\ pc'[w] \notin {"new", "insert"}
      BY <1>2, <1>5, <1>16
    <3>. QED  BY <3>2, <3>3, <3>4 DEF IdsOK, LookupOK
  <2>5. Processed(w)'
    <3>1. CASE sorted = <<>>
      <4>1. \A i \in 1..Len(order'[w]) : FALSE
        BY <1>15, <3>1
      <4>. QED  BY <4>1 DEF Processed
    <3>2. CASE sorted # <<>>
      BY <1>16, <3>2 DEF Processed
    <3>. QED  BY <3>1, <3>2
  <2>. QED  BY <2>1, <2>2, <2>3, <2>4, <2>5 DEF Local
<1>23. MappedOK' /\ PlacedOK' /\ Acyclic(odoo)'
  BY <1>1, <1>5, <1>17, <1>21, MappedKept, PlacedKept DEF Inv, Acyclic
<1>24. Alone'
  <2>1. CASE \E v \in Workers \ {w} : pc[v] # "idle"
    BY <1>5, <2>1 DEF Alone
  <2>2. CASE \A v \in Workers \ {w} : pc[v] = "idle"
    BY <1>16, <2>2 DEF Alone
  <2>. QED  BY <2>1, <2>2
<1>25. CleanOK'
  <2>1. ASSUME NEW p \in Cats, Clean(p)
        PROVE  /\ \A n : Knows(p, n)' <=> Knows(p, n)
               /\ \A n \in DOMAIN store' :
                      store'[n].cat = p => Knows(p, n) \/ (n \in DOMAIN store /\ store[n].cat = p)
               /\ kept'[w].cat = p => Knows(p, kept'[w].woo)
               /\ found'[w].cat = p => Knows(p, found'[w].woo)
               /\ Unmapped(w, p)'
               /\ \A v \in Workers \ {w} : Unmapped(v, p)'
    <3>1. Single(p) /\ \A v \in Workers : Unmapped(v, p)
      BY <2>1 DEF Inv, CleanOK
    <3>2. \A n : ~Holds(w, p, n) /\ ~Holds(w, p, n)'
      BY <1>2, <1>5, <1>16 DEF Holds
    <3>3. \A n : Knows(p, n)' <=> Knows(p, n)
      BY <1>5, <1>20, <3>2, KnowsKept
    <3>4. /\ kept'[w].cat = p => Knows(p, kept'[w].woo)
          /\ found'[w].cat = p => Knows(p, found'[w].woo)
      BY <1>5, <3>1 DEF Single
    <3>5. Unmapped(w, p)'
      BY <1>16 DEF Unmapped
    <3>6. \A v \in Workers \ {w} : Unmapped(v, p)'
      BY <1>5, <1>20, <3>1, UnmappedKept
    <3>7. \A n \in DOMAIN store' : store'[n].cat = p => n \in DOMAIN store /\ store[n].cat = p
      BY <1>5
    <3>. QED  BY <3>3, <3>4, <3>5, <3>6, <3>7
  <2>. QED  BY <1>1, <1>17, <1>18, <1>20, <2>1, CleanKept DEF Inv
<1>. QED  BY <1>17, <1>19, <1>20, <1>21, <1>22, <1>23, <1>24, <1>25, InvKept

LEMMA StutterInv ==
    ASSUME Inv, UNCHANGED vars
    PROVE  Inv'
<1>1. UNCHANGED <<odoo, store, mappings, session, pc, nextId, history>>
  BY DEF vars
<1>2. TypeOK'
  BY <1>1 DEF Inv, TypeOK, session, history
<1>3. StoreKeeps /\ Worse /\ \A v : Same(v)
  BY <1>1, StoreIdle, MishapsIdle, SessionIdle DEF Inv, history
<1>4. MappedOK' /\ PlacedOK' /\ Acyclic(odoo)'
  BY <1>1, <1>3, MappedKept, PlacedKept DEF Inv, Acyclic
<1>5. Alone'
  BY <1>1, AloneKept DEF Inv, history
<1>6. CleanOK'
  BY <1>1, <1>3, CleanOutside DEF history
<1>7. Root \in Workers => Local(Root)'
  BY <1>2, <1>3, LocalKept DEF Inv
<1>. QED  BY <1>2, <1>3, <1>4, <1>5, <1>6, <1>7, InvKept

LEMMA NextInv ==
    ASSUME CategoryAssumption, Inv, [Next]_vars
    PROVE  Inv'
<1>1. CASE UNCHANGED vars
  BY <1>1, StutterInv
<1>2. CASE \E c \in Cats, entry \in [name : Names, parent : Cats \cup {Root}] : Edit(c, entry)
  BY <1>2, EditInv
<1>3. CASE \E n \in DOMAIN store : MerchantDeletes(n)
  BY <1>3, DeleteInv
<1>4. ASSUME NEW w \in Workers, Begin(w) \/ Phase(w) \/ RunFault(w)
      PROVE  Inv'
  <2>1. CASE Begin(w)
    BY <2>1, BeginInv
  <2>2. CASE Read(w) \/ SkipUnchanged(w) \/ NeedsCall(w) \/ Call(w)
    BY <2>2, ReadInv, SkipInv, NeedsCallInv, CallInv
  <2>3. CASE CallRejected(w) \/ CallRefused(w) \/ AnswerLost(w)
    BY <2>3, RejectedInv, LostInv
  <2>4. CASE KeepRow(w) \/ SaveNew(w) \/ SaveName(w)
    BY <2>4, KeepRowInv, SaveNewInv, SaveNameInv
  <2>5. CASE InsertFails(w) \/ RollbackRun(w)
    <3>1. /\ pc[w] # "idle" /\ Abandon(w)
          /\ UNCHANGED <<odoo, store, mappings, nextId, overlapped>>
      BY <2>5 DEF InsertFails, RollbackRun
    <3>. QED  BY <3>1, AbandonInv
  <2>6. CASE CommitRun(w)
    BY <2>6, CommitInv
  <2>. QED  BY <1>4, <2>1, <2>2, <2>3, <2>4, <2>5, <2>6 DEF Phase, RunFault
<1>. QED  BY <1>1, <1>2, <1>3, <1>4 DEF Next

-----------------------------------------------------------------------------
(* The theorem *)

\* The invariant when no run is under way.
LEMMA TreeKeptFromInv ==
    ASSUME CategoryAssumption, Inv
    PROVE  TreeKept
<1>. SUFFICES ASSUME \A w \in Workers : pc[w] = "idle",
                     NEW r \in mappings, r.woo \in DOMAIN store,
                     store[r.woo].meant = odoo[r.cat].parent
              PROVE  LET p == odoo[r.cat].parent
                         above == store[r.woo].parent
                         second == above \in DOMAIN store /\ store[above].cat = p
                     IN  IF p = Root THEN above = 0
                         ELSE \/ above = Woo(p)
                              \/ second /\ (overlapped \/ mishaps[p] # {})
                              \/ above = 0 /\ mishaps[p] # {}
                              \/ "deleted" \in mishaps[p]
  BY DEF TreeKept
<1>. DEFINE p == store[r.woo].meant
            above == store[r.woo].parent
<1>1. Placed(p, above) /\ p \in Cats \cup {Root}
  BY DEF Inv, PlacedOK, TypeOK
<1>. HIDE DEF p, above
<1>2. ASSUME p # Root, above \in DOMAIN store, store[above].cat = p,
             ~(overlapped \/ mishaps[p] # {})
      PROVE  above = Woo(p)
  <2>1. Single(p)
    BY <1>1, <1>2 DEF Inv, CleanOK, Clean
  <2>2. Knows(p, above)
    BY <1>2, <2>1 DEF Single
  <2>3. \E s \in mappings : s.cat = p /\ s.woo = above
    <3>1. \A w \in Workers : ~Holds(w, p, above)
      BY DEF Holds, Inv, Local, PlaceOK
    <3>. QED  BY <2>2, <3>1 DEF Knows
  <2>. DEFINE s == CHOOSE s \in mappings : s.cat = p
  <2>4. s \in mappings /\ s.cat = p
    BY <2>3
  <2>5. Woo(p) = s.woo
    BY <2>3 DEF Woo
  <2>. HIDE DEF s
  <2>6. Knows(p, s.woo)
    BY <2>4 DEF Knows
  <2>7. s.woo \in Nat /\ above \in Nat
    <3>1. mappings \subseteq Rows
      BY DEF Inv, TypeOK
    <3>. QED  BY <2>3, <2>4, <3>1 DEF Rows
  <2>. QED  BY <2>1, <2>2, <2>5, <2>6, <2>7 DEF Single
<1>3. IF p = Root THEN above = 0
      ELSE \/ above = Woo(p)
           \/ (above \in DOMAIN store /\ store[above].cat = p) /\ (overlapped \/ mishaps[p] # {})
           \/ above = 0 /\ mishaps[p] # {}
           \/ "deleted" \in mishaps[p]
  BY <1>1, <1>2 DEF Placed
<1>. QED  BY <1>3 DEF p, above

\* Between runs of sync_categories_odoo_to_wc a category of the store is where its
\* parent is, whatever the tree, the order Odoo lists it in, and the interleaving of
\* runs, edits and faults, unless something happened to the parent itself.
THEOREM TreeKeptHolds == Spec => []TreeKept
<1>1. Init => Inv
  BY CategoryAssumption, InitInv
<1>2. Inv /\ [Next]_vars => Inv'
  BY CategoryAssumption, NextInv
<1>3. Inv => TreeKept
  BY CategoryAssumption, TreeKeptFromInv
<1>. QED  BY <1>1, <1>2, <1>3, PTL DEF Spec
=============================================================================
