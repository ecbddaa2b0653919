-------------------------- MODULE JobDesk_proofs --------------------------
(* Theorems about JobTable, JobForm and JobDesk, for any jobs, schedules,  *)
(* visits, requests and failures.                                          *)
EXTENDS JobDesk, FiniteSets, FiniteSetTheorems, TLAPS

(***************************************************************************)
(* BeatFollowsRow is not inductive: a handler writes to Beat what it has   *)
(* read back after its commit, and that is the row only for a handler that *)
(* nobody has overlapped. Alone says that the flag of the model is never   *)
(* left on when two handlers of a job are at work; Fresh what a handler    *)
(* that is alone can rely on: the row it has read back is the row, and for *)
(* a job it has made itself Beat has no entry yet.                         *)
(*                                                                         *)
(* UntouchedEditOnlyEnables rests on where the body of a save came from:   *)
(* the rows a request calls its base are those its form was filled from.   *)
(***************************************************************************)
Working == {"loaded", "committed", "refreshed"}
IsRecord(row) == row = [f \in DOMAIN row |-> row[f]]
Fields == {"no", "visit", "page", "kind", "id", "body", "base", "phase", "snap", "alone", "waiting"}
HasFields(c) == c = [f \in Fields |-> c[f]]

RowsOK ==
    /\ \E S : rows \in Seq(S)
    /\ Len(rows) \in 1..MaxJobs
    /\ \A j \in DOMAIN rows : IsRecord(rows[j])
BeatOK == beat = [j \in Ids |-> beat[j]]

CallOK(c) ==
    /\ HasFields(c)
    /\ c.no \in 1..sent
    /\ c.id \in 0..Len(rows)
    /\ c.kind # "create" \/ c.phase \in Working => c.id # 0
    /\ c.phase = "loaded" => Valid(c.kind, c.body)
    /\ \A row \in c.base : IsRecord(row) /\ c.body = BodyOf(FormOf(row))
CallsOK ==
    /\ sent \in Nat
    /\ \A c \in calls : CallOK(c)
    /\ \A c, d \in calls : c.no = d.no => c = d

Alone ==
    \A c, d \in calls :
        c # d /\ c.id = d.id /\ c.phase \in Working /\ d.phase \in Working => ~c.alone
Fresh ==
    \A c \in calls : c.phase \in Working /\ c.alone =>
        /\ c.phase = "refreshed" => c.snap = rows[c.id]
        /\ c.kind = "create" => beat[c.id] = "none"
Unborn == \A j \in Ids : j > Len(rows) => beat[j] = "none"
TableInv == RowsOK /\ BeatOK /\ CallsOK /\ Alone /\ Fresh /\ Unborn /\ BeatFollowsRow

ScreenOK ==
    /\ target \in DOMAIN rows
    /\ DOMAIN list \subseteq DOMAIN rows
    /\ fetch[1] = "rows" => DOMAIN fetch[2] \subseteq DOMAIN rows
    /\ \A row \in form.base : IsRecord(row) /\ form = FormOf(row)
    /\ known = [j \in Ids |-> known[j]]
    /\ \A j \in Ids : \A row \in known[j] : IsRecord(row)
JobsInv == TableInv /\ ScreenOK

-----------------------------------------------------------------------------
(* Requests that come, go on without touching a row, and go *)

LEMMA RowsAre ==
    ASSUME RowsOK
    PROVE  DOMAIN rows = 1..Len(rows) /\ Len(rows) \in Nat /\ 1 \in DOMAIN rows
           /\ DOMAIN rows \subseteq Ids
BY BoundsAssumption DEF RowsOK, Ids

\* A request that is not at work goes.
LEMMA DropStep ==
    ASSUME TableInv, NEW c \in calls, c.phase \notin Working, calls' = calls \ {c},
           UNCHANGED <<rows, beat, sent, excused>>
    PROVE  TableInv'
<1>1. RowsOK' /\ BeatOK' /\ Unborn'
  BY DEF TableInv, RowsOK, BeatOK, Unborn
<1>2. CallsOK' /\ Alone' /\ Fresh'
  BY DEF TableInv, CallsOK, CallOK, Alone, Fresh
<1>3. BeatFollowsRow'
  BY DEF TableInv, BeatFollowsRow, Working
<1>. QED
  BY <1>1, <1>2, <1>3 DEF TableInv

LEMMA SendStep ==
    ASSUME TableInv, NEW visitOf, NEW pageOf, NEW kind, NEW id \in 0..Len(rows), NEW body, NEW base,
           Send(visitOf, pageOf, kind, id, body, base),
           kind # "create" => id # 0,
           \A row \in base : IsRecord(row) /\ body = BodyOf(FormOf(row)),
           UNCHANGED <<rows, beat, excused>>
    PROVE  TableInv'
<1>. PICK d : d = [no |-> sent + 1, visit |-> visitOf, page |-> pageOf, kind |-> kind,
                  id |-> id, body |-> body, base |-> base, phase |-> "sent",
                  snap |-> AnyJob, alone |-> TRUE, waiting |-> visitOf # 0]
  OBVIOUS
<1>1. calls' = calls \cup {d} /\ sent' = sent + 1 /\ sent \in Nat
  BY DEF Send, TableInv, CallsOK
<1>2. /\ HasFields(d) /\ d.no = sent + 1 /\ d.phase = "sent" /\ d.id = id /\ d.kind = kind
      /\ d.base = base /\ d.body = body
  BY DEF HasFields, Fields
<1>3. RowsOK' /\ BeatOK' /\ Unborn'
  BY DEF TableInv, RowsOK, BeatOK, Unborn
<1>4. CallsOK'
  <2>1. \A c \in calls : CallOK(c) /\ c.no # d.no
    BY <1>1, <1>2 DEF TableInv, CallsOK, CallOK
  <2>2. \A c \in calls : CallOK(c)'
    BY <1>1, <2>1 DEF CallOK
  <2>3. CallOK(d)'
    BY <1>1, <1>2 DEF CallOK, Working
  <2>4. \A x \in calls' : CallOK(x)'
    BY <1>1, <2>2, <2>3
  <2>5. \A x, y \in calls' : x.no = y.no => x = y
    BY <1>1, <2>1 DEF TableInv, CallsOK
  <2>6. sent' \in Nat
    BY <1>1
  <2>. QED
    BY <2>4, <2>5, <2>6 DEF CallsOK
<1>5. Alone' /\ Fresh'
  BY <1>1, <1>2 DEF TableInv, Alone, Fresh, Working
<1>6. BeatFollowsRow'
  BY <1>1 DEF TableInv, BeatFollowsRow
<1>. QED
  BY <1>3, <1>4, <1>5, <1>6 DEF TableInv

\* A request becomes another of the same number, body and base.
Succeeding(c, d) ==
    /\ HasFields(d)
    /\ d.no = c.no /\ d.kind = c.kind /\ d.body = c.body /\ d.base = c.base
    /\ d.phase = "loaded" => Valid(d.kind, d.body)

LEMMA BecomeCalls ==
    ASSUME CallsOK, NEW c \in calls, NEW d, Become(c, d), Succeeding(c, d),
           d.id \in 0..Len(rows'), d.kind # "create" \/ d.phase \in Working => d.id # 0,
           Len(rows) \in Nat, Len(rows') \in Nat, Len(rows') >= Len(rows), sent' = sent
    PROVE  CallsOK'
<1>1. \A x \in calls : CallOK(x) /\ CallOK(x)'
  BY DEF CallsOK, CallOK
<1>2. CallOK(d)'
  BY <1>1 DEF CallOK, Succeeding
<1>. QED
  BY <1>1, <1>2 DEF CallsOK, Become, Succeeding

\* A request changes to a phase that touches neither the rows nor Beat, and is
\* no more at work after than before.
LEMMA QuietBecome ==
    ASSUME TableInv, NEW c \in calls, NEW d, Become(c, d), Succeeding(c, d),
           d.id = c.id, d.alone = c.alone,
           (d.phase = c.phase /\ d.snap = c.snap) \/ {c.phase, d.phase} \cap Working = {},
           UNCHANGED <<rows, beat, sent, excused>>
    PROVE  TableInv'
<1>1. RowsOK' /\ BeatOK' /\ Unborn'
  BY DEF TableInv, RowsOK, BeatOK, Unborn
<1>2. CallsOK'
  <2>1. CallOK(c) /\ Len(rows) \in Nat
    BY RowsAre DEF TableInv, CallsOK
  <2>. QED
    BY <2>1, BecomeCalls DEF TableInv, CallOK, Succeeding
<1>3. calls' = (calls \ {c}) \cup {d}
  BY DEF Become
<1>4. Alone' /\ Fresh'
  BY <1>3 DEF TableInv, Alone, Fresh, Succeeding
<1>5. BeatFollowsRow'
  BY <1>3 DEF TableInv, BeatFollowsRow, Working
<1>. QED
  BY <1>1, <1>2, <1>4, <1>5 DEF TableInv

LEMMA DeafStep ==
    ASSUME TableInv, NEW c \in calls, Become(c, [c EXCEPT !.waiting = FALSE]),
           UNCHANGED <<rows, beat, sent, excused>>
    PROVE  TableInv'
<1>. PICK d : d = [c EXCEPT !.waiting = FALSE]
  OBVIOUS
<1>1. CallOK(c)
  BY DEF TableInv, CallsOK
<1>2. HasFields(c) /\ (c.phase = "loaded" => Valid(c.kind, c.body))
  BY <1>1 DEF CallOK
<1>3. /\ HasFields(d) /\ d.no = c.no /\ d.kind = c.kind /\ d.body = c.body /\ d.base = c.base
      /\ d.id = c.id /\ d.alone = c.alone /\ d.phase = c.phase /\ d.snap = c.snap
  BY <1>2 DEF HasFields, Fields
<1>4. Succeeding(c, d)
  BY <1>2, <1>3 DEF Succeeding
<1>. QED
  BY <1>3, <1>4, QuietBecome
-----------------------------------------------------------------------------
(* The steps of the server *)

LEMMA CallFacts ==
    ASSUME TableInv, NEW c \in calls
    PROVE  /\ CallOK(c) /\ HasFields(c) /\ c.id \in 0..Len(rows) /\ Len(rows) \in Nat
           /\ c.phase \in Working => c.id \in DOMAIN rows /\ c.id \in Ids
           /\ \A d \in calls : d.no = c.no => d = c
<1>1. CallOK(c) /\ RowsOK
  BY DEF TableInv, CallsOK
<1>. QED
  BY <1>1, RowsAre DEF CallOK, TableInv, CallsOK

LEMMA EndedStep ==
    ASSUME TableInv, NEW c \in calls, NEW phase \in {"refused", "answered"}, c.phase = "sent",
           Become(c, [c EXCEPT !.phase = phase]), UNCHANGED <<rows, beat, sent, excused>>
    PROVE  TableInv'
<1>. PICK d : d = [c EXCEPT !.phase = phase]
  OBVIOUS
<1>1. HasFields(c)
  BY CallFacts
<1>2. /\ HasFields(d) /\ d.no = c.no /\ d.kind = c.kind /\ d.body = c.body /\ d.base = c.base
      /\ d.id = c.id /\ d.alone = c.alone /\ d.phase = phase
  BY <1>1 DEF HasFields, Fields
<1>3. Succeeding(c, d)
  BY <1>2 DEF Succeeding
<1>4. {c.phase, d.phase} \cap Working = {}
  BY <1>2 DEF Working
<1>. QED
  BY <1>2, <1>3, <1>4, QuietBecome

\* Each request o becomes f[o]: c begins its work on its job, and those at
\* work on it, U, are no longer alone.
LEMMA LoadCore ==
    ASSUME TableInv, NEW c \in calls, c.kind # "create", c.phase \notin Working,
           Valid(c.kind, c.body), c.id # 0,
           NEW U, U = {o \in calls \ {c} : o.id = c.id /\ o.phase \in Working},
           NEW f, calls' = {f[o] : o \in calls},
           \A o \in calls : /\ HasFields(f[o]) /\ f[o].no = o.no /\ f[o].id = o.id
                            /\ f[o].kind = o.kind /\ f[o].body = o.body /\ f[o].base = o.base,
           \A o \in calls \ {c} : f[o].phase = o.phase /\ f[o].snap = o.snap,
           \A o \in calls \ {c} : f[o].alone => o.alone /\ o \notin U,
           f[c].phase = "loaded", f[c].alone => U = {},
           UNCHANGED <<rows, beat, sent, excused>>
    PROVE  TableInv'
<1>1. ASSUME NEW o \in calls
      PROVE  CallOK(f[o])'
  <2>1. CallOK(o)
    BY CallFacts
  <2>2. CASE o = c
    BY <2>1, <2>2 DEF CallOK
  <2>3. CASE o # c
    BY <2>1, <2>3 DEF CallOK
  <2>. QED
    BY <2>2, <2>3
<1>2. CallsOK'
  <2>1. \A x \in calls' : CallOK(x)'
    BY <1>1
  <2>2. ASSUME NEW o \in calls, NEW p \in calls, f[o].no = f[p].no
        PROVE  f[o] = f[p]
    <3>1. o.no = p.no
      BY <2>2
    <3>. QED
      BY <3>1, CallFacts
  <2>3. sent' \in Nat
    BY DEF TableInv, CallsOK
  <2>. QED
    BY <2>1, <2>2, <2>3 DEF CallsOK
<1>3. Alone'
  <2>1. ASSUME NEW o \in calls, NEW p \in calls, f[o] # f[p], f[o].id = f[p].id,
               f[o].phase \in Working, f[p].phase \in Working, f[o].alone
        PROVE  FALSE
    <3>1. o # p /\ o.id = p.id
      BY <2>1
    <3>2. CASE o = c
      BY <2>1, <3>1, <3>2
    <3>3. CASE p = c
      BY <2>1, <3>1, <3>3
    <3>4. CASE o # c /\ p # c
      BY <2>1, <3>1, <3>4 DEF TableInv, Alone
    <3>. QED
      BY <3>2, <3>3, <3>4
  <2>. QED
    BY <2>1 DEF Alone
<1>4. Fresh'
  <2>1. ASSUME NEW o \in calls, f[o].phase \in Working, f[o].alone
        PROVE  /\ f[o].phase = "refreshed" => f[o].snap = rows[f[o].id]
               /\ f[o].kind = "create" => beat[f[o].id] = "none"
    <3>1. CASE o = c
      BY <3>1
    <3>2. CASE o # c
      BY <2>1, <3>2 DEF TableInv, Fresh
    <3>. QED
      BY <3>1, <3>2
  <2>. QED
    BY <2>1 DEF Fresh
<1>5. BeatFollowsRow'
  <2>1. ASSUME NEW o \in calls, o.phase \in {"committed", "refreshed"}
        PROVE  f[o] \in calls' /\ f[o].id = o.id /\ f[o].phase = o.phase
    BY <2>1 DEF Working
  <2>. QED
    BY <2>1 DEF TableInv, BeatFollowsRow
<1>6. RowsOK' /\ BeatOK' /\ Unborn'
  BY DEF TableInv, RowsOK, BeatOK, Unborn
<1>. QED
  BY <1>2, <1>3, <1>4, <1>5, <1>6 DEF TableInv

LEMMA LoadStep ==
    ASSUME TableInv, NEW c \in calls, Load(c)
    PROVE  TableInv'
<1>. DEFINE U == Underway(c)
            n == [c EXCEPT !.phase = "loaded", !.snap = rows[c.id], !.alone = (U = {})]
            f == [o \in calls |-> IF o = c THEN n
                                  ELSE IF o \in U THEN [o EXCEPT !.alone = FALSE] ELSE o]
<1>1. /\ c.phase = "sent" /\ c.kind \in {"put", "delete"} /\ Valid(c.kind, c.body)
      /\ UNCHANGED <<rows, beat, sent, excused>>
      /\ calls' = (calls \ ({c} \cup U)) \cup {[d EXCEPT !.alone = FALSE] : d \in U} \cup {n}
  BY DEF Load
<1>2. U = {o \in calls \ {c} : o.id = c.id /\ o.phase \in Working}
  BY DEF Underway, Working
<1>. HIDE DEF U
<1>3. ASSUME NEW o \in calls
      PROVE  /\ HasFields(f[o]) /\ f[o].no = o.no /\ f[o].id = o.id /\ f[o].kind = o.kind
             /\ f[o].body = o.body /\ f[o].base = o.base
             /\ o # c => f[o].phase = o.phase /\ f[o].snap = o.snap
             /\ o # c => (f[o].alone => o.alone /\ o \notin U)
  <2>1. HasFields(o)
    BY CallFacts
  <2>2. CASE o = c
    BY <2>1, <2>2 DEF HasFields, Fields
  <2>3. CASE o # c /\ o \in U
    BY <2>1, <2>3 DEF HasFields, Fields
  <2>4. CASE o # c /\ o \notin U
    BY <2>1, <2>4
  <2>. QED
    BY <2>2, <2>3, <2>4
<1>4. f[c].phase = "loaded" /\ (f[c].alone => U = {})
  <2>1. HasFields(c)
    BY CallFacts
  <2>. QED
    BY <2>1 DEF HasFields, Fields
<1>5. calls' = {f[o] : o \in calls}
  BY <1>1, <1>2
<1>6. c.phase \notin Working /\ c.kind # "create" /\ c.id # 0
  BY <1>1, CallFacts DEF Working, CallOK
<1>. HIDE DEF f, n
<1>7. \A o \in calls : /\ HasFields(f[o]) /\ f[o].no = o.no /\ f[o].id = o.id
                       /\ f[o].kind = o.kind /\ f[o].body = o.body /\ f[o].base = o.base
  BY <1>3
<1>8. \A o \in calls \ {c} : f[o].phase = o.phase /\ f[o].snap = o.snap
  BY <1>3
<1>9. \A o \in calls \ {c} : f[o].alone => o.alone /\ o \notin U
  BY <1>3
<1>10. Valid(c.kind, c.body) /\ UNCHANGED <<rows, beat, sent, excused>>
  BY <1>1
<1>. QED
  BY <1>2, <1>4, <1>5, <1>6, <1>7, <1>8, <1>9, <1>10, LoadCore

LEMMA RowsKept ==
    ASSUME RowsOK, NEW j \in DOMAIN rows, NEW row, IsRecord(row), rows' = [rows EXCEPT ![j] = row]
    PROVE  /\ RowsOK' /\ Len(rows') = Len(rows)
           /\ rows'[j] = row /\ \A i \in DOMAIN rows : i # j => rows'[i] = rows[i]
<1>. PICK S : rows \in Seq(S)
  BY DEF RowsOK
<1>1. rows \in Seq(S \cup {row})
  OBVIOUS
<1>2. rows' \in Seq(S \cup {row}) /\ Len(rows') = Len(rows)
  BY <1>1
<1>3. rows'[j] = row /\ \A i \in DOMAIN rows : i # j => rows'[i] = rows[i]
  OBVIOUS
<1>4. DOMAIN rows' = DOMAIN rows
  OBVIOUS
<1>. QED
  BY <1>2, <1>3, <1>4 DEF RowsOK

\* A request at work goes on: what becomes of the invariant for other jobs.
LEMMA BecomeAlone ==
    ASSUME Alone, NEW c \in calls, NEW d, Become(c, d), c.phase \in Working,
           d.id = c.id, d.alone = c.alone
    PROVE  Alone'
<1>1. \A x \in calls \ {c} : x.id = c.id /\ x.phase \in Working => ~x.alone /\ ~c.alone
  BY DEF Alone
<1>2. \A x \in calls' : x = d \/ x \in calls \ {c}
  BY DEF Become
<1>. QED
  BY <1>1, <1>2 DEF Alone

LEMMA BecomeFresh ==
    ASSUME TableInv, NEW c \in calls, NEW d, Become(c, d), c.phase \in Working,
           d.id = c.id, d.alone = c.alone,
           \A i \in DOMAIN rows : i # c.id => rows'[i] = rows[i] /\ beat'[i] = beat[i],
           d.phase \in Working /\ c.alone =>
               /\ d.phase = "refreshed" => d.snap = rows'[c.id]
               /\ d.kind = "create" => beat'[c.id] = "none"
    PROVE  Fresh'
<1>1. \A x \in calls \ {c} : x.phase \in Working /\ x.alone => x.id # c.id /\ x.id \in DOMAIN rows
  BY CallFacts DEF TableInv, Alone
<1>2. \A x \in calls' : x = d \/ x \in calls \ {c}
  BY DEF Become
<1>. QED
  BY <1>1, <1>2 DEF TableInv, Fresh

LEMMA BecomeFollows ==
    ASSUME TableInv, NEW c \in calls, NEW d, Become(c, d), d.id = c.id,
           Len(rows') = Len(rows),
           \A i \in DOMAIN rows : i # c.id => rows'[i] = rows[i] /\ beat'[i] = beat[i],
           \A i \in DOMAIN rows : i # c.id /\ i \notin excused' => i \notin excused,
           \/ d.phase \in {"committed", "refreshed"}
           \/ c.id \in excused'
           \/ beat'[c.id] = Wanted(rows'[c.id])
           \/ Unregistrable(rows'[c.id])
    PROVE  BeatFollowsRow'
<1>. SUFFICES ASSUME NEW j \in 1..Len(rows) \ excused'
              PROVE  \/ \E x \in calls' : x.id = j /\ x.phase \in {"committed", "refreshed"}
                     \/ beat'[j] = Wanted(rows'[j])
                     \/ Unregistrable(rows'[j])
  BY DEF BeatFollowsRow
<1>1. CASE j = c.id
  BY <1>1 DEF Become
<1>2. CASE j # c.id
  <2>1. j \in DOMAIN rows /\ j \notin excused
    BY <1>2, RowsAre DEF TableInv
  <2>2. \A x \in calls : x.id = j => x \in calls'
    BY <1>2 DEF Become
  <2>. QED
    BY <1>2, <2>1, <2>2 DEF TableInv, BeatFollowsRow
<1>. QED
  BY <1>1, <1>2

LEMMA CommitStep ==
    ASSUME TableInv, NEW c \in calls, Commit(c)
    PROVE  TableInv'
<1>. DEFINE d == [c EXCEPT !.phase = "committed"]
            row == Updated(rows[c.id], c.snap, c.body)
<1>1. /\ c.phase = "loaded" /\ c.phase \in Working /\ rows' = [rows EXCEPT ![c.id] = row]
      /\ Become(c, d) /\ UNCHANGED <<beat, sent, excused>>
  BY DEF Commit, Working
<1>2. /\ HasFields(c) /\ c.id \in DOMAIN rows /\ c.id \in Ids /\ c.id \in 0..Len(rows)
      /\ Len(rows) \in Nat /\ c.id # 0
  BY <1>1, CallFacts, RowsAre DEF TableInv
<1>3. /\ HasFields(d) /\ d.no = c.no /\ d.kind = c.kind /\ d.body = c.body /\ d.base = c.base
      /\ d.id = c.id /\ d.alone = c.alone /\ d.phase = "committed"
  BY <1>2 DEF HasFields, Fields
<1>4. IsRecord(row)
  BY DEF IsRecord, Updated
<1>. HIDE DEF d, row
<1>5. RowsOK' /\ Len(rows') = Len(rows) /\ \A i \in DOMAIN rows : i # c.id => rows'[i] = rows[i]
  BY <1>1, <1>2, <1>4, RowsKept DEF TableInv
<1>6. \A i \in DOMAIN rows : i # c.id => rows'[i] = rows[i] /\ beat'[i] = beat[i]
  BY <1>1, <1>5
<1>7. CallsOK'
  <2>1. Succeeding(c, d)
    BY <1>3 DEF Succeeding
  <2>. QED
    BY <1>1, <1>2, <1>3, <1>5, <2>1, BecomeCalls DEF TableInv
<1>8. Alone'
  BY <1>1, <1>3, BecomeAlone DEF TableInv
<1>9. Fresh'
  <2>1. c.alone /\ c.kind = "create" => beat'[c.id] = "none"
    BY <1>1 DEF TableInv, Fresh
  <2>. QED
    BY <1>1, <1>3, <1>6, <2>1, BecomeFresh
<1>10. BeatFollowsRow'
  BY <1>1, <1>3, <1>5, <1>6, BecomeFollows
<1>11. BeatOK' /\ Unborn'
  BY <1>1, <1>5 DEF TableInv, BeatOK, Unborn
<1>. QED
  BY <1>5, <1>7, <1>8, <1>9, <1>10, <1>11 DEF TableInv
LEMMA CreateStep ==
    ASSUME TableInv, NEW c \in calls, Create(c)
    PROVE  TableInv'
<1>. DEFINE n == Len(rows) + 1
            d == [c EXCEPT !.phase = "committed", !.id = n]
            row == NewJob(c.body)
<1>1. /\ c.phase = "sent" /\ c.phase \notin Working /\ c.kind = "create" /\ Len(rows) < MaxJobs
      /\ rows' = Append(rows, row) /\ Become(c, d) /\ UNCHANGED <<beat, sent, excused>>
  BY DEF Create, Working
<1>2. HasFields(c) /\ Len(rows) \in Nat /\ DOMAIN rows = 1..Len(rows) /\ n \in Ids
  BY <1>1, CallFacts, RowsAre, BoundsAssumption DEF TableInv, Ids
<1>3. /\ HasFields(d) /\ d.no = c.no /\ d.kind = c.kind /\ d.body = c.body /\ d.base = c.base
      /\ d.id = n /\ d.alone = c.alone /\ d.phase = "committed"
  BY <1>2 DEF HasFields, Fields
<1>4. IsRecord(row)
  BY DEF IsRecord, NewJob
<1>. HIDE DEF d, row
<1>5. Len(rows') = n /\ rows'[n] = row /\ \A i \in DOMAIN rows : rows'[i] = rows[i]
  <2>. PICK S : rows \in Seq(S)
    BY DEF TableInv, RowsOK
  <2>1. rows \in Seq(S \cup {row})
    OBVIOUS
  <2>. QED
    BY <1>1, <2>1
<1>6. RowsOK'
  <2>. PICK S : rows \in Seq(S)
    BY DEF TableInv, RowsOK
  <2>1. rows' \in Seq(S \cup {row})
    BY <1>1
  <2>2. DOMAIN rows' = 1..n
    BY <1>5, <2>1
  <2>3. n \in 1..MaxJobs
    BY <1>2 DEF Ids
  <2>4. \A j \in 1..n : IsRecord(rows'[j])
    BY <1>2, <1>4, <1>5 DEF TableInv, RowsOK
  <2>. QED
    BY <1>5, <2>1, <2>2, <2>3, <2>4 DEF RowsOK
<1>7. \A x \in calls \ {c} : x.id \in 0..Len(rows) /\ x \in calls'
  BY <1>1, CallFacts DEF Become
<1>8. \A x \in calls' : x = d \/ x \in calls \ {c}
  BY <1>1 DEF Become
<1>9. CallsOK'
  <2>1. Succeeding(c, d)
    BY <1>3 DEF Succeeding
  <2>2. d.id \in 0..Len(rows') /\ d.id # 0 /\ Len(rows') \in Nat /\ Len(rows') >= Len(rows)
    BY <1>2, <1>3, <1>5
  <2>. QED
    BY <1>1, <1>2, <2>1, <2>2, BecomeCalls DEF TableInv
<1>10. Alone'
  <2>1. \A x \in calls \ {c} : x.id # d.id
    BY <1>2, <1>3, <1>7
  <2>. QED
    BY <1>8, <2>1 DEF TableInv, Alone
<1>11. Fresh'
  <2>1. d.phase # "refreshed" /\ beat[d.id] = "none"
    BY <1>2, <1>3 DEF TableInv, Unborn
  <2>2. \A x \in calls \ {c} : x.phase \in Working => rows'[x.id] = rows[x.id]
    BY <1>5, CallFacts
  <2>. QED
    BY <1>1, <1>8, <2>1, <2>2 DEF TableInv, Fresh
<1>12. Unborn' /\ BeatOK'
  <2>1. \A j \in Ids : j > n => j > Len(rows)
    BY <1>2 DEF Ids
  <2>. QED
    BY <1>1, <1>5, <2>1 DEF TableInv, Unborn, BeatOK
<1>13. BeatFollowsRow'
  <2>. SUFFICES ASSUME NEW j \in 1..n \ excused
                PROVE  \/ \E x \in calls' : x.id = j /\ x.phase \in {"committed", "refreshed"}
                       \/ beat[j] = Wanted(rows'[j])
                       \/ Unregistrable(rows'[j])
    BY <1>1, <1>5 DEF BeatFollowsRow
  <2>1. CASE j = n
    BY <1>1, <1>3, <2>1 DEF Become
  <2>2. CASE j # n
    <3>1. j \in 1..Len(rows) \ excused /\ rows'[j] = rows[j]
      BY <1>2, <1>5, <2>2
    <3>2. \A x \in calls : x.phase \in {"committed", "refreshed"} => x \in calls'
      BY <1>1, <1>7
    <3>. QED
      BY <3>1, <3>2 DEF TableInv, BeatFollowsRow
  <2>. QED
    BY <2>1, <2>2
<1>. QED
  BY <1>6, <1>9, <1>10, <1>11, <1>12, <1>13 DEF TableInv

LEMMA RefreshStep ==
    ASSUME TableInv, NEW c \in calls, Refresh(c)
    PROVE  TableInv'
<1>. DEFINE d == [c EXCEPT !.phase = "refreshed", !.snap = rows[c.id]]
<1>1. /\ c.phase \in Working /\ Become(c, d) /\ UNCHANGED <<rows, beat, sent, excused>>
  BY DEF Refresh, Working
<1>2. HasFields(c) /\ c.id \in 0..Len(rows) /\ Len(rows) \in Nat /\ c.id # 0
  BY <1>1, CallFacts, RowsAre DEF TableInv
<1>3. /\ HasFields(d) /\ d.no = c.no /\ d.kind = c.kind /\ d.body = c.body /\ d.base = c.base
      /\ d.id = c.id /\ d.alone = c.alone /\ d.phase = "refreshed" /\ d.snap = rows[c.id]
  BY <1>2 DEF HasFields, Fields
<1>. HIDE DEF d
<1>4. CallsOK'
  <2>1. Succeeding(c, d)
    BY <1>3 DEF Succeeding
  <2>. QED
    BY <1>1, <1>2, <1>3, <2>1, BecomeCalls DEF TableInv
<1>5. Alone'
  BY <1>1, <1>3, BecomeAlone DEF TableInv
<1>6. \A i \in DOMAIN rows : i # c.id => rows'[i] = rows[i] /\ beat'[i] = beat[i]
  BY <1>1
<1>7. Fresh'
  <2>1. c.alone /\ c.kind = "create" => beat'[c.id] = "none"
    BY <1>1 DEF TableInv, Fresh
  <2>. QED
    BY <1>1, <1>3, <1>6, <2>1, BecomeFresh
<1>8. BeatFollowsRow'
  BY <1>1, <1>3, <1>6, BecomeFollows
<1>9. RowsOK' /\ BeatOK' /\ Unborn'
  BY <1>1 DEF TableInv, RowsOK, BeatOK, Unborn
<1>. QED
  BY <1>4, <1>5, <1>7, <1>8, <1>9 DEF TableInv

LEMMA RescheduleStep ==
    ASSUME TableInv, NEW c \in calls, Reschedule(c)
    PROVE  TableInv'
<1>. DEFINE d == [c EXCEPT !.phase = "answered"]
<1>1. /\ c.phase = "refreshed" /\ c.phase \in Working /\ Become(c, d) /\ UNCHANGED <<rows, sent>>
      /\ beat' = [beat EXCEPT ![c.id] = Rescheduled(c)]
      /\ excused' = IF c.alone /\ c.kind # "create" THEN excused \ {c.id}
                    ELSE IF c.alone THEN excused
                    ELSE excused \cup {c.id}
  BY DEF Reschedule, Working
<1>2. /\ HasFields(c) /\ c.id \in DOMAIN rows /\ c.id \in Ids /\ c.id \in 0..Len(rows)
      /\ Len(rows) \in Nat /\ c.id # 0 /\ DOMAIN rows \subseteq Ids
  BY <1>1, CallFacts, RowsAre DEF TableInv
<1>3. /\ HasFields(d) /\ d.no = c.no /\ d.kind = c.kind /\ d.body = c.body /\ d.base = c.base
      /\ d.id = c.id /\ d.alone = c.alone /\ d.phase = "answered" /\ d.phase \notin Working
  BY <1>2 DEF HasFields, Fields, Working
<1>. HIDE DEF d
<1>4. /\ BeatOK' /\ beat'[c.id] = Rescheduled(c)
      /\ \A i \in Ids : i # c.id => beat'[i] = beat[i]
  BY <1>1, <1>2 DEF TableInv, BeatOK
<1>5. CallsOK'
  <2>1. Succeeding(c, d)
    BY <1>3 DEF Succeeding, Working
  <2>. QED
    BY <1>1, <1>2, <1>3, <2>1, BecomeCalls DEF TableInv
<1>6. Alone'
  BY <1>1, <1>3, BecomeAlone DEF TableInv
<1>7. \A i \in DOMAIN rows : i # c.id => rows'[i] = rows[i] /\ beat'[i] = beat[i]
  BY <1>1, <1>2, <1>4
<1>8. Fresh'
  BY <1>1, <1>3, <1>7, BecomeFresh
<1>9. \/ c.id \in excused'
      \/ beat'[c.id] = Wanted(rows'[c.id])
      \/ Unregistrable(rows'[c.id])
  <2>. SUFFICES ASSUME c.alone
                PROVE  beat'[c.id] = Wanted(rows[c.id]) \/ Unregistrable(rows[c.id])
    BY <1>1
  <2>1. c.snap = rows[c.id] /\ (c.kind = "create" => beat[c.id] = "none")
    BY <1>1 DEF TableInv, Fresh
  <2>. QED
    BY <1>4, <2>1 DEF Rescheduled, Wanted, Unregistrable, Runnable
<1>10. BeatFollowsRow'
  <2>1. \A i \in DOMAIN rows : i # c.id /\ i \notin excused' => i \notin excused
    BY <1>1
  <2>. QED
    BY <1>1, <1>3, <1>7, <1>9, <2>1, BecomeFollows
<1>11. RowsOK' /\ Unborn'
  BY <1>1, <1>2, <1>4 DEF TableInv, RowsOK, Unborn
<1>. QED
  BY <1>4, <1>5, <1>6, <1>8, <1>10, <1>11 DEF TableInv

LEMMA ServeStep ==
    ASSUME TableInv, NEW c \in calls, Serve(c)
    PROVE  TableInv'
<1>1. CASE Refuse(c) \/ Run(c)
  BY <1>1, EndedStep DEF Refuse, Run
<1>. QED
  BY <1>1, LoadStep, CommitStep, CreateStep, RefreshStep, RescheduleStep DEF Serve

LEMMA RestartStep ==
    ASSUME TableInv, Restart
    PROVE  TableInv'
<1>1. /\ beat' = [j \in Ids |-> "none"] /\ excused' = Ids /\ UNCHANGED <<rows, sent>>
      /\ calls' = {[c EXCEPT !.phase = "refused"] : c \in calls}
  BY DEF Restart
<1>2. ASSUME NEW c \in calls, NEW d, d = [c EXCEPT !.phase = "refused"]
      PROVE  /\ HasFields(d) /\ d.no = c.no /\ d.kind = c.kind /\ d.body = c.body
             /\ d.base = c.base /\ d.id = c.id /\ d.phase = "refused"
  <2>1. HasFields(c)
    BY CallFacts
  <2>. QED
    BY <1>2, <2>1 DEF HasFields, Fields
<1>3. \A d \in calls' : \E c \in calls : d = [c EXCEPT !.phase = "refused"]
  BY <1>1
<1>4. CallsOK'
  <2>1. ASSUME NEW d \in calls'
        PROVE  CallOK(d)'
    <3>. PICK c \in calls : d = [c EXCEPT !.phase = "refused"]
      BY <1>3
    <3>1. /\ HasFields(d) /\ d.no = c.no /\ d.kind = c.kind /\ d.body = c.body
          /\ d.base = c.base /\ d.id = c.id /\ d.phase = "refused"
      BY <1>2
    <3>2. CallOK(c)
      BY CallFacts
    <3>. QED
      BY <1>1, <3>1, <3>2 DEF CallOK, Working
  <2>2. ASSUME NEW d \in calls', NEW e \in calls', d.no = e.no
        PROVE  d = e
    <3>. PICK c \in calls, x \in calls :
            d = [c EXCEPT !.phase = "refused"] /\ e = [x EXCEPT !.phase = "refused"]
      BY <1>3
    <3>1. d.no = c.no /\ e.no = x.no
      BY <1>2
    <3>2. c = x
      BY <2>2, <3>1, CallFacts
    <3>. QED
      BY <3>2
  <2>. QED
    BY <1>1, <2>1, <2>2 DEF TableInv, CallsOK
<1>5. \A d \in calls' : d.phase = "refused"
  BY <1>2, <1>3
<1>6. Alone' /\ Fresh'
  BY <1>5 DEF Alone, Fresh, Working
<1>7. BeatFollowsRow'
  <2>1. 1..Len(rows) \subseteq Ids
    BY RowsAre DEF TableInv
  <2>. QED
    BY <1>1, <2>1 DEF BeatFollowsRow
<1>8. RowsOK' /\ BeatOK' /\ Unborn'
  BY <1>1 DEF TableInv, RowsOK, BeatOK, Unborn
<1>. QED
  BY <1>4, <1>6, <1>7, <1>8 DEF TableInv
-----------------------------------------------------------------------------
(* The pages *)

LEMMA ScreenKept ==
    ASSUME ScreenOK, DOMAIN rows \subseteq DOMAIN rows',
           UNCHANGED <<target, form, known, list>>, fetch' = fetch \/ fetch'[1] # "rows"
    PROVE  ScreenOK'
BY DEF ScreenOK

\* Forms are empty, or filled from one row.
LEMMA FormFrom ==
    /\ NewForm.base = {}
    /\ \A row : IsRecord(row) => \A r \in FormOf(row).base : IsRecord(r) /\ FormOf(row) = FormOf(r)
BY DEF NewForm, FormOf

LEMMA OpenScreen ==
    ASSUME ScreenOK, TableInv, NEW p, NEW j \in DOMAIN rows, NEW f, NEW l, Open(p, j, f, l),
           \A row \in f.base : IsRecord(row) /\ f = FormOf(row),
           known' = known \/ known' = [known EXCEPT ![j] = {}],
           UNCHANGED <<rows, list>>, fetch' = fetch \/ fetch'[1] # "rows"
    PROVE  ScreenOK'
<1>1. j \in Ids
  BY RowsAre DEF TableInv
<1>2. known' = [k \in Ids |-> known'[k]] /\ \A k \in Ids : \A row \in known'[k] : IsRecord(row)
  <2>1. CASE known' = known
    BY <2>1 DEF ScreenOK
  <2>2. CASE known' = [known EXCEPT ![j] = {}]
    BY <1>1, <2>2 DEF ScreenOK
  <2>. QED
    BY <2>1, <2>2
<1>3. target' = j /\ form' = f
  BY DEF Open
<1>. QED
  BY <1>2, <1>3 DEF ScreenOK

LEMMA OpenListScreen ==
    ASSUME ScreenOK, TableInv, OpenList, UNCHANGED <<rows, list>>
    PROVE  ScreenOK'
<1>1. 1 \in DOMAIN rows
  BY RowsAre DEF TableInv
<1>2. fetch' = fetch \/ fetch'[1] # "rows"
  BY DEF OpenList, Asked
<1>. QED
  BY <1>1, <1>2, FormFrom, OpenScreen DEF OpenList

LEMMA NavigateStep ==
    ASSUME JobsInv, Navigate
    PROVE  ScreenOK'
<1>1. ScreenOK /\ TableInv /\ UNCHANGED <<rows, list>> /\ 1 \in DOMAIN rows /\ DOMAIN rows \subseteq Ids
  BY RowsAre DEF JobsInv, TableInv, Navigate, tableVars
<1>2. CASE OpenList
  BY <1>1, <1>2, OpenListScreen
<1>3. CASE OpenNew /\ UNCHANGED fetch
  BY <1>1, <1>3, FormFrom, OpenScreen DEF OpenNew
<1>4. ASSUME NEW j \in DOMAIN rows, OpenEdit(j), UNCHANGED fetch
      PROVE  ScreenOK'
  <2>1. ASSUME NEW row \in known[j], Open("edit", j, FormOf(row), TRUE), UNCHANGED known
        PROVE  ScreenOK'
    <3>1. IsRecord(row)
      BY <1>1 DEF ScreenOK
    <3>. QED
      BY <1>1, <1>4, <2>1, <3>1, FormFrom, OpenScreen
  <2>2. CASE Open("edit", j, NewForm, FALSE) /\ known' = [known EXCEPT ![j] = {}]
    BY <1>1, <1>4, <2>2, FormFrom, OpenScreen
  <2>. QED
    BY <1>4, <2>1, <2>2 DEF OpenEdit
<1>. QED
  BY <1>2, <1>3, <1>4 DEF Navigate

LEMMA JobArrivesStep ==
    ASSUME JobsInv, JobArrives, UNCHANGED listVars
    PROVE  ScreenOK'
<1>1. /\ known' = [known EXCEPT ![target] = {rows[target]}]
      /\ form' = (IF loaded THEN form ELSE FormOf(rows[target]))
      /\ UNCHANGED <<rows, target, list, fetch>>
  BY DEF JobArrives, tableVars, listVars
<1>2. target \in DOMAIN rows /\ target \in Ids /\ IsRecord(rows[target])
  BY RowsAre DEF JobsInv, ScreenOK, TableInv, RowsOK
<1>3. known' = [k \in Ids |-> known'[k]] /\ \A k \in Ids : \A row \in known'[k] : IsRecord(row)
  BY <1>1, <1>2 DEF JobsInv, ScreenOK
<1>4. \A row \in form'.base : IsRecord(row) /\ form' = FormOf(row)
  BY <1>1, <1>2, FormFrom DEF JobsInv, ScreenOK
<1>. QED
  BY <1>1, <1>3, <1>4 DEF JobsInv, ScreenOK

LEMMA HandleSaveStep ==
    ASSUME JobsInv, HandleSave, UNCHANGED listVars
    PROVE  JobsInv'
<1>1. PICK f : Send(visit, page, IF page = "new" THEN "create" ELSE "put",
                    IF page = "new" THEN 0 ELSE target,
                    BodyOf(f), IF f = form THEN f.base ELSE {})
  BY DEF HandleSave
<1>2. UNCHANGED <<rows, beat, excused, target, form, known, list, fetch>>
  BY DEF HandleSave, listVars
<1>. DEFINE kind == IF page = "new" THEN "create" ELSE "put"
            id == IF page = "new" THEN 0 ELSE target
            base == IF f = form THEN f.base ELSE {}
<1>3. id \in 0..Len(rows) /\ (kind # "create" => id # 0)
  BY RowsAre DEF JobsInv, TableInv, ScreenOK
<1>4. \A row \in base : IsRecord(row) /\ BodyOf(f) = BodyOf(FormOf(row))
  BY DEF JobsInv, ScreenOK
<1>5. Send(visit, page, kind, id, BodyOf(f), base)
  BY <1>1
<1>. HIDE DEF kind, id, base
<1>6. TableInv'
  BY <1>2, <1>3, <1>4, <1>5, SendStep DEF JobsInv
<1>7. ScreenOK'
  BY <1>2, ScreenKept DEF JobsInv
<1>. QED
  BY <1>6, <1>7 DEF JobsInv

LEMMA OtherSendStep ==
    ASSUME JobsInv, NEW v, NEW p, NEW kind \in {"put", "run", "delete"}, NEW j \in DOMAIN rows, NEW body,
           Send(v, p, kind, j, body, {}),
           UNCHANGED <<rows, beat, excused, target, form, known, list, fetch>>
    PROVE  JobsInv'
<1>1. j \in 0..Len(rows) /\ j # 0 /\ kind # "create"
  BY RowsAre DEF JobsInv, TableInv
<1>2. TableInv'
  BY <1>1, SendStep DEF JobsInv
<1>3. ScreenOK'
  BY ScreenKept DEF JobsInv
<1>. QED
  BY <1>2, <1>3 DEF JobsInv

LEMMA ButtonStep ==
    ASSUME JobsInv, NEW j \in DOMAIN list, Toggle(j) \/ RunNow(j) \/ Delete(j)
    PROVE  JobsInv'
<1>1. ASSUME NEW kind \in {"put", "run", "delete"}, NEW body, Button(kind, j, body)
      PROVE  JobsInv'
  <2>1. j \in DOMAIN rows
    BY DEF JobsInv, ScreenOK
  <2>. QED
    BY <1>1, <2>1, OtherSendStep DEF Button, formVars
<1>. QED
  BY <1>1 DEF Toggle, RunNow, Delete

LEMMA OtherStep ==
    ASSUME JobsInv, Other
    PROVE  JobsInv'
<1>1. UNCHANGED <<rows, beat, excused, target, form, known, list, fetch>>
  BY DEF Other, formVars
<1>2. ASSUME NEW j \in DOMAIN rows, NEW body, Send(0, "api", "put", j, body, {})
      PROVE  JobsInv'
  BY <1>1, <1>2, OtherSendStep
<1>. QED
  BY <1>2 DEF Other

\* Answers that arrive, and those nobody waits for.
LEMMA AnswerStep ==
    ASSUME JobsInv, NEW c \in calls,
           \/ Unheard(c) /\ UNCHANGED <<formVars, listVars>>
           \/ Succeeds(c) \/ Fails(c) \/ SaveSucceeds(c) \/ AnswerLost(c)
           \/ c.phase = "refused" /\ SaveFails(c) /\ UNCHANGED listVars
    PROVE  JobsInv'
<1>1. UNCHANGED <<rows, beat, sent, excused>>
  BY DEF Unheard, Succeeds, Fails, Heard, SaveSucceeds, SaveFails, AnswerLost
<1>2. TableInv'
  <2>1. CASE AnswerLost(c)
    <3>1. Become(c, [c EXCEPT !.waiting = FALSE])
      BY <2>1 DEF AnswerLost, SaveFails
    <3>. QED
      BY <1>1, <3>1, DeafStep DEF JobsInv
  <2>2. CASE ~AnswerLost(c)
    <3>1. calls' = calls \ {c} /\ c.phase \in {"answered", "refused"}
      BY <2>2 DEF Unheard, Succeeds, Fails, SaveSucceeds, SaveFails
    <3>2. c.phase \notin Working
      BY <3>1 DEF Working
    <3>. QED
      BY <1>1, <3>1, <3>2, DropStep DEF JobsInv
  <2>. QED
    BY <2>1, <2>2
<1>3. ScreenOK'
  <2>1. CASE SaveSucceeds(c)
    BY <2>1, OpenListScreen DEF SaveSucceeds, JobsInv
  <2>2. CASE ~SaveSucceeds(c)
    <3>1. UNCHANGED <<target, form, known, list>>
      BY <2>2 DEF Unheard, Succeeds, Fails, Heard, SaveFails, AnswerLost, formVars, listVars
    <3>2. fetch' = fetch \/ fetch'[1] # "rows"
      BY <2>2 DEF Unheard, Succeeds, Fails, Heard, SaveFails, AnswerLost, listVars, Asked
    <3>. QED
      BY <1>1, <3>1, <3>2, ScreenKept DEF JobsInv
  <2>. QED
    BY <2>1, <2>2
<1>. QED
  BY <1>2, <1>3 DEF JobsInv

LEMMA Grows ==
    ASSUME TableInv, NEW c \in calls, Serve(c)
    PROVE  DOMAIN rows \subseteq DOMAIN rows'
<1>1. CASE Create(c)
  <2>. PICK S : rows \in Seq(S)
    BY DEF TableInv, RowsOK
  <2>. DEFINE row == NewJob(c.body)
  <2>1. rows \in Seq(S \cup {row}) /\ rows' = Append(rows, row)
    BY <1>1 DEF Create
  <2>. HIDE DEF row
  <2>. QED
    BY <2>1
<1>2. CASE ~Create(c)
  BY <1>2 DEF Serve, Refuse, Load, Commit, Refresh, Reschedule, Run
<1>. QED
  BY <1>1, <1>2
-----------------------------------------------------------------------------

LEMMA InitInv == Init => JobsInv
<1>. SUFFICES ASSUME Init
              PROVE  JobsInv
  OBVIOUS
<1>1. PICK row \in Job : rows = <<row>>
  BY FaultsAssumption DEF Init
<1>2. IsRecord(row)
  BY <1>1 DEF Job, IsRecord
<1>3. rows \in Seq({row}) /\ Len(rows) = 1 /\ DOMAIN rows = {1} /\ rows[1] = row /\ 1 \in Ids
  BY <1>1, BoundsAssumption DEF Ids
<1>4. RowsOK
  BY <1>2, <1>3 DEF RowsOK, Ids
<1>5. /\ beat = [j \in Ids |-> beat[j]]
      /\ \A j \in Ids : j # 1 => beat[j] = "none"
      /\ beat[1] = Wanted(row) \/ excused = Ids
  BY <1>3 DEF Init
<1>6. CallsOK /\ Alone /\ Fresh
  BY DEF Init, CallsOK, Alone, Fresh
<1>7. BeatOK /\ Unborn
  BY <1>3, <1>5 DEF BeatOK, Unborn
<1>8. BeatFollowsRow
  <2>1. ASSUME NEW j \in 1..Len(rows) \ excused
        PROVE  beat[j] = Wanted(rows[j])
    <3>1. j = 1 /\ j \in Ids
      BY <1>3
    <3>. QED
      BY <1>3, <1>5, <3>1
  <2>. QED
    BY <2>1 DEF BeatFollowsRow
<1>9. ScreenOK
  <2>1. target = 1 /\ form = NewForm /\ fetch[1] = "asked" /\ DOMAIN list = {}
    BY DEF Init, Asked
  <2>2. known = [j \in Ids |-> known[j]] /\ \A j \in Ids : \A r \in known[j] : r = row
    BY <1>3 DEF Init
  <2>. QED
    BY <1>2, <1>3, <2>1, <2>2, FormFrom DEF ScreenOK
<1>. QED
  BY <1>4, <1>6, <1>7, <1>9, <1>8 DEF JobsInv, TableInv

LEMMA NextInv == JobsInv /\ [Next]_vars => JobsInv'
<1>. SUFFICES ASSUME JobsInv, [Next]_vars
              PROVE  JobsInv'
  OBVIOUS
<1>1. ASSUME UNCHANGED tableVars
      PROVE  TableInv'
  BY <1>1 DEF tableVars, JobsInv, TableInv, RowsOK, BeatOK, CallsOK, CallOK, Alone, Fresh, Unborn,
              BeatFollowsRow
<1>2. CASE UNCHANGED vars
  <2>1. ScreenOK'
    BY <1>2, ScreenKept DEF vars, tableVars, formVars, listVars, JobsInv
  <2>. QED
    BY <1>1, <1>2, <2>1 DEF vars, JobsInv
<1>3. CASE Navigate
  BY <1>1, <1>3, NavigateStep DEF Navigate, JobsInv
<1>4. CASE ListServed
  <2>1. /\ UNCHANGED <<tableVars, target, form, known, list>>
        /\ fetch' = <<"rows", IF "items" \in Adapts THEN Flags ELSE <<>> >>
    BY <1>4 DEF ListServed, formVars
  <2>2. DOMAIN fetch'[2] \subseteq DOMAIN rows
    BY <2>1 DEF Flags
  <2>3. ScreenOK'
    BY <2>1, <2>2 DEF JobsInv, ScreenOK, tableVars
  <2>. QED
    BY <1>1, <2>1, <2>3 DEF JobsInv
<1>5. CASE ListArrives
  <2>1. /\ UNCHANGED <<tableVars, target, form, known>> /\ list' = fetch[2]
        /\ fetch[1] = "rows" /\ fetch'[1] # "rows"
    BY <1>5 DEF ListArrives, formVars, Idle
  <2>2. ScreenOK'
    BY <2>1 DEF JobsInv, ScreenOK, tableVars
  <2>. QED
    BY <1>1, <2>1, <2>2 DEF JobsInv
<1>6. CASE JobArrives /\ UNCHANGED listVars
  BY <1>1, <1>6, JobArrivesStep DEF JobArrives, JobsInv
<1>7. CASE HandleSave /\ UNCHANGED listVars
  BY <1>7, HandleSaveStep
<1>8. ASSUME NEW c \in calls, Serve(c), UNCHANGED <<formVars, listVars>>
      PROVE  JobsInv'
  <2>1. TableInv' /\ DOMAIN rows \subseteq DOMAIN rows'
    BY <1>8, ServeStep, Grows DEF JobsInv
  <2>2. ScreenOK'
    BY <1>8, <2>1, ScreenKept DEF JobsInv, formVars, listVars
  <2>. QED
    BY <2>1, <2>2 DEF JobsInv
<1>9. CASE ServerRestarts
  <2>1. TableInv' /\ UNCHANGED <<rows, target, form, known, list, fetch>>
    BY <1>9, RestartStep DEF ServerRestarts, JobsInv, Restart, formVars
  <2>2. ScreenOK'
    BY <2>1, ScreenKept DEF JobsInv
  <2>. QED
    BY <2>1, <2>2 DEF JobsInv
<1>. QED
  BY <1>2, <1>3, <1>4, <1>5, <1>6, <1>7, <1>8, <1>9, ButtonStep, AnswerStep, OtherStep DEF Next, Server

LEMMA AlwaysJobsInv == Spec => []JobsInv
BY InitInv, NextInv, PTL DEF Spec

\* Once nothing is under way for a job, Beat holds what its row asks for,
\* unless its schedule cannot be registered, the API process has restarted,
\* or two requests have overlapped (update_job, register_job_schedule).
THEOREM BeatFollowsRowHolds == Spec => []BeatFollowsRow
<1>1. JobsInv => BeatFollowsRow
  BY DEF JobsInv, TableInv
<1>. QED
  BY <1>1, AlwaysJobsInv, PTL

(***************************************************************************)
(* Type correctness                                                        *)
(***************************************************************************)
CallPages == {"list", "new", "edit", "api"}
CallKinds == {"create", "put", "delete", "run"}
Phases == {"sent", "loaded", "committed", "refreshed", "answered", "refused"}

\* The fields a body can have, with the mappings of a form.
BodyOK(body) ==
    /\ DOMAIN body \subseteq {"enabled", "direction", "filters", "mappings", "schedule"}
    /\ "enabled" \in DOMAIN body => body.enabled \in BOOLEAN
    /\ "direction" \in DOMAIN body => body.direction \in Directions
    /\ "filters" \in DOMAIN body => body.filters \in Filters
    /\ "mappings" \in DOMAIN body => body.mappings \in {"default", "valid", "muted"}
    /\ "schedule" \in DOMAIN body => body.schedule \in Schedules

CallTyped(c) ==
    /\ c.visit \in 0..visit /\ c.page \in CallPages /\ c.kind \in CallKinds
    /\ c.base \subseteq Job /\ BodyOK(c.body)
    /\ c.phase \in Phases /\ c.snap \in Job
    /\ c.alone \in BOOLEAN /\ c.waiting \in BOOLEAN
    /\ c.phase = "answered" => c.id # 0

RowTypes ==
    /\ rows \in Seq(Job)
    /\ beat \in [Ids -> Schedules]
    /\ sent \in 0..MaxCalls
    /\ excused \subseteq Ids

\* Who opens a page without the user's leave: a save that succeeds.
Saves == {c.no : c \in {d \in calls : Ours(d)}}
Visits == visit \in Nat \ {0} /\ visit + Cardinality(Saves) <= MaxVisits + sent

PageTypes ==
    /\ page \in Pages /\ form \in Form
    /\ saving \in BOOLEAN /\ loaded \in BOOLEAN
    /\ known \in [Ids -> SUBSET Job]

Fetched(x) == x = <<"rows", x[2]>> /\ x[2] \in Seq(BOOLEAN)
ListTypes ==
    /\ fetch = Idle \/ fetch = Asked \/ Fetched(fetch)
    /\ list \in Seq(BOOLEAN)
    /\ stale \in BOOLEAN
    /\ pressed \subseteq {"put", "run", "delete"} \X Ids
    /\ others \in 0..MaxOthers
    /\ failures \in 0..MaxFailures

DeskTypes ==
    RowTypes /\ (\A c \in calls : CallTyped(c)) /\ Visits /\ PageTypes /\ ListTypes

-----------------------------------------------------------------------------
(* Jobs, forms and bodies *)

LEMMA FormsTyped ==
    ASSUME NEW row \in Job
    PROVE  NewForm \in Form /\ FormOf(row) \in Form
<1>1. "none" \in Schedules /\ NoFilters \in Filters
  BY SchedulesAssumption, FiltersAssumption
<1>2. /\ row.enabled \in BOOLEAN /\ row.direction \in Directions /\ row.filters \in Filters
      /\ row.mappings \in Mappings /\ row.schedule \in Schedules
  BY DEF Job
<1>3. NewForm \in Form
  <2>1. (CHOOSE d \in Directions : TRUE) \in Directions
    BY <1>2
  <2>. QED  BY <1>1, <2>1 DEF NewForm, Form
<1>4. FormOf(row) \in Form
  BY <1>1, <1>2 DEF FormOf, Form
<1>. QED  BY <1>3, <1>4

LEMMA FilledTyped ==
    ASSUME NEW f \in Form
    PROVE  Filled(f) \subseteq Form
<1>1. \A g \in Form : StepBasicInfo(g) \subseteq Form
  <2>1. \A g \in Form, b \in BOOLEAN : [g EXCEPT !.named = b] \in Form
    BY DEF Form
  <2>2. \A g \in Form, d \in Directions : [g EXCEPT !.direction = d] \in Form
    BY DEF Form
  <2>. DEFINE Named(g, b, d) == [g EXCEPT !.named = b, !.direction = d]
  <2>3. \A g \in Form, b \in BOOLEAN, d \in Directions : Named(g, b, d) \in Form
    BY <2>1, <2>2, Zenon
  <2>4. ASSUME NEW g  PROVE StepBasicInfo(g) = {Named(g, b, d) : b \in BOOLEAN, d \in Directions}
    BY DEF StepBasicInfo
  <2>. HIDE DEF Named
  <2>. QED  BY <2>3, <2>4
<1>2. \A g \in Form : StepFilters(g) \subseteq Form
  BY DEF StepFilters, Form
<1>3. \A g \in Form : StepFieldMappings(g) \subseteq Form
  BY DEF StepFieldMappings, Form
<1>4. \A g \in Form : StepSchedule(g) \subseteq Form
  BY DEF StepSchedule, Form
<1>. QED  BY <1>1, <1>2, <1>3, <1>4 DEF Filled

LEMMA BodyTyped ==
    ASSUME NEW f \in Form
    PROVE  BodyOK(BodyOf(f))
<1>. DEFINE body == BodyOf(f)
<1>1. /\ f.enabled \in BOOLEAN /\ f.direction \in Directions /\ f.filters \in Filters
      /\ f.mappings \in {"none", "default", "valid"} /\ f.schedule \in Schedules
  BY DEF Form
<1>2. /\ DOMAIN body = SentFields(f)
      /\ \A k \in SentFields(f) : body[k] = IF k = "mappings" /\ f.mappings = "none" THEN "default" ELSE f[k]
  BY DEF BodyOf
<1>3. SentFields(f) \subseteq {"enabled", "direction", "filters", "mappings", "schedule"}
  BY DEF SentFields
<1>. HIDE DEF body
<1>4. BodyOK(body)
  BY <1>1, <1>2, <1>3 DEF BodyOK
<1>. QED  BY <1>4 DEF body

LEMMA EnableTyped ==
    /\ \A b \in BOOLEAN : BodyOK(Enable(b))
    /\ \A s \in Schedules : BodyOK([schedule |-> s])
    /\ \A m \in {"valid", "muted"} : BodyOK([mappings |-> m])
    /\ BodyOK(<<>>)
BY DEF BodyOK, Enable

LEMMA NewJobTyped ==
    ASSUME NEW body, BodyOK(body), Valid("create", body)
    PROVE  NewJob(body) \in Job
<1>1. "none" \in Schedules /\ NoFilters \in Filters
  BY SchedulesAssumption, FiltersAssumption
<1>. DEFINE row == NewJob(body)
<1>2. DOMAIN Default = {"enabled", "filters", "mappings", "schedule"} /\ "direction" \in DOMAIN body
      /\ ("mappings" \in DOMAIN body => body.mappings # "default")
  BY DEF Default, Valid
<1>3. DOMAIN Default \cup DOMAIN body = {"enabled", "direction", "filters", "mappings", "schedule"}
  BY <1>2 DEF BodyOK
<1>4. row = [k \in {"enabled", "direction", "filters", "mappings", "schedule"} |->
                IF k \in DOMAIN body THEN body[k] ELSE Default[k]]
  BY <1>3 DEF NewJob
<1>5. row = [enabled |-> row.enabled, direction |-> row.direction, filters |-> row.filters,
             mappings |-> row.mappings, schedule |-> row.schedule]
  BY <1>4
<1>6. row.enabled \in BOOLEAN /\ row.direction \in Directions /\ row.filters \in Filters
      /\ row.mappings \in Mappings /\ row.schedule \in Schedules
  BY <1>1, <1>2, <1>4 DEF BodyOK, Default, Mappings
<1>. HIDE DEF row
<1>7. row \in Job
  BY <1>5, <1>6 DEF Job
<1>. QED  BY <1>7 DEF row

LEMMA UpdatedTyped ==
    ASSUME NEW row \in Job, NEW snap, NEW body, BodyOK(body),
           "mappings" \in DOMAIN body => body.mappings # "default"
    PROVE  Updated(row, snap, body) \in Job
<1>. DEFINE new == Updated(row, snap, body)
            fields == {"enabled", "direction", "filters", "mappings", "schedule"}
<1>1. DOMAIN row = fields
  BY DEF Job
<1>2. /\ row.enabled \in BOOLEAN /\ row.direction \in Directions /\ row.filters \in Filters
      /\ row.mappings \in Mappings /\ row.schedule \in Schedules
  BY DEF Job
<1>3. new = [f \in fields |-> IF f \in DOMAIN body /\ body[f] # snap[f] THEN body[f] ELSE row[f]]
  BY <1>1 DEF Updated
<1>4. new = [enabled |-> new.enabled, direction |-> new.direction, filters |-> new.filters,
             mappings |-> new.mappings, schedule |-> new.schedule]
  BY <1>3
<1>5. new.enabled \in BOOLEAN /\ new.direction \in Directions /\ new.filters \in Filters
      /\ new.mappings \in Mappings /\ new.schedule \in Schedules
  BY <1>2, <1>3 DEF BodyOK, Mappings
<1>. HIDE DEF new
<1>6. new \in Job
  BY <1>4, <1>5 DEF Job
<1>. QED  BY <1>6 DEF new

-----------------------------------------------------------------------------
(* Requests and the visits they pay for *)

LEMMA CallNumbers ==
    ASSUME CallsOK
    PROVE  /\ IsFiniteSet(Saves) /\ Saves \subseteq 1..sent /\ Cardinality(Saves) \in 0..sent
           /\ \A T \in SUBSET Saves : Cardinality(T) \in 0..Cardinality(Saves)
           /\ \A n \in Saves : Cardinality(Saves \ {n}) + 1 = Cardinality(Saves)
           /\ \A n : \A T \in SUBSET (Saves \cup {n}) : Cardinality(T) \in 0..(Cardinality(Saves) + 1)
<1>1. sent \in Nat /\ \A c \in calls : c.no \in 1..sent
  BY DEF CallsOK, CallOK
<1>2. Saves \subseteq 1..sent
  BY <1>1 DEF Saves
<1>3. IsFiniteSet(1..sent) /\ Cardinality(1..sent) = sent
  BY <1>1, FS_Interval
<1>4. IsFiniteSet(Saves) /\ Cardinality(Saves) \in Nat /\ Cardinality(Saves) <= sent
  BY <1>2, <1>3, FS_Subset, FS_CardinalityType
<1>5. ASSUME NEW n, NEW T \in SUBSET (Saves \cup {n})
      PROVE  Cardinality(T) \in 0..(Cardinality(Saves) + 1)
  <2>1. IsFiniteSet(Saves \cup {n}) /\ Cardinality(Saves \cup {n}) <= Cardinality(Saves) + 1
        /\ Cardinality(Saves \cup {n}) \in Nat
    BY <1>4, FS_AddElement
  <2>2. Cardinality(T) <= Cardinality(Saves \cup {n}) /\ Cardinality(T) \in Nat
    BY <2>1, FS_Subset, FS_CardinalityType
  <2>. QED  BY <1>4, <2>1, <2>2
<1>6. ASSUME NEW T \in SUBSET Saves
      PROVE  Cardinality(T) \in 0..Cardinality(Saves)
  <2>1. Cardinality(T) <= Cardinality(Saves) /\ Cardinality(T) \in Nat
    BY <1>4, FS_Subset, FS_CardinalityType
  <2>. QED  BY <1>4, <2>1
<1>7. ASSUME NEW n \in Saves
      PROVE  Cardinality(Saves \ {n}) + 1 = Cardinality(Saves)
  <2>1. Cardinality(Saves \ {n}) = Cardinality(Saves) - 1
    BY <1>4, FS_RemoveElement
  <2>. QED  BY <1>4, <2>1
<1>. QED  BY <1>1, <1>2, <1>4, <1>5, <1>6, <1>7

\* A request goes on, or stays as it is.
Follows(c, d) ==
    /\ d.no = c.no /\ d.visit = c.visit /\ d.page = c.page /\ d.kind = c.kind
    /\ d.body = c.body /\ d.base = c.base
    /\ d.waiting \in BOOLEAN /\ d.alone \in BOOLEAN
    /\ d.waiting => c.waiting
    /\ d.phase \in Phases /\ d.snap \in Job
    /\ d.phase = "answered" => d.id # 0

LEMMA ItselfFollows ==
    ASSUME NEW c, CallTyped(c)
    PROVE  Follows(c, c)
BY DEF CallTyped, Follows

LEMMA CallsFollow ==
    ASSUME CallsOK, DeskTypes, \A d \in calls' : \E c \in calls : Follows(c, d),
           UNCHANGED <<sent, visit>>
    PROVE  (\A d \in calls' : CallTyped(d)') /\ Visits'
<1>1. ASSUME NEW d \in calls', NEW c \in calls, Follows(c, d)
      PROVE  CallTyped(d)' /\ (Ours(d) => Ours(c))
  BY <1>1 DEF CallTyped, Follows, DeskTypes, Ours
<1>. DEFINE T == {d.no : d \in {e \in calls' : Ours(e)}}
<1>2. T \subseteq Saves
  <2>1. ASSUME NEW d \in calls', Ours(d)
        PROVE  d.no \in Saves
    <3>. PICK c \in calls : Follows(c, d)
      OBVIOUS
    <3>. QED  BY <1>1, <2>1 DEF Saves, Follows
  <2>. QED  BY <2>1
<1>3. Saves' = T
  BY DEF Saves
<1>. HIDE DEF T
<1>4. Cardinality(T) \in 0..Cardinality(Saves) /\ Cardinality(Saves) \in 0..sent
  BY <1>2, CallNumbers
<1>5. sent \in Nat /\ MaxVisits \in Nat /\ visit' = visit /\ sent' = sent
  BY VisitsAssumption DEF CallsOK
<1>6. visit \in Nat \ {0} /\ visit + Cardinality(T) <= MaxVisits + sent
  BY <1>4, <1>5 DEF DeskTypes, Visits
<1>7. Visits'
  BY <1>3, <1>5, <1>6 DEF Visits
<1>. QED  BY <1>1, <1>7

\* A request is answered, or forgotten.
LEMMA CallsFewer ==
    ASSUME CallsOK, DeskTypes, NEW c \in calls, calls' = calls \ {c}, UNCHANGED <<sent, visit>>
    PROVE  (\A d \in calls' : CallTyped(d)') /\ Visits'
<1>1. \A d \in calls' : \E b \in calls : Follows(b, d)
  BY ItselfFollows DEF DeskTypes
<1>. QED  BY <1>1, CallsFollow

LEMMA CallsBecome ==
    ASSUME CallsOK, DeskTypes, NEW c \in calls, NEW d, Become(c, d), Follows(c, d),
           UNCHANGED <<sent, visit>>
    PROVE  (\A e \in calls' : CallTyped(e)') /\ Visits'
<1>1. \A e \in calls' : \E b \in calls : Follows(b, e)
  BY ItselfFollows DEF DeskTypes, Become
<1>. QED  BY <1>1, CallsFollow

LEMMA PhaseFollows ==
    ASSUME NEW c, HasFields(c), CallTyped(c), NEW phase \in Phases, phase = "answered" => c.id # 0
    PROVE  /\ Follows(c, [c EXCEPT !.phase = phase])
           /\ \A snap \in Job : Follows(c, [c EXCEPT !.phase = phase, !.snap = snap])
           /\ \A snap \in Job, alone \in BOOLEAN :
                 Follows(c, [c EXCEPT !.phase = phase, !.snap = snap, !.alone = alone])
           /\ \A id : phase # "answered" => Follows(c, [c EXCEPT !.phase = phase, !.id = id])
<1>1. Follows(c, [c EXCEPT !.phase = phase])
  BY DEF HasFields, Fields, CallTyped, Follows
<1>2. \A snap \in Job : Follows(c, [c EXCEPT !.phase = phase, !.snap = snap])
  BY DEF HasFields, Fields, CallTyped, Follows
<1>3. \A snap \in Job, alone \in BOOLEAN :
          Follows(c, [c EXCEPT !.phase = phase, !.snap = snap, !.alone = alone])
  BY DEF HasFields, Fields, CallTyped, Follows
<1>4. \A id : phase # "answered" => Follows(c, [c EXCEPT !.phase = phase, !.id = id])
  BY DEF HasFields, Fields, CallTyped, Follows
<1>. QED  BY <1>1, <1>2, <1>3, <1>4

LEMMA FlagFollows ==
    ASSUME NEW c, HasFields(c), CallTyped(c)
    PROVE  Follows(c, [c EXCEPT !.alone = FALSE]) /\ Follows(c, [c EXCEPT !.waiting = FALSE])
BY DEF HasFields, Fields, CallTyped, Follows

\* What the steps of the server need of a request, and of the job it is about.
LEMMA CallIs ==
    ASSUME JobsInv, DeskTypes, NEW c \in calls
    PROVE  /\ CallsOK /\ HasFields(c) /\ CallTyped(c)
           /\ c.kind # "create" \/ c.phase \in Working => c.id # 0
           /\ c.id # 0 => c.id \in DOMAIN rows /\ c.id \in Ids /\ rows[c.id] \in Job
<1>1. TableInv /\ RowsOK /\ CallOK(c) /\ HasFields(c) /\ rows \in Seq(Job)
  BY CallFacts DEF JobsInv, TableInv, DeskTypes, RowTypes
<1>2. c.id # 0 => c.id \in DOMAIN rows /\ c.id \in Ids
  BY <1>1, RowsAre DEF CallOK
<1>3. c.id # 0 => rows[c.id] \in Job
  BY <1>1, <1>2
<1>. QED  BY <1>1, <1>2, <1>3 DEF CallOK, TableInv, DeskTypes

LEMMA LoadTypes ==
    ASSUME JobsInv, DeskTypes, NEW c \in calls, Load(c), visit' = visit
    PROVE  (\A d \in calls' : CallTyped(d)') /\ Visits'
<1>1. CallsOK /\ HasFields(c) /\ CallTyped(c) /\ rows[c.id] \in Job
  BY CallIs DEF Load
<1>. DEFINE n == [c EXCEPT !.phase = "loaded", !.snap = rows[c.id], !.alone = (Underway(c) = {})]
<1>2. Follows(c, n)
  BY <1>1, PhaseFollows DEF Phases
<1>. HIDE DEF n
<1>3. ASSUME NEW d \in calls'
      PROVE  \E b \in calls : Follows(b, d)
  <2>1. d = n \/ d \in calls \/ \E b \in Underway(c) : d = [b EXCEPT !.alone = FALSE]
    BY DEF Load, n
  <2>2. \A b \in Underway(c) : Follows(b, [b EXCEPT !.alone = FALSE])
    BY CallIs, FlagFollows DEF Underway
  <2>3. d \in calls => Follows(d, d)
    BY ItselfFollows DEF DeskTypes
  <2>. QED  BY <1>2, <2>1, <2>2, <2>3 DEF Underway
<1>. QED  BY <1>1, <1>3, CallsFollow DEF Load

LEMMA ServeTypes ==
    ASSUME JobsInv, DeskTypes, NEW c \in calls, Serve(c), visit' = visit
    PROVE  RowTypes' /\ (\A d \in calls' : CallTyped(d)') /\ Visits'
<1>1. /\ CallsOK /\ HasFields(c) /\ CallTyped(c) /\ RowTypes
      /\ c.kind # "create" \/ c.phase \in Working => c.id # 0
      /\ c.id # 0 => c.id \in DOMAIN rows /\ c.id \in Ids /\ rows[c.id] \in Job
  BY CallIs DEF DeskTypes
<1>2. ASSUME UNCHANGED <<rows, beat, sent, excused>>
      PROVE  RowTypes'
  BY <1>1, <1>2 DEF RowTypes
<1>3. CASE Load(c)
  BY <1>2, <1>3, LoadTypes DEF Load
<1>4. CASE Refuse(c) \/ Run(c)
  <2>1. PICK phase \in {"refused", "answered"} :
            Become(c, [c EXCEPT !.phase = phase]) /\ (phase = "answered" => c.kind # "create")
    BY <1>4 DEF Refuse, Run
  <2>2. Follows(c, [c EXCEPT !.phase = phase])
    BY <1>1, <2>1, PhaseFollows DEF Phases
  <2>3. UNCHANGED <<rows, beat, sent, excused>>
    BY <1>4 DEF Refuse, Run
  <2>. QED  BY <1>1, <1>2, <2>1, <2>2, <2>3, CallsBecome
<1>5. CASE Commit(c)
  <2>1. Follows(c, [c EXCEPT !.phase = "committed"])
    BY <1>1, PhaseFollows DEF Phases
  <2>2. Become(c, [c EXCEPT !.phase = "committed"]) /\ UNCHANGED <<beat, sent, excused>>
    BY <1>5 DEF Commit
  <2>. DEFINE row == Updated(rows[c.id], c.snap, c.body)
  <2>3. rows' = [rows EXCEPT ![c.id] = row]
    BY <1>5 DEF Commit
  <2>4. c.id # 0 /\ Valid(c.kind, c.body)
    BY <1>1, <1>5, CallFacts DEF Commit, Working, JobsInv, CallOK
  <2>5. row \in Job
    BY <1>1, <2>4, UpdatedTyped DEF CallTyped, Valid
  <2>. HIDE DEF row
  <2>6. rows' \in Seq(Job)
    BY <1>1, <2>3, <2>4, <2>5 DEF RowTypes
  <2>7. RowTypes'
    BY <1>1, <2>2, <2>6 DEF RowTypes
  <2>. QED  BY <1>1, <2>1, <2>2, <2>7, CallsBecome
<1>6. CASE Create(c)
  <2>1. Follows(c, [c EXCEPT !.phase = "committed", !.id = Len(rows) + 1])
    BY <1>1, PhaseFollows DEF Phases
  <2>2. /\ Become(c, [c EXCEPT !.phase = "committed", !.id = Len(rows) + 1])
        /\ UNCHANGED <<beat, sent, excused>>
    BY <1>6 DEF Create
  <2>. DEFINE row == NewJob(c.body)
  <2>3. rows' = Append(rows, row)
    BY <1>6 DEF Create
  <2>4. row \in Job
    BY <1>1, <1>6, NewJobTyped DEF CallTyped, Create
  <2>. HIDE DEF row
  <2>5. rows' \in Seq(Job)
    BY <1>1, <2>3, <2>4 DEF RowTypes
  <2>6. RowTypes'
    BY <1>1, <2>2, <2>5 DEF RowTypes
  <2>. QED  BY <1>1, <2>1, <2>2, <2>6, CallsBecome
<1>7. CASE Refresh(c)
  <2>1. c.id # 0
    BY <1>1, <1>7 DEF Refresh, Working
  <2>2. Follows(c, [c EXCEPT !.phase = "refreshed", !.snap = rows[c.id]])
    BY <1>1, <2>1, PhaseFollows DEF Phases
  <2>. QED  BY <1>1, <1>2, <1>7, <2>2, CallsBecome DEF Refresh
<1>8. CASE Reschedule(c)
  <2>1. c.id # 0
    BY <1>1, <1>8 DEF Reschedule, Working
  <2>2. Follows(c, [c EXCEPT !.phase = "answered"])
    BY <1>1, <2>1, PhaseFollows DEF Phases
  <2>3. /\ beat' = [beat EXCEPT ![c.id] = Rescheduled(c)] /\ UNCHANGED <<rows, sent>>
        /\ excused' \subseteq excused \cup {c.id} /\ Become(c, [c EXCEPT !.phase = "answered"])
    BY <1>8 DEF Reschedule
  <2>4. Rescheduled(c) \in Schedules
    <3>1. c.snap.schedule \in Schedules /\ "none" \in Schedules /\ beat[c.id] \in Schedules
      BY <1>1, <2>1, SchedulesAssumption DEF CallTyped, Job, RowTypes
    <3>. QED  BY <3>1 DEF Rescheduled
  <2>5. RowTypes'
    BY <1>1, <2>1, <2>3, <2>4 DEF RowTypes
  <2>. QED  BY <1>1, <2>2, <2>3, <2>5, CallsBecome
<1>. QED  BY <1>3, <1>4, <1>5, <1>6, <1>7, <1>8 DEF Serve

LEMMA RestartTypes ==
    ASSUME JobsInv, DeskTypes, Restart, visit' = visit
    PROVE  RowTypes' /\ (\A d \in calls' : CallTyped(d)') /\ Visits'
<1>1. /\ beat' = [j \in Ids |-> "none"] /\ excused' = Ids /\ UNCHANGED <<rows, sent>>
      /\ calls' = {[c EXCEPT !.phase = "refused"] : c \in calls}
  BY DEF Restart
<1>2. RowTypes'
  BY <1>1, SchedulesAssumption DEF DeskTypes, RowTypes
<1>3. \A c \in calls : Follows(c, [c EXCEPT !.phase = "refused"])
  BY CallIs, PhaseFollows DEF Phases
<1>4. \A d \in calls' : \E c \in calls : Follows(c, d)
  BY <1>1, <1>3
<1>. QED  BY <1>1, <1>2, <1>4, CallsFollow DEF JobsInv, TableInv

\* A request is sent, with a body of the pages' or of another client's.
LEMMA SendTypes ==
    ASSUME JobsInv, DeskTypes, NEW v \in 0..visit, NEW p \in CallPages, NEW kind \in CallKinds,
           NEW id, NEW body, NEW base, BodyOK(body), base \subseteq Job,
           Send(v, p, kind, id, body, base), UNCHANGED <<rows, beat, excused, visit>>
    PROVE  RowTypes' /\ (\A d \in calls' : CallTyped(d)') /\ Visits'
<1>. PICK d : d = [no |-> sent + 1, visit |-> v, page |-> p, kind |-> kind,
                  id |-> id, body |-> body, base |-> base, phase |-> "sent",
                  snap |-> AnyJob, alone |-> TRUE, waiting |-> v # 0]
  OBVIOUS
<1>1. /\ calls' = calls \cup {d} /\ sent' = sent + 1 /\ sent < MaxCalls
      /\ RowTypes /\ Visits /\ CallsOK
  BY DEF Send, DeskTypes, JobsInv, TableInv
<1>2. RowTypes'
  <2>1. sent' \in 0..MaxCalls
    BY <1>1, BoundsAssumption DEF RowTypes
  <2>. QED  BY <1>1, <2>1 DEF RowTypes
<1>3. AnyJob \in Job
  <2>1. rows[1] \in Job
    BY <1>1, RowsAre DEF RowTypes, JobsInv, TableInv
  <2>. QED  BY <2>1 DEF AnyJob
<1>4. CallTyped(d)'
  BY <1>3 DEF CallTyped, Phases
<1>5. \A c \in calls : CallTyped(c)'
  BY DEF DeskTypes, CallTyped
<1>. DEFINE T == {c.no : c \in {e \in calls' : Ours(e)}}
<1>6. T \subseteq Saves \cup {sent + 1} /\ Saves' = T
  BY <1>1 DEF Saves
<1>. HIDE DEF T
<1>7. Cardinality(T) \in 0..(Cardinality(Saves) + 1) /\ Cardinality(Saves) \in 0..sent
  BY <1>1, <1>6, CallNumbers
<1>8. visit + Cardinality(T) <= MaxVisits + (sent + 1) /\ visit \in Nat \ {0}
  <2>1. MaxVisits \in Nat /\ sent \in Nat /\ visit \in Nat
    BY <1>1, VisitsAssumption DEF Visits, CallsOK
  <2>. QED  BY <1>1, <1>7, <2>1 DEF Visits
<1>9. Visits'
  BY <1>1, <1>6, <1>8 DEF Visits
<1>. QED  BY <1>1, <1>2, <1>4, <1>5, <1>9

-----------------------------------------------------------------------------
(* What the pages hold *)

LEMMA TypesKept ==
    ASSUME DeskTypes, UNCHANGED <<tableVars, visit>>
    PROVE  RowTypes' /\ (\A d \in calls' : CallTyped(d)') /\ Visits'
<1>1. RowTypes'
  BY DEF DeskTypes, RowTypes, tableVars
<1>2. calls' = calls /\ \A d \in calls : CallTyped(d)'
  BY DEF DeskTypes, CallTyped, tableVars
<1>3. Visits'
  <2>1. Saves' = Saves
    BY <1>2 DEF Saves
  <2>. QED  BY <2>1 DEF DeskTypes, Visits, tableVars
<1>. QED  BY <1>1, <1>2, <1>3

\* A page is opened, within what the user may open.
LEMMA VisitTypes ==
    ASSUME JobsInv, DeskTypes, visit < MaxVisits, visit' = visit + 1, UNCHANGED tableVars
    PROVE  RowTypes' /\ (\A d \in calls' : CallTyped(d)') /\ Visits'
<1>1. RowTypes' /\ calls' = calls /\ sent' = sent
  BY DEF DeskTypes, RowTypes, tableVars
<1>2. visit \in Nat \ {0} /\ MaxVisits \in Nat /\ CallsOK /\ sent \in Nat
  BY VisitsAssumption DEF DeskTypes, Visits, JobsInv, TableInv, CallsOK
<1>3. 0..visit \subseteq 0..(visit + 1)
  BY <1>2
<1>4. \A d \in calls : CallTyped(d)'
  BY <1>3 DEF DeskTypes, CallTyped
<1>5. Saves' = Saves /\ Cardinality(Saves) \in 0..sent
  BY <1>1, <1>2, CallNumbers DEF Saves
<1>6. visit + 1 \in Nat \ {0} /\ visit + 1 + Cardinality(Saves) <= MaxVisits + sent
  BY <1>2, <1>5
<1>7. Visits'
  BY <1>1, <1>5, <1>6 DEF Visits
<1>. QED  BY <1>1, <1>4, <1>7

\* A save leads to the list: the page it opens takes its place.
LEMMA SavedTypes ==
    ASSUME JobsInv, DeskTypes, NEW c \in calls, Ours(c), calls' = calls \ {c},
           visit' = visit + 1, UNCHANGED <<rows, beat, sent, excused>>
    PROVE  RowTypes' /\ (\A d \in calls' : CallTyped(d)') /\ Visits'
<1>1. RowTypes'
  BY DEF DeskTypes, RowTypes
<1>2. visit \in Nat \ {0} /\ MaxVisits \in Nat /\ CallsOK /\ sent \in Nat
  BY VisitsAssumption DEF DeskTypes, Visits, JobsInv, TableInv, CallsOK
<1>3. 0..visit \subseteq 0..(visit + 1)
  BY <1>2
<1>4. \A d \in calls' : CallTyped(d)'
  BY <1>3 DEF DeskTypes, CallTyped
<1>. DEFINE T == {d.no : d \in {e \in calls' : Ours(e)}}
<1>5. T \subseteq Saves \ {c.no} /\ Saves' = T /\ c.no \in Saves
  BY <1>2 DEF CallsOK, Saves
<1>. HIDE DEF T
<1>6. /\ Cardinality(Saves \ {c.no}) + 1 = Cardinality(Saves) /\ Cardinality(Saves) \in 0..sent
      /\ IsFiniteSet(Saves \ {c.no})
  BY <1>2, <1>5, CallNumbers, FS_Subset
<1>7. Cardinality(T) <= Cardinality(Saves \ {c.no}) /\ Cardinality(T) \in Nat
      /\ Cardinality(Saves \ {c.no}) \in Nat
  BY <1>5, <1>6, FS_Subset, FS_CardinalityType
<1>8. visit + 1 \in Nat \ {0} /\ visit + 1 + Cardinality(T) <= MaxVisits + sent
  BY <1>2, <1>6, <1>7 DEF DeskTypes, Visits
<1>9. Visits'
  BY <1>5, <1>8 DEF Visits
<1>. QED  BY <1>1, <1>4, <1>9

LEMMA OpenTypes ==
    ASSUME DeskTypes, NEW p \in Pages, NEW j, NEW f \in Form, NEW l \in BOOLEAN, Open(p, j, f, l),
           known' = known \/ known' = [known EXCEPT ![j] = {}]
    PROVE  PageTypes'
BY DEF Open, DeskTypes, PageTypes

LEMMA OpenListTypes ==
    ASSUME JobsInv, DeskTypes, OpenList
    PROVE  PageTypes' /\ (fetch' = fetch \/ fetch' = Asked)
<1>1. rows[1] \in Job
  BY RowsAre DEF DeskTypes, RowTypes, JobsInv, TableInv
<1>2. NewForm \in Form
  BY <1>1, FormsTyped
<1>. QED  BY <1>2, OpenTypes DEF OpenList, Pages

LEMMA ListKept ==
    ASSUME DeskTypes, UNCHANGED <<list, stale, others, failures>>,
           fetch' = fetch \/ fetch' = Asked, pressed' \subseteq pressed
    PROVE  ListTypes'
BY DEF DeskTypes, ListTypes, Fetched

LEMMA NavigateTypes ==
    ASSUME JobsInv, DeskTypes, Navigate
    PROVE  DeskTypes'
<1>1. RowTypes' /\ (\A d \in calls' : CallTyped(d)') /\ Visits'
  BY VisitTypes DEF Navigate, OpenList, OpenNew, OpenEdit, Open
<1>2. rows \in Seq(Job) /\ rows[1] \in Job /\ DOMAIN rows \subseteq Ids
  BY RowsAre DEF DeskTypes, RowTypes, JobsInv, TableInv
<1>3. NewForm \in Form
  BY <1>2, FormsTyped
<1>4. CASE OpenList
  BY <1>1, <1>4, OpenListTypes, ListKept DEF Navigate, DeskTypes
<1>5. CASE OpenNew /\ UNCHANGED fetch
  <2>1. PageTypes'
    BY <1>3, <1>5, OpenTypes DEF OpenNew, Pages
  <2>. QED  BY <1>1, <1>5, <2>1, ListKept DEF Navigate, DeskTypes
<1>6. ASSUME NEW j \in DOMAIN rows, OpenEdit(j), UNCHANGED fetch
      PROVE  DeskTypes'
  <2>1. known[j] \subseteq Job
    BY <1>2 DEF DeskTypes, PageTypes
  <2>2. \A row \in known[j] : FormOf(row) \in Form
    BY <2>1, FormsTyped
  <2>3. PageTypes'
    BY <1>3, <1>6, <2>2, OpenTypes DEF OpenEdit, Pages
  <2>. QED  BY <1>1, <1>6, <2>3, ListKept DEF Navigate, DeskTypes
<1>. QED  BY <1>4, <1>5, <1>6 DEF Navigate

LEMMA JobArrivesTypes ==
    ASSUME JobsInv, DeskTypes, JobArrives, UNCHANGED listVars
    PROVE  DeskTypes'
<1>1. RowTypes' /\ (\A d \in calls' : CallTyped(d)') /\ Visits'
  BY TypesKept DEF JobArrives
<1>2. target \in DOMAIN rows /\ target \in Ids /\ rows \in Seq(Job)
  BY RowsAre DEF JobsInv, ScreenOK, TableInv, DeskTypes, RowTypes
<1>3. rows[target] \in Job
  BY <1>2
<1>4. FormOf(rows[target]) \in Form
  BY <1>3, FormsTyped
<1>5. PageTypes'
  BY <1>3, <1>4 DEF JobArrives, DeskTypes, PageTypes
<1>6. ListTypes'
  BY ListKept DEF listVars
<1>. QED  BY <1>1, <1>5, <1>6 DEF DeskTypes

LEMMA HandleSaveTypes ==
    ASSUME JobsInv, DeskTypes, HandleSave, UNCHANGED listVars
    PROVE  DeskTypes'
<1>. PICK f \in Filled(form) :
        Send(visit, page, IF page = "new" THEN "create" ELSE "put",
             IF page = "new" THEN 0 ELSE target,
             BodyOf(f), IF f = form THEN f.base ELSE {})
  BY DEF HandleSave
<1>1. UNCHANGED <<rows, beat, excused, page, visit, target, form, loaded, known>> /\ saving' = TRUE
  BY DEF HandleSave
<1>. DEFINE kind == IF page = "new" THEN "create" ELSE "put"
            id == IF page = "new" THEN 0 ELSE target
            base == IF f = form THEN f.base ELSE {}
<1>2. f \in Form /\ BodyOK(BodyOf(f)) /\ page \in CallPages /\ visit \in 0..visit
  BY FilledTyped, BodyTyped DEF DeskTypes, PageTypes, CallPages, Pages, Visits
<1>3. kind \in CallKinds /\ base \subseteq Job
  BY <1>2 DEF CallKinds, Form
<1>4. Send(visit, page, kind, id, BodyOf(f), base)
  OBVIOUS
<1>. HIDE DEF kind, id, base
<1>5. RowTypes' /\ (\A d \in calls' : CallTyped(d)') /\ Visits'
  BY <1>1, <1>2, <1>3, <1>4, SendTypes
<1>6. PageTypes'
  BY <1>1 DEF DeskTypes, PageTypes
<1>7. ListTypes'
  BY ListKept DEF listVars
<1>. QED  BY <1>5, <1>6, <1>7 DEF DeskTypes

LEMMA PageKept ==
    ASSUME DeskTypes, UNCHANGED formVars
    PROVE  PageTypes'
BY DEF DeskTypes, PageTypes, formVars

LEMMA ListServedTypes ==
    ASSUME DeskTypes, ListServed
    PROVE  DeskTypes'
<1>. DEFINE flags == IF "items" \in Adapts THEN Flags ELSE <<>>
<1>1. fetch' = <<"rows", flags>> /\ UNCHANGED <<tableVars, formVars, list, stale, pressed, others, failures>>
  BY DEF ListServed
<1>2. Flags \in Seq(BOOLEAN)
  <2>1. rows \in Seq(Job)
    BY DEF DeskTypes, RowTypes
  <2>2. \A i \in DOMAIN rows : rows[i].enabled \in BOOLEAN
    <3>1. \A i \in DOMAIN rows : rows[i] \in Job
      BY <2>1
    <3>. QED  BY <3>1 DEF Job
  <2>3. Len(rows) \in Nat /\ DOMAIN rows = 1..Len(rows)
    BY <2>1
  <2>. QED  BY <2>2, <2>3 DEF Flags
<1>3. flags \in Seq(BOOLEAN)
  <2>1. << >> \in Seq(BOOLEAN)
    OBVIOUS
  <2>. QED  BY <1>2, <2>1
<1>. HIDE DEF flags
<1>4. ListTypes'
  BY <1>1, <1>3 DEF DeskTypes, ListTypes, Fetched
<1>. QED  BY <1>1, <1>4, TypesKept, PageKept DEF DeskTypes, formVars

LEMMA ListArrivesTypes ==
    ASSUME DeskTypes, ListArrives
    PROVE  DeskTypes'
<1>1. Fetched(fetch)
  BY DEF DeskTypes, ListTypes, ListArrives, Idle, Asked
<1>2. ListTypes'
  BY <1>1 DEF DeskTypes, ListTypes, ListArrives, Fetched
<1>. QED  BY <1>2, TypesKept, PageKept DEF DeskTypes, ListArrives, formVars

LEMMA ButtonTypes ==
    ASSUME JobsInv, DeskTypes, NEW j \in DOMAIN list, Toggle(j) \/ RunNow(j) \/ Delete(j)
    PROVE  DeskTypes'
<1>1. j \in Ids /\ list[j] \in BOOLEAN
  BY RowsAre DEF JobsInv, TableInv, ScreenOK, DeskTypes, ListTypes
<1>2. PICK kind \in {"put", "run", "delete"} : \E body : BodyOK(body) /\ Button(kind, j, body)
  BY <1>1, EnableTyped DEF Toggle, RunNow, Delete
<1>. PICK body : BodyOK(body) /\ Button(kind, j, body)
  BY <1>2
<1>3. /\ Send(visit, "list", kind, j, body, {}) /\ pressed' = pressed \cup {<<kind, j>>}
      /\ UNCHANGED <<rows, beat, excused, formVars, fetch, list, stale, others, failures>>
  BY DEF Button
<1>4. kind \in CallKinds /\ "list" \in CallPages /\ visit \in 0..visit
  BY DEF CallKinds, CallPages, DeskTypes, Visits
<1>5. RowTypes' /\ (\A d \in calls' : CallTyped(d)') /\ Visits'
  BY <1>2, <1>3, <1>4, SendTypes DEF formVars
<1>6. ListTypes'
  BY <1>1, <1>3 DEF DeskTypes, ListTypes, Fetched
<1>. QED  BY <1>3, <1>5, <1>6, PageKept DEF DeskTypes

LEMMA OtherTypes ==
    ASSUME JobsInv, DeskTypes, Other
    PROVE  DeskTypes'
<1>1. /\ UNCHANGED <<rows, beat, excused, formVars, fetch, list, stale, pressed, failures>>
      /\ others < MaxOthers /\ others' = others + 1
  BY DEF Other
<1>2. PICK j \in DOMAIN rows : \E body : BodyOK(body) /\ Send(0, "api", "put", j, body, {})
  BY EnableTyped DEF Other
<1>. PICK body : BodyOK(body) /\ Send(0, "api", "put", j, body, {})
  BY <1>2
<1>3. "put" \in CallKinds /\ "api" \in CallPages /\ 0 \in 0..visit
  BY DEF CallKinds, CallPages, DeskTypes, Visits
<1>4. RowTypes' /\ (\A d \in calls' : CallTyped(d)') /\ Visits'
  BY <1>1, <1>2, <1>3, SendTypes DEF formVars
<1>5. others' \in 0..MaxOthers
  BY <1>1, FaultsAssumption DEF DeskTypes, ListTypes
<1>6. ListTypes'
  BY <1>1, <1>5 DEF DeskTypes, ListTypes, Fetched
<1>. QED  BY <1>1, <1>4, <1>6, PageKept DEF DeskTypes

\* A page hears, or does not hear any more, what became of its request.
LEMMA AnswerTypes ==
    ASSUME JobsInv, DeskTypes, NEW c \in calls,
           \/ Unheard(c) /\ UNCHANGED <<formVars, listVars>>
           \/ Succeeds(c) \/ Fails(c) \/ SaveSucceeds(c) \/ AnswerLost(c)
           \/ c.phase = "refused" /\ SaveFails(c) /\ UNCHANGED listVars
    PROVE  DeskTypes'
<1>1. UNCHANGED <<rows, beat, sent, excused>> /\ CallsOK
  BY DEF Unheard, Succeeds, Fails, Heard, SaveSucceeds, SaveFails, AnswerLost, JobsInv, TableInv
<1>2. RowTypes'
  BY <1>1 DEF DeskTypes, RowTypes
<1>3. ASSUME AnswerLost(c)
      PROVE  failures' \in 0..MaxFailures
  BY <1>3, FaultsAssumption DEF AnswerLost, DeskTypes, ListTypes
<1>4. CASE SaveSucceeds(c)
  <2>1. (\A d \in calls' : CallTyped(d)') /\ Visits'
    BY <1>1, <1>4, SavedTypes DEF SaveSucceeds, OpenList, Open
  <2>2. PageTypes' /\ ListTypes'
    BY <1>4, OpenListTypes, ListKept DEF SaveSucceeds
  <2>. QED  BY <1>2, <2>1, <2>2 DEF DeskTypes
<1>5. CASE ~SaveSucceeds(c)
  <2>1. visit' = visit /\ UNCHANGED <<page, form, loaded, known>>
    BY <1>5 DEF Unheard, Succeeds, Fails, Heard, SaveFails, AnswerLost, formVars, listVars
  <2>2. saving' \in BOOLEAN
    BY <1>5 DEF Unheard, Succeeds, Fails, Heard, SaveFails, AnswerLost, formVars, listVars,
                DeskTypes, PageTypes
  <2>3. PageTypes'
    BY <2>1, <2>2 DEF DeskTypes, PageTypes
  <2>4. (\A d \in calls' : CallTyped(d)') /\ Visits'
    <3>1. calls' = calls \ {c} \/ Become(c, [c EXCEPT !.waiting = FALSE])
      BY <1>5 DEF Unheard, Succeeds, Fails, Heard, SaveFails, AnswerLost
    <3>2. Follows(c, [c EXCEPT !.waiting = FALSE])
      BY CallIs, FlagFollows
    <3>. QED  BY <1>1, <2>1, <3>1, <3>2, CallsFewer, CallsBecome
  <2>5. failures' \in 0..MaxFailures
    <3>1. ~AnswerLost(c) => failures' = failures
      BY <1>5 DEF Unheard, Succeeds, Fails, SaveFails, listVars
    <3>. QED  BY <1>3, <3>1 DEF DeskTypes, ListTypes
  <2>6. /\ UNCHANGED <<list, others>> /\ pressed' \subseteq pressed
        /\ stale' = stale \/ stale' = TRUE
        /\ fetch' = fetch \/ fetch' = Asked
    BY <1>5 DEF Unheard, Succeeds, Fails, Heard, SaveFails, AnswerLost, listVars
  <2>7. ListTypes'
    BY <2>5, <2>6 DEF DeskTypes, ListTypes, Fetched
  <2>. QED  BY <1>2, <2>3, <2>4, <2>7 DEF DeskTypes
<1>. QED  BY <1>4, <1>5

LEMMA ServerRestartsTypes ==
    ASSUME JobsInv, DeskTypes, ServerRestarts
    PROVE  DeskTypes'
<1>1. /\ failures < MaxFailures /\ failures' = failures + 1 /\ Restart
      /\ UNCHANGED <<formVars, fetch, list, stale, pressed, others>>
  BY DEF ServerRestarts
<1>2. failures' \in 0..MaxFailures
  BY <1>1, FaultsAssumption DEF DeskTypes, ListTypes
<1>3. ListTypes'
  BY <1>1, <1>2 DEF DeskTypes, ListTypes, Fetched
<1>4. RowTypes' /\ (\A d \in calls' : CallTyped(d)') /\ Visits'
  BY <1>1, RestartTypes DEF formVars
<1>. QED  BY <1>1, <1>3, <1>4, PageKept DEF DeskTypes
-----------------------------------------------------------------------------

LEMMA InitTypes == Init => DeskTypes
<1>. SUFFICES ASSUME Init
              PROVE  DeskTypes
  OBVIOUS
<1>1. PICK row \in Job : rows = <<row>>
  BY FaultsAssumption DEF Init
<1>2. rows \in Seq(Job) /\ rows[1] = row
  BY <1>1
<1>3. RowTypes
  <2>1. Wanted(row) \in Schedules /\ "none" \in Schedules
    BY SchedulesAssumption DEF Wanted, Job
  <2>2. beat \in [Ids -> Schedules] /\ excused \subseteq Ids
    BY <1>2, <2>1 DEF Init
  <2>. QED  BY <1>2, <2>2, BoundsAssumption DEF Init, RowTypes
<1>4. calls = {} /\ Visits
  <2>1. Saves = {} /\ Cardinality(Saves) = 0
    BY FS_EmptySet DEF Init, Saves
  <2>. QED  BY <2>1, VisitsAssumption DEF Init, Visits
<1>5. PageTypes
  <2>1. known \in [Ids -> SUBSET Job]
    BY <1>2 DEF Init
  <2>. QED  BY <2>1, FormsTyped DEF Init, PageTypes, Pages
<1>6. ListTypes
  <2>1. list = << >> /\ list \in Seq(BOOLEAN)
    BY DEF Init
  <2>2. others = 0 /\ failures = 0 /\ 0 \in 0..MaxOthers /\ 0 \in 0..MaxFailures
    BY FaultsAssumption DEF Init
  <2>3. fetch = Asked /\ stale = FALSE /\ pressed = {}
    BY DEF Init
  <2>. QED  BY <2>1, <2>2, <2>3 DEF ListTypes
<1>. QED  BY <1>3, <1>4, <1>5, <1>6 DEF DeskTypes

LEMMA NextTypes == JobsInv /\ DeskTypes /\ [Next]_vars => DeskTypes'
<1>. SUFFICES ASSUME JobsInv, DeskTypes, [Next]_vars
              PROVE  DeskTypes'
  OBVIOUS
<1>1. CASE UNCHANGED vars
  <2>1. ListTypes'
    BY <1>1, ListKept DEF vars, listVars
  <2>. QED  BY <1>1, <2>1, TypesKept, PageKept DEF DeskTypes, vars, formVars
<1>2. ASSUME NEW c \in calls, Serve(c), UNCHANGED <<formVars, listVars>>
      PROVE  DeskTypes'
  <2>1. RowTypes' /\ (\A d \in calls' : CallTyped(d)') /\ Visits'
    BY <1>2, ServeTypes DEF formVars
  <2>2. ListTypes'
    BY <1>2, ListKept DEF listVars
  <2>. QED  BY <1>2, <2>1, <2>2, PageKept DEF DeskTypes
<1>. QED
  BY <1>1, <1>2, NavigateTypes, ListServedTypes, ListArrivesTypes, JobArrivesTypes, HandleSaveTypes,
     ButtonTypes, AnswerTypes, OtherTypes, ServerRestartsTypes DEF Next, Server

\* Rows, Beat entries, requests, forms and cached rows keep their types
\* whatever pages, other clients and a failing server do: bodies only ever
\* bring a row values of its own type, a request past its first step names a
\* row, and no more pages appear than the user opens and saves lead to
\* (jobs/router.py, jobs/service.py, the jobs pages).
THEOREM JobTypesHold == Spec => []TypeOK
<1>1. JobsInv /\ DeskTypes => TypeOK
  <2>. SUFFICES ASSUME JobsInv, DeskTypes
                PROVE  TypeOK
    OBVIOUS
  <2>1. /\ RowsOK /\ CallsOK /\ RowTypes /\ Visits /\ PageTypes /\ ListTypes
        /\ DOMAIN rows = 1..Len(rows) /\ Len(rows) \in 1..MaxJobs /\ DOMAIN rows \subseteq Ids
    BY RowsAre DEF JobsInv, TableInv, DeskTypes, RowsOK
  <2>2. visit \in 1..(MaxVisits + MaxCalls)
    <3>1. Cardinality(Saves) \in Nat /\ sent \in 0..MaxCalls /\ MaxVisits \in Nat /\ MaxCalls \in Nat
      BY <2>1, CallNumbers, VisitsAssumption, BoundsAssumption DEF CallsOK, RowTypes
    <3>2. visit \in Nat \ {0} /\ visit + Cardinality(Saves) <= MaxVisits + sent
      BY <2>1 DEF Visits
    <3>. QED  BY <3>1, <3>2
  <2>3. Len(list) <= Len(rows)
    <3>1. Len(list) \in Nat /\ DOMAIN list = 1..Len(list) /\ DOMAIN list \subseteq DOMAIN rows
      BY <2>1 DEF ListTypes, JobsInv, ScreenOK
    <3>2. Len(list) = 0 \/ Len(list) \in DOMAIN rows
      BY <3>1
    <3>. QED  BY <2>1, <3>2
  <2>4. ASSUME NEW c \in calls
        PROVE  /\ [f \in DOMAIN c \ {"body"} |-> c[f]] \in Call
               /\ c.id <= Len(rows)
               /\ c.id = 0 => c.kind = "create" /\ c.phase \in {"sent", "refused"}
    <3>1. CallOK(c) /\ HasFields(c) /\ CallTyped(c) /\ c.no \in 1..sent /\ c.id \in 0..Len(rows)
      BY CallIs DEF CallOK, CallsOK
    <3>2. c.no \in 1..MaxCalls /\ c.id \in 0..MaxJobs /\ c.visit \in 0..(MaxVisits + MaxCalls)
      BY <2>1, <2>2, <3>1, BoundsAssumption, VisitsAssumption DEF RowTypes, CallTyped
    <3>. DEFINE r == [f \in DOMAIN c \ {"body"} |-> c[f]]
    <3>3. DOMAIN c \ {"body"} = {"no", "visit", "page", "kind", "id", "base", "phase", "snap", "alone", "waiting"}
      BY <3>1 DEF HasFields, Fields
    <3>4. r = [no |-> c.no, visit |-> c.visit, page |-> c.page, kind |-> c.kind, id |-> c.id,
               base |-> c.base, phase |-> c.phase, snap |-> c.snap, alone |-> c.alone,
               waiting |-> c.waiting]
      BY <3>3
    <3>5. r \in Call
      BY <3>1, <3>2, <3>4 DEF Call, CallTyped, CallPages, CallKinds, Phases
    <3>6. c.id <= Len(rows)
      BY <2>1, <3>1
    <3>7. c.id = 0 => c.kind = "create" /\ c.phase \in {"sent", "refused"}
      BY <3>1 DEF CallOK, CallTyped, Working, Phases
    <3>. QED  BY <3>5, <3>6, <3>7
  <2>5. target \in Ids /\ fetch[1] \in {"idle", "asked", "rows"}
    BY <2>1 DEF JobsInv, ScreenOK, ListTypes, Idle, Asked, Fetched
  <2>6. Len(rows) <= MaxJobs
    BY <2>1, BoundsAssumption
  <2>7. /\ rows \in Seq(Job) /\ beat \in [Ids -> Schedules] /\ sent \in 0..MaxCalls /\ excused \subseteq Ids
    BY <2>1 DEF RowTypes
  <2>8. /\ page \in Pages /\ form \in Form /\ saving \in BOOLEAN /\ loaded \in BOOLEAN
        /\ known \in [Ids -> SUBSET Job]
    BY <2>1 DEF PageTypes
  <2>9. /\ list \in Seq(BOOLEAN) /\ stale \in BOOLEAN
        /\ pressed \subseteq {"put", "run", "delete"} \X Ids
        /\ others \in 0..MaxOthers /\ failures \in 0..MaxFailures
    BY <2>1 DEF ListTypes
  <2>. QED
    BY <2>2, <2>3, <2>4, <2>5, <2>6, <2>7, <2>8, <2>9, Zenon DEF TypeOK
<1>. QED
  BY <1>1, InitInv, NextInv, InitTypes, NextTypes, PTL DEF Spec

(***************************************************************************)
(* A save without an edit                                                  *)
(***************************************************************************)

\* What a form sends of a row it shows untouched: the values of the row, but
\* mappings that are valid and all enabled, or that the API refuses.
LEMMA BodyOfRow ==
    ASSUME NEW row
    PROVE  LET body == BodyOf(FormOf(row))
           IN  \A f \in DOMAIN body :
                   IF f = "mappings" THEN body[f] = "default" \/ (body[f] = "valid" /\ row.mappings # "none")
                   ELSE body[f] = row[f]
<1>. DEFINE g == FormOf(row)
            body == BodyOf(g)
<1>1. /\ g.enabled = row.enabled /\ g.filters = row.filters /\ g.direction = row.direction
      /\ g.mappings = IF row.mappings = "none" THEN "default" ELSE "valid"
      /\ g.schedule = "none" \/ g.schedule = row.schedule
  BY DEF FormOf
<1>. HIDE DEF g
<1>2. DOMAIN body = SentFields(g)
  BY DEF BodyOf, SentFields
<1>3. ASSUME NEW f \in SentFields(g)
      PROVE  IF f = "mappings" THEN body[f] = "default" \/ (body[f] = "valid" /\ row.mappings # "none")
             ELSE body[f] = row[f]
  <2>1. body[f] = IF f = "mappings" /\ g.mappings = "none" THEN "default" ELSE g[f]
    BY DEF BodyOf
  <2>2. f \in {"enabled", "filters", "mappings", "direction"} \/ (f = "schedule" /\ g.schedule # "none")
    BY DEF SentFields
  <2>. QED
    BY <1>1, <2>1, <2>2
<1>. HIDE DEF body
<1>4. \A f \in DOMAIN body :
          IF f = "mappings" THEN body[f] = "default" \/ (body[f] = "valid" /\ row.mappings # "none")
          ELSE body[f] = row[f]
  BY <1>2, <1>3
<1>. QED
  BY <1>4 DEF body, g

\* To open a job and save it as it is, while the row is still the one the form
\* was read from, changes nothing but that disabled mappings are enabled
\* (jobToFormState, buildJobBody, FieldMappingRule, update_job).
THEOREM UntouchedEditOnlyEnablesHolds == Spec => UntouchedEditOnlyEnables
<1>1. ASSUME JobsInv, TypeOK, NEW c \in calls, Commit(c), rows[c.id] \in c.base
      PROVE  \/ rows' = rows
             \/ /\ rows[c.id].mappings = "muted"
                /\ rows' = [rows EXCEPT ![c.id].mappings = "valid"]
  <2>. DEFINE row == rows[c.id]
              body == c.body
              new == Updated(row, c.snap, body)
  <2>1. c.phase = "loaded" /\ rows' = [rows EXCEPT ![c.id] = new] /\ c.id \in DOMAIN rows
    BY <1>1, CallFacts DEF Commit, JobsInv, Working
  <2>2. /\ body = BodyOf(FormOf(row))
        /\ "mappings" \in DOMAIN body => body.mappings # "default"
    BY <1>1, <2>1, CallFacts DEF CallOK, JobsInv, Valid
  <2>3. rows \in Seq(Job) /\ row \in Job
    BY <1>1, <2>1 DEF TypeOK
  <2>4. \A f \in DOMAIN body :
            IF f = "mappings" THEN body[f] = "valid" /\ row.mappings # "none" ELSE body[f] = row[f]
    BY <2>2, BodyOfRow
  <2>5. row.mappings \in {"none", "valid", "muted"} /\ row = [f \in DOMAIN row |-> row[f]]
        /\ "mappings" \in DOMAIN row
    BY <2>3 DEF Job, Mappings
  <2>6. new = [f \in DOMAIN row |-> IF f \in DOMAIN body /\ body[f] # c.snap[f] THEN body[f] ELSE row[f]]
    BY DEF Updated
  <2>7. \A f \in DOMAIN row : f # "mappings" => new[f] = row[f]
    BY <2>4, <2>6
  <2>8. new["mappings"] = row["mappings"] \/ (row["mappings"] = "muted" /\ new["mappings"] = "valid")
    BY <2>4, <2>5, <2>6
  <2>. HIDE DEF new
  <2>9. CASE new["mappings"] = row["mappings"]
    <3>1. new = row
      BY <2>5, <2>6, <2>7, <2>9
    <3>. QED
      BY <2>1, <2>3, <3>1
  <2>10. CASE row["mappings"] = "muted" /\ new["mappings"] = "valid"
    <3>1. new = [row EXCEPT !["mappings"] = "valid"]
      BY <2>5, <2>6, <2>7, <2>10
    <3>. QED
      BY <2>1, <2>3, <2>10, <3>1
  <2>. QED
    BY <2>8, <2>9, <2>10
<1>2. JobsInv /\ TypeOK /\ [Next]_vars =>
          [\A c \in calls : Commit(c) /\ rows[c.id] \in c.base =>
              \/ rows' = rows
              \/ /\ rows[c.id].mappings = "muted"
                 /\ rows' = [rows EXCEPT ![c.id].mappings = "valid"]]_vars
  BY <1>1
<1>. QED
  BY <1>2, AlwaysJobsInv, JobTypesHold, PTL DEF Spec, UntouchedEditOnlyEnables
=============================================================================
