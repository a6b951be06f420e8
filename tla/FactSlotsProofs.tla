----------------------------- MODULE FactSlotsProofs -----------------------------
(***************************************************************************)
(* Theorems about FactSlots for every set of sessions, keys and stories:   *)
(* what a step may do to the rows that are stored.                         *)
(***************************************************************************)
EXTENDS FactSlots, FiniteSetTheorems, SequenceTheorems, WellFoundedInduction, TLAPS

---------------------------------------------------------------------------
(* Sequences of rows. *)

\* A row has these fields, whatever is in them.
Shape(r) ==
  r = [key |-> r.key, value |-> r.value, status |-> r.status, first |-> r.first,
       seen |-> r.seen, pending |-> r.pending, until |-> r.until]

IsRows(rs) ==
  /\ Len(rs) \in Nat /\ DOMAIN rs = 1..Len(rs)
  /\ rs = [i \in DOMAIN rs |-> rs[i]]
  /\ \A i \in DOMAIN rs : Shape(rs[i])

\* CountedOnce of any sequence of rows.
Once(rs) ==
  \A i, j \in DOMAIN rs :
    (i # j /\ SameFact(rs[i], rs[j]) /\ IsSlot(rs[i])) => rs[i].seen \cap rs[j].seen = {}

\* The same rows with the same sightings; a closed one stays as it was closed.
SameRow(r, t) ==
  /\ t.key = r.key /\ t.value = r.value /\ t.status = r.status
  /\ t.first = r.first /\ t.seen = r.seen
Relabels(old, new) ==
  /\ IsRows(new) /\ Len(new) = Len(old)
  /\ \A i \in DOMAIN old : SameRow(old[i], new[i])
Quiet(old, new) ==
  /\ Relabels(old, new)
  /\ \A i \in DOMAIN old : ~Live(old[i]) => new[i].until = old[i].until

\* What Min returns for a set of numbers.
LEMMA MinIsLeast ==
  ASSUME NEW S, S \subseteq Nat, S # {}
  PROVE  Min(S) \in S /\ \A y \in S : Min(S) <= y
<1>1. PICK x \in S : \A y \in S : ~(<<y, x>> \in OpToRel(<, Nat))
  BY WFMin, NatLessThanWellFounded, Zenon
<1>2. ASSUME NEW y \in S PROVE ~(y < x)
  <2>1. y \in Nat /\ x \in Nat
    OBVIOUS
  <2>2. <<y, x>> \in Nat \X Nat /\ <<y, x>>[1] = y /\ <<y, x>>[2] = x
    BY <2>1
  <2>. QED
    BY <1>1, <2>2, Zenon DEF OpToRel
<1>3. \A y \in S : x <= y
  BY <1>2
<1>. QED
  BY <1>3, Zenon DEF Min

LEMMA FunctionIsSeq ==
  ASSUME NEW n \in Nat, NEW f, DOMAIN f = 1..n, f = [i \in DOMAIN f |-> f[i]]
  PROVE  Len(f) = n
<1> DEFINE T == {f[i] : i \in 1..n}
<1>1. f \in [1..n -> T]
  OBVIOUS
<1>2. f \in Seq(T)
  BY <1>1, SeqDef
<1>3. Len(f) \in Nat /\ DOMAIN f = 1..Len(f)
  BY <1>2, LenProperties
<1>. QED
  BY <1>3

LEMMA EmptyRows == IsRows(<<>>) /\ Once(<<>>)
  BY DEF IsRows, Once

LEMMA RelabelOnce ==
  ASSUME NEW old, NEW new, IsRows(old), Relabels(old, new), Once(old)
  PROVE  Once(new)
BY DEF IsRows, Relabels, SameRow, Once, SameFact, IsSlot

LEMMA QuietExtends ==
  ASSUME NEW old, NEW new, IsRows(old), Quiet(old, new)
  PROVE  IsRows(new) /\ Extends(old, new)
BY DEF IsRows, Quiet, Relabels, SameRow, Extends, SameFact

LEMMA ExtendsSelf ==
  ASSUME NEW rs, IsRows(rs)
  PROVE  Extends(rs, rs)
BY DEF IsRows, Extends, SameFact

LEMMA ExtendsOn ==
  ASSUME NEW a, NEW b, NEW c, IsRows(a), IsRows(b), IsRows(c), Extends(a, b), Extends(b, c)
  PROVE  Extends(a, c)
<1>1. Len(a) <= Len(c) /\ DOMAIN a \subseteq DOMAIN b
  BY DEF IsRows, Extends
<1>2. ASSUME NEW i \in DOMAIN a
      PROVE  /\ SameFact(c[i], a[i]) /\ c[i].first = a[i].first
             /\ a[i].seen \subseteq c[i].seen
             /\ ~Live(a[i]) => c[i].until = a[i].until /\ c[i].seen = a[i].seen
  BY <1>1 DEF Extends, SameFact, Live
<1>. QED
  BY <1>1, <1>2 DEF Extends

LEMMA StampRelabels ==
  ASSUME NEW rs, IsRows(rs), NEW S, NEW s, NEW why
  PROVE  Relabels(rs, StampRows(rs, S, s, why))
<1> DEFINE new == StampRows(rs, S, s, why)
<1>1. DOMAIN new = DOMAIN rs /\ new = [i \in DOMAIN new |-> new[i]]
  BY DEF StampRows
<1>2. Len(new) = Len(rs)
  BY <1>1, FunctionIsSeq DEF IsRows
<1>3. ASSUME NEW i \in DOMAIN rs PROVE Shape(new[i]) /\ SameRow(rs[i], new[i])
  <2>1. Shape(rs[i])
    BY DEF IsRows
  <2>2. new[i] = IF i \in S THEN [rs[i] EXCEPT !.until = <<s, why>>] ELSE rs[i]
    BY DEF StampRows
  <2>. QED
    BY <2>1, <2>2 DEF Shape, SameRow
<1>. QED
  BY <1>1, <1>2, <1>3 DEF IsRows, Relabels

\* Rows that are live are closed.
LEMMA StampQuiet ==
  ASSUME NEW rs, IsRows(rs), NEW S, NEW s, NEW why,
         \A i \in S \cap DOMAIN rs : Live(rs[i])
  PROVE  Quiet(rs, StampRows(rs, S, s, why))
BY StampRelabels DEF Quiet, StampRows

\* One row is replaced by one with the same fact and sightings.
LEMMA EditQuiet ==
  ASSUME NEW rs, IsRows(rs), NEW i \in DOMAIN rs, NEW r, Shape(r), SameRow(rs[i], r),
         ~Live(rs[i]) => r.until = rs[i].until
  PROVE  Quiet(rs, [rs EXCEPT ![i] = r])
<1> DEFINE new == [rs EXCEPT ![i] = r]
<1>1. DOMAIN new = DOMAIN rs /\ new = [j \in DOMAIN new |-> new[j]]
  OBVIOUS
<1>2. Len(new) = Len(rs)
  BY <1>1, FunctionIsSeq DEF IsRows
<1>3. \A j \in DOMAIN rs : new[j] = IF j = i THEN r ELSE rs[j]
  OBVIOUS
<1>4. \A j \in DOMAIN rs : Shape(new[j]) /\ SameRow(rs[j], new[j])
  BY <1>3 DEF IsRows, SameRow
<1>. QED
  BY <1>1, <1>2, <1>3, <1>4 DEF IsRows, Quiet, Relabels

---------------------------------------------------------------------------
(* Applying a fact. *)

Keeps(rs, new) == IsRows(new) /\ Extends(rs, new) /\ Once(new)

LEMMA AppendRow ==
  ASSUME NEW rs, IsRows(rs), NEW r, Shape(r)
  PROVE  /\ IsRows(Append(rs, r)) /\ Len(Append(rs, r)) = Len(rs) + 1
         /\ \A i \in DOMAIN rs : Append(rs, r)[i] = rs[i]
         /\ Append(rs, r)[Len(rs) + 1] = r
<1> DEFINE T == {rs[i] : i \in DOMAIN rs} \cup {r}
           new == Append(rs, r)
<1>1. rs \in Seq(T)
  <2>1. rs \in [1..Len(rs) -> T]
    BY DEF IsRows
  <2>. QED
    BY <2>1, SeqDef DEF IsRows
<1>2. r \in T
  OBVIOUS
<1> HIDE DEF T
<1>3. /\ new \in Seq(T) /\ Len(new) = Len(rs) + 1
      /\ \A i \in 1..Len(rs) : new[i] = rs[i]
      /\ new[Len(rs) + 1] = r
  BY <1>1, <1>2
<1>4. DOMAIN new = 1..Len(new) /\ new \in [1..Len(new) -> T]
  BY <1>3, LenProperties
<1>5. new = [i \in DOMAIN new |-> new[i]]
  BY <1>4
<1>6. \A i \in DOMAIN new : Shape(new[i])
  BY <1>3, <1>4 DEF IsRows
<1>. QED
  BY <1>3, <1>4, <1>5, <1>6 DEF IsRows

LEMMA SightedShape ==
  ASSUME NEW r, Shape(r), NEW s, NEW f
  PROVE  LET t == Sighted(r, s, f)
         IN /\ Shape(t) /\ Shape([t EXCEPT !.pending = None])
            /\ t.seen = r.seen \cup {<<s, f.turn>>}
            /\ t.key = r.key /\ t.value = r.value /\ t.status = r.status
            /\ t.first = r.first /\ t.until = r.until
<1> DEFINE seen == r.seen \cup {<<s, f.turn>>}
<1>1. Sighted(r, s, f) = [r EXCEPT !.seen = seen]
  BY DEF Sighted
<1> HIDE DEF seen
<1>2. [r EXCEPT !.seen = seen] =
        [key |-> r.key, value |-> r.value, status |-> r.status, first |-> r.first,
         seen |-> seen, pending |-> r.pending, until |-> r.until]
  BY DEF Shape
<1> DEFINE t == Sighted(r, s, f)
<1>3. t = [key |-> r.key, value |-> r.value, status |-> r.status, first |-> r.first,
           seen |-> seen, pending |-> r.pending, until |-> r.until]
  BY <1>1, <1>2
<1> HIDE DEF t
<1>4. /\ t.key = r.key /\ t.value = r.value /\ t.status = r.status /\ t.first = r.first
      /\ t.seen = seen /\ t.pending = r.pending /\ t.until = r.until
  BY <1>3
<1>5. Shape(t)
  BY <1>3, <1>4 DEF Shape
<1>6. [t EXCEPT !.pending = None] =
        [key |-> r.key, value |-> r.value, status |-> r.status, first |-> r.first,
         seen |-> seen, pending |-> None, until |-> r.until]
  BY <1>3
<1>7. Shape([t EXCEPT !.pending = None])
  BY <1>6 DEF Shape
<1>. QED
  BY <1>4, <1>5, <1>7 DEF t, seen

\* The row a fact is at home in is one of its own, and live.
LEMMA HomeRow ==
  ASSUME NEW rs, IsRows(rs), NEW f, Home(f, rs) # {}
  PROVE  LET h == Min(Home(f, rs))
         IN h \in DOMAIN rs /\ Live(rs[h]) /\ SameFact(rs[h], f)
<1>1. Home(f, rs) \subseteq {i \in DOMAIN rs : Live(rs[i]) /\ SameFact(rs[i], f)}
  BY DEF Home
<1>2. Home(f, rs) \subseteq Nat
  BY <1>1 DEF IsRows
<1>3. Min(Home(f, rs)) \in Home(f, rs)
  BY <1>2, MinIsLeast
<1>. QED
  BY <1>1, <1>3

LEMMA WrittenKeeps ==
  ASSUME NEW rs, IsRows(rs), Once(rs), NEW s, NEW f, NEW armed, NEW closed
  PROVE  Keeps(rs, Written(s, f, rs, armed, closed))
<1> DEFINE new == Written(s, f, rs, armed, closed)
           h == Min(Home(f, rs))
<1>1. CASE AlreadyStored(s, f, rs)
  BY <1>1, ExtendsSelf DEF Written, Keeps
<1>2. CASE ~AlreadyStored(s, f, rs) /\ Home(f, rs) = {}
  <2> DEFINE r == NewRow(s, f, armed)
  <2>1. /\ Shape(r) /\ r.key = f.key /\ r.value = f.value /\ r.status = f.status
        /\ r.seen = {<<s, f.turn>>}
    BY DEF NewRow, Shape
  <2> HIDE DEF r
  <2>2. new = Append(rs, r)
    BY <1>2 DEF Written, r
  <2>3. /\ IsRows(new) /\ Len(new) = Len(rs) + 1
        /\ \A i \in DOMAIN rs : new[i] = rs[i]
        /\ new[Len(rs) + 1] = r
    BY <2>1, <2>2, AppendRow
  <2> HIDE DEF new
  <2>4. Extends(rs, new)
    BY <2>3 DEF IsRows, Extends, SameFact
  <2>5. \A i \in DOMAIN rs : SameFact(rs[i], r) /\ IsSlot(r) => rs[i].seen \cap r.seen = {}
    BY <1>2, <2>1 DEF AlreadyStored, SameFact, IsSlot
  <2>6. DOMAIN new = DOMAIN rs \cup {Len(rs) + 1}
    BY <2>3 DEF IsRows
  <2>7. ASSUME NEW i \in DOMAIN new, NEW j \in DOMAIN new, i # j,
               SameFact(new[i], new[j]), IsSlot(new[i])
        PROVE  new[i].seen \cap new[j].seen = {}
    <3>1. SameFact(new[j], new[i]) /\ IsSlot(new[j])
      BY <2>7 DEF SameFact, IsSlot
    <3>. QED
      BY <2>3, <2>5, <2>6, <2>7, <3>1 DEF Once
  <2>8. Keeps(rs, new)
    BY <2>3, <2>4, <2>7 DEF Keeps, Once
  <2>. QED
    BY <2>8 DEF new
<1>3. CASE ~AlreadyStored(s, f, rs) /\ Home(f, rs) # {}
  <2>1. h \in DOMAIN rs /\ Live(rs[h]) /\ SameFact(rs[h], f)
    BY <1>3, HomeRow
  <2>2. PICK r : /\ new = [rs EXCEPT ![h] = r]
                 /\ r = Sighted(rs[h], s, f) \/ r = [Sighted(rs[h], s, f) EXCEPT !.pending = None]
    BY <1>3 DEF Written
  <2>3. /\ Shape(r) /\ r.seen = rs[h].seen \cup {<<s, f.turn>>}
        /\ r.key = rs[h].key /\ r.value = rs[h].value /\ r.status = rs[h].status
        /\ r.first = rs[h].first /\ r.until = rs[h].until
    <3>1. Shape(rs[h])
      BY <2>1 DEF IsRows
    <3> DEFINE t == Sighted(rs[h], s, f)
    <3>2. /\ Shape(t) /\ Shape([t EXCEPT !.pending = None])
          /\ t.seen = rs[h].seen \cup {<<s, f.turn>>}
          /\ t.key = rs[h].key /\ t.value = rs[h].value /\ t.status = rs[h].status
          /\ t.first = rs[h].first /\ t.until = rs[h].until
      BY <3>1, SightedShape
    <3>3. r = t \/ r = [t EXCEPT !.pending = None]
      BY <2>2
    <3> HIDE DEF t
    <3>. QED
      BY <3>2, <3>3 DEF Shape
  <2> HIDE DEF new, h
  <2>4. DOMAIN new = DOMAIN rs /\ new = [i \in DOMAIN new |-> new[i]]
    BY <2>2
  <2>5. \A i \in DOMAIN rs : new[i] = IF i = h THEN r ELSE rs[i]
    BY <2>2
  <2>6. Len(new) = Len(rs)
    BY <2>4, FunctionIsSeq DEF IsRows
  <2>7. IsRows(new)
    BY <2>3, <2>4, <2>5, <2>6 DEF IsRows
  <2>8. Extends(rs, new)
    BY <2>1, <2>3, <2>5, <2>6 DEF IsRows, Extends, SameFact
  <2>9. \A i \in DOMAIN rs \ {h} : SameFact(rs[i], r) /\ IsSlot(r) => rs[i].seen \cap r.seen = {}
    <3>1. ASSUME NEW i \in DOMAIN rs \ {h}, SameFact(rs[i], r), IsSlot(r)
          PROVE  rs[i].seen \cap r.seen = {}
      <4>1. SameFact(rs[i], f) /\ f.key \notin EdgeKeys /\ SameFact(rs[i], rs[h]) /\ IsSlot(rs[i])
        BY <2>1, <2>3, <3>1 DEF SameFact, IsSlot
      <4>2. <<s, f.turn>> \notin rs[i].seen
        BY <1>3, <4>1 DEF AlreadyStored
      <4>3. rs[i].seen \cap rs[h].seen = {}
        BY <2>1, <4>1 DEF Once
      <4>. QED
        BY <2>3, <4>2, <4>3
    <3>. QED
      BY <3>1
  <2>10. ASSUME NEW i \in DOMAIN new, NEW j \in DOMAIN new, i # j,
                SameFact(new[i], new[j]), IsSlot(new[i])
         PROVE  new[i].seen \cap new[j].seen = {}
    <3>1. SameFact(new[j], new[i]) /\ IsSlot(new[j])
      BY <2>10 DEF SameFact, IsSlot
    <3>. QED
      BY <2>4, <2>5, <2>9, <2>10, <3>1 DEF Once
  <2>11. Keeps(rs, new)
    BY <2>7, <2>8, <2>10 DEF Keeps, Once
  <2>. QED
    BY <2>11 DEF new
<1>. QED
  BY <1>1, <1>2, <1>3

LEMMA KeepsOn ==
  ASSUME NEW a, NEW b, NEW c, IsRows(a), Keeps(a, b), Keeps(b, c)
  PROVE  Keeps(a, c)
BY ExtendsOn DEF Keeps

LEMMA StampKeeps ==
  ASSUME NEW rs, IsRows(rs), Once(rs), NEW S, NEW s, NEW why,
         \A i \in S \cap DOMAIN rs : Live(rs[i])
  PROVE  Keeps(rs, StampRows(rs, S, s, why))
<1>1. Quiet(rs, StampRows(rs, S, s, why))
  BY StampQuiet
<1>. QED
  BY <1>1, QuietExtends, RelabelOnce DEF Keeps, Quiet

\* Whatever a fact says, applying it keeps what is stored and counts it once.
LEMMA AppliedKeeps ==
  ASSUME NEW rs, IsRows(rs), Once(rs), NEW s, NEW f
  PROVE  Keeps(rs, Applied(s, f, rs))
<1>0. Keeps(rs, rs)
  BY ExtendsSelf DEF Keeps
<1>1. Keeps(rs, RejectedApplied(s, f, rs))
  <2> DEFINE rs1 == IF Dated(s) THEN StampRows(rs, RejectedBy(s, f, rs), s, "rejected") ELSE rs
  <2>1. Keeps(rs, rs1)
    <3>1. \A i \in RejectedBy(s, f, rs) \cap DOMAIN rs : Live(rs[i])
      BY DEF RejectedBy, Retirable
    <3>. QED
      BY <1>0, <3>1, StampKeeps
  <2>2. RejectedApplied(s, f, rs) = Written(s, f, rs1, {}, {})
    BY DEF RejectedApplied
  <2> HIDE DEF rs1
  <2>3. Keeps(rs1, Written(s, f, rs1, {}, {}))
    BY <2>1, WrittenKeeps DEF Keeps
  <2>. QED
    BY <2>1, <2>2, <2>3, KeepsOn
<1>2. Keeps(rs, DecidedApplied(s, f, rs))
  <2> DEFINE Closed(S) == IF Dated(s) THEN S ELSE {}
             named == IF f.listed THEN {} ELSE NamedBy(s, f, rs)
             kept1 == {i \in named : Kept(s, f, rs[i])}
             rs1   == StampRows(rs, Closed(named \ kept1), s, "replaced")
             rival == IF f.listed THEN {} ELSE SupersededBy(s, f, rs1)
             kept2 == {i \in rival : Kept(s, f, rs1[i])}
             rs2   == StampRows(rs1, Closed(rival \ kept2), s, Ending(f))
             rs3   == StampRows(rs2, Closed(PromotedBy(s, f, rs2)), s, "promoted")
             first == IF kept1 # {} THEN kept1 ELSE kept2
             armed == IF HoldOn(s) THEN {i \in first : Dated(s) \/ ~IsSlot(rs[i])} ELSE {}
             all   == Closed((named \ kept1) \cup (rival \ kept2))
  <2>1. DecidedApplied(s, f, rs) =
          IF f.listed /\ f.key \notin EdgeKeys /\ RivalsOf(f, rs) # {} THEN rs
          ELSE Written(s, f, rs3, armed, all)
    BY DEF DecidedApplied
  <2>2. Keeps(rs, rs1)
    <3>1. \A i \in Closed(named \ kept1) : Live(rs[i])
      BY DEF NamedBy, Retirable
    <3>. QED
      BY <3>1, StampKeeps
  <2>3. Keeps(rs1, rs2)
    <3>1. \A i \in Closed(rival \ kept2) : Live(rs1[i])
      BY DEF SupersededBy, RivalsOf, Current, Retirable
    <3> HIDE DEF rs1, rival, kept2
    <3>. QED
      BY <2>2, <3>1, StampKeeps DEF Keeps
  <2>4. Keeps(rs2, rs3)
    <3>1. \A i \in Closed(PromotedBy(s, f, rs2)) : Live(rs2[i])
      BY DEF PromotedBy, Retirable
    <3> HIDE DEF rs2
    <3>. QED
      BY <2>3, <3>1, StampKeeps DEF Keeps
  <2> HIDE DEF rs1, rs2, rs3, armed, all
  <2>5. Keeps(rs3, Written(s, f, rs3, armed, all))
    BY <2>4, WrittenKeeps DEF Keeps
  <2>6. Keeps(rs, rs3)
    BY <2>2, <2>3, <2>4, KeepsOn DEF Keeps
  <2>7. Keeps(rs, Written(s, f, rs3, armed, all))
    BY <2>5, <2>6, KeepsOn
  <2>. QED
    BY <1>0, <2>1, <2>7
<1>. QED
  BY <1>1, <1>2, WrittenKeeps DEF Applied

---------------------------------------------------------------------------
(* The invariant: every copy of the rows counts a sighting once, and one that *)
(* is not out of date extends what is stored.                                 *)

Domains ==
  /\ DOMAIN pc = Sessions /\ DOMAIN work = Sessions
  /\ DOMAIN pair = Sessions /\ DOMAIN fresh = Sessions
Copy(s) ==
  /\ IsRows(work[s]) /\ Once(work[s])
  /\ At(s, "writing") /\ fresh[s] => Extends(rows, work[s])
  /\ At(s, "writing back") /\ fresh[s] =>
       work[s] = rows /\ pair[s].old \in DOMAIN rows /\ Live(rows[pair[s].old])
RowsInv == Domains /\ IsRows(rows) /\ Once(rows) /\ \A s \in Sessions : Copy(s)

\* The kinds of steps that neither open nor use a copy of the rows.
Apart(s) == pc'[s] \notin {"writing", "writing back"} /\ work'[s] \in {work[s], <<>>}
Leaves(s) == Apart(s) /\ UNCHANGED rows
Edits(s) == Apart(s) /\ Quiet(rows, rows')

\* The step of one session leaves the others where they are, and makes their
\* copies out of date when it stores.
Aside(s) ==
  /\ Domains'
  /\ \A t \in Sessions \ {s} :
       /\ pc'[t] = pc[t] /\ work'[t] = work[t] /\ pair'[t] = pair[t]
       /\ fresh'[t] => fresh[t] /\ rows' = rows

LEMMA WriteAside ==
  ASSUME RowsInv, NEW s \in Sessions,
         \/ \E read \in SUBSET DOMAIN Told(s), known \in {rows, <<>>}, sw \in Switches :
                 Begin(s, read, known, sw)
         \/ BeginTx(s) \/ ApplyFact(s) \/ Commit(s) \/ Conflict(s) \/ ConflictAgain(s)
         \/ Settle(s) \/ Consider(s) \/ Load(s) \/ JudgeDone(s) \/ Mark(s) \/ Kill(s)
  PROVE  Aside(s)
BY DEF RowsInv, Domains, Aside, Begin, BeginTx, ApplyFact, Commit, Conflict, ConflictAgain,
   Settle, Consider, Load, JudgeDone, Mark, Kill, Forget, Goto, Put, KeepRows, Store,
   tx, settleRest

LEMMA PairAside ==
  ASSUME RowsInv, NEW s \in Sessions,
         DropHeld(s) \/ TakePending(s) \/ StampOld(s) \/ RestorePending(s) \/ RecoverPending(s)
  PROVE  Aside(s)
BY DEF RowsInv, Domains, Aside, DropHeld, TakePending, StampOld, RestorePending, RecoverPending,
   NextPair, KeepPair, Goto, Put, KeepRows, Close, Restore, EditRow, Store, settleRest

LEMMA JudgeAside ==
  ASSUME RowsInv, NEW s \in Sessions,
         \/ \E i \in part[s], j \in loaded[s].all :
              JudgeSupersedes(s, i, j) \/ JudgeDuplicate(s, i, j)
         \/ \E h \in open[s] : JudgeConfirms(s, h)
         \/ CloseRead(s) \/ CloseWrite(s)
  PROVE  Aside(s)
BY DEF RowsInv, Domains, Aside, JudgeSupersedes, JudgeDuplicate, Answer, JudgeConfirms,
   CloseRead, CloseWrite, NotClosed, NextPair, KeepPair, Goto, Put, KeepRows, Close, EditRow, Store

LEMMA OthersStay == ASSUME RowsInv, NEW s \in Sessions, Step(s) PROVE Aside(s)
BY WriteAside, PairAside, JudgeAside DEF Step

\* Only live rows are closed; a hold is put on, and taken off, without more.
LEMMA CloseQuiet ==
  ASSUME RowsInv, NEW s, NEW i \in DOMAIN rows, Live(rows[i]), NEW why, Close(s, i, why)
  PROVE  Quiet(rows, rows')
<1> DEFINE r == [rows[i] EXCEPT !.until = <<s, why>>]
<1>1. rows' = [rows EXCEPT ![i] = r]
  BY DEF Close, EditRow, Store
<1>2. Shape(rows[i])
  BY DEF RowsInv, IsRows
<1>3. Shape(r) /\ SameRow(rows[i], r)
  BY <1>2 DEF Shape, SameRow
<1>. QED
  BY <1>1, <1>3, EditQuiet DEF RowsInv

LEMMA HoldQuiet ==
  ASSUME RowsInv, NEW s, NEW i \in DOMAIN rows, NEW by,
         EditRow(s, i, [rows[i] EXCEPT !.pending = by])
  PROVE  Quiet(rows, rows')
<1> DEFINE r == [rows[i] EXCEPT !.pending = by]
<1>1. rows' = [rows EXCEPT ![i] = r]
  BY DEF EditRow, Store
<1>2. Shape(rows[i])
  BY DEF RowsInv, IsRows
<1>3. Shape(r) /\ SameRow(rows[i], r) /\ r.until = rows[i].until
  BY <1>2 DEF Shape, SameRow
<1>. QED
  BY <1>1, <1>3, EditQuiet DEF RowsInv

LEMMA SettleKinds ==
  ASSUME RowsInv, NEW s \in Sessions,
         DropHeld(s) \/ TakePending(s) \/ StampOld(s) \/ RestorePending(s) \/ RecoverPending(s)
  PROVE  Leaves(s) \/ Edits(s)
<1>1. Apart(s)
  BY DEF RowsInv, Domains, Apart, DropHeld, TakePending, StampOld, RestorePending,
     RecoverPending, NextPair, KeepPair, Goto, Put, settleRest
<1>2. UNCHANGED rows \/ Quiet(rows, rows')
  <2>1. CASE DropHeld(s)
    BY <2>1, CloseQuiet DEF DropHeld, NewIsLive, Has, KeepRows
  <2>2. CASE TakePending(s)
    BY <2>2, HoldQuiet DEF TakePending, NewIsHeld, KeepRows
  <2>3. CASE StampOld(s)
    BY <2>3, CloseQuiet DEF StampOld, OldIsLive, Has, KeepRows
  <2>4. CASE RestorePending(s)
    BY <2>4, HoldQuiet DEF RestorePending, Restorable, Restore, KeepRows
  <2>5. CASE RecoverPending(s)
    BY <2>5, HoldQuiet, CloseQuiet
    DEF RecoverPending, NewIsLive, Has, Restorable, Restore, KeepRows
  <2>. QED
    BY <2>1, <2>2, <2>3, <2>4, <2>5
<1>. QED
  BY <1>1, <1>2 DEF Leaves, Edits

LEMMA OtherKinds ==
  ASSUME RowsInv, NEW s \in Sessions,
         \/ \E read \in SUBSET DOMAIN Told(s), known \in {rows, <<>>}, sw \in Switches :
                 Begin(s, read, known, sw)
         \/ Conflict(s) \/ ConflictAgain(s) \/ Settle(s) \/ Consider(s) \/ Load(s)
         \/ \E i \in part[s], j \in loaded[s].all :
              JudgeSupersedes(s, i, j) \/ JudgeDuplicate(s, i, j)
         \/ \E h \in open[s] : JudgeConfirms(s, h)
         \/ JudgeDone(s) \/ Mark(s) \/ Kill(s)
  PROVE  Leaves(s)
BY DEF RowsInv, Domains, Leaves, Apart, Begin, Conflict, ConflictAgain, Settle, Consider, Load,
   JudgeSupersedes, JudgeDuplicate, Answer, JudgeConfirms, JudgeDone, Mark, Kill, Forget, Goto,
   Put, KeepRows, settleRest, tx

\* The other sessions' copies.
LEMMA AsideCopies ==
  ASSUME RowsInv, NEW s \in Sessions, Aside(s), IsRows(rows'), Once(rows)', Copy(s)'
  PROVE  RowsInv'
<1>1. ASSUME NEW t \in Sessions \ {s} PROVE Copy(t)'
  BY DEF RowsInv, Aside, Copy, At
<1>. QED
  BY <1>1 DEF RowsInv, Aside

LEMMA ApartStep ==
  ASSUME RowsInv, NEW s \in Sessions, Aside(s), Leaves(s) \/ Edits(s)
  PROVE  RowsInv' /\ Extends(rows, rows')
<1>1. IsRows(rows') /\ Once(rows)' /\ Extends(rows, rows')
  BY ExtendsSelf, QuietExtends, RelabelOnce DEF RowsInv, Leaves, Edits, Quiet
<1>2. IsRows(work'[s]) /\ Once(work'[s])
  BY EmptyRows DEF RowsInv, Copy, Leaves, Edits, Apart
<1>3. Copy(s)'
  BY <1>2 DEF Copy, Leaves, Edits, Apart, At
<1>. QED
  BY <1>1, <1>3, AsideCopies

---------------------------------------------------------------------------
(* The steps that open, change and store a copy. *)

LEMMA BeginTxStep ==
  ASSUME RowsInv, NEW s \in Sessions, Aside(s), BeginTx(s)
  PROVE  RowsInv' /\ UNCHANGED rows
<1>1. UNCHANGED rows /\ pc'[s] = "writing" /\ work'[s] = rows
  BY DEF BeginTx, Goto, Put, RowsInv, Domains
<1>2. Copy(s)'
  BY <1>1, ExtendsSelf DEF RowsInv, Copy, At
<1>. QED
  BY <1>1, <1>2, AsideCopies DEF RowsInv

LEMMA ApplyStep ==
  ASSUME RowsInv, NEW s \in Sessions, Aside(s), ApplyFact(s)
  PROVE  RowsInv' /\ UNCHANGED rows
<1>1. PICK f : work'[s] = Applied(s, f, work[s])
  BY DEF ApplyFact, Put, RowsInv, Domains
<1>2. UNCHANGED <<rows, fresh, pc>> /\ At(s, "writing")
  BY DEF ApplyFact
<1>3. Keeps(work[s], work'[s])
  BY <1>1, AppliedKeeps DEF RowsInv, Copy
<1>4. fresh[s] => Extends(rows, work'[s])
  BY <1>2, <1>3, ExtendsOn DEF RowsInv, Copy, Keeps
<1>5. Copy(s)'
  BY <1>2, <1>3, <1>4 DEF Copy, Keeps, At
<1>. QED
  BY <1>2, <1>5, AsideCopies DEF RowsInv

LEMMA CommitStep ==
  ASSUME RowsInv, NEW s \in Sessions, Aside(s), Commit(s)
  PROVE  RowsInv' /\ Extends(rows, rows')
<1>1. pc'[s] = "written" /\ work'[s] = <<>>
  BY DEF Commit, Goto, Put, RowsInv, Domains
<1>2. IsRows(rows') /\ Once(rows)' /\ Extends(rows, rows')
  <2>1. CASE dirty[s]
    <3>1. rows' = work[s] /\ fresh[s] /\ At(s, "writing")
      BY <2>1 DEF Commit, Conflicts, Store
    <3>. QED
      BY <3>1 DEF RowsInv, Copy
  <2>2. CASE ~dirty[s]
    BY <2>2, ExtendsSelf DEF Commit, KeepRows, RowsInv
  <2>. QED
    BY <2>1, <2>2
<1>3. Copy(s)'
  BY <1>1, EmptyRows DEF Copy, At
<1>. QED
  BY <1>2, <1>3, AsideCopies

LEMMA CloseReadStep ==
  ASSUME RowsInv, NEW s \in Sessions, Aside(s), CloseRead(s)
  PROVE  RowsInv' /\ Extends(rows, rows')
<1>1. CASE /\ MayClose(s) /\ IsSlot(rows[pair[s].old])
           /\ work' = Put(work, s, rows) /\ fresh' = Put(fresh, s, TRUE)
           /\ KeepPair(s, "writing back") /\ UNCHANGED <<rows, gone>>
  <2>1. UNCHANGED rows /\ pc'[s] = "writing back" /\ work'[s] = rows /\ pair'[s] = pair[s]
    BY <1>1 DEF KeepPair, Goto, Put, RowsInv, Domains
  <2>2. pair[s].old \in DOMAIN rows /\ Live(rows[pair[s].old])
    BY <1>1 DEF MayClose, OldIsLive, Has
  <2>3. Copy(s)'
    BY <2>1, <2>2 DEF RowsInv, Copy, At
  <2>. QED
    BY <2>1, <2>3, AsideCopies, ExtendsSelf DEF RowsInv
<1>2. CASE /\ MayClose(s) /\ ~IsSlot(rows[pair[s].old])
           /\ Close(s, pair[s].old, pair[s].why)
           /\ gone' = Put(gone, s, gone[s] \cup {pair[s].old})
           /\ NextPair(s) /\ UNCHANGED work
  <2>1. Apart(s)
    BY <1>2 DEF Apart, NextPair, Goto, Put, RowsInv, Domains
  <2>2. Quiet(rows, rows')
    BY <1>2, CloseQuiet DEF MayClose, OldIsLive, Has
  <2>. QED
    BY <2>1, <2>2, ApartStep DEF Edits
<1>3. CASE ~MayClose(s) /\ KeepRows /\ NotClosed(s) /\ UNCHANGED <<work, gone>>
  <2>1. Apart(s)
    BY <1>3 DEF Apart, NotClosed, NextPair, KeepPair, Goto, Put, RowsInv, Domains
  <2>. QED
    BY <1>3, <2>1, ApartStep DEF Leaves, KeepRows
<1>. QED
  BY <1>1, <1>2, <1>3 DEF CloseRead

LEMMA CloseWriteStep ==
  ASSUME RowsInv, NEW s \in Sessions, Aside(s), CloseWrite(s)
  PROVE  RowsInv' /\ (Extends(rows, rows') \/ OutOfDate) /\ (fresh[s] => Extends(rows, rows'))
<1>0. work'[s] = <<>> /\ pc'[s] \notin {"writing", "writing back"} /\ At(s, "writing back")
  BY DEF CloseWrite, NotClosed, NextPair, KeepPair, Goto, Put, RowsInv, Domains
<1>1. CASE Store(s, StampRows(work[s], {pair[s].old}, s, pair[s].why))
  <2> DEFINE new == StampRows(work[s], {pair[s].old}, s, pair[s].why)
  <2>1. rows' = new /\ IsRows(work[s]) /\ Once(work[s])
    BY <1>1 DEF Store, RowsInv, Copy
  <2>2. Relabels(work[s], new)
    BY <2>1, StampRelabels
  <2>3. IsRows(rows') /\ Once(rows)'
    BY <2>1, <2>2, RelabelOnce DEF Relabels
  <2>4. fresh[s] => Extends(rows, rows')
    <3>1. fresh[s] => work[s] = rows /\ Live(rows[pair[s].old])
      BY <1>0 DEF RowsInv, Copy
    <3>2. fresh[s] => Quiet(work[s], new)
      BY <2>1, <3>1, StampQuiet
    <3>. QED
      BY <2>1, <3>1, <3>2, QuietExtends
  <2>5. Copy(s)'
    BY <1>0, EmptyRows DEF Copy, At
  <2>. QED
    BY <1>0, <2>3, <2>4, <2>5, AsideCopies DEF OutOfDate
<1>2. CASE KeepRows
  <2>1. Leaves(s)
    BY <1>0, <1>2 DEF Leaves, Apart, KeepRows
  <2>. QED
    BY <2>1, ApartStep
<1>. QED
  BY <1>1, <1>2 DEF CloseWrite

LEMMA StepRows ==
  ASSUME RowsInv, [Next]_vars
  PROVE  RowsInv' /\ (Extends(rows, rows') \/ OutOfDate)
<1>1. ASSUME NEW s \in Sessions, Step(s)
      PROVE  RowsInv' /\ (Extends(rows, rows') \/ OutOfDate)
  <2>0. Aside(s)
    BY <1>1, OthersStay
  <2>1. CASE BeginTx(s) \/ ApplyFact(s)
    BY <2>0, <2>1, BeginTxStep, ApplyStep, ExtendsSelf DEF RowsInv
  <2>2. CASE Commit(s) \/ CloseRead(s) \/ CloseWrite(s)
    BY <2>0, <2>2, CommitStep, CloseReadStep, CloseWriteStep
  <2>3. CASE Leaves(s) \/ Edits(s)
    BY <2>0, <2>3, ApartStep
  <2>. QED
    BY <1>1, <2>1, <2>2, <2>3, SettleKinds, OtherKinds DEF Step
<1>2. CASE UNCHANGED vars
  <2>1. UNCHANGED <<rows, pc, work, pair, fresh>>
    BY <1>2 DEF vars
  <2>. QED
    BY <2>1, ExtendsSelf DEF RowsInv, Domains, Copy, At
<1>. QED
  BY <1>1, <1>2 DEF Next

LEMMA InitRows == Init => RowsInv
BY EmptyRows DEF Init, RowsInv, Domains, Copy, At

LEMMA RowsInvariant == Spec => []RowsInv
<1>1. RowsInv /\ [Next]_vars => RowsInv'
  BY StepRows
<1>. QED
  BY <1>1, InitRows, PTL DEF Spec

\* However often a transaction or a session is run again, and whoever writes at
\* the same time, a sighting counts once: no two slots of a fact share one.
THEOREM SightingsCountOnce == Spec => []CountedOnce
<1>1. RowsInv => CountedOnce
  BY DEF RowsInv, Once, CountedOnce
<1>. QED
  BY <1>1, RowsInvariant, PTL

\* No step forgets what is stored, but for a close that writes back a copy of
\* the record that is out of date.
THEOREM StoredRowsRemain == Spec => NothingForgotten
<1>1. RowsInv /\ [Next]_vars => [Extends(rows, rows') \/ OutOfDate]_rows
  <2> SUFFICES ASSUME RowsInv, [Next]_vars PROVE Extends(rows, rows') \/ OutOfDate
    OBVIOUS
  <2>. QED
    BY StepRows
<1>. QED
  BY <1>1, RowsInvariant, PTL DEF Spec, NothingForgotten
---------------------------------------------------------------------------
(* Type correctness: what the operators on rows return.                     *)

PlaceType == {"waiting", "begin", "writing", "written", "settling", "dropping",
              "taking", "stamping", "restoring", "recovering", "judging",
              "closing", "writing back", "finished", "done"}

LEMMA StampType ==
  ASSUME NEW rs \in Seq(Row), NEW S, NEW s \in Sessions, NEW why \in Reason
  PROVE  StampRows(rs, S, s, why) \in Seq(Row) /\ DOMAIN StampRows(rs, S, s, why) = DOMAIN rs
<1>1. /\ Len(rs) \in Nat /\ DOMAIN rs = 1..Len(rs)
      /\ \A i \in DOMAIN rs : rs[i] \in Row
  BY LenProperties, ElementOfSeq
<1>2. <<s, why>> \in (Sessions \X Reason) \cup {None}
  OBVIOUS
<1>3. \A r \in Row : [r EXCEPT !.until = <<s, why>>] \in Row
  BY <1>2 DEF Row
<1>4. StampRows(rs, S, s, why) \in [1..Len(rs) -> Row]
  BY <1>1, <1>3 DEF StampRows
<1>5. DOMAIN StampRows(rs, S, s, why) = DOMAIN rs
  BY DEF StampRows
<1>. QED
  BY <1>1, <1>4, <1>5, SeqDef

LEMMA EditType ==
  ASSUME NEW rs \in Seq(Row), NEW i, NEW r \in Row
  PROVE  [rs EXCEPT ![i] = r] \in Seq(Row)
<1>1. /\ Len(rs) \in Nat /\ DOMAIN rs = 1..Len(rs)
      /\ \A j \in DOMAIN rs : rs[j] \in Row /\ rs \in [1..Len(rs) -> Row]
  BY LenProperties, ElementOfSeq
<1>2. [rs EXCEPT ![i] = r] \in [1..Len(rs) -> Row]
  BY <1>1
<1>. QED
  BY <1>1, <1>2, SeqDef

LEMMA WrittenType ==
  ASSUME NEW rs \in Seq(Row), NEW s \in Sessions, NEW f \in Fact,
         NEW armed, armed \subseteq DOMAIN rs, NEW closed
  PROVE  Written(s, f, rs, armed, closed) \in Seq(Row)
<1>1. /\ Len(rs) \in Nat /\ DOMAIN rs = 1..Len(rs)
      /\ \A i \in DOMAIN rs : rs[i] \in Row
  BY LenProperties, ElementOfSeq
<1>2. <<s, f.turn>> \in Sighting
  BY DEF Fact, Sighting
<1>3. NewRow(s, f, armed) \in Row
  <2>1. armed # {} => Min(armed) \in Nat
    BY <1>1, MinIsLeast
  <2> DEFINE by == IF armed = {} THEN None ELSE <<s, Min(armed)>>
  <2>2. by \in (Sessions \X Nat) \cup {None}
    BY <2>1
  <2>3. NewRow(s, f, armed) =
          [key |-> f.key, value |-> f.value, status |-> f.status,
           first |-> <<s, f.turn>>, seen |-> {<<s, f.turn>>}, pending |-> by, until |-> None]
    BY DEF NewRow
  <2> HIDE DEF by
  <2>. QED
    BY <1>2, <2>2, <2>3 DEF Row, Fact
<1>4. ASSUME NEW r \in Row
      PROVE  Sighted(r, s, f) \in Row /\ [Sighted(r, s, f) EXCEPT !.pending = None] \in Row
  <2>1. Sighted(r, s, f) \in Row
    BY <1>2 DEF Sighted, Row
  <2>. QED
    BY <2>1 DEF Row
<1>5. CASE AlreadyStored(s, f, rs)
  BY <1>5 DEF Written
<1>6. CASE ~AlreadyStored(s, f, rs) /\ Home(f, rs) = {}
  BY <1>3, <1>6 DEF Written
<1>7. CASE ~AlreadyStored(s, f, rs) /\ Home(f, rs) # {}
  <2> DEFINE h == Min(Home(f, rs))
  <2>1. h \in DOMAIN rs
    <3>1. Home(f, rs) \subseteq DOMAIN rs
      BY DEF Home
    <3>2. h \in Home(f, rs)
      BY <1>1, <1>7, <3>1, MinIsLeast
    <3>. QED
      BY <3>1, <3>2
  <2>2. PICK r \in {Sighted(rs[h], s, f), [Sighted(rs[h], s, f) EXCEPT !.pending = None]} :
          Written(s, f, rs, armed, closed) = [rs EXCEPT ![h] = r]
    BY <1>7 DEF Written
  <2>3. r \in Row
    BY <1>1, <1>4, <2>1
  <2>. QED
    BY <2>2, <2>3, EditType
<1>. QED
  BY <1>5, <1>6, <1>7

LEMMA AppliedType ==
  ASSUME NEW rs \in Seq(Row), NEW s \in Sessions, NEW f \in Fact
  PROVE  Applied(s, f, rs) \in Seq(Row)
<1>0. {"replaced", "promoted", "rejected", Ending(f)} \subseteq Reason
  BY DEF Reason, Ending
<1>1. RejectedApplied(s, f, rs) \in Seq(Row)
  <2> DEFINE rs1 == IF Dated(s) THEN StampRows(rs, RejectedBy(s, f, rs), s, "rejected") ELSE rs
  <2>1. rs1 \in Seq(Row)
    BY <1>0, StampType
  <2>2. RejectedApplied(s, f, rs) = Written(s, f, rs1, {}, {})
    BY DEF RejectedApplied
  <2> HIDE DEF rs1
  <2>. QED
    BY <2>1, <2>2, WrittenType
<1>2. DecidedApplied(s, f, rs) \in Seq(Row)
  <2> DEFINE Closed(S) == IF Dated(s) THEN S ELSE {}
             named == IF f.listed THEN {} ELSE NamedBy(s, f, rs)
             kept1 == {i \in named : Kept(s, f, rs[i])}
             rs1   == StampRows(rs, Closed(named \ kept1), s, "replaced")
             rival == IF f.listed THEN {} ELSE SupersededBy(s, f, rs1)
             kept2 == {i \in rival : Kept(s, f, rs1[i])}
             rs2   == StampRows(rs1, Closed(rival \ kept2), s, Ending(f))
             rs3   == StampRows(rs2, Closed(PromotedBy(s, f, rs2)), s, "promoted")
             first == IF kept1 # {} THEN kept1 ELSE kept2
             armed == IF HoldOn(s) THEN {i \in first : Dated(s) \/ ~IsSlot(rs[i])} ELSE {}
             all   == Closed((named \ kept1) \cup (rival \ kept2))
  <2>1. DecidedApplied(s, f, rs) =
          IF f.listed /\ f.key \notin EdgeKeys /\ RivalsOf(f, rs) # {} THEN rs
          ELSE Written(s, f, rs3, armed, all)
    BY DEF DecidedApplied
  <2>2. rs1 \in Seq(Row) /\ DOMAIN rs1 = DOMAIN rs
    BY <1>0, StampType
  <2>3. rival \subseteq DOMAIN rs
    BY <2>2 DEF SupersededBy, RivalsOf, Retirable
  <2>4. named \subseteq DOMAIN rs
    BY DEF NamedBy
  <2>5. armed \subseteq DOMAIN rs
    BY <2>3, <2>4
  <2> HIDE DEF rs1, armed, all
  <2>6. rs2 \in Seq(Row) /\ DOMAIN rs2 = DOMAIN rs
    BY <2>2, <1>0, StampType
  <2> HIDE DEF rs2
  <2>7. rs3 \in Seq(Row) /\ DOMAIN rs3 = DOMAIN rs
    BY <2>6, <1>0, StampType
  <2> HIDE DEF rs3
  <2>8. Written(s, f, rs3, armed, all) \in Seq(Row)
    BY <2>5, <2>7, WrittenType
  <2>. QED
    BY <2>1, <2>8
<1>. QED
  BY <1>1, <1>2, WrittenType DEF Applied

\* There is a fact to apply next as long as there is any.
LEMMA NextFactTodo ==
  ASSUME NEW s \in Sessions, Facts(s) \in Seq(Fact),
         todo[s] \subseteq DOMAIN Facts(s), todo[s] # {}
  PROVE  NextFact(s) \in todo[s] /\ Facts(s)[NextFact(s)] \in Fact
<1> DEFINE fs == Facts(s)
           T == {fs[i].turn : i \in todo[s]}
           onTurn == {i \in todo[s] : fs[i].turn = Min(T)}
           R == {Rank(fs[i]) : i \in onTurn}
           due == {i \in onTurn : Rank(fs[i]) = Min(R)}
<1>1. /\ todo[s] \subseteq Nat
      /\ \A i \in todo[s] : fs[i] \in Fact /\ fs[i].turn \in Nat /\ Rank(fs[i]) \in Nat
  <2>1. DOMAIN fs = 1..Len(fs) /\ Len(fs) \in Nat
    BY LenProperties
  <2>2. \A i \in DOMAIN fs : fs[i] \in Fact
    BY <2>1, ElementOfSeq
  <2>3. \A f \in Fact : f.turn \in Nat /\ Rank(f) \in Nat
    BY DEF Fact, Rank
  <2>. QED
    BY <2>1, <2>2, <2>3
<1>2. Min(T) \in T /\ \A y \in T : Min(T) <= y
  <2>1. T \subseteq Nat /\ T # {}
    BY <1>1
  <2> HIDE DEF T
  <2>. QED
    BY <2>1, MinIsLeast
<1>3. PICK k \in todo[s] : Min(T) = fs[k].turn
  BY <1>2
<1>4. k \in onTurn /\ onTurn \subseteq todo[s]
  BY <1>3
<1>5. Min(R) \in R /\ \A y \in R : Min(R) <= y
  <2>1. R \subseteq Nat /\ R # {}
    <3> HIDE DEF onTurn
    <3>. QED
      BY <1>1, <1>4
  <2> HIDE DEF R
  <2>. QED
    BY <2>1, MinIsLeast
<1>6. PICK m \in onTurn : Min(R) = Rank(fs[m])
  <2> HIDE DEF onTurn
  <2>. QED
    BY <1>5
<1>7. Min(due) \in due /\ \A y \in due : Min(due) <= y
  <2>1. m \in due /\ due \subseteq Nat
    <3> HIDE DEF onTurn, R
    <3>. QED
      BY <1>1, <1>4, <1>6
  <2> HIDE DEF due
  <2>. QED
    BY <2>1, MinIsLeast
<1> DEFINE i == Min(due)
<1>8. /\ i \in todo[s] /\ i \in Nat /\ fs[i].turn = Min(T) /\ Rank(fs[i]) = Min(R)
      /\ Min(T) \in Nat /\ Min(R) \in Nat
  <2> HIDE DEF T, R, i
  <2>1. i \in due
    BY <1>7 DEF i
  <2>2. Min(T) \in Nat /\ Min(R) \in Nat
    BY <1>1, <1>3, <1>4, <1>6
  <2>. QED
    BY <1>1, <2>1, <2>2
<1> HIDE DEF i
<1>9. ASSUME NEW j \in todo[s] \ {i} PROVE Before(fs, i, j)
  <2>1. j \in Nat /\ fs[j].turn \in Nat /\ Rank(fs[j]) \in Nat
    BY <1>1
  <2>2. Min(T) <= fs[j].turn
    BY <1>2
  <2>3. Rank(fs[j]) \in R \/ fs[j].turn # Min(T)
    OBVIOUS
  <2>4. j \in due \/ fs[j].turn # Min(T) \/ Rank(fs[j]) # Min(R)
    OBVIOUS
  <2> HIDE DEF T, R, due
  <2>5. CASE fs[j].turn # Min(T)
    BY <1>8, <2>1, <2>2, <2>5 DEF Before
  <2>6. CASE fs[j].turn = Min(T) /\ Rank(fs[j]) # Min(R)
    <3>1. Min(R) <= Rank(fs[j])
      BY <1>5, <2>6, <2>3
    <3>. QED
      BY <1>8, <2>1, <2>6, <3>1 DEF Before
  <2>7. CASE fs[j].turn = Min(T) /\ Rank(fs[j]) = Min(R)
    <3>1. i <= j
      BY <1>7, <2>7, <2>4 DEF i
    <3>. QED
      BY <1>8, <2>1, <2>7, <3>1 DEF Before
  <2>. QED
    BY <2>5, <2>6, <2>7
<1>10. NextFact(s) \in todo[s]
  BY <1>8, <1>9 DEF NextFact
<1>. QED
  BY <1>1, <1>10

---------------------------------------------------------------------------
(* Type correctness: what a run keeps in memory.                            *)

PairType ==
  {h \in [new : Nat, key : Keys \cup {None}, newValue : Values \cup {None},
          old : Nat, oldValue : Values \cup {None},
          taken : (Sessions \X Nat) \cup {None},
          already : BOOLEAN, judged : BOOLEAN, why : Reason \cup {None}] :
     h.judged => h.why \in Reason}
HoldType == {h \in PairType : h.new # 0 /\ h.key \in Keys}
LoadType == {l \in [rs : Seq(Row), all : SUBSET Nat] : l.all \subseteq DOMAIN l.rs}

GivenTypes ==
  /\ overlap \in BOOLEAN /\ story \in [Sessions -> Stories \cup ServerStories]
  /\ said \in [Sessions -> Seq(Fact)]
RunTypes ==
  /\ pc \in [Sessions -> PlaceType] /\ on \in [Sessions -> Switches \cup {{}}]
  /\ part \in [Sessions -> SUBSET Nat] /\ todo \in [Sessions -> SUBSET Nat]
  /\ dirty \in [Sessions -> BOOLEAN] /\ fresh \in [Sessions -> BOOLEAN]
  /\ retried \in [Sessions -> BOOLEAN]
  /\ holds \in [Sessions -> SUBSET HoldType] /\ open \in [Sessions -> SUBSET HoldType]
  /\ answered \in [Sessions -> SUBSET Nat] /\ gone \in [Sessions -> SUBSET Nat]
RowTypes ==
  /\ rows \in Seq(Row) /\ work \in [Sessions -> Seq(Row)]
  /\ loaded \in [Sessions -> LoadType] /\ pair \in [Sessions -> PairType]
PastTypes ==
  /\ left \subseteq Sessions /\ committed \in [Sessions -> {"nothing", "some", "all"}]
  /\ torn \in BOOLEAN /\ overlapped \in BOOLEAN /\ troubles \in 0..MaxTroubles

\* A run is about its own facts, and only a pair of the judge's is closed as it says.
Own(s) ==
  /\ part[s] \subseteq DOMAIN Facts(s) /\ todo[s] \subseteq part[s]
  /\ answered[s] \subseteq part[s]
  /\ pc[s] = "waiting" => todo[s] = {} /\ answered[s] = {}
  /\ pc[s] \in {"closing", "writing back"} => pair[s].judged

TInv == GivenTypes /\ RunTypes /\ RowTypes /\ PastTypes /\ \A s \in Sessions : Own(s)

LEMMA TypesHold == TInv => TypeOK
<1> SUFFICES ASSUME TInv PROVE TypeOK
  OBVIOUS
<1>1. ASSUME NEW s \in Sessions
      PROVE  /\ loaded[s].rs \in Seq(Row) /\ loaded[s].all \subseteq DOMAIN loaded[s].rs
             /\ gone[s] \subseteq Nat
             /\ \A h \in holds[s] \cup open[s] : h.new \in Nat \ {0} /\ h.key \in Keys
  <2>1. \A h \in HoldType : h.new \in Nat \ {0} /\ h.key \in Keys
    BY DEF HoldType, PairType
  <2>2. \A l \in LoadType : l.rs \in Seq(Row) /\ l.all \subseteq DOMAIN l.rs
    BY DEF LoadType
  <2>. QED
    BY <2>1, <2>2 DEF TInv, RunTypes, RowTypes
<1>. QED
  BY <1>1 DEF TInv, GivenTypes, RunTypes, RowTypes, PastTypes, Own, PlaceType, TypeOK

LEMMA FactsType ==
  ASSUME GivenTypes, NEW s \in Sessions
  PROVE  /\ Facts(s) \in Seq(Fact) /\ DOMAIN Facts(s) \subseteq Nat
         /\ Told(s) \in Seq(Fact) /\ DOMAIN Told(s) \subseteq Nat
<1>1. Facts(s) \in Seq(Fact) /\ Told(s) \in Seq(Fact)
  BY ConstantsOK DEF GivenTypes, Facts, Told
<1>. QED
  BY <1>1, LenProperties

LEMMA EmptyTypes == NoPair \in PairType /\ Nothing \in LoadType /\ <<>> \in Seq(Row)
<1>1. <<>> \in Seq(Row)
  OBVIOUS
<1>2. NoPair \in PairType
  BY DEF NoPair, PairType
<1>3. Nothing \in LoadType
  BY <1>1 DEF Nothing, LoadType
<1>. QED
  BY <1>1, <1>2, <1>3

LEMMA RowsType ==
  ASSUME NEW rs \in Seq(Row)
  PROVE  DOMAIN rs \subseteq Nat \ {0} /\ \A i \in DOMAIN rs : rs[i] \in Row
<1>1. Len(rs) \in Nat /\ DOMAIN rs = 1..Len(rs)
  BY LenProperties
<1>. QED
  BY <1>1, ElementOfSeq

LEMMA InitTypes == Init => TInv
<1> SUFFICES ASSUME Init PROVE TInv
  OBVIOUS
<1>1. GivenTypes
  <2>1. \A st \in Stories \cup ServerStories : st.facts \in Seq(Fact)
    BY ConstantsOK
  <2>. QED
    BY <2>1 DEF Init, GivenTypes
<1>2. RunTypes
  BY DEF Init, RunTypes, PlaceType
<1>3. RowTypes
  BY EmptyTypes DEF Init, RowTypes
<1>4. PastTypes
  <2>1. troubles \in 0..MaxTroubles
    BY ConstantsOK DEF Init
  <2>. QED
    BY <2>1 DEF Init, PastTypes
<1>. QED
  BY <1>1, <1>2, <1>3, <1>4 DEF Init, TInv, Own

\* What a step may do to the memory of a run: nothing, a change of one part of
\* it, or the end of the run.
LEMMA PutType ==
  ASSUME NEW V, NEW x \in [Sessions -> V], NEW s \in Sessions, NEW v \in V
  PROVE  Put(x, s, v) \in [Sessions -> V]
BY DEF Put

LEMMA GotoType ==
  ASSUME TInv, NEW s \in Sessions, NEW place \in PlaceType, Goto(s, place)
  PROVE  pc' \in [Sessions -> PlaceType] /\ pc'[s] = place
BY DEF TInv, RunTypes, Goto, Put

LEMMA ForgetTypes ==
  ASSUME TInv, NEW s \in Sessions, Forget(s), pc' \in [Sessions -> PlaceType],
         fresh' \in [Sessions -> BOOLEAN], pc'[s] \notin {"closing", "writing back"}
  PROVE  /\ RunTypes'
         /\ work' \in [Sessions -> Seq(Row)] /\ loaded' \in [Sessions -> LoadType]
         /\ pair' \in [Sessions -> PairType]
         /\ part'[s] = {} /\ todo'[s] = {} /\ answered'[s] = {}
<1>1. RunTypes'
  BY DEF TInv, RunTypes, Forget, Put
<1>2. /\ work' \in [Sessions -> Seq(Row)] /\ loaded' \in [Sessions -> LoadType]
      /\ pair' \in [Sessions -> PairType]
  BY EmptyTypes, PutType DEF TInv, RowTypes, Forget
<1>3. part'[s] = {} /\ todo'[s] = {} /\ answered'[s] = {}
  BY DEF TInv, RunTypes, Forget, Put
<1>. QED
  BY <1>1, <1>2, <1>3

LEMMA StoreTypes ==
  ASSUME TInv, NEW s \in Sessions, NEW rs \in Seq(Row), Store(s, rs)
  PROVE  rows' \in Seq(Row) /\ fresh' \in [Sessions -> BOOLEAN]
BY DEF TInv, RunTypes, Store

LEMMA KeepTypes ==
  ASSUME TInv, KeepRows
  PROVE  rows' \in Seq(Row) /\ fresh' \in [Sessions -> BOOLEAN]
BY DEF TInv, RunTypes, RowTypes, KeepRows

\* The other sessions' runs, and what is the same for every step.
LEMMA OthersOwn ==
  ASSUME TInv, NEW s \in Sessions, GivenTypes', RunTypes', RowTypes', PastTypes', Own(s)',
         \A t \in Sessions \ {s} :
           /\ said'[t] = said[t]
           /\ pc'[t] = pc[t] /\ part'[t] = part[t] /\ todo'[t] = todo[t]
           /\ answered'[t] = answered[t] /\ pair'[t] = pair[t]
  PROVE  TInv'
<1>1. ASSUME NEW t \in Sessions \ {s} PROVE Own(t)'
  BY DEF TInv, Own, Facts
<1>. QED
  BY <1>1 DEF TInv

\* Matching gives a fact another key and the value it aims at, or leaves it.
LEMMA MatchedType ==
  ASSUME NEW f \in Fact, NEW known \in Seq(Row)
  PROVE  Matched(f, known) \in Fact
<1>1. CASE f.status = Decided /\ f.finds # None /\ Cardinality(Hits(f, known)) = 1
  <2>1. Hits(f, known) # {} /\ Hits(f, known) \subseteq DOMAIN known
    <3>1. Hits(f, known) \subseteq DOMAIN known
      BY DEF Hits
    <3>2. Cardinality({}) = 0
      BY FS_EmptySet, Zenon
    <3>3. Hits(f, known) # {}
      <4> SUFFICES ASSUME Hits(f, known) = {} PROVE FALSE
        OBVIOUS
      <4>1. Cardinality(Hits(f, known)) = Cardinality({})
        BY Zenon
      <4>. QED
        BY <1>1, <3>2, <4>1
    <3>. QED
      BY <3>1, <3>3
  <2>2. Min(Hits(f, known)) \in DOMAIN known
    BY <2>1, RowsType, MinIsLeast
  <2>3. known[Min(Hits(f, known))].value \in Values
    BY <2>2, RowsType DEF Row
  <2>. QED
    BY <1>1, <2>3 DEF Matched, Fact
<1>2. CASE ~(f.status = Decided /\ f.finds # None /\ Cardinality(Hits(f, known)) = 1)
  BY <1>2 DEF Matched
<1>. QED
  BY <1>1, <1>2

\* A run matches its own transcript's facts, one for one.
LEMMA BeginSaid ==
  ASSUME TInv, NEW s \in Sessions, NEW read, NEW known \in {rows, <<>>}, NEW sw \in Switches,
         Begin(s, read, known, sw)
  PROVE  GivenTypes' /\ DOMAIN Told(s) = DOMAIN said'[s] /\ Told(s)' = Told(s)
<1> DEFINE fs == [i \in DOMAIN Told(s) |->
                    IF "match" \in sw THEN Matched(Told(s)[i], known) ELSE Told(s)[i]]
<1>0. GivenTypes /\ RowTypes /\ Told(s) \in Seq(Fact)
  BY FactsType DEF TInv
<1>1. said' = Put(said, s, fs) /\ UNCHANGED <<overlap, story>>
  BY DEF Begin
<1>2. known \in Seq(Row)
  BY <1>0, EmptyTypes DEF RowTypes
<1>3. DOMAIN Told(s) = 1..Len(Told(s)) /\ Len(Told(s)) \in Nat
  BY <1>0, LenProperties
<1>4. \A i \in DOMAIN Told(s) : Told(s)[i] \in Fact /\ Matched(Told(s)[i], known) \in Fact
  BY <1>0, <1>2, <1>3, ElementOfSeq, MatchedType
<1>5. fs \in [1..Len(Told(s)) -> Fact]
  BY <1>3, <1>4
<1>6. fs \in Seq(Fact) /\ DOMAIN fs = DOMAIN Told(s)
  BY <1>3, <1>5, SeqDef
<1> HIDE DEF fs
<1>7. said' \in [Sessions -> Seq(Fact)] /\ said'[s] = fs
  BY <1>0, <1>1, <1>6 DEF GivenTypes, Put
<1>. QED
  BY <1>0, <1>1, <1>6, <1>7 DEF GivenTypes, Told

\* No other step touches what is given and said.
LEMMA GivenStays ==
  ASSUME NEW s \in Sessions, Step(s)
  PROVE  \/ UNCHANGED given
         \/ \E read \in SUBSET DOMAIN Told(s), known \in {rows, <<>>}, sw \in Switches :
              Begin(s, read, known, sw)
BY DEF Step, BeginTx, ApplyFact, Commit, Conflict, ConflictAgain, Settle, Consider,
   DropHeld, TakePending, StampOld, RestorePending, RecoverPending, Load, JudgeSupersedes,
   JudgeDuplicate, Answer, JudgeConfirms, CloseRead, CloseWrite, JudgeDone, Mark, Kill, settleRest

\* The step of a session touches the memory of its own run only.
LEMMA RunsApart ==
  ASSUME TInv, NEW s \in Sessions, Step(s)
  PROVE  /\ GivenTypes' /\ UNCHANGED <<overlap, story>>
         /\ \A t \in Sessions \ {s} :
              /\ said'[t] = said[t]
              /\ pc'[t] = pc[t] /\ part'[t] = part[t] /\ todo'[t] = todo[t]
              /\ answered'[t] = answered[t] /\ pair'[t] = pair[t]
<1>0. GivenTypes' /\ UNCHANGED <<overlap, story>> /\ \A t \in Sessions \ {s} : said'[t] = said[t]
  <2>1. CASE UNCHANGED given
    BY <2>1 DEF TInv, GivenTypes, given
  <2>2. ASSUME NEW read \in SUBSET DOMAIN Told(s), NEW known \in {rows, <<>>},
               NEW sw \in Switches, Begin(s, read, known, sw)
        PROVE  GivenTypes' /\ UNCHANGED <<overlap, story>> /\ \A t \in Sessions \ {s} : said'[t] = said[t]
    <3>1. GivenTypes'
      BY <2>2, BeginSaid
    <3>2. UNCHANGED <<overlap, story>> /\ \A t \in Sessions \ {s} : said'[t] = said[t]
      BY <2>2 DEF TInv, GivenTypes, Begin, Put
    <3>. QED
      BY <3>1, <3>2
  <2>. QED
    BY <2>1, <2>2, GivenStays
<1> SUFFICES \A t \in Sessions \ {s} :
               /\ pc'[t] = pc[t] /\ part'[t] = part[t] /\ todo'[t] = todo[t]
               /\ answered'[t] = answered[t] /\ pair'[t] = pair[t]
  BY <1>0
<1>1. CASE \/ \E read \in SUBSET DOMAIN Told(s), known \in {rows, <<>>}, sw \in Switches :
                   Begin(s, read, known, sw)
           \/ BeginTx(s) \/ ApplyFact(s) \/ Commit(s) \/ Conflict(s) \/ ConflictAgain(s)
  BY <1>1 DEF TInv, RunTypes, RowTypes, Begin, BeginTx, ApplyFact, Commit, Conflict,
     ConflictAgain, Forget, Goto, Put, tx, pass
<1>2. CASE \/ Settle(s) \/ Consider(s) \/ Load(s) \/ JudgeDone(s) \/ Mark(s) \/ Kill(s)
  BY <1>2 DEF TInv, RunTypes, RowTypes, Settle, Consider, Load, JudgeDone, Mark, Kill, Forget,
     Goto, Put, tx, pass, settleRest
<1>3. CASE DropHeld(s) \/ TakePending(s) \/ StampOld(s) \/ RestorePending(s) \/ RecoverPending(s)
  <2>1. UNCHANGED <<part, todo, answered>>
    BY <1>3 DEF DropHeld, TakePending, StampOld, RestorePending, RecoverPending, tx, pass,
       settleRest
  <2>2. \A t \in Sessions \ {s} : pc'[t] = pc[t] /\ pair'[t] = pair[t]
    BY <1>3 DEF TInv, RunTypes, RowTypes, DropHeld, TakePending, StampOld, RestorePending,
       RecoverPending, NextPair, KeepPair, Goto, Put
  <2>. QED
    BY <2>1, <2>2
<1>4. CASE \/ \E i \in part[s], j \in loaded[s].all :
                JudgeSupersedes(s, i, j) \/ JudgeDuplicate(s, i, j)
           \/ \E h \in open[s] : JudgeConfirms(s, h)
           \/ CloseRead(s) \/ CloseWrite(s)
  <2>1. UNCHANGED <<part, todo>>
    BY <1>4 DEF JudgeSupersedes, JudgeDuplicate, Answer, JudgeConfirms, CloseRead, CloseWrite, tx
  <2>2. \A t \in Sessions \ {s} : answered'[t] = answered[t]
    BY <1>4 DEF TInv, RunTypes, JudgeSupersedes, JudgeDuplicate, Answer, JudgeConfirms,
       CloseRead, CloseWrite, Put, pass
  <2>3. \A t \in Sessions \ {s} : pc'[t] = pc[t] /\ pair'[t] = pair[t]
    <3>1. CASE CloseRead(s) \/ CloseWrite(s)
      BY <3>1 DEF TInv, RunTypes, RowTypes, CloseRead, CloseWrite, NotClosed, NextPair, KeepPair,
         Goto, Put
    <3>2. ASSUME NEW h \in open[s], JudgeConfirms(s, h)
          PROVE  \A t \in Sessions \ {s} : pc'[t] = pc[t] /\ pair'[t] = pair[t]
      BY <3>2 DEF TInv, RunTypes, RowTypes, JudgeConfirms, Goto, Put
    <3>3. ASSUME NEW i, NEW j, NEW why, Answer(s, i, j, why)
          PROVE  \A t \in Sessions \ {s} : pc'[t] = pc[t] /\ pair'[t] = pair[t]
      BY <3>3 DEF TInv, RunTypes, RowTypes, Answer, Goto, Put
    <3>. QED
      BY <1>4, <3>1, <3>2, <3>3 DEF JudgeSupersedes, JudgeDuplicate
  <2>. QED
    BY <2>1, <2>2, <2>3
<1>. QED
  BY <1>1, <1>2, <1>3, <1>4 DEF Step

LEMMA TroubleType ==
  ASSUME PastTypes, NoTrouble \/ Trouble
  PROVE  troubles' \in 0..MaxTroubles
BY ConstantsOK DEF PastTypes, NoTrouble, Trouble

LEMMA WriteTypes ==
  ASSUME TInv, NEW s \in Sessions,
         \/ \E read \in SUBSET DOMAIN Told(s), known \in {rows, <<>>}, sw \in Switches :
                 Begin(s, read, known, sw)
         \/ BeginTx(s) \/ ApplyFact(s) \/ Commit(s) \/ Conflict(s) \/ ConflictAgain(s)
  PROVE  RunTypes' /\ RowTypes' /\ PastTypes' /\ Own(s)'
<1>0. /\ RunTypes /\ RowTypes /\ PastTypes /\ Own(s) /\ MaxTroubles \in Nat
      /\ Facts(s) \in Seq(Fact) /\ DOMAIN Facts(s) \subseteq Nat /\ DOMAIN Told(s) \subseteq Nat
  BY FactsType, ConstantsOK DEF TInv
<1>1. ASSUME NEW read \in SUBSET DOMAIN Told(s), NEW known \in {rows, <<>>},
             NEW sw \in Switches, Begin(s, read, known, sw)
      PROVE  RunTypes' /\ RowTypes' /\ PastTypes' /\ Own(s)'
  <2>1. pc' \in [Sessions -> PlaceType] /\ pc'[s] \in {"written", "begin"}
    BY <1>1, GotoType DEF Begin, PlaceType
  <2>2. on' \in [Sessions -> Switches \cup {{}}] /\ part' \in [Sessions -> SUBSET Nat]
        /\ part'[s] = read
    BY <1>0, <1>1 DEF Begin, Put, RunTypes
  <2>3. RunTypes'
    BY <1>0, <1>1, <2>1, <2>2 DEF Begin, RunTypes, pass
  <2>4. RowTypes'
    BY <1>0, <1>1 DEF Begin, RowTypes, pass
  <2>5. PastTypes'
    <3>1. troubles' \in 0..MaxTroubles
      BY <1>0, <1>1, TroubleType DEF Begin
    <3>2. overlapped' \in BOOLEAN /\ left' = left /\ committed' = committed /\ torn' = torn
      BY <1>0, <1>1 DEF Begin, PastTypes
    <3>. QED
      BY <1>0, <3>1, <3>2 DEF PastTypes
  <2>6. Own(s)'
    <3>1. DOMAIN said'[s] = DOMAIN Told(s)
      BY <1>1, BeginSaid
    <3>. QED
      BY <1>0, <1>1, <2>1, <2>2, <3>1 DEF Begin, Own, At, pass, Facts
  <2>. QED
    BY <2>3, <2>4, <2>5, <2>6
<1>2. ASSUME BeginTx(s) PROVE RunTypes' /\ RowTypes' /\ PastTypes' /\ Own(s)'
  <2>1. pc' \in [Sessions -> PlaceType] /\ pc'[s] = "writing"
    BY <1>2, GotoType DEF BeginTx, PlaceType
  <2>2. /\ todo' \in [Sessions -> SUBSET Nat] /\ fresh' \in [Sessions -> BOOLEAN]
        /\ dirty' \in [Sessions -> BOOLEAN] /\ todo'[s] = part[s]
    BY <1>0, <1>2 DEF BeginTx, Put, RunTypes
  <2>3. RunTypes'
    BY <1>0, <1>2, <2>1, <2>2 DEF BeginTx, RunTypes, pass
  <2>4. RowTypes'
    BY <1>0, <1>2 DEF BeginTx, RowTypes, Put, pass
  <2>5. PastTypes'
    BY <1>0, <1>2 DEF BeginTx, PastTypes, history
  <2>6. Own(s)'
    BY <1>0, <1>2, <2>1, <2>2 DEF BeginTx, Own, pass, given, Facts
  <2>. QED
    BY <2>3, <2>4, <2>5, <2>6
<1>3. ASSUME ApplyFact(s) PROVE RunTypes' /\ RowTypes' /\ PastTypes' /\ Own(s)'
  <2> DEFINE n == NextFact(s)
             rs == Applied(s, Facts(s)[n], work[s])
  <2>0. /\ todo[s] # {} /\ At(s, "writing")
        /\ work' = Put(work, s, rs) /\ dirty' = Put(dirty, s, dirty[s] \/ rs # work[s])
        /\ todo' = Put(todo, s, todo[s] \ {n})
        /\ UNCHANGED <<rows, fresh, given, pc, on, part, retried, holds, pass, pair, gone,
                       history, torn, troubles>>
    BY <1>3 DEF ApplyFact
  <2>1. Facts(s)[n] \in Fact
    BY <1>0, <2>0, NextFactTodo DEF Own
  <2> HIDE DEF n
  <2>2. rs \in Seq(Row)
    BY <1>0, <2>1, AppliedType DEF RowTypes
  <2> HIDE DEF rs
  <2>3. work' \in [Sessions -> Seq(Row)]
    BY <1>0, <2>0, <2>2, PutType DEF RowTypes
  <2>4. /\ dirty' \in [Sessions -> BOOLEAN] /\ todo' \in [Sessions -> SUBSET Nat]
        /\ todo'[s] = todo[s] \ {n}
    BY <1>0, <2>0 DEF RunTypes, Put
  <2>5. RunTypes'
    BY <1>0, <2>0, <2>4 DEF RunTypes, pass
  <2>6. RowTypes'
    BY <1>0, <2>0, <2>3 DEF RowTypes, pass
  <2>7. PastTypes'
    BY <1>0, <2>0 DEF PastTypes, history
  <2>8. Own(s)'
    BY <1>0, <2>0, <2>4 DEF Own, At, pass, given, Facts
  <2>. QED
    BY <2>5, <2>6, <2>7, <2>8
<1>4. ASSUME Commit(s) PROVE RunTypes' /\ RowTypes' /\ PastTypes' /\ Own(s)'
  <2>1. pc' \in [Sessions -> PlaceType] /\ pc'[s] = "written"
    BY <1>4, GotoType DEF Commit, PlaceType
  <2>2. rows' \in Seq(Row) /\ fresh' \in [Sessions -> BOOLEAN]
    BY <1>0, <1>4, StoreTypes, KeepTypes DEF Commit, RowTypes
  <2>3. work' \in [Sessions -> Seq(Row)]
    BY <1>0, <1>4, EmptyTypes, PutType DEF Commit, RowTypes
  <2>4. RunTypes'
    BY <1>0, <1>4, <2>1, <2>2 DEF Commit, RunTypes, tx, pass
  <2>5. RowTypes'
    BY <1>0, <1>4, <2>2, <2>3 DEF Commit, RowTypes, pass
  <2>6. PastTypes'
    BY <1>0, <1>4 DEF Commit, PastTypes, Put
  <2>7. Own(s)'
    BY <1>0, <1>4, <2>1 DEF Commit, Own, tx, pass, given, Facts
  <2>. QED
    BY <2>4, <2>5, <2>6, <2>7
<1>5. ASSUME Conflict(s) PROVE RunTypes' /\ RowTypes' /\ PastTypes' /\ Own(s)'
  <2>1. pc' \in [Sessions -> PlaceType] /\ pc'[s] = "begin"
    BY <1>5, GotoType DEF Conflict, PlaceType
  <2>2. retried' \in [Sessions -> BOOLEAN]
    BY <1>0, <1>5 DEF Conflict, RunTypes, Put
  <2>3. RunTypes' /\ RowTypes' /\ PastTypes'
    BY <1>0, <1>5, <2>1, <2>2 DEF Conflict, RunTypes, RowTypes, PastTypes, pass, history
  <2>4. Own(s)'
    BY <1>0, <1>5, <2>1 DEF Conflict, Own, pass, given, Facts
  <2>. QED
    BY <2>3, <2>4
<1>6. ASSUME ConflictAgain(s) PROVE RunTypes' /\ RowTypes' /\ PastTypes' /\ Own(s)'
  <2>1. pc' \in [Sessions -> PlaceType] /\ pc'[s] = "waiting"
    BY <1>6, GotoType DEF ConflictAgain, PlaceType
  <2>2. /\ RunTypes'
        /\ work' \in [Sessions -> Seq(Row)] /\ loaded' \in [Sessions -> LoadType]
        /\ pair' \in [Sessions -> PairType]
        /\ part'[s] = {} /\ todo'[s] = {} /\ answered'[s] = {}
    BY <1>0, <1>6, <2>1, ForgetTypes DEF ConflictAgain, RunTypes
  <2>3. RowTypes' /\ PastTypes'
    BY <1>0, <1>6, <2>2 DEF ConflictAgain, RowTypes, PastTypes
  <2>4. Own(s)'
    BY <2>1, <2>2 DEF Own
  <2>. QED
    BY <2>2, <2>3, <2>4
<1>. QED
  BY <1>1, <1>2, <1>3, <1>4, <1>5, <1>6

\* A step that is in the middle of a pair touches the rows, the pair and the
\* place of its session only.
LEMMA PairTypes ==
  ASSUME TInv, NEW s \in Sessions, UNCHANGED settleRest,
         pc' \in [Sessions -> PlaceType], rows' \in Seq(Row), fresh' \in [Sessions -> BOOLEAN],
         pair' \in [Sessions -> PairType], torn' \in BOOLEAN, NoTrouble \/ Trouble,
         pc'[s] # "waiting", pc'[s] \in {"closing", "writing back"} => pair'[s].judged
  PROVE  RunTypes' /\ RowTypes' /\ PastTypes' /\ Own(s)'
<1>0. RunTypes /\ RowTypes /\ PastTypes /\ Own(s)
  BY DEF TInv
<1>1. RunTypes'
  BY <1>0 DEF RunTypes, settleRest, tx, pass
<1>2. RowTypes'
  BY <1>0 DEF RowTypes, settleRest, pass
<1>3. PastTypes'
  BY <1>0, TroubleType DEF PastTypes, settleRest, history
<1>4. Own(s)'
  BY <1>0 DEF Own, settleRest, tx, pass, given, Facts
<1>. QED
  BY <1>1, <1>2, <1>3, <1>4

\* Where a step leaves its session: at the next pair, or further on with this.
LEMMA NextPairTypes ==
  ASSUME TInv, NEW s \in Sessions, NextPair(s)
  PROVE  /\ pc' \in [Sessions -> PlaceType] /\ pc'[s] \in {"judging", "settling"}
         /\ pair' \in [Sessions -> PairType]
<1>1. /\ pc' \in [Sessions -> PlaceType] /\ pc'[s] \in {"judging", "settling"}
  <2>1. (IF pair[s].judged THEN "judging" ELSE "settling") \in PlaceType
    BY DEF PlaceType
  <2>. QED
    BY <2>1, GotoType DEF NextPair
<1>2. pair' \in [Sessions -> PairType]
  BY EmptyTypes, PutType DEF TInv, RowTypes, NextPair
<1>. QED
  BY <1>1, <1>2

LEMMA KeepPairTypes ==
  ASSUME TInv, NEW s \in Sessions, NEW place \in PlaceType, KeepPair(s, place)
  PROVE  /\ pc' \in [Sessions -> PlaceType] /\ pc'[s] = place
         /\ pair' \in [Sessions -> PairType] /\ pair' = pair
BY GotoType DEF KeepPair, TInv, RowTypes

\* One row is edited: closed, or a hold is put on it or taken off.
LEMMA CloseTypes ==
  ASSUME TInv, NEW s \in Sessions, NEW i \in DOMAIN rows, NEW why \in Reason, Close(s, i, why)
  PROVE  rows' \in Seq(Row) /\ fresh' \in [Sessions -> BOOLEAN]
<1> DEFINE r == [rows[i] EXCEPT !.until = <<s, why>>]
<1>1. rows \in Seq(Row) /\ rows[i] \in Row
  BY RowsType DEF TInv, RowTypes
<1>2. r \in Row
  BY <1>1 DEF Row
<1>3. [rows EXCEPT ![i] = r] \in Seq(Row)
  BY <1>1, <1>2, EditType
<1>. QED
  BY <1>3, StoreTypes DEF Close, EditRow

LEMMA HoldTypes ==
  ASSUME TInv, NEW s \in Sessions, NEW i \in DOMAIN rows,
         NEW by \in (Sessions \X Nat) \cup {None},
         EditRow(s, i, [rows[i] EXCEPT !.pending = by])
  PROVE  rows' \in Seq(Row) /\ fresh' \in [Sessions -> BOOLEAN]
<1> DEFINE r == [rows[i] EXCEPT !.pending = by]
<1>1. rows \in Seq(Row) /\ rows[i] \in Row
  BY RowsType DEF TInv, RowTypes
<1>2. r \in Row
  BY <1>1 DEF Row
<1>3. [rows EXCEPT ![i] = r] \in Seq(Row)
  BY <1>1, <1>2, EditType
<1>. QED
  BY <1>3, StoreTypes DEF EditRow

LEMMA RestoreTypes ==
  ASSUME TInv, NEW s \in Sessions, Restorable(s), Restore(s)
  PROVE  rows' \in Seq(Row) /\ fresh' \in [Sessions -> BOOLEAN]
<1>1. pair[s].taken \in (Sessions \X Nat) \cup {None}
  BY DEF TInv, RowTypes, PairType
<1>. QED
  BY <1>1, HoldTypes DEF Restorable, Restore

\* The pair to consider next is one of them.
LEMMA FirstHold ==
  ASSUME NEW H \in SUBSET HoldType, H # {}
  PROVE  LET h == CHOOSE x \in H : \A y \in H : x.new <= y.new
         IN  h \in H /\ \A y \in H : h.new <= y.new
<1> DEFINE N == {h.new : h \in H}
<1>1. N # {} /\ N \subseteq Nat
  BY DEF HoldType, PairType
<1>2. Min(N) \in N /\ \A n \in N : Min(N) <= n
  BY <1>1, MinIsLeast
<1>3. PICK h \in H : h.new = Min(N)
  BY <1>2
<1>4. \A y \in H : h.new <= y.new
  BY <1>2, <1>3
<1>. QED
  BY <1>3, <1>4

\* A pair is read from a pending row.
LEMMA HoldHasType ==
  ASSUME TInv, NEW i \in Held, rows[i].pending[2] \in DOMAIN rows
  PROVE  Hold(i) \in HoldType
<1> DEFINE r == rows[i]
           old == r.pending[2]
<1>1. rows \in Seq(Row) /\ i \in DOMAIN rows /\ r \in Row /\ r.pending # None
  BY RowsType DEF TInv, RowTypes, Held, Pending
<1>2. i \in Nat \ {0} /\ old \in Nat /\ rows[old] \in Row
  BY <1>1, RowsType
<1>3. r.key \in Keys /\ r.value \in Values /\ rows[old].value \in Values
  BY <1>1, <1>2 DEF Row
<1>4. Hold(i) = [NoPair EXCEPT !.new = i, !.key = r.key, !.newValue = r.value,
                               !.old = old, !.oldValue = rows[old].value]
  BY DEF Hold
<1> HIDE DEF r, old
<1>. QED
  BY <1>2, <1>3, <1>4 DEF NoPair, HoldType, PairType

LEMMA SettleTypes ==
  ASSUME TInv, NEW s \in Sessions, Settle(s) \/ Consider(s)
  PROVE  RunTypes' /\ RowTypes' /\ PastTypes' /\ Own(s)'
<1>0. RunTypes /\ RowTypes /\ PastTypes /\ Own(s)
  BY DEF TInv
<1>1. ASSUME Settle(s) PROVE RunTypes' /\ RowTypes' /\ PastTypes' /\ Own(s)'
  <2> DEFINE place == IF "consolidate" \in on[s] /\ (part[s] # {} \/ HoldOn(s))
                      THEN "settling" ELSE "finished"
             H == {Hold(i) : i \in {j \in Held :
                     rows[j].pending[1] # s /\ rows[j].pending[2] \in DOMAIN rows}}
  <2>1. place \in {"settling", "finished"} /\ Goto(s, place)
    BY <1>1 DEF Settle
  <2> HIDE DEF place
  <2>2. pc' \in [Sessions -> PlaceType] /\ pc'[s] \in {"settling", "finished"}
    BY <2>1, GotoType DEF PlaceType
  <2>3. H \subseteq HoldType
    BY HoldHasType
  <2>4. holds' = Put(holds, s, H) \/ UNCHANGED holds
    BY <1>1 DEF Settle
  <2> HIDE DEF H
  <2>5. holds' \in [Sessions -> SUBSET HoldType]
    <3>1. holds \in [Sessions -> SUBSET HoldType] /\ H \in SUBSET HoldType
      BY <1>0, <2>3 DEF RunTypes
    <3>2. Put(holds, s, H) \in [Sessions -> SUBSET HoldType]
      BY <3>1, PutType
    <3>. QED
      BY <2>4, <3>1, <3>2
  <2>6. /\ UNCHANGED <<rows, fresh, given, on, tx, work, pass, pair, gone, history, torn>>
        /\ NoTrouble \/ Trouble
    BY <1>1 DEF Settle
  <2>7. RunTypes'
    BY <1>0, <2>2, <2>5, <2>6 DEF RunTypes, tx, pass
  <2>8. RowTypes'
    BY <1>0, <2>6 DEF RowTypes, pass
  <2>9. PastTypes'
    BY <1>0, <2>6, TroubleType DEF PastTypes, history
  <2>10. Own(s)'
    BY <1>0, <2>2, <2>6 DEF Own, tx, pass, given, Facts
  <2>. QED
    BY <2>7, <2>8, <2>9, <2>10
<1>2. ASSUME Consider(s) PROVE RunTypes' /\ RowTypes' /\ PastTypes' /\ Own(s)'
  <2> DEFINE h == CHOOSE x \in holds[s] : \A y \in holds[s] : x.new <= y.new
  <2>1. h \in holds[s] /\ h \in HoldType
    BY <1>0, <1>2, FirstHold DEF Consider, RunTypes
  <2>2. PICK place \in {"settling", "dropping", "taking"} : Goto(s, place)
    BY <1>2 DEF Consider
  <2>3. PICK p \in PairType : pair' = Put(pair, s, p)
    <3>1. \A b \in BOOLEAN : [h EXCEPT !.already = b] \in PairType
      BY <2>1 DEF HoldType, PairType
    <3> DEFINE b == Has(h.old, h.oldValue) /\ ~Live(rows[h.old])
    <3>2. \/ pair' = Put(pair, s, [h EXCEPT !.already = b])
          \/ pair' = Put(pair, s, NoPair)
      BY <1>2 DEF Consider
    <3>3. b \in BOOLEAN
      OBVIOUS
    <3> HIDE DEF b
    <3>. QED
      BY <3>1, <3>2, <3>3, EmptyTypes
  <2>4. /\ holds' = Put(holds, s, holds[s] \ {h})
        /\ open' = open \/ open' = Put(open, s, open[s] \cup {h})
    BY <1>2 DEF Consider
  <2>5. UNCHANGED <<rows, fresh, given, on, tx, work, loaded, answered, gone, history, torn, troubles>>
    BY <1>2 DEF Consider
  <2> HIDE DEF h
  <2>6. pc' \in [Sessions -> PlaceType] /\ pc'[s] \in {"settling", "dropping", "taking"}
    BY <2>2, GotoType DEF PlaceType
  <2>7. /\ holds' \in [Sessions -> SUBSET HoldType]
        /\ open' \in [Sessions -> SUBSET HoldType]
    BY <1>0, <2>1, <2>4 DEF RunTypes, Put
  <2>8. pair' \in [Sessions -> PairType]
    BY <1>0, <2>3, PutType DEF RowTypes
  <2>9. RunTypes'
    BY <1>0, <2>5, <2>6, <2>7 DEF RunTypes, tx
  <2>10. RowTypes' /\ PastTypes'
    BY <1>0, <2>5, <2>8 DEF RowTypes, PastTypes, history
  <2>11. Own(s)'
    BY <1>0, <2>5, <2>6 DEF Own, tx, given, Facts
  <2>. QED
    BY <2>9, <2>10, <2>11
<1>. QED
  BY <1>1, <1>2

LEMMA PairStepTypes ==
  ASSUME TInv, NEW s \in Sessions,
         DropHeld(s) \/ TakePending(s) \/ StampOld(s) \/ RestorePending(s) \/ RecoverPending(s)
  PROVE  RunTypes' /\ RowTypes' /\ PastTypes' /\ Own(s)'
<1>1. UNCHANGED settleRest /\ (NoTrouble \/ Trouble) /\ torn' \in BOOLEAN
  BY DEF TInv, PastTypes, DropHeld, TakePending, StampOld, RestorePending, RecoverPending
<1>2. {"superseded", "hold_dropped"} \subseteq Reason
  BY DEF Reason
<1>3. rows' \in Seq(Row) /\ fresh' \in [Sessions -> BOOLEAN]
  <2>1. CASE KeepRows
    BY <2>1, KeepTypes
  <2>2. CASE ~KeepRows /\ DropHeld(s)
    BY <1>2, <2>2, CloseTypes DEF DropHeld, NewIsLive, Has
  <2>3. CASE ~KeepRows /\ TakePending(s)
    BY <2>3, HoldTypes DEF TakePending, NewIsHeld
  <2>4. CASE ~KeepRows /\ StampOld(s)
    BY <1>2, <2>4, CloseTypes DEF StampOld, OldIsLive, Has
  <2>5. CASE ~KeepRows /\ RestorePending(s)
    BY <2>5, RestoreTypes DEF RestorePending
  <2>6. CASE ~KeepRows /\ RecoverPending(s)
    BY <1>2, <2>6, CloseTypes, RestoreTypes DEF RecoverPending, NewIsLive, Has
  <2>. QED
    BY <2>1, <2>2, <2>3, <2>4, <2>5, <2>6
<1>4. /\ pc' \in [Sessions -> PlaceType] /\ pc'[s] # "waiting"
      /\ pair' \in [Sessions -> PairType]
      /\ pc'[s] \in {"closing", "writing back"} => pair'[s].judged
  <2>1. CASE NextPair(s)
    BY <2>1, NextPairTypes
  <2>2. CASE KeepPair(s, "restoring") \/ KeepPair(s, "recovering")
    BY <2>2, KeepPairTypes DEF PlaceType
  <2>3. CASE ~NextPair(s) /\ TakePending(s)
    <3> DEFINE p == [pair[s] EXCEPT !.taken = rows[New(s)].pending]
               place == IF pair[s].judged THEN "closing" ELSE "stamping"
    <3>1. NewIsHeld(s) /\ pair' = Put(pair, s, p) /\ Goto(s, place)
      BY <2>3 DEF TakePending
    <3>2. place \in PlaceType /\ place # "waiting"
      BY DEF PlaceType
    <3>3. pc' \in [Sessions -> PlaceType] /\ pc'[s] = place
      BY <3>1, <3>2, GotoType
    <3>4. rows[New(s)].pending \in (Sessions \X Nat) \cup {None}
      BY <3>1, RowsType DEF TInv, RowTypes, NewIsHeld, Row
    <3>5. pair[s] \in PairType
      BY DEF TInv, RowTypes
    <3>6. p \in PairType /\ p.judged = pair[s].judged
      BY <3>4, <3>5 DEF PairType
    <3>7. pair' \in [Sessions -> PairType] /\ pair'[s] = p
      BY <3>1, <3>6, PutType DEF TInv, RowTypes, Put
    <3> HIDE DEF p
    <3>. QED
      BY <3>2, <3>3, <3>6, <3>7
  <2>. QED
    BY <2>1, <2>2, <2>3 DEF DropHeld, StampOld, RestorePending, RecoverPending
<1>. QED
  BY <1>1, <1>3, <1>4, PairTypes

\* The judge's verdicts and the closes they ask for.
LEMMA AnswerTypes ==
  ASSUME TInv, NEW s \in Sessions, NEW i \in part[s], NEW j \in loaded[s].all,
         NEW why \in Reason, At(s, "judging"), Answer(s, i, j, why)
  PROVE  RunTypes' /\ RowTypes' /\ PastTypes' /\ Own(s)'
<1>0. RunTypes /\ RowTypes /\ PastTypes /\ Own(s)
  BY DEF TInv
<1> DEFINE p == [NoPair EXCEPT !.old = j, !.oldValue = Read(s, j).value,
                               !.judged = TRUE, !.why = why]
<1>1. pair' = Put(pair, s, p) /\ answered' = Put(answered, s, answered[s] \cup {i})
      /\ Goto(s, "closing")
  BY DEF Answer
<1>2. UNCHANGED <<rows, fresh, given, on, tx, work, holds, open, loaded, gone, history, torn, troubles>>
  BY DEF Answer
<1>3. j \in Nat /\ Read(s, j).value \in Values
  <2>1. loaded[s].rs \in Seq(Row) /\ j \in DOMAIN loaded[s].rs
    BY <1>0 DEF RowTypes, LoadType
  <2>2. j \in Nat /\ loaded[s].rs[j] \in Row
    BY <2>1, RowsType
  <2>. QED
    BY <2>2 DEF Read, Row
<1>4. p \in PairType /\ p.judged
  BY <1>3 DEF NoPair, PairType
<1> HIDE DEF p
<1>5. pc' \in [Sessions -> PlaceType] /\ pc'[s] = "closing"
  BY <1>1, GotoType DEF PlaceType
<1>6. pair' \in [Sessions -> PairType] /\ pair'[s] = p
  BY <1>0, <1>1, <1>4 DEF RowTypes, Put
<1>7. i \in Nat
  BY <1>0 DEF RunTypes
<1>8. answered' \in [Sessions -> SUBSET Nat] /\ answered'[s] = answered[s] \cup {i}
  BY <1>0, <1>1, <1>7 DEF RunTypes, Put
<1>9. RunTypes'
  BY <1>0, <1>2, <1>5, <1>8 DEF RunTypes, tx
<1>10. RowTypes' /\ PastTypes'
  BY <1>0, <1>2, <1>6 DEF RowTypes, PastTypes, history
<1>11. Own(s)'
  BY <1>0, <1>2, <1>4, <1>5, <1>6, <1>8 DEF Own, tx, given, Facts
<1>. QED
  BY <1>9, <1>10, <1>11

LEMMA ConfirmTypes ==
  ASSUME TInv, NEW s \in Sessions, NEW h \in open[s], JudgeConfirms(s, h)
  PROVE  RunTypes' /\ RowTypes' /\ PastTypes' /\ Own(s)'
<1>0. RunTypes /\ RowTypes /\ PastTypes /\ Own(s)
  BY DEF TInv
<1>1. \A m, key, value : Find(s, m, key, value) \subseteq Nat
  <2> SUFFICES ASSUME NEW m, NEW key, NEW value PROVE Find(s, m, key, value) \subseteq Nat
    OBVIOUS
  <2> DEFINE like == {x \in loaded[s].all : SamePredicate(Read(s, x), [key |-> key])
                                            /\ Read(s, x).value = value}
  <2>1. loaded[s].all \subseteq Nat /\ like \subseteq Nat
    BY <1>0 DEF RowTypes, LoadType
  <2>2. like # {} => Min(like) \in Nat
    BY <2>1, MinIsLeast
  <2>3. Find(s, m, key, value) =
          IF m \in loaded[s].all THEN {m} ELSE IF like = {} THEN {} ELSE {Min(like)}
    BY DEF Find
  <2> HIDE DEF like
  <2>. QED
    BY <2>1, <2>2, <2>3
<1>2. PICK n \in Nat, o \in Nat :
        pair' = Put(pair, s, [h EXCEPT !.new = n, !.old = o, !.judged = TRUE,
                                       !.why = "consolidated"])
  BY <1>1 DEF JudgeConfirms
<1> DEFINE p == [h EXCEPT !.new = n, !.old = o, !.judged = TRUE, !.why = "consolidated"]
<1>3. p \in PairType
  <2>1. h \in PairType
    BY <1>0 DEF RunTypes, HoldType
  <2>. QED
    BY <2>1 DEF PairType, Reason
<1> HIDE DEF p
<1>4. pair' \in [Sessions -> PairType]
  BY <1>0, <1>2, <1>3, PutType DEF RowTypes, p
<1>5. pc' \in [Sessions -> PlaceType] /\ pc'[s] = "taking"
  BY GotoType DEF JudgeConfirms, PlaceType
<1>6. open' \in [Sessions -> SUBSET HoldType]
  BY <1>0 DEF JudgeConfirms, RunTypes, Put
<1>7. UNCHANGED <<rows, fresh, given, on, tx, work, holds, loaded, answered, gone,
                  history, torn, troubles>>
  BY DEF JudgeConfirms
<1>8. RunTypes'
  BY <1>0, <1>5, <1>6, <1>7 DEF RunTypes, tx
<1>9. RowTypes' /\ PastTypes'
  BY <1>0, <1>4, <1>7 DEF RowTypes, PastTypes, history
<1>10. Own(s)'
  BY <1>0, <1>5, <1>7 DEF Own, tx, given, Facts
<1>. QED
  BY <1>8, <1>9, <1>10

LEMMA NotClosedTypes ==
  ASSUME TInv, NEW s \in Sessions, NotClosed(s)
  PROVE  /\ pc' \in [Sessions -> PlaceType] /\ pc'[s] \in {"judging", "settling", "restoring"}
         /\ pair' \in [Sessions -> PairType]
<1>1. "restoring" \in PlaceType
  BY DEF PlaceType
<1>. QED
  BY <1>1, NextPairTypes, KeepPairTypes DEF NotClosed

LEMMA CloseReadTypes ==
  ASSUME TInv, NEW s \in Sessions, CloseRead(s)
  PROVE  RunTypes' /\ RowTypes' /\ PastTypes' /\ Own(s)'
<1>0. RunTypes /\ RowTypes /\ PastTypes /\ Own(s)
  BY DEF TInv
<1>1. At(s, "closing") /\ UNCHANGED <<given, on, tx, holds, pass, history, torn, troubles>>
  BY DEF CloseRead
<1>2. pair[s].judged /\ pair[s].why \in Reason /\ pair[s].old \in Nat
  BY <1>0, <1>1 DEF Own, At, RowTypes, PairType
<1>3. /\ rows' \in Seq(Row) /\ fresh' \in [Sessions -> BOOLEAN]
      /\ work' \in [Sessions -> Seq(Row)] /\ gone' \in [Sessions -> SUBSET Nat]
      /\ pc' \in [Sessions -> PlaceType] /\ pair' \in [Sessions -> PairType]
      /\ pc'[s] \in {"judging", "settling", "restoring", "writing back"}
      /\ pc'[s] = "writing back" => pair'[s].judged
  <2>1. CASE KeepPair(s, "writing back") /\ work' = Put(work, s, rows)
             /\ fresh' = Put(fresh, s, TRUE) /\ UNCHANGED <<rows, gone>>
    <3>1. "writing back" \in PlaceType
      BY DEF PlaceType
    <3>2. /\ pc' \in [Sessions -> PlaceType] /\ pc'[s] = "writing back"
          /\ pair' \in [Sessions -> PairType] /\ pair' = pair
      BY <2>1, <3>1, KeepPairTypes
    <3>3. work' \in [Sessions -> Seq(Row)]
      BY <1>0, <2>1, PutType DEF RowTypes
    <3>4. fresh' \in [Sessions -> BOOLEAN]
      BY <1>0, <2>1 DEF RunTypes, Put
    <3>. QED
      BY <1>0, <1>2, <2>1, <3>2, <3>3, <3>4 DEF RunTypes, RowTypes
  <2>2. CASE /\ MayClose(s) /\ Close(s, pair[s].old, pair[s].why) /\ NextPair(s) /\ UNCHANGED work
             /\ gone' = Put(gone, s, gone[s] \cup {pair[s].old})
    <3>1. pair[s].old \in DOMAIN rows
      BY <2>2 DEF MayClose, OldIsLive, Has
    <3>2. rows' \in Seq(Row) /\ fresh' \in [Sessions -> BOOLEAN]
      BY <1>2, <2>2, <3>1, CloseTypes
    <3>3. gone' \in [Sessions -> SUBSET Nat]
      BY <1>0, <1>2, <2>2 DEF RunTypes, Put
    <3>. QED
      BY <1>0, <2>2, <3>2, <3>3, NextPairTypes DEF RowTypes
  <2>3. CASE KeepRows /\ NotClosed(s) /\ UNCHANGED <<work, gone>>
    BY <1>0, <2>3, KeepTypes, NotClosedTypes DEF RunTypes, RowTypes
  <2>. QED
    BY <2>1, <2>2, <2>3 DEF CloseRead
<1>4. RunTypes'
  BY <1>0, <1>1, <1>3 DEF RunTypes, tx, pass
<1>5. RowTypes' /\ PastTypes'
  BY <1>0, <1>1, <1>3 DEF RowTypes, PastTypes, pass, history
<1>6. Own(s)'
  BY <1>0, <1>1, <1>3 DEF Own, tx, pass, given, Facts
<1>. QED
  BY <1>4, <1>5, <1>6

LEMMA CloseWriteTypes ==
  ASSUME TInv, NEW s \in Sessions, CloseWrite(s)
  PROVE  RunTypes' /\ RowTypes' /\ PastTypes' /\ Own(s)'
<1>0. RunTypes /\ RowTypes /\ PastTypes /\ Own(s)
  BY DEF TInv
<1>1. /\ At(s, "writing back") /\ UNCHANGED <<given, on, tx, holds, pass, history>>
      /\ work' = Put(work, s, <<>>) /\ (NoTrouble \/ Trouble)
  BY DEF CloseWrite
<1>2. pair[s].why \in Reason /\ pair[s].old \in Nat
  BY <1>0, <1>1 DEF Own, At, RowTypes, PairType
<1>3. work' \in [Sessions -> Seq(Row)]
  BY <1>0, <1>1, EmptyTypes, PutType DEF RowTypes
<1>4. /\ rows' \in Seq(Row) /\ fresh' \in [Sessions -> BOOLEAN] /\ gone' \in [Sessions -> SUBSET Nat]
      /\ torn' \in BOOLEAN
      /\ pc' \in [Sessions -> PlaceType] /\ pair' \in [Sessions -> PairType]
      /\ pc'[s] \in {"judging", "settling", "restoring"}
  <2>1. CASE /\ Store(s, StampRows(work[s], {pair[s].old}, s, pair[s].why)) /\ NextPair(s)
             /\ gone' = Put(gone, s, gone[s] \cup {pair[s].old})
             /\ torn' = (torn \/ ~fresh[s])
    <3>1. StampRows(work[s], {pair[s].old}, s, pair[s].why) \in Seq(Row)
      BY <1>0, <1>2, StampType DEF RowTypes
    <3>2. rows' \in Seq(Row) /\ fresh' \in [Sessions -> BOOLEAN]
      BY <2>1, <3>1, StoreTypes
    <3>3. gone' \in [Sessions -> SUBSET Nat]
      BY <1>0, <1>2, <2>1 DEF RunTypes, Put
    <3>4. torn' \in BOOLEAN
      BY <1>0, <2>1 DEF PastTypes, RunTypes
    <3>. QED
      BY <2>1, <3>2, <3>3, <3>4, NextPairTypes
  <2>2. CASE KeepRows /\ NotClosed(s) /\ UNCHANGED <<gone, torn>>
    BY <1>0, <2>2, KeepTypes, NotClosedTypes DEF RunTypes, PastTypes
  <2>. QED
    BY <2>1, <2>2 DEF CloseWrite
<1>5. RunTypes'
  BY <1>0, <1>1, <1>4 DEF RunTypes, tx, pass
<1>6. RowTypes'
  BY <1>0, <1>1, <1>3, <1>4 DEF RowTypes, pass
<1>7. PastTypes'
  BY <1>0, <1>1, <1>4, TroubleType DEF PastTypes, history
<1>8. Own(s)'
  BY <1>0, <1>1, <1>4 DEF Own, tx, pass, given, Facts
<1>. QED
  BY <1>5, <1>6, <1>7, <1>8

\* The rest of a run: its rows are read, it ends, or it is killed.
LEMMA RunStepTypes ==
  ASSUME TInv, NEW s \in Sessions, Load(s) \/ JudgeDone(s) \/ Mark(s) \/ Kill(s)
  PROVE  RunTypes' /\ RowTypes' /\ PastTypes' /\ Own(s)'
<1>0. RunTypes /\ RowTypes /\ PastTypes /\ Own(s)
  BY DEF TInv
<1>1. ASSUME Load(s) PROVE RunTypes' /\ RowTypes' /\ PastTypes' /\ Own(s)'
  <2> DEFINE l == [rs |-> rows, all |-> {i \in DOMAIN rows : Live(rows[i]) /\ rows[i].status = Decided}]
  <2>1. /\ loaded' = Put(loaded, s, l) /\ Goto(s, "judging")
        /\ UNCHANGED <<rows, fresh, given, on, tx, work, holds, open, answered, pair, gone,
                       history, torn, troubles>>
    BY <1>1 DEF Load
  <2>2. l \in LoadType
    BY <1>0, RowsType DEF LoadType, RowTypes
  <2> HIDE DEF l
  <2>3. loaded' \in [Sessions -> LoadType]
    BY <1>0, <2>1, <2>2, PutType DEF RowTypes
  <2>4. pc' \in [Sessions -> PlaceType] /\ pc'[s] = "judging"
    BY <2>1, GotoType DEF PlaceType
  <2>5. RunTypes'
    BY <1>0, <2>1, <2>4 DEF RunTypes, tx
  <2>6. RowTypes' /\ PastTypes'
    BY <1>0, <2>1, <2>3 DEF RowTypes, PastTypes, history
  <2>7. Own(s)'
    BY <1>0, <2>1, <2>4 DEF Own, tx, given, Facts
  <2>. QED
    BY <2>5, <2>6, <2>7
<1>2. ASSUME JudgeDone(s) PROVE RunTypes' /\ RowTypes' /\ PastTypes' /\ Own(s)'
  <2>1. pc' \in [Sessions -> PlaceType] /\ pc'[s] = "finished"
    BY <1>2, GotoType DEF JudgeDone, PlaceType
  <2>2. UNCHANGED <<rows, fresh, pair, settleRest, torn, troubles>>
    BY <1>2 DEF JudgeDone
  <2>3. RunTypes' /\ RowTypes' /\ PastTypes'
    BY <1>0, <2>1, <2>2 DEF RunTypes, RowTypes, PastTypes, settleRest, tx, pass, history
  <2>4. Own(s)'
    BY <1>0, <2>1, <2>2 DEF Own, settleRest, tx, pass, given, Facts
  <2>. QED
    BY <2>3, <2>4
<1>3. ASSUME Mark(s) \/ Kill(s) PROVE RunTypes' /\ RowTypes' /\ PastTypes' /\ Own(s)'
  <2>1. PICK place \in {"done", "waiting"} : Goto(s, place)
    BY <1>3 DEF Mark, Kill
  <2>2. pc' \in [Sessions -> PlaceType] /\ pc'[s] \in {"done", "waiting"}
    BY <2>1, GotoType DEF PlaceType
  <2>3. Forget(s) /\ UNCHANGED <<rows, fresh>>
    BY <1>3 DEF Mark, Kill
  <2>4. /\ RunTypes'
        /\ work' \in [Sessions -> Seq(Row)] /\ loaded' \in [Sessions -> LoadType]
        /\ pair' \in [Sessions -> PairType]
        /\ part'[s] = {} /\ todo'[s] = {} /\ answered'[s] = {}
    BY <1>0, <2>2, <2>3, ForgetTypes DEF RunTypes
  <2>5. RowTypes'
    BY <1>0, <2>3, <2>4 DEF RowTypes
  <2>6. left' \subseteq Sessions /\ UNCHANGED <<committed, overlapped>>
    BY <1>0, <1>3 DEF Mark, Kill, PastTypes, history
  <2>7. torn' \in BOOLEAN
    BY <1>0, <1>3 DEF Mark, Kill, PastTypes
  <2>8. troubles' \in 0..MaxTroubles
    BY <1>0, <1>3, TroubleType DEF Mark, Kill
  <2>9. PastTypes'
    BY <1>0, <2>6, <2>7, <2>8 DEF PastTypes
  <2>10. Own(s)'
    BY <2>2, <2>4 DEF Own
  <2>. QED
    BY <2>4, <2>5, <2>9, <2>10
<1>. QED
  BY <1>1, <1>2, <1>3

LEMMA StepTypes ==
  ASSUME TInv, NEW s \in Sessions, Step(s)
  PROVE  TInv'
<1>1. RunTypes' /\ RowTypes' /\ PastTypes' /\ Own(s)'
  <2>1. CASE \/ \E read \in SUBSET DOMAIN Told(s), known \in {rows, <<>>}, sw \in Switches :
                     Begin(s, read, known, sw)
             \/ BeginTx(s) \/ ApplyFact(s) \/ Commit(s) \/ Conflict(s) \/ ConflictAgain(s)
    BY <2>1, WriteTypes
  <2>2. CASE Settle(s) \/ Consider(s)
    BY <2>2, SettleTypes
  <2>3. CASE \/ DropHeld(s) \/ TakePending(s) \/ StampOld(s) \/ RestorePending(s)
             \/ RecoverPending(s)
    BY <2>3, PairStepTypes
  <2>4. CASE \E i \in part[s], j \in loaded[s].all :
               JudgeSupersedes(s, i, j) \/ JudgeDuplicate(s, i, j)
    <3>1. PICK i \in part[s], j \in loaded[s].all, why \in {"consolidated", "duplicate"} :
            At(s, "judging") /\ Answer(s, i, j, why)
      BY <2>4 DEF JudgeSupersedes, JudgeDuplicate, MayAnswer
    <3>. QED
      BY <3>1, AnswerTypes DEF Reason
  <2>5. CASE \E h \in open[s] : JudgeConfirms(s, h)
    BY <2>5, ConfirmTypes
  <2>6. CASE CloseRead(s) \/ CloseWrite(s)
    BY <2>6, CloseReadTypes, CloseWriteTypes
  <2>7. CASE Load(s) \/ JudgeDone(s) \/ Mark(s) \/ Kill(s)
    BY <2>7, RunStepTypes
  <2>. QED
    BY <2>1, <2>2, <2>3, <2>4, <2>5, <2>6, <2>7 DEF Step
<1>. QED
  BY <1>1, RunsApart, OthersOwn

LEMMA TypesInvariant == Spec => []TInv
<1>1. ASSUME TInv, [Next]_vars PROVE TInv'
  <2>1. CASE Next
    BY <1>1, <2>1, StepTypes DEF Next
  <2>2. CASE UNCHANGED vars
    <3>1. UNCHANGED <<rows, overlap, story, said, pc, on, part, todo, dirty, retried, work, fresh, holds,
                      open, loaded, answered, pair, gone, left, committed, overlapped, torn, troubles>>
      BY <2>2 DEF vars, given, tx, pass, history
    <3>. QED
      BY <1>1, <3>1 DEF TInv, GivenTypes, RunTypes, RowTypes, PastTypes, Own, Facts
  <2>. QED
    BY <1>1, <2>1, <2>2
<1>. QED
  BY <1>1, InitTypes, PTL DEF Spec

\* The rows in the store and every copy of them (the transaction's, the one
\* close_row writes back, the one the judge is asked about) are rows the record
\* can hold, and a run works on facts of its own transcript only (write.rs,
\* hold.rs, consolidate.rs), with any stories, switches, crashes and overlap.
THEOREM FactTypes == Spec => []TypeOK
BY TypesInvariant, TypesHold, PTL

---------------------------------------------------------------------------
(* Whose rows a session closes.                                             *)

\* Between two sequences of rows, rows are closed by s only, and of those that s
\* opened only an issue that f, on a later turn, fixes.
ClosesWith(s, f, old, new) ==
  /\ DOMAIN old \subseteq DOMAIN new
  /\ \A i \in DOMAIN old :
       /\ new[i].first = old[i].first
       /\ \/ new[i].until = old[i].until
          \/ /\ Live(old[i]) /\ new[i].until[1] = s
             /\ OpenedIn(s, old[i]) => StatusClose(s, f, old[i])

LEMMA ClosesWithSelf == ASSUME NEW rs, NEW s, NEW f PROVE ClosesWith(s, f, rs, rs)
BY DEF ClosesWith

LEMMA ClosesWithOn ==
  ASSUME NEW a, NEW b, NEW c, NEW s, NEW f, ClosesWith(s, f, a, b), ClosesWith(s, f, b, c)
  PROVE  ClosesWith(s, f, a, c)
BY DEF ClosesWith, Live, OpenedIn, StatusClose

LEMMA StampClosesWith ==
  ASSUME NEW rs, IsRows(rs), NEW S, NEW s, NEW f, NEW why,
         \A i \in S \cap DOMAIN rs : Live(rs[i]) /\ (OpenedIn(s, rs[i]) => StatusClose(s, f, rs[i])),
         NEW new, new = StampRows(rs, S, s, why)
  PROVE  IsRows(new) /\ ClosesWith(s, f, rs, new)
<1>1. Relabels(rs, new)
  BY StampRelabels
<1>2. ASSUME NEW i \in DOMAIN rs
      PROVE  (i \in S => new[i].until = <<s, why>>) /\ (i \notin S => new[i] = rs[i])
  <2>1. Shape(rs[i])
    BY DEF IsRows
  <2>2. new[i] = IF i \in S THEN [rs[i] EXCEPT !.until = <<s, why>>] ELSE rs[i]
    BY DEF StampRows
  <2>. QED
    BY <2>1, <2>2 DEF Shape
<1>. QED
  BY <1>1, <1>2 DEF ClosesWith, Relabels, SameRow, IsRows

LEMMA WrittenClosesWith ==
  ASSUME NEW rs, IsRows(rs), NEW s, NEW f, NEW armed, NEW closed
  PROVE  ClosesWith(s, f, rs, Written(s, f, rs, armed, closed))
<1> DEFINE new == Written(s, f, rs, armed, closed)
           h == Min(Home(f, rs))
<1>1. CASE AlreadyStored(s, f, rs)
  BY <1>1, ClosesWithSelf DEF Written
<1>2. CASE ~AlreadyStored(s, f, rs) /\ Home(f, rs) = {}
  <2> DEFINE r == NewRow(s, f, armed)
  <2>1. Shape(r)
    BY DEF NewRow, Shape
  <2>2. new = Append(rs, r)
    BY <1>2 DEF Written
  <2> HIDE DEF r, new
  <2>3. IsRows(new) /\ Len(new) = Len(rs) + 1 /\ \A i \in DOMAIN rs : new[i] = rs[i]
    BY <2>1, <2>2, AppendRow
  <2>4. ClosesWith(s, f, rs, new)
    BY <2>3 DEF IsRows, ClosesWith
  <2>. QED
    BY <2>4 DEF new
<1>3. CASE ~AlreadyStored(s, f, rs) /\ Home(f, rs) # {}
  <2>1. h \in DOMAIN rs
    BY <1>3, HomeRow
  <2>2. PICK r : /\ new = [rs EXCEPT ![h] = r]
                 /\ r = Sighted(rs[h], s, f) \/ r = [Sighted(rs[h], s, f) EXCEPT !.pending = None]
    BY <1>3 DEF Written
  <2>3. r.first = rs[h].first /\ r.until = rs[h].until
    <3> DEFINE t == Sighted(rs[h], s, f)
    <3>0. Shape(rs[h])
      BY <2>1 DEF IsRows
    <3>1. /\ Shape(t) /\ Shape([t EXCEPT !.pending = None])
          /\ t.seen = rs[h].seen \cup {<<s, f.turn>>}
          /\ t.key = rs[h].key /\ t.value = rs[h].value /\ t.status = rs[h].status
          /\ t.first = rs[h].first /\ t.until = rs[h].until
      BY <3>0, SightedShape
    <3>2. r = t \/ r = [t EXCEPT !.pending = None]
      BY <2>2
    <3> HIDE DEF t
    <3>. QED
      BY <3>1, <3>2 DEF Shape
  <2> HIDE DEF new, h
  <2>4. DOMAIN new = DOMAIN rs /\ \A i \in DOMAIN rs : new[i] = IF i = h THEN r ELSE rs[i]
    BY <2>2
  <2>5. ClosesWith(s, f, rs, new)
    BY <2>3, <2>4 DEF ClosesWith
  <2>. QED
    BY <2>5 DEF new
<1>. QED
  BY <1>1, <1>2, <1>3

\* Every retirement rule looks at who opened the row.
LEMMA AppliedClosesWith ==
  ASSUME NEW rs, IsRows(rs), NEW s, NEW f
  PROVE  ClosesWith(s, f, rs, Applied(s, f, rs))
<1>1. ClosesWith(s, f, rs, RejectedApplied(s, f, rs))
  <2> DEFINE rs1 == IF Dated(s) THEN StampRows(rs, RejectedBy(s, f, rs), s, "rejected") ELSE rs
  <2>1. RejectedApplied(s, f, rs) = Written(s, f, rs1, {}, {})
    BY DEF RejectedApplied
  <2>2. IsRows(rs1) /\ ClosesWith(s, f, rs, rs1)
    <3> DEFINE new == StampRows(rs, RejectedBy(s, f, rs), s, "rejected")
    <3>1. \A i \in RejectedBy(s, f, rs) \cap DOMAIN rs : Live(rs[i]) /\ ~OpenedIn(s, rs[i])
      BY DEF RejectedBy, Retirable
    <3>2. IsRows(new) /\ ClosesWith(s, f, rs, new)
      BY <3>1, StampClosesWith
    <3>. QED
      BY <3>2, ClosesWithSelf
  <2> HIDE DEF rs1
  <2>. QED
    BY <2>1, <2>2, WrittenClosesWith, ClosesWithOn
<1>2. ClosesWith(s, f, rs, DecidedApplied(s, f, rs))
  <2> DEFINE Closed(S) == IF Dated(s) THEN S ELSE {}
             named == IF f.listed THEN {} ELSE NamedBy(s, f, rs)
             kept1 == {i \in named : Kept(s, f, rs[i])}
             rs1   == StampRows(rs, Closed(named \ kept1), s, "replaced")
             rival == IF f.listed THEN {} ELSE SupersededBy(s, f, rs1)
             kept2 == {i \in rival : Kept(s, f, rs1[i])}
             rs2   == StampRows(rs1, Closed(rival \ kept2), s, Ending(f))
             rs3   == StampRows(rs2, Closed(PromotedBy(s, f, rs2)), s, "promoted")
             first == IF kept1 # {} THEN kept1 ELSE kept2
             armed == IF HoldOn(s) THEN {i \in first : Dated(s) \/ ~IsSlot(rs[i])} ELSE {}
             all   == Closed((named \ kept1) \cup (rival \ kept2))
  <2>1. DecidedApplied(s, f, rs) =
          IF f.listed /\ f.key \notin EdgeKeys /\ RivalsOf(f, rs) # {} THEN rs
          ELSE Written(s, f, rs3, armed, all)
    BY DEF DecidedApplied
  <2>2. IsRows(rs1) /\ ClosesWith(s, f, rs, rs1)
    <3>1. \A i \in Closed(named \ kept1) : Live(rs[i]) /\ ~OpenedIn(s, rs[i])
      BY DEF NamedBy, Retirable
    <3>. QED
      BY <3>1, StampClosesWith
  <2>3. IsRows(rs2) /\ ClosesWith(s, f, rs1, rs2)
    <3>1. \A i \in Closed(rival \ kept2) :
            Live(rs1[i]) /\ (OpenedIn(s, rs1[i]) => StatusClose(s, f, rs1[i]))
      BY DEF SupersededBy, RivalsOf, Current, Protected, Retirable
    <3> HIDE DEF rs1, rival, kept2
    <3>. QED
      BY <2>2, <3>1, StampClosesWith
  <2>4. IsRows(rs3) /\ ClosesWith(s, f, rs2, rs3)
    <3>1. \A i \in Closed(PromotedBy(s, f, rs2)) : Live(rs2[i]) /\ ~OpenedIn(s, rs2[i])
      BY DEF PromotedBy, Retirable
    <3> HIDE DEF rs2
    <3>. QED
      BY <2>3, <3>1, StampClosesWith
  <2> HIDE DEF rs1, rs2, rs3, armed, all
  <2>5. ClosesWith(s, f, rs3, Written(s, f, rs3, armed, all))
    BY <2>4, WrittenClosesWith
  <2>6. ClosesWith(s, f, rs, rs3)
    BY <2>2, <2>3, <2>4, ClosesWithOn
  <2>. QED
    BY <2>1, <2>5, <2>6, ClosesWithOn, ClosesWithSelf
<1>. QED
  BY <1>1, <1>2, WrittenClosesWith DEF Applied

\* The step of a session leaves the pairs of the others, and what their judges read.
LEMMA HoldsApart ==
  ASSUME TInv, NEW s \in Sessions, Step(s)
  PROVE  \A t \in Sessions \ {s} :
           holds'[t] = holds[t] /\ open'[t] = open[t] /\ loaded'[t] = loaded[t]
<1>0. DOMAIN holds = Sessions /\ DOMAIN open = Sessions /\ DOMAIN loaded = Sessions
  BY DEF TInv, RunTypes, RowTypes
<1>1. CASE \/ \E read \in SUBSET DOMAIN Told(s), known \in {rows, <<>>}, sw \in Switches :
                   Begin(s, read, known, sw)
           \/ BeginTx(s) \/ ApplyFact(s) \/ Commit(s) \/ Conflict(s)
           \/ JudgeDone(s) \/ CloseRead(s) \/ CloseWrite(s)
           \/ DropHeld(s) \/ TakePending(s) \/ StampOld(s) \/ RestorePending(s)
           \/ RecoverPending(s)
  BY <1>1 DEF Begin, BeginTx, ApplyFact, Commit, Conflict, JudgeDone, CloseRead, CloseWrite,
     DropHeld, TakePending, StampOld, RestorePending, RecoverPending, pass, settleRest
<1>2. CASE ConflictAgain(s) \/ Mark(s) \/ Kill(s)
  BY <1>0, <1>2 DEF ConflictAgain, Mark, Kill, Forget, Put
<1>3. CASE Settle(s) \/ Consider(s) \/ Load(s)
  BY <1>0, <1>3 DEF Settle, Consider, Load, Put, pass
<1>4. CASE \E i \in part[s], j \in loaded[s].all :
             JudgeSupersedes(s, i, j) \/ JudgeDuplicate(s, i, j)
  BY <1>4 DEF JudgeSupersedes, JudgeDuplicate, Answer
<1>5. CASE \E h \in open[s] : JudgeConfirms(s, h)
  BY <1>0, <1>5 DEF JudgeConfirms, Put
<1>. QED
  BY <1>1, <1>2, <1>3, <1>4, <1>5 DEF Step

\* The places where a session starts to write a copy back.
LEMMA WritingBack ==
  ASSUME RowsInv, NEW s \in Sessions, Step(s), pc'[s] = "writing back"
  PROVE  /\ MayClose(s) /\ At(s, "closing") /\ pair' = pair
         /\ work'[s] = rows /\ fresh'[s] /\ UNCHANGED rows
<1>1. CASE Leaves(s) \/ Edits(s)
  BY <1>1 DEF Leaves, Edits, Apart
<1>2. CASE BeginTx(s) \/ ApplyFact(s) \/ Commit(s)
  BY <1>2 DEF BeginTx, ApplyFact, Commit, At, Goto, Put, RowsInv, Domains
<1>3. CASE CloseRead(s)
  BY <1>3 DEF CloseRead, NotClosed, NextPair, KeepPair, Goto, Put, RowsInv, Domains
<1>4. CASE CloseWrite(s)
  BY <1>4 DEF CloseWrite, NotClosed, NextPair, KeepPair, Goto, Put, RowsInv, Domains
<1>. QED
  BY <1>1, <1>2, <1>3, <1>4, SettleKinds, OtherKinds DEF Step

\* Until two extractions have overlapped there is one, and its copies are up to date.
Alone ==
  ~overlapped =>
    /\ \A s, t \in Sessions : (Active(s) /\ Active(t)) => s = t
    /\ \A s \in Sessions : At(s, "writing back") => fresh[s]

LEMMA BeginsAlone ==
  ASSUME NEW s \in Sessions, Step(s), ~overlapped'
  PROVE  Active(s) \/ \A t \in Sessions : ~Active(t)
<1>1. ASSUME NEW read \in SUBSET DOMAIN Told(s), NEW known \in {rows, <<>>},
             NEW sw \in Switches, Begin(s, read, known, sw)
      PROVE  \A t \in Sessions : ~Active(t)
  BY <1>1 DEF Begin
<1>2. CASE \/ BeginTx(s) \/ ApplyFact(s) \/ Commit(s) \/ Conflict(s) \/ ConflictAgain(s)
           \/ Settle(s) \/ Consider(s) \/ Load(s) \/ JudgeDone(s) \/ Mark(s) \/ Kill(s)
  <2>1. \/ Active(s)
        \/ pc[s] \in {"begin", "writing", "written", "settling", "judging", "finished"}
    BY <1>2 DEF BeginTx, ApplyFact, Commit, Conflict, ConflictAgain, Settle, Consider, Load,
       JudgeDone, Mark, Kill, At
  <2>. QED
    BY <2>1 DEF Active
<1>3. CASE \/ DropHeld(s) \/ TakePending(s) \/ StampOld(s) \/ RestorePending(s)
           \/ RecoverPending(s) \/ CloseRead(s) \/ CloseWrite(s)
  <2>1. pc[s] \in {"dropping", "taking", "stamping", "restoring", "recovering", "closing",
                   "writing back"}
    BY <1>3 DEF DropHeld, TakePending, StampOld, RestorePending, RecoverPending, CloseRead,
       CloseWrite, At
  <2>. QED
    BY <2>1 DEF Active
<1>4. CASE \/ \E i \in part[s], j \in loaded[s].all :
                JudgeSupersedes(s, i, j) \/ JudgeDuplicate(s, i, j)
           \/ \E h \in open[s] : JudgeConfirms(s, h)
  <2>1. pc[s] = "judging"
    BY <1>4 DEF JudgeSupersedes, JudgeDuplicate, MayAnswer, JudgeConfirms, At
  <2>. QED
    BY <2>1 DEF Active
<1>. QED
  BY <1>1, <1>2, <1>3, <1>4 DEF Step

\* Neither a torn hold nor an overlap is forgotten.
LEMMA StaysTorn ==
  ASSUME NEW s \in Sessions, Step(s)
  PROVE  (torn => torn') /\ (overlapped => overlapped')
<1>1. torn => torn'
  BY DEF Step, Begin, BeginTx, ApplyFact, Commit, Conflict, ConflictAgain, Settle, Consider,
     DropHeld, TakePending, StampOld, RestorePending, RecoverPending, Load, JudgeSupersedes,
     JudgeDuplicate, Answer, JudgeConfirms, CloseRead, CloseWrite, JudgeDone, Mark, Kill, history
<1>2. overlapped => overlapped'
  BY DEF Step, Begin, BeginTx, ApplyFact, Commit, Conflict, ConflictAgain, Settle, Consider,
     DropHeld, TakePending, StampOld, RestorePending, RecoverPending, Load, JudgeSupersedes,
     JudgeDuplicate, Answer, JudgeConfirms, CloseRead, CloseWrite, JudgeDone, Mark, Kill, history,
     settleRest
<1>. QED
  BY <1>1, <1>2

LEMMA AloneStep ==
  ASSUME RowsInv, Alone, NEW s \in Sessions, Step(s)
  PROVE  Alone'
<1> SUFFICES ASSUME ~overlapped' PROVE Alone'
  BY DEF Alone
<1>1. Aside(s)
  BY OthersStay
<1>2. \A t \in Sessions \ {s} : ~Active(t)
  BY BeginsAlone, StaysTorn DEF Alone
<1>3. \A t \in Sessions \ {s} : pc'[t] = pc[t] /\ pc[t] \in {"waiting", "done"}
  BY <1>1, <1>2 DEF Aside, Active
<1>4. \A t \in Sessions \ {s} : ~Active(t)'
  BY <1>3 DEF Active
<1>5. At(s, "writing back")' => fresh'[s]
  BY WritingBack DEF At
<1>6. ASSUME NEW t \in Sessions, At(t, "writing back")' PROVE fresh'[t]
  BY <1>3, <1>5, <1>6 DEF At
<1>7. \A t, u \in Sessions : (Active(t)' /\ Active(u)') => t = u
  BY <1>4
<1>. QED
  BY <1>6, <1>7 DEF Alone

\* No close_row has written back an old copy, unless two extractions overlapped.
Intact == ~torn \/ ~overlapped

LEMMA IntactExtends ==
  ASSUME RowsInv, Alone, NEW s \in Sessions, Step(s), Intact'
  PROVE  Extends(rows, rows')
<1>0. Aside(s)
  BY OthersStay
<1>1. CASE BeginTx(s) \/ ApplyFact(s)
  BY <1>0, <1>1, BeginTxStep, ApplyStep, ExtendsSelf DEF RowsInv
<1>2. CASE Commit(s) \/ CloseRead(s)
  BY <1>0, <1>2, CommitStep, CloseReadStep
<1>3. CASE CloseWrite(s)
  <2>1. fresh[s] \/ rows' = rows
    <3>1. ~overlapped' => fresh[s]
      BY <1>3, StaysTorn DEF Alone, CloseWrite
    <3>2. ~torn' => fresh[s] \/ rows' = rows
      BY <1>3 DEF CloseWrite, KeepRows
    <3>. QED
      BY <3>1, <3>2 DEF Intact
  <2>. QED
    BY <1>0, <1>3, <2>1, CloseWriteStep, ExtendsSelf DEF RowsInv
<1>4. CASE Leaves(s) \/ Edits(s)
  BY <1>0, <1>4, ApartStep
<1>. QED
  BY <1>1, <1>2, <1>3, <1>4, SettleKinds, OtherKinds DEF Step

\* A verdict is about a row the judge was asked about.
Judged(s) ==
  /\ \A h \in holds[s] \cup open[s] : ~h.judged
  /\ pair[s].judged => /\ pair[s].old \in loaded[s].all
                       /\ pc[s] \notin {"waiting", "begin", "writing", "written", "settling"}

LEMMA JudgedBy ==
  ASSUME TInv, NEW s \in Sessions, Judged(s), UNCHANGED <<holds, open, loaded>>,
         NextPair(s) \/ \E p \in {"restoring", "recovering", "writing back"} : KeepPair(s, p)
  PROVE  Judged(s)'
<1>1. pair'[s] = NoPair \/ (pair'[s] = pair[s] /\ pc'[s] \in {"restoring", "recovering", "writing back"})
  BY DEF TInv, RunTypes, RowTypes, NextPair, KeepPair, Goto, Put
<1>2. ~NoPair.judged
  BY DEF NoPair
<1>. QED
  BY <1>1, <1>2 DEF Judged

LEMMA JudgedRun ==
  ASSUME TInv, NEW s \in Sessions, Judged(s),
         \/ \E read \in SUBSET DOMAIN Told(s), known \in {rows, <<>>}, sw \in Switches :
                 Begin(s, read, known, sw)
         \/ BeginTx(s) \/ ApplyFact(s) \/ Commit(s) \/ Conflict(s) \/ ConflictAgain(s)
         \/ Settle(s) \/ Consider(s) \/ Load(s) \/ JudgeDone(s) \/ Mark(s) \/ Kill(s)
  PROVE  Judged(s)'
<1>0. RunTypes /\ RowTypes /\ ~NoPair.judged
  BY DEF TInv, NoPair
<1>1. CASE \/ \E read \in SUBSET DOMAIN Told(s), known \in {rows, <<>>}, sw \in Switches :
                   Begin(s, read, known, sw)
           \/ BeginTx(s) \/ ApplyFact(s) \/ Commit(s) \/ Conflict(s)
  <2>1. UNCHANGED <<holds, open, pair, loaded>> /\ pc[s] \in {"waiting", "begin", "writing"}
    BY <1>1 DEF Begin, BeginTx, ApplyFact, Commit, Conflict, pass, At
  <2>. QED
    BY <2>1 DEF Judged
<1>2. CASE ConflictAgain(s) \/ Mark(s) \/ Kill(s)
  <2>1. holds'[s] = {} /\ open'[s] = {} /\ pair'[s] = NoPair
    BY <1>0, <1>2 DEF ConflictAgain, Mark, Kill, Forget, Put, RunTypes, RowTypes
  <2>. QED
    BY <1>0, <2>1 DEF Judged
<1>3. CASE Settle(s)
  <2> DEFINE H == {Hold(i) : i \in {j \in Held :
                     rows[j].pending[1] # s /\ rows[j].pending[2] \in DOMAIN rows}}
  <2>1. UNCHANGED <<open, pair>> /\ pc[s] = "written" /\ (holds' = Put(holds, s, H) \/ UNCHANGED holds)
    BY <1>3 DEF Settle, pass, At
  <2>2. \A h \in H : ~h.judged
    BY DEF Hold, NoPair
  <2> HIDE DEF H
  <2>3. holds'[s] = H \/ holds'[s] = holds[s]
    BY <1>0, <2>1 DEF Put, RunTypes
  <2>. QED
    BY <2>1, <2>2, <2>3 DEF Judged
<1>4. CASE Consider(s)
  <2>1. PICK h, already : /\ h \in holds[s] /\ h \in PairType
                          /\ pair' = Put(pair, s, [h EXCEPT !.already = already])
                             \/ pair' = Put(pair, s, NoPair)
                          /\ holds' = Put(holds, s, holds[s] \ {h})
                          /\ open' = open \/ open' = Put(open, s, open[s] \cup {h})
    <3> DEFINE h == CHOOSE x \in holds[s] : \A y \in holds[s] : x.new <= y.new
               already == Has(h.old, h.oldValue) /\ ~Live(rows[h.old])
    <3>1. h \in holds[s] /\ h \in PairType
      BY <1>0, <1>4, FirstHold DEF Consider, RunTypes, HoldType
    <3>2. /\ pair' = Put(pair, s, [h EXCEPT !.already = already]) \/ pair' = Put(pair, s, NoPair)
          /\ holds' = Put(holds, s, holds[s] \ {h})
          /\ open' = open \/ open' = Put(open, s, open[s] \cup {h})
      BY <1>4 DEF Consider
    <3> HIDE DEF h, already
    <3>. QED
      BY <3>1, <3>2
  <2>2. /\ pair'[s] = [h EXCEPT !.already = already] \/ pair'[s] = NoPair
        /\ holds'[s] \subseteq holds[s] /\ open'[s] \subseteq open[s] \cup {h}
    BY <1>0, <2>1 DEF Put, RunTypes, RowTypes
  <2>3. ~h.judged /\ \A x \in holds[s] \cup open[s] : ~x.judged
    BY <2>1 DEF Judged
  <2>4. ~pair'[s].judged
    BY <1>0, <2>1, <2>2, <2>3 DEF PairType
  <2>. QED
    BY <2>2, <2>3, <2>4 DEF Judged
<1>5. CASE Load(s)
  <2>1. UNCHANGED <<holds, open, pair>> /\ pc[s] = "settling"
    BY <1>5 DEF Load, At
  <2>. QED
    BY <2>1 DEF Judged
<1>6. CASE JudgeDone(s)
  <2>1. UNCHANGED <<holds, open, pair, loaded>> /\ pc'[s] = "finished"
    BY <1>0, <1>6 DEF JudgeDone, settleRest, pass, Goto, Put, RunTypes
  <2>. QED
    BY <2>1 DEF Judged
<1>. QED
  BY <1>1, <1>2, <1>3, <1>4, <1>5, <1>6

LEMMA FoundLoaded ==
  ASSUME TInv, NEW s \in Sessions, NEW i, NEW key, NEW value
  PROVE  Find(s, i, key, value) \subseteq loaded[s].all
<1> DEFINE like == {m \in loaded[s].all : SamePredicate(Read(s, m), [key |-> key])
                                          /\ Read(s, m).value = value}
<1>1. like \subseteq loaded[s].all /\ like \subseteq Nat
  BY DEF TInv, RowTypes, LoadType
<1>2. Find(s, i, key, value) = IF i \in loaded[s].all THEN {i} ELSE IF like = {} THEN {} ELSE {Min(like)}
  BY DEF Find
<1> HIDE DEF like
<1>3. like # {} => Min(like) \in like
  BY <1>1, MinIsLeast
<1>. QED
  BY <1>1, <1>2, <1>3

LEMMA JudgedPair ==
  ASSUME TInv, NEW s \in Sessions, Judged(s),
         \/ DropHeld(s) \/ TakePending(s) \/ StampOld(s) \/ RestorePending(s) \/ RecoverPending(s)
         \/ CloseRead(s) \/ CloseWrite(s)
         \/ \E i \in part[s], j \in loaded[s].all : JudgeSupersedes(s, i, j) \/ JudgeDuplicate(s, i, j)
         \/ \E h \in open[s] : JudgeConfirms(s, h)
  PROVE  Judged(s)'
<1>0. RunTypes /\ RowTypes /\ pair[s] \in PairType
  BY DEF TInv, RowTypes
<1>1. CASE DropHeld(s) \/ StampOld(s) \/ RestorePending(s) \/ RecoverPending(s)
           \/ CloseRead(s) \/ CloseWrite(s)
  <2>1. UNCHANGED <<holds, open, loaded>>
    BY <1>1 DEF DropHeld, StampOld, RestorePending, RecoverPending, CloseRead, CloseWrite,
       settleRest, pass
  <2>2. NextPair(s) \/ \E p \in {"restoring", "recovering", "writing back"} : KeepPair(s, p)
    BY <1>1 DEF DropHeld, StampOld, RestorePending, RecoverPending, CloseRead, CloseWrite, NotClosed
  <2>. QED
    BY <2>1, <2>2, JudgedBy
<1>2. CASE TakePending(s)
  <2>1. UNCHANGED <<holds, open, loaded>>
    BY <1>2 DEF TakePending, settleRest, pass
  <2>2. CASE NextPair(s)
    BY <2>1, <2>2, JudgedBy
  <2>3. CASE /\ pair' = Put(pair, s, [pair[s] EXCEPT !.taken = rows[New(s)].pending])
             /\ Goto(s, IF pair[s].judged THEN "closing" ELSE "stamping")
    <3>1. pair'[s] = [pair[s] EXCEPT !.taken = rows[New(s)].pending] /\ pc'[s] \in {"closing", "stamping"}
      BY <1>0, <2>3 DEF Goto, Put, RunTypes, RowTypes
    <3>2. pair'[s].judged = pair[s].judged /\ pair'[s].old = pair[s].old
      BY <1>0, <3>1 DEF PairType
    <3>. QED
      BY <2>1, <3>1, <3>2 DEF Judged
  <2>. QED
    BY <1>2, <2>2, <2>3 DEF TakePending
<1>3. ASSUME NEW i, NEW j \in loaded[s].all, NEW why, Answer(s, i, j, why)
      PROVE  Judged(s)'
  <2>1. /\ UNCHANGED <<holds, open, loaded>> /\ pc'[s] = "closing"
        /\ pair'[s] = [NoPair EXCEPT !.old = j, !.oldValue = Read(s, j).value,
                                     !.judged = TRUE, !.why = why]
    BY <1>0, <1>3 DEF Answer, Goto, Put, RunTypes, RowTypes
  <2>2. pair'[s].old = j
    BY <2>1 DEF NoPair
  <2>. QED
    BY <2>1, <2>2 DEF Judged
<1>4. ASSUME NEW h \in open[s], JudgeConfirms(s, h)
      PROVE  Judged(s)'
  <2>1. PICK n \in Find(s, h.new, h.key, h.newValue),
             o \in Find(s, h.old, h.key, h.oldValue) \ gone[s] :
          pair' = Put(pair, s, [h EXCEPT !.new = n, !.old = o, !.judged = TRUE,
                                         !.why = "consolidated"])
    BY <1>4 DEF JudgeConfirms
  <2>0. o \in loaded[s].all
    BY FoundLoaded
  <2>2. /\ UNCHANGED <<holds, loaded>> /\ pc'[s] = "taking" /\ open'[s] \subseteq open[s]
        /\ pair'[s] = [h EXCEPT !.new = n, !.old = o, !.judged = TRUE, !.why = "consolidated"]
    BY <1>0, <1>4, <2>1 DEF JudgeConfirms, Goto, Put, RunTypes, RowTypes
  <2>3. pair'[s].old = o
    <3>1. h \in PairType
      BY <1>0 DEF RunTypes, HoldType
    <3>. QED
      BY <2>2, <3>1 DEF PairType
  <2>. QED
    BY <2>0, <2>2, <2>3 DEF Judged
<1>. QED
  BY <1>1, <1>2, <1>3, <1>4 DEF JudgeSupersedes, JudgeDuplicate

LEMMA JudgedStep ==
  ASSUME TInv, \A t \in Sessions : Judged(t), NEW s \in Sessions, Step(s)
  PROVE  \A t \in Sessions : Judged(t)'
<1>1. Judged(s)'
  BY JudgedRun, JudgedPair DEF Step
<1>2. ASSUME NEW t \in Sessions \ {s} PROVE Judged(t)'
  BY RunsApart, HoldsApart DEF Judged
<1>. QED
  BY <1>1, <1>2

\* What a session has in hand knows whose rows it closes: the copy it writes
\* back closes one it did not open, and its transaction, of those it opened,
\* only an issue it says is fixed on a later turn.
Fixes(s, r) == \E n \in part[s] : Facts(s)[n].fixes /\ r.first[2] < Facts(s)[n].turn
ClosesFor(s, old, new) ==
  \A i \in DOMAIN old : (Live(old[i]) /\ ~Live(new[i])) =>
    new[i].until[1] = s /\ (OpenedIn(s, old[i]) => Fixes(s, old[i]))
InHand(s) ==
  /\ At(s, "writing back") =>
       /\ Extends(work[s], rows)
       /\ pair[s].old \in DOMAIN work[s] /\ ~OpenedIn(s, work[s][pair[s].old])
  /\ At(s, "writing") /\ fresh[s] => ClosesFor(s, rows, work[s])
OwnRows(s) == Extends(loaded[s].rs, rows) /\ InHand(s)
OwnInv ==
  Alone /\ (\A s \in Sessions : Judged(s)) /\ (Intact => \A s \in Sessions : OwnRows(s))

LEMMA SeqIsRows ==
  ASSUME NEW rs \in Seq(Row)
  PROVE  IsRows(rs)
<1>1. Len(rs) \in Nat /\ DOMAIN rs = 1..Len(rs) /\ rs = [i \in DOMAIN rs |-> rs[i]]
  <2>1. Len(rs) \in Nat /\ rs \in [1..Len(rs) -> Row]
    BY LenProperties
  <2>. QED
    BY <2>1
<1>2. ASSUME NEW i \in DOMAIN rs PROVE Shape(rs[i])
  <2>1. rs[i] \in Row
    BY <1>2, RowsType
  <2>. QED
    BY <2>1 DEF Shape, Row
<1>. QED
  BY <1>1, <1>2 DEF IsRows

\* The rows the judge is asked about were the stored ones.
LEMMA LoadedStep ==
  ASSUME TInv, NEW s \in Sessions, Step(s)
  PROVE  loaded'[s] \in {loaded[s], Nothing} \/ loaded'[s].rs = rows
<1>0. RunTypes /\ RowTypes
  BY DEF TInv
<1>1. CASE Load(s)
  BY <1>0, <1>1 DEF Load, Put, RowTypes
<1>2. CASE ConflictAgain(s) \/ Mark(s) \/ Kill(s)
  BY <1>0, <1>2 DEF ConflictAgain, Mark, Kill, Forget, Put, RowTypes
<1>3. CASE \/ \E read \in SUBSET DOMAIN Told(s), known \in {rows, <<>>}, sw \in Switches :
                   Begin(s, read, known, sw)
           \/ BeginTx(s) \/ ApplyFact(s) \/ Commit(s) \/ Conflict(s)
           \/ Settle(s) \/ Consider(s) \/ JudgeDone(s)
  BY <1>3 DEF Begin, BeginTx, ApplyFact, Commit, Conflict, Settle, Consider, JudgeDone,
     settleRest, pass
<1>4. CASE \/ DropHeld(s) \/ TakePending(s) \/ StampOld(s) \/ RestorePending(s) \/ RecoverPending(s)
           \/ CloseRead(s) \/ CloseWrite(s)
  BY <1>4 DEF DropHeld, TakePending, StampOld, RestorePending, RecoverPending, CloseRead,
     CloseWrite, settleRest, pass
<1>5. CASE \/ \E i \in part[s], j \in loaded[s].all : JudgeSupersedes(s, i, j) \/ JudgeDuplicate(s, i, j)
           \/ \E h \in open[s] : JudgeConfirms(s, h)
  BY <1>5 DEF JudgeSupersedes, JudgeDuplicate, Answer, JudgeConfirms
<1>. QED
  BY <1>1, <1>2, <1>3, <1>4, <1>5 DEF Step

LEMMA LoadedExtends ==
  ASSUME TInv, RowsInv, NEW s \in Sessions, Step(s), NEW t \in Sessions,
         Extends(loaded[t].rs, rows), Extends(rows, rows'), IsRows(rows')
  PROVE  Extends(loaded'[t].rs, rows')
<1>0. IsRows(rows) /\ IsRows(loaded[t].rs)
  BY SeqIsRows DEF TInv, RowTypes, LoadType
<1>1. Extends(loaded[t].rs, rows')
  BY <1>0, ExtendsOn
<1>2. Extends(Nothing.rs, rows')
  BY DEF Nothing, Extends, IsRows
<1>3. t # s => loaded'[t] = loaded[t]
  BY HoldsApart
<1>. QED
  BY <1>1, <1>2, <1>3, LoadedStep

LEMMA WritingNow ==
  ASSUME RowsInv, NEW s \in Sessions, Step(s), pc'[s] = "writing"
  PROVE  BeginTx(s) \/ ApplyFact(s)
<1>1. CASE Commit(s)
  BY <1>1 DEF Commit, Goto, Put, RowsInv, Domains
<1>2. CASE CloseRead(s) \/ CloseWrite(s)
  BY <1>2 DEF CloseRead, CloseWrite, NotClosed, NextPair, KeepPair, Goto, Put, RowsInv, Domains
<1>. QED
  BY <1>1, <1>2, SettleKinds, OtherKinds DEF Step, Leaves, Edits, Apart

LEMMA BeginTxInHand ==
  ASSUME TInv, RowsInv, NEW s \in Sessions, BeginTx(s)
  PROVE  InHand(s)'
<1>1. pc'[s] = "writing" /\ work'[s] = rows /\ rows' = rows
  BY DEF TInv, RunTypes, RowTypes, BeginTx, Goto, Put
<1>. QED
  BY <1>1 DEF InHand, At, ClosesFor

LEMMA ApplyInHand ==
  ASSUME TInv, RowsInv, NEW s \in Sessions, InHand(s), ApplyFact(s)
  PROVE  InHand(s)'
<1> DEFINE f == Facts(s)[NextFact(s)]
<1>0. At(s, "writing") /\ pc'[s] = "writing" /\ fresh' = fresh /\ rows' = rows /\ UNCHANGED <<given, part>>
  BY DEF ApplyFact, At
<1>1. work'[s] = Applied(s, f, work[s])
  BY DEF ApplyFact, TInv, RowTypes, Put
<1>2. NextFact(s) \in part[s] /\ f \in Fact
  <2>1. Facts(s) \in Seq(Fact) /\ todo[s] \subseteq part[s] /\ part[s] \subseteq DOMAIN Facts(s)
    BY FactsType DEF TInv, Own
  <2>. QED
    BY <2>1, NextFactTodo DEF ApplyFact
<1>3. ClosesWith(s, f, work[s], work'[s])
  BY <1>1, AppliedClosesWith DEF RowsInv, Copy
<1> HIDE DEF f
<1>4. ASSUME fresh[s], NEW i \in DOMAIN rows, Live(rows[i]), ~Live(work'[s][i])
      PROVE  work'[s][i].until[1] = s /\ (OpenedIn(s, rows[i]) => Fixes(s, rows[i]))
  <2>1. Extends(rows, work[s]) /\ ClosesFor(s, rows, work[s])
    BY <1>0, <1>4 DEF RowsInv, Copy, InHand
  <2>2. i \in DOMAIN work[s] /\ work[s][i].first = rows[i].first
    <3>1. IsRows(rows) /\ IsRows(work[s])
      BY DEF RowsInv, Copy
    <3>2. i \in DOMAIN work[s]
      BY <1>4, <2>1, <3>1 DEF Extends, IsRows
    <3>. QED
      BY <1>4, <2>1, <3>2 DEF Extends
  <2>3. CASE ~Live(work[s][i])
    <3>1. work'[s][i].until = work[s][i].until
      BY <1>3, <2>2, <2>3 DEF ClosesWith
    <3>. QED
      BY <1>4, <2>1, <2>3, <3>1 DEF ClosesFor
  <2>4. CASE Live(work[s][i])
    <3>1. /\ work'[s][i].until[1] = s
          /\ OpenedIn(s, work[s][i]) => StatusClose(s, f, work[s][i])
      BY <1>3, <1>4, <2>2, <2>4 DEF ClosesWith, Live
    <3>2. StatusClose(s, f, work[s][i]) => Fixes(s, rows[i])
      BY <1>2, <2>2 DEF StatusClose, Fixes, f
    <3>. QED
      BY <2>2, <3>1, <3>2 DEF OpenedIn
  <2>. QED
    BY <2>3, <2>4
<1>. QED
  BY <1>0, <1>4 DEF InHand, At, ClosesFor, Fixes, Facts, given

LEMMA WritingBackInHand ==
  ASSUME TInv, RowsInv, NEW s \in Sessions, Step(s), pc'[s] = "writing back",
         Judged(s), Extends(loaded[s].rs, rows)
  PROVE  InHand(s)'
<1>1. /\ MayClose(s) /\ pair[s].judged /\ pair' = pair
      /\ work'[s] = rows /\ UNCHANGED rows
  BY WritingBack DEF TInv, Own, At
<1>2. pair[s].old \in DOMAIN rows /\ ~OpenedIn(s, loaded[s].rs[pair[s].old])
  BY <1>1 DEF MayClose, OldIsLive, Has, Read
<1>3. pair[s].old \in DOMAIN loaded[s].rs
  BY <1>1 DEF Judged, TInv, RowTypes, LoadType
<1>4. ~OpenedIn(s, rows[pair[s].old])
  BY <1>2, <1>3 DEF Extends, OpenedIn
<1>. QED
  BY <1>1, <1>2, <1>4, ExtendsSelf DEF InHand, At, RowsInv

LEMMA InHandApart ==
  ASSUME TInv, RowsInv, NEW s \in Sessions, Step(s), NEW t \in Sessions \ {s},
         InHand(t), Extends(rows, rows'), IsRows(rows')
  PROVE  InHand(t)'
<1>1. /\ pc'[t] = pc[t] /\ work'[t] = work[t] /\ pair'[t] = pair[t] /\ part'[t] = part[t]
      /\ said'[t] = said[t] /\ (fresh'[t] => fresh[t] /\ rows' = rows)
  BY OthersStay, RunsApart DEF Aside
<1>2. Extends(work[t], rows) => Extends(work[t], rows')
  BY ExtendsOn DEF RowsInv, Copy
<1>3. ClosesFor(t, rows, work[t]) /\ rows' = rows => ClosesFor(t, rows, work[t])'
  BY <1>1 DEF ClosesFor, Fixes, Facts
<1>. QED
  BY <1>1, <1>2, <1>3 DEF InHand, At

LEMMA OwnStep ==
  ASSUME TInv, RowsInv, OwnInv, NEW s \in Sessions, Step(s), RowsInv'
  PROVE  OwnInv'
<1>1. Alone' /\ \A t \in Sessions : Judged(t)'
  BY AloneStep, JudgedStep DEF OwnInv
<1>2. ASSUME Intact', NEW t \in Sessions PROVE OwnRows(t)'
  <2>1. Intact /\ \A u \in Sessions : OwnRows(u)
    BY <1>2, StaysTorn DEF Intact, OwnInv
  <2>2. Extends(rows, rows') /\ IsRows(rows')
    BY <1>2, IntactExtends DEF OwnInv, RowsInv
  <2>3. Extends(loaded[t].rs, rows)'
    BY <2>1, <2>2, LoadedExtends DEF OwnRows
  <2>4. InHand(s)'
    <3>1. CASE pc'[s] = "writing"
      BY <2>1, <3>1, WritingNow, BeginTxInHand, ApplyInHand DEF OwnRows
    <3>2. CASE pc'[s] = "writing back"
      BY <2>1, <3>2, WritingBackInHand DEF OwnRows, OwnInv
    <3>. QED
      BY <3>1, <3>2 DEF InHand, At
  <2>5. InHand(t)'
    BY <2>1, <2>2, <2>4, InHandApart DEF OwnRows
  <2>. QED
    BY <2>3, <2>5 DEF OwnRows
<1>. QED
  BY <1>1, <1>2 DEF OwnInv

LEMMA OwnInvariant == Spec => []OwnInv
<1>1. Init => OwnInv
  <2> SUFFICES ASSUME Init PROVE OwnInv
    OBVIOUS
  <2>1. \A s \in Sessions : /\ pc[s] = "waiting" /\ holds[s] = {} /\ open[s] = {}
                            /\ pair[s] = NoPair /\ loaded[s] = Nothing
    BY DEF Init
  <2>2. Alone /\ \A s \in Sessions : Judged(s)
    <3>1. ~NoPair.judged
      BY DEF NoPair
    <3>2. \A s \in Sessions : ~Active(s) /\ ~At(s, "writing back") /\ Judged(s)
      BY <2>1, <3>1 DEF Active, At, Judged
    <3>. QED
      BY <3>2 DEF Alone
  <2>3. \A s \in Sessions : OwnRows(s)
    <3>1. Extends(<<>>, rows)
      BY EmptyRows, ExtendsSelf DEF Init
    <3>2. Nothing.rs = <<>>
      BY DEF Nothing
    <3>3. \A s \in Sessions : Extends(loaded[s].rs, rows) /\ InHand(s)
      BY <2>1, <3>1, <3>2 DEF InHand, At
    <3>. QED
      BY <3>3 DEF OwnRows
  <2>. QED
    BY <2>2, <2>3 DEF OwnInv
<1>2. ASSUME TInv, RowsInv, OwnInv, RowsInv', [Next]_vars PROVE OwnInv'
  <2>1. CASE Next
    BY <1>2, <2>1, OwnStep DEF Next
  <2>2. CASE UNCHANGED vars
    <3>1. UNCHANGED <<rows, said, pc, part, work, fresh, holds, open, loaded, pair, torn, overlapped>>
      BY <2>2 DEF vars, given, tx, pass, history
    <3>. QED
      BY <1>2, <3>1 DEF OwnInv, Alone, Active, At, Judged, Intact, OwnRows, InHand, ClosesFor,
         Fixes, Facts
  <2>. QED
    BY <1>2, <2>1, <2>2
<1>. QED
  BY <1>1, <1>2, TypesInvariant, RowsInvariant, PTL DEF Spec

\* What a step closes, its session closes; of the rows that session opened, only
\* an issue it fixes, or the rows of a held pair.
MayEnd(s, i) ==
  /\ rows'[i].until[1] = s
  /\ OpenedIn(s, rows[i]) => pc[s] \in {"stamping", "dropping", "recovering"} \/ Fixes(s, rows[i])
Ends(i) == i \in DOMAIN rows' /\ Live(rows[i]) /\ ~Live(rows'[i])

LEMMA CloseEnds ==
  ASSUME RowsInv, NEW s, NEW c \in DOMAIN rows, NEW why, Close(s, c, why),
         NEW i \in DOMAIN rows, Ends(i)
  PROVE  i = c /\ rows'[i].until[1] = s
<1>1. rows' = [rows EXCEPT ![c] = [rows[c] EXCEPT !.until = <<s, why>>]]
  BY DEF Close, EditRow, Store
<1>2. i = c
  BY <1>1 DEF Ends
<1>3. rows[c] = [key |-> rows[c].key, value |-> rows[c].value, status |-> rows[c].status,
                 first |-> rows[c].first, seen |-> rows[c].seen, pending |-> rows[c].pending,
                 until |-> rows[c].until]
  BY DEF RowsInv, IsRows, Shape
<1>4. rows'[c].until = <<s, why>>
  BY <1>1, <1>3
<1>. QED
  BY <1>2, <1>4

LEMMA HoldEnds ==
  ASSUME RowsInv, NEW s, NEW c, NEW by, EditRow(s, c, [rows[c] EXCEPT !.pending = by]),
         NEW i \in DOMAIN rows
  PROVE  ~Ends(i)
<1>1. rows' = [rows EXCEPT ![c] = [rows[c] EXCEPT !.pending = by]]
  BY DEF EditRow, Store
<1>2. rows[i] = [key |-> rows[i].key, value |-> rows[i].value, status |-> rows[i].status,
                 first |-> rows[i].first, seen |-> rows[i].seen, pending |-> rows[i].pending,
                 until |-> rows[i].until]
  BY DEF RowsInv, IsRows, Shape
<1>3. rows'[i].until = rows[i].until
  BY <1>1, <1>2
<1>. QED
  BY <1>3 DEF Ends, Live

LEMMA PairEnds ==
  ASSUME RowsInv, NEW s \in Sessions, NEW i \in DOMAIN rows, Ends(i),
         DropHeld(s) \/ TakePending(s) \/ StampOld(s) \/ RestorePending(s) \/ RecoverPending(s)
  PROVE  MayEnd(s, i)
<1>0. ~KeepRows
  BY DEF KeepRows, Ends
<1>1. CASE DropHeld(s)
  <2>1. Close(s, New(s), "hold_dropped") /\ New(s) \in DOMAIN rows /\ pc[s] = "dropping"
    BY <1>0, <1>1 DEF DropHeld, NewIsLive, Has, At
  <2>. QED
    BY <2>1, CloseEnds DEF MayEnd
<1>2. CASE StampOld(s)
  <2>1. Close(s, pair[s].old, "superseded") /\ pair[s].old \in DOMAIN rows /\ pc[s] = "stamping"
    BY <1>0, <1>2 DEF StampOld, OldIsLive, Has, At
  <2>. QED
    BY <2>1, CloseEnds DEF MayEnd
<1>3. CASE RecoverPending(s)
  <2>1. pc[s] = "recovering"
        /\ \/ Close(s, New(s), "hold_dropped") /\ New(s) \in DOMAIN rows
           \/ Restore(s)
    BY <1>0, <1>3 DEF RecoverPending, NewIsLive, Has, At
  <2>. QED
    BY <2>1, CloseEnds, HoldEnds DEF MayEnd, Restore
<1>4. CASE TakePending(s) \/ RestorePending(s)
  BY <1>0, <1>4, HoldEnds DEF TakePending, RestorePending, Restore
<1>. QED
  BY <1>1, <1>2, <1>3, <1>4

LEMMA CloseReadEnds ==
  ASSUME TInv, RowsInv, NEW s \in Sessions, Judged(s), OwnRows(s), CloseRead(s),
         NEW i \in DOMAIN rows, Ends(i)
  PROVE  MayEnd(s, i)
<1>1. MayClose(s) /\ Close(s, pair[s].old, pair[s].why) /\ At(s, "closing")
  BY DEF CloseRead, KeepRows, Ends
<1>2. pair[s].old \in DOMAIN rows /\ ~OpenedIn(s, loaded[s].rs[pair[s].old])
  BY <1>1 DEF MayClose, OldIsLive, Has, Read
<1>3. i = pair[s].old /\ rows'[i].until[1] = s
  BY <1>1, <1>2, CloseEnds
<1>4. pair[s].judged /\ pair[s].old \in DOMAIN loaded[s].rs
  BY <1>1 DEF TInv, Own, At, Judged, RowTypes, LoadType
<1>5. ~OpenedIn(s, rows[i])
  BY <1>2, <1>3, <1>4 DEF OwnRows, Extends, OpenedIn
<1>. QED
  BY <1>3, <1>5 DEF MayEnd

LEMMA CloseWriteEnds ==
  ASSUME TInv, RowsInv, NEW s \in Sessions, OwnRows(s), CloseWrite(s),
         NEW i \in DOMAIN rows, Ends(i)
  PROVE  MayEnd(s, i)
<1> DEFINE old == pair[s].old
           why == pair[s].why
<1>1. rows' = StampRows(work[s], {old}, s, why) /\ At(s, "writing back")
  BY DEF CloseWrite, KeepRows, Ends, Store
<1>2. /\ Extends(work[s], rows) /\ ~OpenedIn(s, work[s][old])
      /\ IsRows(work[s])
  BY <1>1 DEF OwnRows, InHand, RowsInv, Copy
<1>3. i \in DOMAIN work[s]
  BY <1>1 DEF Ends, StampRows
<1>4. rows[i].first = work[s][i].first /\ (~Live(work[s][i]) => rows[i].until = work[s][i].until)
  BY <1>2, <1>3 DEF Extends
<1>5. Live(work[s][i])
  BY <1>4 DEF Ends, Live
<1>6. i = old /\ rows'[i] = [work[s][i] EXCEPT !.until = <<s, why>>]
  BY <1>1, <1>3, <1>5 DEF Ends, StampRows
<1>7. Shape(work[s][i])
  BY <1>2, <1>3 DEF IsRows
<1>8. rows'[i].until = <<s, why>>
  BY <1>6, <1>7 DEF Shape
<1>. QED
  BY <1>2, <1>4, <1>6, <1>8 DEF MayEnd, OpenedIn

LEMMA StepEnds ==
  ASSUME TInv, RowsInv, NEW s \in Sessions, Judged(s), OwnRows(s), Step(s),
         NEW i \in DOMAIN rows, Ends(i)
  PROVE  MayEnd(s, i)
<1>1. rows' # rows
  BY DEF Ends
<1>2. CASE Commit(s)
  <2>1. rows' = work[s] /\ At(s, "writing") /\ fresh[s]
    BY <1>1, <1>2 DEF Commit, Conflicts, Store, KeepRows
  <2>. QED
    BY <2>1 DEF OwnRows, InHand, ClosesFor, Ends, MayEnd
<1>3. CASE BeginTx(s) \/ ApplyFact(s)
  BY <1>1, <1>3 DEF BeginTx, ApplyFact
<1>. QED
  BY <1>1, <1>2, <1>3, PairEnds, CloseReadEnds, CloseWriteEnds, OtherKinds DEF Step, Leaves

\* A session does not close a row it opened itself, but for an issue that a later
\* turn of it fixes and for a held pair settled beside its own rerun (write.rs,
\* hold.rs, consolidate.rs), with any stories and sessions and any interleaving
\* of them, as long as no old copy was written back while two ran.
THEOREM OwnRowsRemain == Spec => OwnRowsStay
<1> DEFINE OwnRowStays ==
      \A s \in Sessions, i \in DOMAIN rows :
        (Live(rows[i]) /\ i \in DOMAIN rows' /\ ~Live(rows'[i])
          /\ rows'[i].until[1] = s /\ OpenedIn(s, rows[i]))
        => \/ pc[s] \in {"stamping", "dropping", "recovering"}
           \/ \E n \in part[s] : Facts(s)[n].fixes /\ rows[i].first[2] < Facts(s)[n].turn
           \/ torn /\ overlapped
<1>1. TInv /\ RowsInv /\ OwnInv /\ [Next]_vars => [OwnRowStays]_rows
  <2> SUFFICES ASSUME TInv, RowsInv, OwnInv, Next, Intact,
                      NEW s \in Sessions, NEW i \in DOMAIN rows, Ends(i),
                      rows'[i].until[1] = s, OpenedIn(s, rows[i])
               PROVE  pc[s] \in {"stamping", "dropping", "recovering"} \/ Fixes(s, rows[i])
    BY DEF vars, Intact, Ends, Fixes
  <2>1. PICK u \in Sessions : Step(u)
    BY DEF Next
  <2>2. MayEnd(u, i)
    BY <2>1, StepEnds DEF OwnInv
  <2>. QED
    BY <2>2 DEF MayEnd
<1>. QED
  BY <1>1, TypesInvariant, RowsInvariant, OwnInvariant, PTL DEF Spec, OwnRowsStay
==============================================================================
