---------------------------- MODULE FactValueProofs ----------------------------
(***************************************************************************)
(* OneCurrentValue for every set of sessions, keys and stories, with any   *)
(* crashes, retries and overlap: what the rows of a key have in common     *)
(* when they are current, and which pairs in hand may be between the two   *)
(* writes that settle them.  Then NeverEmpty: what a transaction's copy    *)
(* keeps of each key, and which rows the pairs that wait are about.        *)
(***************************************************************************)
EXTENDS FactSlotsProofs

---------------------------------------------------------------------------
(* The invariant of a sequence of rows. *)

\* The keys OneCurrentValue is about. What the facts in hand say of such a key is
\* what the transcript says of it: none was matched.
Lone(k) == Unmatched(k) /\ Simple(k)
Voices(s, f) ==
  Lone(f.key) => /\ f.aims = None
                 /\ \E n \in DOMAIN Told(s) : /\ SameFact(Told(s)[n], f)
                                              /\ Told(s)[n].keeps = f.keeps
                                              /\ Told(s)[n].replaces = f.replaces
VoicesInv == \A s \in Sessions : \A n \in DOMAIN Facts(s) : Voices(s, Facts(s)[n])

\* A row was opened by a session and, decided, says what that said of the key.
Decides(s, n, k, v) ==
  Told(s)[n].key = k /\ Told(s)[n].value = v /\ Told(s)[n].status = Decided
Said(rs) ==
  \A i \in DOMAIN rs :
    LET s == rs[i].first[1]
    IN /\ s \in Sessions
       /\ (rs[i].status = Decided /\ Lone(rs[i].key))
            => \E n \in DOMAIN Told(s) : Decides(s, n, rs[i].key, rs[i].value)

\* A fact has one live row.
Single(rs) ==
  \A i, j \in DOMAIN rs : (Live(rs[i]) /\ Live(rs[j]) /\ SameFact(rs[i], rs[j])) => i = j

\* A held row is decided, its key has facts that keep values, and the row it waits
\* on is one of the same key.
Keeping(k) ==
  \E s \in Sessions : \E n \in DOMAIN Told(s) : Told(s)[n].key = k /\ Told(s)[n].keeps # {}
WaitsFor(rs, k, hold) == Lone(k) => Keeping(k) /\ hold[2] \in DOMAIN rs /\ rs[hold[2]].key = k
Waits(rs) ==
  \A i \in DOMAIN rs : Pending(rs[i]) =>
    rs[i].status = Decided /\ WaitsFor(rs, rs[i].key, rs[i].pending)

\* What OneCurrentValue says two rows are not.
Clash(rs, i, j) ==
  /\ Current(rs[i]) /\ Current(rs[j]) /\ IsSlot(rs[i]) /\ rs[i].key = rs[j].key
  /\ rs[i].value # rs[j].value /\ rs[i].first[1] # rs[j].first[1] /\ Lone(rs[i].key)

\* A session is between clearing the hold of a pair and closing its old row.  Two
\* rows may clash meanwhile: the session closes one of them, holds one again or,
\* when neither can be done, leaves the hold torn.
Mid(s) == pair[s].taken # None
Closed(rs, i) == i \in DOMAIN rs /\ ~Live(rs[i])
Excused(rs, i, j) ==
  \E s \in Sessions :
    /\ Mid(s)
    /\ pair[s].new \in {i, j} \/ Closed(rs, pair[s].new)
    /\ pair[s].old \in {i, j} \/ Closed(rs, pair[s].old)
Settled(rs) == \A i, j \in DOMAIN rs : Clash(rs, i, j) => Excused(rs, i, j)

Sound(rs) == Said(rs) /\ Single(rs) /\ Waits(rs) /\ Settled(rs)

---------------------------------------------------------------------------
(* Closing rows, and writing one. *)

\* Rows are closed and nothing else is done to them.
Closes(old, new) ==
  /\ Relabels(old, new)
  /\ \A i \in DOMAIN old : /\ new[i].pending = old[i].pending
                           /\ ~Live(old[i]) => ~Live(new[i])

LEMMA ClosesOn ==
  ASSUME NEW a, NEW b, NEW c, IsRows(a), Closes(a, b), Closes(b, c)
  PROVE  Closes(a, c)
BY DEF Closes, Relabels, SameRow, IsRows

LEMMA ClosesSelf == ASSUME NEW rs, IsRows(rs) PROVE Closes(rs, rs)
BY DEF Closes, Relabels, SameRow

LEMMA ClosedBySomebody ==
  ASSUME NEW s \in Sessions, NEW why \in Reason
  PROVE  <<s, why>> # None
BY ConstantsOK

LEMMA HeldBySomebody ==
  ASSUME NEW s \in Sessions, NEW i \in Nat
  PROVE  <<s, i>> # None
BY ConstantsOK

LEMMA StampCloses ==
  ASSUME NEW rs, IsRows(rs), NEW S, NEW s \in Sessions, NEW why \in Reason,
         NEW new, new = StampRows(rs, S, s, why)
  PROVE  /\ Closes(rs, new)
         /\ \A i \in DOMAIN rs : (i \in S => ~Live(new[i])) /\ (i \notin S => new[i] = rs[i])
<1>1. Relabels(rs, new)
  BY StampRelabels
<1>2. <<s, why>> # None
  BY ClosedBySomebody
<1>3. ASSUME NEW i \in DOMAIN rs
      PROVE  /\ new[i].pending = rs[i].pending
             /\ i \in S => ~Live(new[i])
             /\ i \notin S => new[i] = rs[i]
  <2>1. Shape(rs[i])
    BY DEF IsRows
  <2>2. new[i] = IF i \in S THEN [rs[i] EXCEPT !.until = <<s, why>>] ELSE rs[i]
    BY DEF StampRows
  <2>. QED
    BY <1>2, <2>1, <2>2 DEF Shape, Live
<1>. QED
  BY <1>1, <1>3 DEF Closes, Live

LEMMA ClosesExcused ==
  ASSUME NEW old, NEW new, IsRows(old), Closes(old, new), NEW i, NEW j, Excused(old, i, j)
  PROVE  Excused(new, i, j)
BY DEF Excused, Closed, Closes, Relabels, IsRows

LEMMA ClosesSound ==
  ASSUME NEW old, NEW new, IsRows(old), Closes(old, new), Sound(old)
  PROVE  Sound(new)
<1>0. IsRows(new) /\ DOMAIN new = DOMAIN old
  BY DEF Closes, Relabels, IsRows
<1>1. Said(new)
  BY <1>0 DEF Sound, Said, Closes, Relabels, SameRow
<1>2. Single(new)
  BY <1>0 DEF Sound, Single, Closes, Relabels, SameRow, SameFact
<1>3. Waits(new)
  BY <1>0 DEF Sound, Waits, WaitsFor, Pending, Closes, Relabels, SameRow
<1>4. ASSUME NEW i \in DOMAIN new, NEW j \in DOMAIN new, Clash(new, i, j)
      PROVE  Excused(new, i, j)
  <2>1. Clash(old, i, j)
    BY <1>0, <1>4 DEF Clash, Current, Pending, IsSlot, Closes, Relabels, SameRow
  <2>. QED
    BY <1>0, <2>1, ClosesExcused DEF Sound, Settled
<1>. QED
  BY <1>1, <1>2, <1>3, <1>4 DEF Sound, Settled

LEMMA ExcusedEither ==
  ASSUME NEW rs, NEW i, NEW j, Excused(rs, i, j)
  PROVE  Excused(rs, j, i)
BY DEF Excused

\* A row with one more sighting, its hold taken off or not.
LEMMA SightedFields ==
  ASSUME NEW r, Shape(r), NEW s, NEW f
  PROVE  LET t == Sighted(r, s, f)
             u == [t EXCEPT !.pending = None]
         IN /\ Shape(t) /\ Shape(u)
            /\ t.key = r.key /\ t.value = r.value /\ t.status = r.status
            /\ t.first = r.first /\ t.until = r.until /\ t.pending = r.pending
            /\ u.key = r.key /\ u.value = r.value /\ u.status = r.status
            /\ u.first = r.first /\ u.until = r.until /\ u.pending = None
<1> DEFINE seen == r.seen \cup {<<s, f.turn>>}
<1>1. Sighted(r, s, f) = [r EXCEPT !.seen = seen]
  BY DEF Sighted
<1> HIDE DEF seen
<1>2. [r EXCEPT !.seen = seen] =
        [key |-> r.key, value |-> r.value, status |-> r.status, first |-> r.first,
         seen |-> seen, pending |-> r.pending, until |-> r.until]
  BY DEF Shape
<1> DEFINE t == Sighted(r, s, f)
           u == [t EXCEPT !.pending = None]
<1>3. t = [key |-> r.key, value |-> r.value, status |-> r.status, first |-> r.first,
           seen |-> seen, pending |-> r.pending, until |-> r.until]
  BY <1>1, <1>2
<1> HIDE DEF t
<1>4. u = [key |-> r.key, value |-> r.value, status |-> r.status, first |-> r.first,
           seen |-> seen, pending |-> None, until |-> r.until]
  BY <1>3
<1> HIDE DEF u
<1>5. Shape(t) /\ Shape(u)
  BY <1>3, <1>4 DEF Shape
<1>. QED
  BY <1>3, <1>4, <1>5 DEF t, u

\* What the fact f of session s may do with the rows rs: open a current row beside
\* those of s only; hold a row on one of its own key; release a held row when what
\* it then clashes with is excused.
MayOpen(s, f, rs, armed) ==
  (f.status = Decided /\ armed = {} /\ f.key \notin EdgeKeys /\ Lone(f.key)) =>
    \A j \in RivalsOf(f, rs) : OpenedIn(s, rs[j])
MayHold(f, rs, armed) ==
  /\ armed \subseteq DOMAIN rs
  /\ armed # {} => /\ f.status = Decided
                   /\ Lone(f.key) => Keeping(f.key) /\ \A c \in armed : rs[c].key = f.key
MayRelease(f, rs, closed) ==
  \A h \in DOMAIN rs :
    (/\ SameFact(rs[h], f) /\ Live(rs[h]) /\ Pending(rs[h]) /\ Releases(rs, h, closed)
     /\ f.key \notin EdgeKeys /\ Lone(f.key))
      => \A j \in RivalsOf(f, rs) : Excused(rs, h, j)

LEMMA AppendSound ==
  ASSUME NEW rs, IsRows(rs), Sound(rs), NEW s \in Sessions, NEW f, Voices(s, f),
         NEW armed, MayOpen(s, f, rs, armed), MayHold(f, rs, armed), Home(f, rs) = {}
  PROVE  Sound(Append(rs, NewRow(s, f, armed)))
<1> DEFINE r == NewRow(s, f, armed)
           new == Append(rs, r)
           k == Len(rs) + 1
<1>1. /\ Shape(r) /\ r.key = f.key /\ r.value = f.value /\ r.status = f.status
      /\ r.first = <<s, f.turn>> /\ r.until = None
      /\ r.pending = IF armed = {} THEN None ELSE <<s, Min(armed)>>
  BY DEF NewRow, Shape
<1> HIDE DEF r
<1>2. /\ IsRows(new) /\ Len(new) = k /\ new[k] = r
      /\ \A i \in DOMAIN rs : new[i] = rs[i]
  BY <1>1, AppendRow
<1> HIDE DEF new
<1>3. DOMAIN new = DOMAIN rs \cup {k} /\ k \notin DOMAIN rs /\ DOMAIN rs \subseteq Nat
  BY <1>2 DEF IsRows
<1> HIDE DEF k
<1>4. armed # {} => Min(armed) \in armed /\ Min(armed) \in DOMAIN rs /\ r.pending # None
  <2>1. armed # {} => Min(armed) \in armed /\ Min(armed) \in DOMAIN rs /\ Min(armed) \in Nat
    BY <1>3, MinIsLeast DEF MayHold
  <2>. QED
    BY <1>1, <2>1, HeldBySomebody
<1>5. r.first[1] = s
  BY <1>1
<1>6. Said(new)
  <2>1. (r.status = Decided /\ Lone(r.key))
          => \E n \in DOMAIN Told(s) : Decides(s, n, r.key, r.value)
    BY <1>1 DEF Voices, Decides, SameFact
  <2>. QED
    BY <1>2, <1>3, <1>5, <2>1 DEF Sound, Said
<1>7. Single(new)
  <2>1. \A i \in DOMAIN rs : ~(Live(rs[i]) /\ SameFact(rs[i], f))
    BY DEF Home
  <2>2. \A i \in DOMAIN rs : SameFact(rs[i], r) \/ SameFact(r, rs[i]) => SameFact(rs[i], f)
    BY <1>1 DEF SameFact
  <2>. QED
    BY <1>2, <1>3, <2>1, <2>2 DEF Sound, Single
<1>8. Waits(new)
  <2>1. ASSUME NEW i \in DOMAIN rs, Pending(rs[i])
        PROVE  rs[i].status = Decided /\ WaitsFor(new, rs[i].key, rs[i].pending)
    BY <1>2, <1>3, <2>1 DEF Sound, Waits, WaitsFor
  <2>2. ASSUME Pending(r)
        PROVE  r.status = Decided /\ WaitsFor(new, r.key, r.pending)
    <3>1. armed # {} /\ r.pending[2] = Min(armed)
      BY <1>1, <2>2 DEF Pending
    <3>. QED
      BY <1>1, <1>2, <1>3, <1>4, <3>1 DEF MayHold, WaitsFor
  <2>. QED
    BY <1>2, <1>3, <2>1, <2>2 DEF Waits
<1>9. \A i, j : Excused(rs, i, j) => Excused(new, i, j)
  BY <1>2, <1>3 DEF Excused, Closed
<1>10. ASSUME NEW j \in DOMAIN rs, Current(r), Current(rs[j]), r.key = rs[j].key,
              r.value # rs[j].value, r.first[1] # rs[j].first[1], Lone(r.key), IsSlot(r)
       PROVE  FALSE
  <2>1. armed = {}
    BY <1>4, <1>10 DEF Current, Pending
  <2>2. j \in RivalsOf(f, rs)
    BY <1>1, <1>10 DEF RivalsOf
  <2>3. f.status = Decided /\ f.key \notin EdgeKeys /\ Lone(f.key)
    BY <1>1, <1>10 DEF Current, IsSlot
  <2>4. OpenedIn(s, rs[j])
    BY <2>1, <2>2, <2>3 DEF MayOpen
  <2>. QED
    BY <1>5, <1>10, <2>4 DEF OpenedIn
<1>11. Settled(new)
  <2> SUFFICES ASSUME NEW i \in DOMAIN new, NEW j \in DOMAIN new, Clash(new, i, j)
               PROVE  Excused(new, i, j)
    BY DEF Settled
  <2>1. CASE i \in DOMAIN rs /\ j \in DOMAIN rs
    <3>1. Clash(rs, i, j)
      BY <1>2, <2>1 DEF Clash
    <3>. QED
      BY <1>9, <2>1, <3>1 DEF Sound, Settled
  <2>2. CASE i = k /\ j = k
    BY <2>2 DEF Clash
  <2>3. CASE i = k /\ j \in DOMAIN rs
    BY <1>2, <1>10, <2>3 DEF Clash
  <2>4. CASE i \in DOMAIN rs /\ j = k
    BY <1>2, <1>10, <2>4 DEF Clash, IsSlot
  <2>. QED
    BY <1>3, <2>1, <2>2, <2>3, <2>4
<1>. QED
  BY <1>6, <1>7, <1>8, <1>11 DEF Sound, new, r

\* A row changes in its sightings only, or its hold is taken off as well.
LEMMA SightSound ==
  ASSUME NEW rs, IsRows(rs), Sound(rs), NEW new, IsRows(new), DOMAIN new = DOMAIN rs,
         NEW h \in DOMAIN rs,
         \A i \in DOMAIN rs \ {h} : new[i] = rs[i],
         /\ new[h].key = rs[h].key /\ new[h].value = rs[h].value
         /\ new[h].status = rs[h].status /\ new[h].first = rs[h].first
         /\ new[h].until = rs[h].until,
         \/ new[h].pending = rs[h].pending
         \/ /\ new[h].pending = None
            /\ \A j \in DOMAIN rs : Clash(new, h, j) => Excused(rs, h, j)
  PROVE  Sound(new)
<1>1. Said(new)
  BY DEF Sound, Said
<1>2. Single(new)
  <2>1. \A i \in DOMAIN rs : (Live(new[i]) <=> Live(rs[i]))
    BY DEF Live
  <2>2. \A i, j \in DOMAIN rs : (SameFact(new[i], new[j]) <=> SameFact(rs[i], rs[j]))
    BY DEF SameFact
  <2>. QED
    BY <2>1, <2>2 DEF Sound, Single
<1>3. Waits(new)
  <2>1. \A i \in DOMAIN rs : /\ new[i].key = rs[i].key /\ new[i].status = rs[i].status
                             /\ Pending(new[i]) => new[i].pending = rs[i].pending
    BY DEF Pending
  <2>. QED
    BY <2>1 DEF Sound, Waits, WaitsFor, Pending
<1>4. \A i, j : Excused(rs, i, j) => Excused(new, i, j)
  BY DEF Excused, Closed, Live
<1>5. Settled(new)
  <2> SUFFICES ASSUME NEW i \in DOMAIN rs, NEW j \in DOMAIN rs, Clash(new, i, j)
               PROVE  Excused(rs, i, j)
    BY <1>4 DEF Settled
  <2>1. \A l \in DOMAIN rs : (new[l].pending = rs[l].pending) => (Current(new[l]) <=> Current(rs[l]))
    BY DEF Current, Live, Pending
  <2>2. CASE new[i].pending = rs[i].pending /\ new[j].pending = rs[j].pending
    <3>1. Clash(rs, i, j)
      BY <2>1, <2>2 DEF Clash, IsSlot
    <3>. QED
      BY <3>1 DEF Sound, Settled
  <2>3. CASE new[h].pending # rs[h].pending
    <3>1. CASE i = h
      BY <2>3, <3>1
    <3>2. CASE j = h
      <4>1. Clash(new, h, i)
        BY <3>2 DEF Clash, IsSlot
      <4>. QED
        BY <2>3, <3>2, <4>1, ExcusedEither
    <3>3. CASE i # h /\ j # h
      <4>1. Clash(rs, i, j)
        BY <3>3 DEF Clash
      <4>. QED
        BY <4>1 DEF Sound, Settled
    <3>. QED
      BY <3>1, <3>2, <3>3
  <2>. QED
    BY <2>2, <2>3
<1>. QED
  BY <1>1, <1>2, <1>3, <1>5 DEF Sound

LEMMA WrittenSound ==
  ASSUME NEW rs, IsRows(rs), Sound(rs), NEW s \in Sessions, NEW f, Voices(s, f),
         NEW armed, NEW closed, MayOpen(s, f, rs, armed),
         MayHold(f, rs, armed), MayRelease(f, rs, closed)
  PROVE  Sound(Written(s, f, rs, armed, closed))
<1> DEFINE h == Min(Home(f, rs))
           new == Written(s, f, rs, armed, closed)
<1>1. CASE AlreadyStored(s, f, rs)
  BY <1>1 DEF Written
<1>2. CASE ~AlreadyStored(s, f, rs) /\ Home(f, rs) = {}
  BY <1>2, AppendSound DEF Written
<1>3. CASE ~AlreadyStored(s, f, rs) /\ Home(f, rs) # {}
  <2>1. h \in DOMAIN rs /\ Live(rs[h]) /\ SameFact(rs[h], f)
    BY <1>3, HomeRow
  <2> DEFINE t == Sighted(rs[h], s, f)
             u == [t EXCEPT !.pending = None]
             r == IF Pending(t) /\ Releases(rs, h, closed) THEN u ELSE t
  <2>2. new = [rs EXCEPT ![h] = r]
    BY <1>3 DEF Written
  <2>3. /\ Shape(t) /\ Shape(u)
        /\ t.key = rs[h].key /\ t.value = rs[h].value /\ t.status = rs[h].status
        /\ t.first = rs[h].first /\ t.until = rs[h].until /\ t.pending = rs[h].pending
        /\ u.key = rs[h].key /\ u.value = rs[h].value /\ u.status = rs[h].status
        /\ u.first = rs[h].first /\ u.until = rs[h].until /\ u.pending = None
    BY <2>1, SightedFields DEF IsRows
  <2> HIDE DEF t, u, h, new
  <2>4. /\ Shape(r) /\ r.key = rs[h].key /\ r.value = rs[h].value /\ r.status = rs[h].status
        /\ r.first = rs[h].first /\ r.until = rs[h].until
        /\ \/ r.pending = rs[h].pending
           \/ r.pending = None /\ Pending(rs[h]) /\ Releases(rs, h, closed)
    BY <2>3 DEF Pending
  <2> HIDE DEF r
  <2>5. /\ DOMAIN new = DOMAIN rs /\ new = [i \in DOMAIN new |-> new[i]]
        /\ \A i \in DOMAIN rs : new[i] = IF i = h THEN r ELSE rs[i]
    BY <2>2
  <2>6. IsRows(new)
    <3>1. Len(new) = Len(rs)
      BY <2>5, FunctionIsSeq DEF IsRows
    <3>. QED
      BY <2>4, <2>5, <3>1 DEF IsRows
  <2>7. ASSUME r.pending = None, Pending(rs[h]), Releases(rs, h, closed),
               NEW j \in DOMAIN rs, Clash(new, h, j)
        PROVE  Excused(rs, h, j)
    <3>1. j # h /\ new[j] = rs[j] /\ new[h] = r
      BY <2>1, <2>5, <2>7 DEF Clash
    <3>2. /\ Current(rs[j]) /\ rs[j].key = f.key /\ rs[j].value # f.value
          /\ f.key \notin EdgeKeys /\ Lone(f.key)
      BY <2>1, <2>4, <2>7, <3>1 DEF Clash, SameFact, IsSlot
    <3>3. j \in RivalsOf(f, rs)
      BY <3>2 DEF RivalsOf
    <3>. QED
      BY <2>1, <2>7, <3>2, <3>3 DEF MayRelease
  <2>8. Sound(new)
    BY <2>1, <2>4, <2>5, <2>6, <2>7, SightSound
  <2>. QED
    BY <2>8 DEF new
<1>. QED
  BY <1>1, <1>2, <1>3

\* A row that is released because its conflict is closed has the key for itself,
\* and one whose fact closed the conflict may clash with what that fact kept.
LEMMA ReleaseAlone ==
  ASSUME NEW rs, Sound(rs), NEW f, NEW h \in DOMAIN rs, NEW closed,
         SameFact(rs[h], f), Pending(rs[h]), Releases(rs, h, closed),
         f.key \notin EdgeKeys, Lone(f.key), rs[h].pending[2] \notin closed,
         NEW j \in RivalsOf(f, rs)
  PROVE  FALSE
<1>1. rs[h].key = f.key /\ IsSlot(rs[h])
  BY DEF SameFact, IsSlot
<1>2. rs[rs[h].pending[2]].key = f.key
  BY <1>1 DEF Sound, Waits, WaitsFor
<1>3. ~Occupied(rs, f.key, h)
  BY <1>1, <1>2 DEF Releases
<1>4. j \in DOMAIN rs \ {h} /\ Live(rs[j]) /\ ~Pending(rs[j]) /\ rs[j].key = f.key
  BY DEF RivalsOf, Current, SameFact
<1>. QED
  BY <1>3, <1>4 DEF Occupied

---------------------------------------------------------------------------
(* Applying a fact. *)

LEMMA SimpleKept ==
  ASSUME NEW k, Lone(k), Keeping(k)
  PROVE  /\ \A sw \in Switches : "match" \in sw => {"hold", "consolidate"} \subseteq sw
         /\ \A s \in Sessions : \A f :
              (Voices(s, f) /\ f.key = k /\ f.keeps # {}) => f.replaces = None
         /\ \A s \in Sessions : \A m, n \in DOMAIN Told(s) : \A v, w :
              (Decides(s, m, k, v) /\ Decides(s, n, k, w)) => v = w
<1> DEFINE about(s) == {n \in DOMAIN Told(s) : Told(s)[n].key = k}
<1>1. \E s \in Sessions : \E n \in about(s) : Told(s)[n].keeps # {}
  BY DEF Keeping
<1>2. /\ \A sw \in Switches : "match" \in sw => {"hold", "consolidate"} \subseteq sw
      /\ \A s \in Sessions : \A m, n \in about(s) :
           /\ Told(s)[n].keeps # {} => Told(s)[n].replaces = None
           /\ (Told(s)[m].status = Decided /\ Told(s)[n].status = Decided)
                => Told(s)[m].value = Told(s)[n].value
  BY <1>1 DEF Lone, Simple
<1>3. ASSUME NEW s \in Sessions, NEW f, Voices(s, f), f.key = k, f.keeps # {}
      PROVE  f.replaces = None
  <2>1. PICK n \in DOMAIN Told(s) : /\ SameFact(Told(s)[n], f) /\ Told(s)[n].keeps = f.keeps
                                    /\ Told(s)[n].replaces = f.replaces
    BY <1>3 DEF Voices
  <2>2. n \in about(s)
    BY <1>3, <2>1 DEF SameFact
  <2>. QED
    BY <1>2, <1>3, <2>1, <2>2
<1>4. ASSUME NEW s \in Sessions, NEW m \in DOMAIN Told(s), NEW n \in DOMAIN Told(s), NEW v, NEW w,
             Decides(s, m, k, v), Decides(s, n, k, w)
      PROVE  v = w
  <2>1. m \in about(s) /\ n \in about(s)
    BY <1>4 DEF Decides
  <2>. QED
    BY <1>2, <1>4, <2>1 DEF Decides
<1>. QED
  BY <1>2, <1>3, <1>4

\* What applying the decided fact f does to the rows rs before f is written: `rs1`
\* are left when the named rows, `rs3` when also the rivals are closed; `kept` are
\* the rivals the turn does not let f retire.
Rivalry(s, f, rs, rs1, rs3, named, kept, gone1) ==
  /\ Closes(rs, rs1) /\ Closes(rs1, rs3)
  /\ kept # {} => "match" \in on[s] /\ f.keeps # {}
  /\ \A c \in gone1 : c \in DOMAIN rs /\ ~Live(rs3[c])
  /\ (f.key \notin EdgeKeys /\ Lone(f.key)) =>
       /\ named = {} => rs1 = rs /\ gone1 \subseteq RivalsOf(f, rs1) \ kept
       /\ kept \subseteq RivalsOf(f, rs1)
       /\ \A j \in RivalsOf(f, rs3) : OpenedIn(s, rs3[j]) \/ j \in kept

LEMMA RivalryReleases ==
  ASSUME NEW rs, IsRows(rs), Sound(rs), NEW s \in Sessions, NEW f, Voices(s, f),
         f.status = Decided, NEW rs1, NEW rs3, NEW named, NEW kept, NEW all,
         Rivalry(s, f, rs, rs1, rs3, named, kept, all), f.replaces = None => named = {}
  PROVE  MayRelease(f, rs3, all)
<1>0. /\ IsRows(rs1) /\ IsRows(rs3) /\ Sound(rs1) /\ Sound(rs3)
      /\ DOMAIN rs1 = DOMAIN rs /\ DOMAIN rs3 = DOMAIN rs
  BY ClosesSound DEF Rivalry, Closes, Relabels, IsRows
<1> SUFFICES ASSUME NEW h \in DOMAIN rs3,
                    SameFact(rs3[h], f), Live(rs3[h]), Pending(rs3[h]), Releases(rs3, h, all),
                    f.key \notin EdgeKeys, Lone(f.key), NEW j \in RivalsOf(f, rs3)
             PROVE  Excused(rs3, h, j)
  BY DEF MayRelease
<1> DEFINE c == rs3[h].pending[2]
<1>1. c \in all
  BY <1>0, ReleaseAlone
<1>2. Keeping(f.key)
  BY <1>0 DEF Sound, Waits, WaitsFor, SameFact
<1>3. PICK n \in DOMAIN Told(s) : Decides(s, n, f.key, f.value)
  BY DEF Voices, Decides, SameFact
<1>4. j \in DOMAIN rs3 /\ Current(rs3[j]) /\ rs3[j].key = f.key /\ rs3[j].value # f.value
  BY DEF RivalsOf
<1>5. ASSUME OpenedIn(s, rs3[j]) PROVE FALSE
  <2>1. PICK m \in DOMAIN Told(s) : Decides(s, m, f.key, rs3[j].value)
    BY <1>0, <1>4, <1>5 DEF Sound, Said, OpenedIn, Current
  <2>. QED
    BY <1>2, <1>3, <1>4, <2>1, SimpleKept
<1>6. j \in kept
  BY <1>5 DEF Rivalry
<1>7. f.replaces = None
  BY <1>2, <1>6, SimpleKept DEF Rivalry
<1>8. c \in RivalsOf(f, rs1) \ kept /\ j \in RivalsOf(f, rs1) /\ c # j
  BY <1>1, <1>6, <1>7 DEF Rivalry
<1>9. /\ c \in DOMAIN rs1 /\ Current(rs1[c]) /\ rs1[c].key = f.key
      /\ j \in DOMAIN rs1 /\ Current(rs1[j]) /\ rs1[j].key = f.key
  BY <1>8 DEF RivalsOf
<1>10. rs1[c].value # rs1[j].value
  BY <1>0, <1>8, <1>9 DEF Sound, Single, Current, SameFact
<1>11. rs1[c].first[1] # rs1[j].first[1]
  <2> SUFFICES ASSUME rs1[c].first[1] = rs1[j].first[1] PROVE FALSE
    OBVIOUS
  <2> DEFINE t == rs1[c].first[1]
  <2>1. PICK m \in DOMAIN Told(t) : Decides(t, m, f.key, rs1[c].value)
    BY <1>0, <1>9 DEF Sound, Said, Current
  <2>2. PICK l \in DOMAIN Told(t) : Decides(t, l, f.key, rs1[j].value)
    BY <1>0, <1>9 DEF Sound, Said, Current
  <2>3. t \in Sessions
    BY <1>0, <1>9 DEF Sound, Said
  <2>. QED
    BY <1>2, <1>10, <2>1, <2>2, <2>3, SimpleKept
<1>12. Clash(rs1, c, j)
  BY <1>9, <1>10, <1>11 DEF Clash, IsSlot
<1>13. Excused(rs1, c, j)
  BY <1>0, <1>9, <1>12 DEF Sound, Settled
<1>14. Excused(rs3, c, j)
  BY <1>0, <1>13, ClosesExcused DEF Rivalry
<1>15. Closed(rs3, c)
  BY <1>0, <1>1, <1>9 DEF Rivalry, Closed
<1>. QED
  BY <1>14, <1>15 DEF Excused

\* The rivals of f that its turn does not keep are closed, in the order of the
\* code: the named rows, the rivals, the rows f promotes.
LEMMA DecidedSound ==
  ASSUME NEW rs \in Seq(Row), IsRows(rs), Sound(rs), NEW s \in Sessions,
         NEW f, Voices(s, f), f.status = Decided, Dated(s), on[s] \in Switches \cup {{}}
  PROVE  Sound(DecidedApplied(s, f, rs))
<1> DEFINE Closing(S) == IF Dated(s) THEN S ELSE {}
           named == IF f.listed THEN {} ELSE NamedBy(s, f, rs)
           kept1 == {i \in named : Kept(s, f, rs[i])}
           rs1   == StampRows(rs, Closing(named \ kept1), s, "replaced")
           rival == IF f.listed THEN {} ELSE SupersededBy(s, f, rs1)
           kept2 == {i \in rival : Kept(s, f, rs1[i])}
           rs2   == StampRows(rs1, Closing(rival \ kept2), s, Ending(f))
           rs3   == StampRows(rs2, Closing(PromotedBy(s, f, rs2)), s, "promoted")
           first == IF kept1 # {} THEN kept1 ELSE kept2
           armed == IF HoldOn(s) THEN {i \in first : Dated(s) \/ ~IsSlot(rs[i])} ELSE {}
           all   == Closing((named \ kept1) \cup (rival \ kept2))
           bars  == f.listed /\ f.key \notin EdgeKeys /\ RivalsOf(f, rs) # {}
<1>1. DecidedApplied(s, f, rs) = IF bars THEN rs ELSE Written(s, f, rs3, armed, all)
  BY DEF DecidedApplied
<1>2. CASE bars
  BY <1>1, <1>2
<1>3. CASE ~bars
  <2>0. {"replaced", "promoted", Ending(f)} \subseteq Reason
    BY DEF Reason, Ending
  <2>1. /\ Closes(rs, rs1) /\ IsRows(rs1) /\ DOMAIN rs1 = DOMAIN rs
        /\ \A i \in DOMAIN rs : i \in named \ kept1 => ~Live(rs1[i])
        /\ named = {} => rs1 = rs
    <3> DEFINE S == Closing(named \ kept1)
    <3>0. rs1 = StampRows(rs, S, s, "replaced")
      OBVIOUS
    <3> HIDE DEF rs1, S
    <3>1. /\ Closes(rs, rs1)
          /\ \A i \in DOMAIN rs : (i \in S => ~Live(rs1[i])) /\ (i \notin S => rs1[i] = rs[i])
      <4>1. "replaced" \in Reason
        BY <2>0
      <4>2. Closes(rs, rs1)
        BY <3>0, <4>1, StampCloses
      <4>3. \A i \in DOMAIN rs : (i \in S => ~Live(rs1[i])) /\ (i \notin S => rs1[i] = rs[i])
        BY <3>0, <4>1, StampCloses
      <4>. QED
        BY <4>2, <4>3
    <3>2. IsRows(rs1) /\ DOMAIN rs1 = DOMAIN rs
      BY <3>1 DEF Closes, Relabels, IsRows
    <3>3. named = {} => rs1 = rs
      BY <3>1, <3>2 DEF IsRows, S
    <3>. QED
      BY <3>1, <3>2, <3>3 DEF S
  <2>2. /\ kept2 \subseteq rival /\ rival \subseteq {i \in DOMAIN rs1 : rs1[i].key = f.key}
        /\ f.key \notin EdgeKeys => rival \subseteq RivalsOf(f, rs1)
    BY DEF SupersededBy, RivalsOf
  <2>3. (f.replaces = None => named = {}) /\ named \subseteq DOMAIN rs
    <3>1. \A i \in DOMAIN rs : rs[i].value # None
      <4>1. \A i \in DOMAIN rs : rs[i] \in Row
        BY RowsType
      <4>2. \A r \in Row : r.value \in Values
        BY DEF Row
      <4>. QED
        BY <4>1, <4>2, ConstantsOK
    <3>. QED
      BY <3>1 DEF NamedBy
  <2>4. (kept1 # {} \/ kept2 # {}) => "match" \in on[s] /\ f.keeps # {}
    BY DEF Kept
  <2>5. rival = IF f.listed THEN {} ELSE SupersededBy(s, f, rs1)
    OBVIOUS
  <2>6. \A i \in rival : i \notin kept2 => ~Kept(s, f, rs1[i])
    OBVIOUS
  <2> HIDE DEF rs1, rival, named, kept1, kept2
  <2>7. /\ Closes(rs1, rs2) /\ IsRows(rs2) /\ DOMAIN rs2 = DOMAIN rs
        /\ \A i \in DOMAIN rs : i \in rival \ kept2 => ~Live(rs2[i])
    <3>1. /\ Closes(rs1, rs2)
          /\ \A i \in DOMAIN rs : i \in Closing(rival \ kept2) => ~Live(rs2[i])
      BY <2>0, <2>1, StampCloses
    <3> HIDE DEF rs2
    <3>. QED
      BY <2>1, <3>1 DEF Closes, Relabels, IsRows
  <2> HIDE DEF rs2
  <2>8. Closes(rs2, rs3) /\ IsRows(rs3) /\ DOMAIN rs3 = DOMAIN rs
    <3>1. Closes(rs2, rs3)
      BY <2>0, <2>7, StampCloses
    <3> HIDE DEF rs3
    <3>. QED
      BY <2>7, <3>1 DEF Closes, Relabels, IsRows
  <2> HIDE DEF rs3
  <2>9. Closes(rs1, rs3) /\ Closes(rs, rs3)
    BY <2>1, <2>7, <2>8, ClosesOn
  <2>10. ASSUME f.key \notin EdgeKeys, Lone(f.key), NEW j \in RivalsOf(f, rs3)
         PROVE  OpenedIn(s, rs3[j]) \/ j \in kept2
    <3>1. j \in DOMAIN rs /\ Live(rs3[j]) /\ Current(rs3[j])
      BY <2>8, <2>10 DEF RivalsOf, Current
    <3>2. Live(rs2[j])
      BY <2>7, <2>8, <3>1 DEF Closes, Relabels, IsRows
    <3>3. j \in RivalsOf(f, rs1) /\ rs3[j].first = rs1[j].first
      BY <2>1, <2>9, <2>10, <3>1
      DEF RivalsOf, Current, Live, Pending, Closes, Relabels, SameRow, IsRows
    <3>4. ~f.listed
      <4>1. j \in RivalsOf(f, rs)
        BY <2>1, <2>9, <2>10, <3>1
        DEF RivalsOf, Current, Live, Pending, Closes, Relabels, SameRow, IsRows
      <4>. QED
        BY <1>3, <2>10, <4>1
    <3>5. CASE Protected(s, f, rs1[j])
      BY <3>3, <3>5 DEF Protected, OpenedIn
    <3>6. CASE ~Protected(s, f, rs1[j])
      <4>1. ~Stale(f, rs1) /\ ~PassedOver(f, rs1[j])
        BY <2>10 DEF Voices, Stale, PassedOver
      <4>2. j \in rival
        BY <2>5, <2>10, <3>3, <3>4, <3>6, <4>1 DEF SupersededBy
      <4>. QED
        BY <2>7, <3>1, <3>2, <4>2
    <3>. QED
      BY <3>5, <3>6
  <2>11. \A c \in all : c \in DOMAIN rs /\ ~Live(rs3[c])
    <3>1. \A c \in all : c \in DOMAIN rs
      BY <2>1, <2>2, <2>3
    <3>2. \A c \in all : ~Live(rs1[c]) \/ ~Live(rs2[c])
      BY <2>1, <2>7, <3>1
    <3>. QED
      BY <2>1, <2>7, <2>8, <3>1, <3>2 DEF Closes, IsRows
  <2>12. Rivalry(s, f, rs, rs1, rs3, named, kept2, all)
    BY <2>1, <2>2, <2>4, <2>9, <2>10, <2>11 DEF Rivalry
  <2>13. MayRelease(f, rs3, all)
    BY <2>3, <2>12, RivalryReleases
  <2>14. Lone(f.key) /\ (kept1 # {} \/ kept2 # {}) => HoldOn(s) /\ kept1 = {}
    <3> SUFFICES ASSUME Lone(f.key), kept1 # {} \/ kept2 # {} PROVE HoldOn(s) /\ kept1 = {}
      OBVIOUS
    <3>1. Keeping(f.key)
      BY <2>4 DEF Keeping, Voices, SameFact
    <3>2. f.replaces = None /\ {"hold", "consolidate"} \subseteq on[s]
      BY <2>4, <3>1, SimpleKept
    <3>. QED
      BY <2>3, <3>2 DEF HoldOn, kept1
  <2>15. MayOpen(s, f, rs3, armed)
    BY <2>10, <2>14 DEF MayOpen
  <2>16. MayHold(f, rs3, armed)
    <3>1. armed \subseteq kept1 \cup kept2 /\ (kept1 = {} => armed \subseteq kept2)
      OBVIOUS
    <3>2. kept1 \cup kept2 \subseteq DOMAIN rs
      BY <2>1, <2>2, <2>3 DEF kept1
    <3>3. \A c \in kept2 : rs3[c].key = f.key
      BY <2>1, <2>2, <2>9 DEF Closes, Relabels, SameRow
    <3>4. (armed # {} /\ Lone(f.key)) => Keeping(f.key)
      BY <2>4, <3>1 DEF Keeping, Voices, SameFact
    <3>. QED
      BY <2>8, <2>14, <3>1, <3>2, <3>3, <3>4 DEF MayHold
  <2>17. Sound(rs3)
    BY <2>9, ClosesSound
  <2> HIDE DEF armed, all
  <2>18. Sound(Written(s, f, rs3, armed, all))
    BY <2>8, <2>13, <2>15, <2>16, <2>17, WrittenSound
  <2>. QED
    BY <1>1, <1>3, <2>18
<1>. QED
  BY <1>2, <1>3

LEMMA PlainSound ==
  ASSUME NEW rs, IsRows(rs), Sound(rs), NEW s \in Sessions, NEW f, Voices(s, f),
         f.status # Decided
  PROVE  Sound(Written(s, f, rs, {}, {}))
<1>1. MayRelease(f, rs, {})
  BY DEF MayRelease, Sound, Waits, SameFact
<1>2. MayOpen(s, f, rs, {}) /\ MayHold(f, rs, {})
  BY DEF MayOpen, MayHold
<1>. QED
  BY <1>1, <1>2, WrittenSound

\* Whatever a dated session says, applying it leaves the rows of a key sound.
LEMMA AppliedSound ==
  ASSUME NEW rs \in Seq(Row), IsRows(rs), Sound(rs), NEW s \in Sessions,
         NEW f, Voices(s, f), Dated(s), on[s] \in Switches \cup {{}}
  PROVE  Sound(Applied(s, f, rs))
<1>0. Rejected # Decided /\ Considered # Decided
  BY DEF Rejected, Decided, Considered
<1>1. CASE f.status = Rejected
  <2> DEFINE S == RejectedBy(s, f, rs)
             rs1 == StampRows(rs, S, s, "rejected")
  <2>1. "rejected" \in Reason
    BY DEF Reason
  <2>2. rs1 = StampRows(rs, S, s, "rejected")
    OBVIOUS
  <2> HIDE DEF rs1, S
  <2>3. Closes(rs, rs1)
    BY <2>1, <2>2, StampCloses
  <2>4. IsRows(rs1) /\ Sound(rs1)
    BY <2>3, ClosesSound DEF Closes, Relabels
  <2>5. Sound(Written(s, f, rs1, {}, {}))
    BY <1>0, <1>1, <2>4, PlainSound
  <2>6. Applied(s, f, rs) = Written(s, f, rs1, {}, {})
    BY <1>0, <1>1 DEF Applied, RejectedApplied, rs1, S
  <2>. QED
    BY <2>5, <2>6
<1>2. CASE f.status = Decided
  BY <1>0, <1>2, DecidedSound DEF Applied
<1>3. CASE f.status # Rejected /\ f.status # Decided
  <2>1. Applied(s, f, rs) = Written(s, f, rs, {}, {})
    BY <1>3 DEF Applied
  <2>. QED
    BY <1>3, <2>1, PlainSound
<1>. QED
  BY <1>1, <1>2, <1>3

---------------------------------------------------------------------------
(* The pair in hand: where its hold may be cleared and its old row not closed. *)

\* Pairs to settle are whole; the one in hand is taken apart at these places only.
PlainHolds(s) == \A h \in holds[s] \cup open[s] : h.taken = None /\ ~h.already
PairPlace(s) ==
  /\ Mid(s) => pc[s] \in {"stamping", "restoring", "recovering", "closing", "writing back"}
  /\ pc[s] \in {"stamping", "restoring", "recovering"} => Mid(s)
  /\ pc[s] \in {"closing", "writing back"} => (Mid(s) <=> New(s) # 0)
PairsInv == \A s \in Sessions : PlainHolds(s) /\ PairPlace(s)

LEMMA NoPairTaken == NoPair.taken = None /\ ~NoPair.already /\ NoPair.new = 0
BY DEF NoPair

LEMMA NextPairEnds ==
  ASSUME TInv, NEW s \in Sessions, NextPair(s)
  PROVE  /\ pair'[s].taken = None /\ pc'[s] \in {"judging", "settling"}
         /\ PairPlace(s)'
<1>1. pair'[s].taken = None /\ pc'[s] \in {"judging", "settling"}
  BY NoPairTaken DEF TInv, RunTypes, RowTypes, NextPair, Goto, Put
<1>. QED
  BY <1>1 DEF PairPlace, Mid

LEMMA KeepPairKeeps ==
  ASSUME TInv, NEW s \in Sessions, NEW p, KeepPair(s, p)
  PROVE  pair' = pair /\ pc'[s] = p
BY DEF TInv, RunTypes, KeepPair, Goto, Put

LEMMA ForgetEnds ==
  ASSUME TInv, NEW s \in Sessions, Forget(s), pc'[s] \in {"waiting", "done"}
  PROVE  pair'[s].taken = None /\ PlainHolds(s)' /\ PairPlace(s)'
<1>1. pair'[s] = NoPair /\ holds'[s] = {} /\ open'[s] = {}
  BY DEF TInv, RunTypes, RowTypes, Forget, Put
<1>. QED
  BY <1>1, NoPairTaken DEF PlainHolds, PairPlace, Mid

\* A row gets a hold, or loses it.
Rehold(old, i, by) == [old EXCEPT ![i] = [old[i] EXCEPT !.pending = by]]

\* What a step of session s does that leaves no hold torn.
Idles(s) ==
  /\ UNCHANGED rows /\ ~Mid(s) /\ pair'[s].taken = None /\ pc'[s] # "writing"
  /\ (pc'[s] = "taking" /\ pair'[s].already) => Closed(rows, pair'[s].old)
Fails(s) == UNCHANGED rows /\ pair'[s] = pair[s] /\ pc'[s] \notin {"writing", "taking"}
ClosesOne(s) ==
  /\ Closes(rows, rows') /\ pair'[s].taken = None /\ pc'[s] \notin {"writing", "taking"}
  /\ \E i \in DOMAIN rows : /\ Live(rows[i]) /\ ~Live(rows'[i])
                            /\ Mid(s) => i \in {pair[s].new, pair[s].old}
Reholds(s) ==
  /\ Mid(s) /\ Restorable(s) /\ pair'[s].taken = None /\ pc'[s] \notin {"writing", "taking"}
  /\ rows' = Rehold(rows, New(s), pair[s].taken)
Takes(s) ==
  /\ pc[s] = "taking" /\ pc'[s] \notin {"writing", "taking"}
  /\ NewIsHeld(s) /\ ~Crowded(s)
  /\ rows' = Rehold(rows, New(s), None)
  /\ \/ pair[s].already /\ pair'[s].taken = None
     \/ pair'[s] = [pair[s] EXCEPT !.taken = rows[New(s)].pending]
Kind(s) == Idles(s) \/ Fails(s) \/ ClosesOne(s) \/ Reholds(s) \/ Takes(s)

LEMMA CloseKind ==
  ASSUME RowsInv, NEW s \in Sessions, NEW i \in DOMAIN rows, Live(rows[i]), NEW why \in Reason,
         Close(s, i, why)
  PROVE  Closes(rows, rows') /\ ~Live(rows'[i])
<1> DEFINE r == [rows[i] EXCEPT !.until = <<s, why>>]
<1>1. rows' = [rows EXCEPT ![i] = r]
  BY DEF Close, EditRow, Store
<1>2. Shape(rows[i]) /\ IsRows(rows)
  BY DEF RowsInv, IsRows
<1>3. <<s, why>> # None
  BY ClosedBySomebody
<1>4. r.pending = rows[i].pending /\ ~Live(r)
  BY <1>2, <1>3 DEF Shape, Live
<1>5. Relabels(rows, rows')
  BY CloseQuiet DEF Quiet
<1> HIDE DEF r
<1>6. \A j \in DOMAIN rows : rows'[j] = IF j = i THEN r ELSE rows[j]
  BY <1>1
<1>. QED
  BY <1>4, <1>5, <1>6 DEF Closes

LEMMA WriterKind ==
  ASSUME TInv, PairsInv, NEW s \in Sessions,
         \/ \E read \in SUBSET DOMAIN Told(s), known \in {rows, <<>>}, sw \in Switches :
              Begin(s, read, known, sw)
         \/ Conflict(s) \/ ConflictAgain(s)
  PROVE  Idles(s) /\ PlainHolds(s)' /\ PairPlace(s)'
<1>0. RunTypes /\ RowTypes /\ PlainHolds(s) /\ PairPlace(s)
  BY DEF TInv, PairsInv
<1>1. ASSUME NEW read \in SUBSET DOMAIN Told(s), NEW known \in {rows, <<>>}, NEW sw \in Switches,
             Begin(s, read, known, sw)
      PROVE  Idles(s) /\ PlainHolds(s)' /\ PairPlace(s)'
  <2>1. /\ UNCHANGED <<rows, pair, holds, open>> /\ pc[s] = "waiting"
        /\ pc'[s] \in {"written", "begin"}
    BY <1>0, <1>1 DEF Begin, At, Goto, Put, RunTypes, pass
  <2>. QED
    BY <1>0, <2>1 DEF Idles, PlainHolds, PairPlace, Mid
<1>2. ASSUME Conflict(s) PROVE Idles(s) /\ PlainHolds(s)' /\ PairPlace(s)'
  <2>1. UNCHANGED <<rows, pair, holds, open>> /\ pc[s] = "writing" /\ pc'[s] = "begin"
    BY <1>0, <1>2 DEF Conflict, At, Goto, Put, RunTypes, pass
  <2>. QED
    BY <1>0, <2>1 DEF Idles, PlainHolds, PairPlace, Mid
<1>3. ASSUME ConflictAgain(s) PROVE Idles(s) /\ PlainHolds(s)' /\ PairPlace(s)'
  <2>1. UNCHANGED rows /\ pc[s] = "writing" /\ pc'[s] = "waiting" /\ Forget(s)
    BY <1>0, <1>3 DEF ConflictAgain, At, Goto, Put, RunTypes
  <2>2. pair'[s].taken = None /\ PlainHolds(s)' /\ PairPlace(s)'
    BY <2>1, ForgetEnds
  <2>. QED
    BY <1>0, <2>1, <2>2 DEF Idles, PairPlace, Mid
<1>. QED
  BY <1>1, <1>2, <1>3

LEMMA SettleKind ==
  ASSUME TInv, PairsInv, NEW s \in Sessions, Settle(s)
  PROVE  Idles(s) /\ PlainHolds(s)' /\ PairPlace(s)'
<1>0. RunTypes /\ RowTypes /\ PlainHolds(s) /\ PairPlace(s)
  BY DEF TInv, PairsInv
<1> DEFINE place == IF "consolidate" \in on[s] /\ (part[s] # {} \/ HoldOn(s))
                    THEN "settling" ELSE "finished"
           H == {Hold(i) : i \in {j \in Held :
                   rows[j].pending[1] # s /\ rows[j].pending[2] \in DOMAIN rows}}
<1>1. place \in {"settling", "finished"} /\ Goto(s, place)
  BY DEF Settle
<1> HIDE DEF place
<1>2. pc'[s] \in {"settling", "finished"}
  BY <1>0, <1>1 DEF Goto, Put, RunTypes
<1>3. UNCHANGED <<rows, pair, open>> /\ pc[s] = "written"
  BY DEF Settle, pass, At
<1>4. \A h \in H : h.taken = None /\ ~h.already
  BY DEF Hold, NoPair
<1>5. holds' = Put(holds, s, H) \/ UNCHANGED holds
  BY DEF Settle
<1> HIDE DEF H
<1>6. holds'[s] = H \/ holds'[s] = holds[s]
  BY <1>0, <1>5 DEF RunTypes, Put
<1>. QED
  BY <1>0, <1>2, <1>3, <1>4, <1>6 DEF Idles, PlainHolds, PairPlace, Mid

LEMMA ConsiderKind ==
  ASSUME TInv, PairsInv, NEW s \in Sessions, Consider(s)
  PROVE  Idles(s) /\ PlainHolds(s)' /\ PairPlace(s)'
<1>0. RunTypes /\ RowTypes /\ PlainHolds(s) /\ PairPlace(s)
  BY DEF TInv, PairsInv
<1> DEFINE h == CHOOSE x \in holds[s] : \A y \in holds[s] : x.new <= y.new
           already == Has(h.old, h.oldValue) /\ ~Live(rows[h.old])
<1>1. h \in holds[s] /\ h \in PairType
  BY <1>0, FirstHold DEF Consider, RunTypes, HoldType
<1>2. PICK place \in {"settling", "dropping", "taking"} :
        /\ Goto(s, place)
        /\ \/ pair' = Put(pair, s, [h EXCEPT !.already = already])
           \/ pair' = Put(pair, s, NoPair)
        /\ holds' = Put(holds, s, holds[s] \ {h})
        /\ open' = open \/ open' = Put(open, s, open[s] \cup {h})
        /\ UNCHANGED rows /\ pc[s] = "settling"
  BY DEF Consider, At
<1> HIDE DEF h, already
<1>3. /\ pc'[s] = place /\ holds'[s] = holds[s] \ {h}
      /\ open'[s] = open[s] \/ open'[s] = open[s] \cup {h}
  BY <1>0, <1>2 DEF Goto, Put, RunTypes
<1>4. PlainHolds(s)'
  BY <1>0, <1>1, <1>3 DEF PlainHolds
<1>5. pair'[s] = [h EXCEPT !.already = already] \/ pair'[s] = NoPair
  BY <1>0, <1>2 DEF Put, RowTypes
<1>6. h.taken = None
  BY <1>0, <1>1 DEF PlainHolds
<1>7. pair'[s].taken = None /\ (pair'[s].already => Closed(rows, pair'[s].old))
  <2>1. CASE pair'[s] = NoPair
    BY <2>1, NoPairTaken
  <2>2. CASE pair'[s] = [h EXCEPT !.already = already]
    <3>1. /\ pair'[s].taken = None /\ pair'[s].already = already /\ pair'[s].old = h.old
      BY <1>1, <1>6, <2>2 DEF PairType
    <3>. QED
      BY <3>1 DEF already, Has, Closed
  <2>. QED
    BY <1>5, <2>1, <2>2
<1>8. ~Mid(s) /\ ~Mid(s)'
  BY <1>0, <1>2, <1>7 DEF PairPlace, Mid
<1>. QED
  BY <1>2, <1>3, <1>4, <1>7, <1>8 DEF Idles, PairPlace

LEMMA RunKind ==
  ASSUME TInv, PairsInv, NEW s \in Sessions, ~torn',
         Load(s) \/ JudgeDone(s) \/ Mark(s) \/ Kill(s)
  PROVE  Idles(s) /\ PlainHolds(s)' /\ PairPlace(s)'
<1>0. RunTypes /\ RowTypes /\ PlainHolds(s) /\ PairPlace(s)
  BY DEF TInv, PairsInv
<1>1. CASE Load(s) \/ JudgeDone(s)
  <2>1. /\ UNCHANGED <<rows, pair, holds, open>> /\ pc[s] \in {"settling", "judging"}
        /\ pc'[s] \in {"judging", "finished"}
    BY <1>0, <1>1 DEF Load, JudgeDone, At, Goto, Put, RunTypes, settleRest, pass
  <2>. QED
    BY <1>0, <2>1 DEF Idles, PlainHolds, PairPlace, Mid
<1>2. CASE Mark(s)
  <2>1. UNCHANGED rows /\ pc[s] = "finished" /\ pc'[s] \in {"waiting", "done"} /\ Forget(s)
    BY <1>0, <1>2 DEF Mark, At, Goto, Put, RunTypes
  <2>2. pair'[s].taken = None /\ PlainHolds(s)' /\ PairPlace(s)'
    BY <2>1, ForgetEnds
  <2>. QED
    BY <1>0, <2>1, <2>2 DEF Idles, PairPlace, Mid
<1>3. CASE Kill(s)
  <2>1. UNCHANGED rows /\ ~Mid(s) /\ pc'[s] = "waiting" /\ Forget(s)
    BY <1>0, <1>3 DEF Kill, Mid, Goto, Put, RunTypes
  <2>2. pair'[s].taken = None /\ PlainHolds(s)' /\ PairPlace(s)'
    BY <2>1, ForgetEnds
  <2>. QED
    BY <1>0, <2>1, <2>2 DEF Idles
<1>. QED
  BY <1>1, <1>2, <1>3

LEMMA JudgeKind ==
  ASSUME TInv, PairsInv, NEW s \in Sessions,
         \/ \E i \in part[s], j \in loaded[s].all :
              JudgeSupersedes(s, i, j) \/ JudgeDuplicate(s, i, j)
         \/ \E h \in open[s] : JudgeConfirms(s, h)
  PROVE  Idles(s) /\ PlainHolds(s)' /\ PairPlace(s)'
<1>0. RunTypes /\ RowTypes /\ PlainHolds(s) /\ PairPlace(s)
  BY DEF TInv, PairsInv
<1>1. ASSUME NEW i, NEW j, NEW why, Answer(s, i, j, why), At(s, "judging")
      PROVE  Idles(s) /\ PlainHolds(s)' /\ PairPlace(s)'
  <2>1. /\ UNCHANGED <<rows, holds, open>> /\ pc[s] = "judging" /\ pc'[s] = "closing"
        /\ pair'[s] = [NoPair EXCEPT !.old = j, !.oldValue = Read(s, j).value,
                                     !.judged = TRUE, !.why = why]
    BY <1>0, <1>1 DEF Answer, At, Goto, Put, RunTypes, RowTypes
  <2>2. pair'[s].taken = None /\ pair'[s].new = 0
    BY <2>1 DEF NoPair
  <2>. QED
    BY <1>0, <2>1, <2>2 DEF Idles, PlainHolds, PairPlace, Mid, New
<1>2. ASSUME NEW h \in open[s], JudgeConfirms(s, h)
      PROVE  Idles(s) /\ PlainHolds(s)' /\ PairPlace(s)'
  <2>1. PICK n, o : pair' = Put(pair, s, [h EXCEPT !.new = n, !.old = o, !.judged = TRUE,
                                                   !.why = "consolidated"])
    BY <1>2 DEF JudgeConfirms
  <2>2. /\ UNCHANGED <<rows, holds>> /\ pc[s] = "judging" /\ pc'[s] = "taking"
        /\ open'[s] = open[s] \ {h}
    BY <1>0, <1>2 DEF JudgeConfirms, At, Goto, Put, RunTypes
  <2>3. pair'[s].taken = None /\ ~pair'[s].already
    <3>1. h \in PairType /\ h.taken = None /\ ~h.already
      BY <1>0 DEF RunTypes, HoldType, PlainHolds
    <3>2. pair'[s] = [h EXCEPT !.new = n, !.old = o, !.judged = TRUE, !.why = "consolidated"]
      BY <1>0, <2>1 DEF RowTypes, Put
    <3>. QED
      BY <3>1, <3>2 DEF PairType
  <2>. QED
    BY <1>0, <2>2, <2>3 DEF Idles, PlainHolds, PairPlace, Mid
<1>. QED
  BY <1>1, <1>2 DEF JudgeSupersedes, JudgeDuplicate, MayAnswer

\* A row is closed and the pair in hand is finished with, or was not taken apart.
LEMMA ClosesOneBy ==
  ASSUME TInv, RowsInv, NEW s \in Sessions, NEW i \in DOMAIN rows, Live(rows[i]),
         NEW why \in Reason, Close(s, i, why), NextPair(s),
         Mid(s) => i \in {pair[s].new, pair[s].old}
  PROVE  ClosesOne(s) /\ PairPlace(s)'
BY NextPairEnds, CloseKind DEF ClosesOne

LEMMA FailsBy ==
  ASSUME TInv, NEW s \in Sessions, PairPlace(s), KeepRows,
         NEW p \in {"restoring", "recovering"}, KeepPair(s, p), Mid(s)
  PROVE  Fails(s) /\ PairPlace(s)'
<1>1. pair' = pair /\ pc'[s] = p
  BY KeepPairKeeps
<1>. QED
  BY <1>1 DEF Fails, KeepRows, PairPlace, Mid

LEMMA IdlesBy ==
  ASSUME TInv, NEW s \in Sessions, ~Mid(s), KeepRows, NextPair(s)
  PROVE  Idles(s) /\ PairPlace(s)'
BY NextPairEnds DEF Idles, KeepRows

LEMMA DropKind ==
  ASSUME TInv, RowsInv, NEW s \in Sessions, PairPlace(s), DropHeld(s)
  PROVE  Kind(s) /\ PairPlace(s)'
<1>1. ~Mid(s) /\ NextPair(s)
  BY DEF DropHeld, At, PairPlace
<1>2. CASE NewIsLive(s) /\ Close(s, New(s), "hold_dropped")
  BY <1>1, <1>2, ClosesOneBy DEF NewIsLive, Has, Kind, Reason
<1>3. CASE KeepRows
  BY <1>1, <1>3, IdlesBy DEF Kind
<1>. QED
  BY <1>2, <1>3 DEF DropHeld

LEMMA TakeKind ==
  ASSUME TInv, RowsInv, NEW s \in Sessions, PairPlace(s), ~torn', TakePending(s)
  PROVE  Kind(s) /\ PairPlace(s)'
<1>0. ~Mid(s) /\ At(s, "taking") /\ RunTypes /\ RowTypes
  BY DEF TInv, TakePending, At, PairPlace
<1>1. CASE KeepRows /\ NextPair(s)
  BY <1>0, <1>1, IdlesBy DEF Kind
<1>2. CASE /\ NewIsHeld(s) /\ torn' = (torn \/ Crowded(s))
           /\ EditRow(s, New(s), [rows[New(s)] EXCEPT !.pending = None])
           /\ IF pair[s].already THEN NextPair(s)
              ELSE /\ pair' = Put(pair, s, [pair[s] EXCEPT !.taken = rows[New(s)].pending])
                   /\ Goto(s, IF pair[s].judged THEN "closing" ELSE "stamping")
  <2>1. /\ NewIsHeld(s) /\ ~Crowded(s) /\ pc[s] = "taking"
        /\ rows' = Rehold(rows, New(s), None)
    BY <1>0, <1>2 DEF EditRow, Store, At, Rehold
  <2>2. CASE pair[s].already
    <3>1. pair'[s].taken = None /\ pc'[s] \notin {"writing", "taking"} /\ PairPlace(s)'
      BY <1>2, <2>2, NextPairEnds
    <3>. QED
      BY <2>1, <2>2, <3>1 DEF Takes, Kind
  <2>3. CASE ~pair[s].already
    <3>1. pair'[s] = [pair[s] EXCEPT !.taken = rows[New(s)].pending]
      BY <1>0, <1>2, <2>3 DEF Put, RowTypes
    <3>2. pc'[s] \in {"closing", "stamping"}
      BY <1>0, <1>2, <2>3 DEF Goto, Put, RunTypes
    <3>3. pair'[s].taken # None /\ pair'[s].new # 0
      <4>1. pair[s] \in PairType /\ DOMAIN rows \subseteq Nat \ {0}
        BY <1>0, RowsType DEF RowTypes
      <4>. QED
        BY <2>1, <3>1, <4>1 DEF NewIsHeld, New, Pending, PairType
    <3>4. PairPlace(s)'
      BY <3>2, <3>3 DEF PairPlace, Mid, New
    <3>. QED
      BY <2>1, <3>1, <3>2, <3>4 DEF Takes, Kind
  <2>. QED
    BY <2>2, <2>3
<1>. QED
  BY <1>1, <1>2 DEF TakePending

LEMMA ReholdsBy ==
  ASSUME TInv, NEW s \in Sessions, Mid(s), Restorable(s), Restore(s), NextPair(s)
  PROVE  Reholds(s) /\ PairPlace(s)'
BY NextPairEnds DEF Reholds, Restore, EditRow, Store, Rehold

LEMMA StampKind ==
  ASSUME TInv, RowsInv, NEW s \in Sessions, PairPlace(s), ~torn',
         StampOld(s) \/ RestorePending(s) \/ RecoverPending(s)
  PROVE  Kind(s) /\ PairPlace(s)'
<1>0. {"superseded", "hold_dropped"} \subseteq Reason
  BY DEF Reason
<1>1. Mid(s)
  BY DEF StampOld, RestorePending, RecoverPending, At, PairPlace
<1>2. ASSUME OldIsLive(s), Close(s, pair[s].old, "superseded"), NextPair(s)
      PROVE  Kind(s) /\ PairPlace(s)'
  BY <1>0, <1>2, ClosesOneBy DEF OldIsLive, Has, Kind
<1>3. ASSUME NewIsLive(s), Close(s, New(s), "hold_dropped"), NextPair(s)
      PROVE  Kind(s) /\ PairPlace(s)'
  BY <1>0, <1>3, ClosesOneBy DEF NewIsLive, New, Has, Kind
<1>4. ASSUME Restorable(s), Restore(s), NextPair(s)
      PROVE  Kind(s) /\ PairPlace(s)'
  BY <1>1, <1>4, ReholdsBy DEF Kind
<1>5. ASSUME KeepRows, NEW p \in {"restoring", "recovering"}, KeepPair(s, p)
      PROVE  Kind(s) /\ PairPlace(s)'
  BY <1>1, <1>5, FailsBy DEF Kind
<1>6. CASE StampOld(s)
  BY <1>2, <1>5, <1>6 DEF StampOld
<1>7. CASE RestorePending(s)
  BY <1>4, <1>5, <1>7 DEF RestorePending
<1>8. CASE RecoverPending(s)
  BY <1>3, <1>4, <1>8 DEF RecoverPending
<1>. QED
  BY <1>6, <1>7, <1>8

\* A verdict closes its old row from the record as it is, or is not carried out.
LEMMA NotClosedKind ==
  ASSUME TInv, NEW s \in Sessions, PairPlace(s), pc[s] \in {"closing", "writing back"},
         KeepRows, NotClosed(s)
  PROVE  Kind(s) /\ PairPlace(s)'
<1>1. CASE New(s) # 0
  BY <1>1, FailsBy DEF NotClosed, PairPlace, Kind
<1>2. CASE New(s) = 0
  BY <1>2, IdlesBy DEF NotClosed, PairPlace, Kind
<1>. QED
  BY <1>1, <1>2

LEMMA CloseReadKind ==
  ASSUME TInv, RowsInv, NEW s \in Sessions, PairPlace(s), CloseRead(s)
  PROVE  Kind(s) /\ PairPlace(s)'
<1>0. pc[s] = "closing" /\ pair[s].why \in Reason
  <2>1. pc[s] = "closing" /\ pair[s] \in PairType /\ pair[s].judged
    BY DEF CloseRead, At, TInv, RowTypes, Own
  <2>. QED
    BY <2>1 DEF PairType
<1>1. CASE /\ UNCHANGED rows /\ KeepPair(s, "writing back")
  <2>1. pair' = pair /\ pc'[s] = "writing back"
    BY <1>1, KeepPairKeeps
  <2>. QED
    BY <1>0, <1>1, <2>1 DEF Kind, Fails, PairPlace, Mid, New
<1>2. CASE /\ MayClose(s) /\ Close(s, pair[s].old, pair[s].why) /\ NextPair(s)
  BY <1>0, <1>2, ClosesOneBy DEF MayClose, OldIsLive, Has, Kind
<1>3. CASE KeepRows /\ NotClosed(s)
  BY <1>0, <1>3, NotClosedKind
<1>. QED
  BY <1>1, <1>2, <1>3 DEF CloseRead

LEMMA CloseWriteKind ==
  ASSUME TInv, RowsInv, NEW s \in Sessions, PairPlace(s), ~torn', CloseWrite(s)
  PROVE  Kind(s) /\ PairPlace(s)'
<1>0. pc[s] = "writing back" /\ pair[s].why \in Reason
  <2>1. pc[s] = "writing back" /\ pair[s] \in PairType /\ pair[s].judged
    BY DEF CloseWrite, At, TInv, RowTypes, Own
  <2>. QED
    BY <2>1 DEF PairType
<1>1. CASE /\ Store(s, StampRows(work[s], {pair[s].old}, s, pair[s].why))
           /\ NextPair(s) /\ torn' = (torn \/ ~fresh[s])
  <2>1. work[s] = rows /\ pair[s].old \in DOMAIN rows /\ Live(rows[pair[s].old])
    BY <1>0, <1>1 DEF RowsInv, Copy, At
  <2>2. rows' = StampRows(rows, {pair[s].old}, s, pair[s].why)
    BY <1>1, <2>1 DEF Store
  <2>3. Closes(rows, rows') /\ ~Live(rows'[pair[s].old])
    <3>0. IsRows(rows)
      BY DEF RowsInv
    <3>1. Closes(rows, rows')
      BY <1>0, <2>2, <3>0, StampCloses
    <3>2. \A i \in DOMAIN rows : i \in {pair[s].old} => ~Live(rows'[i])
      BY <1>0, <2>2, <3>0, StampCloses
    <3>. QED
      BY <2>1, <3>1, <3>2
  <2>4. pair'[s].taken = None /\ pc'[s] \notin {"writing", "taking"} /\ PairPlace(s)'
    BY <1>1, NextPairEnds
  <2>5. ClosesOne(s)
    BY <2>1, <2>3, <2>4 DEF ClosesOne
  <2>. QED
    BY <2>4, <2>5 DEF Kind
<1>2. CASE KeepRows /\ NotClosed(s)
  BY <1>0, <1>2, NotClosedKind
<1>. QED
  BY <1>1, <1>2 DEF CloseWrite

\* What a step of a pair leaves of the pairs to settle.
LEMMA PlainHoldsStay ==
  ASSUME PairsInv, NEW s \in Sessions,
         \/ DropHeld(s) \/ TakePending(s) \/ StampOld(s) \/ RestorePending(s)
         \/ RecoverPending(s) \/ CloseRead(s) \/ CloseWrite(s)
         \/ BeginTx(s) \/ ApplyFact(s) \/ Commit(s)
  PROVE  PlainHolds(s)'
<1>1. UNCHANGED <<holds, open>>
  BY DEF DropHeld, TakePending, StampOld, RestorePending, RecoverPending, CloseRead, CloseWrite,
     BeginTx, ApplyFact, Commit, settleRest, pass
<1>. QED
  BY <1>1 DEF PairsInv, PlainHolds

---------------------------------------------------------------------------
(* The invariant.  It says nothing once a hold is torn, or when a session is not *)
(* dated: such a session closes nothing.                                         *)

\* A pair in hand fits the rows: one whose old row was closed still has it closed,
\* and one taken apart may be put back.
PairFits(s) ==
  /\ (pc[s] = "taking" /\ pair[s].already) => Closed(rows, pair[s].old)
  /\ Mid(s) => /\ New(s) \in DOMAIN rows /\ rows[New(s)].status = Decided
               /\ WaitsFor(rows, rows[New(s)].key, pair[s].taken)

\* The stored rows, and the copies that a transaction may still store.
Drafts == {rows} \cup {work[s] : s \in {t \in Sessions : At(t, "writing") /\ fresh[t]}}

Calm == ~torn /\ \A s \in Sessions : Dated(s)
Valued == PairsInv /\ (\A s \in Sessions : PairFits(s)) /\ \A rs \in Drafts : Sound(rs)
ValuesInv == Calm => Valued

LEMMA InitValues == Init => ValuesInv
<1> SUFFICES ASSUME Init PROVE Valued
  BY DEF ValuesInv
<1>1. \A s \in Sessions : pair[s].taken = None /\ pc[s] = "waiting" /\ holds[s] = {} /\ open[s] = {}
  BY NoPairTaken DEF Init
<1>2. PairsInv /\ \A s \in Sessions : PairFits(s)
  BY <1>1 DEF PairsInv, PlainHolds, PairPlace, PairFits, Mid
<1>3. Drafts = {<<>>}
  BY <1>1 DEF Init, Drafts, At
<1>4. Sound(<<>>)
  BY DEF Sound, Said, Single, Waits, Settled
<1>. QED
  BY <1>2, <1>3, <1>4 DEF Valued

\* What is said does not change, so nor do the keys that are simple.
LEMMA StoryStays ==
  ASSUME UNCHANGED story
  PROVE  /\ \A k : (Lone(k)' <=> Lone(k)) /\ (Keeping(k)' <=> Keeping(k))
         /\ \A s, n, k, v : Decides(s, n, k, v)' <=> Decides(s, n, k, v)
<1>1. \A k : Lone(k)' <=> Lone(k)
  BY DEF Lone, Unmatched, Simple, Told
<1>2. \A k : Keeping(k)' <=> Keeping(k)
  BY DEF Keeping, Told
<1>3. \A s, n, k, v : Decides(s, n, k, v)' <=> Decides(s, n, k, v)
  BY DEF Decides, Told
<1>. QED
  BY <1>1, <1>2, <1>3

LEMMA WaitsStay ==
  ASSUME UNCHANGED story, NEW rs, NEW k, NEW hold
  PROVE  WaitsFor(rs, k, hold)' <=> WaitsFor(rs, k, hold)
BY StoryStays DEF WaitsFor

\* Sequences of rows stay sound as long as what clashes in them is excused after
\* the step.
ExcusedNext(rs, i, j) ==
  \E t \in Sessions :
    /\ pair'[t].taken # None
    /\ pair'[t].new \in {i, j} \/ Closed(rs, pair'[t].new)
    /\ pair'[t].old \in {i, j} \/ Closed(rs, pair'[t].old)

LEMMA SoundNext ==
  ASSUME UNCHANGED story, NEW rs, Said(rs), Single(rs), Waits(rs),
         \A i, j \in DOMAIN rs : Clash(rs, i, j) => ExcusedNext(rs, i, j)
  PROVE  Sound(rs)'
<1>1. Said(rs)'
  <2>1. \A i \in DOMAIN rs : rs[i].first[1] \in Sessions
    BY DEF Said
  <2>2. ASSUME NEW i \in DOMAIN rs, rs[i].status = Decided, Lone(rs[i].key)
        PROVE  \E n \in DOMAIN Told(rs[i].first[1])' :
                 Decides(rs[i].first[1], n, rs[i].key, rs[i].value)'
    <3>1. PICK n \in DOMAIN Told(rs[i].first[1]) :
            Decides(rs[i].first[1], n, rs[i].key, rs[i].value)
      BY <2>2 DEF Said
    <3>. QED
      BY <3>1 DEF Decides, Told
  <2>3. \A i \in DOMAIN rs : Lone(rs[i].key)' <=> Lone(rs[i].key)
    BY StoryStays
  <2>. QED
    BY <2>1, <2>2, <2>3 DEF Said
<1>2. Single(rs)'
  BY DEF Single, Live, SameFact
<1>3. Waits(rs)'
  BY WaitsStay DEF Waits, Pending
<1>4. Settled(rs)'
  <2>1. ASSUME NEW i \in DOMAIN rs, NEW j \in DOMAIN rs, Clash(rs, i, j)'
        PROVE  Clash(rs, i, j)
    BY <2>1, StoryStays DEF Clash, Current, Live, Pending, IsSlot
  <2>2. \A i, j : ExcusedNext(rs, i, j) => Excused(rs, i, j)'
    BY DEF ExcusedNext, Excused, Mid, Closed, Live
  <2>. QED
    BY <2>1, <2>2 DEF Settled
<1>. QED
  BY <1>1, <1>2, <1>3, <1>4 DEF Sound

\* The pairs that are taken apart stay so.
MidsStay ==
  \A t \in Sessions : Mid(t) => /\ pair'[t].taken = pair[t].taken
                                /\ pair'[t].new = pair[t].new /\ pair'[t].old = pair[t].old

LEMMA SoundStays ==
  ASSUME UNCHANGED story, MidsStay, NEW rs, Sound(rs)
  PROVE  Sound(rs)'
<1>1. \A i, j : Excused(rs, i, j) => ExcusedNext(rs, i, j)
  BY DEF Excused, ExcusedNext, MidsStay, Mid
<1>. QED
  BY <1>1, SoundNext DEF Sound, Settled

\* What may still be stored after a step.
LEMMA DraftsNext ==
  ASSUME NEW s \in Sessions, Aside(s), NEW rs \in Drafts'
  PROVE  \/ rs = rows' \/ (rows' = rows /\ rs \in Drafts)
         \/ rs = work'[s] /\ pc'[s] = "writing" /\ fresh'[s]
<1>1. rs = rows' \/ \E t \in Sessions : rs = work'[t] /\ pc'[t] = "writing" /\ fresh'[t]
  BY DEF Drafts, At
<1>2. ASSUME NEW t \in Sessions \ {s}, rs = work'[t], pc'[t] = "writing", fresh'[t]
      PROVE  rows' = rows /\ rs \in Drafts
  <2>1. pc[t] = "writing" /\ work[t] = rs /\ fresh[t] /\ rows' = rows
    BY <1>2 DEF Aside
  <2>. QED
    BY <2>1 DEF Drafts, At
<1>. QED
  BY <1>1, <1>2

---------------------------------------------------------------------------
(* The steps. *)

\* Rows are added, and what is said of a row does not change.
Grows(old, new) ==
  /\ DOMAIN old \subseteq DOMAIN new
  /\ \A i \in DOMAIN old : /\ new[i].key = old[i].key /\ new[i].status = old[i].status
                           /\ ~Live(old[i]) => ~Live(new[i])

LEMMA ExtendsGrows ==
  ASSUME NEW a, NEW b, IsRows(a), IsRows(b), Extends(a, b)
  PROVE  Grows(a, b)
BY DEF Extends, Grows, SameFact, Live, IsRows

\* What changes when a row gets a hold, or loses it.
Reheld(old, new, i, by) ==
  /\ DOMAIN new = DOMAIN old /\ \A j \in DOMAIN old \ {i} : new[j] = old[j]
  /\ new[i].key = old[i].key /\ new[i].value = old[i].value
  /\ new[i].status = old[i].status /\ new[i].first = old[i].first
  /\ new[i].until = old[i].until /\ new[i].pending = by

LEMMA HoldChange ==
  ASSUME RowsInv, NEW i \in DOMAIN rows, NEW by, NEW new, new = Rehold(rows, i, by)
  PROVE  Reheld(rows, new, i, by)
<1>1. Shape(rows[i])
  BY DEF RowsInv, IsRows
<1>. QED
  BY <1>1 DEF Shape, Rehold, Reheld

LEMMA KindGrows ==
  ASSUME RowsInv, NEW s \in Sessions, Kind(s)
  PROVE  Grows(rows, rows')
<1>1. CASE UNCHANGED rows
  BY <1>1 DEF Grows
<1>2. CASE Closes(rows, rows')
  BY <1>2 DEF Grows, Closes, Relabels, SameRow, RowsInv, IsRows
<1>3. ASSUME New(s) \in DOMAIN rows, NEW by,
             rows' = Rehold(rows, New(s), by)
      PROVE  Grows(rows, rows')
  <2>1. Reheld(rows, rows', New(s), by)
    BY <1>3, HoldChange
  <2>. QED
    BY <2>1 DEF Reheld, Grows, Live
<1>. QED
  BY <1>1, <1>2, <1>3
  DEF Kind, Idles, Fails, ClosesOne, Reholds, Takes, Restorable, NewIsHeld

LEMMA FitsGrow ==
  ASSUME UNCHANGED story, NEW t \in Sessions, PairFits(t), Grows(rows, rows'),
         pair'[t] = pair[t], pc'[t] = "taking" => pc[t] = "taking"
  PROVE  PairFits(t)'
<1>1. (pc'[t] = "taking" /\ pair'[t].already) => Closed(rows, pair[t].old)'
  BY DEF PairFits, Closed, Grows, Live
<1>2. ASSUME pair[t].taken # None
      PROVE  /\ New(t) \in DOMAIN rows' /\ rows'[New(t)].status = Decided
             /\ WaitsFor(rows, rows[New(t)].key, pair[t].taken)'
  <2>1. /\ New(t) \in DOMAIN rows /\ rows[New(t)].status = Decided
        /\ WaitsFor(rows, rows[New(t)].key, pair[t].taken)
    BY <1>2 DEF PairFits, Mid
  <2>2. rows'[New(t)].key = rows[New(t)].key
    BY <2>1 DEF Grows
  <2>3. Lone(rows[New(t)].key)' => Lone(rows[New(t)].key)
    BY <2>2 DEF Lone, Unmatched, Simple, Told, New
  <2>4. Lone(rows[New(t)].key) => Keeping(rows[New(t)].key)'
    BY <2>1, <2>2 DEF WaitsFor, Keeping, Told, New
  <2>. QED
    BY <2>1, <2>2, <2>3, <2>4 DEF Grows, WaitsFor, New
<1>. QED
  BY <1>1, <1>2 DEF PairFits, Mid, New

\* The rows that a step of kind ClosesOne, Reholds or Takes leaves.
LEMMA ClosesOneSound ==
  ASSUME RowsInv, UNCHANGED story, NEW s \in Sessions, ClosesOne(s), Sound(rows),
         \A t \in Sessions \ {s} : pair'[t] = pair[t],
         NEW new, new = rows'
  PROVE  Sound(new)' /\ new # rows
<1>0. PICK x \in DOMAIN rows : /\ Live(rows[x]) /\ ~Live(new[x])
                               /\ Mid(s) => x \in {pair[s].new, pair[s].old}
  BY DEF ClosesOne
<1>1. Closes(rows, new) /\ IsRows(rows) /\ DOMAIN new = DOMAIN rows
  BY DEF ClosesOne, RowsInv, Closes, Relabels, IsRows
<1>2. Sound(new)
  BY <1>1, ClosesSound
<1>3. ASSUME NEW i \in DOMAIN new, NEW j \in DOMAIN new, Clash(new, i, j)
      PROVE  ExcusedNext(new, i, j)
  <2>1. Clash(rows, i, j) /\ x \notin {i, j}
    BY <1>0, <1>1, <1>3 DEF Clash, Current, Pending, IsSlot, Closes, Relabels, SameRow
  <2>2. PICK t \in Sessions : /\ Mid(t)
                              /\ pair[t].new \in {i, j} \/ Closed(rows, pair[t].new)
                              /\ pair[t].old \in {i, j} \/ Closed(rows, pair[t].old)
    BY <1>1, <2>1 DEF Sound, Settled, Excused
  <2>3. t # s
    BY <1>0, <2>1, <2>2 DEF Closed
  <2>4. pair'[t] = pair[t]
    BY <2>3
  <2>5. \A k : Closed(rows, k) => Closed(new, k)
    BY <1>1 DEF Closed, Closes
  <2>. QED
    BY <2>2, <2>4, <2>5 DEF ExcusedNext, Mid
<1>. QED
  BY <1>0, <1>2, <1>3, SoundNext DEF Sound

\* The hold of one row is put on or taken off.
LEMMA HoldSound ==
  ASSUME RowsInv, Sound(rows), NEW i \in DOMAIN rows, NEW by, NEW new,
         new = Rehold(rows, i, by),
         by # None => rows[i].status = Decided /\ WaitsFor(rows, rows[i].key, by)
  PROVE  Said(new) /\ Single(new) /\ Waits(new)
<1>0. /\ DOMAIN new = DOMAIN rows /\ \A j \in DOMAIN rows \ {i} : new[j] = rows[j]
      /\ new[i].key = rows[i].key /\ new[i].value = rows[i].value
      /\ new[i].status = rows[i].status /\ new[i].first = rows[i].first
      /\ new[i].until = rows[i].until /\ new[i].pending = by
  BY HoldChange DEF Reheld
<1>1. Said(new)
  BY <1>0 DEF Sound, Said
<1>2. Single(new)
  <2>1. \A j, k \in DOMAIN rows : (Live(new[j]) /\ Live(new[k]) /\ SameFact(new[j], new[k]))
                                    => Live(rows[j]) /\ Live(rows[k]) /\ SameFact(rows[j], rows[k])
    BY <1>0 DEF Live, SameFact
  <2>. QED
    BY <1>0, <2>1 DEF Sound, Single
<1>3. Waits(new)
  <2>1. \A k, hold : WaitsFor(rows, k, hold) => WaitsFor(new, k, hold)
    BY <1>0 DEF WaitsFor
  <2>2. ASSUME NEW j \in DOMAIN rows, Pending(new[j])
        PROVE  new[j].status = Decided /\ WaitsFor(new, new[j].key, new[j].pending)
    <3>1. CASE j = i
      BY <1>0, <2>1, <2>2, <3>1 DEF Pending
    <3>2. CASE j # i
      BY <1>0, <2>1, <2>2, <3>2 DEF Sound, Waits
    <3>. QED
      BY <3>1, <3>2
  <2>. QED
    BY <1>0, <2>2 DEF Waits
<1>. QED
  BY <1>1, <1>2, <1>3

LEMMA ReholdsSound ==
  ASSUME RowsInv, UNCHANGED story, NEW s \in Sessions, Reholds(s), Sound(rows), PairFits(s),
         \A t \in Sessions \ {s} : pair'[t] = pair[t],
         NEW new, new = rows'
  PROVE  Sound(new)' /\ new # rows
<1> DEFINE n == New(s)
           by == pair[s].taken
<1>0. /\ n \in DOMAIN rows /\ Live(rows[n]) /\ ~Pending(rows[n]) /\ by # None
      /\ rows[n].status = Decided /\ WaitsFor(rows, rows[n].key, by)
      /\ new = Rehold(rows, n, by)
  BY DEF Reholds, Restorable, PairFits, Mid
<1>1. Said(new) /\ Single(new) /\ Waits(new)
  BY <1>0, HoldSound
<1>2. /\ DOMAIN new = DOMAIN rows /\ \A j \in DOMAIN rows \ {n} : new[j] = rows[j]
      /\ new[n].until = rows[n].until /\ new[n].pending = by
  BY <1>0, HoldChange DEF Reheld
<1>3. ASSUME NEW i \in DOMAIN new, NEW j \in DOMAIN new, Clash(new, i, j)
      PROVE  ExcusedNext(new, i, j)
  <2>1. i # n /\ j # n
    BY <1>0, <1>2, <1>3 DEF Clash, Current, Pending
  <2>2. Clash(rows, i, j)
    BY <1>2, <1>3, <2>1 DEF Clash
  <2>3. PICK t \in Sessions : /\ Mid(t)
                              /\ pair[t].new \in {i, j} \/ Closed(rows, pair[t].new)
                              /\ pair[t].old \in {i, j} \/ Closed(rows, pair[t].old)
    BY <1>2, <2>2 DEF Sound, Settled, Excused
  <2>4. t # s
    BY <1>0, <2>1, <2>3 DEF Closed, New
  <2>5. pair'[t] = pair[t]
    BY <2>4
  <2>6. \A k : Closed(rows, k) => Closed(new, k)
    BY <1>2 DEF Closed, Live
  <2>. QED
    BY <2>3, <2>5, <2>6 DEF ExcusedNext, Mid
<1>4. new # rows
  BY <1>0, <1>2 DEF Pending
<1>. QED
  BY <1>1, <1>3, <1>4, SoundNext

LEMMA TakesSound ==
  ASSUME TInv, RowsInv, UNCHANGED story, NEW s \in Sessions, Takes(s), Sound(rows), PairFits(s),
         PairPlace(s), \A t \in Sessions \ {s} : pair'[t] = pair[t],
         NEW new, new = rows'
  PROVE  Sound(new)' /\ new # rows
<1> DEFINE n == New(s)
<1>0. /\ n \in DOMAIN rows /\ Pending(rows[n]) /\ ~Mid(s) /\ ~Crowded(s)
      /\ new = Rehold(rows, n, None)
  BY DEF Takes, NewIsHeld, PairPlace
<1>1. Said(new) /\ Single(new) /\ Waits(new)
  BY <1>0, HoldSound
<1>2. /\ DOMAIN new = DOMAIN rows /\ \A j \in DOMAIN rows \ {n} : new[j] = rows[j]
      /\ new[n].key = rows[n].key /\ new[n].value = rows[n].value
      /\ new[n].until = rows[n].until /\ new[n].pending = None
  BY <1>0, HoldChange DEF Reheld
<1>3. \A k : Closed(rows, k) => Closed(new, k)
  BY <1>2 DEF Closed, Live
<1>4. \/ pair[s].already
      \/ pair'[s].taken # None /\ pair'[s].new = n /\ pair'[s].old = pair[s].old
  <2>1. pair[s] \in PairType
    BY DEF TInv, RowTypes
  <2>. QED
    BY <1>0, <2>1 DEF Takes, Pending, PairType, New
<1>5. ASSUME NEW j \in DOMAIN rows \ {n}, Clash(new, n, j) \/ Clash(new, j, n)
      PROVE  ExcusedNext(new, n, j) /\ ExcusedNext(new, j, n)
  <2>1. /\ Current(rows[j]) /\ IsSlot(rows[j]) /\ rows[j].key = rows[n].key
        /\ rows[j].value # rows[n].value
    BY <1>2, <1>5 DEF Clash, IsSlot
  <2>2. j = pair[s].old
    BY <1>0, <2>1 DEF Crowded
  <2>3. ~pair[s].already
    BY <2>1, <2>2 DEF Takes, PairFits, Closed, Current
  <2>. QED
    BY <1>4, <2>2, <2>3 DEF ExcusedNext
<1>6. ASSUME NEW i \in DOMAIN rows \ {n}, NEW j \in DOMAIN rows \ {n}, Clash(new, i, j)
      PROVE  ExcusedNext(new, i, j)
  <2>1. Clash(rows, i, j)
    BY <1>2, <1>6 DEF Clash
  <2>2. PICK t \in Sessions : /\ Mid(t)
                              /\ pair[t].new \in {i, j} \/ Closed(rows, pair[t].new)
                              /\ pair[t].old \in {i, j} \/ Closed(rows, pair[t].old)
    BY <2>1 DEF Sound, Settled, Excused
  <2>3. pair'[t] = pair[t]
    BY <1>0, <2>2
  <2>. QED
    BY <1>3, <2>2, <2>3 DEF ExcusedNext, Mid
<1>7. ASSUME NEW i \in DOMAIN new, NEW j \in DOMAIN new, Clash(new, i, j)
      PROVE  ExcusedNext(new, i, j)
  <2>1. i # j
    BY <1>7 DEF Clash
  <2>. QED
    BY <1>2, <1>5, <1>6, <1>7, <2>1
<1>8. new # rows
  BY <1>0, <1>2 DEF Pending
<1>. QED
  BY <1>1, <1>7, <1>8, SoundNext

\* A step of one of the kinds keeps what may be stored sound.
LEMMA KindSound ==
  ASSUME TInv, RowsInv, Valued, UNCHANGED story, NEW s \in Sessions, Kind(s), Aside(s),
         pc'[s] # "writing", NEW rs \in Drafts'
  PROVE  Sound(rs)'
<1>0. /\ Sound(rows) /\ PairFits(s) /\ PairPlace(s)
      /\ \A t \in Sessions \ {s} : pair'[t] = pair[t]
  BY DEF Valued, PairsInv, Drafts, Aside
<1>1. rs = rows' \/ (rows' = rows /\ rs \in Drafts)
  BY DraftsNext
<1>2. CASE Idles(s) \/ Fails(s)
  <2>1. MidsStay
    BY <1>0, <1>2 DEF Idles, Fails, MidsStay
  <2>2. rs \in Drafts
    BY <1>1, <1>2 DEF Idles, Fails, Drafts
  <2>. QED
    BY <2>1, <2>2, SoundStays DEF Valued
<1>3. CASE ClosesOne(s)
  <2>1. \A new : new = rows' => Sound(new)' /\ new # rows
    BY <1>0, <1>3, ClosesOneSound
  <2>. QED
    BY <1>1, <2>1
<1>4. CASE Reholds(s)
  <2>1. \A new : new = rows' => Sound(new)' /\ new # rows
    BY <1>0, <1>4, ReholdsSound
  <2>. QED
    BY <1>1, <2>1
<1>5. CASE Takes(s)
  <2>1. \A new : new = rows' => Sound(new)' /\ new # rows
    BY <1>0, <1>5, TakesSound
  <2>. QED
    BY <1>1, <2>1
<1>. QED
  BY <1>2, <1>3, <1>4, <1>5 DEF Kind

LEMMA KindFits ==
  ASSUME TInv, RowsInv, Valued, UNCHANGED story, NEW s \in Sessions, Kind(s)
  PROVE  PairFits(s)'
<1>0. PairFits(s) /\ PairPlace(s) /\ Sound(rows) /\ Grows(rows, rows')
  BY KindGrows DEF Valued, PairsInv, Drafts
<1>1. CASE Idles(s)
  <2>1. UNCHANGED rows /\ ~Mid(s)'
    BY <1>1 DEF Idles, Mid
  <2>2. (pc'[s] = "taking" /\ pair'[s].already) => Closed(rows, pair[s].old)'
    BY <1>1 DEF Idles, Closed, Live
  <2>. QED
    BY <2>1, <2>2 DEF PairFits
<1>2. CASE Fails(s)
  BY <1>0, <1>2, FitsGrow DEF Fails
<1>3. CASE ClosesOne(s) \/ Reholds(s)
  BY <1>3 DEF ClosesOne, Reholds, PairFits, Mid
<1>4. CASE Takes(s)
  <2> DEFINE n == New(s)
  <2>1. /\ n \in DOMAIN rows /\ Pending(rows[n]) /\ pc'[s] # "taking"
        /\ rows' = Rehold(rows, n, None)
    BY <1>4 DEF Takes, NewIsHeld
  <2>2. CASE pair'[s].taken = None
    BY <2>1, <2>2 DEF PairFits, Mid
  <2>3. CASE pair'[s].taken # None
    <3>1. pair'[s].taken = rows[n].pending /\ pair'[s].new = n
      <4>1. pair[s] \in PairType
        BY DEF TInv, RowTypes
      <4>. QED
        BY <1>4, <2>3, <4>1 DEF Takes, PairType, New
    <3>2. rows[n].status = Decided /\ WaitsFor(rows, rows[n].key, rows[n].pending)
      BY <1>0, <2>1 DEF Sound, Waits
    <3>3. Reheld(rows, rows', n, None)
      BY <2>1, HoldChange
    <3> HIDE DEF n
    <3>4. n \in DOMAIN rows' /\ rows'[n].status = Decided /\ rows'[n].key = rows[n].key
      BY <2>1, <3>2, <3>3 DEF Reheld
    <3>5. Lone(rows[n].key) => Keeping(rows[pair[s].new].key)'
      BY <3>1, <3>2, <3>4 DEF WaitsFor, Keeping, Told
    <3>6. Lone(rows[pair[s].new].key)' => Lone(rows[n].key)
      BY <3>1, <3>4 DEF Lone, Unmatched, Simple, Told
    <3>7. WaitsFor(rows, rows[pair[s].new].key, pair[s].taken)'
      BY <1>0, <3>1, <3>2, <3>4, <3>5, <3>6 DEF WaitsFor, Grows
    <3>. QED
      BY <2>1, <3>1, <3>4, <3>7 DEF PairFits, Mid, New
  <2>. QED
    BY <2>2, <2>3
<1>. QED
  BY <1>1, <1>2, <1>3, <1>4 DEF Kind

\* The transaction.
TxStep(s) == BeginTx(s) \/ ApplyFact(s) \/ Commit(s)

LEMMA TxPair ==
  ASSUME TInv, PairsInv, NEW s \in Sessions, TxStep(s)
  PROVE  /\ pair' = pair /\ ~Mid(s) /\ pc'[s] \in {"writing", "written"}
         /\ PlainHolds(s)' /\ PairPlace(s)'
<1>1. pair' = pair /\ pc[s] \in {"begin", "writing"} /\ pc'[s] \in {"writing", "written"}
  BY DEF TInv, RunTypes, TxStep, BeginTx, ApplyFact, Commit, At, Goto, Put
<1>2. ~Mid(s)
  BY <1>1 DEF PairsInv, PairPlace
<1>3. PlainHolds(s)'
  BY PlainHoldsStay DEF TxStep
<1>. QED
  BY <1>1, <1>2, <1>3 DEF PairPlace, Mid

LEMMA TxGrows ==
  ASSUME RowsInv, NEW s \in Sessions, TxStep(s), Aside(s)
  PROVE  Grows(rows, rows')
<1>1. CASE BeginTx(s) \/ ApplyFact(s)
  BY <1>1 DEF BeginTx, ApplyFact, Grows
<1>2. CASE Commit(s)
  <2>1. IsRows(rows') /\ IsRows(rows) /\ Extends(rows, rows')
    BY <1>2, CommitStep DEF RowsInv
  <2>. QED
    BY <2>1, ExtendsGrows
<1>. QED
  BY <1>1, <1>2 DEF TxStep

LEMMA TxSound ==
  ASSUME TInv, RowsInv, VoicesInv, Valued, Calm, NEW s \in Sessions, TxStep(s), Aside(s),
         NEW rs \in Drafts'
  PROVE  Sound(rs)
<1>0. /\ DOMAIN work = Sessions /\ DOMAIN fresh = Sessions /\ DOMAIN pc = Sessions
      /\ rows \in Drafts /\ \A r \in Drafts : Sound(r)
  BY DEF RowsInv, Domains, Valued, Drafts
<1>1. CASE BeginTx(s)
  <2>1. UNCHANGED rows /\ work'[s] = rows
    BY <1>0, <1>1 DEF BeginTx, Put
  <2>. QED
    BY <1>0, <2>1, DraftsNext
<1>2. CASE ApplyFact(s)
  <2> DEFINE n == NextFact(s)
  <2>1. /\ UNCHANGED <<rows, fresh, pc>> /\ At(s, "writing") /\ todo[s] # {}
        /\ work'[s] = Applied(s, Facts(s)[n], work[s])
    BY <1>0, <1>2 DEF ApplyFact, Put
  <2>2. n \in DOMAIN Facts(s)
    <3>1. Facts(s) \in Seq(Fact)
      BY FactsType DEF TInv
    <3>2. todo[s] \subseteq DOMAIN Facts(s)
      BY DEF TInv, Own
    <3>. QED
      BY <2>1, <3>1, <3>2, NextFactTodo
  <2>3. work[s] \in Seq(Row) /\ IsRows(work[s]) /\ Dated(s) /\ on[s] \in Switches \cup {{}}
    BY DEF TInv, RowTypes, RunTypes, RowsInv, Copy, Calm
  <2> HIDE DEF n
  <2>4. fresh[s] => Sound(work'[s])
    <3>1. fresh[s] => Sound(work[s])
      BY <1>0, <2>1 DEF Drafts
    <3>2. Voices(s, Facts(s)[n])
      BY <2>2 DEF VoicesInv
    <3>. QED
      BY <2>1, <2>3, <3>1, <3>2, AppliedSound
  <2>. QED
    BY <1>0, <2>1, <2>4, DraftsNext
<1>3. CASE Commit(s)
  <2>1. rows' \in Drafts /\ pc'[s] = "written"
    BY <1>0, <1>3 DEF Commit, Conflicts, Store, KeepRows, Drafts, At, Goto, Put
  <2>. QED
    BY <1>0, <2>1, DraftsNext
<1>. QED
  BY <1>1, <1>2, <1>3 DEF TxStep

---------------------------------------------------------------------------
(* Every step. *)

LEMMA StepKinds ==
  ASSUME TInv, RowsInv, PairsInv, NEW s \in Sessions, Step(s), ~torn'
  PROVE  \/ TxStep(s)
         \/ Kind(s) /\ pc'[s] # "writing" /\ PlainHolds(s)' /\ PairPlace(s)'
<1>1. Kind(s) => pc'[s] # "writing"
  BY DEF Kind, Idles, Fails, ClosesOne, Reholds, Takes
<1>2. CASE \/ \E read \in SUBSET DOMAIN Told(s), known \in {rows, <<>>}, sw \in Switches :
              Begin(s, read, known, sw)
           \/ Conflict(s) \/ ConflictAgain(s)
  BY <1>1, <1>2, WriterKind DEF Kind
<1>3. CASE Settle(s) \/ Consider(s)
  BY <1>1, <1>3, SettleKind, ConsiderKind DEF Kind
<1>4. CASE Load(s) \/ JudgeDone(s) \/ Mark(s) \/ Kill(s)
  BY <1>1, <1>4, RunKind DEF Kind
<1>5. CASE \/ \E i \in part[s], j \in loaded[s].all :
                JudgeSupersedes(s, i, j) \/ JudgeDuplicate(s, i, j)
           \/ \E h \in open[s] : JudgeConfirms(s, h)
  BY <1>1, <1>5, JudgeKind DEF Kind
<1>6. CASE \/ DropHeld(s) \/ TakePending(s) \/ StampOld(s) \/ RestorePending(s)
           \/ RecoverPending(s) \/ CloseRead(s) \/ CloseWrite(s)
  <2>1. PairPlace(s) /\ PlainHolds(s)'
    BY <1>6, PlainHoldsStay DEF PairsInv
  <2>2. Kind(s) /\ PairPlace(s)'
    BY <1>6, <2>1, DropKind, TakeKind, StampKind, CloseReadKind, CloseWriteKind
  <2>. QED
    BY <1>1, <2>1, <2>2
<1>. QED
  BY <1>2, <1>3, <1>4, <1>5, <1>6 DEF Step, TxStep

LEMMA StepValues ==
  ASSUME TInv, RowsInv, VoicesInv, Valued, Calm, NEW s \in Sessions, Step(s), ~torn'
  PROVE  Valued'
<1>0. /\ Aside(s) /\ UNCHANGED story /\ PairsInv
      /\ \A t \in Sessions \ {s} : /\ pc'[t] = pc[t] /\ pair'[t] = pair[t]
                                   /\ holds'[t] = holds[t] /\ open'[t] = open[t]
  BY OthersStay, RunsApart, HoldsApart DEF Valued
<1>1. \/ TxStep(s)
      \/ Kind(s) /\ pc'[s] # "writing" /\ PlainHolds(s)' /\ PairPlace(s)'
  BY <1>0, StepKinds
<1>2. PairsInv'
  <2>1. PlainHolds(s)' /\ PairPlace(s)'
    BY <1>0, <1>1, TxPair
  <2>2. ASSUME NEW t \in Sessions \ {s} PROVE PlainHolds(t)' /\ PairPlace(t)'
    BY <1>0 DEF PairsInv, PlainHolds, PairPlace, Mid, New
  <2>. QED
    BY <2>1, <2>2 DEF PairsInv
<1>3. Grows(rows, rows')
  BY <1>0, <1>1, TxGrows, KindGrows
<1>4. ASSUME NEW t \in Sessions PROVE PairFits(t)'
  <2>1. CASE t # s
    BY <1>0, <1>3, <2>1, FitsGrow DEF Valued
  <2>2. CASE t = s /\ TxStep(s)
    BY <1>0, <1>3, <2>2, TxPair, FitsGrow DEF Valued
  <2>3. CASE t = s /\ Kind(s)
    BY <1>0, <2>3, KindFits
  <2>. QED
    BY <1>1, <2>1, <2>2, <2>3
<1>5. ASSUME NEW rs \in Drafts' PROVE Sound(rs)'
  <2>1. CASE TxStep(s)
    <3>1. MidsStay
      BY <1>0, <2>1, TxPair DEF MidsStay
    <3>2. Sound(rs)
      BY <1>0, <2>1, TxSound
    <3>. QED
      BY <1>0, <3>1, <3>2, SoundStays
  <2>2. CASE Kind(s) /\ pc'[s] # "writing"
    BY <1>0, <2>2, KindSound
  <2>. QED
    BY <1>1, <2>1, <2>2
<1>. QED
  BY <1>2, <1>4, <1>5 DEF Valued

\* Matching leaves what is said of a lone key alone: a fact that is matched has
\* the key it was matched to.
LEMMA BeginVoices ==
  ASSUME TInv, NEW s \in Sessions, NEW read, NEW known \in {rows, <<>>}, NEW sw \in Switches,
         Begin(s, read, known, sw), NEW n \in DOMAIN said'[s], NEW f, f = said'[s][n]
  PROVE  Voices(s, f)
<1> DEFINE t == Told(s)[n]
<1>1. n \in DOMAIN Told(s) /\ said'[s] = [i \in DOMAIN Told(s) |->
        IF "match" \in sw THEN Matched(Told(s)[i], known) ELSE Told(s)[i]]
  <2>1. said \in [Sessions -> Seq(Fact)]
    BY DEF TInv, GivenTypes
  <2>. QED
    BY <2>1, BeginSaid DEF Begin, Put
<1>2. f = IF "match" \in sw THEN Matched(t, known) ELSE t
  BY <1>1
<1>3. t \in Fact /\ t.aims = None
  <2>1. story[s] \in Stories \cup ServerStories
    BY DEF TInv, GivenTypes
  <2>2. story[s].facts \in Seq(Fact) /\ t.aims = None
    BY <1>1, <2>1, ConstantsOK DEF Told
  <2>. QED
    BY <1>1, <2>2, ElementOfSeq, LenProperties DEF Told
<1>4. CASE f = t
  BY <1>1, <1>3, <1>4 DEF Voices, SameFact
<1>5. CASE f # t
  <2>1. /\ f = [t EXCEPT !.key = t.finds, !.aims = known[Min(Hits(t, known))].value]
        /\ t.finds # None
    BY <1>2, <1>5 DEF Matched
  <2>2. f.key = t.finds
    BY <1>3, <2>1 DEF Fact
  <2>3. ~Lone(f.key)
    BY <1>1, <2>2 DEF Lone, Unmatched
  <2>. QED
    BY <2>3 DEF Voices
<1>. QED
  BY <1>4, <1>5

LEMMA VoicesStep ==
  ASSUME TInv, VoicesInv, [Next]_vars
  PROVE  VoicesInv'
<1>1. ASSUME UNCHANGED story,
             \A s \in Sessions : \A n \in DOMAIN said'[s] : Voices(s, said'[s][n])
      PROVE  VoicesInv'
  BY <1>1 DEF VoicesInv, Facts, Voices, Lone, Unmatched, Simple, Told, SameFact
<1>2. CASE UNCHANGED given
  BY <1>1, <1>2 DEF VoicesInv, Facts, given
<1>3. ASSUME NEW s \in Sessions, NEW read, NEW known \in {rows, <<>>}, NEW sw \in Switches,
             Step(s), Begin(s, read, known, sw)
      PROVE  VoicesInv'
  <2>1. UNCHANGED story /\ \A t \in Sessions \ {s} : said'[t] = said[t]
    BY <1>3, RunsApart
  <2>2. ASSUME NEW t \in Sessions, NEW n \in DOMAIN said'[t]
        PROVE  Voices(t, said'[t][n])
    <3>1. CASE t = s
      BY <1>3, <2>2, <3>1, BeginVoices
    <3>2. CASE t # s
      BY <2>1, <2>2, <3>2 DEF VoicesInv, Facts
    <3>. QED
      BY <3>1, <3>2
  <2>. QED
    BY <1>1, <2>1, <2>2
<1>. QED
  BY <1>2, <1>3, GivenStays DEF Next, vars, given

LEMMA VoicesInvariant == Spec => []VoicesInv
<1>1. Init => VoicesInv
  <2> SUFFICES ASSUME Init, NEW s \in Sessions, NEW n \in DOMAIN said[s]
               PROVE  Voices(s, said[s][n])
    BY DEF VoicesInv, Facts
  <2>1. said[s] = Told(s) /\ story[s] \in Stories \cup ServerStories
    BY DEF Init, Told
  <2>2. Told(s)[n].aims = None
    BY <2>1, ConstantsOK DEF Told
  <2>. QED
    BY <2>1, <2>2 DEF Voices, SameFact
<1>2. TInv /\ VoicesInv /\ [Next]_vars => VoicesInv'
  BY VoicesStep
<1>. QED
  BY <1>1, <1>2, TypesInvariant, PTL DEF Spec

LEMMA ValuesStep ==
  ASSUME TInv, RowsInv, VoicesInv, ValuesInv, [Next]_vars
  PROVE  ValuesInv'
<1>1. ASSUME NEW s \in Sessions, Step(s) PROVE ValuesInv'
  <2> SUFFICES ASSUME Calm' PROVE Valued'
    BY DEF ValuesInv
  <2>1. UNCHANGED story
    BY <1>1, RunsApart
  <2>2. ~torn' /\ ~torn
    BY <1>1, StaysTorn DEF Calm
  <2>3. Calm
    BY <2>1, <2>2 DEF Calm, Dated
  <2>. QED
    BY <1>1, <2>2, <2>3, StepValues DEF ValuesInv
<1>2. CASE UNCHANGED vars
  <2> SUFFICES ASSUME Calm' PROVE Valued'
    BY DEF ValuesInv
  <2>0. UNCHANGED <<rows, story, pc, work, fresh, holds, open, pair, torn>>
    BY <1>2 DEF vars, given, pass
  <2>1. Calm /\ Valued
    BY <2>0 DEF Calm, Dated, ValuesInv
  <2>2. PairsInv'
    BY <2>0, <2>1 DEF Valued, PairsInv, PlainHolds, PairPlace, Mid, New
  <2>3. ASSUME NEW t \in Sessions PROVE PairFits(t)'
    BY <2>0, <2>1, FitsGrow DEF Valued, Grows
  <2>4. ASSUME NEW rs \in Drafts' PROVE Sound(rs)'
    <3>1. rs \in Drafts
      BY <2>0 DEF Drafts, At
    <3>. QED
      BY <2>0, <2>1, <3>1, SoundStays DEF Valued, MidsStay
  <2>. QED
    BY <2>2, <2>3, <2>4 DEF Valued
<1>. QED
  BY <1>1, <1>2 DEF Next

LEMMA ValuesInvariant == Spec => []ValuesInv
<1>1. TInv /\ RowsInv /\ VoicesInv /\ ValuesInv /\ [Next]_vars => ValuesInv'
  BY ValuesStep
<1>. QED
  BY <1>1, InitValues, TypesInvariant, RowsInvariant, VoicesInvariant, PTL DEF Spec

\* Between runs, with no hold torn, a slot's key has one current value: whatever
\* the transcripts say and name, however windows fail, transactions conflict,
\* processes are killed and sessions are written again, and although close_row
\* and settle write outside the sessions' transactions (write.rs, hold.rs,
\* consolidate.rs).
THEOREM OneValueAtRest == Spec => []OneCurrentValue
<1>1. TInv /\ ValuesInv => OneCurrentValue
  <2> SUFFICES ASSUME TInv, ValuesInv, Resting, Calm,
                      NEW i \in DOMAIN rows, NEW j \in DOMAIN rows, Clash(rows, i, j)
               PROVE  FALSE
    BY DEF OneCurrentValue, OneCurrent, Calm, Clash, Lone
  <2>1. Valued
    BY DEF ValuesInv
  <2>2. PICK t \in Sessions : Mid(t)
    BY <2>1 DEF Valued, Drafts, Sound, Settled, Excused
  <2>3. pc[t] \in {"waiting", "done"}
    BY DEF Resting, Active
  <2>. QED
    BY <2>1, <2>2, <2>3 DEF Valued, PairsInv, PairPlace
<1>. QED
  BY <1>1, ValuesInvariant, TypesInvariant, PTL

---------------------------------------------------------------------------
(* A key does not lose its last value: what a fact does to the rows.        *)

\* A live decided row, current or held.
Stands(r, k) == r.key = k /\ Live(r) /\ r.status = Decided
HasRow(rs, k) == \E i \in DOMAIN rs : Stands(rs[i], k)

\* Only decided rows wait, and on rows that were there before them.
Ordered(rs) ==
  \A i \in DOMAIN rs : Pending(rs[i]) => rs[i].status = Decided /\ rs[i].pending[2] < i

\* Why fact f of session s closes row r: it takes the place of a row of its own key,
\* or it rejects the row or names its value as replaced.
EndsBy(s, f, r, until) ==
  \/ r.status # Decided
  \/ f.status = Decided /\ r.key = f.key
  \/ ~OpenedIn(s, r) /\ until = <<s, "rejected">>
  \/ f.status = Decided /\ ~OpenedIn(s, r) /\ until = <<s, "replaced">> /\ r.value = f.replaces

\* What applying a fact may do to rows.
Updates(s, f, old, new) ==
  /\ DOMAIN old \subseteq DOMAIN new
  /\ \A i \in DOMAIN old :
       /\ SameFact(new[i], old[i]) /\ new[i].first = old[i].first
       /\ \/ new[i].until = old[i].until
          \/ Live(old[i]) /\ EndsBy(s, f, old[i], new[i].until)
  /\ \A i \in DOMAIN new \ DOMAIN old : OpenedIn(s, new[i])
  /\ \A i \in DOMAIN new : \A x \in new[i].seen :
       (i \in DOMAIN old /\ x \in old[i].seen) \/ (SameFact(new[i], f) /\ x = <<s, f.turn>>)

LEMMA UpdatesSelf == ASSUME NEW rs, NEW s, NEW f PROVE Updates(s, f, rs, rs)
BY DEF Updates, SameFact

LEMMA UpdatesOn ==
  ASSUME NEW a, NEW b, NEW c, NEW s, NEW f, Updates(s, f, a, b), Updates(s, f, b, c)
  PROVE  Updates(s, f, a, c)
<1>1. DOMAIN a \subseteq DOMAIN c
  BY DEF Updates
<1>2. ASSUME NEW i \in DOMAIN a
      PROVE  /\ SameFact(c[i], a[i]) /\ c[i].first = a[i].first
             /\ \/ c[i].until = a[i].until
                \/ Live(a[i]) /\ EndsBy(s, f, a[i], c[i].until)
  <2>1. i \in DOMAIN b
    BY DEF Updates
  <2>2. /\ SameFact(b[i], a[i]) /\ b[i].first = a[i].first
        /\ b[i].until = a[i].until \/ (Live(a[i]) /\ EndsBy(s, f, a[i], b[i].until))
    BY DEF Updates
  <2>3. /\ SameFact(c[i], b[i]) /\ c[i].first = b[i].first
        /\ c[i].until = b[i].until \/ (Live(b[i]) /\ EndsBy(s, f, b[i], c[i].until))
    BY <2>1 DEF Updates
  <2>4. EndsBy(s, f, b[i], c[i].until) => EndsBy(s, f, a[i], c[i].until)
    BY <2>2 DEF EndsBy, OpenedIn, SameFact
  <2>5. CASE c[i].until = b[i].until
    BY <2>2, <2>3, <2>5 DEF SameFact
  <2>6. CASE c[i].until # b[i].until
    <3>1. Live(b[i]) /\ EndsBy(s, f, a[i], c[i].until)
      BY <2>3, <2>4, <2>6
    <3>2. Live(a[i])
      BY <2>2, <3>1 DEF Live
    <3>. QED
      BY <2>2, <2>3, <3>1, <3>2 DEF SameFact
  <2>. QED
    BY <2>5, <2>6
<1>3. ASSUME NEW i \in DOMAIN c \ DOMAIN a
      PROVE  OpenedIn(s, c[i])
  BY <1>3 DEF Updates, OpenedIn
<1>4. ASSUME NEW i \in DOMAIN c, NEW x \in c[i].seen
      PROVE  (i \in DOMAIN a /\ x \in a[i].seen) \/ (SameFact(c[i], f) /\ x = <<s, f.turn>>)
  BY DEF Updates, SameFact
<1>. QED
  BY <1>1, <1>2, <1>3, <1>4 DEF Updates

LEMMA StampUpdates ==
  ASSUME NEW rs, IsRows(rs), NEW S, NEW s \in Sessions, NEW f, NEW why \in Reason,
         \A i \in S \cap DOMAIN rs : Live(rs[i]) /\ EndsBy(s, f, rs[i], <<s, why>>),
         NEW new, new = StampRows(rs, S, s, why)
  PROVE  /\ IsRows(new) /\ Closes(rs, new) /\ Updates(s, f, rs, new)
         /\ DOMAIN new = DOMAIN rs
<1>1. Closes(rs, new)
  BY StampCloses
<1>2. IsRows(new) /\ DOMAIN new = DOMAIN rs
  BY <1>1 DEF Closes, Relabels, IsRows
<1>3. ASSUME NEW i \in DOMAIN rs
      PROVE  (i \in S => new[i].until = <<s, why>>) /\ (i \notin S => new[i] = rs[i])
  <2>1. Shape(rs[i])
    BY DEF IsRows
  <2>2. new[i] = IF i \in S THEN [rs[i] EXCEPT !.until = <<s, why>>] ELSE rs[i]
    BY DEF StampRows
  <2>. QED
    BY <2>1, <2>2 DEF Shape
<1>4. Updates(s, f, rs, new)
  BY <1>1, <1>2, <1>3 DEF Updates, Closes, Relabels, SameRow, SameFact
<1>. QED
  BY <1>1, <1>2, <1>4

LEMMA ClosesOrdered ==
  ASSUME NEW old, NEW new, IsRows(old), Closes(old, new), Ordered(old)
  PROVE  Ordered(new)
BY DEF Closes, Relabels, SameRow, IsRows, Ordered, Pending

LEMMA ClosesStored ==
  ASSUME NEW old, NEW new, IsRows(old), Closes(old, new), NEW s, NEW f
  PROVE  AlreadyStored(s, f, old) <=> AlreadyStored(s, f, new)
<1>1. DOMAIN new = DOMAIN old
  BY DEF Closes, Relabels, IsRows
<1>2. \A i \in DOMAIN old : new[i].seen = old[i].seen /\ (SameFact(new[i], f) <=> SameFact(old[i], f))
  BY DEF Closes, Relabels, SameRow, SameFact
<1>. QED
  BY <1>1, <1>2 DEF AlreadyStored

\* Writing a decided fact leaves its key a row that stands, unless it is found stored.
LEMMA WrittenUpdates ==
  ASSUME NEW rs, IsRows(rs), NEW s, NEW f, NEW armed, NEW closed,
         armed # {} => f.status = Decided /\ armed \subseteq DOMAIN rs,
         NEW new, new = Written(s, f, rs, armed, closed)
  PROVE  /\ Updates(s, f, rs, new)
         /\ Ordered(rs) => Ordered(new)
         /\ AlreadyStored(s, f, rs) \/ f.status # Decided \/ HasRow(new, f.key)
<1> DEFINE h == Min(Home(f, rs))
<1>1. CASE AlreadyStored(s, f, rs)
  BY <1>1, UpdatesSelf DEF Written
<1>2. CASE ~AlreadyStored(s, f, rs) /\ Home(f, rs) = {}
  <2> DEFINE r == NewRow(s, f, armed)
  <2>1. /\ Shape(r) /\ r.key = f.key /\ r.value = f.value /\ r.status = f.status
        /\ r.seen = {<<s, f.turn>>} /\ r.first[1] = s /\ Live(r)
        /\ r.pending = IF armed = {} THEN None ELSE <<s, Min(armed)>>
    BY DEF NewRow, Shape, Live
  <2>2. new = Append(rs, r)
    BY <1>2 DEF Written
  <2> HIDE DEF r
  <2>3. /\ IsRows(new) /\ Len(new) = Len(rs) + 1
        /\ \A i \in DOMAIN rs : new[i] = rs[i]
        /\ new[Len(rs) + 1] = r
    BY <2>1, <2>2, AppendRow
  <2>4. DOMAIN new = DOMAIN rs \cup {Len(rs) + 1} /\ Len(rs) + 1 \notin DOMAIN rs
    BY <2>3 DEF IsRows
  <2>5. Updates(s, f, rs, new)
    BY <2>1, <2>3, <2>4 DEF Updates, SameFact, OpenedIn
  <2>6. Pending(r) => r.status = Decided /\ r.pending[2] < Len(rs) + 1
    <3> SUFFICES ASSUME Pending(r) PROVE r.status = Decided /\ r.pending[2] < Len(rs) + 1
      OBVIOUS
    <3>1. armed # {} /\ armed \subseteq DOMAIN rs /\ f.status = Decided /\ r.pending[2] = Min(armed)
      BY <2>1 DEF Pending
    <3>2. Min(armed) \in armed
      BY <3>1, MinIsLeast DEF IsRows
    <3>. QED
      BY <2>1, <3>1, <3>2 DEF IsRows
  <2>7. Ordered(rs) => Ordered(new)
    BY <2>3, <2>4, <2>6 DEF Ordered
  <2>8. f.status = Decided => HasRow(new, f.key)
    BY <2>1, <2>3, <2>4 DEF HasRow, Stands
  <2>. QED
    BY <2>5, <2>7, <2>8
<1>3. CASE ~AlreadyStored(s, f, rs) /\ Home(f, rs) # {}
  <2>1. h \in DOMAIN rs /\ Live(rs[h]) /\ SameFact(rs[h], f)
    BY <1>3, HomeRow
  <2> DEFINE t == Sighted(rs[h], s, f)
             u == [t EXCEPT !.pending = None]
  <2>2. PICK r : new = [rs EXCEPT ![h] = r] /\ (r = t \/ r = u)
    BY <1>3 DEF Written
  <2>3. /\ r.seen = rs[h].seen \cup {<<s, f.turn>>}
        /\ r.key = rs[h].key /\ r.value = rs[h].value /\ r.status = rs[h].status
        /\ r.first = rs[h].first /\ r.until = rs[h].until /\ r.pending \in {rs[h].pending, None}
    <3>0. Shape(rs[h])
      BY <2>1 DEF IsRows
    <3>1. /\ Shape(t) /\ Shape([t EXCEPT !.pending = None])
          /\ t.seen = rs[h].seen \cup {<<s, f.turn>>}
          /\ t.key = rs[h].key /\ t.value = rs[h].value /\ t.status = rs[h].status
          /\ t.first = rs[h].first /\ t.until = rs[h].until
      BY <3>0, SightedShape
    <3>2. /\ Shape(t) /\ Shape(u)
          /\ t.key = rs[h].key /\ t.value = rs[h].value /\ t.status = rs[h].status
          /\ t.first = rs[h].first /\ t.until = rs[h].until /\ t.pending = rs[h].pending
          /\ u.key = rs[h].key /\ u.value = rs[h].value /\ u.status = rs[h].status
          /\ u.first = rs[h].first /\ u.until = rs[h].until /\ u.pending = None
      BY <3>0, SightedFields
    <3>3. u.seen = t.seen
      <4> HIDE DEF t
      <4>. QED
        BY <3>1 DEF Shape
    <3> HIDE DEF t, u
    <3>. QED
      BY <2>2, <3>1, <3>2, <3>3
  <2> HIDE DEF h, t, u
  <2>4. DOMAIN new = DOMAIN rs /\ \A i \in DOMAIN rs : new[i] = IF i = h THEN r ELSE rs[i]
    BY <2>2
  <2>5. SameFact(r, f) /\ SameFact(r, rs[h])
    BY <2>1, <2>3 DEF SameFact
  <2>6. Updates(s, f, rs, new)
    BY <2>3, <2>4, <2>5 DEF Updates, SameFact
  <2>7. Ordered(rs) => Ordered(new)
    BY <2>1, <2>3, <2>4 DEF Ordered, Pending
  <2>8. f.status = Decided => HasRow(new, f.key)
    <3>1. Live(r) /\ r.key = f.key /\ r.status = f.status
      BY <2>1, <2>3 DEF Live, SameFact
    <3>. QED
      BY <2>1, <2>4, <3>1 DEF HasRow, Stands
  <2>. QED
    BY <2>6, <2>7, <2>8
<1>. QED
  BY <1>1, <1>2, <1>3

LEMMA DecidedUpdates ==
  ASSUME NEW rs, IsRows(rs), NEW s \in Sessions, NEW f, f.status = Decided,
         NEW new, new = DecidedApplied(s, f, rs)
  PROVE  /\ Updates(s, f, rs, new)
         /\ Ordered(rs) => Ordered(new)
         /\ AlreadyStored(s, f, rs) \/ new = rs \/ HasRow(new, f.key)
<1> DEFINE Closing(S) == IF Dated(s) THEN S ELSE {}
           named == IF f.listed THEN {} ELSE NamedBy(s, f, rs)
           kept1 == {i \in named : Kept(s, f, rs[i])}
           rs1   == StampRows(rs, Closing(named \ kept1), s, "replaced")
           rival == IF f.listed THEN {} ELSE SupersededBy(s, f, rs1)
           kept2 == {i \in rival : Kept(s, f, rs1[i])}
           rs2   == StampRows(rs1, Closing(rival \ kept2), s, Ending(f))
           rs3   == StampRows(rs2, Closing(PromotedBy(s, f, rs2)), s, "promoted")
           first == IF kept1 # {} THEN kept1 ELSE kept2
           armed == IF HoldOn(s) THEN {i \in first : Dated(s) \/ ~IsSlot(rs[i])} ELSE {}
           all   == Closing((named \ kept1) \cup (rival \ kept2))
           bars  == f.listed /\ f.key \notin EdgeKeys /\ RivalsOf(f, rs) # {}
<1>0. {"replaced", "promoted", Ending(f)} \subseteq Reason /\ Considered # Decided
  BY DEF Reason, Ending, Considered, Decided
<1>1. new = IF bars THEN rs ELSE Written(s, f, rs3, armed, all)
  BY DEF DecidedApplied
<1>2. IsRows(rs1) /\ Closes(rs, rs1) /\ Updates(s, f, rs, rs1) /\ DOMAIN rs1 = DOMAIN rs
  <2>1. \A i \in Closing(named \ kept1) : Live(rs[i]) /\ EndsBy(s, f, rs[i], <<s, "replaced">>)
    BY DEF NamedBy, Retirable, EndsBy
  <2>2. rs1 = StampRows(rs, Closing(named \ kept1), s, "replaced")
    OBVIOUS
  <2> HIDE DEF rs1, named, kept1
  <2>. QED
    BY <1>0, <2>1, <2>2, StampUpdates
<1>3. IsRows(rs2) /\ Closes(rs1, rs2) /\ Updates(s, f, rs1, rs2) /\ DOMAIN rs2 = DOMAIN rs
  <2>1. \A i \in Closing(rival \ kept2) : Live(rs1[i]) /\ EndsBy(s, f, rs1[i], <<s, Ending(f)>>)
    BY DEF SupersededBy, RivalsOf, Retirable, Current, EndsBy
  <2>2. rs2 = StampRows(rs1, Closing(rival \ kept2), s, Ending(f))
    OBVIOUS
  <2> HIDE DEF rs1, rs2, rival, kept2
  <2>. QED
    BY <1>0, <1>2, <2>1, <2>2, StampUpdates
<1>4. IsRows(rs3) /\ Closes(rs2, rs3) /\ Updates(s, f, rs2, rs3) /\ DOMAIN rs3 = DOMAIN rs
  <2>1. \A i \in Closing(PromotedBy(s, f, rs2)) :
          Live(rs2[i]) /\ EndsBy(s, f, rs2[i], <<s, "promoted">>)
    BY <1>0 DEF PromotedBy, Retirable, EndsBy
  <2>2. rs3 = StampRows(rs2, Closing(PromotedBy(s, f, rs2)), s, "promoted")
    OBVIOUS
  <2> HIDE DEF rs2, rs3
  <2>. QED
    BY <1>0, <1>3, <2>1, <2>2, StampUpdates
<1>5. armed \subseteq DOMAIN rs
  <2>1. kept1 \subseteq DOMAIN rs
    BY DEF NamedBy
  <2>2. kept2 \subseteq DOMAIN rs1
    <3>1. SupersededBy(s, f, rs1) \subseteq DOMAIN rs1
      BY DEF SupersededBy, RivalsOf
    <3> HIDE DEF rs1
    <3>. QED
      BY <3>1
  <2> HIDE DEF rs1, kept1, kept2
  <2>. QED
    BY <1>2, <2>1, <2>2
<1> HIDE DEF rs1, rs2, rs3, armed, all, rival, kept2, named, kept1
<1>6. Closes(rs, rs3) /\ Updates(s, f, rs, rs3)
  BY <1>2, <1>3, <1>4, ClosesOn, UpdatesOn
<1> DEFINE w == Written(s, f, rs3, armed, all)
<1>7. /\ Updates(s, f, rs3, w)
      /\ Ordered(rs3) => Ordered(w)
      /\ AlreadyStored(s, f, rs3) \/ HasRow(w, f.key)
  BY <1>4, <1>5, WrittenUpdates
<1> HIDE DEF w
<1>8. /\ Updates(s, f, rs, w)
      /\ Ordered(rs) => Ordered(w)
      /\ AlreadyStored(s, f, rs) \/ HasRow(w, f.key)
  BY <1>6, <1>7, UpdatesOn, ClosesOrdered, ClosesStored
<1>9. new = rs \/ new = w
  BY <1>1 DEF w
<1>. QED
  BY <1>8, <1>9, UpdatesSelf

\* A fact takes a key's last standing row away only when it is not about the key,
\* or when it finds itself stored.
LEMMA AppliedUpdates ==
  ASSUME NEW rs, IsRows(rs), NEW s \in Sessions, NEW f,
         NEW new, new = Applied(s, f, rs)
  PROVE  /\ Updates(s, f, rs, new)
         /\ Ordered(rs) => Ordered(new)
         /\ AlreadyStored(s, f, rs) \/ f.status # Decided \/ new = rs \/ HasRow(new, f.key)
<1>0. Rejected # Decided /\ "rejected" \in Reason
  BY DEF Rejected, Decided, Reason
<1>1. CASE f.status = Rejected
  <2> DEFINE S == IF Dated(s) THEN RejectedBy(s, f, rs) ELSE {}
             rs1 == StampRows(rs, S, s, "rejected")
             rs2 == IF Dated(s) THEN rs1 ELSE rs
  <2>1. new = Written(s, f, rs2, {}, {})
    BY <1>0, <1>1 DEF Applied, RejectedApplied
  <2>2. IsRows(rs1) /\ Closes(rs, rs1) /\ Updates(s, f, rs, rs1)
    <3>1. \A i \in S : Live(rs[i]) /\ EndsBy(s, f, rs[i], <<s, "rejected">>)
      BY DEF RejectedBy, Retirable, EndsBy
    <3>2. rs1 = StampRows(rs, S, s, "rejected")
      OBVIOUS
    <3> HIDE DEF rs1, S
    <3>. QED
      BY <1>0, <3>1, <3>2, StampUpdates
  <2> HIDE DEF rs1
  <2>3. IsRows(rs2) /\ Closes(rs, rs2) /\ Updates(s, f, rs, rs2)
    BY <2>2, ClosesSelf, UpdatesSelf
  <2> HIDE DEF rs2
  <2>4. Updates(s, f, rs2, new) /\ (Ordered(rs2) => Ordered(new))
    BY <2>1, <2>3, WrittenUpdates
  <2>. QED
    BY <1>0, <1>1, <2>3, <2>4, UpdatesOn, ClosesOrdered
<1>2. CASE f.status = Decided
  BY <1>0, <1>2, DecidedUpdates DEF Applied
<1>3. CASE f.status # Rejected /\ f.status # Decided
  <2>1. new = Written(s, f, rs, {}, {})
    BY <1>3 DEF Applied
  <2>. QED
    BY <1>3, <2>1, WrittenUpdates
<1>. QED
  BY <1>1, <1>2, <1>3

---------------------------------------------------------------------------
(* A key does not lose its last value: a transaction's copy.                *)

\* Every sighting that is stored is of a session that committed.
Recorded == \A i \in DOMAIN rows : \A x \in rows[i].seen : committed[x[1]] # "nothing"
RowsFit == Ordered(rows) /\ Recorded

\* Fact n of session s, which is about another key, took value v away.
LostTo(s, k, v, until) ==
  \/ until = <<s, "rejected">>
  \/ /\ until = <<s, "replaced">>
     /\ \E n \in DOMAIN Facts(s) : Facts(s)[n].replaces = v /\ Facts(s)[n].key # k
Lost(s, k) ==
  \E i \in DOMAIN rows : /\ Stands(rows[i], k) /\ ~Live(work[s][i])
                         /\ LostTo(s, k, rows[i].value, work[s][i].until)

\* What the copy has beyond what is stored comes from the facts that were applied; a
\* key that has a standing row has one there, or lost it to a fact about another key.
CopyFits(s) ==
  /\ Ordered(work[s])
  /\ \A i \in DOMAIN work[s] \ DOMAIN rows : OpenedIn(s, work[s][i])
  /\ \A i \in DOMAIN work[s] : \A x \in work[s][i].seen :
       \/ committed[x[1]] # "nothing"
       \/ \E m \in part[s] \ todo[s] :
            SameFact(work[s][i], Facts(s)[m]) /\ x = <<s, Facts(s)[m].turn>>
  /\ ~Replays(s) => \A k \in Keys \ EdgeKeys :
       HasRow(rows, k) => HasRow(work[s], k) \/ Lost(s, k)

LEMMA BeginTxFits ==
  ASSUME TInv, RowsFit, NEW s \in Sessions, BeginTx(s)
  PROVE  CopyFits(s)' /\ RowsFit'
<1>1. work'[s] = rows /\ UNCHANGED <<rows, committed>>
  BY DEF TInv, RowTypes, BeginTx, Put, history
<1>. QED
  BY <1>1 DEF RowsFit, Recorded, CopyFits, Ordered, HasRow

\* A session that says nothing twice and was not written before finds nothing stored.
LEMMA NothingStored ==
  ASSUME TInv, NEW s \in Sessions, At(s, "writing"), CopyFits(s), ~Replays(s), NEW n \in todo[s],
         AlreadyStored(s, Facts(s)[n], work[s])
  PROVE  FALSE
<1> DEFINE f == Facts(s)[n]
<1>1. committed[s] = "nothing" /\ ~SaysTwice(s)
  BY DEF Replays
<1>2. PICK i \in DOMAIN work[s] : SameFact(work[s][i], f) /\ <<s, f.turn>> \in work[s][i].seen
  BY DEF AlreadyStored
<1>3. PICK m \in part[s] \ todo[s] :
        SameFact(work[s][i], Facts(s)[m]) /\ <<s, f.turn>> = <<s, Facts(s)[m].turn>>
  BY <1>1, <1>2 DEF CopyFits
<1>4. m # n /\ SameFact(Facts(s)[m], Facts(s)[n]) /\ Facts(s)[m].turn = Facts(s)[n].turn
  BY <1>2, <1>3 DEF SameFact
<1>5. m \in DOMAIN Facts(s) /\ n \in DOMAIN Facts(s)
  BY <1>3 DEF TInv, Own
<1>. QED
  BY <1>1, <1>4, <1>5 DEF SaysTwice

LEMMA ApplyFits ==
  ASSUME TInv, RowsInv, RowsFit, NEW s \in Sessions, ApplyFact(s), fresh[s], CopyFits(s)
  PROVE  CopyFits(s)' /\ RowsFit'
<1> DEFINE n == NextFact(s)
           f == Facts(s)[n]
<1>0. /\ At(s, "writing") /\ UNCHANGED <<pc, rows, committed, story, said, part>>
      /\ work'[s] = Applied(s, f, work[s]) /\ todo'[s] = todo[s] \ {n}
  BY DEF ApplyFact, TInv, RunTypes, RowTypes, Put, given, history
<1>1. n \in todo[s] /\ n \in DOMAIN Facts(s) /\ todo[s] \subseteq part[s]
  <2>1. Facts(s) \in Seq(Fact) /\ todo[s] \subseteq part[s] /\ part[s] \subseteq DOMAIN Facts(s)
    BY FactsType DEF TInv, Own
  <2>. QED
    BY <2>1, NextFactTodo DEF ApplyFact
<1>2. Facts(s)' = Facts(s) /\ (Replays(s)' <=> Replays(s))
  BY <1>0 DEF Facts, Replays, SaysTwice, At
<1>3. IsRows(work[s]) /\ Extends(rows, work[s]) /\ IsRows(rows)
  BY <1>0 DEF RowsInv, Copy
<1>4. /\ Updates(s, f, work[s], work'[s])
      /\ Ordered(work[s]) => Ordered(work'[s])
      /\ \/ AlreadyStored(s, f, work[s]) \/ f.status # Decided
         \/ work'[s] = work[s] \/ HasRow(work'[s], f.key)
  BY <1>0, <1>3, AppliedUpdates
<1> HIDE DEF n
<1>5. \A i \in DOMAIN work'[s] \ DOMAIN rows : OpenedIn(s, work'[s][i])
  BY <1>4 DEF CopyFits, Updates, OpenedIn
<1>6. ASSUME NEW i \in DOMAIN work'[s], NEW x \in work'[s][i].seen
      PROVE  \/ committed[x[1]] # "nothing"
             \/ \E m \in part[s] \ todo'[s] :
                  SameFact(work'[s][i], Facts(s)[m]) /\ x = <<s, Facts(s)[m].turn>>
  <2>1. CASE SameFact(work'[s][i], f) /\ x = <<s, f.turn>>
    BY <1>0, <1>1, <2>1
  <2>2. CASE i \in DOMAIN work[s] /\ x \in work[s][i].seen
    <3>1. SameFact(work'[s][i], work[s][i])
      BY <1>4, <2>2 DEF Updates
    <3>. QED
      BY <1>0, <2>2, <3>1 DEF CopyFits, SameFact
  <2>. QED
    BY <1>4, <2>1, <2>2 DEF Updates
<1>7. ASSUME ~Replays(s), NEW k \in Keys \ EdgeKeys, HasRow(rows, k)
      PROVE  HasRow(work'[s], k) \/ Lost(s, k)'
  <2>1. CASE Lost(s, k)
    <3>1. PICK i \in DOMAIN rows : /\ Stands(rows[i], k) /\ ~Live(work[s][i])
                                   /\ LostTo(s, k, rows[i].value, work[s][i].until)
      BY <2>1 DEF Lost
    <3>2. i \in DOMAIN work[s]
      BY <1>3 DEF Extends, IsRows
    <3>3. work'[s][i].until = work[s][i].until
      BY <1>4, <3>1, <3>2 DEF Updates
    <3>. QED
      BY <1>0, <1>2, <3>1, <3>3 DEF Lost, LostTo, Live
  <2>2. CASE HasRow(work[s], k)
    <3>1. PICK j \in DOMAIN work[s] : Stands(work[s][j], k)
      BY <2>2 DEF HasRow
    <3>2. j \in DOMAIN work'[s] /\ SameFact(work'[s][j], work[s][j])
      BY <1>4 DEF Updates
    <3>3. CASE Live(work'[s][j])
      BY <3>1, <3>2, <3>3 DEF HasRow, Stands, SameFact
    <3>4. CASE ~Live(work'[s][j])
      <4>1. EndsBy(s, f, work[s][j], work'[s][j].until) /\ work'[s] # work[s]
        BY <1>4, <3>1, <3>4 DEF Updates, Stands, Live
      <4>2. CASE f.status = Decided /\ f.key = k
        BY <1>0, <1>1, <1>4, <1>7, <4>1, <4>2, NothingStored
      <4>3. CASE ~(f.status = Decided /\ f.key = k)
        <5>1. /\ ~OpenedIn(s, work[s][j])
              /\ \/ work'[s][j].until = <<s, "rejected">>
                 \/ /\ work'[s][j].until = <<s, "replaced">> /\ work[s][j].value = f.replaces
                    /\ f.key # k
          BY <3>1, <4>1, <4>3 DEF EndsBy, Stands
        <5>2. j \in DOMAIN rows
          BY <5>1 DEF CopyFits
        <5>3. Stands(rows[j], k) /\ rows[j].value = work[s][j].value
          BY <1>3, <3>1, <5>2 DEF Extends, SameFact, Stands, Live
        <5>4. LostTo(s, k, rows[j].value, work'[s][j].until)
          BY <1>1, <5>1, <5>3 DEF LostTo
        <5>. QED
          BY <1>0, <1>2, <3>4, <5>2, <5>3, <5>4 DEF Lost, LostTo, Live
      <4>. QED
        BY <4>2, <4>3
    <3>. QED
      BY <3>3, <3>4
  <2>. QED
    BY <1>7, <2>1, <2>2 DEF CopyFits
<1>8. CopyFits(s)'
  BY <1>0, <1>2, <1>4, <1>5, <1>6, <1>7 DEF CopyFits
<1>9. RowsFit'
  BY <1>0 DEF RowsFit, Recorded
<1>. QED
  BY <1>8, <1>9

\* Storing the copy records the session with its sightings.
LEMMA CommitFits ==
  ASSUME TInv, RowsFit, NEW s \in Sessions, Commit(s), fresh[s] => CopyFits(s)
  PROVE  RowsFit'
<1>1. /\ \A t \in Sessions : committed[t] # "nothing" => committed'[t] # "nothing"
      /\ committed'[s] # "nothing"
  BY DEF Commit, TInv, PastTypes, Put
<1>2. CASE rows' = rows
  <2>1. \A i \in DOMAIN rows : \A x \in rows[i].seen : x[1] \in Sessions
    <3>1. \A i \in DOMAIN rows : rows[i] \in Row
      BY RowsType DEF TInv, RowTypes
    <3>. QED
      BY <3>1 DEF Row, Sighting
  <2>. QED
    BY <1>1, <1>2, <2>1 DEF RowsFit, Recorded
<1>3. CASE rows' # rows
  <2>1. rows' = work[s] /\ CopyFits(s)
    BY <1>3 DEF Commit, Conflicts, Store, KeepRows
  <2>2. \A i \in DOMAIN rows' : \A x \in rows'[i].seen : x[1] \in Sessions
    <3>1. \A i \in DOMAIN work[s] : work[s][i] \in Row
      BY RowsType DEF TInv, RowTypes
    <3>. QED
      BY <2>1, <3>1 DEF Row, Sighting
  <2>3. \A i \in DOMAIN rows' : \A x \in rows'[i].seen : committed[x[1]] # "nothing" \/ x[1] = s
    BY <2>1 DEF CopyFits
  <2>. QED
    BY <1>1, <2>1, <2>2, <2>3 DEF RowsFit, Recorded, CopyFits
<1>. QED
  BY <1>2, <1>3

---------------------------------------------------------------------------
(* A key does not lose its last value: the pairs that are settled.          *)

\* A pair that waits to be settled: its new row is held. What is left to settle is
\* about newer rows than the pair in hand.
Awaits(h) ==
  /\ h.new \in DOMAIN rows /\ Live(rows[h.new]) /\ Pending(rows[h.new])
  /\ h.key = rows[h.new].key /\ h.old < h.new /\ ~h.judged
Free(s) == holds[s] = {} /\ pair[s] = NoPair
Verdict(s) == pair[s].why \in {"consolidated", "duplicate"} /\ holds[s] = {}
Replaced(s) ==
  /\ ~pair[s].judged /\ New(s) \in DOMAIN rows /\ Current(rows[New(s)])
  /\ pair[s].key = rows[New(s)].key /\ pair[s].old < New(s)
Handling == {"stamping", "restoring", "recovering", "closing", "writing back"}
Places(s) ==
  /\ At(s, "dropping") => ~pair[s].judged /\ New(s) \in DOMAIN rows /\ Pending(rows[New(s)])
  /\ At(s, "taking") => pair[s].judged \/ Awaits(pair[s])
  /\ At(s, "stamping") => Replaced(s)
  /\ pc[s] \in {"stamping", "restoring", "recovering"} => Mid(s)
  /\ At(s, "closing") \/ At(s, "writing back") => pair[s].judged /\ (Mid(s) \/ New(s) = 0)
  /\ (pc[s] \in Handling /\ New(s) \in DOMAIN rows) =>
       rows[New(s)].status = Decided /\ pair[s].taken[2] < New(s)
Ready(s) ==
  /\ pc[s] \in {"waiting", "begin", "writing", "written", "done"} => Free(s)
  /\ At(s, "judging") => holds[s] = {}
  /\ pair[s].judged => Verdict(s)
  /\ \A h \in holds[s] : Awaits(h) /\ pair[s].new < h.new /\ pair[s].old < h.new
  /\ \A g, h \in holds[s] : g.new = h.new => g = h
  /\ Places(s)

Places0 == {"waiting", "begin", "writing", "written", "settling", "judging", "finished", "done"}

\* A session with nothing to settle is ready.
LEMMA FreeReady ==
  ASSUME NEW s, Free(s)', pc'[s] \in Places0
  PROVE  Ready(s)'
<1>1. holds'[s] = {} /\ pair'[s] = NoPair
  BY DEF Free
<1>2. ~NoPair.judged
  BY DEF NoPair
<1>. QED
  BY <1>1, <1>2 DEF Ready, Places, Handling, At, Free, Places0

LEMMA RunReady ==
  ASSUME TInv, NEW s \in Sessions, Ready(s),
         \/ \E read \in SUBSET DOMAIN Told(s), known \in {rows, <<>>}, sw \in Switches :
              Begin(s, read, known, sw)
         \/ BeginTx(s) \/ ApplyFact(s) \/ Commit(s) \/ Conflict(s) \/ ConflictAgain(s)
         \/ Mark(s) \/ Kill(s)
  PROVE  Ready(s)'
<1>0. RunTypes /\ RowTypes
  BY DEF TInv
<1>1. CASE \/ \E read \in SUBSET DOMAIN Told(s), known \in {rows, <<>>}, sw \in Switches :
              Begin(s, read, known, sw)
           \/ BeginTx(s) \/ ApplyFact(s) \/ Commit(s) \/ Conflict(s)
  <2>1. /\ pc[s] \in {"waiting", "begin", "writing"} /\ UNCHANGED <<holds, pair>>
        /\ pc'[s] \in {"begin", "writing", "written"}
    BY <1>0, <1>1 DEF Begin, BeginTx, ApplyFact, Commit, Conflict, At, Goto, Put, RunTypes
  <2>2. Free(s)'
    BY <2>1 DEF Ready, Free
  <2>. QED
    BY <2>1, <2>2, FreeReady DEF Places0
<1>2. CASE ConflictAgain(s) \/ Mark(s) \/ Kill(s)
  <2>1. pc'[s] \in {"waiting", "done"} /\ holds'[s] = {} /\ pair'[s] = NoPair
    BY <1>0, <1>2 DEF ConflictAgain, Mark, Kill, Forget, Goto, Put, RunTypes, RowTypes
  <2>2. Free(s)'
    BY <2>1 DEF Free
  <2>. QED
    BY <2>1, <2>2, FreeReady DEF Places0
<1>. QED
  BY <1>1, <1>2

\* A pair waits as long as its new row is left alone.
LEMMA AwaitsStill ==
  ASSUME NEW c, NEW h, Awaits(h), h.new # c, DOMAIN rows \subseteq DOMAIN rows',
         \A j \in DOMAIN rows \ {c} : rows'[j] = rows[j]
  PROVE  Awaits(h)'
<1>1. h' = h /\ h.new \in DOMAIN rows \ {c}
  BY DEF Awaits
<1>. QED
  BY <1>1 DEF Awaits

\* The rows that are held are those whose hold names an earlier row.
LEMMA SettleReady ==
  ASSUME TInv, RowsFit, NEW s \in Sessions, Ready(s), Settle(s)
  PROVE  Ready(s)'
<1> DEFINE I == {j \in Held : rows[j].pending[1] # s /\ rows[j].pending[2] \in DOMAIN rows}
           H == {Hold(i) : i \in I}
<1>0. RunTypes /\ RowTypes
  BY DEF TInv
<1>1. Free(s) /\ pc[s] = "written" /\ UNCHANGED <<rows, pair>> /\ pc'[s] \in {"settling", "finished"}
  BY <1>0 DEF Settle, Ready, At, Goto, Put, RunTypes
<1>2. CASE UNCHANGED holds
  <2>1. Free(s)'
    BY <1>1, <1>2 DEF Free
  <2>. QED
    BY <1>1, <2>1, FreeReady DEF Places0
<1>3. CASE holds' = Put(holds, s, H)
  <2>1. holds'[s] = H
    BY <1>0, <1>3 DEF Put, RunTypes
  <2>2. ASSUME NEW i \in I
        PROVE  /\ i \in DOMAIN rows /\ Live(rows[i]) /\ Pending(rows[i])
               /\ Hold(i).new = i /\ Hold(i).key = rows[i].key /\ Hold(i).old = rows[i].pending[2]
               /\ ~Hold(i).judged
    BY DEF Held, Hold, NoPair
  <2>3. \A h \in H : h.new \in Nat \ {0} /\ Awaits(h)
    <3>1. DOMAIN rows \subseteq Nat \ {0}
      BY <1>0, RowsType DEF RowTypes
    <3>2. ASSUME NEW i \in I PROVE Hold(i).new \in Nat \ {0} /\ Awaits(Hold(i))
      BY <2>2, <3>1 DEF RowsFit, Ordered, Awaits
    <3>. QED
      BY <3>2
  <2>4. pair'[s] = NoPair /\ NoPair.new = 0 /\ NoPair.old = 0 /\ ~NoPair.judged
    BY <1>1 DEF Free, NoPair
  <2>5. \A g, h \in H : g.new = h.new => g = h
    BY <2>2
  <2> HIDE DEF H
  <2>6. ASSUME NEW h \in H
        PROVE  /\ h.new \in DOMAIN rows' /\ Live(rows'[h.new]) /\ Pending(rows'[h.new])
               /\ h.key = rows'[h.new].key /\ h.old < h.new /\ ~h.judged
               /\ NoPair.new < h.new /\ NoPair.old < h.new
    BY <1>1, <2>3, <2>4 DEF Awaits
  <2>7. \A h \in holds'[s] : Awaits(h)' /\ NoPair.new < h.new /\ NoPair.old < h.new
    BY <2>1, <2>6 DEF Awaits
  <2>8. \A g, h \in holds'[s] : g.new = h.new => g = h
    BY <2>1, <2>5
  <2>. QED
    BY <1>1, <2>4, <2>7, <2>8 DEF Ready, Places, Handling, At
<1>. QED
  BY <1>2, <1>3 DEF Settle

\* The oldest pair is taken, so what is left is about later rows.
LEMMA ConsiderReady ==
  ASSUME TInv, NEW s \in Sessions, Ready(s), Consider(s)
  PROVE  Ready(s)'
<1> DEFINE h == CHOOSE x \in holds[s] : \A y \in holds[s] : x.new <= y.new
           already == Has(h.old, h.oldValue) /\ ~Live(rows[h.old])
           p == [h EXCEPT !.already = already]
<1>0. RunTypes /\ RowTypes
  BY DEF TInv
<1>1. /\ h \in holds[s] /\ h \in HoldType
      /\ \A y \in holds[s] : h.new <= y.new /\ y.new \in Nat
  <2>1. holds[s] \in SUBSET HoldType /\ holds[s] # {}
    BY <1>0 DEF RunTypes, Consider
  <2>2. h \in holds[s] /\ \A y \in holds[s] : h.new <= y.new
    BY <2>1, FirstHold
  <2>3. holds[s] \subseteq HoldType /\ \A y \in HoldType : y.new \in Nat
    BY <2>1 DEF HoldType, PairType
  <2> HIDE DEF h
  <2>. QED
    BY <2>2, <2>3
<1>2. PICK place \in {"settling", "dropping", "taking"} :
        /\ Goto(s, place)
        /\ pair' = Put(pair, s, p) \/ (pair' = Put(pair, s, NoPair) /\ place = "settling")
        /\ holds' = Put(holds, s, holds[s] \ {h})
        /\ UNCHANGED rows /\ pc[s] = "settling"
  BY DEF Consider, At
<1> HIDE DEF h, already
<1>3. /\ pc'[s] = place /\ holds'[s] = holds[s] \ {h}
      /\ pair'[s] = p \/ (pair'[s] = NoPair /\ place = "settling")
  BY <1>0, <1>2 DEF Goto, Put, RunTypes, RowTypes
<1>4. Awaits(h) /\ ~h.judged
  BY <1>1 DEF Ready, Awaits
<1>5. /\ p.new = h.new /\ p.old = h.old /\ p.key = h.key /\ p.judged = h.judged
      /\ NoPair.new = 0 /\ NoPair.old = 0 /\ ~NoPair.judged
  BY <1>1 DEF HoldType, PairType, NoPair
<1> HIDE DEF p
<1>6. ASSUME NEW g \in holds[s] \ {h}
      PROVE  Awaits(g)' /\ pair'[s].new < g.new /\ pair'[s].old < g.new
  <2>1. Awaits(g) /\ h.new < g.new
    BY <1>1, <1>6 DEF Ready
  <2>2. Awaits(g)'
    BY <1>2, <2>1, AwaitsStill
  <2>3. h.old < g.new /\ 0 < g.new
    <3>1. h.old \in Nat /\ h.new \in Nat /\ g.new \in Nat /\ h.old < h.new
      BY <1>1, <1>4, <1>6 DEF HoldType, PairType, Awaits
    <3>. QED
      BY <2>1, <3>1
  <2>. QED
    BY <1>3, <1>5, <2>1, <2>2, <2>3
<1>7. \A f, g \in holds'[s] : f.new = g.new => f = g
  BY <1>3 DEF Ready
<1>8. ~pair'[s].judged
  BY <1>3, <1>4, <1>5
<1>9. Places(s)'
  <2>1. CASE place = "settling"
    BY <1>3, <2>1 DEF Places, Handling, At
  <2>2. CASE pair'[s] = p
    <3>1. Awaits(pair[s])' /\ Pending(rows[New(s)])' /\ New(s)' \in DOMAIN rows'
      BY <1>2, <1>4, <1>5, <2>2 DEF Awaits, New
    <3>. QED
      BY <1>3, <1>8, <3>1 DEF Places, Handling, At
  <2>. QED
    BY <1>3, <2>1, <2>2
<1>. QED
  BY <1>2, <1>3, <1>6, <1>7, <1>8, <1>9 DEF Ready, At

LEMMA JudgeReady ==
  ASSUME TInv, NEW s \in Sessions, Ready(s),
         \/ Load(s) \/ JudgeDone(s)
         \/ \E i \in part[s], j \in loaded[s].all :
              JudgeSupersedes(s, i, j) \/ JudgeDuplicate(s, i, j)
         \/ \E h \in open[s] : JudgeConfirms(s, h)
  PROVE  Ready(s)'
<1>0. RunTypes /\ RowTypes
  BY DEF TInv
<1>1. CASE Load(s)
  <2>1. /\ UNCHANGED <<rows, pair, holds>> /\ holds[s] = {} /\ pc'[s] = "judging"
    BY <1>0, <1>1 DEF Load, Goto, Put, RunTypes
  <2>. QED
    BY <2>1 DEF Ready, Places, Handling, At, Verdict
<1>2. CASE JudgeDone(s)
  <2>1. /\ UNCHANGED <<rows, pair, holds>> /\ holds[s] = {} /\ pc'[s] = "finished"
    BY <1>0, <1>2 DEF JudgeDone, settleRest, Goto, Put, RunTypes, Ready, At
  <2>. QED
    BY <2>1 DEF Ready, Places, Handling, At, Verdict
<1>3. ASSUME NEW i, NEW j, NEW why \in {"consolidated", "duplicate"}, Answer(s, i, j, why),
             At(s, "judging")
      PROVE  Ready(s)'
  <2>1. /\ UNCHANGED <<rows, holds>> /\ holds[s] = {} /\ pc'[s] = "closing"
        /\ pair'[s] = [NoPair EXCEPT !.old = j, !.oldValue = Read(s, j).value,
                                     !.judged = TRUE, !.why = why]
    BY <1>0, <1>3 DEF Answer, At, Goto, Put, RunTypes, RowTypes, Ready
  <2>2. pair'[s].judged /\ pair'[s].new = 0 /\ pair'[s].why = why
    BY <2>1 DEF NoPair
  <2>3. 0 \notin DOMAIN rows
    BY <1>0, RowsType DEF RowTypes
  <2>. QED
    BY <2>1, <2>2, <2>3 DEF Ready, Places, Handling, At, Verdict, New
<1>4. ASSUME NEW h \in open[s], JudgeConfirms(s, h)
      PROVE  Ready(s)'
  <2>1. PICK n, o : pair' = Put(pair, s, [h EXCEPT !.new = n, !.old = o, !.judged = TRUE,
                                                   !.why = "consolidated"])
    BY <1>4 DEF JudgeConfirms
  <2>2. /\ UNCHANGED <<rows, holds>> /\ holds[s] = {} /\ pc'[s] = "taking"
    BY <1>0, <1>4 DEF JudgeConfirms, At, Goto, Put, RunTypes, Ready
  <2>3. pair'[s].judged /\ pair'[s].why = "consolidated"
    <3>1. h \in PairType
      BY <1>0 DEF RunTypes, HoldType
    <3>2. pair'[s] = [h EXCEPT !.new = n, !.old = o, !.judged = TRUE, !.why = "consolidated"]
      BY <1>0, <2>1 DEF RowTypes, Put
    <3>. QED
      BY <3>1, <3>2 DEF PairType
  <2>. QED
    BY <2>2, <2>3 DEF Ready, Places, Handling, At, Verdict
<1>. QED
  BY <1>1, <1>2, <1>3, <1>4 DEF JudgeSupersedes, JudgeDuplicate, MayAnswer

---------------------------------------------------------------------------
(* A key does not lose its last value: the writes that settle a pair.      *)

\* A row is closed, held or released.
Marked(c, by, until) ==
  /\ c \in DOMAIN rows /\ DOMAIN rows' = DOMAIN rows
  /\ \A j \in DOMAIN rows \ {c} : rows'[j] = rows[j]
  /\ SameRow(rows[c], rows'[c]) /\ rows'[c].pending = by /\ rows'[c].until = until

LEMMA CloseMarks ==
  ASSUME RowsInv, NEW s, NEW c \in DOMAIN rows, NEW why, Close(s, c, why)
  PROVE  Marked(c, rows[c].pending, <<s, why>>)
<1> DEFINE r == [rows[c] EXCEPT !.until = <<s, why>>]
<1>1. rows' = [rows EXCEPT ![c] = r]
  BY DEF Close, EditRow, Store
<1>2. Shape(rows[c])
  BY DEF RowsInv, IsRows
<1>3. SameRow(rows[c], r) /\ r.pending = rows[c].pending /\ r.until = <<s, why>>
  BY <1>2 DEF Shape, SameRow
<1> HIDE DEF r
<1>. QED
  BY <1>1, <1>3 DEF Marked

LEMMA HoldMarks ==
  ASSUME RowsInv, NEW s, NEW c \in DOMAIN rows, NEW by,
         EditRow(s, c, [rows[c] EXCEPT !.pending = by])
  PROVE  Marked(c, by, rows[c].until)
<1> DEFINE r == [rows[c] EXCEPT !.pending = by]
<1>1. rows' = [rows EXCEPT ![c] = r]
  BY DEF EditRow, Store
<1>2. Shape(rows[c])
  BY DEF RowsInv, IsRows
<1>3. SameRow(rows[c], r) /\ r.pending = by /\ r.until = rows[c].until
  BY <1>2 DEF Shape, SameRow
<1> HIDE DEF r
<1>. QED
  BY <1>1, <1>3 DEF Marked

LEMMA MarkedFits ==
  ASSUME RowsFit, UNCHANGED committed, NEW c, NEW by, NEW until, Marked(c, by, until),
         by \in {rows[c].pending, None} \/ (rows[c].status = Decided /\ by[2] < c)
  PROVE  RowsFit'
<1>1. Ordered(rows')
  BY DEF RowsFit, Ordered, Pending, Marked, SameRow
<1>2. Recorded'
  BY DEF RowsFit, Recorded, Marked, SameRow
<1>. QED
  BY <1>1, <1>2 DEF RowsFit, Ordered

\* What NeverEmpty says of a step.
KeysKept ==
  \A k \in Keys \ EdgeKeys :
    (HasValue(rows, k) /\ ~HasValue(rows', k))
      => \/ overlapped \/ HasHeld(rows', k) \/ \E s \in Sessions : Replays(s)
         \/ \E i \in DOMAIN rows : /\ rows[i].key = k /\ Live(rows[i])
                                   /\ ~Live(rows'[i]) /\ ToAnotherKey(i)

\* The row that is marked is the one a key may lose.
LEMMA MarkedKeeps ==
  ASSUME NEW c, NEW by, NEW until, Marked(c, by, until),
         \/ Pending(rows[c])
         \/ by # None /\ until = rows[c].until
         \/ HasValue(rows', rows[c].key)
         \/ until # None /\ ToAnotherKey(c)
  PROVE  KeysKept
<1> SUFFICES ASSUME NEW k \in Keys \ EdgeKeys, HasValue(rows, k), ~HasValue(rows', k)
             PROVE  \/ HasHeld(rows', k)
                    \/ \E i \in DOMAIN rows : /\ rows[i].key = k /\ Live(rows[i])
                                              /\ ~Live(rows'[i]) /\ ToAnotherKey(i)
  BY DEF KeysKept
<1>1. PICK i \in DOMAIN rows : rows[i].key = k /\ Current(rows[i])
  BY DEF HasValue
<1>2. i = c
  BY <1>1 DEF HasValue, Marked
<1>3. c \in DOMAIN rows /\ rows[c].key = k /\ Live(rows[c]) /\ ~Pending(rows[c])
  BY <1>1, <1>2 DEF Current
<1>4. CASE by # None /\ until = rows[c].until
  <2>1. c \in DOMAIN rows' /\ rows'[c].key = k /\ Live(rows'[c]) /\ Pending(rows'[c])
    BY <1>3, <1>4 DEF Marked, SameRow, Live, Pending
  <2>. QED
    BY <2>1 DEF HasHeld
<1>5. CASE until # None /\ ToAnotherKey(c)
  <2>1. ~Live(rows'[c])
    BY <1>5 DEF Marked, Live
  <2>. QED
    BY <1>3, <1>5, <2>1
<1>. QED
  BY <1>3, <1>4, <1>5

LEMMA StillKept == ASSUME UNCHANGED rows PROVE KeysKept
BY DEF KeysKept, HasValue

\* The rows of the pair in hand may change: the pairs left are about later rows.
PairOnly(s) ==
  \/ UNCHANGED rows
  \/ \E c \in {New(s), pair[s].old} : \E by, until : Marked(c, by, until)

LEMMA HoldsWait ==
  ASSUME TInv, NEW s \in Sessions, Ready(s), holds'[s] = holds[s], PairOnly(s)
  PROVE  /\ \A h \in holds'[s] : Awaits(h)' /\ pair[s].new < h.new /\ pair[s].old < h.new
         /\ \A g, h \in holds'[s] : g.new = h.new => g = h
<1> SUFFICES ASSUME NEW h \in holds[s]
             PROVE  Awaits(h)' /\ pair[s].new < h.new /\ pair[s].old < h.new
  BY DEF Ready
<1>1. Awaits(h) /\ pair[s].new < h.new /\ pair[s].old < h.new
  BY DEF Ready
<1>2. h.new \in Nat /\ pair[s].new \in Nat /\ pair[s].old \in Nat
  BY DEF TInv, RunTypes, RowTypes, HoldType, PairType
<1>3. CASE UNCHANGED rows
  <2>1. \A j \in DOMAIN rows \ {0} : rows'[j] = rows[j]
    BY <1>3
  <2>2. h.new # 0
    BY <1>1, <1>2
  <2>. QED
    BY <1>1, <1>3, <2>1, <2>2, AwaitsStill
<1>4. ASSUME NEW c \in {New(s), pair[s].old}, NEW by, NEW until, Marked(c, by, until)
      PROVE  Awaits(h)'
  <2>1. h.new # c
    BY <1>1, <1>2 DEF New
  <2>. QED
    BY <1>1, <1>4, <2>1, AwaitsStill DEF Marked
<1>. QED
  BY <1>1, <1>3, <1>4 DEF PairOnly

LEMMA NextPairReady ==
  ASSUME TInv, NEW s \in Sessions, Ready(s), UNCHANGED holds, NextPair(s), PairOnly(s)
  PROVE  Ready(s)'
<1>1. /\ pair'[s] = NoPair /\ NoPair.new = 0 /\ NoPair.old = 0 /\ ~NoPair.judged
      /\ pc'[s] = IF pair[s].judged THEN "judging" ELSE "settling"
  BY DEF TInv, RunTypes, RowTypes, NextPair, Goto, Put, NoPair
<1>2. \A h \in holds'[s] : Awaits(h)' /\ 0 < h.new
  <2>1. \A h \in holds[s] : h.new \in Nat \ {0}
    BY DEF TInv, RunTypes, HoldType, PairType
  <2>. QED
    BY <2>1, HoldsWait
<1>3. \A g, h \in holds'[s] : g.new = h.new => g = h
  BY HoldsWait
<1>4. pair[s].judged => holds'[s] = {}
  BY DEF Ready, Verdict
<1>. QED
  BY <1>1, <1>2, <1>3, <1>4 DEF Ready, Places, Handling, At

\* The pair stays in hand, taken apart or not.
SamePair(p, q) ==
  /\ q.new = p.new /\ q.old = p.old /\ q.key = p.key
  /\ q.judged = p.judged /\ q.why = p.why

LEMMA SamePairReady ==
  ASSUME TInv, NEW s \in Sessions, Ready(s), UNCHANGED holds, SamePair(pair[s], pair'[s]),
         PairOnly(s), pc'[s] \in Handling, Places(s)'
  PROVE  Ready(s)'
<1>1. /\ \A h \in holds'[s] : Awaits(h)' /\ pair'[s].new < h.new /\ pair'[s].old < h.new
      /\ \A g, h \in holds'[s] : g.new = h.new => g = h
  BY HoldsWait DEF SamePair
<1>2. pair'[s].judged => Verdict(s)'
  BY DEF Ready, Verdict, SamePair
<1>. QED
  BY <1>1, <1>2 DEF Ready, Handling, At

LEMMA KeepPairReady ==
  ASSUME TInv, NEW s \in Sessions, Ready(s), UNCHANGED <<holds, rows>>, pc[s] \in Handling,
         NEW p \in {"restoring", "recovering", "writing back"}, KeepPair(s, p),
         p = "writing back" => At(s, "closing"),
         p # "writing back" => Mid(s)
  PROVE  Ready(s)'
<1>1. pair' = pair /\ pc'[s] = p
  BY KeepPairKeeps
<1>2. Places(s)'
  BY <1>1 DEF Ready, Places, Handling, At, Mid, New
<1>. QED
  BY <1>1, <1>2, SamePairReady DEF SamePair, PairOnly, Handling

\* What a step leaves as it should be.
Fit(s) == Ready(s)' /\ RowsFit' /\ KeysKept

LEMMA QuietFits ==
  ASSUME RowsFit, NEW s, UNCHANGED <<rows, committed>>, Ready(s)'
  PROVE  Fit(s)
BY StillKept DEF Fit, RowsFit, Ordered, Recorded

LEMMA MarkFits ==
  ASSUME RowsFit, NEW s, UNCHANGED committed, Ready(s)', NEW c, NEW by, NEW until,
         Marked(c, by, until),
         by \in {rows[c].pending, None} \/ (rows[c].status = Decided /\ by[2] < c),
         \/ Pending(rows[c])
         \/ by # None /\ until = rows[c].until
         \/ HasValue(rows', rows[c].key)
         \/ until # None /\ ToAnotherKey(c)
  PROVE  Fit(s)
BY MarkedFits, MarkedKeeps DEF Fit

LEMMA DropFits ==
  ASSUME TInv, RowsInv, RowsFit, NEW s \in Sessions, Ready(s), DropHeld(s)
  PROVE  Fit(s)
<1>0. UNCHANGED <<holds, committed>> /\ At(s, "dropping") /\ NextPair(s)
  BY DEF DropHeld, settleRest, history
<1>1. CASE KeepRows
  <2>1. UNCHANGED rows
    BY <1>1 DEF KeepRows
  <2>. QED
    BY <1>0, <2>1, NextPairReady, QuietFits DEF PairOnly
<1>2. CASE NewIsLive(s) /\ Close(s, New(s), "hold_dropped")
  <2>1. New(s) \in DOMAIN rows
    BY <1>2 DEF NewIsLive, Has
  <2>2. Marked(New(s), rows[New(s)].pending, <<s, "hold_dropped">>)
    BY <1>2, <2>1, CloseMarks
  <2>3. Pending(rows[New(s)])
    BY <1>0 DEF Ready, Places
  <2>4. Ready(s)'
    BY <1>0, <2>2, NextPairReady DEF PairOnly
  <2>. QED
    BY <1>0, <2>2, <2>3, <2>4, MarkFits
<1>. QED
  BY <1>1, <1>2 DEF DropHeld

LEMMA TakeFits ==
  ASSUME TInv, RowsInv, RowsFit, NEW s \in Sessions, Ready(s), TakePending(s)
  PROVE  Fit(s)
<1> DEFINE n == New(s)
<1>0. UNCHANGED <<holds, committed>> /\ At(s, "taking") /\ RunTypes /\ RowTypes
  BY DEF TInv, TakePending, settleRest, history
<1>1. CASE KeepRows /\ NextPair(s)
  <2>1. UNCHANGED rows
    BY <1>1 DEF KeepRows
  <2>. QED
    BY <1>0, <1>1, <2>1, NextPairReady, QuietFits DEF PairOnly
<1>2. CASE /\ NewIsHeld(s)
           /\ EditRow(s, n, [rows[n] EXCEPT !.pending = None])
           /\ IF pair[s].already THEN NextPair(s)
              ELSE /\ pair' = Put(pair, s, [pair[s] EXCEPT !.taken = rows[n].pending])
                   /\ Goto(s, IF pair[s].judged THEN "closing" ELSE "stamping")
  <2>1. n \in DOMAIN rows /\ Pending(rows[n])
    BY <1>2 DEF NewIsHeld
  <2>2. Marked(n, None, rows[n].until)
    BY <1>2, <2>1, HoldMarks
  <2>3. PairOnly(s)
    BY <2>2 DEF PairOnly
  <2>4. Ready(s)'
    <3>1. CASE pair[s].already
      BY <1>0, <1>2, <2>3, <3>1, NextPairReady
    <3>2. CASE ~pair[s].already
      <4>1. /\ pair'[s] = [pair[s] EXCEPT !.taken = rows[n].pending]
            /\ pc'[s] = IF pair[s].judged THEN "closing" ELSE "stamping"
        BY <1>0, <1>2, <3>2 DEF Put, Goto, RunTypes, RowTypes
      <4>2. SamePair(pair[s], pair'[s]) /\ pair'[s].taken = rows[n].pending
        <5>1. pair[s] \in PairType
          BY <1>0 DEF RowTypes
        <5>. QED
          BY <4>1, <5>1 DEF PairType, SamePair
      <4>3. Mid(s)' /\ New(s)' = n
        BY <2>1, <4>2 DEF Mid, Pending, SamePair, New
      <4>4. rows'[n].status = Decided /\ rows[n].pending[2] < n
        BY <2>1, <2>2 DEF RowsFit, Ordered, Marked, SameRow
      <4>5. ~pair[s].judged => Replaced(s)'
        <5> SUFFICES ASSUME ~pair[s].judged PROVE Replaced(s)'
          OBVIOUS
        <5>1. Awaits(pair[s])
          BY <1>0 DEF Ready, Places
        <5>2. n \in DOMAIN rows' /\ Current(rows'[n]) /\ rows'[n].key = rows[n].key
          BY <2>2, <4>4, <5>1 DEF Marked, SameRow, Current, Live, Pending, Awaits, New
        <5>. QED
          BY <4>2, <4>3, <5>1, <5>2 DEF Replaced, Awaits, SamePair, New
      <4>6. Places(s)'
        BY <4>1, <4>2, <4>3, <4>4, <4>5 DEF Places, Handling, At, SamePair
      <4>. QED
        BY <1>0, <2>3, <4>1, <4>2, <4>6, SamePairReady DEF Handling
    <3>. QED
      BY <3>1, <3>2
  <2>. QED
    BY <1>0, <2>1, <2>2, <2>4, MarkFits
<1>. QED
  BY <1>1, <1>2 DEF TakePending

\* The old row is closed while the new one is current: its key loses nothing, or the
\* pair is about another key.
LEMMA StampFits ==
  ASSUME TInv, RowsInv, RowsFit, NEW s \in Sessions, Ready(s), StampOld(s)
  PROVE  Fit(s)
<1> DEFINE old == pair[s].old
           until == <<s, "superseded">>
<1>0. UNCHANGED <<holds, committed>> /\ At(s, "stamping") /\ Mid(s)
  BY DEF StampOld, settleRest, history, Ready, Places, At
<1>1. CASE KeepRows /\ KeepPair(s, "restoring")
  <2>1. UNCHANGED rows
    BY <1>1 DEF KeepRows
  <2>. QED
    BY <1>0, <1>1, <2>1, KeepPairReady, QuietFits DEF Handling, At
<1>2. CASE OldIsLive(s) /\ Close(s, old, "superseded") /\ NextPair(s)
  <2>1. old \in DOMAIN rows
    BY <1>2 DEF OldIsLive, Has
  <2>2. Marked(old, rows[old].pending, until)
    BY <1>2, <2>1, CloseMarks
  <2>3. Ready(s)'
    BY <1>0, <1>2, <2>2, NextPairReady DEF PairOnly
  <2>4. /\ New(s) \in DOMAIN rows /\ Current(rows[New(s)])
        /\ pair[s].key = rows[New(s)].key /\ old < New(s)
    BY <1>0 DEF Ready, Places, Replaced
  <2>5. New(s) # old
    BY <2>1, <2>4 DEF TInv, RowTypes, PairType, New
  <2>6. CASE pair[s].key = rows[old].key
    <3>1. HasValue(rows', rows[old].key)
      BY <2>2, <2>4, <2>5, <2>6 DEF HasValue, Marked
    <3>. QED
      BY <1>0, <2>2, <2>3, <3>1, MarkFits
  <2>7. CASE pair[s].key # rows[old].key
    <3>1. rows'[old].until = until
      BY <2>2 DEF Marked
    <3>2. ToAnotherKey(old)
      BY <2>7, <3>1 DEF ToAnotherKey
    <3>3. until # None
      BY ClosedBySomebody DEF Reason
    <3>. QED
      BY <1>0, <2>2, <2>3, <3>2, <3>3, MarkFits
  <2>. QED
    BY <2>6, <2>7
<1>. QED
  BY <1>1, <1>2 DEF StampOld

\* A hold that is put back is the one the row had.
LEMMA RestoreFits ==
  ASSUME TInv, RowsInv, RowsFit, NEW s \in Sessions, Ready(s), UNCHANGED <<holds, committed>>,
         pc[s] \in Handling, Mid(s), Restorable(s), Restore(s), NextPair(s)
  PROVE  Fit(s)
<1> DEFINE n == New(s)
           by == pair[s].taken
<1>1. n \in DOMAIN rows /\ Live(rows[n])
  BY DEF Restorable
<1>2. Marked(n, by, rows[n].until)
  BY <1>1, HoldMarks DEF Restore
<1>3. Ready(s)'
  BY <1>2, NextPairReady DEF PairOnly
<1>4. rows[n].status = Decided /\ by[2] < n /\ by # None
  BY <1>1 DEF Ready, Places, Mid
<1>. QED
  BY <1>2, <1>3, <1>4, MarkFits

LEMMA RestoringFits ==
  ASSUME TInv, RowsInv, RowsFit, NEW s \in Sessions, Ready(s), RestorePending(s)
  PROVE  Fit(s)
<1>0. UNCHANGED <<holds, committed>> /\ pc[s] \in Handling /\ Mid(s)
  BY DEF RestorePending, settleRest, history, Ready, Places, At, Handling
<1>1. CASE KeepRows /\ KeepPair(s, "recovering")
  <2>1. UNCHANGED rows
    BY <1>1 DEF KeepRows
  <2>. QED
    BY <1>0, <1>1, <2>1, KeepPairReady, QuietFits
<1>2. CASE Restorable(s) /\ Restore(s) /\ NextPair(s)
  BY <1>0, <1>2, RestoreFits
<1>. QED
  BY <1>1, <1>2 DEF RestorePending

LEMMA RecoverFits ==
  ASSUME TInv, RowsInv, RowsFit, NEW s \in Sessions, Ready(s), RecoverPending(s)
  PROVE  Fit(s)
<1> DEFINE n == New(s)
           until == <<s, "hold_dropped">>
<1>0. UNCHANGED <<holds, committed>> /\ pc[s] \in Handling /\ Mid(s) /\ NextPair(s)
  BY DEF RecoverPending, settleRest, history, Ready, Places, At, Handling
<1>1. CASE KeepRows
  <2>1. UNCHANGED rows
    BY <1>1 DEF KeepRows
  <2>. QED
    BY <1>0, <2>1, NextPairReady, QuietFits DEF PairOnly
<1>2. CASE Restorable(s) /\ Restore(s)
  BY <1>0, <1>2, RestoreFits
<1>3. CASE NewIsLive(s) /\ Close(s, n, "hold_dropped")
  <2>1. n \in DOMAIN rows
    BY <1>3 DEF NewIsLive, Has
  <2>2. Marked(n, rows[n].pending, until)
    BY <1>3, <2>1, CloseMarks
  <2>3. Ready(s)'
    BY <1>0, <2>2, NextPairReady DEF PairOnly
  <2>4. rows'[n].until = until
    BY <2>2 DEF Marked
  <2>5. ToAnotherKey(n)
    BY <1>0, <2>4 DEF ToAnotherKey, Mid
  <2>6. until # None
    BY ClosedBySomebody DEF Reason
  <2>. QED
    BY <1>0, <2>2, <2>3, <2>5, <2>6, MarkFits
<1>. QED
  BY <1>1, <1>2, <1>3 DEF RecoverPending

\* A verdict closes its row, or puts back the hold it had taken.
LEMMA NotClosedFits ==
  ASSUME TInv, RowsFit, NEW s \in Sessions, Ready(s), UNCHANGED <<holds, committed>>,
         pc[s] \in {"closing", "writing back"}, KeepRows, NotClosed(s)
  PROVE  Fit(s)
<1>0. UNCHANGED rows /\ (New(s) # 0 => Mid(s)) /\ pc[s] \in Handling
  BY DEF KeepRows, Ready, Places, At, Handling
<1>1. CASE New(s) # 0 /\ KeepPair(s, "restoring")
  BY <1>0, <1>1, KeepPairReady, QuietFits
<1>2. CASE NextPair(s)
  BY <1>0, <1>2, NextPairReady, QuietFits DEF PairOnly
<1>. QED
  BY <1>1, <1>2 DEF NotClosed

LEMMA VerdictFits ==
  ASSUME TInv, RowsInv, RowsFit, NEW s \in Sessions, Ready(s), UNCHANGED <<holds, committed>>,
         pair[s].judged, NextPair(s),
         Marked(pair[s].old, rows[pair[s].old].pending, <<s, pair[s].why>>)
  PROVE  Fit(s)
<1> DEFINE old == pair[s].old
           until == <<s, pair[s].why>>
<1>1. pair[s].why \in {"consolidated", "duplicate"}
  BY DEF Ready, Verdict
<1>2. rows'[old].until = until /\ until # None
  BY <1>1, ClosedBySomebody DEF Marked, Reason
<1>3. ToAnotherKey(old)
  BY <1>1, <1>2 DEF ToAnotherKey
<1>4. Ready(s)'
  BY NextPairReady DEF PairOnly
<1>. QED
  BY <1>2, <1>3, <1>4, MarkFits

LEMMA CloseReadFits ==
  ASSUME TInv, RowsInv, RowsFit, NEW s \in Sessions, Ready(s), CloseRead(s)
  PROVE  Fit(s)
<1>0. UNCHANGED <<holds, committed>> /\ At(s, "closing") /\ pc[s] \in Handling /\ pair[s].judged
  BY DEF CloseRead, history, At, Handling, Ready, Places
<1>1. CASE UNCHANGED rows /\ KeepPair(s, "writing back")
  BY <1>0, <1>1, KeepPairReady, QuietFits
<1>2. CASE MayClose(s) /\ Close(s, pair[s].old, pair[s].why) /\ NextPair(s)
  <2>1. pair[s].old \in DOMAIN rows
    BY <1>2 DEF MayClose, OldIsLive, Has
  <2>. QED
    BY <1>0, <1>2, <2>1, CloseMarks, VerdictFits
<1>3. CASE KeepRows /\ NotClosed(s)
  BY <1>0, <1>3, NotClosedFits DEF At
<1>. QED
  BY <1>1, <1>2, <1>3 DEF CloseRead

LEMMA CloseWriteFits ==
  ASSUME TInv, RowsInv, RowsFit, NEW s \in Sessions, Ready(s), CloseWrite(s), fresh[s]
  PROVE  Fit(s)
<1> DEFINE old == pair[s].old
           why == pair[s].why
<1>0. UNCHANGED <<holds, committed>> /\ At(s, "writing back") /\ pair[s].judged
  BY DEF CloseWrite, history, At, Ready, Places
<1>1. CASE Store(s, StampRows(work[s], {old}, s, why)) /\ NextPair(s)
  <2>1. work[s] = rows /\ old \in DOMAIN rows /\ IsRows(rows)
    BY <1>0 DEF RowsInv, Copy
  <2>2. rows' = StampRows(rows, {old}, s, why)
    BY <1>1, <2>1 DEF Store
  <2> HIDE DEF old, why
  <2>3. /\ DOMAIN rows' = DOMAIN rows /\ \A j \in DOMAIN rows \ {old} : rows'[j] = rows[j]
        /\ rows'[old] = [rows[old] EXCEPT !.until = <<s, why>>]
    BY <2>1, <2>2 DEF StampRows
  <2>4. Shape(rows[old])
    BY <2>1 DEF IsRows
  <2>5. /\ SameRow(rows[old], rows'[old]) /\ rows'[old].pending = rows[old].pending
        /\ rows'[old].until = <<s, why>>
    BY <2>3, <2>4 DEF Shape, SameRow
  <2>6. Marked(old, rows[old].pending, <<s, why>>)
    BY <2>1, <2>3, <2>5 DEF Marked
  <2>. QED
    BY <1>0, <1>1, <2>6, VerdictFits DEF old, why
<1>2. CASE KeepRows /\ NotClosed(s)
  BY <1>0, <1>2, NotClosedFits DEF At
<1>. QED
  BY <1>1, <1>2 DEF CloseWrite

---------------------------------------------------------------------------
(* A key does not lose its last value: every step.                           *)

\* The copy that is stored has a standing row for each key that had a value, or lost
\* it to a fact about another key.
LEMMA CommitKeeps ==
  ASSUME NEW s \in Sessions, Commit(s), fresh[s] => CopyFits(s)
  PROVE  KeysKept
<1> SUFFICES ASSUME rows' # rows,
                    NEW k \in Keys \ EdgeKeys, HasValue(rows, k), ~HasValue(rows', k), ~Replays(s)
             PROVE  \/ HasHeld(rows', k)
                    \/ \E i \in DOMAIN rows : /\ rows[i].key = k /\ Live(rows[i])
                                              /\ ~Live(rows'[i]) /\ ToAnotherKey(i)
  BY StillKept DEF KeysKept
<1>1. rows' = work[s] /\ CopyFits(s)
  BY DEF Commit, Conflicts, Store, KeepRows
<1>2. HasRow(rows, k)
  BY DEF HasValue, HasRow, Stands, Current
<1>3. CASE HasRow(work[s], k)
  BY <1>1, <1>3 DEF HasRow, Stands, HasValue, HasHeld, Current
<1>4. CASE Lost(s, k)
  <2>1. PICK i \in DOMAIN rows : /\ Stands(rows[i], k) /\ ~Live(rows'[i])
                                 /\ LostTo(s, k, rows[i].value, rows'[i].until)
    BY <1>1, <1>4 DEF Lost
  <2>2. rows[i].key = k /\ Live(rows[i])
    BY <2>1 DEF Stands
  <2>3. ToAnotherKey(i)
    BY <2>1, <2>2 DEF LostTo, ToAnotherKey
  <2>. QED
    BY <2>1, <2>2, <2>3
<1>. QED
  BY <1>1, <1>2, <1>3, <1>4 DEF CopyFits

\* What a copy that may be stored is.
Copies(s) == At(s, "writing") /\ fresh[s] => CopyFits(s)

LEMMA StepFits ==
  ASSUME TInv, RowsInv, Alone, ~overlapped, RowsFit, NEW s \in Sessions, Ready(s), Copies(s),
         Step(s)
  PROVE  Fit(s) /\ Copies(s)'
<1>1. CASE BeginTx(s) \/ ApplyFact(s)
  <2>1. UNCHANGED <<rows, committed>> /\ Ready(s)'
    BY <1>1, RunReady DEF BeginTx, ApplyFact, history
  <2>2. CASE BeginTx(s)
    BY <2>1, <2>2, QuietFits, BeginTxFits DEF Copies
  <2>3. CASE ApplyFact(s)
    <3>1. At(s, "writing") /\ UNCHANGED fresh
      BY <2>3 DEF ApplyFact
    <3>. QED
      BY <2>1, <2>3, <3>1, QuietFits, ApplyFits DEF Copies
  <2>. QED
    BY <1>1, <2>2, <2>3
<1>2. ASSUME ~(BeginTx(s) \/ ApplyFact(s))
      PROVE  Copies(s)'
  BY <1>2, WritingNow DEF Copies, At
<1>3. CASE Commit(s)
  <2>1. fresh[s] => CopyFits(s)
    BY <1>3 DEF Copies, Commit
  <2>2. Ready(s)'
    BY <1>3, RunReady
  <2>. QED
    BY <1>1, <1>2, <1>3, <2>1, <2>2, CommitFits, CommitKeeps DEF Fit
<1>4. CASE \/ \E read \in SUBSET DOMAIN Told(s), known \in {rows, <<>>}, sw \in Switches :
              Begin(s, read, known, sw)
           \/ Conflict(s) \/ ConflictAgain(s) \/ Mark(s) \/ Kill(s) \/ Settle(s) \/ Consider(s)
           \/ Load(s) \/ JudgeDone(s)
           \/ \E i \in part[s], j \in loaded[s].all :
                JudgeSupersedes(s, i, j) \/ JudgeDuplicate(s, i, j)
           \/ \E h \in open[s] : JudgeConfirms(s, h)
  <2>1. UNCHANGED <<rows, committed>>
    BY <1>4 DEF Begin, Conflict, ConflictAgain, Mark, Kill, Settle, Consider, Load, JudgeDone,
       JudgeSupersedes, JudgeDuplicate, Answer, JudgeConfirms, history, settleRest
  <2>2. Ready(s)'
    BY <1>4, RunReady, SettleReady, ConsiderReady, JudgeReady
  <2>. QED
    BY <1>1, <1>2, <2>1, <2>2, QuietFits
<1>5. CASE \/ DropHeld(s) \/ TakePending(s) \/ StampOld(s) \/ RestorePending(s)
           \/ RecoverPending(s) \/ CloseRead(s)
  BY <1>1, <1>2, <1>5, DropFits, TakeFits, StampFits, RestoringFits, RecoverFits, CloseReadFits
<1>6. CASE CloseWrite(s)
  <2>1. fresh[s]
    BY <1>6 DEF Alone, CloseWrite
  <2>. QED
    BY <1>1, <1>2, <1>6, <2>1, CloseWriteFits
<1>. QED
  BY <1>1, <1>3, <1>4, <1>5, <1>6 DEF Step

\* Until two extractions overlap.
EmptyInv == ~overlapped => RowsFit /\ \A s \in Sessions : Ready(s) /\ Copies(s)

LEMMA EmptyStep ==
  ASSUME TInv, RowsInv, Alone, EmptyInv, NEW s \in Sessions, Step(s)
  PROVE  EmptyInv' /\ KeysKept
<1>1. CASE overlapped
  BY <1>1, StaysTorn DEF EmptyInv, KeysKept
<1>2. CASE ~overlapped
  <2>1. Fit(s) /\ Copies(s)'
    BY <1>2, StepFits DEF EmptyInv
  <2>2. ASSUME ~overlapped', NEW t \in Sessions \ {s}
        PROVE  Ready(t)' /\ Copies(t)'
    <3>1. ~Active(t)
      BY <1>2, <2>2, BeginsAlone DEF Alone
    <3>2. pc[t] \in {"waiting", "done"} /\ Free(t)
      BY <1>2, <3>1 DEF Active, EmptyInv, Ready
    <3>3. pc'[t] = pc[t] /\ pair'[t] = pair[t] /\ holds'[t] = holds[t]
      BY OthersStay, HoldsApart DEF Aside
    <3>4. Free(t)'
      BY <3>2, <3>3 DEF Free
    <3>. QED
      BY <3>2, <3>3, <3>4, FreeReady DEF Places0, Copies, At
  <2>. QED
    BY <2>1, <2>2 DEF Fit, EmptyInv
<1>. QED
  BY <1>1, <1>2

LEMMA EmptyInvariant == Spec => []EmptyInv
<1>1. Init => EmptyInv
  <2> SUFFICES ASSUME Init PROVE EmptyInv
    OBVIOUS
  <2>1. RowsFit
    BY DEF Init, RowsFit, Ordered, Recorded
  <2>2. ASSUME NEW s \in Sessions PROVE Ready(s) /\ Copies(s)
    <3>1. pc[s] = "waiting" /\ holds[s] = {} /\ pair[s] = NoPair /\ ~NoPair.judged
      BY DEF Init, NoPair
    <3>. QED
      BY <3>1 DEF Ready, Places, Handling, Free, At, Copies
  <2>. QED
    BY <2>1, <2>2 DEF EmptyInv
<1>2. TInv /\ RowsInv /\ OwnInv /\ EmptyInv /\ [Next]_vars => EmptyInv'
  <2> SUFFICES ASSUME TInv, RowsInv, OwnInv, EmptyInv, [Next]_vars PROVE EmptyInv'
    OBVIOUS
  <2>1. CASE Next
    BY <2>1, EmptyStep DEF Next, OwnInv
  <2>2. CASE UNCHANGED vars
    <3>1. UNCHANGED <<rows, story, said, pc, part, todo, work, fresh, holds, pair, committed, overlapped>>
      BY <2>2 DEF vars, given, tx, history
    <3>2. RowsFit' <=> RowsFit
      BY <3>1 DEF RowsFit, Ordered, Recorded
    <3>3. ASSUME NEW s \in Sessions, Ready(s) PROVE Ready(s)'
      BY <3>1, <3>3 DEF Ready, Places, Handling, Free, At, Verdict, Replaced, Awaits, Mid, New
    <3>4. ASSUME NEW s \in Sessions, Copies(s) PROVE Copies(s)'
      <4>1. Facts(s)' = Facts(s) /\ (Replays(s)' <=> Replays(s))
        BY <3>1 DEF Facts, Replays, SaysTwice, At
      <4>2. \A k : Lost(s, k)' <=> Lost(s, k)
        BY <3>1, <4>1 DEF Lost, LostTo
      <4>. QED
        BY <3>1, <3>4, <4>1, <4>2 DEF Copies, CopyFits, At, HasRow, Ordered
    <3>. QED
      BY <3>1, <3>2, <3>3, <3>4 DEF EmptyInv
  <2>. QED
    BY <2>1, <2>2
<1>. QED
  BY <1>1, <1>2, TypesInvariant, RowsInvariant, OwnInvariant, PTL DEF Spec

\* A slot's key that has a current value keeps one, current or held, but for a
\* verdict, a fact about another key, a hold that cannot be put back, or a session
\* written again: whatever transactions conflict, windows fail and processes are
\* killed (write.rs, hold.rs, consolidate.rs), until two extractions overlap.
THEOREM ValueRemains == Spec => NeverEmpty
<1>1. TInv /\ RowsInv /\ OwnInv /\ EmptyInv /\ [Next]_vars => [KeysKept]_rows
  <2> SUFFICES ASSUME TInv, RowsInv, OwnInv, EmptyInv, Next PROVE KeysKept \/ UNCHANGED rows
    BY DEF vars
  <2>. QED
    BY EmptyStep DEF Next, OwnInv
<1>2. NeverEmpty <=> [][KeysKept]_rows
  BY DEF NeverEmpty, KeysKept
<1>. QED
  BY <1>1, <1>2, TypesInvariant, RowsInvariant, OwnInvariant, EmptyInvariant, PTL DEF Spec
==============================================================================
