------------------------------- MODULE FactSlots -------------------------------
(***************************************************************************)
(* The v2 pipeline's writes about one subject: the rows (slots of the      *)
(* subject's record, or edges) that sessions open, corroborate and close.  *)
(*                                                                         *)
(* A session is extracted in steps that other sessions and crashes fall    *)
(* between: its facts are applied in one transaction (write.rs), values    *)
(* held pending by earlier sessions are settled (hold.rs), a judge's       *)
(* verdicts close rows (consolidate.rs), and last the archive is marked.   *)
(* A session that was not marked is extracted again from the start.        *)
(*                                                                         *)
(* A key stands for a family of keys (`keys_match`).  What a transcript    *)
(* says (facts, cues, lists) and what the judge answers are the story.    *)
(***************************************************************************)
EXTENDS Naturals, Sequences, FiniteSets, FiniteSetsExt

CONSTANTS
  Sessions,     \* log numbers; extraction goes through them in this order
  Keys,         \* the subject's keys
  EdgeKeys,     \* those of them that are roles of one edge predicate
  Values,
  None,         \* no value, no row
  Stories,      \* what transcripts can say when one process extracts, see Story
  ServerStories,\* and when two extract into a server
  Switches,     \* settings of the configuration file, each a set of switches
  MaxVerdicts,  \* closing verdicts of the judge in one session
  MaxTroubles   \* failed windows, store errors and crashes when one extracts

Decided == "decided"
Considered == "considered"
Rejected == "rejected"

\* Why a row was closed.
Reason == {"replaced", "superseded", "promoted", "rejected", "hold_dropped",
           "consolidated", "duplicate"}

\* One extracted fact. `replaces`: the value it names as replaced, when the
\* cited turn supports that; `keeps`: the values the turn does not let it
\* retire (retirement_skip); `listed`: it is one member of a list (an
\* enumeration); `fixes`: the synthetic status `fixed` of an issue.  `finds`:
\* the stored key, other than its own, that its words are matched to (A1, A2),
\* or its own role when it may retire another use by its words (A3);
\* `departs`: the values its turn departs from, or for A1 and A2 any value when
\* it departs from the found key.  `aims`: the value of the row it was matched
\* to, which a transcript does not give.
Fact == [turn : Nat, key : Keys, value : Values,
         status : {Decided, Considered, Rejected},
         replaces : Values \cup {None}, keeps : SUBSET Values,
         listed : BOOLEAN, fixes : BOOLEAN,
         finds : Keys \cup {None}, departs : SUBSET Values, aims : Values \cup {None}]

\* `leaves`: <<new, old>> when a turn speaks of `new` and departs from `old`;
\* `day`: the session's date, 0 when it is not a calendar day.
Story == [facts : Seq(Fact), leaves : SUBSET (Values \X Values), day : Nat]

ASSUME ConstantsOK ==
  /\ Sessions \subseteq Nat
  /\ EdgeKeys \subseteq Keys
  /\ None \notin Values \cup Keys \cup (Sessions \X (Nat \cup Reason))
  /\ \A st \in Stories \cup ServerStories :
       /\ st.facts \in Seq(Fact)
       /\ \A i \in DOMAIN st.facts : LET f == st.facts[i] IN
            /\ f.aims = None
            /\ f.finds # None => /\ ~f.fixes
                                 /\ IF f.key \in EdgeKeys THEN f.finds = f.key
                                                          ELSE f.finds \notin EdgeKeys
       /\ st.leaves \subseteq (Values \X Values) /\ st.day \in Nat
  /\ Switches \subseteq SUBSET {"match", "consolidate", "hold"}
  /\ MaxVerdicts \in Nat /\ MaxTroubles \in Nat

\* Edges are records of their own, so two sessions that write different edges
\* do not conflict: overlapping sessions are modelled on slots only.
ASSUME OverlapOnSlotsOnly ==
  \A st \in ServerStories : \A i \in DOMAIN st.facts : st.facts[i].key \notin EdgeKeys

VARIABLES
  rows,       \* the stored rows, in the order they were created
  overlap,    \* whether two processes extract at once (server mode)
  story,      \* what each session's transcript says
  said,       \* its facts, as they were last matched to the known rows
  pc,         \* where its extraction is
  on,         \* the switches it read
  part,       \* its facts from the windows that did not fail
  todo,       \* facts its transaction has not applied yet
  work,       \* its copy of the rows: the transaction's, or close_row's
  dirty,      \* the transaction changed its copy
  fresh,      \* nobody else has stored rows since the copy was taken
  retried,    \* the transaction conflicted once
  holds,      \* pending pairs it still has to settle
  open,       \* pending pairs it left to the judge
  pair,       \* the pair it is working on
  loaded,     \* rows the judge is asked about, as they were read
  gone,       \* rows this pass closed
  answered,   \* facts the judge gave a closing verdict for
  left,       \* sessions a finished run left pending
  committed,  \* how much of each session was ever committed
  torn,       \* a hold was cleared and its old row not closed, or cleared beside
              \* another current value, or close_row wrote back an old copy
  overlapped, \* two extractions have run at the same time
  troubles

tx == <<part, todo, dirty, retried>>
pass == <<open, loaded, answered>>
history == <<left, committed, overlapped>>
given == <<overlap, story, said>>
vars == <<rows, given, pc, on, tx, work, fresh, holds, pass, pair, gone, history, torn, troubles>>

---------------------------------------------------------------------------
(* Rows. *)

\* `first`: the sighting that opened the row; `seen`: all its sightings, each
\* a session and a turn; `pending`: None, or the session that held the row
\* and the row it waits on; `until`: None, or who closed the row and why.
Live(r) == r.until = None
Pending(r) == r.pending # None
Current(r) == Live(r) /\ ~Pending(r) /\ r.status = Decided
OpenedIn(s, r) == r.first[1] = s
IsSlot(r) == r.key \notin EdgeKeys

SameFact(r, f) == r.key = f.key /\ r.value = f.value /\ r.status = f.status
SamePredicate(r, f) == r.key = f.key \/ (r.key \in EdgeKeys /\ f.key \in EdgeKeys)

StampRows(rs, S, s, why) ==
  [i \in DOMAIN rs |-> IF i \in S THEN [rs[i] EXCEPT !.until = <<s, why>>]
                                  ELSE rs[i]]

\* Another live value holds the key; its status is not looked at.
Occupied(rs, key, except) ==
  \E i \in DOMAIN rs \ {except} : Live(rs[i]) /\ ~Pending(rs[i]) /\ rs[i].key = key

---------------------------------------------------------------------------
(* Applying one fact of session s to the rows rs of its transaction. *)

Facts(s) == said[s]
Dated(s) == story[s].day # 0
HoldOn(s) == {"hold", "consolidate"} \subseteq on[s]

\* A row opened in the session stays, but for a status fixed on a later turn.
StatusClose(s, f, r) == f.fixes /\ OpenedIn(s, r) /\ r.first[2] < f.turn
\* Mutant of Protected: it is not looked at who opened the row.
NeverProtected(s, f, r) == FALSE

Protected(s, f, r) == OpenedIn(s, r) /\ ~StatusClose(s, f, r)

\* The cited turn does not let f retire r.
Kept(s, f, r) == "match" \in on[s] /\ r.value \in f.keeps /\ ~StatusClose(s, f, r)

\* A fact that was matched closes nothing but the row it was matched to, and
\* that only when its turn departs from it; nothing is held for the rest ...
PassedOver(f, r) == f.aims # None /\ (r.value # f.aims \/ r.value \notin f.departs)

\* ... and nothing at all when that row is no longer there.
Stale(f, rs) ==
  /\ f.aims # None
  /\ ~\E i \in DOMAIN rs : /\ Live(rs[i]) /\ rs[i].status = Decided
                           /\ rs[i].key = f.key /\ rs[i].value = f.aims

\* Mutant of Retirable: a closed row is closed again.
RetirableTwice(s, r) == r.status # Rejected /\ ~OpenedIn(s, r)

Retirable(s, r) == Live(r) /\ r.status # Rejected /\ ~OpenedIn(s, r)

RejectedBy(s, f, rs) ==
  {i \in DOMAIN rs : Retirable(s, rs[i]) /\ SamePredicate(rs[i], f) /\ rs[i].value = f.value}

\* `replaces` names a slot by its value, whatever its key.
NamedBy(s, f, rs) ==
  {i \in DOMAIN rs : /\ Retirable(s, rs[i]) /\ ~SameFact(rs[i], f)
                     /\ rs[i].value = f.replaces
                     /\ IsSlot(rs[i]) \/ SamePredicate(rs[i], f)}

RivalsOf(f, rs) ==
  {i \in DOMAIN rs : Current(rs[i]) /\ rs[i].key = f.key /\ rs[i].value # f.value}
SupersededBy(s, f, rs) ==
  IF f.key \in EdgeKeys
    THEN {i \in DOMAIN rs : Retirable(s, rs[i]) /\ rs[i].key = f.key /\ rs[i].value = f.aims}
    ELSE IF Stale(f, rs) THEN {}
    ELSE {i \in RivalsOf(f, rs) : ~Protected(s, f, rs[i]) /\ ~PassedOver(f, rs[i])}

Ending(f) == IF f.key \in EdgeKeys THEN "replaced" ELSE "superseded"

PromotedBy(s, f, rs) ==
  {i \in DOMAIN rs : /\ Retirable(s, rs[i]) /\ rs[i].status = Considered
                     /\ rs[i].key = f.key /\ rs[i].value = f.value}

\* Mutant of Releases: a second sighting is enough.
ReleasesOnSight(rs, p, closed) == rs[p].pending[2] \in DOMAIN rs

\* A pending row is released by a fact that closed its conflict, or once its
\* conflict is closed and no other live value holds the key.
Releases(rs, p, closed) ==
  LET c == rs[p].pending[2]
  IN /\ c \in DOMAIN rs
     /\ \/ c \in closed /\ (IsSlot(rs[p]) \/ ~IsSlot(rs[c]))
        \/ /\ ~Live(rs[c]) /\ IsSlot(rs[c]) = IsSlot(rs[p])
           /\ ~Occupied(rs, IF IsSlot(rs[p]) THEN rs[c].key ELSE rs[p].key, p)

Sighted(r, s, f) == [r EXCEPT !.seen = @ \cup {<<s, f.turn>>}]

NewRow(s, f, armed) ==
  [key |-> f.key, value |-> f.value, status |-> f.status,
   first |-> <<s, f.turn>>, seen |-> {<<s, f.turn>>},
   pending |-> IF armed = {} THEN None ELSE <<s, Min(armed)>>,
   until |-> None]

\* Mutants of AlreadyStored: closed rows are not looked at; the sighting is not.
StoredLive(s, f, rs) ==
  \E i \in DOMAIN rs : /\ f.key \notin EdgeKeys /\ Live(rs[i])
                       /\ SameFact(rs[i], f) /\ <<s, f.turn>> \in rs[i].seen
StoredBefore(s, f, rs) ==
  f.key \notin EdgeKeys /\ \E i \in DOMAIN rs : SameFact(rs[i], f)

\* A sighting already stored on a slot of this fact, live or closed, is not
\* stored again. Of the edges only the live ones are looked at.
AlreadyStored(s, f, rs) ==
  /\ f.key \notin EdgeKeys
  /\ \E i \in DOMAIN rs : SameFact(rs[i], f) /\ <<s, f.turn>> \in rs[i].seen

Home(f, rs) ==
  LET same == {i \in DOMAIN rs : Live(rs[i]) /\ SameFact(rs[i], f)}
      held == {i \in same : Pending(rs[i])}
  IN IF held # {} /\ f.key \notin EdgeKeys THEN held ELSE same

Written(s, f, rs, armed, closed) ==
  LET h == Min(Home(f, rs))
      r == Sighted(rs[h], s, f)
  IN IF AlreadyStored(s, f, rs) THEN rs
     ELSE IF Home(f, rs) = {} THEN Append(rs, NewRow(s, f, armed))
     ELSE [rs EXCEPT ![h] = IF Pending(r) /\ Releases(rs, h, closed)
                            THEN [r EXCEPT !.pending = None] ELSE r]

\* An undated session closes nothing. Only the first conflict is held; a
\* later one is a counted skip.
DecidedApplied(s, f, rs) ==
  LET Closed(S) == IF Dated(s) THEN S ELSE {}
      named == IF f.listed THEN {} ELSE NamedBy(s, f, rs)
      kept1 == {i \in named : Kept(s, f, rs[i])}
      rs1   == StampRows(rs, Closed(named \ kept1), s, "replaced")
      rival == IF f.listed THEN {} ELSE SupersededBy(s, f, rs1)
      kept2 == {i \in rival : Kept(s, f, rs1[i])}
      rs2   == StampRows(rs1, Closed(rival \ kept2), s, Ending(f))
      rs3   == StampRows(rs2, Closed(PromotedBy(s, f, rs2)), s, "promoted")
      first == IF kept1 # {} THEN kept1 ELSE kept2
      armed == IF HoldOn(s) THEN {i \in first : Dated(s) \/ ~IsSlot(rs[i])} ELSE {}
  IN IF f.listed /\ f.key \notin EdgeKeys /\ RivalsOf(f, rs) # {}
     THEN rs
     ELSE Written(s, f, rs3, armed, Closed((named \ kept1) \cup (rival \ kept2)))

RejectedApplied(s, f, rs) ==
  LET rs1 == IF Dated(s) THEN StampRows(rs, RejectedBy(s, f, rs), s, "rejected") ELSE rs
  IN Written(s, f, rs1, {}, {})

Applied(s, f, rs) == CASE f.status = Rejected -> RejectedApplied(s, f, rs)
                       [] f.status = Decided  -> DecidedApplied(s, f, rs)
                       [] OTHER               -> Written(s, f, rs, {}, {})

\* Facts are applied by turn; on one turn rejections come first.
Rank(f) == CASE f.status = Rejected -> 0 [] f.status = Considered -> 1 [] OTHER -> 2
Before(fs, i, j) ==
  \/ fs[i].turn < fs[j].turn
  \/ fs[i].turn = fs[j].turn /\ Rank(fs[i]) < Rank(fs[j])
  \/ fs[i].turn = fs[j].turn /\ Rank(fs[i]) = Rank(fs[j]) /\ i < j
NextFact(s) == CHOOSE i \in todo[s] : \A j \in todo[s] \ {i} : Before(Facts(s), i, j)

---------------------------------------------------------------------------
(* Helpers of the steps. *)

NoPair == [new |-> 0, key |-> None, newValue |-> None, old |-> 0, oldValue |-> None,
           taken |-> None, already |-> FALSE, judged |-> FALSE, why |-> None]
Nothing == [rs |-> <<>>, all |-> {}]

At(s, p) == pc[s] = p
Active(s) == pc[s] \notin {"waiting", "done"}
Put(x, s, v) == [x EXCEPT ![s] = v]
Goto(s, p) == pc' = Put(pc, s, p)

\* Storing rs puts the copies that others have taken out of date.
Store(s, rs) ==
  /\ rows' = rs
  /\ fresh' = [t \in Sessions |-> fresh[t] /\ (t = s \/ rs = rows)]
KeepRows == UNCHANGED <<rows, fresh>>

\* A window, a store call or the process fails, MaxTroubles times.
Trouble == troubles < MaxTroubles /\ troubles' = troubles + 1
NoTrouble == UNCHANGED troubles

\* Mutant of Forget: the judge's answers are kept.
ForgetOthers(s) ==
  /\ on' = Put(on, s, {}) /\ part' = Put(part, s, {}) /\ todo' = Put(todo, s, {})
  /\ work' = Put(work, s, <<>>) /\ dirty' = Put(dirty, s, FALSE)
  /\ retried' = Put(retried, s, FALSE) /\ holds' = Put(holds, s, {})
  /\ open' = Put(open, s, {}) /\ pair' = Put(pair, s, NoPair)
  /\ loaded' = Put(loaded, s, Nothing) /\ gone' = Put(gone, s, {})
  /\ UNCHANGED answered

\* What a run keeps in memory is dropped when it ends.
Forget(s) ==
  /\ on' = Put(on, s, {}) /\ part' = Put(part, s, {}) /\ todo' = Put(todo, s, {})
  /\ work' = Put(work, s, <<>>) /\ dirty' = Put(dirty, s, FALSE)
  /\ retried' = Put(retried, s, FALSE) /\ holds' = Put(holds, s, {})
  /\ open' = Put(open, s, {}) /\ pair' = Put(pair, s, NoPair)
  /\ loaded' = Put(loaded, s, Nothing) /\ gone' = Put(gone, s, {})
  /\ answered' = Put(answered, s, {})

---------------------------------------------------------------------------
(* A session's windows and its transaction. *)

Init ==
  /\ rows = <<>>
  /\ overlap \in BOOLEAN
  /\ \/ ~overlap /\ story \in [Sessions -> Stories] /\ troubles = 0
     \/ overlap /\ story \in [Sessions -> ServerStories] /\ troubles = MaxTroubles
  /\ said = [s \in Sessions |-> story[s].facts]
  /\ pc = [s \in Sessions |-> "waiting"]
  /\ on = [s \in Sessions |-> {}] /\ part = [s \in Sessions |-> {}]
  /\ todo = [s \in Sessions |-> {}] /\ work = [s \in Sessions |-> <<>>]
  /\ dirty = [s \in Sessions |-> FALSE] /\ fresh = [s \in Sessions |-> FALSE]
  /\ retried = [s \in Sessions |-> FALSE] /\ holds = [s \in Sessions |-> {}]
  /\ open = [s \in Sessions |-> {}] /\ pair = [s \in Sessions |-> NoPair]
  /\ loaded = [s \in Sessions |-> Nothing] /\ gone = [s \in Sessions |-> {}]
  /\ answered = [s \in Sessions |-> {}]
  /\ left = {} /\ committed = [s \in Sessions |-> "nothing"]
  /\ overlapped = FALSE /\ torn = FALSE

\* One process takes the pending logs in order and comes back to those it
\* left pending; of two, each may be at any session the other is not at.
Turn(s) ==
  \/ overlap /\ Cardinality({t \in Sessions : Active(t)}) < 2
  \/ /\ \A t \in Sessions : ~Active(t)
     /\ \A t \in Sessions : t < s => pc[t] = "done" \/ t \in left

Told(s) == story[s].facts

\* The known row that the words of f mean: none, when there are several.
Hits(f, known) ==
  LET shown == {i \in DOMAIN known : /\ Live(known[i]) /\ ~Pending(known[i])
                                     /\ known[i].status # Rejected}
      found == {i \in shown : known[i].key = f.finds}
  IN IF f.key \in EdgeKeys
     THEN IF f.replaces # None \/ \E i \in found : known[i].value = f.value THEN {}
          ELSE {i \in found : known[i].value \in f.departs}
     ELSE IF \E i \in shown : known[i].key = f.key /\ known[i].status = Decided THEN {}
          ELSE {i \in found : known[i].status = Decided}

Matched(f, known) ==
  IF f.status = Decided /\ f.finds # None /\ Cardinality(Hits(f, known)) = 1
    THEN [f EXCEPT !.key = f.finds, !.aims = known[Min(Hits(f, known))].value]
    ELSE f

\* The windows are read: `read` are the facts of those that did not fail.
\* Then the facts are matched to the known rows, which are none when they
\* cannot be read.
Begin(s, read, known, switches) ==
  /\ At(s, "waiting") /\ Turn(s)
  /\ IF read = DOMAIN Told(s) /\ known = rows THEN NoTrouble ELSE Trouble
  /\ said' = Put(said, s, [i \in DOMAIN Told(s) |->
       IF "match" \in switches THEN Matched(Told(s)[i], known) ELSE Told(s)[i]])
  /\ on' = Put(on, s, switches)
  /\ part' = Put(part, s, read)
  /\ overlapped' = (overlapped \/ \E t \in Sessions : Active(t))
  /\ Goto(s, IF read = {} THEN "written" ELSE "begin")
  /\ UNCHANGED <<rows, fresh, overlap, story, todo, work, dirty, retried, holds, pass, pair,
                 gone, left, committed, torn>>

\* The transaction starts and reads the subject's rows.
BeginTx(s) ==
  /\ At(s, "begin")
  /\ todo' = Put(todo, s, part[s])
  /\ work' = Put(work, s, rows)
  /\ fresh' = Put(fresh, s, TRUE)
  /\ dirty' = Put(dirty, s, FALSE)
  /\ Goto(s, "writing")
  /\ UNCHANGED <<rows, given, on, part, retried, holds, pass, pair, gone, history, torn, troubles>>

ApplyFact(s) ==
  /\ At(s, "writing") /\ todo[s] # {}
  /\ LET i  == NextFact(s)
         rs == Applied(s, Facts(s)[i], work[s])
     IN /\ work' = Put(work, s, rs)
        /\ dirty' = Put(dirty, s, dirty[s] \/ rs # work[s])
        /\ todo' = Put(todo, s, todo[s] \ {i})
  /\ UNCHANGED <<rows, fresh, given, pc, on, part, retried, holds, pass, pair, gone,
                 history, torn, troubles>>

Whole(s) == part[s] = DOMAIN Facts(s)
\* Mutant of Conflicts: the last writer wins.
NoConflicts(s) == FALSE
Conflicts(s) == dirty[s] /\ ~fresh[s]

Commit(s) ==
  /\ At(s, "writing") /\ todo[s] = {} /\ ~Conflicts(s)
  /\ IF dirty[s] THEN Store(s, work[s]) ELSE KeepRows
  /\ committed' = IF Whole(s) THEN Put(committed, s, "all")
                  ELSE IF committed[s] = "nothing" THEN Put(committed, s, "some")
                  ELSE committed
  /\ work' = Put(work, s, <<>>)
  /\ Goto(s, "written")
  /\ UNCHANGED <<given, on, tx, holds, pass, pair, gone, left, overlapped,
                 torn, troubles>>

\* The first conflict applies the facts again to what is stored now.
Conflict(s) ==
  /\ At(s, "writing") /\ todo[s] = {} /\ Conflicts(s) /\ ~retried[s]
  /\ retried' = Put(retried, s, TRUE)
  /\ Goto(s, "begin")
  /\ UNCHANGED <<rows, fresh, given, on, part, todo, work, dirty, holds, pass, pair,
                 gone, history, torn, troubles>>

\* The second one fails the session, which stays pending.
ConflictAgain(s) ==
  /\ At(s, "writing") /\ todo[s] = {} /\ Conflicts(s) /\ retried[s]
  /\ left' = left \cup {s}
  /\ Goto(s, "waiting") /\ Forget(s)
  /\ UNCHANGED <<rows, fresh, given, committed, overlapped, torn, troubles>>

---------------------------------------------------------------------------
(* Settling the values that earlier sessions held. *)

Hold(i) ==
  LET r == rows[i] old == r.pending[2]
  IN [NoPair EXCEPT !.new = i, !.key = r.key, !.newValue = r.value,
                    !.old = old, !.oldValue = rows[old].value]

Held == {j \in DOMAIN rows : Live(rows[j]) /\ Pending(rows[j])}

\* The pending rows are read once; the session's own wait for a later one, and
\* one whose old row is not there is a counted error. So is a failed read.
Settle(s) ==
  /\ At(s, "written")
  /\ \/ /\ HoldOn(s) /\ NoTrouble
        /\ holds' = Put(holds, s, {Hold(i) : i \in {j \in Held :
             rows[j].pending[1] # s /\ rows[j].pending[2] \in DOMAIN rows}})
     \/ HoldOn(s) /\ Held # {} /\ Trouble /\ UNCHANGED holds
     \/ ~HoldOn(s) /\ NoTrouble /\ UNCHANGED holds
  /\ Goto(s, IF "consolidate" \in on[s] /\ (part[s] # {} \/ HoldOn(s))
             THEN "settling" ELSE "finished")
  /\ UNCHANGED <<rows, fresh, given, on, tx, work, pass, pair, gone, history, torn>>

Has(i, v) == i \in DOMAIN rows /\ rows[i].value = v

Confirms(s, h) == <<h.newValue, h.oldValue>> \in story[s].leaves
Reasserts(s, h) ==
  \E i \in part[s] : LET f == Facts(s)[i]
                     IN f.status = Decided /\ SamePredicate(h, f) /\ f.value = h.oldValue

\* Decide before writing what to do with the next pair.
Consider(s) ==
  /\ At(s, "settling") /\ holds[s] # {}
  /\ LET h         == CHOOSE x \in holds[s] : \A y \in holds[s] : x.new <= y.new
         already   == Has(h.old, h.oldValue) /\ ~Live(rows[h.old])
         confirmed == Confirms(s, h)
         restated  == ~confirmed /\ Reasserts(s, h)
         drop      == restated \/ (already /\ Occupied(rows, h.key, h.new))
         act       == Dated(s) /\ (confirmed \/ restated)
     IN /\ holds' = Put(holds, s, holds[s] \ {h})
        /\ open' = IF confirmed \/ restated THEN open ELSE Put(open, s, open[s] \cup {h})
        /\ pair' = Put(pair, s, IF act THEN [h EXCEPT !.already = already] ELSE NoPair)
        /\ Goto(s, IF ~act THEN "settling" ELSE IF drop THEN "dropping" ELSE "taking")
  /\ UNCHANGED <<rows, fresh, given, on, tx, work, loaded, answered, gone, history, torn, troubles>>

\* The pair in hand is finished with.
NextPair(s) ==
  /\ pair' = Put(pair, s, NoPair)
  /\ Goto(s, IF pair[s].judged THEN "judging" ELSE "settling")
KeepPair(s, p) == UNCHANGED pair /\ Goto(s, p)

\* One row is edited in a transaction of its own.
EditRow(s, i, r) == Store(s, [rows EXCEPT ![i] = r])
Close(s, i, why) == EditRow(s, i, [rows[i] EXCEPT !.until = <<s, why>>])

New(s) == pair[s].new
NewIsLive(s) == Has(New(s), pair[s].newValue) /\ Live(rows[New(s)])
OldIsLive(s) == Has(pair[s].old, pair[s].oldValue) /\ Live(rows[pair[s].old])
NewIsHeld(s) == New(s) \in DOMAIN rows /\ Pending(rows[New(s)])
Restorable(s) == New(s) \in DOMAIN rows /\ Live(rows[New(s)]) /\ ~Pending(rows[New(s)])
Restore(s) == EditRow(s, New(s), [rows[New(s)] EXCEPT !.pending = pair[s].taken])

settleRest == <<given, on, tx, work, holds, pass, gone, history>>

\* The pending row is closed: its old value was restated, or another live
\* value holds the key.
DropHeld(s) ==
  /\ At(s, "dropping")
  /\ \/ NewIsLive(s) /\ NoTrouble /\ Close(s, New(s), "hold_dropped")
     \/ ~NewIsLive(s) /\ NoTrouble /\ KeepRows
     \/ Trouble /\ KeepRows
  /\ NextPair(s)
  /\ UNCHANGED <<settleRest, torn>>

\* The key has a current value that the pair does not close. Only a row whose
\* old one is closed is checked for it, before the hold is cleared.
Crowded(s) ==
  \E j \in DOMAIN rows \ {pair[s].old} :
    /\ Current(rows[j]) /\ IsSlot(rows[j])
    /\ rows[j].key = rows[New(s)].key /\ rows[j].value # rows[New(s)].value

\* Clear the pending row first, so that a failed stamp cannot leave the key
\* with no live value.
TakePending(s) ==
  /\ At(s, "taking")
  /\ \/ /\ NewIsHeld(s) /\ NoTrouble
        /\ torn' = (torn \/ Crowded(s))
        /\ EditRow(s, New(s), [rows[New(s)] EXCEPT !.pending = None])
        /\ IF pair[s].already THEN NextPair(s)
           ELSE /\ pair' = Put(pair, s, [pair[s] EXCEPT !.taken = rows[New(s)].pending])
                /\ Goto(s, IF pair[s].judged THEN "closing" ELSE "stamping")
     \/ ~NewIsHeld(s) /\ NoTrouble /\ KeepRows /\ NextPair(s) /\ UNCHANGED torn
     \/ Trouble /\ KeepRows /\ NextPair(s) /\ UNCHANGED torn
  /\ UNCHANGED settleRest

\* The old row is closed; when it cannot be, the hold is put back.
StampOld(s) ==
  /\ At(s, "stamping")
  /\ \/ OldIsLive(s) /\ NoTrouble /\ Close(s, pair[s].old, "superseded") /\ NextPair(s)
     \/ ~OldIsLive(s) /\ NoTrouble /\ KeepRows /\ KeepPair(s, "restoring")
     \/ Trouble /\ KeepRows /\ KeepPair(s, "restoring")
  /\ UNCHANGED <<settleRest, torn>>

RestorePending(s) ==
  /\ At(s, "restoring")
  /\ \/ Restorable(s) /\ NoTrouble /\ Restore(s) /\ NextPair(s)
     \/ ~Restorable(s) /\ NoTrouble /\ KeepRows /\ KeepPair(s, "recovering")
     \/ Trouble /\ KeepRows /\ KeepPair(s, "recovering")
  /\ UNCHANGED <<settleRest, torn>>

\* The restore failed: drop the new row when another live value holds the
\* key, else try once more.
RecoverPending(s) ==
  /\ At(s, "recovering")
  /\ LET occupied == Dated(s) /\ Occupied(rows, pair[s].key, New(s))
         possible == IF occupied THEN NewIsLive(s) ELSE Restorable(s)
     IN \/ /\ possible /\ NoTrouble /\ UNCHANGED torn
           /\ IF occupied THEN Close(s, New(s), "hold_dropped") ELSE Restore(s)
        \/ ~possible /\ NoTrouble /\ KeepRows /\ torn' = TRUE
        \/ Trouble /\ KeepRows /\ torn' = TRUE
  /\ NextPair(s)
  /\ UNCHANGED settleRest

---------------------------------------------------------------------------
(* The consolidation pass: the judge's verdicts. *)

\* The rows the judge is asked about are read once, before the call.
Load(s) ==
  /\ At(s, "settling") /\ holds[s] = {}
  /\ loaded' = Put(loaded, s,
       [rs |-> rows, all |-> {i \in DOMAIN rows : Live(rows[i]) /\ rows[i].status = Decided}])
  /\ Goto(s, "judging")
  /\ UNCHANGED <<rows, fresh, given, on, tx, work, holds, open, answered, pair, gone,
                 history, torn, troubles>>

Read(s, i) == loaded[s].rs[i]
Opened(s, f) == {i \in loaded[s].all : OpenedIn(s, Read(s, i)) /\ SameFact(Read(s, i), f)}

\* Rows that fact f of this session closed when it was written.
ClosedBy(s, f) ==
  {i \in DOMAIN loaded[s].rs :
    LET r == Read(s, i)
    IN CASE f.status = Rejected -> r.until = <<s, "rejected">> /\ r.value = f.value
         [] f.status = Decided  -> \/ r.until = <<s, "superseded">> /\ r.key = f.key
                                   \/ r.until = <<s, "replaced">> /\ r.value = f.replaces
                                   \/ /\ r.until = <<s, "replaced">> /\ r.key = f.key
                                      /\ f.key \in EdgeKeys /\ r.value = f.aims
         [] OTHER -> FALSE}

\* The pass asks about a fact that closed a row, and about a decided one that
\* named a value to replace or is stored in a row of its own.
Anchor(s, f) ==
  \/ ClosedBy(s, f) # {}
  \/ f.status = Decided /\ f.replaces # None
  \/ f.status = Decided /\ f.key \notin EdgeKeys /\ Opened(s, f) # {}
AnchorKeys(s, f) ==
  IF ClosedBy(s, f) = {} THEN {f.key} ELSE {Read(s, i).key : i \in ClosedBy(s, f)}

\* Within one key the writer's rules decide, so the judge is not asked.
Asked(s, f, r) == /\ f.status = Rejected \/ r.value # f.value
                  /\ \E k \in AnchorKeys(s, f) : k \in EdgeKeys \/ k # r.key

\* Partners are rows of earlier sessions that were not pending when loaded.
\* One closing verdict for a fact: a second one would close nothing.
MayAnswer(s, i, j) ==
  /\ At(s, "judging")
  /\ i \in part[s] \ answered[s] /\ Cardinality(answered[s]) < MaxVerdicts
  /\ Anchor(s, Facts(s)[i])
  /\ j \in loaded[s].all /\ ~OpenedIn(s, Read(s, j)) /\ ~Pending(Read(s, j))

Answer(s, i, j, why) ==
  /\ pair' = Put(pair, s, [NoPair EXCEPT !.old = j, !.oldValue = Read(s, j).value,
                                         !.judged = TRUE, !.why = why])
  /\ answered' = Put(answered, s, answered[s] \cup {i})
  /\ Goto(s, "closing")
  /\ UNCHANGED <<rows, fresh, given, on, tx, work, holds, open, loaded, gone, history, torn, troubles>>

JudgeSupersedes(s, i, j) ==
  /\ MayAnswer(s, i, j)
  /\ Asked(s, Facts(s)[i], Read(s, j))
  /\ Answer(s, i, j, "consolidated")

\* A slot is closed as a duplicate when the slot this session opened keeps the
\* value and is not younger; with no such row, when another loaded row does.
JudgeDuplicate(s, i, j) ==
  /\ MayAnswer(s, i, j) /\ j \notin gone[s]
  /\ LET f == Facts(s)[i]
         copies == {m \in loaded[s].all \ (gone[s] \cup {j}) :
                      Read(s, m).value = Read(s, j).value}
     IN IF Opened(s, f) # {}
        THEN /\ copies \cap Opened(s, f) # {}
             /\ f.key \notin EdgeKeys /\ IsSlot(Read(s, j))
             /\ story[Read(s, j).first[1]].day >= story[s].day
        ELSE Asked(s, f, Read(s, j)) /\ copies # {}
  /\ Answer(s, i, j, "duplicate")

\* A row is found again among the loaded ones by its place, else by its value.
Find(s, i, key, value) ==
  LET like == {m \in loaded[s].all : SamePredicate(Read(s, m), [key |-> key])
                                     /\ Read(s, m).value = value}
  IN IF i \in loaded[s].all THEN {i} ELSE IF like = {} THEN {} ELSE {Min(like)}

JudgeConfirms(s, h) ==
  /\ At(s, "judging") /\ h \in open[s]
  /\ open' = Put(open, s, open[s] \ {h})
  /\ \E n \in Find(s, h.new, h.key, h.newValue),
        o \in Find(s, h.old, h.key, h.oldValue) \ gone[s] :
       pair' = Put(pair, s, [h EXCEPT !.new = n, !.old = o, !.judged = TRUE,
                                      !.why = "consolidated"])
  /\ Goto(s, "taking")
  /\ UNCHANGED <<rows, fresh, given, on, tx, work, holds, loaded, answered, gone,
                 history, torn, troubles>>

\* A close that fails ends the verdict, and puts back a hold it had taken.
NotClosed(s) == IF New(s) # 0 THEN KeepPair(s, "restoring") ELSE NextPair(s)
MayClose(s) == /\ OldIsLive(s) /\ Dated(s)
               /\ ~OpenedIn(s, Read(s, pair[s].old))

\* close_row reads the subject's record and writes it back with one row
\* closed, outside a transaction; an edge is closed in one statement.
CloseRead(s) ==
  /\ At(s, "closing")
  /\ \/ /\ MayClose(s) /\ IsSlot(rows[pair[s].old])
        /\ work' = Put(work, s, rows) /\ fresh' = Put(fresh, s, TRUE)
        /\ KeepPair(s, "writing back") /\ UNCHANGED <<rows, gone>>
     \/ /\ MayClose(s) /\ ~IsSlot(rows[pair[s].old])
        /\ Close(s, pair[s].old, pair[s].why)
        /\ gone' = Put(gone, s, gone[s] \cup {pair[s].old})
        /\ NextPair(s) /\ UNCHANGED work
     \/ ~MayClose(s) /\ KeepRows /\ NotClosed(s) /\ UNCHANGED <<work, gone>>
  /\ UNCHANGED <<given, on, tx, holds, pass, history, torn, troubles>>

CloseWrite(s) ==
  /\ At(s, "writing back")
  /\ \/ /\ NoTrouble
        /\ Store(s, StampRows(work[s], {pair[s].old}, s, pair[s].why))
        /\ gone' = Put(gone, s, gone[s] \cup {pair[s].old})
        /\ NextPair(s)
        /\ torn' = (torn \/ ~fresh[s])
     \/ Trouble /\ KeepRows /\ NotClosed(s) /\ UNCHANGED <<gone, torn>>
  /\ work' = Put(work, s, <<>>)
  /\ UNCHANGED <<given, on, tx, holds, pass, history>>

JudgeDone(s) ==
  /\ At(s, "judging")
  /\ Goto(s, "finished")
  /\ UNCHANGED <<rows, fresh, pair, settleRest, torn, troubles>>

---------------------------------------------------------------------------
(* The end of a run, crashes, and the specification. *)

\* A session with a failed window is left pending although its other facts
\* are stored; so is one whose mark cannot be written.
Mark(s) ==
  /\ At(s, "finished")
  /\ \/ Whole(s) /\ NoTrouble /\ Goto(s, "done") /\ UNCHANGED left
     \/ ~Whole(s) /\ NoTrouble /\ Goto(s, "waiting") /\ left' = left \cup {s}
     \/ Whole(s) /\ Trouble /\ Goto(s, "waiting") /\ left' = left \cup {s}
  /\ Forget(s)
  /\ UNCHANGED <<rows, fresh, given, committed, overlapped, torn>>

\* The process that extracts the session is killed; the session starts over.
Kill(s) ==
  /\ Active(s) /\ Trouble
  /\ torn' = (torn \/ pair[s].taken # None)
  /\ Goto(s, "waiting") /\ Forget(s)
  /\ UNCHANGED <<rows, fresh, given, history>>

Step(s) ==
  \/ \E read \in SUBSET DOMAIN Told(s), known \in {rows, <<>>}, sw \in Switches :
       Begin(s, read, known, sw)
  \/ BeginTx(s) \/ ApplyFact(s) \/ Commit(s) \/ Conflict(s) \/ ConflictAgain(s)
  \/ Settle(s) \/ Consider(s) \/ DropHeld(s) \/ TakePending(s) \/ StampOld(s)
  \/ RestorePending(s) \/ RecoverPending(s) \/ Load(s)
  \/ \E i \in part[s], j \in loaded[s].all : JudgeSupersedes(s, i, j) \/ JudgeDuplicate(s, i, j)
  \/ \E h \in open[s] : JudgeConfirms(s, h)
  \/ CloseRead(s) \/ CloseWrite(s) \/ JudgeDone(s) \/ Mark(s) \/ Kill(s)

Next == \E s \in Sessions : Step(s)

Spec == Init /\ [][Next]_vars

---------------------------------------------------------------------------
(* Properties. *)

Sighting == Sessions \X Nat
Row == [key : Keys, value : Values, status : {Decided, Considered, Rejected},
        first : Sighting, seen : SUBSET Sighting,
        pending : (Sessions \X Nat) \cup {None},
        until : (Sessions \X Reason) \cup {None}]

\* Type correctness: the stored rows and every copy of them are sequences of
\* rows, and what a run keeps in memory is about its own facts and its rows.
TypeOK ==
  /\ rows \in Seq(Row) /\ overlap \in BOOLEAN
  /\ story \in [Sessions -> Stories \cup ServerStories] /\ said \in [Sessions -> Seq(Fact)]
  /\ pc \in [Sessions -> {"waiting", "begin", "writing", "written", "settling", "dropping",
                          "taking", "stamping", "restoring", "recovering", "judging",
                          "closing", "writing back", "finished", "done"}]
  /\ on \in [Sessions -> Switches \cup {{}}]
  /\ work \in [Sessions -> Seq(Row)]
  /\ dirty \in [Sessions -> BOOLEAN] /\ fresh \in [Sessions -> BOOLEAN]
  /\ retried \in [Sessions -> BOOLEAN]
  /\ \A s \in Sessions :
       /\ part[s] \subseteq DOMAIN Facts(s) /\ todo[s] \subseteq part[s]
       /\ answered[s] \subseteq part[s]
       /\ loaded[s].rs \in Seq(Row) /\ loaded[s].all \subseteq DOMAIN loaded[s].rs
       /\ gone[s] \subseteq Nat
       /\ \A h \in holds[s] \cup open[s] : h.new \in Nat \ {0} /\ h.key \in Keys
  /\ left \subseteq Sessions /\ committed \in [Sessions -> {"nothing", "some", "all"}]
  /\ torn \in BOOLEAN /\ overlapped \in BOOLEAN /\ troubles \in 0..MaxTroubles

\* No step forgets what is stored: a row is not removed, keeps its fact, its
\* first sighting and its sightings, and a closed row stays as it is.  The
\* exception is close_row, which writes back a copy that may be out of date.
Extends(old, new) ==
  /\ Len(old) <= Len(new)
  /\ \A i \in DOMAIN old :
       /\ SameFact(new[i], old[i]) /\ new[i].first = old[i].first
       /\ old[i].seen \subseteq new[i].seen
       /\ ~Live(old[i]) => new[i].until = old[i].until /\ new[i].seen = old[i].seen

OutOfDate == \E s \in Sessions : At(s, "writing back") /\ ~fresh[s]
NothingForgotten == [][Extends(rows, rows') \/ OutOfDate]_rows

\* The same of every step: false in server mode, where close_row can write
\* over what another session stored since it read the record.
NothingEverForgotten == [][Extends(rows, rows')]_rows

\* A sighting counts once: the slots of one fact have no sighting in common,
\* however often a transaction or a session is run again.
CountedOnce ==
  \A i, j \in DOMAIN rows :
    (i # j /\ SameFact(rows[i], rows[j]) /\ IsSlot(rows[i])) => rows[i].seen \cap rows[j].seen = {}

\* A session does not close a row it opened itself, but for an issue that a
\* later turn of it fixes.  (settle does not look at who opened the old row of
\* a pair: a session run again, or beside another, may find it is its own.  And
\* once two sessions' close_row have written back old copies, the second puts
\* back a close of settle that the first had written over.)
OwnRowsStay ==
  [][\A s \in Sessions, i \in DOMAIN rows :
       (Live(rows[i]) /\ i \in DOMAIN rows' /\ ~Live(rows'[i])
         /\ rows'[i].until[1] = s /\ OpenedIn(s, rows[i]))
       => \/ pc[s] \in {"stamping", "dropping", "recovering"}
          \/ \E n \in part[s] : Facts(s)[n].fixes /\ rows[i].first[2] < Facts(s)[n].turn
          \/ torn /\ overlapped]_rows

\* No fact is matched to the rows of key k: one that is leaves beside its own
\* value all those that it passes over, and holds none of them (Stale,
\* PassedOver).
Unmatched(k) ==
  \A s \in Sessions : \A n \in DOMAIN Told(s) : Told(s)[n].finds # k

\* A value of key k may be held (what a turn keeps is not closed), and then
\* k is simple only if holds are on where turns are matched, no session gives k
\* two values, and what is kept is not named as replaced.
Simple(k) ==
  LET about(s) == {n \in DOMAIN Told(s) : Told(s)[n].key = k}
  IN (\E s \in Sessions : \E n \in about(s) : Told(s)[n].keeps # {}) =>
       /\ \A sw \in Switches : "match" \in sw => {"hold", "consolidate"} \subseteq sw
       /\ \A s \in Sessions : \A m, n \in about(s) :
            /\ Told(s)[n].keeps # {} => Told(s)[n].replaces = None
            /\ (Told(s)[m].status = Decided /\ Told(s)[n].status = Decided)
                 => Told(s)[m].value = Told(s)[n].value

\* Between runs a slot's key has one current value: conflicting writers, held
\* values, crashes and retries do not leave two. Sessions that are not dated
\* close nothing, and the facts of one session stand beside each other; a key
\* that is not simple or has facts matched to it may keep two, as may one whose
\* hold was torn.
Resting == \A s \in Sessions : ~Active(s)
OneCurrent(K) ==
  (Resting /\ ~torn /\ \A s \in Sessions : Dated(s)) =>
  \A i, j \in DOMAIN rows :
    (/\ Current(rows[i]) /\ Current(rows[j]) /\ IsSlot(rows[i]) /\ rows[i].key = rows[j].key
     /\ rows[i].value # rows[j].value /\ rows[i].key \in K)
      => rows[i].first[1] = rows[j].first[1]
OneCurrentValue == OneCurrent({k \in Keys : Unmatched(k) /\ Simple(k)})

\* The same of every simple key: false where facts are matched, for a value
\* that a matched fact passes over stays beside its own ("[`Close::Skip`]
\* leaves the slot live", src/graph/v2/write.rs:1427).
OneValueEverywhere == OneCurrent({k \in Keys : Simple(k)})

\* A key of the subject does not lose its current value without another one,
\* current or held, but by a verdict, to a fact about another key, when a hold
\* cannot be put back, or when a session is written again (or says one fact
\* twice on a turn, which extraction drops).
HasValue(rs, k) == \E i \in DOMAIN rs : rs[i].key = k /\ Current(rs[i])
HasHeld(rs, k) == \E i \in DOMAIN rs : rs[i].key = k /\ Live(rs[i]) /\ Pending(rs[i])
SaysTwice(s) ==
  \E m, n \in DOMAIN Facts(s) :
    m # n /\ SameFact(Facts(s)[m], Facts(s)[n]) /\ Facts(s)[m].turn = Facts(s)[n].turn
Replays(s) == At(s, "writing") /\ (committed[s] # "nothing" \/ SaysTwice(s))
ToAnotherKey(i) ==
  LET s == rows'[i].until[1] why == rows'[i].until[2]
  IN \/ why \in {"rejected", "consolidated", "duplicate"}
     \/ why = "superseded" /\ pair[s].old = i /\ pair[s].key # rows[i].key
     \/ why = "hold_dropped" /\ pair[s].taken # None
     \/ why = "replaced" /\ \E n \in DOMAIN Facts(s) :
          Facts(s)[n].replaces = rows[i].value /\ Facts(s)[n].key # rows[i].key
NeverEmpty ==
  [][\A k \in Keys \ EdgeKeys :
       (HasValue(rows, k) /\ ~HasValue(rows', k))
         => \/ overlapped \/ HasHeld(rows', k) \/ \E s \in Sessions : Replays(s)
            \/ \E i \in DOMAIN rows : /\ rows[i].key = k /\ Live(rows[i])
                                      /\ ~Live(rows'[i]) /\ ToAnotherKey(i)]_rows

\* A retry moves nothing: a session all of whose facts are stored, run again
\* before a later session wrote, finds them there and stores no change ("A
\* retry writes the creating session again. The stored evidence already holds
\* that session, turn and quote, so neither the slot nor the edge moves",
\* src/graph/v2/write.rs:2596; `retry.retirements.is_empty()`, :3834).
RetryMovesNothing ==
  [][\A s \in Sessions :
       (/\ At(s, "writing") /\ committed[s] = "all" /\ pc'[s] = "written"
        /\ \A t \in Sessions : t > s => committed[t] = "nothing")
       => rows' = rows]_rows
=============================================================================
