----------------------- MODULE ArchiveCaptureProofs -----------------------
(***************************************************************************)
(* Proofs about ArchiveCapture, for every set of sessions and processes:   *)
(* its types, that archives are complete, and that the watermark skips     *)
(* nothing.  A sweep is the worker's or an importer's; what it has in hand *)
(* is the transcript it works on and its list.                             *)
(***************************************************************************)
EXTENDS ArchiveCapture, FiniteSetTheorems, TLAPS

\* The processes that sweep, and what a sweep has still to deal with.
Sweepers == {Worker} \cup Importers
Holding(p) == pc[p] \in {"parse", "number", "write", "index", "ingest"}
InHand(p) == list[p] \cup (IF Holding(p) THEN {ref[p]} ELSE {})

\* What a watermark may pass.
Recorded == Archived \cup Replaced
Accounted == Recorded \cup Empty \cup givenUp

\* A process at work has a transcript.
RefsOK == \A p \in Procs : Holding(p) => ref[p] \in Refs

\* What the worker has given up on it does not have in hand, and whatever else
\* there is it has tried at most once.
SkipsOK ==
  /\ \A s \in Sessions \ skipped : attempts[s] < MAX_ATTEMPTS
  /\ \A r \in InHand(Worker) : r.session \notin skipped

\* A number that was taken is the number of an archive or the next one.
NumsOK ==
  \A p \in Procs :
    /\ pc[p] = "write" => num[p] \in 1..(Len(archives) + 1)
    /\ pc[p] \in {"index", "ingest"} => num[p] \in 1..Len(archives)

TInv == TypeOK /\ RefsOK /\ SkipsOK /\ NumsOK

\* A session that looks settled is over, and one that is over has turns.
LooksOver ==
  /\ \A s \in Sessions : turns[s] > 0 /\ ~over[s] => clock - written[s] < Settle
  /\ \A s \in Sessions : over[s] => turns[s] > 0

\* So is one that a sweep has in hand, ...
InHandOver == \A p \in Sweepers : \A r \in InHand(p) : over[r.session]

\* ... and what was read of it is all of it.
ReadWhole ==
  \A p \in Procs \ compacting :
    /\ Holding(p) => over[ref[p].session]
    /\ pc[p] \in {"number", "write"} => text[p] = turns[ref[p].session]

ArchivesNamed ==
  \A n \in DOMAIN archives : archives[n].kind = "session" => archives[n].session \in Sessions

SettledIsOver == LooksOver /\ InHandOver /\ ReadWhole /\ ArchivesNamed /\ CompleteArchives

\* Times lie in the past, and the watermark is in whole seconds.
Timed ==
  /\ \A s \in Sessions : turns[s] > 0 => 0 < written[s] /\ written[s] <= clock
  /\ \A p \in Sweepers : \A r \in InHand(p) :
       turns[r.session] > 0 /\ 0 < r.written /\ r.written <= written[r.session]
  /\ \A i \in Importers : reached[i] <= clock
  /\ watermark <= clock /\ WholeSeconds(watermark) = watermark

\* Sweeps go from old to new.
Ordered ==
  \A p \in Sweepers : Holding(p) => \A q \in list[p] : Earlier(ref[p], q)

\* What is older than a transcript in hand is accounted for or in hand too,
\* unless an importer's watermark stays where it is anyway.
NothingOlder ==
  \A p \in Sweepers :
    \/ p \in Importers /\ blocked[p]
    \/ \A r \in InHand(p) : \A s \in Sessions :
         turns[s] > 0 /\ Fraction(s) /\ written[s] < r.written =>
           s \in Accounted \/ \E q \in InHand(p) : q.session = s

\* What an importer will write is as good as the watermark.
ReachedOK ==
  \A i \in Importers : \A s \in Sessions :
    turns[s] > 0 /\ Fraction(s) /\ written[s] <= WholeSeconds(reached[i]) => s \in Accounted

\* What a sweep has written is there, or was there, ...
Wrote ==
  \A p \in Sweepers :
    /\ pc[p] \in {"number", "write"} => text[p] > 0
    /\ pc[p] \in {"index", "ingest"} => ref[p].session \in Recorded

\* ... and so is what importers know as archived, unless it is empty.
SeenOK ==
  /\ \A i \in Importers : seen[i] \cap Sessions \subseteq Recorded \cup Empty
  /\ skipped \subseteq givenUp

ArchivesOK == Wrote /\ SeenOK

NInv == Timed /\ Ordered /\ NothingOlder /\ ReachedOK /\ ArchivesOK /\ NothingSkipped

-----------------------------------------------------------------------------
(* Constants and times                                                     *)

LEMMA Constants ==
  /\ Sessions \in SUBSET Nat /\ IsFiniteSet(Sessions) /\ None \notin Sessions
  /\ Worker \notin Importers \cup Hooks /\ Importers \cap Hooks = {}
  /\ BATCH_SIZE \in Nat /\ Settle \in Nat \ {0} /\ MaxTurns \in Nat /\ LastTurn \in Nat
  /\ MaxKills \in Nat /\ MaxImports \in Nat /\ MaxCheckpoints \in Nat
  BY ConstantsAssumption

LEMMA Times ==
  /\ Time \in SUBSET Nat /\ 0 \in Time
  /\ \A t \in Time : /\ WholeSeconds(t) \in Time /\ WholeSeconds(t) <= t
                     /\ WholeSeconds(WholeSeconds(t)) = WholeSeconds(t)
                     /\ t < EndOfTime => t + 1 \in Time
  BY Constants DEF Time, EndOfTime, WholeSeconds

-----------------------------------------------------------------------------
(* Types                                                                   *)

LEMMA InitTInv == Init => TInv
<1> SUFFICES ASSUME Init PROVE TInv
  OBVIOUS
<1> USE Constants, Times DEF Init, MAX_ATTEMPTS
<1>1. TypeOK
  BY DEF TypeOK, NoRef
<1>. QED
  BY <1>1 DEF TInv, RefsOK, SkipsOK, NumsOK, Holding, InHand

LEMMA ArchivedTyped == TypeOK => Archived \in SUBSET (Sessions \cup {None})
<1> SUFFICES ASSUME TypeOK, NEW n \in DOMAIN archives
             PROVE  archives[n].session \in Sessions \cup {None}
  BY DEF Archived
<1>1. archives[n] \in Archive
  BY DEF TypeOK
<1>. QED
  BY <1>1 DEF Archive

LEMMA ArchiveTyped == ASSUME TypeOK, NEW p \in Procs, ref[p] \in Refs PROVE ArchiveOf(p) \in Archive
<1> DEFINE before == IF num[p] \in DOMAIN archives
                     THEN archives[num[p]].replaced \cup {archives[num[p]].session} ELSE {}
<1>1. before \in SUBSET (Sessions \cup {None})
  <2>1. ASSUME num[p] \in DOMAIN archives PROVE archives[num[p]] \in Archive
    BY <2>1 DEF TypeOK
  <2>. QED
    BY <2>1 DEF Archive
<1>2. ref[p].session \in Sessions /\ text[p] \in 0..MaxTurns
  BY DEF TypeOK, Refs
<1> HIDE DEF before
<1>. QED
  BY <1>1, <1>2 DEF ArchiveOf, Archive, before

\* What Handled does to the variables it changes.
LEMMA HandledKeeps ==
  ASSUME TInv, NEW p \in Procs, Holding(p), Handled(p)
  PROVE  /\ pc' \in [Procs -> {"off", "idle", "next", "parse", "number",
                               "write", "index", "ingest"}]
         /\ ref' \in [Procs -> Refs \cup {NoRef}] /\ num' \in [Procs -> Nat]
         /\ text' \in [Procs -> 0..MaxTurns] /\ compacting' \in SUBSET Hooks
         /\ reached' \in [Importers -> Time] /\ watermark' \in Time
         /\ attempts' \in [Sessions -> 0..MAX_ATTEMPTS]
         /\ UNCHANGED <<list, skipped, givenUp, blocked>>
         /\ RefsOK' /\ SkipsOK'
         /\ UNCHANGED archives => NumsOK'
<1> USE Constants, Times
<1> USE DEF TInv, TypeOK, RefsOK, Holding, Handled, GoTo, PutDown, Reaches, Refs, NoRef,
        Procs, MAX_ATTEMPTS
<1>1. ref[p].written \in Time /\ ref[p].session \in Sessions
  OBVIOUS
<1>2. reached' \in [Importers -> Time] /\ watermark' \in Time
  <2>1. WholeSeconds(ref[p].written) \in Time
    BY <1>1
  <2>. QED
    BY <1>1, <2>1
<1>a. \/ p = Worker /\ attempts' = [attempts EXCEPT ![ref[p].session] = 0]
      \/ p # Worker /\ attempts' = attempts
  OBVIOUS
<1>b. /\ attempts \in [Sessions -> 0..2]
      /\ \A s \in Sessions \ skipped : attempts[s] < 2
      /\ skipped' = skipped
  BY DEF SkipsOK
<1>3. /\ attempts' \in [Sessions -> 0..MAX_ATTEMPTS]
      /\ \A s \in Sessions \ skipped' : attempts'[s] < MAX_ATTEMPTS
  <2> HIDE DEF TInv, TypeOK, RefsOK, Holding, Handled, GoTo, PutDown, Reaches, Refs, NoRef, Procs
  <2>1. CASE p = Worker
    BY <1>1, <1>a, <1>b, <2>1
  <2>2. CASE p # Worker
    BY <1>1, <1>a, <1>b, <2>2
  <2>. QED
    BY <2>1, <2>2
<1>4. pc' \in [Procs -> {"off", "idle", "next", "parse", "number", "write", "index", "ingest"}]
  OBVIOUS
<1>5. /\ ref' \in [Procs -> Refs \cup {NoRef}] /\ num' \in [Procs -> Nat]
      /\ text' \in [Procs -> 0..MaxTurns] /\ compacting' \in SUBSET Hooks
  OBVIOUS
<1>6. RefsOK'
  OBVIOUS
<1>7. SkipsOK'
  <2>1. \A r \in InHand(Worker)' : r.session \notin skipped'
    BY DEF SkipsOK, InHand
  <2>. QED
    BY <1>3, <2>1 DEF SkipsOK
<1>8. ASSUME UNCHANGED archives PROVE NumsOK'
  BY <1>8 DEF NumsOK
<1>. QED
  BY <1>1, <1>2, <1>3, <1>4, <1>5, <1>6, <1>7, <1>8

\* ... and what Failed does.
LEMMA FailedKeeps ==
  ASSUME TInv, NEW p \in Procs, Holding(p), Failed(p)
  PROVE  /\ pc' \in [Procs -> {"off", "idle", "next", "parse", "number",
                               "write", "index", "ingest"}]
         /\ ref' \in [Procs -> Refs \cup {NoRef}] /\ num' \in [Procs -> Nat]
         /\ text' \in [Procs -> 0..MaxTurns] /\ compacting' \in SUBSET Hooks
         /\ blocked' \in [Importers -> BOOLEAN] /\ watermark' \in Time
         /\ attempts' \in [Sessions -> 0..MAX_ATTEMPTS]
         /\ skipped' \in SUBSET Sessions /\ givenUp' \in SUBSET Sessions
         /\ list' \in [Procs -> SUBSET Refs]
         /\ reached' = reached
         /\ RefsOK' /\ SkipsOK'
         /\ UNCHANGED archives => NumsOK'
<1> USE Constants, Times
<1> USE DEF TInv, TypeOK, RefsOK, Holding, Failed, GoTo, PutDown, Refs, NoRef, Procs,
        MAX_ATTEMPTS
<1>1. ref[p].written \in Time /\ ref[p].session \in Sessions
  OBVIOUS
<1>2. /\ attempts' \in [Sessions -> 0..MAX_ATTEMPTS] /\ watermark' \in Time
      /\ skipped' \in SUBSET Sessions /\ givenUp' \in SUBSET Sessions
      /\ list' \in [Procs -> SUBSET Refs]
      /\ \A s \in Sessions \ skipped' : attempts'[s] < MAX_ATTEMPTS
  <2>1. CASE p = Worker
    <3>1. ref[p].session \notin skipped
      BY <2>1 DEF SkipsOK, InHand
    <3>2. /\ attempts \in [Sessions -> 0..2]
          /\ \A s \in Sessions \ skipped : attempts[s] < 2
          /\ skipped \subseteq Sessions /\ givenUp \subseteq Sessions
          /\ watermark \in Time /\ WholeSeconds(ref[p].written) \in Time
      BY <1>1 DEF SkipsOK
    <3>3. list' \in [Procs -> SUBSET Refs]
      BY <2>1
    <3> DEFINE s == ref[p].session
    <3>4. /\ attempts' = [attempts EXCEPT ![s] = attempts[s] + 1]
          /\ skipped' = IF attempts[s] + 1 >= 2 THEN skipped \cup {s} ELSE skipped
          /\ givenUp' = IF attempts[s] + 1 >= 2 THEN givenUp \cup {s} ELSE givenUp
          /\ watermark' = IF attempts[s] + 1 >= 2 THEN WholeSeconds(ref[p].written) ELSE watermark
      BY <2>1 DEF RecordFailure
    <3>5. s \in Sessions /\ s \notin skipped
      BY <1>1, <3>1
    <3> HIDE DEF s, TInv, TypeOK, RefsOK, Holding, Failed, GoTo, PutDown, Refs, NoRef, Procs
    <3>. QED
      BY <3>2, <3>3, <3>4, <3>5
  <2>2. CASE p # Worker
    <3>1. UNCHANGED <<attempts, skipped, givenUp, watermark, list>>
      BY <2>2
    <3>. QED
      BY <3>1 DEF SkipsOK
  <2>. QED
    BY <2>1, <2>2
<1>3. blocked' \in [Importers -> BOOLEAN]
  OBVIOUS
<1>4. pc' \in [Procs -> {"off", "idle", "next", "parse", "number", "write", "index", "ingest"}]
  OBVIOUS
<1>5. /\ ref' \in [Procs -> Refs \cup {NoRef}] /\ num' \in [Procs -> Nat]
      /\ text' \in [Procs -> 0..MaxTurns] /\ compacting' \in SUBSET Hooks
  OBVIOUS
<1>6. RefsOK'
  OBVIOUS
<1>7. SkipsOK'
  <2>1. CASE p = Worker
    <3>1. InHand(Worker)' = {}
      BY <2>1 DEF InHand
    <3>. QED
      BY <1>2, <3>1 DEF SkipsOK
  <2>2. CASE p # Worker
    BY <2>2 DEF SkipsOK, InHand
  <2>. QED
    BY <2>1, <2>2
<1>8. ASSUME UNCHANGED archives PROVE NumsOK'
  BY <1>8 DEF NumsOK
<1>. QED
  BY <1>1, <1>2, <1>3, <1>4, <1>5, <1>6, <1>7, <1>8

LEMMA TStep == TInv /\ [Next]_vars => TInv'
<1> SUFFICES ASSUME TInv, TypeOK, RefsOK, SkipsOK, NumsOK, [Next]_vars
             PROVE  TypeOK' /\ RefsOK' /\ SkipsOK' /\ NumsOK'
  BY DEF TInv
<1> USE Constants, Times
<1> USE DEF TypeOK, RefsOK, SkipsOK, NumsOK, Holding, InHand, Refs, NoRef, Archive,
        MAX_ATTEMPTS, Procs, GoTo,
            sessions, files, local, ladder, mark, bounds
<1>. QED
  <2>1. ASSUME NEW s \in Sessions, Turn(s) PROVE TypeOK' /\ RefsOK' /\ SkipsOK' /\ NumsOK'
    BY <2>1 DEF Turn
  <2>2. ASSUME NEW s \in Sessions, EndSession(s) PROVE TypeOK' /\ RefsOK' /\ SkipsOK' /\ NumsOK'
    <3>1. over' \in [Sessions -> BOOLEAN]
      BY <2>2 DEF EndSession
    <3>2. ref' \in [Procs -> Refs \cup {NoRef}]
      <4>1. [session |-> s, written |-> written[s]] \in Refs
        OBVIOUS
      <4>. QED
        BY <2>2, <4>1 DEF EndSession
    <3>3. RefsOK' /\ SkipsOK' /\ NumsOK'
      <4>1. [session |-> s, written |-> written[s]] \in Refs
        OBVIOUS
      <4>2. CASE UNCHANGED <<pc, ref>>
        BY <2>2, <4>2 DEF EndSession
      <4>3. ASSUME NEW h \in Hooks, pc' = [pc EXCEPT ![h] = "parse"],
                   ref' = [ref EXCEPT ![h] = [session |-> s, written |-> written[s]]]
            PROVE  RefsOK' /\ SkipsOK' /\ NumsOK'
        BY <2>2, <4>1, <4>3 DEF EndSession
      <4>. QED
        BY <2>2, <4>2, <4>3 DEF EndSession
    <3>. QED
      BY <2>2, <3>1, <3>2, <3>3 DEF EndSession
  <2>3. ASSUME NEW h \in Hooks, NEW s \in Sessions, Checkpoint(h, s)
        PROVE  TypeOK' /\ RefsOK' /\ SkipsOK' /\ NumsOK'
    <3>1. checkpoints' \in 0..MaxCheckpoints
      BY <2>3 DEF Checkpoint
    <3>2. ref' \in [Procs -> Refs \cup {NoRef}] /\ compacting' \in SUBSET Hooks
      BY <2>3 DEF Checkpoint
    <3>3. RefsOK' /\ SkipsOK' /\ NumsOK'
      BY <2>3 DEF Checkpoint
    <3>. QED
      BY <2>3, <3>1, <3>2, <3>3 DEF Checkpoint
  <2>4. ASSUME Tick PROVE TypeOK' /\ RefsOK' /\ SkipsOK' /\ NumsOK'
    BY <2>4 DEF Tick
  <2>5. ASSUME WorkerList PROVE TypeOK' /\ RefsOK' /\ SkipsOK' /\ NumsOK'
    BY <2>5 DEF WorkerList, FirstOf, NotSkipped, Found, Ready
  <2>6. ASSUME WorkerRests PROVE TypeOK' /\ RefsOK' /\ SkipsOK' /\ NumsOK'
    BY <2>6 DEF WorkerRests
  <2>7. ASSUME WorkerStarts PROVE TypeOK' /\ RefsOK' /\ SkipsOK' /\ NumsOK'
    BY <2>7 DEF WorkerStarts
  <2>8. ASSUME NEW i \in Importers, ImporterList(i)
        PROVE  TypeOK' /\ RefsOK' /\ SkipsOK' /\ NumsOK'
    <3>1. imports' \in 0..MaxImports
      BY <2>8 DEF ImporterList, Ready
    <3>2. list' \in [Procs -> SUBSET Refs]
      BY <2>8 DEF ImporterList, Ready
    <3>3. seen' \in [Importers -> SUBSET (Sessions \cup {None})]
      BY <2>8, ArchivedTyped DEF ImporterList, Ready
    <3>4. RefsOK' /\ SkipsOK' /\ NumsOK'
      BY <2>8 DEF ImporterList, Ready
    <3>. QED
      BY <2>8, <3>1, <3>2, <3>3, <3>4 DEF ImporterList, Ready
  <2>9. ASSUME NEW i \in Importers, ImporterEnds(i)
        PROVE  TypeOK' /\ RefsOK' /\ SkipsOK' /\ NumsOK'
    BY <2>9 DEF ImporterEnds, ForgetSweep
  <2>10. ASSUME NEW p \in Procs \ Hooks, Take(p) PROVE TypeOK' /\ RefsOK' /\ SkipsOK' /\ NumsOK'
    BY <2>10 DEF Take
  <2>11. ASSUME NEW p \in Procs, ArchiveFails(p) PROVE TypeOK' /\ RefsOK' /\ SkipsOK' /\ NumsOK'
    BY <2>11, FailedKeeps DEF ArchiveFails
  <2>12. ASSUME NEW p \in Procs, NothingToDo(p) PROVE TypeOK' /\ RefsOK' /\ SkipsOK' /\ NumsOK'
    <3>1. seen' \in [Importers -> SUBSET (Sessions \cup {None})]
      BY <2>12 DEF NothingToDo
    <3>. QED
      BY <2>12, <3>1, HandledKeeps DEF NothingToDo
  <2>13. ASSUME NEW p \in Procs, Parse(p) PROVE TypeOK' /\ RefsOK' /\ SkipsOK' /\ NumsOK'
    BY <2>13 DEF Parse, ArchivedNow
  <2>14. ASSUME NEW p \in Procs, Number(p) PROVE TypeOK' /\ RefsOK' /\ SkipsOK' /\ NumsOK'
    <3>1. num' \in [Procs -> Nat]
      BY <2>14 DEF Number, CheckpointText
    <3>2. text' \in [Procs -> 0..MaxTurns]
      <4>1. ref[p].session \in Sessions
        BY <2>14 DEF Number
      <4>2. turns[ref[p].session] \in 0..MaxTurns
        BY <4>1
      <4>3. CheckpointText(ref[p].session) \in 0..MaxTurns
        BY <4>2 DEF CheckpointText
      <4>. QED
        BY <2>14, <4>3 DEF Number
    <3>3. RefsOK' /\ SkipsOK' /\ NumsOK'
      BY <2>14 DEF Number, CheckpointText
    <3>. QED
      BY <2>14, <3>1, <3>2, <3>3 DEF Number, CheckpointText
  <2>15. ASSUME NEW p \in Procs, Write(p) PROVE TypeOK' /\ RefsOK' /\ SkipsOK' /\ NumsOK'
    <3>1. ArchiveOf(p) \in Archive
      BY <2>15, ArchiveTyped DEF Write
    <3>2. archives' \in Seq(Archive) /\ Len(archives') >= Len(archives)
      <4>1. CASE /\ num[p] \in DOMAIN archives
                /\ archives' = [archives EXCEPT ![num[p]] = ArchiveOf(p)]
        BY <3>1, <4>1
      <4>2. CASE archives' = Append(archives, ArchiveOf(p))
        BY <3>1, <4>2
      <4>. QED
        BY <2>15, <4>1, <4>2 DEF Write
    <3>3. RefsOK' /\ SkipsOK' /\ NumsOK'
      BY <2>15 DEF Write
    <3>4. ingested' \in SUBSET (1..Len(archives'))
      BY <2>15, <3>2 DEF Write
    <3>. QED
      BY <2>15, <3>2, <3>3, <3>4 DEF Write
  <2>16. ASSUME NEW p \in Procs, Index(p) PROVE TypeOK' /\ RefsOK' /\ SkipsOK' /\ NumsOK'
    BY <2>16 DEF Index
  <2>17. ASSUME NEW p \in Procs, IndexFails(p) PROVE TypeOK' /\ RefsOK' /\ SkipsOK' /\ NumsOK'
    BY <2>17, FailedKeeps DEF IndexFails
  <2>18. ASSUME NEW p \in Procs, Ingest(p) PROVE TypeOK' /\ RefsOK' /\ SkipsOK' /\ NumsOK'
    <3>1. num[p] \in 1..Len(archives) /\ Holding(p)
      BY <2>18 DEF Ingest
    <3>2. ingested' \in SUBSET (1..Len(archives'))
      BY <2>18, <3>1 DEF Ingest
    <3>. QED
      BY <2>18, <3>1, <3>2, HandledKeeps DEF Ingest
  <2>19. ASSUME NEW p \in Procs, IngestFails(p) PROVE TypeOK' /\ RefsOK' /\ SkipsOK' /\ NumsOK'
    BY <2>19, FailedKeeps, HandledKeeps DEF IngestFails
  <2>20. ASSUME NEW p \in Procs, Killed(p) PROVE TypeOK' /\ RefsOK' /\ SkipsOK' /\ NumsOK'
    <3>1. kills' \in 0..MaxKills
      BY <2>20 DEF Killed, PutDown, ForgetSweep
    <3>2. attempts' \in [Sessions -> 0..2] /\ skipped' \in SUBSET Sessions
      <4>1. CASE p = Worker
        BY <2>20, <4>1 DEF Killed
      <4>2. CASE p # Worker
        BY <2>20, <4>2 DEF Killed
      <4>. QED
        BY <4>1, <4>2
    <3>3. reached' \in [Importers -> Time] /\ blocked' \in [Importers -> BOOLEAN]
      BY <2>20 DEF Killed, PutDown, ForgetSweep
    <3>4. /\ ref' \in [Procs -> Refs \cup {NoRef}] /\ num' \in [Procs -> Nat]
          /\ text' \in [Procs -> 0..MaxTurns] /\ compacting' \in SUBSET Hooks
      BY <2>20 DEF Killed, PutDown, ForgetSweep
    <3>5. /\ seen' \in [Importers -> SUBSET (Sessions \cup {None})]
          /\ list' \in [Procs -> SUBSET Refs]
      BY <2>20 DEF Killed, PutDown, ForgetSweep
    <3>6. RefsOK' /\ SkipsOK' /\ NumsOK'
      BY <2>20 DEF Killed, PutDown, ForgetSweep
    <3>. QED
      BY <2>20, <3>1, <3>2, <3>3, <3>4, <3>5, <3>6 DEF Killed, PutDown, ForgetSweep
  <2>21. CASE UNCHANGED vars
    BY <2>21 DEF vars
  <2>. QED
    BY <2>1, <2>2, <2>3, <2>4, <2>5, <2>6, <2>7, <2>8, <2>9, <2>10, <2>11, <2>12, <2>13,
       <2>14, <2>15, <2>16, <2>17, <2>18, <2>19, <2>20, <2>21 DEF Next, Step

LEMMA TypeInduction == Spec => []TInv
<1>1. Init => TInv
  BY InitTInv
<1>2. TInv /\ [Next]_vars => TInv'
  BY TStep
<1>. QED
  BY <1>1, <1>2, PTL DEF Spec

\* The variables keep their types; the worker counts no third failure of a
\* transcript (record_failure) and no number is ingested that was not written.
THEOREM TypeInvariant == Spec => []TypeOK
<1>1. TInv => TypeOK
  BY DEF TInv
<1>. QED
  BY <1>1, TypeInduction, PTL

-----------------------------------------------------------------------------
(* Complete archives                                                       *)

LEMMA ReadyRefs ==
  ASSUME TypeOK, NEW r \in Ready
  PROVE  /\ r \in Refs /\ r.session \in Sessions /\ r.written = written[r.session]
         /\ turns[r.session] > 0 /\ r.written > watermark
         /\ r.session \notin Archived /\ Settled(r.session)
  BY DEF TypeOK, Ready, Refs

LEMMA NatTimes ==
  TypeOK => /\ clock \in Nat /\ watermark \in Nat
            /\ \A s \in Sessions : written[s] \in Nat
            /\ \A i \in Importers : reached[i] \in Nat
  BY Times DEF TypeOK

LEMMA InitSettled == Init => SettledIsOver
  BY Constants DEF Init, SettledIsOver, LooksOver, InHandOver, ReadWhole, ArchivesNamed,
     CompleteArchives, Holding, InHand, Sweepers, Procs

LEMMA SettledStep ==
  ASSUME ~Pauses, TInv, SettledIsOver, [Next]_vars
  PROVE  SettledIsOver'
<1> USE Constants, Times
<1> USE DEF TInv, TypeOK, RefsOK, NumsOK, Holding, InHand, Sweepers, Refs, NoRef, Archive,
        Procs, GoTo,
            LooksOver, InHandOver, ReadWhole, ArchivesNamed, CompleteArchives, SettledIsOver,
            sessions, files, local, ladder, mark, bounds
<1>. QED
  <2>1. ASSUME NEW s \in Sessions, Turn(s) PROVE SettledIsOver'
    <3>1. LooksOver'
      <4>1. clock - written'[s] < Settle /\ over'[s] = over[s] /\ clock' = clock /\ ~over[s]
        BY <2>1 DEF Turn
      <4>2. \A z \in Sessions \ {s} : /\ written'[z] = written[z] /\ turns'[z] = turns[z]
                                      /\ over'[z] = over[z]
        BY <2>1 DEF Turn
      <4>3. LooksOver
        OBVIOUS
      <4>. QED
        BY <4>1, <4>2, <4>3
    <3>2. InHandOver'
      BY <2>1 DEF Turn
    <3>3. ReadWhole'
      BY <2>1 DEF Turn
    <3>4. ArchivesNamed'
      BY <2>1 DEF Turn
    <3>5. CompleteArchives'
      BY <2>1 DEF Turn
    <3>. QED
      BY <3>1, <3>2, <3>3, <3>4, <3>5 DEF SettledIsOver
  <2>2. ASSUME NEW s \in Sessions, EndSession(s) PROVE SettledIsOver'
    <3>a. \/ UNCHANGED <<pc, ref>>
          \/ \E h \in Hooks : /\ pc[h] = "off" /\ pc' = [pc EXCEPT ![h] = "parse"]
                              /\ ref' = [ref EXCEPT ![h] =
                                           [session |-> s, written |-> written[s]]]
      BY <2>2 DEF EndSession
    <3>b. UNCHANGED list
      BY <2>2 DEF EndSession
    <3>1. LooksOver'
      BY <2>2 DEF EndSession
    <3>2. InHandOver'
      <4>1. \A q \in Sweepers : pc'[q] = pc[q] /\ ref'[q] = ref[q] /\ list'[q] = list[q]
        BY <3>a, <3>b
      <4>3. \A q \in Sweepers : InHand(q)' = InHand(q)
        BY <4>1
      <4>4. \A z \in Sessions : over[z] => over'[z]
        BY <2>2 DEF EndSession
      <4>5. \A q \in Sweepers : \A r \in InHand(q) : r.session \in Sessions
        OBVIOUS
      <4>6. InHandOver
        OBVIOUS
      <4> HIDE DEF InHand, Sweepers, TInv, TypeOK, RefsOK, NumsOK, SettledIsOver
      <4>. QED
        BY <4>3, <4>4, <4>5, <4>6
    <3>3. ReadWhole'
      <4>1. over'[s] /\ \A z \in Sessions : over[z] => over'[z]
        BY <2>2 DEF EndSession
      <4>. QED
        <5> HIDE DEF Archive, ArchivesNamed, CompleteArchives, NumsOK
        <5>1. UNCHANGED <<turns, text, compacting>>
          BY <2>2 DEF EndSession
        <5>2. ReadWhole /\ compacting \subseteq Hooks
          OBVIOUS
        <5>3. CASE UNCHANGED <<pc, ref>>
          BY <4>1, <5>1, <5>2, <5>3
        <5>4. ASSUME NEW h \in Hooks, pc[h] = "off", pc' = [pc EXCEPT ![h] = "parse"],
                     ref' = [ref EXCEPT ![h] = [session |-> s, written |-> written[s]]]
              PROVE  ReadWhole'
          BY <4>1, <5>1, <5>2, <5>4
        <5>. QED
          BY <3>a, <5>3, <5>4
    <3>4. ArchivesNamed'
      BY <2>2 DEF EndSession
    <3>5. CompleteArchives'
      BY <2>2 DEF EndSession
    <3>. QED
      BY <3>1, <3>2, <3>3, <3>4, <3>5 DEF SettledIsOver
  <2>3. ASSUME NEW h \in Hooks, NEW s \in Sessions, Checkpoint(h, s) PROVE SettledIsOver'
    BY <2>3 DEF Checkpoint
  <2>4. ASSUME Tick PROVE SettledIsOver'
    <3>1. LooksOver'
      <4>a. \A z \in Sessions : turns[z] > 0 /\ ~over[z] => clock + 1 - written[z] < Settle
        BY <2>4 DEF Tick
      <4>1. \A z \in Sessions : turns[z] > 0 /\ ~over[z] => clock' - written[z] < Settle
        <5>1. clock' = clock + 1
          BY <2>4 DEF Tick
        <5>2. clock \in Nat /\ \A z \in Sessions : written[z] \in Nat
          BY NatTimes
        <5> HIDE DEF TInv, TypeOK, RefsOK, NumsOK, SettledIsOver, LooksOver
        <5>. QED
          BY <4>a, <5>1, <5>2
      <4>. QED
        BY <2>4, <4>1 DEF Tick
    <3>2. InHandOver'
      BY <2>4 DEF Tick
    <3>3. ReadWhole'
      BY <2>4 DEF Tick
    <3>4. ArchivesNamed'
      BY <2>4 DEF Tick
    <3>5. CompleteArchives'
      BY <2>4 DEF Tick
    <3>. QED
      BY <3>1, <3>2, <3>3, <3>4, <3>5 DEF SettledIsOver
  <2>5. ASSUME WorkerList PROVE SettledIsOver'
    <3>1. LooksOver'
      BY <2>5 DEF WorkerList, FirstOf, NotSkipped, Found, Ready, Settled
    <3>2. InHandOver'
      <4>1. \A r \in list'[Worker] :
              r.session \in Sessions /\ Settled(r.session) /\ turns[r.session] > 0
        BY <2>5, ReadyRefs DEF WorkerList, FirstOf, NotSkipped, Found
      <4>2. \A r \in list'[Worker] : over[r.session]
        <5>1. /\ clock \in Nat /\ \A s \in Sessions : written[s] \in Nat
              /\ LooksOver
          BY NatTimes
        <5> HIDE DEF TInv, TypeOK, RefsOK, NumsOK, SettledIsOver
        <5>2. ASSUME NEW s \in Sessions, turns[s] > 0, Settled(s) PROVE over[s]
          BY <5>1, <5>2 DEF Settled, LooksOver
        <5>. QED
          BY <4>1, <5>2
      <4>. QED
        BY <2>5, <4>2 DEF WorkerList
    <3>3. ReadWhole'
      BY <2>5 DEF WorkerList, FirstOf, NotSkipped, Found, Ready, Settled
    <3>4. ArchivesNamed'
      BY <2>5 DEF WorkerList, FirstOf, NotSkipped, Found, Ready, Settled
    <3>5. CompleteArchives'
      BY <2>5 DEF WorkerList, FirstOf, NotSkipped, Found, Ready, Settled
    <3>. QED
      BY <3>1, <3>2, <3>3, <3>4, <3>5 DEF SettledIsOver
  <2>6. ASSUME WorkerRests PROVE SettledIsOver'
    BY <2>6 DEF WorkerRests
  <2>7. ASSUME WorkerStarts PROVE SettledIsOver'
    BY <2>7 DEF WorkerStarts
  <2>8. ASSUME NEW i \in Importers, ImporterList(i) PROVE SettledIsOver'
    <3>1. LooksOver'
      BY <2>8 DEF ImporterList, Ready, Settled
    <3>2. InHandOver'
      <4>1. \A r \in list'[i] :
              r.session \in Sessions /\ Settled(r.session) /\ turns[r.session] > 0
        BY <2>8, ReadyRefs DEF ImporterList
      <4>2. \A r \in list'[i] : over[r.session]
        <5>1. /\ clock \in Nat /\ \A s \in Sessions : written[s] \in Nat
              /\ LooksOver
          BY NatTimes
        <5> HIDE DEF TInv, TypeOK, RefsOK, NumsOK, SettledIsOver
        <5>2. ASSUME NEW s \in Sessions, turns[s] > 0, Settled(s) PROVE over[s]
          BY <5>1, <5>2 DEF Settled, LooksOver
        <5>. QED
          BY <4>1, <5>2
      <4>. QED
        BY <2>8, <4>2 DEF ImporterList
    <3>3. ReadWhole'
      BY <2>8 DEF ImporterList, Ready, Settled
    <3>4. ArchivesNamed'
      BY <2>8 DEF ImporterList, Ready, Settled
    <3>5. CompleteArchives'
      BY <2>8 DEF ImporterList, Ready, Settled
    <3>. QED
      BY <3>1, <3>2, <3>3, <3>4, <3>5 DEF SettledIsOver
  <2>9. ASSUME NEW i \in Importers, ImporterEnds(i) PROVE SettledIsOver'
    BY <2>9 DEF ImporterEnds
  <2>10. ASSUME NEW p \in Procs \ Hooks, Take(p) PROVE SettledIsOver'
    BY <2>10 DEF Take
  <2>11. ASSUME NEW p \in Procs, ArchiveFails(p) PROVE SettledIsOver'
    BY <2>11 DEF ArchiveFails, Failed, PutDown
  <2>12. ASSUME NEW p \in Procs, NothingToDo(p) PROVE SettledIsOver'
    BY <2>12 DEF NothingToDo, Handled, PutDown
  <2>13. ASSUME NEW p \in Procs, Parse(p) PROVE SettledIsOver'
    BY <2>13 DEF Parse, ArchivedNow
  <2>14. ASSUME NEW p \in Procs, Number(p) PROVE SettledIsOver'
    BY <2>14 DEF Number
  <2>15. ASSUME NEW p \in Procs, Write(p) PROVE SettledIsOver'
    <3>a. ArchiveOf(p).kind = "session" =>
            /\ ArchiveOf(p).session \in Sessions /\ over[ArchiveOf(p).session]
            /\ ArchiveOf(p).turns = turns[ArchiveOf(p).session]
      <4>1. ref[p].session \in Sessions
        BY <2>15 DEF Write
      <4>2. ASSUME p \notin compacting
            PROVE  over[ref[p].session] /\ text[p] = turns[ref[p].session]
        BY <2>15, <4>2 DEF Write
      <4>3. ASSUME p \notin compacting PROVE text[p] > 0
        BY <4>1, <4>2, <4>3
      <4>. QED
        BY <4>1, <4>2, <4>3 DEF ArchiveOf
    <3>b. ArchiveOf(p) \in Archive
      BY <2>15, ArchiveTyped DEF Write
    <3>c. \A n \in DOMAIN archives' :
            archives'[n] = ArchiveOf(p) \/ (n \in DOMAIN archives /\ archives'[n] = archives[n])
      <4>1. archives' = IF num[p] \in DOMAIN archives
                        THEN [archives EXCEPT ![num[p]] = ArchiveOf(p)]
                        ELSE Append(archives, ArchiveOf(p))
        BY <2>15 DEF Write
      <4>2. archives \in Seq(Archive)
        OBVIOUS
      <4> HIDE DEF Archive, TInv, TypeOK, RefsOK, NumsOK, SettledIsOver
      <4>3. CASE num[p] \in DOMAIN archives
        <5>1. archives' = [archives EXCEPT ![num[p]] = ArchiveOf(p)]
          BY <4>1, <4>3
        <5>. QED
          BY <5>1
      <4>4. CASE num[p] \notin DOMAIN archives
        <5>1. archives' = Append(archives, ArchiveOf(p))
          BY <4>1, <4>4
        <5>. QED
          BY <3>b, <4>2, <5>1
      <4>. QED
        BY <4>3, <4>4
    <3>1. LooksOver'
      BY <2>15 DEF Write
    <3>2. InHandOver'
      BY <2>15 DEF Write
    <3>3. ReadWhole'
      BY <2>15 DEF Write
    <3>4. ArchivesNamed'
      BY <2>15, <3>a, <3>b, <3>c
    <3>5. CompleteArchives'
      BY <2>15, <3>a, <3>b, <3>c DEF Write
    <3>. QED
      BY <3>1, <3>2, <3>3, <3>4, <3>5 DEF SettledIsOver
  <2>16. ASSUME NEW p \in Procs, Index(p) PROVE SettledIsOver'
    BY <2>16 DEF Index
  <2>17. ASSUME NEW p \in Procs, IndexFails(p) PROVE SettledIsOver'
    BY <2>17 DEF IndexFails, Failed, PutDown
  <2>18. ASSUME NEW p \in Procs, Ingest(p) PROVE SettledIsOver'
    BY <2>18 DEF Ingest, Handled, PutDown
  <2>19. ASSUME NEW p \in Procs, IngestFails(p) PROVE SettledIsOver'
    <3>1. LooksOver'
      BY <2>19 DEF IngestFails, Failed, Handled, PutDown
    <3>2. InHandOver'
      <4>1. over' = over
        BY <2>19 DEF IngestFails
      <4>2. ASSUME NEW q \in Sweepers PROVE InHand(q)' \subseteq InHand(q)
        <5>1. list'[q] \subseteq list[q]
          BY <2>19 DEF IngestFails, Failed, Handled
        <5>2. CASE q = p
          <6>1. ~Holding(p)'
            BY <2>19 DEF IngestFails, Failed, Handled
          <6>. QED
            BY <5>1, <5>2, <6>1
        <5>3. CASE q # p
          <6>1. pc'[q] = pc[q] /\ ref'[q] = ref[q]
            BY <2>19, <5>3 DEF IngestFails, Failed, Handled, PutDown
          <6>. QED
            BY <5>1, <6>1
        <5>. QED
          BY <5>2, <5>3
      <4>3. InHandOver
        OBVIOUS
      <4> HIDE DEF InHand, Sweepers, TInv, TypeOK, RefsOK, NumsOK, SettledIsOver
      <4>. QED
        BY <4>1, <4>2, <4>3
    <3>3. ReadWhole'
      BY <2>19 DEF IngestFails, Failed, Handled, PutDown
    <3>4. ArchivesNamed'
      BY <2>19 DEF IngestFails, Failed, Handled, PutDown
    <3>5. CompleteArchives'
      BY <2>19 DEF IngestFails, Failed, Handled, PutDown
    <3>. QED
      BY <3>1, <3>2, <3>3, <3>4, <3>5 DEF SettledIsOver
  <2>20. ASSUME NEW p \in Procs, Killed(p) PROVE SettledIsOver'
    BY <2>20 DEF Killed, PutDown
  <2>21. CASE UNCHANGED vars
    BY <2>21 DEF vars
  <2>. QED
    BY <2>1, <2>2, <2>3, <2>4, <2>5, <2>6, <2>7, <2>8, <2>9, <2>10, <2>11, <2>12, <2>13,
       <2>14, <2>15, <2>16, <2>17, <2>18, <2>19, <2>20, <2>21 DEF Next, Step

LEMMA SettledInduction == ASSUME ~Pauses PROVE Spec => []SettledIsOver
<1>1. Init => SettledIsOver
  BY InitSettled
<1>2. TInv /\ SettledIsOver /\ [Next]_vars => SettledIsOver'
  BY SettledStep
<1>. QED
  BY <1>1, <1>2, TypeInduction, PTL DEF Spec

\* If no session goes on after it looked settled, every archive of a session
\* holds all of it (pending, run_sweep), whoever else archives and dies.
THEOREM ArchivesAreComplete == ASSUME ~Pauses PROVE Spec => []CompleteArchives
<1>1. SettledIsOver => CompleteArchives
  BY DEF SettledIsOver
<1>. QED
  BY <1>1, SettledInduction, PTL

-----------------------------------------------------------------------------
(* The order of discovery                                                  *)

LEMMA EarlierOrder ==
  ASSUME NEW r \in Refs, NEW q \in Refs
  PROVE  /\ Earlier(r, q) => r.written <= q.written
         /\ \A x \in Refs : Earlier(r, q) /\ Earlier(q, x) => Earlier(r, x)
<1>1. r.written \in Nat /\ r.session \in Nat /\ q.written \in Nat /\ q.session \in Nat
  BY Times, Constants DEF Refs
<1>2. \A x \in Refs : x.written \in Nat /\ x.session \in Nat
  BY Times, Constants DEF Refs
<1>. QED
  BY <1>1, <1>2 DEF Earlier

\* What is older than one of the first k is one of the first k.
LEMMA FirstOfClosed ==
  ASSUME NEW S \in SUBSET Refs, IsFiniteSet(S), NEW k \in Nat,
         NEW r \in FirstOf(k, S), NEW q \in S, Earlier(q, r)
  PROVE  q \in FirstOf(k, S)
<1> DEFINE before(x) == {y \in S : Earlier(y, x)}
<1>1. before(q) \subseteq before(r)
  BY EarlierOrder DEF FirstOf
<1>2. IsFiniteSet(before(r))
  BY FS_Subset
<1>3. /\ IsFiniteSet(before(q)) /\ Cardinality(before(q)) <= Cardinality(before(r))
  BY <1>1, <1>2, FS_Subset
<1>4. Cardinality(before(r)) < k
  BY DEF FirstOf
<1>5. Cardinality(before(q)) \in Nat /\ Cardinality(before(r)) \in Nat
  BY <1>2, <1>3, FS_CardinalityType
<1>6. Cardinality(before(q)) < k
  <2> HIDE DEF before
  <2>. QED
    BY <1>3, <1>4, <1>5
<1>. QED
  BY <1>6 DEF FirstOf

LEMMA ReadyFinite == TypeOK => IsFiniteSet(Ready) /\ Ready \in SUBSET Refs
<1> SUFFICES ASSUME TypeOK PROVE IsFiniteSet(Ready)
  BY ReadyRefs
<1> DEFINE T == {s \in Sessions : /\ turns[s] > 0 /\ written[s] > watermark
                                  /\ s \notin Archived /\ Settled(s)}
           f == [s \in T |-> [session |-> s, written |-> written[s]]]
<1>1. IsFiniteSet(T)
  BY Constants, FS_Subset
<1>2. f \in Surjection(T, Ready)
  BY DEF Surjection, Ready
<1>. QED
  BY <1>1, <1>2, FS_Surjection

\* A transcript older than one that is ready is accounted for or ready.
LEMMA ReadyClosed ==
  ASSUME TypeOK, NothingSkipped, NEW r \in Ready, NEW s \in Sessions,
         turns[s] > 0, Fraction(s), written[s] < r.written, s \notin Accounted
  PROVE  /\ [session |-> s, written |-> written[s]] \in Ready
         /\ Earlier([session |-> s, written |-> written[s]], r)
<1>1. s \notin Archived
  BY DEF Accounted, Recorded
<1>2. ~(written[s] <= watermark)
  BY DEF NothingSkipped, Accounted, Recorded
<1>a. /\ clock \in Nat /\ written[s] \in Nat /\ written[r.session] \in Nat /\ Settle \in Nat
      /\ r.written = written[r.session] /\ clock - written[r.session] >= Settle
  BY ReadyRefs, NatTimes, Constants DEF Settled
<1>3. Settled(s)
  BY <1>a DEF Settled
<1>4. written[s] \in Nat /\ watermark \in Nat
  BY NatTimes
<1>. QED
  BY <1>1, <1>2, <1>3, <1>4 DEF Ready, Earlier

-----------------------------------------------------------------------------
(* What steps do                                                           *)

\* Archives change when one is written.
Adds == \E p \in Procs : Write(p)

LEMMA ArchivesStep ==
  ASSUME [Next]_vars
  PROVE  UNCHANGED archives \/ Adds
<1> USE DEF sessions, files, local, ladder, mark, bounds
<1>. QED
  <2>1. ASSUME NEW s \in Sessions, Turn(s) PROVE UNCHANGED archives \/ Adds
    BY <2>1 DEF Turn
  <2>2. ASSUME NEW s \in Sessions, EndSession(s) PROVE UNCHANGED archives \/ Adds
    BY <2>2 DEF EndSession
  <2>3. ASSUME NEW h \in Hooks, NEW s \in Sessions, Checkpoint(h, s)
        PROVE  UNCHANGED archives \/ Adds
    BY <2>3 DEF Checkpoint
  <2>4. ASSUME Tick PROVE UNCHANGED archives \/ Adds
    BY <2>4 DEF Tick
  <2>5. ASSUME WorkerList PROVE UNCHANGED archives \/ Adds
    BY <2>5 DEF WorkerList
  <2>6. ASSUME WorkerRests PROVE UNCHANGED archives \/ Adds
    BY <2>6 DEF WorkerRests
  <2>7. ASSUME WorkerStarts PROVE UNCHANGED archives \/ Adds
    BY <2>7 DEF WorkerStarts
  <2>8. ASSUME NEW i \in Importers, ImporterList(i) PROVE UNCHANGED archives \/ Adds
    BY <2>8 DEF ImporterList
  <2>9. ASSUME NEW i \in Importers, ImporterEnds(i) PROVE UNCHANGED archives \/ Adds
    BY <2>9 DEF ImporterEnds
  <2>10. ASSUME NEW p \in Procs \ Hooks, Take(p) PROVE UNCHANGED archives \/ Adds
    BY <2>10 DEF Take
  <2>11. ASSUME NEW p \in Procs, ArchiveFails(p) PROVE UNCHANGED archives \/ Adds
    BY <2>11 DEF ArchiveFails, Failed, RecordFailure
  <2>12. ASSUME NEW p \in Procs, NothingToDo(p) PROVE UNCHANGED archives \/ Adds
    BY <2>12 DEF NothingToDo, Handled
  <2>13. ASSUME NEW p \in Procs, Parse(p) PROVE UNCHANGED archives \/ Adds
    BY <2>13 DEF Parse
  <2>14. ASSUME NEW p \in Procs, Number(p) PROVE UNCHANGED archives \/ Adds
    BY <2>14 DEF Number
  <2>15. ASSUME NEW p \in Procs, Write(p) PROVE UNCHANGED archives \/ Adds
    BY <2>15 DEF Adds
  <2>16. ASSUME NEW p \in Procs, Index(p) PROVE UNCHANGED archives \/ Adds
    BY <2>16 DEF Index
  <2>17. ASSUME NEW p \in Procs, IndexFails(p) PROVE UNCHANGED archives \/ Adds
    BY <2>17 DEF IndexFails, Failed, RecordFailure
  <2>18. ASSUME NEW p \in Procs, Ingest(p) PROVE UNCHANGED archives \/ Adds
    BY <2>18 DEF Ingest, Handled
  <2>19. ASSUME NEW p \in Procs, IngestFails(p) PROVE UNCHANGED archives \/ Adds
    BY <2>19 DEF IngestFails, Handled, Failed, RecordFailure
  <2>20. ASSUME NEW p \in Procs, Killed(p) PROVE UNCHANGED archives \/ Adds
    BY <2>20 DEF Killed
  <2>21. CASE UNCHANGED vars
    BY <2>21 DEF vars
  <2>. QED
    BY <2>1, <2>2, <2>3, <2>4, <2>5, <2>6, <2>7, <2>8, <2>9, <2>10, <2>11, <2>12, <2>13,
       <2>14, <2>15, <2>16, <2>17, <2>18, <2>19, <2>20, <2>21 DEF Next, Step

\* What Write leaves: the archive under its number, and every other.
LEMMA WriteResult ==
  ASSUME TInv, NEW p \in Procs, Write(p)
  PROVE  /\ num[p] \in DOMAIN archives' /\ archives'[num[p]] = ArchiveOf(p)
         /\ \A n \in DOMAIN archives \ {num[p]} :
              n \in DOMAIN archives' /\ archives'[n] = archives[n]
<1>1. /\ archives \in Seq(Archive) /\ num[p] \in 1..(Len(archives) + 1)
      /\ ArchiveOf(p) \in Archive
  <2>1. ref[p] \in Refs
    BY DEF TInv, RefsOK, Holding, Write
  <2>. QED
    BY <2>1, ArchiveTyped DEF TInv, TypeOK, NumsOK, Write
<1>2. CASE num[p] \in DOMAIN archives
  <2>1. archives' = [archives EXCEPT ![num[p]] = ArchiveOf(p)]
    BY <1>2 DEF Write
  <2>. QED
    BY <1>2, <2>1
<1>3. CASE num[p] \notin DOMAIN archives
  <2>1. archives' = Append(archives, ArchiveOf(p)) /\ num[p] = Len(archives) + 1
    BY <1>1, <1>3 DEF Write
  <2> HIDE DEF Archive
  <2>. QED
    BY <1>1, <2>1
<1>. QED
  BY <1>2, <1>3

\* A session that has an archive keeps it, or its archive was written over.
LEMMA RecordedGrows ==
  ASSUME TInv, [Next]_vars
  PROVE  Recorded \subseteq Recorded'
<1>1. CASE UNCHANGED archives
  BY <1>1 DEF Recorded, Archived, Replaced
<1>2. ASSUME NEW p \in Procs, Write(p) PROVE Recorded \subseteq Recorded'
  <2>1. /\ num[p] \in DOMAIN archives' /\ archives'[num[p]] = ArchiveOf(p)
        /\ \A n \in DOMAIN archives \ {num[p]} :
             n \in DOMAIN archives' /\ archives'[n] = archives[n]
    BY <1>2, WriteResult
  <2>2. num[p] \in DOMAIN archives =>
          /\ archives[num[p]].session \in ArchiveOf(p).replaced
          /\ archives[num[p]].replaced \subseteq ArchiveOf(p).replaced
    BY DEF ArchiveOf
  <2>3. \A n \in DOMAIN archives :
          /\ archives[n].session \in Recorded'
          /\ archives[n].replaced \subseteq Recorded'
    <3>1. ASSUME NEW n \in DOMAIN archives', NEW s,
                 s = archives'[n].session \/ s \in archives'[n].replaced
          PROVE  s \in Recorded'
      BY <3>1 DEF Recorded, Archived, Replaced
    <3>. QED
      BY <2>1, <2>2, <3>1
  <2>. QED
    BY <2>3 DEF Recorded, Archived, Replaced
<1>. QED
  BY <1>1, <1>2, ArchivesStep DEF Adds

LEMMA GivenUpGrows == [Next]_vars => givenUp \subseteq givenUp'
<1> SUFFICES ASSUME [Next]_vars PROVE givenUp \subseteq givenUp'
  OBVIOUS
<1> USE DEF sessions, files, local, ladder, mark, bounds
<1>. QED
  <2>1. ASSUME NEW s \in Sessions, Turn(s) PROVE givenUp \subseteq givenUp'
    BY <2>1 DEF Turn
  <2>2. ASSUME NEW s \in Sessions, EndSession(s) PROVE givenUp \subseteq givenUp'
    BY <2>2 DEF EndSession
  <2>3. ASSUME NEW h \in Hooks, NEW s \in Sessions, Checkpoint(h, s)
        PROVE  givenUp \subseteq givenUp'
    BY <2>3 DEF Checkpoint
  <2>4. ASSUME Tick PROVE givenUp \subseteq givenUp'
    BY <2>4 DEF Tick
  <2>5. ASSUME WorkerList PROVE givenUp \subseteq givenUp'
    BY <2>5 DEF WorkerList
  <2>6. ASSUME WorkerRests PROVE givenUp \subseteq givenUp'
    BY <2>6 DEF WorkerRests
  <2>7. ASSUME WorkerStarts PROVE givenUp \subseteq givenUp'
    BY <2>7 DEF WorkerStarts
  <2>8. ASSUME NEW i \in Importers, ImporterList(i) PROVE givenUp \subseteq givenUp'
    BY <2>8 DEF ImporterList
  <2>9. ASSUME NEW i \in Importers, ImporterEnds(i) PROVE givenUp \subseteq givenUp'
    BY <2>9 DEF ImporterEnds
  <2>10. ASSUME NEW p \in Procs \ Hooks, Take(p) PROVE givenUp \subseteq givenUp'
    BY <2>10 DEF Take
  <2>11. ASSUME NEW p \in Procs, ArchiveFails(p) PROVE givenUp \subseteq givenUp'
    BY <2>11 DEF ArchiveFails, Failed, RecordFailure
  <2>12. ASSUME NEW p \in Procs, NothingToDo(p) PROVE givenUp \subseteq givenUp'
    BY <2>12 DEF NothingToDo, Handled
  <2>13. ASSUME NEW p \in Procs, Parse(p) PROVE givenUp \subseteq givenUp'
    BY <2>13 DEF Parse
  <2>14. ASSUME NEW p \in Procs, Number(p) PROVE givenUp \subseteq givenUp'
    BY <2>14 DEF Number
  <2>15. ASSUME NEW p \in Procs, Write(p) PROVE givenUp \subseteq givenUp'
    BY <2>15 DEF Write
  <2>16. ASSUME NEW p \in Procs, Index(p) PROVE givenUp \subseteq givenUp'
    BY <2>16 DEF Index
  <2>17. ASSUME NEW p \in Procs, IndexFails(p) PROVE givenUp \subseteq givenUp'
    BY <2>17 DEF IndexFails, Failed, RecordFailure
  <2>18. ASSUME NEW p \in Procs, Ingest(p) PROVE givenUp \subseteq givenUp'
    BY <2>18 DEF Ingest, Handled
  <2>19. ASSUME NEW p \in Procs, IngestFails(p) PROVE givenUp \subseteq givenUp'
    BY <2>19 DEF IngestFails, Handled, Failed, RecordFailure
  <2>20. ASSUME NEW p \in Procs, Killed(p) PROVE givenUp \subseteq givenUp'
    BY <2>20 DEF Killed
  <2>21. CASE UNCHANGED vars
    BY <2>21 DEF vars
  <2>. QED
    BY <2>1, <2>2, <2>3, <2>4, <2>5, <2>6, <2>7, <2>8, <2>9, <2>10, <2>11, <2>12, <2>13,
       <2>14, <2>15, <2>16, <2>17, <2>18, <2>19, <2>20, <2>21 DEF Next, Step

LEMMA AccountedGrows ==
  ASSUME TInv, [Next]_vars
  PROVE  Accounted \subseteq Accounted'
  BY RecordedGrows, GivenUpGrows DEF Accounted

\* Time passes, ...
Passes == UNCHANGED <<turns, written>> /\ clock' = clock + 1

\* ... or an agent writes now.
Writes(s) ==
  /\ Turn(s) /\ turns'[s] > 0 /\ written'[s] = clock
  /\ \A z \in Sessions \ {s} : turns'[z] = turns[z] /\ written'[z] = written[z]

SessionsMove ==
  UNCHANGED <<clock, turns, written>> \/ Passes \/ \E s \in Sessions : Writes(s)

LEMMA SessionsStep ==
  ASSUME TInv, [Next]_vars
  PROVE  SessionsMove
<1> USE DEF SessionsMove, sessions, files, local, ladder, mark, bounds
<1>. QED
  <2>1. ASSUME NEW s \in Sessions, Turn(s) PROVE SessionsMove
    <3>1. turns'[s] > 0 /\ written'[s] = clock
      BY <2>1 DEF Turn, TInv, TypeOK
    <3>2. \A z \in Sessions \ {s} : turns'[z] = turns[z] /\ written'[z] = written[z]
      BY <2>1 DEF Turn, TInv, TypeOK
    <3>. QED
      BY <2>1, <3>1, <3>2 DEF Writes
  <2>2. ASSUME NEW s \in Sessions, EndSession(s) PROVE SessionsMove
    BY <2>2 DEF EndSession
  <2>3. ASSUME NEW h \in Hooks, NEW s \in Sessions, Checkpoint(h, s) PROVE SessionsMove
    BY <2>3 DEF Checkpoint
  <2>4. ASSUME Tick PROVE SessionsMove
    BY <2>4 DEF Tick, Passes
  <2>5. ASSUME WorkerList PROVE SessionsMove
    BY <2>5 DEF WorkerList
  <2>6. ASSUME WorkerRests PROVE SessionsMove
    BY <2>6 DEF WorkerRests
  <2>7. ASSUME WorkerStarts PROVE SessionsMove
    BY <2>7 DEF WorkerStarts
  <2>8. ASSUME NEW i \in Importers, ImporterList(i) PROVE SessionsMove
    BY <2>8 DEF ImporterList
  <2>9. ASSUME NEW i \in Importers, ImporterEnds(i) PROVE SessionsMove
    BY <2>9 DEF ImporterEnds
  <2>10. ASSUME NEW p \in Procs \ Hooks, Take(p) PROVE SessionsMove
    BY <2>10 DEF Take
  <2>11. ASSUME NEW p \in Procs, ArchiveFails(p) PROVE SessionsMove
    BY <2>11 DEF ArchiveFails
  <2>12. ASSUME NEW p \in Procs, NothingToDo(p) PROVE SessionsMove
    BY <2>12 DEF NothingToDo
  <2>13. ASSUME NEW p \in Procs, Parse(p) PROVE SessionsMove
    BY <2>13 DEF Parse
  <2>14. ASSUME NEW p \in Procs, Number(p) PROVE SessionsMove
    BY <2>14 DEF Number
  <2>15. ASSUME NEW p \in Procs, Write(p) PROVE SessionsMove
    BY <2>15 DEF Write
  <2>16. ASSUME NEW p \in Procs, Index(p) PROVE SessionsMove
    BY <2>16 DEF Index
  <2>17. ASSUME NEW p \in Procs, IndexFails(p) PROVE SessionsMove
    BY <2>17 DEF IndexFails
  <2>18. ASSUME NEW p \in Procs, Ingest(p) PROVE SessionsMove
    BY <2>18 DEF Ingest
  <2>19. ASSUME NEW p \in Procs, IngestFails(p) PROVE SessionsMove
    BY <2>19 DEF IngestFails
  <2>20. ASSUME NEW p \in Procs, Killed(p) PROVE SessionsMove
    BY <2>20 DEF Killed
  <2>21. CASE UNCHANGED vars
    BY <2>21 DEF vars
  <2>. QED
    BY <2>1, <2>2, <2>3, <2>4, <2>5, <2>6, <2>7, <2>8, <2>9, <2>10, <2>11, <2>12, <2>13,
       <2>14, <2>15, <2>16, <2>17, <2>18, <2>19, <2>20, <2>21 DEF Next, Step

\* No process takes a step ...
Quiet == UNCHANGED <<pc, list, ref, text, num, compacting, seen, reached, blocked, archives,
                     attempts, skipped, givenUp, watermark, ingested>>

\* ... or only p does.
Only(p) ==
  /\ \A q \in Procs \ {p} :
       /\ pc'[q] = pc[q] /\ list'[q] = list[q] /\ ref'[q] = ref[q]
       /\ text'[q] = text[q] /\ num'[q] = num[q]
       /\ q \in compacting' <=> q \in compacting
  /\ \A i \in Importers \ {p} :
       seen'[i] = seen[i] /\ reached'[i] = reached[i] /\ blocked'[i] = blocked[i]

Starts(h) ==
  \E s \in Sessions :
    Checkpoint(h, s) \/ (EndSession(s) /\ pc[h] = "off" /\ pc'[h] = "parse")

Acts(p) ==
  \/ p = Worker /\ (WorkerList \/ WorkerRests \/ WorkerStarts)
  \/ p \in Importers /\ (ImporterList(p) \/ ImporterEnds(p))
  \/ p \notin Hooks /\ Take(p)
  \/ p \in Hooks /\ Starts(p)
  \/ Step(p)
  \/ Killed(p)

LEMMA WhoActs ==
  ASSUME TInv, [Next]_vars
  PROVE  Quiet \/ \E p \in Procs : Acts(p) /\ Only(p)
<1> USE DEF TInv, TypeOK, Procs, GoTo, sessions, files, local, ladder, mark, bounds
<1>. QED
  <2>1. ASSUME NEW s \in Sessions, Turn(s) PROVE Quiet
    BY <2>1 DEF Turn, Quiet
  <2>2. ASSUME NEW s \in Sessions, EndSession(s)
        PROVE  Quiet \/ \E h \in Hooks : Acts(h) /\ Only(h)
    <3>1. CASE UNCHANGED <<pc, ref>>
      BY <2>2, <3>1 DEF EndSession, Quiet
    <3>2. ASSUME NEW h \in Hooks, pc[h] = "off", pc' = [pc EXCEPT ![h] = "parse"],
                 ref' = [ref EXCEPT ![h] = [session |-> s, written |-> written[s]]]
          PROVE  Acts(h) /\ Only(h)
      <4>1. pc'[h] = "parse"
        BY <3>2
      <4>2. Starts(h)
        BY <2>2, <3>2, <4>1 DEF Starts
      <4>. QED
        BY <2>2, <3>2, <4>2 DEF EndSession, Acts, Only
    <3>. QED
      BY <2>2, <3>1, <3>2 DEF EndSession
  <2>3. ASSUME NEW h \in Hooks, NEW s \in Sessions, Checkpoint(h, s) PROVE Acts(h) /\ Only(h)
    <3>1. \A q \in Procs \ {h} : pc'[q] = pc[q] /\ list'[q] = list[q] /\ ref'[q] = ref[q]
      BY <2>3 DEF Checkpoint
    <3>2. \A q \in Procs \ {h} :
            /\ text'[q] = text[q] /\ num'[q] = num[q]
            /\ q \in compacting' <=> q \in compacting
      BY <2>3 DEF Checkpoint
    <3>3. \A j \in Importers \ {h} :
            seen'[j] = seen[j] /\ reached'[j] = reached[j] /\ blocked'[j] = blocked[j]
      BY <2>3 DEF Checkpoint
    <3>4. Acts(h)
      BY <2>3 DEF Acts, Step, Starts
    <3>5. Only(h)
      BY <3>1, <3>2, <3>3 DEF Only
    <3>. QED
      BY <3>4, <3>5
  <2>4. ASSUME Tick PROVE Quiet
    BY <2>4 DEF Tick, Quiet
  <2>5. ASSUME WorkerList PROVE Acts(Worker) /\ Only(Worker)
    <3>1. \A q \in Procs \ {Worker} : pc'[q] = pc[q] /\ list'[q] = list[q] /\ ref'[q] = ref[q]
      BY <2>5 DEF WorkerList
    <3>2. \A q \in Procs \ {Worker} :
            /\ text'[q] = text[q] /\ num'[q] = num[q]
            /\ q \in compacting' <=> q \in compacting
      BY <2>5 DEF WorkerList
    <3>3. \A j \in Importers \ {Worker} :
            seen'[j] = seen[j] /\ reached'[j] = reached[j] /\ blocked'[j] = blocked[j]
      BY <2>5 DEF WorkerList
    <3>4. Acts(Worker)
      BY <2>5 DEF Acts, Step, Starts
    <3>5. Only(Worker)
      BY <3>1, <3>2, <3>3 DEF Only
    <3>. QED
      BY <3>4, <3>5
  <2>6. ASSUME WorkerRests PROVE Acts(Worker) /\ Only(Worker)
    <3>1. \A q \in Procs \ {Worker} : pc'[q] = pc[q] /\ list'[q] = list[q] /\ ref'[q] = ref[q]
      BY <2>6 DEF WorkerRests
    <3>2. \A q \in Procs \ {Worker} :
            /\ text'[q] = text[q] /\ num'[q] = num[q]
            /\ q \in compacting' <=> q \in compacting
      BY <2>6 DEF WorkerRests
    <3>3. \A j \in Importers \ {Worker} :
            seen'[j] = seen[j] /\ reached'[j] = reached[j] /\ blocked'[j] = blocked[j]
      BY <2>6 DEF WorkerRests
    <3>4. Acts(Worker)
      BY <2>6 DEF Acts, Step, Starts
    <3>5. Only(Worker)
      BY <3>1, <3>2, <3>3 DEF Only
    <3>. QED
      BY <3>4, <3>5
  <2>7. ASSUME WorkerStarts PROVE Acts(Worker) /\ Only(Worker)
    <3>1. \A q \in Procs \ {Worker} : pc'[q] = pc[q] /\ list'[q] = list[q] /\ ref'[q] = ref[q]
      BY <2>7 DEF WorkerStarts
    <3>2. \A q \in Procs \ {Worker} :
            /\ text'[q] = text[q] /\ num'[q] = num[q]
            /\ q \in compacting' <=> q \in compacting
      BY <2>7 DEF WorkerStarts
    <3>3. \A j \in Importers \ {Worker} :
            seen'[j] = seen[j] /\ reached'[j] = reached[j] /\ blocked'[j] = blocked[j]
      BY <2>7 DEF WorkerStarts
    <3>4. Acts(Worker)
      BY <2>7 DEF Acts, Step, Starts
    <3>5. Only(Worker)
      BY <3>1, <3>2, <3>3 DEF Only
    <3>. QED
      BY <3>4, <3>5
  <2>8. ASSUME NEW i \in Importers, ImporterList(i) PROVE Acts(i) /\ Only(i)
    <3>1. \A q \in Procs \ {i} : pc'[q] = pc[q] /\ list'[q] = list[q] /\ ref'[q] = ref[q]
      BY <2>8 DEF ImporterList
    <3>2. \A q \in Procs \ {i} :
            /\ text'[q] = text[q] /\ num'[q] = num[q]
            /\ q \in compacting' <=> q \in compacting
      BY <2>8 DEF ImporterList
    <3>3. \A j \in Importers \ {i} :
            seen'[j] = seen[j] /\ reached'[j] = reached[j] /\ blocked'[j] = blocked[j]
      BY <2>8 DEF ImporterList
    <3>4. Acts(i)
      BY <2>8 DEF Acts, Step, Starts
    <3>5. Only(i)
      BY <3>1, <3>2, <3>3 DEF Only
    <3>. QED
      BY <3>4, <3>5
  <2>9. ASSUME NEW i \in Importers, ImporterEnds(i) PROVE Acts(i) /\ Only(i)
    <3>1. \A q \in Procs \ {i} : pc'[q] = pc[q] /\ list'[q] = list[q] /\ ref'[q] = ref[q]
      BY <2>9 DEF ImporterEnds, ForgetSweep
    <3>2. \A q \in Procs \ {i} :
            /\ text'[q] = text[q] /\ num'[q] = num[q]
            /\ q \in compacting' <=> q \in compacting
      BY <2>9 DEF ImporterEnds, ForgetSweep
    <3>3. \A j \in Importers \ {i} :
            seen'[j] = seen[j] /\ reached'[j] = reached[j] /\ blocked'[j] = blocked[j]
      BY <2>9 DEF ImporterEnds, ForgetSweep
    <3>4. Acts(i)
      BY <2>9 DEF Acts, Step, Starts
    <3>5. Only(i)
      BY <3>1, <3>2, <3>3 DEF Only
    <3>. QED
      BY <3>4, <3>5
  <2>10. ASSUME NEW p \in Procs \ Hooks, Take(p) PROVE Acts(p) /\ Only(p)
    <3>1. \A q \in Procs \ {p} : pc'[q] = pc[q] /\ list'[q] = list[q] /\ ref'[q] = ref[q]
      BY <2>10 DEF Take
    <3>2. \A q \in Procs \ {p} :
            /\ text'[q] = text[q] /\ num'[q] = num[q]
            /\ q \in compacting' <=> q \in compacting
      BY <2>10 DEF Take
    <3>3. \A j \in Importers \ {p} :
            seen'[j] = seen[j] /\ reached'[j] = reached[j] /\ blocked'[j] = blocked[j]
      BY <2>10 DEF Take
    <3>4. Acts(p)
      BY <2>10 DEF Acts, Step, Starts
    <3>5. Only(p)
      BY <3>1, <3>2, <3>3 DEF Only
    <3>. QED
      BY <3>4, <3>5
  <2>11. ASSUME NEW p \in Procs, ArchiveFails(p) PROVE Acts(p) /\ Only(p)
    <3>1. \A q \in Procs \ {p} : pc'[q] = pc[q] /\ list'[q] = list[q] /\ ref'[q] = ref[q]
      BY <2>11 DEF ArchiveFails, Failed, PutDown
    <3>2. \A q \in Procs \ {p} :
            /\ text'[q] = text[q] /\ num'[q] = num[q]
            /\ q \in compacting' <=> q \in compacting
      BY <2>11 DEF ArchiveFails, Failed, PutDown
    <3>3. \A j \in Importers \ {p} :
            seen'[j] = seen[j] /\ reached'[j] = reached[j] /\ blocked'[j] = blocked[j]
      BY <2>11 DEF ArchiveFails, Failed, PutDown
    <3>4. Acts(p)
      BY <2>11 DEF Acts, Step, Starts
    <3>5. Only(p)
      BY <3>1, <3>2, <3>3 DEF Only
    <3>. QED
      BY <3>4, <3>5
  <2>12. ASSUME NEW p \in Procs, NothingToDo(p) PROVE Acts(p) /\ Only(p)
    <3>1. \A q \in Procs \ {p} : pc'[q] = pc[q] /\ list'[q] = list[q] /\ ref'[q] = ref[q]
      BY <2>12 DEF NothingToDo, Handled, PutDown, Reaches
    <3>2. \A q \in Procs \ {p} :
            /\ text'[q] = text[q] /\ num'[q] = num[q]
            /\ q \in compacting' <=> q \in compacting
      BY <2>12 DEF NothingToDo, Handled, PutDown, Reaches
    <3>3. \A j \in Importers \ {p} :
            seen'[j] = seen[j] /\ reached'[j] = reached[j] /\ blocked'[j] = blocked[j]
      BY <2>12 DEF NothingToDo, Handled, PutDown, Reaches
    <3>4. Acts(p)
      BY <2>12 DEF Acts, Step, Starts
    <3>5. Only(p)
      BY <3>1, <3>2, <3>3 DEF Only
    <3>. QED
      BY <3>4, <3>5
  <2>13. ASSUME NEW p \in Procs, Parse(p) PROVE Acts(p) /\ Only(p)
    <3>1. \A q \in Procs \ {p} : pc'[q] = pc[q] /\ list'[q] = list[q] /\ ref'[q] = ref[q]
      BY <2>13 DEF Parse
    <3>2. \A q \in Procs \ {p} :
            /\ text'[q] = text[q] /\ num'[q] = num[q]
            /\ q \in compacting' <=> q \in compacting
      BY <2>13 DEF Parse
    <3>3. \A j \in Importers \ {p} :
            seen'[j] = seen[j] /\ reached'[j] = reached[j] /\ blocked'[j] = blocked[j]
      BY <2>13 DEF Parse
    <3>4. Acts(p)
      BY <2>13 DEF Acts, Step, Starts
    <3>5. Only(p)
      BY <3>1, <3>2, <3>3 DEF Only
    <3>. QED
      BY <3>4, <3>5
  <2>14. ASSUME NEW p \in Procs, Number(p) PROVE Acts(p) /\ Only(p)
    <3>1. \A q \in Procs \ {p} : pc'[q] = pc[q] /\ list'[q] = list[q] /\ ref'[q] = ref[q]
      BY <2>14 DEF Number
    <3>2. \A q \in Procs \ {p} :
            /\ text'[q] = text[q] /\ num'[q] = num[q]
            /\ q \in compacting' <=> q \in compacting
      BY <2>14 DEF Number
    <3>3. \A j \in Importers \ {p} :
            seen'[j] = seen[j] /\ reached'[j] = reached[j] /\ blocked'[j] = blocked[j]
      BY <2>14 DEF Number
    <3>4. Acts(p)
      BY <2>14 DEF Acts, Step, Starts
    <3>5. Only(p)
      BY <3>1, <3>2, <3>3 DEF Only
    <3>. QED
      BY <3>4, <3>5
  <2>15. ASSUME NEW p \in Procs, Write(p) PROVE Acts(p) /\ Only(p)
    <3>1. \A q \in Procs \ {p} : pc'[q] = pc[q] /\ list'[q] = list[q] /\ ref'[q] = ref[q]
      BY <2>15 DEF Write
    <3>2. \A q \in Procs \ {p} :
            /\ text'[q] = text[q] /\ num'[q] = num[q]
            /\ q \in compacting' <=> q \in compacting
      BY <2>15 DEF Write
    <3>3. \A j \in Importers \ {p} :
            seen'[j] = seen[j] /\ reached'[j] = reached[j] /\ blocked'[j] = blocked[j]
      BY <2>15 DEF Write
    <3>4. Acts(p)
      BY <2>15 DEF Acts, Step, Starts
    <3>5. Only(p)
      BY <3>1, <3>2, <3>3 DEF Only
    <3>. QED
      BY <3>4, <3>5
  <2>16. ASSUME NEW p \in Procs, Index(p) PROVE Acts(p) /\ Only(p)
    <3>1. \A q \in Procs \ {p} : pc'[q] = pc[q] /\ list'[q] = list[q] /\ ref'[q] = ref[q]
      BY <2>16 DEF Index
    <3>2. \A q \in Procs \ {p} :
            /\ text'[q] = text[q] /\ num'[q] = num[q]
            /\ q \in compacting' <=> q \in compacting
      BY <2>16 DEF Index
    <3>3. \A j \in Importers \ {p} :
            seen'[j] = seen[j] /\ reached'[j] = reached[j] /\ blocked'[j] = blocked[j]
      BY <2>16 DEF Index
    <3>4. Acts(p)
      BY <2>16 DEF Acts, Step, Starts
    <3>5. Only(p)
      BY <3>1, <3>2, <3>3 DEF Only
    <3>. QED
      BY <3>4, <3>5
  <2>17. ASSUME NEW p \in Procs, IndexFails(p) PROVE Acts(p) /\ Only(p)
    <3>1. \A q \in Procs \ {p} : pc'[q] = pc[q] /\ list'[q] = list[q] /\ ref'[q] = ref[q]
      BY <2>17 DEF IndexFails, Failed, PutDown
    <3>2. \A q \in Procs \ {p} :
            /\ text'[q] = text[q] /\ num'[q] = num[q]
            /\ q \in compacting' <=> q \in compacting
      BY <2>17 DEF IndexFails, Failed, PutDown
    <3>3. \A j \in Importers \ {p} :
            seen'[j] = seen[j] /\ reached'[j] = reached[j] /\ blocked'[j] = blocked[j]
      BY <2>17 DEF IndexFails, Failed, PutDown
    <3>4. Acts(p)
      BY <2>17 DEF Acts, Step, Starts
    <3>5. Only(p)
      BY <3>1, <3>2, <3>3 DEF Only
    <3>. QED
      BY <3>4, <3>5
  <2>18. ASSUME NEW p \in Procs, Ingest(p) PROVE Acts(p) /\ Only(p)
    <3>1. \A q \in Procs \ {p} : pc'[q] = pc[q] /\ list'[q] = list[q] /\ ref'[q] = ref[q]
      BY <2>18 DEF Ingest, Handled, PutDown, Reaches
    <3>2. \A q \in Procs \ {p} :
            /\ text'[q] = text[q] /\ num'[q] = num[q]
            /\ q \in compacting' <=> q \in compacting
      BY <2>18 DEF Ingest, Handled, PutDown, Reaches
    <3>3. \A j \in Importers \ {p} :
            seen'[j] = seen[j] /\ reached'[j] = reached[j] /\ blocked'[j] = blocked[j]
      BY <2>18 DEF Ingest, Handled, PutDown, Reaches
    <3>4. Acts(p)
      BY <2>18 DEF Acts, Step, Starts
    <3>5. Only(p)
      BY <3>1, <3>2, <3>3 DEF Only
    <3>. QED
      BY <3>4, <3>5
  <2>19. ASSUME NEW p \in Procs, IngestFails(p) PROVE Acts(p) /\ Only(p)
    <3>1. \A q \in Procs \ {p} : pc'[q] = pc[q] /\ list'[q] = list[q] /\ ref'[q] = ref[q]
      BY <2>19 DEF IngestFails, Handled, Failed, PutDown, Reaches
    <3>2. \A q \in Procs \ {p} :
            /\ text'[q] = text[q] /\ num'[q] = num[q]
            /\ q \in compacting' <=> q \in compacting
      BY <2>19 DEF IngestFails, Handled, Failed, PutDown, Reaches
    <3>3. \A j \in Importers \ {p} :
            seen'[j] = seen[j] /\ reached'[j] = reached[j] /\ blocked'[j] = blocked[j]
      BY <2>19 DEF IngestFails, Handled, Failed, PutDown, Reaches
    <3>4. Acts(p)
      BY <2>19 DEF Acts, Step, Starts
    <3>5. Only(p)
      BY <3>1, <3>2, <3>3 DEF Only
    <3>. QED
      BY <3>4, <3>5
  <2>20. ASSUME NEW p \in Procs, Killed(p) PROVE Acts(p) /\ Only(p)
    <3>1. \A q \in Procs \ {p} : pc'[q] = pc[q] /\ list'[q] = list[q] /\ ref'[q] = ref[q]
      BY <2>20 DEF Killed, PutDown, ForgetSweep
    <3>2. \A q \in Procs \ {p} :
            /\ text'[q] = text[q] /\ num'[q] = num[q]
            /\ q \in compacting' <=> q \in compacting
      BY <2>20 DEF Killed, PutDown, ForgetSweep
    <3>3. \A j \in Importers \ {p} :
            seen'[j] = seen[j] /\ reached'[j] = reached[j] /\ blocked'[j] = blocked[j]
      BY <2>20 DEF Killed, PutDown, ForgetSweep
    <3>4. Acts(p)
      BY <2>20 DEF Acts, Step, Starts
    <3>5. Only(p)
      BY <3>1, <3>2, <3>3 DEF Only
    <3>. QED
      BY <3>4, <3>5
  <2>21. CASE UNCHANGED vars
    BY <2>21 DEF vars, Quiet
  <2>. QED
    BY <2>1, <2>2, <2>3, <2>4, <2>5, <2>6, <2>7, <2>8, <2>9, <2>10, <2>11, <2>12, <2>13,
       <2>14, <2>15, <2>16, <2>17, <2>18, <2>19, <2>20, <2>21 DEF Next, Step

LEMMA SeenStep ==
  ASSUME TInv, ArchivesOK, [Next]_vars
  PROVE  SeenOK'
<1>1. Recorded \subseteq Recorded'
  BY RecordedGrows
<1> USE <1>1 DEF TInv, TypeOK, Procs, Holding, ArchivesOK, Wrote, SeenOK, Sweepers, GoTo,
        sessions, files, local, ladder, mark, bounds
<1>. QED
  <2>1. ASSUME NEW s \in Sessions, Turn(s) PROVE SeenOK'
    BY <2>1 DEF Turn
  <2>2. ASSUME NEW s \in Sessions, EndSession(s) PROVE SeenOK'
    BY <2>2 DEF EndSession
  <2>3. ASSUME NEW h \in Hooks, NEW s \in Sessions, Checkpoint(h, s) PROVE SeenOK'
    BY <2>3 DEF Checkpoint
  <2>4. ASSUME Tick PROVE SeenOK'
    BY <2>4 DEF Tick
  <2>5. ASSUME WorkerList PROVE SeenOK'
    BY <2>5 DEF WorkerList
  <2>6. ASSUME WorkerRests PROVE SeenOK'
    BY <2>6 DEF WorkerRests
  <2>7. ASSUME WorkerStarts PROVE SeenOK'
    BY <2>7 DEF WorkerStarts
  <2>8. ASSUME NEW i \in Importers, ImporterList(i) PROVE SeenOK'
    BY <2>8 DEF ImporterList, Recorded
  <2>9. ASSUME NEW i \in Importers, ImporterEnds(i) PROVE SeenOK'
    BY <2>9 DEF ImporterEnds, ForgetSweep
  <2>10. ASSUME NEW p \in Procs \ Hooks, Take(p) PROVE SeenOK'
    BY <2>10 DEF Take
  <2>11. ASSUME NEW p \in Procs, ArchiveFails(p) PROVE SeenOK'
    BY <2>11 DEF ArchiveFails, Failed, PutDown, RecordFailure
  <2>12. ASSUME NEW p \in Procs, NothingToDo(p) PROVE SeenOK'
    <3>1. /\ ref[p].session \in ArchivedNow(p) \cup Empty
          /\ seen' = [i \in Importers |->
                        IF i = p THEN seen[i] \cup {ref[p].session} ELSE seen[i]]
          /\ UNCHANGED <<skipped, givenUp>>
      BY <2>12 DEF NothingToDo, Handled
    <3>2. ASSUME NEW i \in Importers PROVE seen'[i] \cap Sessions \subseteq Recorded' \cup Empty
      <4>1. seen[i] \cap Sessions \subseteq Recorded \cup Empty
        OBVIOUS
      <4>2. CASE i = p
        <5>1. ArchivedNow(p) = seen[i]
          BY <4>2, Constants DEF ArchivedNow
        <5>. QED
          BY <1>1, <3>1, <4>1, <4>2, <5>1
      <4>3. CASE i # p
        BY <1>1, <3>1, <4>1, <4>3
      <4>. QED
        BY <4>2, <4>3
    <3>. QED
      BY <3>1, <3>2
  <2>13. ASSUME NEW p \in Procs, Parse(p) PROVE SeenOK'
    BY <2>13 DEF Parse
  <2>14. ASSUME NEW p \in Procs, Number(p) PROVE SeenOK'
    BY <2>14 DEF Number
  <2>15. ASSUME NEW p \in Procs, Write(p) PROVE SeenOK'
    BY <2>15 DEF Write
  <2>16. ASSUME NEW p \in Procs, Index(p) PROVE SeenOK'
    BY <2>16 DEF Index
  <2>17. ASSUME NEW p \in Procs, IndexFails(p) PROVE SeenOK'
    BY <2>17 DEF IndexFails, Failed, PutDown, RecordFailure
  <2>18. ASSUME NEW p \in Procs, Ingest(p) PROVE SeenOK'
    BY <2>18 DEF Ingest, Handled, PutDown
  <2>19. ASSUME NEW p \in Procs, IngestFails(p) PROVE SeenOK'
    BY <2>19 DEF IngestFails, Handled, Failed, PutDown, RecordFailure
  <2>20. ASSUME NEW p \in Procs, Killed(p) PROVE SeenOK'
    BY <2>20 DEF Killed, ForgetSweep
  <2>21. CASE UNCHANGED vars
    BY <2>21 DEF vars
  <2>. QED
    BY <2>1, <2>2, <2>3, <2>4, <2>5, <2>6, <2>7, <2>8, <2>9, <2>10, <2>11, <2>12, <2>13,
       <2>14, <2>15, <2>16, <2>17, <2>18, <2>19, <2>20, <2>21 DEF Next, Step

LEMMA WroteStep ==
  ASSUME TInv, ArchivesOK, Timed, [Next]_vars
  PROVE  Wrote'
<1>1. Recorded \subseteq Recorded'
  BY RecordedGrows
<1> USE Constants, <1>1 DEF TInv, TypeOK, Procs, Holding, ArchivesOK, Wrote, Sweepers, GoTo,
        sessions, files, local, ladder, mark, bounds
<1>. QED
  <2>1. ASSUME NEW s \in Sessions, Turn(s) PROVE Wrote'
    BY <2>1 DEF Turn
  <2>2. ASSUME NEW s \in Sessions, EndSession(s) PROVE Wrote'
    BY <2>2 DEF EndSession
  <2>3. ASSUME NEW h \in Hooks, NEW s \in Sessions, Checkpoint(h, s) PROVE Wrote'
    <3>1. \A q \in Sweepers : pc'[q] = pc[q] /\ text'[q] = text[q] /\ ref'[q] = ref[q]
      BY <2>3 DEF Checkpoint
    <3>2. UNCHANGED archives
      BY <2>3 DEF Checkpoint
    <3>. QED
      BY <3>1, <3>2
  <2>4. ASSUME Tick PROVE Wrote'
    BY <2>4 DEF Tick
  <2>5. ASSUME WorkerList PROVE Wrote'
    BY <2>5 DEF WorkerList
  <2>6. ASSUME WorkerRests PROVE Wrote'
    BY <2>6 DEF WorkerRests
  <2>7. ASSUME WorkerStarts PROVE Wrote'
    BY <2>7 DEF WorkerStarts
  <2>8. ASSUME NEW i \in Importers, ImporterList(i) PROVE Wrote'
    BY <2>8 DEF ImporterList
  <2>9. ASSUME NEW i \in Importers, ImporterEnds(i) PROVE Wrote'
    BY <2>9 DEF ImporterEnds
  <2>10. ASSUME NEW p \in Procs \ Hooks, Take(p) PROVE Wrote'
    BY <2>10 DEF Take
  <2>11. ASSUME NEW p \in Procs, ArchiveFails(p) PROVE Wrote'
    BY <2>11 DEF ArchiveFails, Failed, PutDown
  <2>12. ASSUME NEW p \in Procs, NothingToDo(p) PROVE Wrote'
    BY <2>12 DEF NothingToDo, Handled, PutDown
  <2>13. ASSUME NEW p \in Procs, Parse(p) PROVE Wrote'
    <3>1. p \in Sweepers => turns[ref[p].session] > 0
      BY <2>13 DEF Parse, Timed, InHand
    <3>. QED
      BY <2>13, <3>1 DEF Parse
  <2>14. ASSUME NEW p \in Procs, Number(p) PROVE Wrote'
    <3>1. p \in Sweepers => p \notin compacting
      OBVIOUS
    <3>. QED
      BY <2>14, <3>1 DEF Number
  <2>15. ASSUME NEW p \in Procs, Write(p) PROVE Wrote'
    <3>1. ASSUME p \in Sweepers PROVE ref[p].session \in Recorded'
      <4>1. ArchiveOf(p).session = ref[p].session
        BY <2>15, <3>1 DEF Write, ArchiveOf
      <4>2. num[p] \in DOMAIN archives' /\ archives'[num[p]] = ArchiveOf(p)
        BY <2>15, WriteResult
      <4>. QED
        BY <4>1, <4>2 DEF Recorded, Archived
    <3>. QED
      BY <2>15, <3>1 DEF Write
  <2>16. ASSUME NEW p \in Procs, Index(p) PROVE Wrote'
    BY <2>16 DEF Index
  <2>17. ASSUME NEW p \in Procs, IndexFails(p) PROVE Wrote'
    BY <2>17 DEF IndexFails, Failed, PutDown
  <2>18. ASSUME NEW p \in Procs, Ingest(p) PROVE Wrote'
    BY <2>18 DEF Ingest, Handled, PutDown
  <2>19. ASSUME NEW p \in Procs, IngestFails(p) PROVE Wrote'
    <3>1. CASE p = Worker
      BY <2>19, <3>1 DEF IngestFails, Failed, PutDown
    <3>2. CASE p # Worker
      BY <2>19, <3>2 DEF IngestFails, Handled, PutDown
    <3>. QED
      BY <3>1, <3>2
  <2>20. ASSUME NEW p \in Procs, Killed(p) PROVE Wrote'
    BY <2>20 DEF Killed, PutDown
  <2>21. CASE UNCHANGED vars
    BY <2>21 DEF vars
  <2>. QED
    BY <2>1, <2>2, <2>3, <2>4, <2>5, <2>6, <2>7, <2>8, <2>9, <2>10, <2>11, <2>12, <2>13,
       <2>14, <2>15, <2>16, <2>17, <2>18, <2>19, <2>20, <2>21 DEF Next, Step

-----------------------------------------------------------------------------
(* What a step does to a sweep                                             *)

\* The list of a sweep is read: what is ready, from the oldest.
Lists(p) ==
  /\ ~Holding(p) /\ ~Holding(p)'
  /\ list'[p] \subseteq Ready
  /\ \A r \in list'[p] : \A q \in Ready :
       Earlier(q, r) => q \in list'[p] \/ q.session \in skipped
  /\ UNCHANGED <<clock, turns, written, archives, givenUp, watermark, reached>>

\* The transcript in hand is dealt with: what is left is the list.
Finishes(p) ==
  /\ Holding(p) /\ ~Holding(p)' /\ list'[p] = list[p]
  /\ ref[p].session \in Accounted'

\* An importer fails, and its watermark stays.
Blocks(p) ==
  p \in Importers /\ blocked'[p] /\ Holding(p) /\ ~Holding(p)' /\ list'[p] = list[p]

\* The oldest of the list is taken in hand.
Takes(p) ==
  /\ ~Holding(p) /\ Holding(p)'
  /\ ref'[p] \in list[p] /\ list'[p] = list[p] \ {ref'[p]}
  /\ \A q \in list'[p] : Earlier(ref'[p], q)

\* The sweep ends, or its process is killed.
Drops(p) == list'[p] = {} /\ ~Holding(p)'

Keeps(p) == (Holding(p)' <=> Holding(p)) /\ list'[p] = list[p] /\ (Holding(p) => ref'[p] = ref[p])

LEMMA KeepsUnchanged ==
  ASSUME NEW p, pc'[p] = pc[p], list'[p] = list[p], ref'[p] = ref[p]
  PROVE  Keeps(p)
  BY DEF Keeps, Holding

LEMMA FoundClosed ==
  ASSUME TInv, WorkerList
  PROVE  Lists(Worker)
<1> DEFINE k == BATCH_SIZE + Cardinality(skipped)
           found == FirstOf(k, Ready)
           left == NotSkipped(found)
<1>1. IsFiniteSet(Ready) /\ Ready \in SUBSET Refs
  BY ReadyFinite DEF TInv
<1>2. found \in SUBSET Ready /\ left \in SUBSET Ready
  BY DEF FirstOf, NotSkipped
<1>3. IsFiniteSet(left)
  BY <1>1, <1>2, FS_Subset
<1>4. k \in Nat
  <2>1. IsFiniteSet(skipped)
    BY Constants, FS_Subset DEF TInv, TypeOK
  <2>2. Cardinality(skipped) \in Nat
    BY <2>1, FS_CardinalityType
  <2>. QED
    BY <2>2, Constants
<1>5. list'[Worker] = FirstOf(BATCH_SIZE, left)
  BY DEF WorkerList, Found, TInv, TypeOK, Procs
<1>6. ASSUME NEW r \in list'[Worker], NEW q \in Ready, Earlier(q, r), q.session \notin skipped
      PROVE  q \in list'[Worker]
  <2>1. r \in FirstOf(BATCH_SIZE, left) /\ r \in left /\ r \in found
    BY <1>5 DEF FirstOf, NotSkipped
  <2>2. q \in found
    BY <1>1, <1>4, <1>6, <2>1, FirstOfClosed
  <2>3. q \in left
    BY <1>6, <2>2 DEF NotSkipped
  <2>4. left \in SUBSET Refs /\ BATCH_SIZE \in Nat
    BY <1>1, <1>2, Constants
  <2>5. q \in FirstOf(BATCH_SIZE, left)
    <3> HIDE DEF left
    <3>. QED
      BY <1>3, <1>6, <2>1, <2>3, <2>4, FirstOfClosed
  <2>. QED
    BY <1>5, <2>5
<1>7. list'[Worker] \subseteq Ready
  BY <1>2, <1>5 DEF FirstOf
<1>8. ~Holding(Worker) /\ ~Holding(Worker)'
  BY DEF WorkerList, GoTo, Holding, TInv, TypeOK, Procs
<1>9. UNCHANGED <<clock, turns, written, archives, givenUp, watermark, reached>>
  BY DEF WorkerList, sessions, files, ladder, mark
<1>. QED
  BY <1>6, <1>7, <1>8, <1>9 DEF Lists

LEMMA SweepStep ==
  ASSUME TInv, ArchivesOK, [Next]_vars, NEW o \in Sweepers
  PROVE  Lists(o) \/ Finishes(o) \/ Blocks(o) \/ Takes(o) \/ Drops(o) \/ Keeps(o)
<1>1. CASE Quiet
  BY <1>1, KeepsUnchanged DEF Quiet
<1>2. ASSUME NEW p \in Procs, Only(p), p # o PROVE Keeps(o)
  <2>1. o \in Procs \ {p}
    BY <1>2 DEF Sweepers, Procs
  <2>. QED
    BY <1>2, <2>1, KeepsUnchanged DEF Only
<1>3. ASSUME Acts(o)
      PROVE  Lists(o) \/ Finishes(o) \/ Blocks(o) \/ Takes(o) \/ Drops(o) \/ Keeps(o)
  <2> USE DEF TInv, TypeOK, Procs, GoTo, Holding
  <2>1. o \in Procs /\ o \notin Hooks /\ (o = Worker \/ o \in Importers)
    BY Constants DEF Sweepers
  <2>2. CASE o = Worker /\ WorkerList
    BY <2>2, FoundClosed
  <2>3. CASE o = Worker /\ (WorkerRests \/ WorkerStarts)
    BY <2>1, <2>3 DEF WorkerRests, WorkerStarts, Drops, Keeps, local
  <2>4. CASE o \in Importers /\ ImporterList(o)
    <3>1. ~Holding(o) /\ ~Holding(o)' /\ list'[o] = Ready
      BY <2>1, <2>4 DEF ImporterList
    <3>2. UNCHANGED <<clock, turns, written, archives, givenUp, watermark, reached>>
      BY <2>4 DEF ImporterList, sessions, files, ladder, mark
    <3>. QED
      BY <3>1, <3>2 DEF Lists
  <2>5. CASE o \in Importers /\ ImporterEnds(o)
    BY <2>1, <2>5 DEF ImporterEnds, Keeps
  <2>6. CASE Take(o)
    <3>1. ~Holding(o) /\ Holding(o)'
      BY <2>1, <2>6 DEF Take
    <3>2. PICK r \in list[o] : /\ \A q \in list[o] \ {r} : Earlier(r, q)
                               /\ ref' = [ref EXCEPT ![o] = r]
                               /\ list' = [list EXCEPT ![o] = @ \ {r}]
      BY <2>6 DEF Take
    <3>3. ref'[o] = r /\ list'[o] = list[o] \ {r}
      BY <2>1, <3>2
    <3>. QED
      BY <3>1, <3>2, <3>3 DEF Takes
  <2>7. ASSUME ArchiveFails(o) \/ IndexFails(o) \/ (o = Worker /\ IngestFails(o))
        PROVE  Blocks(o) \/ Drops(o)
    <3>1. Failed(o) /\ Holding(o)
      BY <2>7 DEF ArchiveFails, IndexFails, IngestFails
    <3>2. CASE o = Worker
      BY <2>1, <3>1, <3>2, Constants DEF Failed, Drops
    <3>3. CASE o \in Importers
      <4>1. o # Worker
        BY <3>3, Constants
      <4>. QED
        BY <2>1, <3>1, <3>3, <4>1 DEF Failed, Blocks
    <3>. QED
      BY <2>1, <3>2, <3>3
  <2>8. ASSUME NothingToDo(o) \/ Ingest(o) \/ (o # Worker /\ IngestFails(o))
        PROVE  Finishes(o)
    <3>1. Handled(o) /\ Holding(o)
      BY <2>8 DEF NothingToDo, Ingest, IngestFails
    <3>2. list'[o] = list[o] /\ ~Holding(o)'
      BY <2>1, <3>1 DEF Handled
    <3>3. ref[o].session \in Sessions
      <4>1. ref[o] \in Refs
        BY <2>1, <3>1 DEF RefsOK
      <4>. QED
        BY <4>1 DEF Refs
    <3>4. ref[o].session \in Accounted
      <4>1. CASE NothingToDo(o)
        <5>1. ref[o].session \in ArchivedNow(o) \cup Empty
          BY <4>1 DEF NothingToDo
        <5>2. ArchivedNow(o) \cap Sessions \subseteq Recorded \cup Empty
          BY <2>1 DEF ArchivedNow, ArchivesOK, SeenOK, Recorded
        <5>. QED
          BY <3>3, <5>1, <5>2 DEF Accounted
      <4>2. CASE Ingest(o) \/ IngestFails(o)
        BY <4>2 DEF Ingest, IngestFails, ArchivesOK, Wrote, Accounted
      <4>. QED
        BY <2>8, <4>1, <4>2
    <3>5. ref[o].session \in Accounted'
      BY <3>4, AccountedGrows
    <3>. QED
      BY <3>1, <3>2, <3>5 DEF Finishes
  <2>9. ASSUME Parse(o) \/ Number(o) \/ Write(o) \/ Index(o) PROVE Keeps(o)
    <3>1. Holding(o) /\ Holding(o)'
      BY <2>1, <2>9 DEF Parse, Number, Write, Index
    <3>2. UNCHANGED <<list, ref>>
      BY <2>9 DEF Parse, Number, Write, Index, local
    <3>. QED
      BY <3>1, <3>2 DEF Keeps
  <2>10. CASE Killed(o)
    BY <2>1, <2>10 DEF Killed, Drops
  <2>. QED
    BY <1>3, <2>1, <2>2, <2>3, <2>4, <2>5, <2>6, <2>7, <2>8, <2>9, <2>10 DEF Acts, Step
<1>. QED
  BY <1>1, <1>2, <1>3, WhoActs

\* The worker's watermark moves to the transcript in hand, ...
MarkedByWorker ==
  /\ Holding(Worker) /\ watermark' = WholeSeconds(ref[Worker].written)
  /\ ref[Worker].session \in Accounted' /\ UNCHANGED <<clock, turns, written>>

\* ... an importer's to the last one before a failure.
MarkedByImporter ==
  \E i \in Importers :
    reached[i] > 0 /\ watermark' = WholeSeconds(reached[i]) /\ UNCHANGED <<clock, turns, written>>

Reaching(i) ==
  /\ Holding(i) /\ ~blocked[i] /\ reached'[i] = ref[i].written
  /\ ref[i].session \in Accounted' /\ UNCHANGED <<clock, turns, written>>

Marked == UNCHANGED watermark \/ MarkedByWorker \/ MarkedByImporter

LEMMA FinishesUnlessFailed ==
  ASSUME TInv, ArchivesOK, [Next]_vars, NEW o \in Sweepers,
         NothingToDo(o) \/ Ingest(o) \/ (o # Worker /\ IngestFails(o))
  PROVE  Holding(o) /\ ref[o].session \in Accounted'
<1>1. Holding(o) /\ ~Holding(o)'
  <2>1. Holding(o) /\ Handled(o) /\ o \in Procs
    BY DEF NothingToDo, Ingest, IngestFails, Holding, Sweepers, Procs
  <2>. QED
    BY <2>1 DEF Handled, GoTo, Holding, TInv, TypeOK
<1>2. ref[o].session \in Sessions
  <2>1. ref[o] \in Refs
    BY <1>1 DEF TInv, RefsOK, Sweepers, Procs
  <2>. QED
    BY <2>1 DEF Refs
<1>3. ref[o].session \in Accounted
  <2>1. CASE NothingToDo(o)
    <3>1. ref[o].session \in ArchivedNow(o) \cup Empty
      BY <2>1 DEF NothingToDo
    <3>2. ArchivedNow(o) \cap Sessions \subseteq Recorded \cup Empty
      BY Constants DEF ArchivedNow, ArchivesOK, SeenOK, Sweepers, Recorded
    <3>. QED
      BY <1>2, <3>1, <3>2 DEF Accounted
  <2>2. CASE Ingest(o) \/ IngestFails(o)
    BY <2>2 DEF Ingest, IngestFails, ArchivesOK, Wrote, Accounted
  <2>. QED
    BY <2>1, <2>2
<1>. QED
  BY <1>1, <1>3, AccountedGrows

LEMMA FailuresStep ==
  ASSUME TInv, NEW p \in Procs, Holding(p), Failed(p),
         UNCHANGED <<clock, turns, written, archives>>
  PROVE  UNCHANGED watermark \/ (p = Worker /\ MarkedByWorker)
<1>1. CASE p # Worker
  BY <1>1 DEF Failed
<1>2. CASE p = Worker /\ attempts[ref[Worker].session] + 1 >= MAX_ATTEMPTS
  BY <1>2 DEF Failed, RecordFailure, MarkedByWorker, Accounted
<1>3. CASE p = Worker /\ ~(attempts[ref[Worker].session] + 1 >= MAX_ATTEMPTS)
  BY <1>3 DEF Failed, RecordFailure
<1>. QED
  BY <1>1, <1>2, <1>3

LEMMA WatermarkStep ==
  ASSUME TInv, ArchivesOK, [Next]_vars
  PROVE  Marked
<1> USE DEF Marked, sessions, files, local, ladder, mark, bounds
<1>1. Worker \in Sweepers
  BY DEF Sweepers
<1>. QED
  <2>1. ASSUME NEW s \in Sessions, Turn(s) PROVE Marked
    BY <2>1 DEF Turn
  <2>2. ASSUME NEW s \in Sessions, EndSession(s) PROVE Marked
    BY <2>2 DEF EndSession
  <2>3. ASSUME NEW h \in Hooks, NEW s \in Sessions, Checkpoint(h, s) PROVE Marked
    BY <2>3 DEF Checkpoint
  <2>4. ASSUME Tick PROVE Marked
    BY <2>4 DEF Tick
  <2>5. ASSUME WorkerList PROVE Marked
    BY <2>5 DEF WorkerList
  <2>6. ASSUME WorkerRests PROVE Marked
    BY <2>6 DEF WorkerRests
  <2>7. ASSUME WorkerStarts PROVE Marked
    BY <2>7 DEF WorkerStarts
  <2>8. ASSUME NEW i \in Importers, ImporterList(i) PROVE Marked
    BY <2>8 DEF ImporterList
  <2>9. ASSUME NEW i \in Importers, ImporterEnds(i) PROVE Marked
    BY <2>9 DEF ImporterEnds, MarkedByImporter
  <2>10. ASSUME NEW p \in Procs \ Hooks, Take(p) PROVE Marked
    BY <2>10 DEF Take
  <2>11. ASSUME NEW p \in Procs, ArchiveFails(p) PROVE Marked
    <3>1. Holding(p) /\ Failed(p) /\ UNCHANGED <<clock, turns, written, archives>>
      BY <2>11 DEF ArchiveFails, Holding
    <3>. QED
      BY <3>1, FailuresStep
  <2>12. ASSUME NEW p \in Procs, NothingToDo(p) PROVE Marked
    BY <2>12, <1>1, FinishesUnlessFailed DEF NothingToDo, Handled, MarkedByWorker
  <2>13. ASSUME NEW p \in Procs, Parse(p) PROVE Marked
    BY <2>13 DEF Parse
  <2>14. ASSUME NEW p \in Procs, Number(p) PROVE Marked
    BY <2>14 DEF Number
  <2>15. ASSUME NEW p \in Procs, Write(p) PROVE Marked
    BY <2>15 DEF Write
  <2>16. ASSUME NEW p \in Procs, Index(p) PROVE Marked
    BY <2>16 DEF Index
  <2>17. ASSUME NEW p \in Procs, IndexFails(p) PROVE Marked
    <3>1. Holding(p) /\ Failed(p) /\ UNCHANGED <<clock, turns, written, archives>>
      BY <2>17 DEF IndexFails, Holding
    <3>. QED
      BY <3>1, FailuresStep
  <2>18. ASSUME NEW p \in Procs, Ingest(p) PROVE Marked
    BY <2>18, <1>1, FinishesUnlessFailed DEF Ingest, Handled, MarkedByWorker
  <2>19. ASSUME NEW p \in Procs, IngestFails(p) PROVE Marked
    <3>1. CASE p = Worker
      <4>1. Holding(p) /\ Failed(p) /\ UNCHANGED <<clock, turns, written, archives>>
        BY <2>19, <3>1 DEF IngestFails, Holding
      <4>. QED
        BY <4>1, FailuresStep
    <3>2. CASE p # Worker
      BY <2>19, <3>2 DEF IngestFails, Handled
    <3>. QED
      BY <3>1, <3>2
  <2>20. ASSUME NEW p \in Procs, Killed(p) PROVE Marked
    BY <2>20 DEF Killed
  <2>21. CASE UNCHANGED vars
    BY <2>21 DEF vars
  <2>. QED
    BY <2>1, <2>2, <2>3, <2>4, <2>5, <2>6, <2>7, <2>8, <2>9, <2>10, <2>11, <2>12, <2>13,
       <2>14, <2>15, <2>16, <2>17, <2>18, <2>19, <2>20, <2>21 DEF Next, Step

LEMMA HandledReaches ==
  ASSUME TInv, ArchivesOK, [Next]_vars, NEW i \in Importers,
         NothingToDo(i) \/ Ingest(i) \/ IngestFails(i)
  PROVE  (reached'[i] = reached[i] \/ Reaching(i)) /\ blocked' = blocked
<1>1. i \in Sweepers /\ i # Worker /\ i \notin Hooks
  BY Constants DEF Sweepers
<1>2. Handled(i) /\ UNCHANGED <<clock, turns, written>>
  BY <1>1 DEF NothingToDo, Ingest, IngestFails, sessions
<1>3. Holding(i) /\ ref[i].session \in Accounted'
  BY <1>1, FinishesUnlessFailed
<1>4. reached' = Reaches(i) /\ blocked' = blocked
  BY <1>2 DEF Handled
<1>5. reached \in [Importers -> Time]
  BY DEF TInv, TypeOK
<1>. QED
  BY <1>2, <1>3, <1>4, <1>5 DEF Reaches, Reaching

LEMMA ReachedStep ==
  ASSUME TInv, ArchivesOK, [Next]_vars, NEW i \in Importers
  PROVE  /\ reached'[i] = reached[i] \/ reached'[i] = 0 \/ Reaching(i)
         /\ blocked[i] => blocked'[i] \/ (list'[i] = {} /\ ~Holding(i)')
<1>1. i # Worker /\ i \notin Hooks /\ i \in Procs
  BY Constants DEF Procs
<1>2. CASE Quiet
  BY <1>2 DEF Quiet
<1>3. ASSUME NEW p \in Procs, Only(p), p # i
      PROVE  reached'[i] = reached[i] /\ blocked'[i] = blocked[i]
  BY <1>3 DEF Only
<1>4. ASSUME Acts(i)
      PROVE  /\ reached'[i] = reached[i] \/ reached'[i] = 0 \/ Reaching(i)
             /\ blocked[i] => blocked'[i] \/ (list'[i] = {} /\ ~Holding(i)')
  <2>1. CASE ImporterList(i)
    BY <2>1 DEF ImporterList, mark
  <2>2. CASE ImporterEnds(i)
    BY <1>1, <2>2 DEF ImporterEnds, ForgetSweep, TInv, TypeOK, GoTo, Holding
  <2>3. CASE Take(i)
    BY <2>3 DEF Take, mark
  <2>4. CASE NothingToDo(i) \/ Ingest(i) \/ IngestFails(i)
    BY <2>4, HandledReaches
  <2>5. CASE ArchiveFails(i) \/ IndexFails(i)
    BY <2>5 DEF ArchiveFails, IndexFails, Failed, TInv, TypeOK
  <2>6. CASE Parse(i) \/ Number(i) \/ Write(i) \/ Index(i)
    BY <2>6 DEF Parse, Number, Write, Index, mark
  <2>7. CASE Killed(i)
    BY <1>1, <2>7 DEF Killed, ForgetSweep, TInv, TypeOK, GoTo, Holding
  <2>. QED
    BY <1>1, <1>4, <2>1, <2>2, <2>3, <2>4, <2>5, <2>6, <2>7 DEF Acts, Step
<1>. QED
  BY <1>2, <1>3, <1>4, WhoActs

-----------------------------------------------------------------------------
(* Nothing is skipped                                                      *)

LEMMA InitNInv == Init => NInv
<1> SUFFICES ASSUME Init PROVE NInv
  OBVIOUS
<1> USE Constants DEF Init, Sweepers, Procs, InHand, Holding
<1>1. Timed /\ Ordered
  BY Times DEF Timed, Ordered, WholeSeconds
<1>2. NothingOlder
  BY DEF NothingOlder
<1>3. ReachedOK /\ NothingSkipped
  BY DEF ReachedOK, NothingSkipped
<1>4. ArchivesOK
  BY DEF ArchivesOK, Wrote, SeenOK
<1>. QED
  BY <1>1, <1>2, <1>3, <1>4 DEF NInv

LEMMA Hands ==
  ASSUME TInv
  PROVE  /\ \A p \in Sweepers : \A r \in InHand(p) :
              /\ r \in Refs /\ r.session \in Sessions /\ r.written \in Nat
              /\ WholeSeconds(r.written) \in Nat /\ written[r.session] \in Nat
              /\ turns[r.session] \in Nat
         /\ \A i \in Importers : reached[i] \in Nat /\ WholeSeconds(reached[i]) \in Nat
<1>1. ASSUME NEW p \in Sweepers, NEW r \in InHand(p) PROVE r \in Refs
  <2>1. p \in Procs
    BY DEF Sweepers, Procs
  <2>. QED
    BY <1>1, <2>1 DEF InHand, TInv, TypeOK, RefsOK
<1>2. ASSUME NEW r \in Refs
      PROVE  /\ r.session \in Sessions /\ r.written \in Nat /\ WholeSeconds(r.written) \in Nat
             /\ written[r.session] \in Nat /\ turns[r.session] \in Nat
  <2>1. r.session \in Sessions /\ r.written \in Time
    BY <1>2 DEF Refs
  <2>2. WholeSeconds(r.written) \in Time
    BY <2>1, Times
  <2>3. written[r.session] \in Nat /\ turns[r.session] \in Nat
    BY <2>1, NatTimes DEF TInv, TypeOK
  <2>. QED
    BY <2>1, <2>2, <2>3, Times
<1>3. ASSUME NEW i \in Importers PROVE reached[i] \in Nat /\ WholeSeconds(reached[i]) \in Nat
  BY <1>3, Times DEF TInv, TypeOK
<1>. QED
  BY <1>1, <1>2, <1>3

\* Whatever is older than the transcript in hand is accounted for.
LEMMA HandPassed ==
  ASSUME TInv, NInv, NEW p \in Sweepers, Holding(p), ~(p \in Importers /\ blocked[p]),
         NEW s \in Sessions, turns[s] > 0, Fraction(s),
         written[s] <= WholeSeconds(ref[p].written)
  PROVE  s \in Accounted \/ s = ref[p].session
<1>1. ref[p] \in InHand(p) /\ \A q \in InHand(p) : q = ref[p] \/ q \in list[p]
  BY DEF InHand
<1>2. written[s] \in Nat
  BY NatTimes DEF TInv
<1>3. written[s] < ref[p].written
  <2>1. /\ ref[p].written \in Nat /\ WholeSeconds(ref[p].written) \in Nat
        /\ WholeSeconds(ref[p].written) <= ref[p].written
    BY <1>1, Hands, Times DEF Refs
  <2>2. written[s] # ref[p].written
    BY <2>1 DEF Fraction
  <2>. QED
    BY <1>2, <2>1, <2>2
<1>4. s \in Accounted \/ \E q \in InHand(p) : q.session = s
  BY <1>1, <1>3 DEF NInv, NothingOlder
<1>5. ASSUME NEW q \in list[p] PROVE q.session # s
  <2>1. q \in InHand(p)
    BY <1>5 DEF InHand
  <2>2. q.written <= written[q.session]
    BY <2>1 DEF NInv, Timed
  <2>3. ref[p].written <= q.written
    <3>1. Earlier(ref[p], q)
      BY <1>5 DEF NInv, Ordered
    <3>2. ref[p] \in Refs /\ q \in Refs
      BY <1>1, <2>1, Hands
    <3>. QED
      BY <3>1, <3>2, EarlierOrder
  <2>4. q.written \in Nat /\ written[q.session] \in Nat /\ ref[p].written \in Nat
    BY <1>1, <2>1, Hands
  <2>. QED
    BY <1>2, <1>3, <2>2, <2>3, <2>4
<1>. QED
  BY <1>1, <1>4, <1>5

\* A step leaves a session alone, or the session is written now.
LEMMA SessionStep ==
  ASSUME TInv, [Next]_vars, NEW s \in Sessions
  PROVE  /\ clock' \in Nat /\ clock <= clock'
         /\ \/ turns'[s] = turns[s] /\ written'[s] = written[s]
            \/ turns'[s] > 0 /\ written'[s] = clock /\ 0 < clock
         /\ turns[s] > 0 => turns'[s] > 0
<1>0. clock \in Nat /\ written[s] \in Nat /\ turns[s] \in Nat
  BY NatTimes DEF TInv, TypeOK
<1>1. CASE UNCHANGED <<clock, turns, written>>
  BY <1>0, <1>1
<1>2. CASE Passes
  BY <1>0, <1>2 DEF Passes
<1>3. ASSUME NEW z \in Sessions, Writes(z)
      PROVE  /\ clock' \in Nat /\ clock <= clock'
             /\ \/ turns'[s] = turns[s] /\ written'[s] = written[s]
                \/ turns'[s] > 0 /\ written'[s] = clock /\ 0 < clock
             /\ turns[s] > 0 => turns'[s] > 0
  <2>1. clock' = clock /\ 0 < clock
    BY <1>3 DEF Turn, Writes
  <2>. QED
    BY <1>0, <1>3, <2>1 DEF Writes
<1>. QED
  BY <1>1, <1>2, <1>3, SessionsStep DEF SessionsMove

\* What is in hand after a step was in hand before, or has just been listed.
LEMMA HandsStep ==
  ASSUME TInv, ArchivesOK, [Next]_vars, NEW o \in Sweepers
  PROVE  \/ Lists(o) /\ InHand(o)' \subseteq Ready
         \/ /\ ~Lists(o) /\ InHand(o)' \subseteq InHand(o)
            /\ \A q \in InHand(o) :
                 \/ q \in InHand(o)'
                 \/ q.session \in Accounted'
                 \/ InHand(o)' = {}
                 \/ Blocks(o)
<1> USE DEF InHand
<1>1. CASE Lists(o)
  BY <1>1 DEF Lists
<1>2. CASE Finishes(o)
  BY <1>2 DEF Finishes, Lists
<1>3. CASE Blocks(o)
  BY <1>3 DEF Blocks, Lists
<1>4. CASE Takes(o)
  BY <1>4 DEF Takes, Lists
<1>5. CASE Drops(o)
  BY <1>1, <1>5 DEF Drops
<1>6. CASE Keeps(o)
  BY <1>1, <1>6 DEF Keeps
<1>. QED
  BY <1>1, <1>2, <1>3, <1>4, <1>5, <1>6, SweepStep

LEMMA TimedStep ==
  ASSUME TInv, NInv, [Next]_vars
  PROVE  Timed'
<1>0. Timed /\ ArchivesOK
  BY DEF NInv
<1>1. ASSUME NEW s \in Sessions, turns'[s] > 0
      PROVE  0 < written'[s] /\ written'[s] <= clock'
  <2>1. clock \in Nat /\ written[s] \in Nat
    BY NatTimes DEF TInv
  <2>2. turns[s] > 0 => 0 < written[s] /\ written[s] <= clock
    BY <1>0 DEF Timed
  <2>. QED
    BY <1>1, <2>1, <2>2, SessionStep
<1>2. ASSUME NEW p \in Sweepers, NEW r \in InHand(p)'
      PROVE  turns'[r.session] > 0 /\ 0 < r.written /\ r.written <= written'[r.session]
  <2>1. /\ r.session \in Sessions /\ r.written \in Nat /\ written[r.session] \in Nat
        /\ turns[r.session] > 0 /\ 0 < r.written /\ r.written <= written[r.session]
    <3>1. CASE r \in Ready
      <4>1. /\ r.session \in Sessions /\ r.written = written[r.session]
            /\ turns[r.session] > 0
        BY <3>1, ReadyRefs DEF TInv
      <4>2. 0 < written[r.session] /\ written[r.session] \in Nat
        BY <1>0, <4>1, NatTimes DEF Timed, TInv
      <4>. QED
        BY <4>1, <4>2
    <3>2. CASE r \in InHand(p)
      BY <1>0, <3>2, Hands DEF Timed
    <3>. QED
      BY <1>0, <1>2, <3>1, <3>2, HandsStep
  <2>2. clock \in Nat /\ written[r.session] <= clock
    BY <1>0, <2>1, NatTimes DEF Timed, TInv
  <2>3. /\ turns'[r.session] > 0
        /\ written'[r.session] = written[r.session] \/ written'[r.session] = clock
    BY <2>1, SessionStep
  <2>. QED
    BY <2>1, <2>2, <2>3
<1>a. clock \in Nat /\ watermark \in Nat /\ (UNCHANGED clock \/ clock' = clock + 1)
  BY NatTimes, SessionsStep DEF TInv, Turn, SessionsMove, Passes, Writes
\* A transcript in hand was written in the past.
<1>b. ASSUME NEW p \in Sweepers, Holding(p)
      PROVE  ref[p].written \in Time /\ ref[p].written <= clock
  <2>1. ref[p] \in InHand(p)
    BY <1>b DEF InHand
  <2>2. /\ ref[p] \in Refs /\ ref[p].session \in Sessions /\ ref[p].written \in Nat
        /\ written[ref[p].session] \in Nat
    BY <2>1, Hands
  <2>3. ref[p].written <= written[ref[p].session] /\ written[ref[p].session] <= clock
    BY <1>0, <2>1, <2>2 DEF Timed
  <2>. QED
    BY <1>a, <2>2, <2>3 DEF Refs
<1>3. ASSUME NEW i \in Importers PROVE reached'[i] <= clock'
  <2>1. reached[i] \in Nat /\ reached[i] <= clock
    BY <1>0, Hands DEF Timed
  <2>2. CASE reached'[i] = reached[i] \/ reached'[i] = 0
    BY <1>a, <2>1, <2>2
  <2>3. CASE Reaching(i)
    <3>1. Holding(i) /\ i \in Sweepers /\ reached'[i] = ref[i].written /\ clock' = clock
      BY <2>3 DEF Reaching, Sweepers
    <3>. QED
      BY <1>b, <3>1
  <2>. QED
    BY <1>0, <2>2, <2>3, ReachedStep
<1>4. watermark' <= clock' /\ WholeSeconds(watermark') = watermark'
  <2>1. watermark <= clock /\ WholeSeconds(watermark) = watermark
    BY <1>0 DEF Timed
  <2>2. CASE UNCHANGED watermark
    BY <1>a, <2>1, <2>2 DEF WholeSeconds
  <2>3. ASSUME NEW t \in Time, t <= clock, watermark' = WholeSeconds(t), clock' = clock
        PROVE  watermark' <= clock' /\ WholeSeconds(watermark') = watermark'
    <3>1. /\ WholeSeconds(t) \in Time /\ WholeSeconds(t) <= t
          /\ WholeSeconds(WholeSeconds(t)) = WholeSeconds(t) /\ Time \in SUBSET Nat
      BY Times
    <3>. QED
      BY <1>a, <2>3, <3>1 DEF WholeSeconds
  <2>4. CASE MarkedByWorker
    <3>1. /\ Holding(Worker) /\ Worker \in Sweepers
          /\ watermark' = WholeSeconds(ref[Worker].written) /\ clock' = clock
      BY <2>4 DEF MarkedByWorker, Sweepers
    <3>. QED
      BY <1>b, <2>3, <3>1
  <2>5. CASE MarkedByImporter
    <3>1. PICK i \in Importers : watermark' = WholeSeconds(reached[i]) /\ clock' = clock
      BY <2>5 DEF MarkedByImporter
    <3>2. reached[i] \in Time /\ reached[i] <= clock
      BY <1>0 DEF Timed, TInv, TypeOK
    <3>. QED
      BY <2>3, <3>1, <3>2
  <2>. QED
    BY <1>0, <2>2, <2>4, <2>5, WatermarkStep DEF Marked
<1>. QED
  BY <1>1, <1>2, <1>3, <1>4 DEF Timed, WholeSeconds

LEMMA OrderedStep ==
  ASSUME TInv, NInv, [Next]_vars
  PROVE  Ordered'
<1> SUFFICES ASSUME NEW p \in Sweepers, Holding(p)', NEW q \in list'[p]
             PROVE  Earlier(ref'[p], q)
  BY DEF Ordered, Earlier
<1>1. Takes(p) \/ Keeps(p)
  BY SweepStep DEF NInv, Lists, Finishes, Blocks, Drops
<1>. QED
  BY <1>1 DEF NInv, Ordered, Takes, Keeps

LEMMA NothingOlderStep ==
  ASSUME TInv, NInv, [Next]_vars
  PROVE  NothingOlder'
<1>0. ArchivesOK /\ Timed /\ NothingOlder /\ NothingSkipped
  BY DEF NInv
<1> SUFFICES ASSUME NEW p \in Sweepers, ~(p \in Importers /\ blocked'[p]),
                    NEW r \in InHand(p)', NEW s \in Sessions, turns'[s] > 0,
                    Fraction(s)', written'[s] < r.written
             PROVE  s \in Accounted' \/ \E q \in InHand(p)' : q.session = s
  BY DEF NothingOlder
<1>1. Accounted \subseteq Accounted'
  BY <1>0, AccountedGrows
<1>2. CASE Lists(p) /\ InHand(p)' \subseteq Ready
  <2>1. turns'[s] = turns[s] /\ written'[s] = written[s] /\ Fraction(s)
    BY <1>2 DEF Lists, Fraction, WholeSeconds
  <2>2. r \in Ready /\ r \in list'[p]
    BY <1>2 DEF Lists, InHand
  <2> DEFINE q == [session |-> s, written |-> written[s]]
  <2>3. CASE s \notin Accounted
    <3>1. q \in Ready /\ Earlier(q, r)
      BY <1>0, <2>1, <2>2, <2>3, ReadyClosed DEF TInv
    <3>2. q \in list'[p] \/ q.session \in skipped
      BY <1>2, <2>2, <3>1 DEF Lists
    <3>3. skipped \subseteq Accounted
      BY <1>0 DEF ArchivesOK, SeenOK, Accounted
    <3>. QED
      BY <2>3, <3>2, <3>3 DEF InHand
  <2>. QED
    BY <1>1, <2>3
<1>3. CASE /\ InHand(p)' \subseteq InHand(p)
           /\ \A q \in InHand(p) : q \in InHand(p)' \/ q.session \in Accounted'
  <2>1. r \in InHand(p)
    BY <1>3
  <2>2. /\ r.session \in Sessions /\ r.written \in Nat /\ r.written <= clock /\ clock \in Nat
    <3>1. /\ r.session \in Sessions /\ r.written \in Nat /\ written[r.session] \in Nat
      BY <2>1, Hands
    <3>2. r.written <= written[r.session] /\ written[r.session] <= clock /\ clock \in Nat
      BY <1>0, <2>1, <3>1, NatTimes DEF Timed, TInv
    <3>. QED
      BY <3>1, <3>2
  <2>3. turns'[s] = turns[s] /\ written'[s] = written[s] /\ Fraction(s)
    BY <2>2, SessionStep DEF Fraction, WholeSeconds
  <2>4. ~(p \in Importers /\ blocked[p])
    <3>1. ASSUME p \in Importers, blocked[p] PROVE FALSE
      <4>1. list'[p] = {} /\ ~Holding(p)'
        BY <1>0, <3>1, ReachedStep
      <4>. QED
        BY <4>1 DEF InHand
    <3>. QED
      BY <3>1
  <2>5. s \in Accounted \/ \E q \in InHand(p) : q.session = s
    BY <1>0, <2>1, <2>3, <2>4 DEF NothingOlder
  <2>. QED
    BY <1>1, <1>3, <2>5
<1>4. CASE Blocks(p)
  BY <1>4 DEF Blocks
<1>. QED
  BY <1>0, <1>2, <1>3, <1>4, HandsStep

\* A session written now is not older than a whole second that has passed.
LEMMA WrittenNow ==
  ASSUME TInv, [Next]_vars, NEW s \in Sessions, turns'[s] > 0, Fraction(s)',
         NEW t \in Nat, t <= clock, WholeSeconds(t) = t, written'[s] <= t
  PROVE  turns'[s] = turns[s] /\ written'[s] = written[s] /\ Fraction(s)
<1>1. clock \in Nat
  BY NatTimes DEF TInv
<1>2. ~(written'[s] = clock)
  <2>1. SUFFICES ASSUME written'[s] = clock PROVE FALSE
    OBVIOUS
  <2>2. clock = t
    BY <1>1, <2>1
  <2>3. WholeSeconds(clock) < clock
    BY <2>1 DEF Fraction, WholeSeconds
  <2>. QED
    BY <1>1, <2>2, <2>3
<1>3. turns'[s] = turns[s] /\ written'[s] = written[s]
  BY <1>2, SessionStep
<1>. QED
  BY <1>3 DEF Fraction, WholeSeconds

LEMMA ReachedOKStep ==
  ASSUME TInv, NInv, Timed', [Next]_vars
  PROVE  ReachedOK'
<1>0. ArchivesOK /\ Timed /\ ReachedOK
  BY DEF NInv
<1> SUFFICES ASSUME NEW i \in Importers, NEW s \in Sessions, turns'[s] > 0, Fraction(s)',
                    written'[s] <= WholeSeconds(reached'[i])
             PROVE  s \in Accounted'
  BY DEF ReachedOK, WholeSeconds
<1>1. Accounted \subseteq Accounted'
  BY <1>0, AccountedGrows
<1>2. 0 < written'[s]
  BY DEF Timed
<1>3. WholeSeconds(0) = 0
  BY DEF WholeSeconds
<1>a. clock \in Nat /\ reached[i] \in Nat /\ WholeSeconds(reached[i]) \in Nat
  BY NatTimes, Hands DEF TInv
<1>4. CASE reached'[i] = 0
  <2>1. written'[s] = clock \/ written'[s] = written[s]
    BY SessionStep
  <2>2. written[s] \in Nat
    BY NatTimes DEF TInv
  <2>. QED
    BY <1>2, <1>3, <1>4, <1>a, <2>1, <2>2
<1>5. CASE reached'[i] = reached[i] /\ reached[i] > 0
  <2>1. /\ WholeSeconds(reached[i]) <= reached[i] /\ reached[i] <= clock
        /\ WholeSeconds(WholeSeconds(reached[i])) = WholeSeconds(reached[i])
    BY <1>0, Times DEF Timed, TInv, TypeOK
  <2>2. written'[s] <= WholeSeconds(reached[i]) /\ WholeSeconds(reached[i]) <= clock
    BY <1>5, <1>a, <2>1 DEF WholeSeconds
  <2>3. turns'[s] = turns[s] /\ written'[s] = written[s] /\ Fraction(s)
    BY <1>a, <2>1, <2>2, WrittenNow
  <2>. QED
    BY <1>0, <1>1, <2>2, <2>3 DEF ReachedOK
<1>6. CASE Reaching(i)
  <2>1. /\ Holding(i) /\ ~blocked[i] /\ reached'[i] = ref[i].written /\ i \in Sweepers
        /\ turns'[s] = turns[s] /\ written'[s] = written[s] /\ ref[i].session \in Accounted'
    BY <1>6 DEF Reaching, Sweepers
  <2>2. Fraction(s)
    BY <2>1 DEF Fraction, WholeSeconds
  <2>3. s \in Accounted \/ s = ref[i].session
    BY <2>1, <2>2, HandPassed
  <2>. QED
    BY <1>1, <2>1, <2>3
<1>. QED
  BY <1>0, <1>4, <1>5, <1>6, <1>a, ReachedStep

LEMMA NothingSkippedStep ==
  ASSUME TInv, NInv, [Next]_vars
  PROVE  NothingSkipped'
<1>0. ArchivesOK /\ Timed /\ ReachedOK /\ NothingSkipped
  BY DEF NInv
<1> SUFFICES ASSUME NEW s \in Sessions, turns'[s] > 0, Fraction(s)', written'[s] <= watermark'
             PROVE  s \in Accounted'
  BY DEF NothingSkipped, Accounted, Recorded
<1>1. Accounted \subseteq Accounted'
  BY <1>0, AccountedGrows
<1>2. CASE UNCHANGED watermark
  <2>1. watermark \in Nat /\ watermark <= clock /\ WholeSeconds(watermark) = watermark
    BY <1>0, NatTimes DEF TInv, Timed
  <2>2. turns'[s] = turns[s] /\ written'[s] = written[s] /\ Fraction(s)
    BY <1>2, <2>1, WrittenNow
  <2>. QED
    BY <1>0, <1>1, <1>2, <2>2 DEF NothingSkipped, Accounted, Recorded
<1>3. CASE MarkedByWorker
  <2>1. /\ Holding(Worker) /\ Worker \in Sweepers /\ Worker \notin Importers
        /\ watermark' = WholeSeconds(ref[Worker].written)
        /\ turns'[s] = turns[s] /\ written'[s] = written[s] /\ ref[Worker].session \in Accounted'
    BY <1>3, Constants DEF MarkedByWorker, Sweepers
  <2>2. Fraction(s)
    BY <2>1 DEF Fraction, WholeSeconds
  <2>3. s \in Accounted \/ s = ref[Worker].session
    BY <2>1, <2>2, HandPassed
  <2>. QED
    BY <1>1, <2>1, <2>3
<1>4. CASE MarkedByImporter
  <2>1. turns'[s] = turns[s] /\ written'[s] = written[s]
    BY <1>4 DEF MarkedByImporter
  <2>2. Fraction(s)
    BY <2>1 DEF Fraction, WholeSeconds
  <2>. QED
    BY <1>0, <1>1, <1>4, <2>2 DEF MarkedByImporter, ReachedOK
<1>. QED
  BY <1>0, <1>2, <1>3, <1>4, WatermarkStep DEF Marked

LEMMA NStep ==
  ASSUME TInv, NInv, [Next]_vars
  PROVE  NInv'
<1>1. Timed'
  BY TimedStep
<1>2. Ordered'
  BY OrderedStep
<1>3. NothingOlder' /\ NothingSkipped'
  BY NothingOlderStep, NothingSkippedStep
<1>4. ReachedOK'
  BY <1>1, ReachedOKStep
<1>5. ArchivesOK'
  BY WroteStep, SeenStep DEF NInv, ArchivesOK
<1>. QED
  BY <1>1, <1>2, <1>3, <1>4, <1>5 DEF NInv

\* The watermark, whoever moves it, never passes a transcript that is neither
\* archived nor empty nor given up on (mark_swept, Watermark::commit), whatever is
\* killed, however sessions go on and however many processes number archives at
\* the same time.  Only an archive that another process wrote over, and a
\* transcript last written at a whole second, may be missing.
THEOREM NothingIsSkipped == Spec => []NothingSkipped
<1>1. Init => NInv
  BY InitNInv
<1>2. TInv /\ NInv /\ [Next]_vars => NInv'
  BY NStep
<1>3. NInv => NothingSkipped
  BY DEF NInv
<1>. QED
  BY <1>1, <1>2, <1>3, TypeInduction, PTL DEF Spec
=============================================================================
