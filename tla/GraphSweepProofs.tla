-------------------------- MODULE GraphSweepProofs --------------------------
(***************************************************************************)
(* Theorems about GraphSweep: the promises of StoreMigration hold with the *)
(* sweep at work on its rows as well, and in an embedded store the sweep   *)
(* takes no more than it read as due.                                      *)
(***************************************************************************)
EXTENDS GraphSweep, StoreMigrationProofs

---------------------------------------------------------------------------
(* What a sweep knows.                                                     *)

SweepTypes ==
  /\ entities \subseteq Entities /\ orphans \subseteq Entities
  /\ halved \in Entities \cup {None}
  /\ doomed \subseteq condemned

\* A sweep runs in a process that has the store open.
Attended == phase # "off" => \E p \in Sweepers : pc[p] = "open"

\* The edges of an entity it deletes were condemned for themselves.
OrphansBare ==
  phase \in {"episodes", "delete"} => \A x \in orphans : Touching(x) \subseteq condemned

\* What will be left when it is done.
Left == (Stored \ doomed) \cup (entities \ (orphans \cup {halved}))

\* While no deletion has failed, what will be left cites no episode it deletes.
SpentUncited ==
  ~failed /\ phase = "delete" => \A n \in spent, r \in Left : Source[r] # LogOf[n]

Sweep ==
  /\ phase # "delete" => halved = None
  /\ ~server => OrphansBare /\ SpentUncited

SInv == TInv /\ ExtractsOK /\ Progress /\ Alone /\ Records
GInv == SweepTypes /\ Attended /\ Sweep

---------------------------------------------------------------------------
(* A step of the sweep, as the rest of the store sees it: rows go, and      *)
(* nothing else changes.                                                    *)

EdgesGo ==
  /\ edges' \in [Edges -> Edge] /\ noted' \in [Edges -> SUBSET Notes]
  /\ \A e \in Edges :
       \/ edges'[e] = edges[e] /\ noted'[e] \in {noted[e], {}}
       \/ edges'[e] = Forgotten /\ noted'[e] = {}
EpisodesGo ==
  /\ flags' \in [Episodes -> {"missing", "absent", "no", "yes", "gone"}]
  /\ \A n \in Episodes : flags'[n] \in {flags[n], "gone"}
RowsGo == EdgesGo /\ EpisodesGo /\ UNCHANGED rest /\ troubles' \in 0..MaxTroubles

LEMMA DropGoes ==
  ASSUME TInv, NEW gone, Drop(gone)
  PROVE  EdgesGo
<1>1. Forgotten \in Edge
  BY DEF Forgotten, Edge
<1>. QED
  BY <1>1 DEF Drop, EdgesGo, TInv, TypeOK

LEMMA EdgesStay == TInv /\ UNCHANGED <<edges, noted>> => EdgesGo
BY DEF EdgesGo, TInv, TypeOK

LEMMA EpisodesStay == TInv /\ UNCHANGED flags => EpisodesGo
BY DEF EpisodesGo, TInv, TypeOK

LEMMA TroublesBound ==
  ASSUME TInv, UNCHANGED troubles \/ Trouble
  PROVE  troubles' \in 0..MaxTroubles
BY ConstantsOK DEF Trouble, TInv, TypeOK

LEMMA SweepTakes ==
  ASSUME TInv, SweepStep
  PROVE  RowsGo
<1>1. CASE UNCHANGED vars
  <2>1. UNCHANGED <<edges, noted, flags, rest, troubles>>
    BY <1>1 DEF vars, store, observed, bounds, rest
  <2>. QED
    BY <2>1, EdgesStay, EpisodesStay, TroublesBound DEF RowsGo
<1>2. ASSUME NEW e \in Edges, DeleteEdge(e) PROVE RowsGo
  <2>1. EdgesGo
    BY <1>2, DropGoes, EdgesStay DEF DeleteEdge
  <2>. QED
    BY <1>2, <2>1, EpisodesStay, TroublesBound DEF DeleteEdge, RowsGo
<1>3. ASSUME NEW x \in Entities, DeleteItsEdges(x) PROVE RowsGo
  <2>1. EdgesGo
    BY <1>3, DropGoes, EdgesStay DEF DeleteItsEdges
  <2>. QED
    BY <1>3, <2>1, EpisodesStay, TroublesBound DEF DeleteItsEdges, RowsGo
<1>4. CASE DeleteEntity
  <2>1. UNCHANGED <<edges, noted, flags, rest>>
    BY <1>4 DEF DeleteEntity, store
  <2>. QED
    BY <1>4, <2>1, EdgesStay, EpisodesStay, TroublesBound DEF DeleteEntity, RowsGo
<1>5. ASSUME NEW n \in Episodes, DeleteEpisode(n) PROVE RowsGo
  <2>1. EpisodesGo
    BY <1>5 DEF DeleteEpisode, EpisodesGo, TInv, TypeOK
  <2>. QED
    BY <1>5, <2>1, EdgesStay, TroublesBound DEF DeleteEpisode, RowsGo
<1>. QED
  BY <1>1, <1>2, <1>3, <1>4, <1>5
  DEF SweepStep, ReadEdges, JudgeEntities, JudgeEpisodes, EndSweep

\* A row that goes lacks no value, so a marker that was honest stays so.
LEMMA SweepKeepsProgress ==
  ASSUME TInv, Progress, RowsGo
  PROVE  Progress'
<1>1. /\ Bare' \subseteq Bare /\ Unflagged' \subseteq Unflagged
      /\ UNCHANGED <<pc, batch, marker, trusted>>
  BY DEF RowsGo, EdgesGo, EpisodesGo, Bare, Unflagged, Forgotten, rest, pass
<1>. QED
  BY <1>1 DEF Progress, MarkerIsHonest, Honest, Reached

LEMMA SweepKeepsTypes ==
  ASSUME TInv, ExtractsOK, Alone, RowsGo
  PROVE  TInv' /\ ExtractsOK' /\ Alone'
<1>1. UNCHANGED <<server, marker, pass, work, trusted, crossed, forces>>
  BY DEF RowsGo, rest
<1>2. TInv'
  BY <1>1 DEF RowsGo, EdgesGo, EpisodesGo, TInv, TypeOK, BatchOK, pass, work
<1>3. ExtractsOK' /\ Alone'
  BY <1>1 DEF ExtractsOK, Alone, Busy, pass, work
<1>. QED
  BY <1>2, <1>3

\* In an embedded store whoever sweeps is alone with the rows.
LEMMA SweepsAlone ==
  ASSUME Alone, ~server, NEW p \in Sweepers, pc[p] = "open"
  PROVE  /\ \A c \in Clients : ~Busy(c) /\ pc[Home[c]] # "open"
         /\ \A q \in Processes : q # p => pc[q] = "closed"
<1>1. p \in Processes /\ \A c \in Clients : Home[c] \in Processes /\ Home[c] # p
  BY ConstantsOK, SweepConstantsOK
<1>. QED
  BY <1>1 DEF Alone

LEMMA SweepKeepsRecords ==
  ASSUME TInv, Alone, Records, RowsGo, ~server, NEW p \in Sweepers, pc[p] = "open"
  PROVE  Records' /\ OnlyFills
<1>1. /\ \A c \in Clients : ~Busy(c)
      /\ \A q \in Processes : pc[q] \notin {"derive", "flag"}
  BY SweepsAlone
<1>2. UNCHANGED <<server, pc, held, crossed>>
  BY DEF RowsGo, rest, pass, work
<1>3. \A q \in Processes : Selected(q)'
  BY <1>1, <1>2 DEF Selected
<1>4. \A c \in Clients, e \in Edges : HeldBy(c, e)'
  BY <1>1, <1>2 DEF HeldBy, Busy
<1>5. ASSUME NEW e \in Edges PROVE NotedOn(e)'
  <2>1. CASE edges'[e] = edges[e] /\ noted'[e] \in {noted[e], {}}
    BY <1>2, <2>1 DEF Records, NotedOn, Stored
  <2>2. CASE edges'[e] = Forgotten /\ noted'[e] = {}
    BY <2>2 DEF NotedOn
  <2>. QED
    BY <2>1, <2>2 DEF RowsGo, EdgesGo
<1>6. OnlyFills
  BY DEF RowsGo, EdgesGo, EpisodesGo, OnlyFills, Forgotten
<1>. QED
  BY <1>2, <1>3, <1>4, <1>5, <1>6 DEF Records

---------------------------------------------------------------------------
(* A step of the store's other users, as the sweep sees it.                 *)

\* While somebody sweeps an embedded store the edges change under it only when
\* its own process is gone.
LEMMA SweptUndisturbed ==
  ASSUME TInv, Alone, ~server, Next, NEW p \in Sweepers, pc[p] = "open"
  PROVE  pc'[p] # "open" \/ UNCHANGED edges
<1>1. /\ \A c \in Clients : pc[Home[c]] # "open"
      /\ \A q \in Processes : q # p => pc[q] = "closed"
      /\ p \in Processes
  BY SweepsAlone, SweepConstantsOK
<1>2. ASSUME NEW q \in Processes, Acts(q) PROVE pc'[p] # "open" \/ UNCHANGED edges
  BY <1>1, <1>2 DEF Acts, Open, Migrates, CheckVersion, RefuseNewer, ReadVersion, SelectEdges,
     DeriveEvidence, CountAbsent, SelectBatch, FlagBatch, Recount, WriteMarker, Conflict,
     Writing, Breaks, Close, ForceMigrate, Gone, store
<1>3. ASSUME NEW c \in Clients, Works(c) PROVE FALSE
  BY <1>1, <1>3, ClientOpen
<1>. QED
  BY <1>2, <1>3 DEF Next, Acts, Ingest, NewerBuild

\* Nobody but the sweep takes an episode.
LEMMA OnlySweepsTake ==
  ASSUME TInv, Next, NEW n \in Episodes, flags'[n] = "gone"
  PROVE  flags[n] = "gone"
<1>1. CASE UNCHANGED flags
  BY <1>1
<1>2. ASSUME NEW p \in Processes, Acts(p) PROVE flags[n] = "gone"
  BY <1>1, <1>2 DEF Acts, Open, Migrates, CheckVersion, RefuseNewer, ReadVersion, SelectEdges,
     DeriveEvidence, CountAbsent, SelectBatch, FlagBatch, Recount, WriteMarker, Conflict,
     Breaks, Close, ForceMigrate, Gone, store
<1>3. ASSUME NEW c \in Clients, Works(c) PROVE flags[n] = "gone"
  BY <1>1, <1>3 DEF Works, TakeLog, MarkLog, Correct, ObservationFails, FindEdge, AddEdge,
     Forget, RecordObservation, store
<1>4. ASSUME NEW m \in Episodes, Ingest(m) PROVE flags[n] = "gone"
  BY <1>4 DEF Ingest, TInv, TypeOK
<1>. QED
  BY <1>1, <1>2, <1>3, <1>4 DEF Next, Acts, NewerBuild

LEMMA StoreStepSweep ==
  ASSUME TInv, Alone, GInv, StoreStep
  PROVE  GInv'
<1>0. /\ UNCHANGED <<entities, failed>> /\ UNCHANGED server
      /\ NoSweep \/ UNCHANGED sweepVars
  BY ServerStays DEF StoreStep
<1>1. CASE NoSweep
  BY <1>0, <1>1 DEF NoSweep, GInv, SweepTypes, Attended, Sweep, OrphansBare, SpentUncited
<1>2. CASE UNCHANGED sweepVars /\ phase = "off"
  BY <1>0, <1>2
  DEF sweepVars, GInv, SweepTypes, Attended, Sweep, OrphansBare, SpentUncited
<1>3. CASE ~NoSweep /\ UNCHANGED sweepVars /\ phase # "off"
  <2>1. PICK p \in Sweepers : pc[p] = "open"
    BY <1>3 DEF GInv, Attended
  <2>2. pc'[p] = "open"
    BY <1>3, <2>1, SweepConstantsOK DEF StoreStep, Sweeping
  <2>3. ~server => UNCHANGED edges
    BY <2>1, <2>2, SweptUndisturbed DEF StoreStep
  <2>4. SweepTypes' /\ Attended'
    BY <1>0, <1>3, <2>2 DEF sweepVars, GInv, SweepTypes, Attended
  <2>5. ~server => OrphansBare' /\ SpentUncited'
    BY <1>0, <1>3, <2>3
    DEF sweepVars, GInv, Sweep, OrphansBare, SpentUncited, Left, Touching, Stored
  <2>. QED
    BY <1>0, <1>3, <2>4, <2>5 DEF sweepVars, GInv, Sweep
<1>. QED
  BY <1>0, <1>1, <1>2, <1>3

---------------------------------------------------------------------------
(* A step of the sweep, as the sweep itself sees it.                        *)

LEMMA AttendedStays ==
  ASSUME TInv, GInv, SweepStep
  PROVE  Attended' /\ UNCHANGED <<server, pc>>
<1>1. UNCHANGED <<server, pc>>
  BY SweepTakes DEF RowsGo, rest, pass
<1>2. phase' = "off" \/ phase # "off" \/ \E p \in Sweepers : pc[p] = "open"
  BY DEF SweepStep, ReadEdges, JudgeEntities, JudgeEpisodes, DeleteEdge, DeleteItsEdges,
         DeleteEntity, DeleteEpisode, EndSweep, NoSweep
<1>. QED
  BY <1>1, <1>2 DEF GInv, Attended

\* What goes is no longer touched, nor left.
LEMMA DropTakes ==
  ASSUME NEW gone, Drop(gone)
  PROVE  Stored' = Stored \ gone /\ \A e \in Edges : edges'[e] = edges[e] \/ e \in gone
BY DEF Drop, Stored, Forgotten

LEMMA JudgesSweep ==
  ASSUME TInv, GInv,
         (\E p \in Processes : ReadEdges(p)) \/ JudgeEntities \/ JudgeEpisodes \/ EndSweep
  PROVE  SweepTypes' /\ Sweep'
<1>0. UNCHANGED <<edges, server>> /\ Stored' = Stored
  BY DEF ReadEdges, JudgeEntities, JudgeEpisodes, EndSweep, vars, store, Stored
<1>1. ASSUME NEW p \in Processes, ReadEdges(p) PROVE SweepTypes' /\ Sweep'
  BY <1>0, <1>1
  DEF ReadEdges, GInv, SweepTypes, Sweep, OrphansBare, SpentUncited
<1>2. CASE JudgeEntities
  BY <1>0, <1>2
  DEF JudgeEntities, Orphaned, GInv, SweepTypes, Sweep, OrphansBare, SpentUncited, Touching
<1>3. CASE JudgeEpisodes
  <2>1. UNCHANGED <<entities, doomed, orphans, condemned, halved, failed>> /\ phase' = "delete"
        /\ phase = "episodes" /\ spent' = Uncited /\ halved = None
    BY <1>3 DEF JudgeEpisodes, GInv, Sweep
  <2>2. Left' \subseteq Survivors
    BY <1>0, <2>1 DEF Left, Survivors
  <2>3. SpentUncited'
    BY <1>0, <2>1, <2>2 DEF SpentUncited, Uncited
  <2>. QED
    BY <1>0, <2>1, <2>3 DEF GInv, SweepTypes, Sweep, OrphansBare, Touching
<1>4. CASE EndSweep
  BY <1>0, <1>4 DEF EndSweep, NoSweep, GInv, SweepTypes, Sweep, OrphansBare, SpentUncited
<1>. QED
  BY <1>1, <1>2, <1>3, <1>4

\* A deletion leaves less of everything, and what will be left unless it failed.
LEMMA DeletesSweep ==
  ASSUME TInv, GInv, phase = "delete", UNCHANGED <<server, phase, condemned>>,
         Stored' \subseteq Stored, entities' \subseteq entities, halved' \in Entities \cup {None},
         doomed' \subseteq doomed, orphans' \subseteq orphans, spent' \subseteq spent,
         failed' = TRUE \/ (failed' = failed /\ Left' \subseteq Left)
  PROVE  SweepTypes' /\ Sweep'
<1>1. SweepTypes'
  BY DEF GInv, SweepTypes
<1>2. ~server => OrphansBare'
  BY DEF GInv, Sweep, OrphansBare, Touching
<1>3. ~server => SpentUncited'
  BY DEF GInv, Sweep, SpentUncited
<1>. QED
  BY <1>1, <1>2, <1>3 DEF Sweep

LEMMA SweepStepSweep ==
  ASSUME TInv, GInv, SweepStep
  PROVE  GInv'
<1>0. Attended' /\ UNCHANGED server
  BY AttendedStays
<1>1. ASSUME NEW e \in Edges, DeleteEdge(e) PROVE SweepTypes' /\ Sweep'
  <2>1. CASE Drop({e}) /\ UNCHANGED <<troubles, failed>>
    <3>1. Stored' = Stored \ {e} /\ Left' \subseteq Left
      BY <1>1, <2>1, DropTakes DEF DeleteEdge, Left
    <3>. QED
      BY <1>0, <1>1, <2>1, <3>1, DeletesSweep DEF DeleteEdge, GInv, SweepTypes
  <2>2. CASE failed' = TRUE /\ UNCHANGED <<edges, noted>>
    BY <1>0, <1>1, <2>2, DeletesSweep DEF DeleteEdge, GInv, SweepTypes, Stored
  <2>. QED
    BY <1>1, <2>1, <2>2 DEF DeleteEdge
<1>2. ASSUME NEW x \in Entities, DeleteItsEdges(x) PROVE SweepTypes' /\ Sweep'
  <2>1. CASE Drop(Touching(x)) /\ halved' = x /\ UNCHANGED <<troubles, failed>>
    <3>1. Stored' = Stored \ Touching(x)
      BY <2>1, DropTakes
    <3>2. Left' \subseteq Left
      BY <1>2, <2>1, <3>1, SweepConstantsOK DEF DeleteItsEdges, Left, GInv, SweepTypes
    <3>. QED
      BY <1>0, <1>2, <2>1, <3>1, <3>2, DeletesSweep DEF DeleteItsEdges
  <2>2. CASE failed' = TRUE /\ UNCHANGED <<edges, noted, halved>>
    BY <1>0, <1>2, <2>2, DeletesSweep DEF DeleteItsEdges, GInv, SweepTypes, Stored
  <2>. QED
    BY <1>2, <2>1, <2>2 DEF DeleteItsEdges
<1>3. ASSUME DeleteEntity PROVE SweepTypes' /\ Sweep'
  <2>0. Stored' = Stored /\ halved' = None /\ UNCHANGED <<phase, doomed, orphans, spent, condemned>>
    BY <1>3 DEF DeleteEntity, store, Stored
  <2>3. phase = "delete" /\ phase' = "delete" /\ halved' \in Entities \cup {None}
    BY <1>3, <2>0 DEF DeleteEntity
  <2>1. CASE entities' = entities \ {halved} /\ UNCHANGED <<troubles, failed>>
    <3>1. Left' \subseteq Left
      BY <2>0, <2>1 DEF Left
    <3>. QED
      BY <1>0, <2>0, <2>3, <2>1, <3>1, DeletesSweep
  <2>2. CASE failed' = TRUE /\ UNCHANGED entities
    BY <1>0, <2>0, <2>3, <2>2, DeletesSweep
  <2>. QED
    BY <1>3, <2>1, <2>2 DEF DeleteEntity
<1>4. ASSUME NEW n \in Episodes, DeleteEpisode(n) PROVE SweepTypes' /\ Sweep'
  <2>1. Stored' = Stored /\ Left' = Left
    BY <1>4 DEF DeleteEpisode, Stored, Left
  <2>. QED
    BY <1>0, <1>4, <2>1, DeletesSweep DEF DeleteEpisode, GInv, SweepTypes
<1>. QED
  BY <1>0, <1>1, <1>2, <1>3, <1>4, JudgesSweep DEF SweepStep, GInv

---------------------------------------------------------------------------
(* The invariant of the composition.                                        *)

LEMMA SweepInitInv == SweepInit => SInv /\ GInv
<1> SUFFICES ASSUME SweepInit PROVE SInv /\ GInv
  OBVIOUS
<1>1. Init
  BY DEF SweepInit, Init
<1>2. GInv
  BY DEF SweepInit, GInv, SweepTypes, Attended, Sweep, OrphansBare, SpentUncited
<1>. QED
  BY <1>1, <1>2, InitTypes, InitExtracts, InitProgress, InitAlone, InitRecords DEF SInv

LEMMA SweepRecords ==
  ASSUME SInv, GInv, SweepStep
  PROVE  Records' /\ (~server => OnlyFills)
<1>1. CASE server
  <2>1. server'
    BY <1>1, AttendedStays DEF SInv
  <2>. QED
    BY <1>1, <2>1 DEF Records
<1>2. CASE ~server /\ \E p \in Sweepers : pc[p] = "open"
  BY <1>2, SweepTakes, SweepKeepsRecords DEF SInv
<1>3. CASE \A p \in Sweepers : pc[p] # "open"
  BY <1>3 DEF GInv, Attended, SweepStep, ReadEdges, JudgeEntities, JudgeEpisodes, DeleteEdge,
     DeleteItsEdges, DeleteEntity, DeleteEpisode, EndSweep
<1>. QED
  BY <1>1, <1>2, <1>3

LEMMA SweepInvStep == SInv /\ GInv /\ [SweepNext]_allVars => SInv' /\ GInv'
<1> SUFFICES ASSUME SInv, GInv, [SweepNext]_allVars PROVE SInv' /\ GInv'
  OBVIOUS
<1>0. TInv /\ ExtractsOK /\ Progress /\ Alone /\ Records
  BY DEF SInv
<1>1. ASSUME [Next]_vars PROVE SInv'
  <2>1. server => Records'
    BY <1>1, ServerStays DEF Records
  <2>. QED
    BY <1>0, <1>1, <2>1, StepTypes, StepExtracts, StepProgress, StepAlone, StepRecords DEF SInv
<1>2. CASE StoreStep
  BY <1>0, <1>1, <1>2, StoreStepSweep DEF StoreStep
<1>3. CASE SweepStep
  BY <1>0, <1>3, SweepTakes, SweepKeepsTypes, SweepKeepsProgress, SweepRecords, SweepStepSweep
  DEF SInv
<1>4. CASE UNCHANGED allVars
  <2>1. UNCHANGED <<vars, entities, sweepVars, failed>>
    BY <1>4 DEF allVars
  <2>2. GInv'
    BY <2>1 DEF vars, store, pass, sweepVars, GInv, SweepTypes, Attended, Sweep, OrphansBare,
       SpentUncited, Left, Touching, Stored
  <2>. QED
    BY <1>1, <2>1, <2>2
<1>. QED
  BY <1>2, <1>3, <1>4 DEF SweepNext

LEMMA SweepInvariant == SweepSpec => [](SInv /\ GInv)
BY SweepInitInv, SweepInvStep, PTL DEF SweepSpec

\* A marker that was right stays right with a sweep deleting rows meanwhile, the
\* rows keep their shape, and what was recorded on an edge the sweep leaves
\* counts as evidence still.
THEOREM SweptStoreSound == SweepSpec => [](TypeOK /\ MarkerIsHonest /\ ApartKept)
<1>1. SInv /\ GInv => TypeOK /\ MarkerIsHonest /\ ApartKept
  BY DEF SInv, TInv, Progress, Records, NotedOn, ApartKept, Stored
<1>. QED
  BY <1>1, SweepInvariant, PTL

---------------------------------------------------------------------------
(* What a step of the composition may never do.                             *)

LEMMA SweepOpens ==
  ASSUME SInv, GInv, [SweepNext]_allVars, NEW p \in Processes,
         trusted, pc[p] # "open", pc'[p] = "open"
  PROVE  Bare' = {} /\ Unflagged' = {}
<1>1. SweepStep => UNCHANGED pc
  BY AttendedStays DEF SInv
<1>2. [Next]_vars
  BY <1>1 DEF SweepNext, StoreStep, allVars
<1>. QED
  BY <1>2, StepOpens DEF SInv

\* No open succeeds over a half-migrated store, whatever a sweep takes from it.
THEOREM SweptOpensOnWhole == SweepSpec => OpensOnWhole
<1>1. SInv /\ GInv /\ [SweepNext]_allVars
        => [\A p \in Processes :
              trusted /\ pc[p] # "open" /\ pc'[p] = "open" => Bare' = {} /\ Unflagged' = {}]_vars
  BY SweepOpens
<1>. QED
  BY <1>1, SweepInvariant, PTL DEF SweepSpec, OpensOnWhole

LEMMA SweepFills ==
  ASSUME SInv, GInv, [SweepNext]_allVars, ~server
  PROVE  OnlyFills
<1>1. CASE SweepStep
  BY <1>1, SweepRecords
<1>2. CASE [Next]_vars
  BY <1>2, StepRecords DEF SInv
<1>. QED
  BY <1>1, <1>2 DEF SweepNext, StoreStep, allVars

\* In an embedded store a sweep moves no count either, and of an extracted
\* archive it only takes the whole episode.
THEOREM SweptFillsOnly == SweepSpec => BackfillsOnlyFillAlone
<1>1. SInv /\ GInv /\ [SweepNext]_allVars => [~server => OnlyFills]_vars
  BY SweepFills
<1>. QED
  BY <1>1, SweepInvariant, PTL DEF SweepSpec, BackfillsOnlyFillAlone

LEMMA SweepVersion ==
  ASSUME SInv, GInv, [SweepNext]_allVars
  PROVE  /\ marker' >= marker \/ marker' = 0
         /\ ~server /\ marker = Newer => UNCHANGED store
<1>0. marker \in 0..3
  BY DEF SInv, TInv, TypeOK, Newer
<1>1. CASE SweepStep
  <2>1. UNCHANGED marker
    BY <1>1, SweepTakes DEF RowsGo, rest, SInv
  <2>2. CASE \E p \in Sweepers : pc[p] = "open"
    <3>1. ~(~server /\ marker = Newer)
      BY <2>2, SweepConstantsOK DEF SInv, Alone
    <3>. QED
      BY <1>0, <2>1, <3>1
  <2>3. CASE \A p \in Sweepers : pc[p] # "open"
    BY <1>1, <2>3 DEF GInv, Attended, SweepStep, ReadEdges, JudgeEntities, JudgeEpisodes,
       DeleteEdge, DeleteItsEdges, DeleteEntity, DeleteEpisode, EndSweep
  <2>. QED
    BY <2>2, <2>3
<1>2. CASE [Next]_vars
  BY <1>2, StepVersion DEF SInv
<1>. QED
  BY <1>1, <1>2 DEF SweepNext, StoreStep, allVars

\* What a newer build has written in an embedded store no sweep takes.
THEOREM SweptVersionRespected == SweepSpec => VersionRespected
<1>1. SInv /\ GInv /\ [SweepNext]_allVars
        => [/\ marker' >= marker \/ marker' = 0
            /\ ~server /\ marker = Newer => UNCHANGED store]_vars
  BY SweepVersion
<1>. QED
  BY <1>1, SweepInvariant, PTL DEF SweepSpec, VersionRespected

LEMMA StepTakesWeak ==
  ASSUME SInv, GInv, [SweepNext]_allVars
  PROVE  TakesWeak(~server)
<1> SUFFICES ASSUME ~server, Deletes, NEW e \in Stored, edges'[e].is = "gone"
             PROVE  e \in condemned
  BY DEF TakesWeak
<1>1. ~UNCHANGED sweepVars /\ ~NoSweep
  BY DEF Deletes, sweepVars, NoSweep
<1>2. e \in Edges /\ edges[e].is # "gone" /\ doomed \subseteq condemned
  BY DEF Stored, GInv, SweepTypes
<1>3. ASSUME NEW f \in Edges, DeleteEdge(f) PROVE e \in condemned
  <2>1. edges'[e] = edges[e] \/ e = f
    BY <1>2, <1>3, DropTakes DEF DeleteEdge
  <2>. QED
    BY <1>2, <1>3, <2>1 DEF DeleteEdge
<1>4. ASSUME NEW x \in Entities, DeleteItsEdges(x) PROVE e \in condemned
  <2>1. edges'[e] = edges[e] \/ e \in Touching(x)
    BY <1>2, <1>4, DropTakes DEF DeleteItsEdges
  <2>2. Touching(x) \subseteq condemned
    BY <1>4 DEF DeleteItsEdges, GInv, Sweep, OrphansBare
  <2>. QED
    BY <1>2, <2>1, <2>2
<1>5. CASE UNCHANGED edges
  BY <1>2, <1>5
<1>. QED
  BY <1>1, <1>3, <1>4, <1>5
  DEF SweepNext, StoreStep, SweepStep, ReadEdges, JudgeEntities, JudgeEpisodes, DeleteEntity,
      DeleteEpisode, EndSweep, allVars, vars, store, sweepVars

\* A sweep of an embedded store takes no edge but those it found weak when it
\* read them: none goes along with an entity.
THEOREM SweepTakesOnlyWeak == SweepSpec => OnlyWeakGo
<1>1. SInv /\ GInv /\ [SweepNext]_allVars => [TakesWeak(~server)]_allVars
  BY StepTakesWeak
<1>. QED
  BY <1>1, SweepInvariant, PTL DEF SweepSpec, OnlyWeakGo

LEMMA StepCitedStay ==
  ASSUME SInv, GInv, [SweepNext]_allVars
  PROVE  CitedStay(~server /\ ~failed')
<1> SUFFICES ASSUME ~server, ~failed', NEW n \in Existing, flags'[n] = "gone",
                    NEW r \in Edges \cup Entities, Cites(r, n)'
             PROVE  FALSE
  BY DEF CitedStay
<1>1. n \in Episodes /\ flags[n] # "gone"
  BY DEF Existing
<1>2. CASE [Next]_vars
  BY <1>1, <1>2, OnlySweepsTake DEF SInv, vars, store
<1>3. ASSUME NEW m \in Episodes, DeleteEpisode(m) PROVE FALSE
  <2>1. m = n /\ n \in spent
    BY <1>1, <1>3 DEF DeleteEpisode, SInv, TInv, TypeOK
  <2>2. ~failed /\ doomed = {} /\ orphans = {} /\ halved = None /\ phase = "delete"
        /\ UNCHANGED <<edges, entities>>
    BY <1>3 DEF DeleteEpisode
  <2>3. r \in Stored \cup entities /\ Source[r] = LogOf[n]
    BY <2>2 DEF Cites, Stored
  <2>4. r \in Left
    BY <2>2, <2>3, SweepConstantsOK DEF Left, GInv, SweepTypes
  <2>. QED
    BY <2>1, <2>2, <2>3, <2>4 DEF GInv, Sweep, SpentUncited
<1>4. CASE SweepStep /\ UNCHANGED flags
  BY <1>1, <1>4
<1>. QED
  BY <1>2, <1>3, <1>4
  DEF SweepNext, StoreStep, SweepStep, ReadEdges, JudgeEntities, JudgeEpisodes, DeleteEdge,
      DeleteItsEdges, DeleteEntity, EndSweep, allVars, vars, store

\* While no deletion has failed, an episode of an embedded store is collected only
\* when no edge or entity that is left cites its archive.
THEOREM SweepKeepsCited == SweepSpec => CitedEpisodesStayUnfailed
<1>1. SInv /\ GInv /\ [SweepNext]_allVars => [CitedStay(~server /\ ~failed')]_allVars
  BY StepCitedStay
<1>. QED
  BY <1>1, SweepInvariant, PTL DEF SweepSpec, CitedEpisodesStayUnfailed

=============================================================================
