------------------------ MODULE StoreMigrationProofs ------------------------
(***************************************************************************)
(* Theorems about StoreMigration for every set of processes, clients, rows *)
(* and stores to start from.                                               *)
(***************************************************************************)
EXTENDS StoreMigration, FiniteSetTheorems, TLAPS

\* What a pass has selected, by where it is.
BatchOK ==
  \A p \in Processes :
    /\ pc[p] = "derive" => batch[p] \subseteq Edges
    /\ pc[p] = "flag" => batch[p] \subseteq Episodes

TInv == TypeOK /\ BatchOK

\* Whoever has read an edge to write it is working on an archive.
ExtractsOK == \A c \in Workers : \A e \in Edges : held[c][e] # None => log[c] \in Logs

USE DEF SCHEMA_VERSION, Newer

LEMMA DerivedType == \A x \in Edge : Derived(x) \in Edge
  BY DEF Derived, Edge

LEMMA RaisedType == \A m \in 0..Newer : Raised(m) \in 0..Newer
  BY DEF Raised

\* A process that ends keeps its types, whatever the bounds do.
LEMMA GoneTypes ==
  ASSUME TInv, NEW p \in Processes, Gone(p),
         troubles' \in 0..MaxTroubles, forces' \in 0..MaxForces
  PROVE  TInv'
<1>1. None \in Logs \cup {None} /\ [e \in Edges |-> None] \in [Edges -> Edge \cup {None}]
  OBVIOUS
<1>. QED
  BY <1>1, ConstantsOK DEF TInv, TypeOK, BatchOK, Gone, store, observed, Clients

\* One process goes somewhere else with another selection.
LEMMA BatchFrame ==
  ASSUME TInv, NEW p \in Processes, NEW S, NEW place,
         batch' = [batch EXCEPT ![p] = S], pc' = [pc EXCEPT ![p] = place],
         S \in (SUBSET Edges) \cup (SUBSET Episodes),
         place = "derive" => S \subseteq Edges, place = "flag" => S \subseteq Episodes
  PROVE  /\ batch' \in [Processes -> (SUBSET Edges) \cup (SUBSET Episodes)]
         /\ BatchOK'
<1>1. batch \in [Processes -> (SUBSET Edges) \cup (SUBSET Episodes)] /\ DOMAIN pc = Processes
  BY DEF TInv, TypeOK
<1>2. batch' \in [Processes -> (SUBSET Edges) \cup (SUBSET Episodes)]
  BY <1>1
<1>3. BatchOK'
  <2> SUFFICES ASSUME NEW q \in Processes
               PROVE  /\ pc'[q] = "derive" => batch'[q] \subseteq Edges
                      /\ pc'[q] = "flag" => batch'[q] \subseteq Episodes
    BY DEF BatchOK
  <2>1. CASE q = p
    BY <1>1, <2>1
  <2>2. CASE q # p
    BY <1>1, <2>2 DEF TInv, BatchOK
  <2>. QED
    BY <2>1, <2>2
<1>. QED
  BY <1>2, <1>3

LEMMA InitTypes == Init => TInv
<1> SUFFICES ASSUME NEW s \in States, InitFrom(s) PROVE TInv
  BY DEF Init
<1>1. /\ s.server \in BOOLEAN /\ s.marker \in 0..2 /\ s.forces \in 0..MaxForces
  BY ConstantsOK
<1>2. edges \in [Edges -> Edge]
  BY DEF InitFrom, Edge
<1>3. flags \in [Episodes -> {"missing", "absent", "no", "yes", "gone"}]
  BY DEF InitFrom
<1>4. trusted \in BOOLEAN
  BY DEF InitFrom, Honest
<1>. QED
  BY <1>1, <1>2, <1>3, <1>4, ConstantsOK DEF InitFrom, TInv, TypeOK, BatchOK

LEMMA MigrateTypes ==
  ASSUME TInv, NEW p \in Processes, Migrates(p)
  PROVE  TInv'
<1>1. CASE CheckVersion(p)
  BY <1>1 DEF CheckVersion, TInv, TypeOK, BatchOK, store, work, observed, bounds
<1>2. CASE RefuseNewer(p)
  BY <1>2, GoneTypes DEF RefuseNewer, bounds, TInv, TypeOK
<1>3. CASE ReadVersion(p)
  <2>1. marker \in 0..3
    BY DEF TInv, TypeOK
  <2>2. pc'[p] \in {"open", "count", "edges"} /\ tries' \in [Processes -> 0..Retries]
    BY <1>3, <2>1, ConstantsOK DEF ReadVersion, TInv, TypeOK
  <2>. QED
    BY <1>3, <2>2 DEF ReadVersion, TInv, TypeOK, BatchOK, store, work, observed, bounds
<1>4. CASE SelectEdges(p)
  <2>1. Bare \subseteq Edges
    BY DEF Bare
  <2>2. batch' = [batch EXCEPT ![p] = Bare] /\ pc' = [pc EXCEPT ![p] = "derive"]
    BY <1>4 DEF SelectEdges
  <2>3. batch' \in [Processes -> (SUBSET Edges) \cup (SUBSET Episodes)]
    BY <2>1, <2>2, BatchFrame
  <2>4. BatchOK'
    BY <2>1, <2>2, BatchFrame
  <2>. QED
    BY <1>4, <2>3, <2>4 DEF SelectEdges, TInv, TypeOK, store, work, observed, bounds
<1>5. CASE DeriveEvidence(p)
  BY <1>5, DerivedType DEF DeriveEvidence, TInv, TypeOK, BatchOK, work, observed, bounds
<1>6. CASE CountAbsent(p)
  <2>1. Cardinality(Unflagged) \in Nat
    BY ConstantsOK, FS_Subset, FS_CardinalityType DEF Unflagged
  <2>. QED
    BY <1>6, <2>1 DEF CountAbsent, TInv, TypeOK, BatchOK, store, work, observed, bounds
<1>7. CASE SelectBatch(p)
  <2>0. PICK chosen \in SUBSET Unflagged : batch' = [batch EXCEPT ![p] = chosen]
    BY <1>7 DEF SelectBatch
  <2>1. chosen \subseteq Episodes /\ chosen \in (SUBSET Edges) \cup (SUBSET Episodes)
    BY DEF Unflagged
  <2>2. pc' = [pc EXCEPT ![p] = "flag"]
    BY <1>7 DEF SelectBatch
  <2>3. batch' \in [Processes -> (SUBSET Edges) \cup (SUBSET Episodes)]
    BY <2>0, <2>1, <2>2, BatchFrame
  <2>4. BatchOK'
    BY <2>0, <2>1, <2>2, BatchFrame
  <2>. QED
    BY <1>7, <2>3, <2>4 DEF SelectBatch, TInv, TypeOK, store, work, observed, bounds
<1>8. CASE FlagBatch(p)
  <2>1. Cardinality(batch[p]) \in Nat
    BY <1>8, ConstantsOK, FS_Subset, FS_CardinalityType DEF FlagBatch, TInv, BatchOK
  <2>. QED
    BY <1>8, <2>1 DEF FlagBatch, TInv, TypeOK, BatchOK, work, observed, bounds
<1>9. CASE Recount(p)
  <2>1. CASE Unflagged = {}
    <3>1. pc' = [pc EXCEPT ![p] = "mark"] /\ UNCHANGED batch
      BY <1>9, <2>1 DEF Recount
    <3>2. pc' \in [Processes -> {"closed", "opening", "migrate", "edges", "derive", "count",
                                 "select", "flag", "recount", "mark", "open"}]
      BY <3>1 DEF TInv, TypeOK
    <3>3. outstanding' \in [Processes -> Nat] /\ done' \in [Processes -> Nat]
      BY <1>9, <2>1 DEF Recount, TInv, TypeOK
    <3>4. TypeOK'
      BY <1>9, <2>1, <3>2, <3>3 DEF Recount, TInv, TypeOK, store, work, observed, bounds
    <3>5. BatchOK'
      BY <3>1 DEF TInv, TypeOK, BatchOK
    <3>. QED
      BY <3>4, <3>5 DEF TInv
  <2>2. CASE Unflagged # {}
    BY <1>9, <2>2, GoneTypes DEF Recount, bounds, TInv, TypeOK
  <2>. QED
    BY <2>1, <2>2
<1>10. CASE WriteMarker(p)
  BY <1>10, RaisedType, ConstantsOK
  DEF WriteMarker, TInv, TypeOK, BatchOK, work, observed, bounds
<1>. QED
  BY <1>1, <1>2, <1>3, <1>4, <1>5, <1>6, <1>7, <1>8, <1>9, <1>10 DEF Migrates

LEMMA ProcessTypes ==
  ASSUME TInv, NEW p \in Processes,
         Open(p) \/ Conflict(p) \/ Breaks(p) \/ Close(p) \/ ForceMigrate(p)
  PROVE  TInv'
<1>0. troubles \in 0..MaxTroubles /\ forces \in 0..MaxForces
  BY DEF TInv, TypeOK
<1>1. CASE Open(p)
  BY <1>1 DEF Open, TInv, TypeOK, BatchOK, store, work, observed, bounds
<1>2. CASE Conflict(p)
  <2>0. troubles' \in 0..MaxTroubles /\ forces' \in 0..MaxForces
    BY <1>0, <1>2, ConstantsOK DEF Conflict, Trouble
  <2>1. CASE MayRetry(p)
    <3>1. tries[p] + 1 \in 0..Retries
      BY <2>1, ConstantsOK DEF MayRetry, TInv, TypeOK
    <3>2. batch' = [batch EXCEPT ![p] = {}] /\ pc' = [pc EXCEPT ![p] = "migrate"]
      BY <1>2, <2>1 DEF Conflict
    <3>3. batch' \in [Processes -> (SUBSET Edges) \cup (SUBSET Episodes)]
      BY <3>2, BatchFrame
    <3>4. BatchOK'
      BY <3>2, BatchFrame
    <3>5. tries' \in [Processes -> 0..Retries]
      BY <1>2, <2>1, <3>1 DEF Conflict, TInv, TypeOK
    <3>6. outstanding' \in [Processes -> Nat] /\ done' \in [Processes -> Nat]
      BY <1>2, <2>1 DEF Conflict, TInv, TypeOK
    <3>7. pc' \in [Processes -> {"closed", "opening", "migrate", "edges", "derive", "count",
                                 "select", "flag", "recount", "mark", "open"}]
      BY <3>2 DEF TInv, TypeOK
    <3>8. UNCHANGED <<store, work, observed>>
      BY <1>2, <2>1 DEF Conflict
    <3>. QED
      BY <2>0, <3>3, <3>4, <3>5, <3>6, <3>7, <3>8 DEF TInv, TypeOK, store, work, observed
  <2>2. CASE ~MayRetry(p)
    BY <1>2, <2>0, <2>2, GoneTypes DEF Conflict
  <2>. QED
    BY <2>1, <2>2
<1>3. CASE Breaks(p)
  <2>1. troubles' \in 0..MaxTroubles /\ forces' \in 0..MaxForces
    BY <1>0, <1>3, ConstantsOK DEF Breaks, Trouble
  <2>. QED
    BY <1>3, <2>1, GoneTypes DEF Breaks
<1>4. CASE Close(p)
  BY <1>0, <1>4, GoneTypes DEF Close, bounds
<1>5. CASE ForceMigrate(p)
  <2>1. forces' \in 0..MaxForces
    BY <1>0, <1>5, ConstantsOK DEF ForceMigrate
  <2>2. marker' \in 0..Newer /\ trusted' \in BOOLEAN
    BY <1>5 DEF ForceMigrate, TInv, TypeOK
  <2>. QED
    BY <1>5, <2>1, <2>2 DEF ForceMigrate, TInv, TypeOK, BatchOK, work
<1>. QED
  BY <1>1, <1>2, <1>3, <1>4, <1>5

\* What a client does leaves every pass where it is.
LEMMA ClientFrame ==
  ASSUME TInv, NEW c \in Clients, Works(c)
  PROVE  /\ UNCHANGED <<pass, server, marker, trusted, forces>>
         /\ troubles' \in 0..MaxTroubles /\ forces' \in 0..MaxForces
         /\ BatchOK'
<1>1. UNCHANGED <<pass, server, marker, trusted, forces>>
  BY DEF Works, TakeLog, MarkLog, Correct, ObservationFails, FindEdge, AddEdge, Forget,
         RecordObservation, store, observed, bounds
<1>2. troubles' \in 0..MaxTroubles
  BY ConstantsOK DEF Works, TakeLog, MarkLog, Correct, ObservationFails, FindEdge, AddEdge,
         Forget, RecordObservation, bounds, Trouble, TInv, TypeOK
<1>3. BatchOK'
  BY <1>1 DEF pass, TInv, BatchOK
<1>. QED
  BY <1>1, <1>2, <1>3 DEF TInv, TypeOK

\* A client whose edges and archive keep their types keeps everything else's.
LEMMA ClientRest ==
  ASSUME TInv, NEW c \in Clients, Works(c),
         edges' \in [Edges -> Edge],
         flags' \in [Episodes -> {"missing", "absent", "no", "yes", "gone"}],
         held' \in [Clients -> [Edges -> Edge \cup {None}]],
         log' \in [Clients -> Logs \cup {None}],
         noted' \in [Edges -> SUBSET Notes], crossed' \in SUBSET Edges
  PROVE  TInv'
<1>1. /\ UNCHANGED <<pass, server, marker, trusted, forces>>
      /\ troubles' \in 0..MaxTroubles /\ forces' \in 0..MaxForces
      /\ BatchOK'
  BY ClientFrame
<1>. QED
  BY <1>1 DEF TInv, TypeOK, pass

LEMMA RecordTypes ==
  ASSUME TInv, NEW c \in Clients, NEW e \in Edges, NEW note \in Notes,
         RecordObservation(c, e, note)
  PROVE  /\ edges' \in [Edges -> Edge]
         /\ held' \in [Clients -> [Edges -> Edge \cup {None}]]
         /\ noted' \in [Edges -> SUBSET Notes] /\ crossed' \in SUBSET Edges
<1>1. held \in [Clients -> [Edges -> Edge \cup {None}]] /\ held[c][e] \in Edge
  BY DEF RecordObservation, TInv, TypeOK
<1>2. Folded(held[c][e], note) \in Edge
  BY <1>1 DEF Folded, Edge
<1>3. edges' \in [Edges -> Edge]
  BY <1>2 DEF RecordObservation, TInv, TypeOK
<1>4. held' = [held EXCEPT ![c] = [held[c] EXCEPT ![e] = None]]
  BY DEF RecordObservation
<1>5. [held[c] EXCEPT ![e] = None] \in [Edges -> Edge \cup {None}]
  BY <1>1
<1>6. held' \in [Clients -> [Edges -> Edge \cup {None}]]
  BY <1>1, <1>4, <1>5
<1>. QED
  BY <1>3, <1>6 DEF RecordObservation, TInv, TypeOK

LEMMA ClientTypes ==
  ASSUME TInv, ExtractsOK, NEW c \in Clients, Works(c)
  PROVE  TInv'
<1>1. CASE TakeLog(c)
  BY <1>1, ClientRest DEF TakeLog, Waiting, TInv, TypeOK, store, observed
<1>2. CASE MarkLog(c)
  BY <1>2, ClientRest DEF MarkLog, TInv, TypeOK, observed
<1>3. CASE Correct(c)
  <2>1. PICK claims \in SUBSET Stored :
          held' = [held EXCEPT ![c] = [e \in Edges |-> IF e \in claims THEN edges[e] ELSE None]]
    BY <1>3 DEF Correct
  <2>2. [e \in Edges |-> IF e \in claims THEN edges[e] ELSE None]
          \in [Edges -> Edge \cup {None}]
    BY DEF TInv, TypeOK
  <2>3. held' \in [Clients -> [Edges -> Edge \cup {None}]]
    BY <2>1, <2>2 DEF TInv, TypeOK
  <2>. QED
    BY <1>3, <2>3, ClientRest DEF Correct, TInv, TypeOK, store, observed
<1>4. CASE ObservationFails(c)
  <2>1. [e \in Edges |-> None] \in [Edges -> Edge \cup {None}]
    OBVIOUS
  <2>2. held' \in [Clients -> [Edges -> Edge \cup {None}]]
    BY <1>4, <2>1 DEF ObservationFails, TInv, TypeOK
  <2>. QED
    BY <1>4, <2>2, ClientRest DEF ObservationFails, TInv, TypeOK, store, observed
<1>5. ASSUME NEW e \in Edges, FindEdge(c, e) PROVE TInv'
  <2>1. held' = [held EXCEPT ![c] = [held[c] EXCEPT ![e] = edges[e]]]
    BY <1>5 DEF FindEdge
  <2>2. [held[c] EXCEPT ![e] = edges[e]] \in [Edges -> Edge \cup {None}]
    BY DEF TInv, TypeOK
  <2>3. held' \in [Clients -> [Edges -> Edge \cup {None}]]
    BY <2>1, <2>2 DEF TInv, TypeOK
  <2>. QED
    BY <1>5, <2>3, ClientRest DEF FindEdge, TInv, TypeOK, store, observed
<1>6. ASSUME NEW e \in Edges, AddEdge(c, e) PROVE TInv'
  <2>1. NewEdge \in Edge
    BY DEF NewEdge, Edge
  <2>. QED
    BY <1>6, <2>1, ClientRest DEF AddEdge, TInv, TypeOK, work, observed
<1>7. ASSUME NEW e \in Edges, Forget(c, e) PROVE TInv'
  <2>1. Forgotten \in Edge
    BY DEF Forgotten, Edge
  <2>. QED
    BY <1>7, <2>1, ClientRest DEF Forget, TInv, TypeOK, work
<1>8. ASSUME NEW e \in Edges, NEW note \in Notes, RecordObservation(c, e, note) PROVE TInv'
  <2>1. UNCHANGED <<flags, log>>
    BY <1>8 DEF RecordObservation
  <2>. QED
    BY <1>8, <2>1, RecordTypes, ClientRest DEF TInv, TypeOK
<1>9. ASSUME NEW e \in Edges, c \in Workers, RecordObservation(c, e, log[c]) PROVE TInv'
  <2>1. log[c] \in Notes
    BY <1>9 DEF RecordObservation, ExtractsOK, Notes
  <2>. QED
    BY <1>8, <1>9, <2>1
<1>. QED
  BY <1>1, <1>2, <1>3, <1>4, <1>5, <1>6, <1>7, <1>8, <1>9 DEF Works, Notes, Clients

LEMMA StutterTypes ==
  ASSUME TInv, UNCHANGED vars
  PROVE  TInv'
BY DEF TInv, TypeOK, BatchOK, vars, store, pass, work, observed, bounds

LEMMA StepTypes ==
  ASSUME TInv, ExtractsOK, [Next]_vars
  PROVE  TInv'
<1>1. ASSUME NEW n \in Episodes, Ingest(n) PROVE TInv'
  BY <1>1 DEF Ingest, TInv, TypeOK, BatchOK, pass, work, observed, bounds
<1>2. CASE NewerBuild
  BY <1>2 DEF NewerBuild, TInv, TypeOK, BatchOK, pass, work, observed, bounds
<1>. QED
  BY <1>1, <1>2, MigrateTypes, ProcessTypes, ClientTypes, StutterTypes DEF Next

\* What a process does to the work of its clients: nothing, or its end.
LEMMA ProcessWork ==
  ASSUME NEW p \in Processes,
         Open(p) \/ Migrates(p) \/ Conflict(p) \/ Breaks(p) \/ Close(p) \/ ForceMigrate(p)
  PROVE  UNCHANGED work \/ Gone(p)
BY DEF Open, Migrates, CheckVersion, RefuseNewer, ReadVersion, SelectEdges, DeriveEvidence,
       CountAbsent, SelectBatch, FlagBatch, Recount, WriteMarker, Conflict, Breaks, Close,
       ForceMigrate

LEMMA StepExtracts ==
  ASSUME TInv, ExtractsOK, [Next]_vars
  PROVE  ExtractsOK'
<1>1. CASE UNCHANGED work
  BY <1>1 DEF work, ExtractsOK
<1>2. ASSUME NEW p \in Processes, Gone(p) PROVE ExtractsOK'
  BY <1>2 DEF Gone, ExtractsOK, Clients
<1>3. ASSUME NEW c \in Clients, Works(c) PROVE ExtractsOK'
  <2>1. CASE TakeLog(c) \/ MarkLog(c)
    BY <2>1 DEF TakeLog, MarkLog, Waiting, ExtractsOK, TInv, TypeOK, Clients
  <2>2. CASE Correct(c) \/ ObservationFails(c)
    <3>1. c \in Users \/ \A e \in Edges : held'[c][e] = None
      BY <2>2 DEF Correct, ObservationFails, TInv, TypeOK
    <3>2. \A d \in Clients \ {c} : held'[d] = held[d]
      BY <2>2 DEF Correct, ObservationFails, TInv, TypeOK
    <3>. QED
      BY <2>2, <3>1, <3>2, ConstantsOK
      DEF Correct, ObservationFails, ExtractsOK, Clients
  <2>3. ASSUME NEW e \in Edges, FindEdge(c, e) PROVE ExtractsOK'
    <3>1. log[c] \in Logs /\ \A d \in Clients \ {c} : held'[d] = held[d]
      BY <2>3 DEF FindEdge, TInv, TypeOK
    <3>. QED
      BY <2>3, <3>1 DEF FindEdge, ExtractsOK, Clients
  <2>4. ASSUME NEW e \in Edges, NEW note, RecordObservation(c, e, note) PROVE ExtractsOK'
    <3>1. \A d \in Clients : \A f \in Edges : held'[d][f] # None => held'[d][f] = held[d][f]
      BY <2>4 DEF RecordObservation, TInv, TypeOK
    <3>. QED
      BY <2>4, <3>1 DEF RecordObservation, ExtractsOK, Clients
  <2>5. ASSUME NEW e \in Edges, AddEdge(c, e) \/ Forget(c, e) PROVE ExtractsOK'
    BY <2>5, <1>1 DEF AddEdge, Forget
  <2>. QED
    BY <1>3, <2>1, <2>2, <2>3, <2>4, <2>5 DEF Works
<1>4. ASSUME NEW n \in Episodes, Ingest(n) PROVE ExtractsOK'
  BY <1>1, <1>4 DEF Ingest
<1>5. CASE NewerBuild
  BY <1>1, <1>5 DEF NewerBuild
<1>6. CASE UNCHANGED vars
  BY <1>1, <1>6 DEF vars
<1>. QED
  BY <1>1, <1>2, <1>3, <1>4, <1>5, <1>6, ProcessWork DEF Next

LEMMA InitExtracts == Init => ExtractsOK
BY DEF Init, InitFrom, ExtractsOK, Clients

\* The types, with what each pass has selected and each worker is working on.
THEOREM TypeInvariant == Spec => [](TypeOK /\ BatchOK /\ ExtractsOK)
<1>1. TInv /\ ExtractsOK /\ [Next]_vars => TInv' /\ ExtractsOK'
  BY StepTypes, StepExtracts
<1>. QED
  BY <1>1, InitTypes, InitExtracts, PTL DEF Spec, TInv

---------------------------------------------------------------------------
(* What a pass has brought about by the time it is somewhere. *)

Later == {"count", "select", "flag", "recount", "mark"}
Reached(p) ==
  /\ trusted /\ pc[p] \in Later => Bare = {}
  /\ trusted /\ pc[p] = "mark" => Unflagged = {}
  /\ pc[p] = "derive" => Bare \subseteq batch[p]
Progress == MarkerIsHonest /\ \A p \in Processes : Reached(p)

\* Nobody takes a value back once a row has it.
LEMMA EdgesFilled ==
  ASSUME TInv, [Next]_vars
  PROVE  Bare' \subseteq Bare
<1>1. CASE UNCHANGED edges
  BY <1>1 DEF Bare
<1>2. ASSUME NEW p \in Processes, DeriveEvidence(p) PROVE Bare' \subseteq Bare
  BY <1>2 DEF DeriveEvidence, Derived, Bare
<1>3. ASSUME NEW c \in Clients, NEW e \in Edges, NEW note, RecordObservation(c, e, note)
      PROVE  Bare' \subseteq Bare
  BY <1>3 DEF RecordObservation, Folded, Bare, TInv, TypeOK
<1>4. ASSUME NEW c \in Clients, NEW e \in Edges, AddEdge(c, e) \/ Forget(c, e)
      PROVE  Bare' \subseteq Bare
  BY <1>4 DEF AddEdge, Forget, NewEdge, Forgotten, Bare, TInv, TypeOK
<1>5. ASSUME NEW c \in Clients, Works(c) PROVE Bare' \subseteq Bare
  BY <1>5, <1>1, <1>3, <1>4
  DEF Works, TakeLog, MarkLog, Correct, ObservationFails, FindEdge, store
<1>6. ASSUME NEW p \in Processes, Migrates(p) PROVE Bare' \subseteq Bare
  BY <1>6, <1>1, <1>2
  DEF Migrates, CheckVersion, RefuseNewer, ReadVersion, SelectEdges, CountAbsent,
      SelectBatch, FlagBatch, Recount, WriteMarker, Gone, store
<1>7. ASSUME NEW p \in Processes,
             Open(p) \/ Conflict(p) \/ Breaks(p) \/ Close(p) \/ ForceMigrate(p)
      PROVE  Bare' \subseteq Bare
  BY <1>7, <1>1 DEF Open, Conflict, Breaks, Close, ForceMigrate, Gone, store
<1>. QED
  BY <1>1, <1>5, <1>6, <1>7 DEF Next, Ingest, NewerBuild, vars, store

LEMMA FlagsFilled ==
  ASSUME TInv, [Next]_vars
  PROVE  Unflagged' \subseteq Unflagged
<1>1. CASE UNCHANGED flags
  BY <1>1 DEF Unflagged
<1>2. ASSUME NEW p \in Processes, FlagBatch(p) PROVE Unflagged' \subseteq Unflagged
  BY <1>2 DEF FlagBatch, Unflagged
<1>3. ASSUME NEW c \in Clients, MarkLog(c) PROVE Unflagged' \subseteq Unflagged
  BY <1>3 DEF MarkLog, Unflagged
<1>4. ASSUME NEW n \in Episodes, Ingest(n) PROVE Unflagged' \subseteq Unflagged
  BY <1>4 DEF Ingest, Unflagged, TInv, TypeOK
<1>5. ASSUME NEW c \in Clients, Works(c) PROVE Unflagged' \subseteq Unflagged
  BY <1>5, <1>1, <1>3
  DEF Works, TakeLog, Correct, ObservationFails, FindEdge, AddEdge, Forget,
      RecordObservation, store
<1>6. ASSUME NEW p \in Processes, Migrates(p) PROVE Unflagged' \subseteq Unflagged
  BY <1>6, <1>1, <1>2
  DEF Migrates, CheckVersion, RefuseNewer, ReadVersion, SelectEdges, DeriveEvidence,
      CountAbsent, SelectBatch, Recount, WriteMarker, Gone, store
<1>7. ASSUME NEW p \in Processes,
             Open(p) \/ Conflict(p) \/ Breaks(p) \/ Close(p) \/ ForceMigrate(p)
      PROVE  Unflagged' \subseteq Unflagged
  BY <1>7, <1>1 DEF Open, Conflict, Breaks, Close, ForceMigrate, Gone, store
<1>. QED
  BY <1>1, <1>4, <1>5, <1>6, <1>7 DEF Next, NewerBuild, vars, store

\* A process that takes a step leaves every other where it is.
LEMMA OthersStay ==
  ASSUME TInv, NEW p \in Processes,
         Open(p) \/ Migrates(p) \/ Conflict(p) \/ Breaks(p) \/ Close(p) \/ ForceMigrate(p),
         NEW q \in Processes, q # p
  PROVE  pc'[q] = pc[q] /\ batch'[q] = batch[q]
<1>1. CASE Migrates(p)
  BY <1>1 DEF TInv, TypeOK, Migrates, CheckVersion, RefuseNewer, ReadVersion, SelectEdges,
       DeriveEvidence, CountAbsent, SelectBatch, FlagBatch, Recount, WriteMarker, Gone
<1>2. CASE Open(p) \/ Conflict(p) \/ Breaks(p) \/ Close(p) \/ ForceMigrate(p)
  BY <1>2 DEF TInv, TypeOK, Open, Conflict, Breaks, Close, ForceMigrate, Gone
<1>. QED
  BY <1>1, <1>2

\* A step that leaves the passes alone, and raises the marker only truthfully.
LEMMA ElsewhereProgress ==
  ASSUME TInv, Progress, [Next]_vars, UNCHANGED <<pc, batch, trusted>>,
         UNCHANGED marker \/ (Bare = {} /\ Unflagged = {})
  PROVE  Progress'
BY EdgesFilled, FlagsFilled DEF Progress, MarkerIsHonest, Honest, Reached

\* The step of one process: its own part, and an honest marker, are left to show.
LEMMA OwnProgress ==
  ASSUME TInv, Progress, [Next]_vars, NEW p \in Processes,
         Open(p) \/ Migrates(p) \/ Conflict(p) \/ Breaks(p) \/ Close(p),
         UNCHANGED trusted, MarkerIsHonest', Reached(p)'
  PROVE  Progress'
<1>1. ASSUME NEW q \in Processes, q # p PROVE Reached(q)'
  <2>1. pc'[q] = pc[q] /\ batch'[q] = batch[q]
    BY <1>1, OthersStay
  <2>. QED
    BY <2>1, EdgesFilled, FlagsFilled DEF Progress, Reached
<1>. QED
  BY <1>1 DEF Progress

LEMMA MarkerKept ==
  ASSUME TInv, Progress, [Next]_vars, UNCHANGED <<marker, trusted>>
  PROVE  MarkerIsHonest'
BY EdgesFilled, FlagsFilled DEF Progress, MarkerIsHonest, Honest

LEMMA MigrateProgress ==
  ASSUME TInv, Progress, [Next]_vars, NEW p \in Processes, Migrates(p)
  PROVE  Progress'
<1>0. UNCHANGED trusted /\ Reached(p) /\ marker \in 0..3
  BY DEF Progress, TInv, TypeOK, Migrates, CheckVersion, RefuseNewer, ReadVersion, SelectEdges,
     DeriveEvidence, CountAbsent, SelectBatch, FlagBatch, Recount, WriteMarker, Gone, observed
<1>1. CASE pc'[p] \notin Later \cup {"derive"} /\ UNCHANGED marker
  BY <1>0, <1>1, MarkerKept, OwnProgress DEF Reached, Later
<1>2. CASE CheckVersion(p) \/ RefuseNewer(p)
  BY <1>1, <1>2 DEF CheckVersion, RefuseNewer, Gone, store, Later, TInv, TypeOK
<1>3. CASE ReadVersion(p)
  <2>1. pc'[p] \in {"open", "edges"} \/ (marker = 1 /\ pc'[p] = "count")
    BY <1>0, <1>3 DEF ReadVersion, TInv, TypeOK
  <2>2. Reached(p)'
    <3>1. trusted /\ marker = 1 => Bare = {}
      BY DEF Progress, MarkerIsHonest, Honest
    <3>. QED
      BY <1>0, <2>1, <3>1, EdgesFilled DEF Reached, Later
  <2>. QED
    BY <1>0, <1>3, <2>2, MarkerKept, OwnProgress DEF ReadVersion, store
<1>4. CASE SelectEdges(p)
  <2>1. Reached(p)'
    BY <1>4 DEF SelectEdges, Reached, Later, Bare, TInv, TypeOK, store
  <2>. QED
    BY <1>0, <1>4, <2>1, MarkerKept, OwnProgress DEF SelectEdges, store
<1>5. CASE DeriveEvidence(p)
  <2>1. Bare' = {}
    BY <1>0, <1>5 DEF DeriveEvidence, Reached, Derived, Bare
  <2>2. pc'[p] = "count"
    BY <1>5 DEF DeriveEvidence, TInv, TypeOK
  <2>. QED
    BY <1>0, <1>5, <2>1, <2>2, MarkerKept, OwnProgress DEF DeriveEvidence, Reached
<1>6. CASE CountAbsent(p)
  <2>1. (pc'[p] = "mark" /\ Unflagged = {}) \/ pc'[p] = "select"
    BY <1>6 DEF CountAbsent, TInv, TypeOK
  <2>2. Reached(p)'
    BY <1>0, <1>6, <2>1, EdgesFilled, FlagsFilled DEF CountAbsent, Reached, Later
  <2>. QED
    BY <1>0, <1>6, <2>2, MarkerKept, OwnProgress DEF CountAbsent, store
<1>7. CASE SelectBatch(p) \/ FlagBatch(p)
  <2>1. pc[p] \in Later /\ pc'[p] \in Later \ {"mark"} /\ UNCHANGED marker
    BY <1>7 DEF SelectBatch, FlagBatch, Later, TInv, TypeOK, store
  <2>2. Reached(p)'
    BY <1>0, <2>1, EdgesFilled DEF Reached, Later
  <2>. QED
    BY <1>0, <2>1, <2>2, MarkerKept, OwnProgress
<1>8. CASE Recount(p)
  <2>1. CASE Unflagged = {}
    <3>1. pc[p] = "recount" /\ pc'[p] = "mark" /\ UNCHANGED marker
      BY <1>8, <2>1 DEF Recount, TInv, TypeOK, store
    <3>2. Reached(p)'
      BY <1>0, <2>1, <3>1, EdgesFilled, FlagsFilled DEF Reached, Later
    <3>. QED
      BY <1>0, <3>1, <3>2, MarkerKept, OwnProgress
  <2>2. CASE Unflagged # {}
    BY <1>1, <1>8, <2>2 DEF Recount, Gone, store, Later, TInv, TypeOK
  <2>. QED
    BY <2>1, <2>2
<1>9. CASE WriteMarker(p)
  <2>1. trusted => Bare' = {} /\ Unflagged' = {}
    BY <1>0, <1>9, EdgesFilled, FlagsFilled DEF WriteMarker, Reached, Later
  <2>2. pc'[p] = "open"
    BY <1>9 DEF WriteMarker, TInv, TypeOK
  <2>3. MarkerIsHonest' /\ Reached(p)'
    BY <1>0, <2>1, <2>2 DEF MarkerIsHonest, Honest, Reached, Later
  <2>. QED
    BY <1>0, <2>3, OwnProgress
<1>. QED
  BY <1>2, <1>3, <1>4, <1>5, <1>6, <1>7, <1>8, <1>9 DEF Migrates

LEMMA StepProgress ==
  ASSUME TInv, Progress, [Next]_vars
  PROVE  Progress'
<1>1. ASSUME NEW p \in Processes, Open(p) \/ Conflict(p) \/ Breaks(p) \/ Close(p)
      PROVE  Progress'
  <2>1. pc'[p] \in {"closed", "opening", "migrate"} /\ UNCHANGED <<marker, trusted>>
    BY <1>1 DEF Open, Conflict, Breaks, Close, Gone, store, observed, TInv, TypeOK
  <2>2. Reached(p)'
    BY <2>1 DEF Reached, Later
  <2>. QED
    BY <1>1, <2>1, <2>2, MarkerKept, OwnProgress
<1>2. ASSUME NEW p \in Processes, ForceMigrate(p) PROVE Progress'
  <2>1. marker' = 0 /\ pc'[p] = "opening"
    BY <1>2 DEF ForceMigrate, TInv, TypeOK
  <2>2. MarkerIsHonest' /\ Reached(p)'
    BY <2>1 DEF MarkerIsHonest, Honest, Reached, Later
  <2>3. ASSUME NEW q \in Processes, q # p PROVE Reached(q)'
    <3>1. pc'[q] = pc[q] /\ batch'[q] = batch[q] /\ Reached(q)
      BY <1>2, <2>3, OthersStay DEF Progress
    <3>2. trusted' => trusted \/ pc[q] = "closed"
      BY <1>2, <2>3 DEF ForceMigrate, Others
    <3>. QED
      BY <3>1, <3>2, EdgesFilled, FlagsFilled DEF Reached, Later
  <2>. QED
    BY <2>2, <2>3 DEF Progress
<1>3. ASSUME NEW c \in Clients, Works(c) PROVE Progress'
  <2>1. UNCHANGED <<pc, batch, trusted, marker>>
    BY <1>3, ClientFrame DEF pass
  <2>. QED
    BY <2>1, ElsewhereProgress
<1>4. ASSUME NEW n \in Episodes, Ingest(n) PROVE Progress'
  BY <1>4, ElsewhereProgress DEF Ingest, pass, observed
<1>5. CASE NewerBuild
  BY <1>5, ElsewhereProgress DEF NewerBuild, pass, observed
<1>6. CASE UNCHANGED vars
  BY <1>6, ElsewhereProgress DEF vars, store, pass, observed
<1>. QED
  BY <1>1, <1>2, <1>3, <1>4, <1>5, <1>6, MigrateProgress DEF Next

LEMMA InitProgress == Init => Progress
<1> SUFFICES ASSUME NEW s \in States, InitFrom(s) PROVE Progress
  BY DEF Init
<1>1. s.missing \cap s.extracted = {} /\ s.bare \subseteq Edges /\ s.absent \subseteq Episodes
  BY ConstantsOK
<1>2. Bare \subseteq s.bare /\ Unflagged \subseteq s.absent
  BY DEF InitFrom, Bare, Unflagged
<1>3. MarkerIsHonest
  BY <1>2 DEF InitFrom, MarkerIsHonest, Honest
<1>4. \A p \in Processes : Reached(p)
  BY DEF InitFrom, Reached, Later
<1>. QED
  BY <1>3, <1>4 DEF Progress

LEMMA ProgressInvariant == Spec => [](TInv /\ Progress)
<1>1. TInv /\ ExtractsOK /\ Progress /\ [Next]_vars => TInv' /\ ExtractsOK' /\ Progress'
  BY StepTypes, StepExtracts, StepProgress
<1>. QED
  BY <1>1, InitTypes, InitExtracts, InitProgress, PTL DEF Spec

\* Whatever was interrupted, retried or done by somebody else at the same time,
\* a marker that was right to begin with stays right: a later open that skips a
\* backfill finds no row without its value.
THEOREM MarkerStaysHonest == Spec => []MarkerIsHonest
<1>1. TInv /\ Progress => MarkerIsHonest
  BY DEF Progress
<1>. QED
  BY <1>1, ProgressInvariant, PTL

\* An open succeeds only over a store that is wholly migrated.
LEMMA StepOpens ==
  ASSUME TInv, Progress, [Next]_vars, NEW p \in Processes,
         trusted, pc[p] # "open", pc'[p] = "open"
  PROVE  Bare' = {} /\ Unflagged' = {}
<1>0. PICK q \in Processes :
        Open(q) \/ Migrates(q) \/ Conflict(q) \/ Breaks(q) \/ Close(q) \/ ForceMigrate(q)
  BY ClientFrame DEF Next, Ingest, NewerBuild, vars, pass
<1>1. q = p
  BY <1>0, OthersStay
<1>2. (ReadVersion(p) /\ marker >= 2) \/ WriteMarker(p)
  <2>1. CASE Migrates(p)
    BY <2>1 DEF TInv, TypeOK, Migrates, CheckVersion, RefuseNewer, ReadVersion, SelectEdges,
       DeriveEvidence, CountAbsent, SelectBatch, FlagBatch, Recount, WriteMarker, Gone
  <2>2. CASE Open(p) \/ Conflict(p) \/ Breaks(p) \/ Close(p) \/ ForceMigrate(p)
    BY <2>2 DEF TInv, TypeOK, Open, Conflict, Breaks, Close, ForceMigrate, Gone
  <2>. QED
    BY <1>0, <1>1, <2>1, <2>2
<1>3. Bare = {} /\ Unflagged = {}
  <2>1. CASE ReadVersion(p) /\ marker >= 2
    BY <2>1 DEF Progress, MarkerIsHonest, Honest, TInv, TypeOK
  <2>2. CASE WriteMarker(p)
    BY <2>2 DEF WriteMarker, Progress, Reached, Later
  <2>. QED
    BY <1>2, <2>1, <2>2
<1>. QED
  BY <1>3, EdgesFilled, FlagsFilled

\* No open succeeds over a half-migrated store.
THEOREM OpensOnWholeStores == Spec => OpensOnWhole
<1>1. TInv /\ Progress /\ [Next]_vars
        => [\A p \in Processes :
              trusted /\ pc[p] # "open" /\ pc'[p] = "open" => Bare' = {} /\ Unflagged' = {}]_vars
  BY StepOpens
<1>. QED
  BY <1>1, ProgressInvariant, PTL DEF Spec, OpensOnWhole

---------------------------------------------------------------------------
(* An embedded store admits one process, whose clients work while it has    *)
(* the store open and not while it migrates.                                *)

Alone ==
  /\ \A c \in Clients : Busy(c) => pc[Home[c]] = "open"
  /\ ~server => \A p, q \in Processes : p # q => pc[p] = "closed" \/ pc[q] = "closed"
  /\ ~server /\ marker = Newer => \A p \in Processes : pc[p] \in {"closed", "opening"}

Acts(p) == Open(p) \/ Migrates(p) \/ Conflict(p) \/ Breaks(p) \/ Close(p) \/ ForceMigrate(p)

LEMMA ServerStays == [Next]_vars => UNCHANGED server
BY DEF Next, Open, Migrates, CheckVersion, RefuseNewer, ReadVersion, SelectEdges,
   DeriveEvidence, CountAbsent, SelectBatch, FlagBatch, Recount, WriteMarker, Conflict, Breaks,
   Close, ForceMigrate, Gone, Works, TakeLog, MarkLog, Correct, ObservationFails, FindEdge,
   AddEdge, Forget, RecordObservation, Ingest, NewerBuild, vars, store

\* A client acts only while its process has the store open.
LEMMA ClientOpen ==
  ASSUME Alone, NEW c \in Clients, Works(c)
  PROVE  pc[Home[c]] = "open"
BY DEF Alone, Works, TakeLog, MarkLog, Correct, ObservationFails, FindEdge, AddEdge, Forget,
   RecordObservation, Idle, Busy, Clients

LEMMA ActsBusy ==
  ASSUME TInv, Alone, NEW p \in Processes, Acts(p), NEW c \in Clients
  PROVE  Busy(c)' => Busy(c) /\ pc'[Home[c]] = "open"
<1>1. Home[c] \in Processes
  BY ConstantsOK
<1>2. Busy(c)' => Busy(c)
  <2>1. UNCHANGED work \/ Gone(p)
    BY ProcessWork DEF Acts
  <2>. QED
    BY <2>1 DEF work, Gone, Busy
<1>3. CASE Home[c] # p
  <2>1. pc'[Home[c]] = pc[Home[c]]
    BY <1>1, <1>3, OthersStay DEF Acts
  <2>. QED
    BY <1>2, <2>1 DEF Alone
<1>4. CASE Home[c] = p
  <2>1. Gone(p) => ~Busy(c)'
    BY <1>4 DEF Gone, Busy
  <2>2. pc[p] = "open" => Gone(p) \/ ~Busy(c)
    BY <1>4 DEF Acts, Open, Migrates, CheckVersion, RefuseNewer, ReadVersion, SelectEdges,
       DeriveEvidence, CountAbsent, SelectBatch, FlagBatch, Recount, WriteMarker, Conflict,
       Writing, Breaks, Close, ForceMigrate
  <2>. QED
    BY <1>2, <1>4, <2>1, <2>2 DEF Alone
<1>. QED
  BY <1>3, <1>4

LEMMA ActsAlone ==
  ASSUME TInv, Alone, NEW p \in Processes, Acts(p)
  PROVE  Alone'
<1>0. UNCHANGED server /\ marker \in 0..3
  BY ServerStays DEF Acts, Next, TInv, TypeOK
<1>1. \A q \in Processes \ {p} : pc'[q] = pc[q]
  BY OthersStay DEF Acts
<1>2. ASSUME ~server, NEW q \in Processes, q # p PROVE pc[q] = "closed"
  <2>1. pc[p] # "closed" \/ Others(p) = {}
    BY <1>2 DEF Acts, Open, Migrates, CheckVersion, RefuseNewer, ReadVersion, SelectEdges,
       DeriveEvidence, CountAbsent, SelectBatch, FlagBatch, Recount, WriteMarker, Conflict,
       Writing, Breaks, Close, ForceMigrate
  <2>. QED
    BY <1>2, <2>1 DEF Alone, Others
<1>3. ASSUME ~server, marker' = Newer PROVE pc'[p] \in {"closed", "opening"}
  <2>1. marker = Newer
    BY <1>0, <1>3 DEF Acts, Open, Migrates, CheckVersion, RefuseNewer, ReadVersion, SelectEdges,
       DeriveEvidence, CountAbsent, SelectBatch, FlagBatch, Recount, WriteMarker, Conflict,
       Breaks, Close, ForceMigrate, Gone, Raised, store
  <2>2. pc[p] \in {"closed", "opening"}
    BY <1>3, <2>1 DEF Alone
  <2>. QED
    BY <2>1, <2>2 DEF Acts, Open, Migrates, CheckVersion, RefuseNewer, ReadVersion, SelectEdges,
       DeriveEvidence, CountAbsent, SelectBatch, FlagBatch, Recount, WriteMarker, Conflict,
       Writing, Breaks, Close, ForceMigrate, Gone, TInv, TypeOK
<1>4. \A c \in Clients : Busy(c)' => pc'[Home[c]] = "open"
  BY ActsBusy
<1>. QED
  BY <1>0, <1>1, <1>2, <1>3, <1>4 DEF Alone

LEMMA ClientBusy ==
  ASSUME TInv, NEW c \in Clients, Works(c), NEW d \in Clients, d # c
  PROVE  Busy(d)' = Busy(d)
<1>1. held'[d] = held[d] /\ log'[d] = log[d]
  BY DEF Works, TakeLog, MarkLog, Correct, ObservationFails, FindEdge, AddEdge, Forget,
     RecordObservation, work, TInv, TypeOK
<1>. QED
  BY <1>1 DEF Busy

LEMMA StepAlone ==
  ASSUME TInv, Alone, [Next]_vars
  PROVE  Alone'
<1>1. ASSUME NEW c \in Clients, Works(c) PROVE Alone'
  <2>1. UNCHANGED <<pc, server, marker>> /\ pc[Home[c]] = "open"
    BY <1>1, ClientFrame, ClientOpen DEF pass
  <2>2. \A d \in Clients : Busy(d)' => d = c \/ Busy(d)
    BY <1>1, ClientBusy
  <2>. QED
    BY <2>1, <2>2 DEF Alone
<1>2. ASSUME NEW n \in Episodes, Ingest(n) PROVE Alone'
  BY <1>2 DEF Ingest, Alone, Busy, pass, work
<1>3. CASE NewerBuild
  BY <1>3 DEF NewerBuild, Alone, Busy, pass, work
<1>4. CASE UNCHANGED vars
  BY <1>4 DEF vars, store, pass, work, Alone, Busy
<1>. QED
  BY <1>1, <1>2, <1>3, <1>4, ActsAlone DEF Next, Acts

LEMMA InitAlone == Init => Alone
<1> SUFFICES ASSUME NEW s \in States, InitFrom(s) PROVE Alone
  BY DEF Init
<1>1. \A c \in Clients : ~Busy(c)
  BY DEF InitFrom, Busy
<1>. QED
  BY <1>1 DEF InitFrom, Alone

LEMMA AloneInvariant == Spec => [](TInv /\ Alone)
<1>1. TInv /\ ExtractsOK /\ Alone /\ [Next]_vars => TInv' /\ ExtractsOK' /\ Alone'
  BY StepTypes, StepExtracts, StepAlone
<1>. QED
  BY <1>1, InitTypes, InitExtracts, InitAlone, PTL DEF Spec

LEMMA StepVersion ==
  ASSUME TInv, Alone, [Next]_vars
  PROVE  /\ marker' >= marker \/ marker' = 0
         /\ ~server /\ marker = Newer => UNCHANGED store
<1>0. marker \in 0..3
  BY DEF TInv, TypeOK
<1>1. ASSUME NEW c \in Clients, Works(c)
      PROVE  UNCHANGED marker /\ ~(~server /\ marker = Newer)
  BY <1>1, ClientFrame, ClientOpen, ConstantsOK DEF Alone
<1>2. ASSUME NEW n \in Episodes, Ingest(n) PROVE UNCHANGED marker /\ ~(~server /\ marker = Newer)
  BY <1>2 DEF Ingest, Alone
<1>3. ASSUME NEW p \in Processes, Acts(p) PROVE marker' >= marker \/ marker' = 0
  BY <1>0, <1>3 DEF Acts, Open, Migrates, CheckVersion, RefuseNewer, ReadVersion, SelectEdges,
     DeriveEvidence, CountAbsent, SelectBatch, FlagBatch, Recount, WriteMarker, Conflict,
     Breaks, Close, ForceMigrate, Gone, Raised, store
<1>4. ASSUME NEW p \in Processes, Acts(p), ~server, marker = Newer PROVE UNCHANGED store
  <2>1. pc[p] \in {"closed", "opening"}
    BY <1>4 DEF Alone
  <2>. QED
    BY <1>4, <2>1 DEF Acts, Open, Migrates, CheckVersion, RefuseNewer, ReadVersion, SelectEdges,
       DeriveEvidence, CountAbsent, SelectBatch, FlagBatch, Recount, WriteMarker, Conflict,
       Writing, Breaks, Close, ForceMigrate, Gone
<1>5. CASE NewerBuild
  BY <1>0, <1>5 DEF NewerBuild
<1>6. CASE UNCHANGED vars
  BY <1>0, <1>6 DEF vars, store
<1>. QED
  BY <1>0, <1>1, <1>2, <1>3, <1>4, <1>5, <1>6 DEF Next, Acts

\* Only `--force` takes the marker back, and what a newer build has written in
\* an embedded store this one leaves alone.
THEOREM NewerStoresLeftAlone == Spec => VersionRespected
<1>1. TInv /\ Alone /\ [Next]_vars
        => [/\ marker' >= marker \/ marker' = 0
            /\ ~server /\ marker = Newer => UNCHANGED store]_vars
  BY StepVersion
<1>. QED
  BY <1>1, AloneInvariant, PTL DEF Spec, VersionRespected

---------------------------------------------------------------------------
(* What is held, selected and noted about a row in an embedded store.      *)

Selected(p) ==
  /\ pc[p] = "derive" => batch[p] \subseteq Bare
  /\ pc[p] = "flag" => batch[p] \subseteq Unflagged
NotedOn(e) ==
  /\ edges[e].is \in {"bare", "missing"} => noted[e] = {}
  /\ e \in Stored /\ e \notin crossed => noted[e] \subseteq edges[e].since
HeldBy(c, e) ==
  held[c][e] # None =>
    /\ edges[e].is # "missing"
    /\ e \in Stored => held[c][e].base = edges[e].base
    /\ e \in Stored /\ e \notin crossed => noted[e] \subseteq held[c][e].since
Records ==
  ~server =>
    /\ \A p \in Processes : Selected(p)
    /\ \A e \in Edges : NotedOn(e)
    /\ \A c \in Clients, e \in Edges : HeldBy(c, e)

\* A process in the middle of a pass has nobody beside it.
LEMMA NobodyHolds ==
  ASSUME Alone, ~server, NEW p \in Processes, pc[p] \notin {"closed", "open"}
  PROVE  /\ \A c \in Clients : ~Busy(c)
         /\ \A q \in Processes \ {p} : pc[q] = "closed"
BY ConstantsOK DEF Alone

LEMMA NobodyMigrates ==
  ASSUME Alone, ~server, NEW p \in Processes, pc[p] = "open"
  PROVE  \A q \in Processes : pc[q] \notin {"derive", "flag"}
BY DEF Alone

\* The two steps of a pass that write rows, and what they do to a counted edge
\* and an extracted episode.
LEMMA DeriveStep ==
  ASSUME TInv, Alone, Records, ~server, NEW p \in Processes, DeriveEvidence(p)
  PROVE  Records' /\ OnlyFills
<1>0. /\ batch[p] \subseteq Bare /\ pc[p] = "derive" /\ ~server'
      /\ UNCHANGED <<flags, held, noted, crossed, server>>
  BY DEF Records, Selected, DeriveEvidence, work, observed
<1>1. \A c \in Clients : ~Busy(c)
  BY <1>0, NobodyHolds
<1>2. \A q \in Processes : pc'[q] \notin {"derive", "flag"}
  BY <1>0, NobodyHolds DEF DeriveEvidence, TInv, TypeOK
<1>3. ASSUME NEW e \in Edges
      PROVE  /\ e \notin Bare => edges'[e] = edges[e]
             /\ edges[e].is \notin {"bare", "counted"} => edges'[e] = edges[e]
             /\ edges[e].is = "bare" => edges'[e].is \in {"bare", "counted"}
  BY <1>0 DEF DeriveEvidence, Derived
<1>4. ASSUME NEW e \in Edges PROVE NotedOn(e)'
  <2>1. NotedOn(e)
    BY DEF Records
  <2>2. CASE e \in Bare
    BY <1>0, <2>1, <2>2 DEF NotedOn, Bare
  <2>3. CASE e \notin Bare
    BY <1>0, <1>3, <2>1, <2>3 DEF NotedOn, Stored
  <2>. QED
    BY <2>2, <2>3
<1>5. \A c \in Clients, e \in Edges : HeldBy(c, e)'
  BY <1>0, <1>1 DEF HeldBy, Busy
<1>6. Records'
  BY <1>2, <1>4, <1>5 DEF Records, Selected
<1>7. OnlyFills
  BY <1>0, <1>3 DEF OnlyFills, Bare, TInv, TypeOK
<1>. QED
  BY <1>6, <1>7

LEMMA FlagStep ==
  ASSUME TInv, Alone, Records, ~server, NEW p \in Processes, FlagBatch(p)
  PROVE  Records' /\ OnlyFills
<1>0. /\ batch[p] \subseteq Unflagged /\ pc[p] = "flag"
      /\ UNCHANGED <<edges, held, noted, crossed, server>>
  BY DEF Records, Selected, FlagBatch, work, observed
<1>1. \A q \in Processes : pc'[q] \notin {"derive", "flag"}
  BY <1>0, NobodyHolds DEF FlagBatch, TInv, TypeOK
<1>2. Records'
  BY <1>0, <1>1 DEF Records, Selected, NotedOn, HeldBy, Stored
<1>3. \A n \in Episodes : flags[n] = "yes" => flags'[n] = "yes"
  BY <1>0 DEF FlagBatch, Unflagged
<1>. QED
  BY <1>0, <1>2, <1>3 DEF OnlyFills

\* Every other step of a process leaves the rows alone.
LEMMA QuietStep ==
  ASSUME TInv, Alone, Records, ~server, NEW p \in Processes, Acts(p),
         ~DeriveEvidence(p), ~FlagBatch(p)
  PROVE  Records' /\ OnlyFills
<1>1. UNCHANGED <<edges, flags, noted, crossed, server>>
  BY DEF Acts, Open, Migrates, CheckVersion, RefuseNewer, ReadVersion, SelectEdges,
     CountAbsent, SelectBatch, Recount, WriteMarker, Conflict, Breaks, Close, ForceMigrate,
     Gone, store, observed
<1>2. \A c \in Clients, e \in Edges : held'[c][e] \in {held[c][e], None}
  <2>1. UNCHANGED work \/ Gone(p)
    BY ProcessWork DEF Acts
  <2>. QED
    BY <2>1 DEF work, Gone
<1>3. Selected(p)'
  <2>1. CASE SelectEdges(p)
    BY <1>1, <2>1 DEF SelectEdges, Selected, Bare, TInv, TypeOK
  <2>2. CASE SelectBatch(p)
    BY <1>1, <2>2 DEF SelectBatch, Selected, Unflagged, TInv, TypeOK
  <2>3. CASE ~SelectEdges(p) /\ ~SelectBatch(p)
    <3>1. pc'[p] \notin {"derive", "flag"}
      BY <2>3 DEF Acts, Open, Migrates, CheckVersion, RefuseNewer, ReadVersion, CountAbsent,
         Recount, WriteMarker, Conflict, Breaks, Close, ForceMigrate, Gone, TInv, TypeOK
    <3>. QED
      BY <3>1 DEF Selected
  <2>. QED
    BY <2>1, <2>2, <2>3
<1>4. ASSUME NEW q \in Processes, q # p PROVE Selected(q)'
  <2>1. pc'[q] = pc[q] /\ batch'[q] = batch[q]
    BY <1>4, OthersStay DEF Acts
  <2>. QED
    BY <1>1, <2>1 DEF Records, Selected, Bare, Unflagged
<1>5. \A e \in Edges : NotedOn(e)'
  BY <1>1 DEF Records, NotedOn, Stored
<1>6. \A c \in Clients, e \in Edges : HeldBy(c, e)'
  BY <1>1, <1>2 DEF Records, HeldBy, Stored
<1>. QED
  BY <1>1, <1>3, <1>4, <1>5, <1>6 DEF Records, OnlyFills

\* A client's step, of which the edges it touches are left to show.
LEMMA ClientSelects ==
  ASSUME TInv, Alone, ~server, NEW c \in Clients, Works(c)
  PROVE  ~server' /\ \A p \in Processes : Selected(p)'
<1>1. UNCHANGED <<pc, batch, server>> /\ pc[Home[c]] = "open" /\ Home[c] \in Processes
  BY ClientFrame, ClientOpen, ConstantsOK DEF pass
<1>. QED
  BY <1>1, NobodyMigrates DEF Selected

LEMMA RecordStep ==
  ASSUME TInv, Alone, Records, ~server, NEW c \in Clients, NEW e \in Edges, NEW note,
         Works(c), RecordObservation(c, e, note)
  PROVE  Records' /\ OnlyFills
<1>0. ~server' /\ \A p \in Processes : Selected(p)'
  BY ClientSelects
<1>1. /\ held[c][e] # None /\ HeldBy(c, e) /\ NotedOn(e) /\ UNCHANGED flags
      /\ noted'[e] = noted[e] \cup {note}
      /\ \A f \in Edges \ {e} : edges'[f] = edges[f] /\ noted'[f] = noted[f]
      /\ \A d \in Clients, f \in Edges :
           held'[d][f] = IF d = c /\ f = e THEN None ELSE held[d][f]
      /\ crossed \subseteq crossed' /\ crossed' \subseteq crossed \cup {e}
      /\ e \notin crossed' => \A d \in Clients \ {c} : held[d][e] = None
  BY DEF RecordObservation, Records, TInv, TypeOK
<1>2. e \in Stored => /\ edges'[e].is = "counted" /\ edges'[e].base = edges[e].base
                      /\ edges'[e].since = held[c][e].since \cup {note}
  BY <1>1 DEF RecordObservation, Folded, HeldBy, TInv, TypeOK
<1>3. e \notin Stored => edges'[e] = edges[e]
  BY DEF RecordObservation
<1>4. NotedOn(e)'
  <2>1. CASE e \in Stored
    BY <1>1, <1>2, <2>1 DEF NotedOn, HeldBy, Stored
  <2>2. CASE e \notin Stored
    BY <1>1, <1>3, <2>2 DEF NotedOn, HeldBy, Stored
  <2>. QED
    BY <2>1, <2>2
<1>5. ASSUME NEW f \in Edges, f # e PROVE NotedOn(f)' /\ \A d \in Clients : HeldBy(d, f)'
  BY <1>1, <1>5 DEF Records, NotedOn, HeldBy, Stored
<1>6. ASSUME NEW d \in Clients PROVE HeldBy(d, e)'
  <2>1. CASE d = c
    BY <1>1, <2>1 DEF HeldBy
  <2>2. CASE d # c
    BY <1>1, <1>2, <1>3, <2>2 DEF Records, HeldBy, Stored
  <2>. QED
    BY <2>1, <2>2
<1>7. Records'
  BY <1>0, <1>4, <1>5, <1>6 DEF Records
<1>8. OnlyFills
  BY <1>1, <1>2, <1>3 DEF OnlyFills, Stored
<1>. QED
  BY <1>7, <1>8

LEMMA ReadStep ==
  ASSUME TInv, Alone, Records, ~server, NEW c \in Clients, Works(c),
         UNCHANGED <<store, observed>>,
         \A d \in Clients, e \in Edges :
           \/ held'[d][e] \in {held[d][e], None}
           \/ e \in Stored /\ held'[d][e] = edges[e]
  PROVE  Records' /\ OnlyFills
<1>0. ~server' /\ \A p \in Processes : Selected(p)'
  BY ClientSelects
<1>1. \A e \in Edges : NotedOn(e)'
  BY DEF Records, NotedOn, Stored, store, observed
<1>2. ASSUME NEW d \in Clients, NEW e \in Edges PROVE HeldBy(d, e)'
  <2>1. NotedOn(e) /\ HeldBy(d, e)
    BY DEF Records
  <2>2. CASE held'[d][e] \in {held[d][e], None}
    BY <2>1, <2>2 DEF HeldBy, Stored, store, observed
  <2>3. CASE e \in Stored /\ held'[d][e] = edges[e]
    BY <2>1, <2>3 DEF HeldBy, NotedOn, Stored, store, observed
  <2>. QED
    BY <2>2, <2>3
<1>. QED
  BY <1>0, <1>1, <1>2 DEF Records, OnlyFills, store

LEMMA ClientRecords ==
  ASSUME TInv, Alone, Records, ~server, NEW c \in Clients, Works(c)
  PROVE  Records' /\ OnlyFills
<1>0. ~server' /\ \A p \in Processes : Selected(p)'
  BY ClientSelects
<1>1. CASE TakeLog(c)
  BY <1>1, ReadStep DEF TakeLog
<1>2. CASE MarkLog(c)
  <2>1. UNCHANGED <<edges, held, noted, crossed>>
    BY <1>2 DEF MarkLog, observed
  <2>2. Records'
    BY <1>0, <2>1 DEF Records, NotedOn, HeldBy, Stored
  <2>3. \A n \in Episodes : flags[n] = "yes" => flags'[n] = "yes"
    BY <1>2 DEF MarkLog
  <2>. QED
    BY <2>1, <2>2, <2>3 DEF OnlyFills
<1>3. CASE Correct(c)
  <2>1. \A d \in Clients, e \in Edges :
           \/ held'[d][e] \in {held[d][e], None}
           \/ e \in Stored /\ held'[d][e] = edges[e]
    BY <1>3 DEF Correct, TInv, TypeOK
  <2>. QED
    BY <1>3, <2>1, ReadStep DEF Correct
<1>4. CASE ObservationFails(c)
  <2>1. \A d \in Clients, e \in Edges : held'[d][e] \in {held[d][e], None}
    BY <1>4 DEF ObservationFails, TInv, TypeOK
  <2>. QED
    BY <1>4, <2>1, ReadStep DEF ObservationFails
<1>5. ASSUME NEW e \in Edges, FindEdge(c, e) PROVE Records' /\ OnlyFills
  <2>1. \A d \in Clients, f \in Edges :
           \/ held'[d][f] \in {held[d][f], None}
           \/ f \in Stored /\ held'[d][f] = edges[f]
    BY <1>5 DEF FindEdge, TInv, TypeOK
  <2>. QED
    BY <1>5, <2>1, ReadStep DEF FindEdge
<1>6. ASSUME NEW e \in Edges, AddEdge(c, e) PROVE Records' /\ OnlyFills
  <2>1. /\ edges[e].is = "missing" /\ edges'[e] = NewEdge
        /\ \A f \in Edges \ {e} : edges'[f] = edges[f]
        /\ UNCHANGED <<flags, held, noted, crossed>>
    BY <1>6 DEF AddEdge, TInv, TypeOK, work, observed
  <2>2. \A f \in Edges : NotedOn(f)'
    BY <2>1 DEF Records, NotedOn, Stored, NewEdge
  <2>3. \A d \in Clients, f \in Edges : HeldBy(d, f)'
    BY <2>1 DEF Records, HeldBy, Stored
  <2>. QED
    BY <1>0, <2>1, <2>2, <2>3 DEF Records, OnlyFills
<1>7. ASSUME NEW e \in Edges, Forget(c, e) PROVE Records' /\ OnlyFills
  <2>1. /\ edges'[e] = Forgotten
        /\ \A f \in Edges \ {e} : edges'[f] = edges[f] /\ noted'[f] = noted[f]
        /\ UNCHANGED <<flags, held, crossed>>
    BY <1>7 DEF Forget, TInv, TypeOK, work
  <2>2. \A f \in Edges : NotedOn(f)'
    BY <2>1 DEF Records, NotedOn, Stored, Forgotten
  <2>3. \A d \in Clients, f \in Edges : HeldBy(d, f)'
    BY <2>1 DEF Records, HeldBy, Stored, Forgotten
  <2>. QED
    BY <1>0, <2>1, <2>2, <2>3 DEF Records, OnlyFills, Forgotten
<1>. QED
  BY <1>1, <1>2, <1>3, <1>4, <1>5, <1>6, <1>7, RecordStep DEF Works

LEMMA StepRecords ==
  ASSUME TInv, Alone, Records, ~server, [Next]_vars
  PROVE  Records' /\ OnlyFills
<1>1. ASSUME NEW n \in Episodes, Ingest(n) PROVE Records' /\ OnlyFills
  <2>1. /\ UNCHANGED <<edges, held, noted, crossed, pc, batch, server>>
        /\ \A p \in Processes : pc[p] \notin {"derive", "flag"}
    BY <1>1, NobodyMigrates DEF Ingest, pass, work, observed
  <2>2. Records'
    BY <2>1 DEF Records, Selected, NotedOn, HeldBy, Stored
  <2>3. \A m \in Episodes : flags[m] = "yes" => flags'[m] = "yes"
    BY <1>1 DEF Ingest, TInv, TypeOK
  <2>. QED
    BY <2>1, <2>2, <2>3 DEF OnlyFills
<1>2. CASE NewerBuild \/ UNCHANGED vars
  <2>1. UNCHANGED <<edges, flags, held, noted, crossed, pc, batch, server>>
    BY <1>2 DEF NewerBuild, vars, store, pass, work, observed
  <2>2. Records'
    BY <2>1 DEF Records, Selected, NotedOn, HeldBy, Stored, Bare, Unflagged
  <2>. QED
    BY <2>1, <2>2 DEF OnlyFills
<1>. QED
  BY <1>1, <1>2, DeriveStep, FlagStep, QuietStep, ClientRecords DEF Next, Acts

LEMMA InitRecords == Init => Records
<1> SUFFICES ASSUME NEW s \in States, InitFrom(s) PROVE Records
  BY DEF Init
<1>1. \A p \in Processes : Selected(p)
  BY DEF InitFrom, Selected
<1>2. \A e \in Edges : NotedOn(e)
  BY DEF InitFrom, NotedOn
<1>3. \A c \in Clients, e \in Edges : HeldBy(c, e)
  BY DEF InitFrom, HeldBy
<1>. QED
  BY <1>1, <1>2, <1>3 DEF Records

LEMMA RecordsInvariant == Spec => [](TInv /\ Alone /\ Records)
<1>1. TInv /\ ExtractsOK /\ Alone /\ Records /\ [Next]_vars
        => TInv' /\ ExtractsOK' /\ Alone' /\ Records'
  <2> SUFFICES ASSUME TInv, ExtractsOK, Alone, Records, [Next]_vars
               PROVE  TInv' /\ ExtractsOK' /\ Alone' /\ Records'
    OBVIOUS
  <2>1. server => Records'
    BY ServerStays DEF Records
  <2>. QED
    BY <2>1, StepTypes, StepExtracts, StepAlone, StepRecords
<1>. QED
  BY <1>1, InitTypes, InitExtracts, InitAlone, InitRecords, PTL DEF Spec

\* In an embedded store nothing but the observations on an edge moves its
\* counts, and an archive once extracted stays so, through any number of kills,
\* retries and forced migrations.
THEOREM FillsOnlyAlone == Spec => BackfillsOnlyFillAlone
<1>1. TInv /\ Alone /\ Records /\ [Next]_vars => [~server => OnlyFills]_vars
  BY StepRecords
<1>. QED
  BY <1>1, RecordsInvariant, PTL DEF Spec, BackfillsOnlyFillAlone

\* There, what was acknowledged as recorded on an edge counts as evidence for
\* good, unless two clients were about to write the same edge.
THEOREM ObservationsApartKept == Spec => []ApartKept
<1>1. Records => ApartKept
  BY DEF Records, NotedOn, ApartKept, Stored
<1>. QED
  BY <1>1, RecordsInvariant, PTL
=============================================================================
