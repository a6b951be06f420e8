--------------------------- MODULE StoreMigration ---------------------------
(***************************************************************************)
(* The v1 store's schema version and the rows it is about: every process  *)
(* that opens the store brings it up to the version it knows              *)
(* (src/graph/store.rs), and those that have it open change the same rows *)
(* (src/graph/crud.rs, ingest.rs, correct.rs).                            *)
(*                                                                         *)
(* A query of several statements is several transactions: another process *)
(* may run between the SELECT of a backfill and its UPDATE.  An embedded  *)
(* store admits one process at a time; a SurrealDB server any number.     *)
(*                                                                         *)
(* An edge's evidence is what was observed about it: `base` is what its   *)
(* stored mean already said when its counts were derived from that mean,  *)
(* `since` what was counted one by one after that.  The mean is therefore *)
(* `base` and `since` together, and deriving counts again from the mean   *)
(* turns all of it into a `base` of prior weight.                         *)
(***************************************************************************)
EXTENDS Naturals, FiniteSets

CONSTANTS
  Processes,     \* commands and daemons that open the store
  Workers,       \* extraction workers
  Users,         \* corrections, each a request of somebody
  Home,          \* the process a worker or a request runs in
  Edges, Episodes, Logs,
  LogOf,         \* the archive of each episode
  States,        \* stores to start from, see InitFrom
  Batch,         \* BACKFILL_BATCH
  Retries,       \* MIGRATION_RETRY_ATTEMPTS
  MaxTroubles,   \* conflicts, errors and kills in a behaviour
  MaxForces,     \* runs of `graph migrate --force`, as many as the store says
  None

Clients == Workers \cup Users
Notes == Logs \cup Users        \* an archive or a person observes
Edge == [is : {"missing", "bare", "counted", "gone"}, base : SUBSET Notes, since : SUBSET Notes]

ASSUME ConstantsOK ==
  /\ IsFiniteSet(Episodes)
  /\ Workers \cap Users = {} /\ Logs \cap Users = {}
  /\ Home \in [Clients -> Processes]
  /\ LogOf \in [Episodes -> Logs]
  /\ Batch \in Nat \ {0} /\ Retries \in Nat
  /\ MaxTroubles \in Nat /\ MaxForces \in Nat
  /\ States \subseteq
       [server : BOOLEAN, marker : 0..2,
        bare : SUBSET Edges, missing : SUBSET (Edges \cup Episodes), gone : SUBSET Edges,
        absent : SUBSET Episodes, extracted : SUBSET Episodes,
        forces : 0..MaxForces, sweeps : Nat]
  /\ \A s \in States :
       /\ s.bare \cap s.missing = {} /\ s.bare \cap s.gone = {} /\ s.missing \cap s.gone = {}
       /\ s.absent \cap (s.missing \cup s.extracted) = {} /\ s.missing \cap s.extracted = {}

ASSUME NoneIsNothing == None \notin Logs /\ None \notin Edge

SCHEMA_VERSION == 2
Newer == 3                      \* what a later build would write

VARIABLES
  \* the store
  server,     \* a SurrealDB server holds it
  marker,     \* meta:schema.schema_version, 0 when there is no such row
  edges,      \* relates_to
  flags,      \* `extracted` of each episode
  \* each process: where it is in its open, and that pass's locals
  pc, tries, batch, outstanding, done,
  \* each client: the edges it read and has still to write, the archive it extracts
  held, log,
  \* observed and bounds
  trusted,    \* the marker the behaviour started from told the truth
  noted,      \* what was acknowledged as recorded on each edge
  crossed,    \* edges written by one client while another was about to
  troubles, forces   \* those that happened, those still to come

store == <<server, marker, edges, flags>>
pass == <<pc, tries, batch, outstanding, done>>
work == <<held, log>>
observed == <<trusted, noted, crossed>>
bounds == <<troubles, forces>>
vars == <<store, pass, work, observed, bounds>>

Forgotten == [is |-> "gone", base |-> {}, since |-> {}]
NewEdge == [is |-> "counted", base |-> {}, since |-> {}]

Stored == {e \in Edges : edges[e].is \in {"bare", "counted"}}
Bare == {e \in Edges : edges[e].is = "bare"}
Unflagged == {n \in Episodes : flags[n] = "absent"}

Trouble == troubles < MaxTroubles /\ troubles' = troubles + 1
Others(p) == {q \in Processes \ {p} : pc[q] # "closed"}

---------------------------------------------------------------------------
(* Opening: init_schema. *)

\* The file lock of an embedded store admits one process.
Open(p) ==
  /\ pc[p] = "closed"
  /\ server \/ Others(p) = {}
  /\ pc' = [pc EXCEPT ![p] = "opening"]
  /\ UNCHANGED <<store, tries, batch, outstanding, done, work, observed, bounds>>

\* The end of an open that fails, of a command, or of the process: what it
\* read is forgotten, and so is what its clients were doing.
Gone(p) ==
  /\ pc' = [pc EXCEPT ![p] = "closed"]
  /\ tries' = [tries EXCEPT ![p] = 0]
  /\ batch' = [batch EXCEPT ![p] = {}]
  /\ outstanding' = [outstanding EXCEPT ![p] = 0]
  /\ done' = [done EXCEPT ![p] = 0]
  /\ held' = [c \in Clients |-> IF Home[c] = p THEN [e \in Edges |-> None] ELSE held[c]]
  /\ log' = [c \in Clients |-> IF Home[c] = p THEN None ELSE log[c]]
  /\ UNCHANGED <<store, observed>>

\* The marker is read before anything is defined: a newer store is refused.
OpensAnything(p) ==                  \* mutant of CheckVersion
  /\ pc[p] = "opening"
  /\ pc' = [pc EXCEPT ![p] = "migrate"]
  /\ UNCHANGED <<store, tries, batch, outstanding, done, work, observed, bounds>>
CheckVersion(p) ==
  /\ pc[p] = "opening" /\ marker <= SCHEMA_VERSION
  /\ pc' = [pc EXCEPT ![p] = "migrate"]
  /\ UNCHANGED <<store, tries, batch, outstanding, done, work, observed, bounds>>
RefuseNewer(p) ==
  /\ pc[p] = "opening" /\ marker > SCHEMA_VERSION
  /\ Gone(p) /\ UNCHANGED bounds

---------------------------------------------------------------------------
(* One migration pass. *)

\* Each backfill is gated on the version that introduced it.
ReadVersion(p) ==
  /\ pc[p] = "migrate"
  /\ pc' = [pc EXCEPT ![p] = CASE marker >= SCHEMA_VERSION -> "open"
                               [] marker = 1 -> "count"
                               [] marker = 0 -> "edges"]
  /\ tries' = [tries EXCEPT ![p] = IF marker >= SCHEMA_VERSION THEN 0 ELSE @]
  /\ UNCHANGED <<store, batch, outstanding, done, work, observed, bounds>>

\* LET $stale = (SELECT VALUE id FROM relates_to WHERE alpha IS NONE)
SelectEdges(p) ==
  /\ pc[p] = "edges"
  /\ batch' = [batch EXCEPT ![p] = Bare]
  /\ pc' = [pc EXCEPT ![p] = "derive"]
  /\ UNCHANGED <<store, tries, outstanding, done, work, observed, bounds>>

\* UPDATE $stale SET alpha = confidence * C, ...: every selected edge that
\* still exists, whatever has happened to it since.
Derived(edge) ==
  IF edge.is \notin {"bare", "counted"} THEN edge
  ELSE [is |-> "counted", base |-> edge.base \cup edge.since, since |-> {}]
DeriveAgain(p) ==                    \* mutant of DeriveEvidence
  /\ pc[p] = "derive"
  /\ edges' = [e \in Edges |-> Derived(edges[e])]
  /\ batch' = [batch EXCEPT ![p] = {}]
  /\ pc' = [pc EXCEPT ![p] = "count"]
  /\ UNCHANGED <<server, marker, flags, tries, outstanding, done, work, observed, bounds>>
DeriveOnly(p) ==                     \* mutant of DeriveEvidence
  /\ pc[p] = "derive"
  /\ edges' = [e \in Edges |-> IF e \in batch[p] THEN Derived(edges[e]) ELSE edges[e]]
  /\ batch' = [batch EXCEPT ![p] = {}]
  /\ pc' = [pc EXCEPT ![p] = "mark"]
  /\ UNCHANGED <<server, marker, flags, tries, outstanding, done, work, observed, bounds>>
DeriveEvidence(p) ==
  /\ pc[p] = "derive"
  /\ edges' = [e \in Edges |-> IF e \in batch[p] THEN Derived(edges[e]) ELSE edges[e]]
  /\ batch' = [batch EXCEPT ![p] = {}]
  /\ pc' = [pc EXCEPT ![p] = "count"]
  /\ UNCHANGED <<server, marker, flags, tries, outstanding, done, work, observed, bounds>>

CountAbsent(p) ==
  /\ pc[p] = "count"
  /\ outstanding' = [outstanding EXCEPT ![p] = Cardinality(Unflagged)]
  /\ done' = [done EXCEPT ![p] = 0]
  /\ pc' = [pc EXCEPT ![p] = IF Unflagged = {} THEN "mark" ELSE "select"]
  /\ UNCHANGED <<store, tries, batch, work, observed, bounds>>

\* SELECT VALUE id ... WHERE extracted IS NONE LIMIT $limit
SelectBatch(p) ==
  /\ pc[p] = "select"
  /\ \E chosen \in SUBSET Unflagged :
       /\ Cardinality(chosen) =
            IF Cardinality(Unflagged) < Batch THEN Cardinality(Unflagged) ELSE Batch
       /\ batch' = [batch EXCEPT ![p] = chosen]
  /\ pc' = [pc EXCEPT ![p] = "flag"]
  /\ UNCHANGED <<store, tries, outstanding, done, work, observed, bounds>>

\* UPDATE $batch SET extracted = false, and the test of the loop.
More(p, touched) == touched # 0 /\ done[p] + touched < outstanding[p]
FlagBatch(p) ==
  LET touched == Cardinality(batch[p]) IN
  /\ pc[p] = "flag"
  /\ flags' = [n \in Episodes |->
                 IF n \in batch[p] /\ flags[n] # "gone" THEN "no" ELSE flags[n]]
  /\ done' = [done EXCEPT ![p] = @ + touched]
  /\ batch' = [batch EXCEPT ![p] = {}]
  /\ pc' = [pc EXCEPT ![p] = IF More(p, touched) THEN "select" ELSE "recount"]
  /\ UNCHANGED <<server, marker, edges, tries, outstanding, work, observed, bounds>>

\* The post-condition: no episode is left without a value, or the open fails.
Recount(p) ==
  /\ pc[p] = "recount"
  /\ IF Unflagged = {}
     THEN /\ pc' = [pc EXCEPT ![p] = "mark"]
          /\ outstanding' = [outstanding EXCEPT ![p] = 0]
          /\ done' = [done EXCEPT ![p] = 0]
          /\ UNCHANGED <<store, tries, batch, work, observed>>
     ELSE Gone(p)
  /\ UNCHANGED bounds

\* The marker moves forward, never back.
NeverCreated(old) ==                 \* mutant of Raised
  IF old = 0 THEN 0 ELSE IF old < SCHEMA_VERSION THEN SCHEMA_VERSION ELSE old
Raised(old) == IF old < SCHEMA_VERSION THEN SCHEMA_VERSION ELSE old
WriteMarker(p) ==
  /\ pc[p] = "mark"
  /\ marker' = Raised(marker)
  /\ pc' = [pc EXCEPT ![p] = "open"]
  /\ tries' = [tries EXCEPT ![p] = 0]
  /\ UNCHANGED <<server, edges, flags, batch, outstanding, done, work, observed, bounds>>

\* A write meets another one: the pass starts over, a few times.
Writing == {"derive", "flag", "mark"}
RetriesOnce(p) == tries[p] <= Retries     \* mutant of MayRetry
MayRetry(p) == tries[p] < Retries
SwallowsConflict(p) ==               \* mutant of Conflict
  /\ pc[p] \in Writing /\ Others(p) # {}
  /\ Trouble
  /\ tries' = [tries EXCEPT ![p] = 0]
  /\ batch' = [batch EXCEPT ![p] = {}]
  /\ pc' = [pc EXCEPT ![p] = "open"]
  /\ UNCHANGED <<store, outstanding, done, work, observed, forces>>
Conflict(p) ==
  /\ pc[p] \in Writing /\ Others(p) # {}
  /\ Trouble
  /\ IF MayRetry(p)
     THEN /\ tries' = [tries EXCEPT ![p] = @ + 1]
          /\ pc' = [pc EXCEPT ![p] = "migrate"]
          /\ batch' = [batch EXCEPT ![p] = {}]
          /\ outstanding' = [outstanding EXCEPT ![p] = 0]
          /\ done' = [done EXCEPT ![p] = 0]
          /\ UNCHANGED <<store, work, observed>>
     ELSE Gone(p)
  /\ UNCHANGED forces

\* A statement fails for another reason, or the process is killed.
Breaks(p) ==
  /\ pc[p] # "closed"
  /\ Trouble
  /\ Gone(p)
  /\ UNCHANGED forces

\* A command ends, a daemon exits.
Busy(c) == log[c] # None \/ \E e \in Edges : held[c][e] # None
Close(p) ==
  /\ pc[p] = "open"
  /\ \A c \in Clients : Home[c] = p => ~Busy(c)
  /\ Gone(p) /\ UNCHANGED bounds

\* `graph migrate --force`: the marker is removed and the store migrated again;
\* it is right from then on, unless somebody goes by what it said before.
ForceMigrate(p) ==
  /\ pc[p] = "open"
  /\ \A c \in Clients : Home[c] = p => ~Busy(c)
  /\ forces > 0 /\ forces' = forces - 1
  /\ marker' = 0
  /\ trusted' = (trusted \/ Others(p) = {})
  /\ pc' = [pc EXCEPT ![p] = "opening"]
  /\ UNCHANGED <<server, edges, flags, tries, batch, outstanding, done, work, noted, crossed, troubles>>

\* A later release opens the store: all migrations, and one of its own.
NewerBuild ==
  /\ marker < Newer
  /\ server \/ \A p \in Processes : pc[p] = "closed"
  /\ marker' = Newer
  /\ trusted /\ Bare = {} /\ Unflagged = {}
  /\ UNCHANGED <<server, edges, flags, pass, work, observed, bounds>>

---------------------------------------------------------------------------
(* What the processes that have the store open do to the same rows. *)

Idle(c) == pc[Home[c]] = "open" /\ ~Busy(c)

\* An observation is folded into the edge as it was read, and written whole.
\* Writing to an edge that is gone does nothing.
FoldedIntoPrior(edge, note) ==       \* mutant of Folded
  [is |-> "counted", base |-> edge.base \cup edge.since \cup {note}, since |-> {}]
Folded(edge, note) ==
  [is |-> "counted", base |-> edge.base, since |-> edge.since \cup {note}]
RecordObservation(c, e, note) ==
  /\ held[c][e] # None
  /\ edges' = IF e \in Stored THEN [edges EXCEPT ![e] = Folded(held[c][e], note)]
              ELSE edges
  /\ held' = [held EXCEPT ![c][e] = None]
  /\ noted' = [noted EXCEPT ![e] = @ \cup {note}]
  /\ crossed' = IF \E d \in Clients \ {c} : held[d][e] # None
                THEN crossed \cup {e} ELSE crossed
  /\ UNCHANGED <<server, marker, flags, pass, log, trusted, bounds>>

\* The write fails: what the client had still to write is given up.
ObservationFails(c) ==
  /\ \E e \in Edges : held[c][e] # None
  /\ Trouble
  /\ held' = [held EXCEPT ![c] = [e \in Edges |-> None]]
  /\ UNCHANGED <<store, pass, log, observed, forces>>

\* The scan: `extracted = false`, so an episode without a value is not seen.
Waiting == {l \in Logs : \E n \in Episodes : LogOf[n] = l /\ flags[n] = "no"}
TakeLog(c) ==
  /\ c \in Workers /\ Idle(c)
  /\ \E l \in Waiting : log' = [log EXCEPT ![c] = l]
  /\ UNCHANGED <<store, pass, held, observed, bounds>>

\* The archive restates an edge the graph has.
FindEdge(c, e) ==
  /\ c \in Workers /\ log[c] # None
  /\ \A f \in Edges : held[c][f] = None
  /\ e \in Stored /\ log[c] \notin noted[e]
  /\ held' = [held EXCEPT ![c][e] = edges[e]]
  /\ UNCHANGED <<store, pass, log, observed, bounds>>

\* It states one the graph does not have.
AddEdge(c, e) ==
  /\ c \in Workers /\ log[c] # None
  /\ \A f \in Edges : held[c][f] = None
  /\ edges[e].is = "missing"
  /\ edges' = [edges EXCEPT ![e] = NewEdge]
  /\ UNCHANGED <<server, marker, flags, pass, work, observed, bounds>>

\* UPDATE episode SET extracted = true WHERE log_number = $ln
MarkLog(c) ==
  /\ c \in Workers /\ log[c] # None
  /\ \A e \in Edges : held[c][e] = None
  /\ flags' = [n \in Episodes |->
                 IF LogOf[n] = log[c] /\ flags[n] \in {"absent", "no"} THEN "yes" ELSE flags[n]]
  /\ log' = [log EXCEPT ![c] = None]
  /\ UNCHANGED <<server, marker, edges, pass, held, observed, bounds>>

\* An ingest creates an episode, whose `extracted` defaults to false.
Ingest(n) ==
  /\ \E p \in Processes : pc[p] = "open"
  /\ flags[n] = "missing"
  /\ flags' = [flags EXCEPT ![n] = "no"]
  /\ UNCHANGED <<server, marker, edges, pass, work, observed, bounds>>

\* `graph correct --wrong`: all the edges meant are read, then written in turn.
Correct(c) ==
  /\ c \in Users /\ Idle(c)
  /\ \A e \in Edges : c \notin noted[e]
  /\ \E claims \in SUBSET Stored :
       /\ claims # {}
       /\ held' = [held EXCEPT ![c] = [e \in Edges |->
                     IF e \in claims THEN edges[e] ELSE None]]
  /\ UNCHANGED <<store, pass, log, observed, bounds>>

\* `graph correct --forget`
Forget(c, e) ==
  /\ c \in Users /\ Idle(c)
  /\ e \in Stored
  /\ edges' = [edges EXCEPT ![e] = Forgotten]
  /\ noted' = [noted EXCEPT ![e] = {}]
  /\ UNCHANGED <<server, marker, flags, pass, work, trusted, crossed, bounds>>

---------------------------------------------------------------------------

Honest(m, bare, absent) == (m >= 1 => bare = {}) /\ (m >= 2 => absent = {})

InitFrom(s) ==
  /\ server = s.server
  /\ marker = s.marker
  /\ edges = [e \in Edges |->
       [is |-> CASE e \in s.bare -> "bare" [] e \in s.missing -> "missing"
                 [] e \in s.gone -> "gone" [] OTHER -> "counted",
        base |-> {}, since |-> {}]]
  /\ flags = [n \in Episodes |->
       CASE n \in s.absent -> "absent" [] n \in s.missing -> "missing"
         [] n \in s.extracted -> "yes" [] OTHER -> "no"]
  /\ trusted = Honest(s.marker, s.bare, s.absent)
  /\ pc = [p \in Processes |-> "closed"]
  /\ tries = [p \in Processes |-> 0]
  /\ batch = [p \in Processes |-> {}]
  /\ outstanding = [p \in Processes |-> 0]
  /\ done = [p \in Processes |-> 0]
  /\ held = [c \in Clients |-> [e \in Edges |-> None]]
  /\ log = [c \in Clients |-> None]
  /\ noted = [e \in Edges |-> {}]
  /\ crossed = {}
  /\ troubles = 0 /\ forces = s.forces

Init == \E s \in States : InitFrom(s)

Migrates(p) ==
  \/ CheckVersion(p) \/ RefuseNewer(p) \/ ReadVersion(p)
  \/ SelectEdges(p) \/ DeriveEvidence(p)
  \/ CountAbsent(p) \/ SelectBatch(p) \/ FlagBatch(p) \/ Recount(p)
  \/ WriteMarker(p)

Works(c) ==
  \/ TakeLog(c) \/ MarkLog(c) \/ Correct(c) \/ ObservationFails(c)
  \/ \E e \in Edges :
       \/ FindEdge(c, e) \/ AddEdge(c, e) \/ Forget(c, e)
       \/ c \in Workers /\ RecordObservation(c, e, log[c])
       \/ c \in Users /\ RecordObservation(c, e, c)

Next ==
  \/ \E p \in Processes :
       Open(p) \/ Migrates(p) \/ Conflict(p) \/ Breaks(p) \/ Close(p) \/ ForceMigrate(p)
  \/ \E c \in Clients : Works(c)
  \/ \E n \in Episodes : Ingest(n)
  \/ NewerBuild

Spec == Init /\ [][Next]_vars

\* A user asks again when an open failed; a process that runs goes on.
Fairness ==
  \A p \in Processes : WF_vars(Open(p)) /\ WF_vars(Migrates(p))
FairSpec == Spec /\ Fairness

---------------------------------------------------------------------------
(* Properties. *)

TypeOK ==
  /\ server \in BOOLEAN /\ marker \in 0..Newer
  /\ edges \in [Edges -> Edge]
  /\ flags \in [Episodes -> {"missing", "absent", "no", "yes", "gone"}]
  /\ pc \in [Processes -> {"closed", "opening", "migrate", "edges", "derive", "count",
                           "select", "flag", "recount", "mark", "open"}]
  /\ tries \in [Processes -> 0..Retries]
  /\ batch \in [Processes -> (SUBSET Edges) \cup (SUBSET Episodes)]
  /\ outstanding \in [Processes -> Nat] /\ done \in [Processes -> Nat]
  /\ held \in [Clients -> [Edges -> Edge \cup {None}]]
  /\ log \in [Clients -> Logs \cup {None}]
  /\ trusted \in BOOLEAN
  /\ noted \in [Edges -> SUBSET Notes] /\ crossed \in SUBSET Edges
  /\ troubles \in 0..MaxTroubles /\ forces \in 0..MaxForces

\* A marker that says a migration was done is right: later opens skip it, and
\* the extraction scan cannot see an episode without a value (migrate).
MarkerIsHonest == trusted => Honest(marker, Bare, Unflagged)

\* No open succeeds over a half-migrated store, whoever else migrates it and
\* wherever earlier passes broke off (backfill_episode_extracted).
OpensOnWhole ==
  [][\A p \in Processes :
       trusted /\ pc[p] # "open" /\ pc'[p] = "open" => Bare' = {} /\ Unflagged' = {}]_vars

\* Nothing but the observations on an edge moves its counts, and an archive
\* once extracted stays so: no backfill touches a row that has its value.
OnlyFills ==
  /\ \A e \in Edges : edges[e].is = "counted" /\ edges'[e].is = "counted"
                       => edges'[e].base = edges[e].base
  /\ \A n \in Episodes : flags[n] = "yes" => flags'[n] \in {"yes", "gone"}
BackfillsOnlyFill == [][OnlyFills]_vars

\* So it is in an embedded store, with kills, retries and --force.
BackfillsOnlyFillAlone == [][~server => OnlyFills]_vars

\* Only `--force` takes the marker back, and takes it away altogether; and what
\* a newer build has written in an embedded store this one leaves alone.
VersionRespected ==
  [][/\ marker' >= marker \/ marker' = 0
     /\ ~server /\ marker = Newer => UNCHANGED store]_vars

\* What was recorded on an edge counts as evidence for good, as long as no two
\* clients of the process were about to write the same edge.
ApartKept ==
  ~server => \A e \in Edges \ crossed : e \in Stored => noted[e] \subseteq edges[e].since

\* The same without the proviso: "the correction accumulates".
ObservationsKept ==
  ~server => \A e \in Edges : e \in Stored => noted[e] \subseteq edges[e].since

\* The store is brought up to date in the end.
MigrationFinishes ==
  <>[](marker >= SCHEMA_VERSION /\ (trusted => Bare = {} /\ Unflagged = {}))

===========================================================================
