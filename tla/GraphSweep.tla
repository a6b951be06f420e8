----------------------------- MODULE GraphSweep -----------------------------
(***************************************************************************)
(* `graph gc` (src/graph/gc.rs) at work on the rows of StoreMigration:     *)
(* edges nobody believes any more go, then entities without edges, then    *)
(* episodes that no surviving record cites.                                *)
(*                                                                         *)
(* Everything is read and decided first, with other processes of a server  *)
(* at work in between, and then deleted record by record; a deletion that  *)
(* fails is reported and the sweep goes on.                                *)
(***************************************************************************)
EXTENDS StoreMigration

CONSTANTS
  Sweepers,     \* processes that run `graph gc --episodes`, commands of their own
  Entities,
  Ends,         \* the two entities of each edge
  Source,       \* the archive each edge or entity was extracted from
  Kept,         \* entities that were retrieved, or belong to a pipeline document
  Old,          \* edges past the age limit, which decay has brought below it
  Spent         \* episodes past theirs, never retrieved, written by the agent

ASSUME SweepConstantsOK ==
  /\ Sweepers \subseteq Processes /\ \A c \in Clients : Home[c] \notin Sweepers
  /\ None \notin Entities
  /\ Ends \in [Edges -> SUBSET Entities] /\ Source \in [Edges \cup Entities -> Logs]
  /\ Kept \subseteq Entities /\ Old \subseteq Edges /\ Spent \subseteq Episodes

VARIABLES
  entities,     \* the entities stored
  phase,        \* where the sweep is, "off" when none runs
  doomed, orphans, spent,   \* what it has decided to delete and not deleted yet
  condemned,    \* all the edges it decided to delete
  halved,       \* the entity whose edges are deleted and which is not yet
  failed,       \* some deletion of a sweep failed
  sweeps        \* runs still to come, as many as the store we start from says

sweepVars == <<phase, doomed, orphans, spent, condemned, halved>>
allVars == <<vars, entities, sweepVars, failed, sweeps>>
rest == <<server, marker, pass, work, trusted, crossed, forces>>

\* Decay has made an old edge weak; seen again, it counts from that day.
Weak(e) == e \in Old /\ edges[e].since \cap Logs = {}
Touching(x) == {e \in Stored : x \in Ends[e]}
Existing == {n \in Episodes : flags[n] \in {"absent", "no", "yes"}}

---------------------------------------------------------------------------
(* Reading and deciding. *)

\* Phases 1 and 2, over the edges as they were read.
ReadEdges(p) ==
  /\ p \in Sweepers /\ pc[p] = "open" /\ phase = "off"
  /\ sweeps > 0 /\ sweeps' = sweeps - 1
  /\ doomed' = {e \in Stored : Weak(e)}
  /\ condemned' = doomed'
  /\ phase' = "entities"
  /\ UNCHANGED <<vars, entities, orphans, spent, halved, failed>>

\* Phase 3: entities whose remaining edges are all to be deleted.
Unretrieved == entities \ Kept       \* mutant of Orphaned
Orphaned == {x \in entities \ Kept : Touching(x) \subseteq doomed}
JudgeEntities ==
  /\ phase = "entities"
  /\ orphans' = Orphaned
  /\ phase' = "episodes"
  /\ UNCHANGED <<vars, entities, doomed, spent, condemned, halved, failed, sweeps>>

\* Phase 4: the sessions cited by what survives.
Survivors == (Stored \ doomed) \cup (entities \ orphans)
UncitedByEdges ==                    \* mutant of Uncited
  {n \in Spent \cap Existing : \A e \in Stored \ doomed : Source[e] # LogOf[n]}
Uncited == {n \in Spent \cap Existing : \A r \in Survivors : Source[r] # LogOf[n]}
JudgeEpisodes ==
  /\ phase = "episodes"
  /\ spent' = Uncited
  /\ phase' = "delete"
  /\ UNCHANGED <<vars, entities, doomed, orphans, condemned, halved, failed, sweeps>>

---------------------------------------------------------------------------
(* Deleting. *)

Drop(gone) ==
  /\ edges' = [e \in Edges |-> IF e \in gone /\ e \in Stored THEN Forgotten ELSE edges[e]]
  /\ noted' = [e \in Edges |-> IF e \in gone THEN {} ELSE noted[e]]

DeleteEdge(e) ==
  /\ phase = "delete" /\ e \in doomed
  /\ doomed' = doomed \ {e}
  /\ \/ /\ Drop({e})
        /\ UNCHANGED <<troubles, failed>>
     \/ /\ Trouble /\ failed' = TRUE
        /\ UNCHANGED <<edges, noted>>
  /\ UNCHANGED <<rest, flags, entities, phase, orphans, spent, condemned, halved, sweeps>>

\* delete_entity: first whatever edges it has, then the entity.
DeleteItsEdges(x) ==
  /\ phase = "delete" /\ doomed = {} /\ halved = None /\ x \in orphans
  /\ orphans' = orphans \ {x}
  /\ \/ /\ Drop(Touching(x)) /\ halved' = x
        /\ UNCHANGED <<troubles, failed>>
     \/ /\ Trouble /\ failed' = TRUE
        /\ UNCHANGED <<edges, noted, halved>>
  /\ UNCHANGED <<rest, flags, entities, phase, doomed, spent, condemned, sweeps>>
DeleteEntity ==
  /\ phase = "delete" /\ halved # None
  /\ halved' = None
  /\ \/ /\ entities' = entities \ {halved}
        /\ UNCHANGED <<troubles, failed>>
     \/ /\ Trouble /\ failed' = TRUE
        /\ UNCHANGED entities
  /\ UNCHANGED <<store, noted, rest, phase, doomed, orphans, spent, condemned, sweeps>>

DeleteEpisode(n) ==
  /\ phase = "delete" /\ doomed = {} /\ orphans = {} /\ halved = None
  /\ n \in spent
  /\ spent' = spent \ {n}
  /\ \/ /\ flags' = [flags EXCEPT ![n] = "gone"]
        /\ UNCHANGED <<troubles, failed>>
     \/ /\ Trouble /\ failed' = TRUE
        /\ UNCHANGED flags
  /\ UNCHANGED <<rest, edges, noted, entities, phase, doomed, orphans, condemned, halved, sweeps>>

NoSweep ==
  /\ phase' = "off" /\ doomed' = {} /\ orphans' = {} /\ spent' = {}
  /\ condemned' = {} /\ halved' = None

EndSweep ==
  /\ phase = "delete" /\ doomed = {} /\ orphans = {} /\ halved = None /\ spent = {}
  /\ NoSweep
  /\ UNCHANGED <<vars, entities, failed, sweeps>>

---------------------------------------------------------------------------
(* The composition. *)

\* A step of the store's other users.  An edge is only created between
\* entities there are, and a sweep ends with its process.
Sweeping(p) == p \in Sweepers /\ phase # "off"
StoreStep ==
  /\ Next
  /\ \A e \in Edges :
       edges[e].is = "missing" /\ edges'[e].is # "missing" => Ends[e] \subseteq entities
  /\ IF \E p \in Processes : Sweeping(p) /\ pc[p] = "open" /\ pc'[p] # "open"
     THEN NoSweep ELSE UNCHANGED sweepVars
  /\ UNCHANGED <<entities, failed, sweeps>>

SweepStep ==
  \/ \E p \in Processes : ReadEdges(p)
  \/ JudgeEntities \/ JudgeEpisodes
  \/ \E e \in Edges : DeleteEdge(e)
  \/ \E x \in Entities : DeleteItsEdges(x)
  \/ DeleteEntity
  \/ \E n \in Episodes : DeleteEpisode(n)
  \/ EndSweep

SweepInit ==
  /\ \E s \in States : InitFrom(s) /\ sweeps = s.sweeps
  /\ entities = Entities
  /\ phase = "off" /\ doomed = {} /\ orphans = {} /\ spent = {}
  /\ condemned = {} /\ halved = None /\ failed = FALSE

SweepNext == StoreStep \/ SweepStep

SweepSpec == SweepInit /\ [][SweepNext]_allVars
SweepFairSpec == SweepSpec /\ Fairness

---------------------------------------------------------------------------
(* Properties. *)

\* A sweep takes no edge but those it found weak: deleting an entity for want
\* of edges does not take a believed one along.
Deletes == phase' = "delete" /\ <<doomed, orphans>>' # <<doomed, orphans>>
TakesWeak(sure) ==
  sure /\ Deletes =>
    \A e \in Stored : edges'[e].is = "gone" => e \in condemned
OnlyWeakGo == [][TakesWeak(~server)]_allVars

\* The same when other processes of a server add edges during the sweep.
OnlyWeakGoShared == [][TakesWeak(TRUE)]_allVars

\* "so is anything a surviving record cites as its source": an episode is
\* collected only when no edge or entity that is left cites its archive.
Cites(r, n) == r \in Stored \cup entities /\ Source[r] = LogOf[n]
CitedStay(sure) ==
  sure => \A n \in Existing : flags'[n] = "gone" =>
            \A r \in Edges \cup Entities : ~Cites(r, n)'
CitedEpisodesStay == [][CitedStay(~server)]_allVars

\* That holds when every deletion succeeded.
CitedEpisodesStayUnfailed == [][CitedStay(~server /\ ~failed')]_allVars

===========================================================================
