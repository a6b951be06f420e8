---------------------------- MODULE RebuildSwap ----------------------------
(***************************************************************************)
(* `graph rebuild`: every archive is extracted again into                  *)
(* graph.v2-build/, which two renames put in the place of graph/           *)
(* (src/graph_cli.rs).                                                     *)
(*                                                                         *)
(* Several rebuilds may be started, each may fail, run out of its budget   *)
(* or be killed at any step, and is started again until it has swapped.    *)
(* Sessions end meanwhile: their hooks write archives and ask the daemon   *)
(* to ingest them.  Daemons start, and a start creates a missing graph/.   *)
(* The user does what the messages say.                                    *)
(*                                                                         *)
(* The admin lock is a file.  It keeps daemons and rebuilds out only as    *)
(* well as the code does: whoever judged an older lock removes the new one *)
(* by its path, a daemon that had looked at it before opens the store      *)
(* after, and hooks that find a daemon do not look at it at all.  What     *)
(* does keep two rebuilds apart is the lock of the build store that one of *)
(* them has open; a rebuild that opens its build in the middle of the swap *)
(* of another is left out.                                                 *)
(***************************************************************************)
EXTENDS Integers, Sequences, FiniteSets

CONSTANTS
  Logs,          \* log numbers
  Chunks,        \* how many chunks each archive is cut into, 0 for an empty one
  Archived,      \* archives that exist when we start
  Rebuilders,    \* rebuild commands
  None,
  Breaks,        \* which steps may fail, see Trouble
  MaxTroubles,   \* failures and kills in a behaviour
  MaxRebuilds,   \* rebuilds the user wants to see swapped
  MaxStarts      \* daemons that start

ASSUME ConstantsOK ==
  /\ Logs \subseteq Nat /\ Archived \subseteq Logs
  /\ Chunks \in [Logs -> Nat]
  /\ None \notin Rebuilders
  /\ MaxTroubles \in Nat /\ MaxRebuilds \in Nat /\ MaxStarts \in Nat

VARIABLES
  \* the memory directory
  archives,   \* conversations/*.md
  graph,      \* the store graph/ holds, None when there is no such directory
  build,      \* graph.v2-build/
  backups,    \* the graph.v1-backup-* directories
  config,     \* [graph] pipeline
  \* the rebuilds
  pc,         \* where each rebuild command is
  plan,       \* RebuildPlan.pending
  lockfile,   \* whose the admin lock file is
  builder,    \* who has the build open or swaps it
  todo,       \* what is left of the batch
  log,        \* the archive in progress
  at,         \* its next chunk
  tripped,    \* a chunk of it could not be stored
  again,      \* this is the second attempt
  moved,      \* the store this swap set aside
  \* the others
  hook,       \* what became of the request to ingest each archive
  daemon,     \* where the daemon is
  uses,       \* the store it has open, wherever that is, by its birth
  told,       \* what the last message asks the user to do
  named,      \* the backup it names
  \* observed and bounds
  served,     \* stores that a daemon or a swap has put to use, by their birth
  aside,      \* the store set aside last
  outdated,   \* served stores that missed an archive another one was given
  slipped,    \* archives ingested past a swap
  swaps, starts, troubles, clock

work == <<todo, log, at, tripped, again>>
lock == <<lockfile, builder>>
hooks == <<hook, daemon, uses>>
disk == <<archives, graph, build, backups, config>>
message == <<told, named>>
observed == <<served, aside, outdated, slipped>>
bounds == <<swaps, starts, troubles, clock>>
vars == <<disk, pc, plan, lock, work, moved, hooks, message, observed, bounds>>

---------------------------------------------------------------------------
(* Stores. *)

\* `eps`: the chunks stored as episodes of each log, in the order they were
\* written; `marked`: logs whose episodes are all `extracted`; `read`: logs
\* whose facts were written; `log`: daemon.log exists; `touched`: when an
\* entry was last added to the directory; `failed`: logs one of whose chunks
\* could once not be stored (observed).
Store == [born : Nat, kind : {"original", "build", "started"}, stamp : BOOLEAN,
          eps : [Logs -> Seq(Nat)], marked : SUBSET Logs, read : SUBSET Logs,
          log : BOOLEAN, touched : Nat, failed : SUBSET Logs]

Advices == {"half", "init", "remove", "config", "swapped"}

ASSUME NoneIsNothing == None \notin Store \cup Logs \cup Advices \cup Nat

NewStore(kind) ==
  [born |-> clock, kind |-> kind, stamp |-> FALSE, eps |-> [l \in Logs |-> <<>>],
   marked |-> {}, read |-> {}, log |-> kind = "started", touched |-> clock,
   failed |-> {}]

AllChunks(l) == [i \in 1..Chunks[l] |-> i]

\* A chunk-less archive is complete; the others need all their rows, marked.
CompleteByRows(st, l) ==            \* mutant of Complete
  Len(st.eps[l]) >= Chunks[l] /\ l \in st.marked
Complete(st, l) ==
  \/ Chunks[l] = 0
  \/ Len(st.eps[l]) >= Chunks[l] /\ l \in st.marked

PendingLogs(st) == {l \in archives : ~Complete(st, l)}

\* The entry `log` of daemon.log, added by the first daemon of a directory.
WithDaemonLog(st) ==
  IF st.log THEN st ELSE [st EXCEPT !.log = TRUE, !.touched = clock]

\* The directory's time is that of its last entry: a rename does not set it.
Newest == CHOOSE b \in backups : \A c \in backups : c.touched <= b.touched

Trouble(kind) ==
  /\ kind \in Breaks /\ troubles < MaxTroubles
  /\ troubles' = troubles + 1

NoTrouble == UNCHANGED troubles

Opened == {"opened", "picking", "storing", "extracting", "marking"}
BuildOpen ==
  \/ \E q \in Rebuilders : pc[q] \in Opened
  \/ build # None /\ build.born = uses

---------------------------------------------------------------------------
(* The plan, made before the lock is taken. *)

Wanted == swaps < MaxRebuilds
Tell(what, backup) == told' = what /\ named' = backup

\* graph/ is gone: a half swap is named when the build has every archive.
RefuseWithoutGraph(r) ==
  /\ pc[r] = "idle" /\ Wanted /\ archives # {} /\ graph = None
  /\ IF backups # {} /\ build # None
        THEN /\ ~BuildOpen
             /\ IF build.stamp /\ PendingLogs(build) = {}
                   THEN Tell("half", Newest)
                   ELSE Tell("init", None)
        ELSE Tell("init", None)
  /\ UNCHANGED <<disk, pc, plan, lock, work, moved, hooks, observed, bounds>>

RefuseUnstamped(r) ==
  /\ pc[r] = "idle" /\ Wanted /\ archives # {} /\ graph # None
  /\ build # None /\ ~BuildOpen /\ ~build.stamp
  /\ Tell("remove", None)
  /\ UNCHANGED <<disk, pc, plan, lock, work, moved, hooks, observed, bounds>>

\* A directory that another rebuild has open cannot be opened.
Prepare(r) ==
  /\ pc[r] = "idle" /\ Wanted /\ archives # {} /\ graph # None
  /\ IF build = None
        THEN plan' = [plan EXCEPT ![r] = {l \in archives : Chunks[l] > 0}]
        ELSE /\ ~BuildOpen /\ build.stamp
             /\ plan' = [plan EXCEPT ![r] = PendingLogs(build)]
  /\ pc' = [pc EXCEPT ![r] = "planned"]
  /\ UNCHANGED <<disk, lock, work, moved, hooks, message, observed, bounds>>

---------------------------------------------------------------------------
(* The rebuild, under the lock. *)

To(r, place) == pc' = [pc EXCEPT ![r] = place]

Outside == {"idle", "planned", "judged"}

Leave(r, file) ==
  /\ To(r, "idle")
  /\ plan' = [plan EXCEPT ![r] = {}]
  /\ lockfile' = file
  /\ IF builder = r
        THEN /\ builder' = None /\ moved' = None
             /\ todo' = {} /\ log' = None /\ at' = 0 /\ tripped' = FALSE /\ again' = FALSE
        ELSE UNCHANGED <<builder, moved, work>>

\* The command ends.  One that took the lock removes the file, whose ever it is.
End(r) == Leave(r, IF pc[r] \in Outside THEN lockfile ELSE None)

Stop(r) == End(r) /\ UNCHANGED <<disk, hooks, message, observed, swaps, starts, clock>>

TakeLock(r) ==
  /\ pc[r] = "planned" /\ lockfile = None
  /\ lockfile' = r
  /\ To(r, "locked")
  /\ UNCHANGED <<disk, plan, builder, work, moved, hooks, message, observed, bounds>>

\* The lock that was in the way has gone since or its owner is dead ...
JudgeDead(r) ==
  /\ pc[r] = "planned" /\ lockfile = None
  /\ Trouble("judge")
  /\ To(r, "judged")
  /\ UNCHANGED <<disk, plan, lock, work, moved, hooks, message, observed, swaps, starts,
                 clock>>

\* ... and what is removed is the file that is there now.
RemoveLock(r) ==
  /\ pc[r] = "judged"
  /\ lockfile' = None
  /\ To(r, "planned")
  /\ UNCHANGED <<disk, plan, builder, work, moved, hooks, message, observed, bounds>>

GiveUpOnLock(r) ==
  /\ pc[r] = "planned" /\ lockfile # None
  /\ NoTrouble /\ Stop(r)

\* stop_for_rebuild cannot stop the daemon, or the build cannot be opened, by
\* accident or because another rebuild has it open.
CannotOpen(r) ==
  /\ pc[r] = "locked"
  /\ IF BuildOpen THEN NoTrouble ELSE Trouble("open")
  /\ Stop(r)

\* The daemon that answers on the socket is stopped, and the build opened.
OpensAnyway(r) ==                   \* mutant of OpenBuild
  /\ pc[r] = "locked"
  /\ daemon' = "off" /\ uses' = None
  /\ IF build = None
        THEN build' = NewStore("build") /\ clock' = clock + 1
        ELSE UNCHANGED <<build, clock>>
  /\ builder' = r
  /\ To(r, "opened")
  /\ UNCHANGED <<archives, graph, backups, config, plan, lockfile, work, moved, hook,
                 message, observed, swaps, starts, troubles>>
OpenBuild(r) ==
  /\ pc[r] = "locked" /\ builder = None
  /\ IF daemon = "serving" THEN daemon' = "off" /\ uses' = None
                           ELSE UNCHANGED <<daemon, uses>>
  /\ IF build = None
        THEN build' = NewStore("build") /\ clock' = clock + 1
        ELSE UNCHANGED <<build, clock>>
  /\ builder' = r
  /\ To(r, "opened")
  /\ UNCHANGED <<archives, graph, backups, config, plan, lockfile, work, moved, hook,
                 message, observed, swaps, starts, troubles>>

\* ensure_v2_store: nothing but a rebuild writes here, so an unstamped build
\* has no entities.
StampBuild(r) ==
  /\ pc[r] = "opened"
  /\ build' = [build EXCEPT !.stamp = TRUE]
  /\ todo' = plan[r] /\ plan' = [plan EXCEPT ![r] = {}]
  /\ To(r, "picking")
  /\ UNCHANGED <<archives, graph, backups, config, lock, log, at, tripped, again,
                 moved, hooks, message, observed, bounds>>

\* The loop's head: what appeared or was left, until nothing is.
NoCatchUp(r) ==                     \* mutant of CatchUp
  /\ pc[r] = "picking" /\ todo = {}
  /\ To(r, "swapping")
  /\ UNCHANGED <<disk, plan, lock, work, moved, hooks, message, observed, bounds>>
CatchUp(r) ==
  /\ pc[r] = "picking" /\ todo = {}
  /\ todo' = PendingLogs(build)
  /\ To(r, IF PendingLogs(build) = {} THEN "swapping" ELSE "picking")
  /\ UNCHANGED <<disk, plan, lock, log, at, tripped, again, moved, hooks, message,
                 observed, bounds>>

\* ensure_episodes goes on after the rows that are there.
OneTooFar(l) == IF build.eps[l] = <<>> THEN 1 ELSE Len(build.eps[l]) + 2
                                    \* mutant of FirstMissing
FirstMissing(l) == Len(build.eps[l]) + 1

StartArchive(l, second) ==
  /\ at' = FirstMissing(l)
  /\ tripped' = FALSE
  /\ again' = second

BudgetSpent(r) ==
  /\ pc[r] = "picking" /\ todo # {}
  /\ Trouble("budget") /\ Stop(r)

PickLog(r) ==
  /\ pc[r] = "picking"
  /\ \E l \in todo :
       /\ \A k \in todo : l <= k
       /\ IF Chunks[l] = 0
             THEN /\ todo' = todo \ {l}
                  /\ UNCHANGED <<pc, log, at, tripped, again>>
             ELSE /\ log' = l
                  /\ StartArchive(l, FALSE)
                  /\ To(r, "storing")
                  /\ UNCHANGED todo
  /\ UNCHANGED <<disk, plan, lock, moved, hooks, message, observed, bounds>>

\* write_episodes goes on after a chunk it could not store.
StoreChunk(r) ==
  /\ pc[r] = "storing" /\ at <= Chunks[log]
  /\ at' = at + 1
  /\ \/ /\ build' = [build EXCEPT !.eps[log] = Append(@, at),
                                  !.marked = @ \ {log}]
        /\ NoTrouble /\ UNCHANGED tripped
     \/ /\ Trouble("episode")
        /\ tripped' = TRUE
        /\ build' = [build EXCEPT !.failed = @ \cup {log}]
  /\ UNCHANGED <<archives, graph, backups, config, pc, plan, lock, todo, log, again,
                 moved, hooks, message, observed, swaps, starts, clock>>

StoredAll(r) ==
  /\ pc[r] = "storing" /\ at > Chunks[log] /\ ~tripped
  /\ To(r, "extracting")
  /\ UNCHANGED <<disk, plan, lock, work, moved, hooks, message, observed, bounds>>

\* rebuild_with_retry: once more from the start, then the rebuild stops.
AttemptFails(r) ==
  IF again
    THEN Stop(r)
    ELSE /\ StartArchive(log, TRUE)
         /\ To(r, "storing")
         /\ UNCHANGED <<disk, plan, lock, todo, log, moved, hooks, message, observed,
                        swaps, starts, clock>>

StoredNotAll(r) ==
  /\ pc[r] = "storing" /\ at > Chunks[log] /\ tripped
  /\ NoTrouble /\ AttemptFails(r)

Extract(r) ==
  /\ pc[r] = "extracting"
  /\ build' = [build EXCEPT !.read = @ \cup {log}]
  /\ To(r, "marking")
  /\ UNCHANGED <<archives, graph, backups, config, plan, lock, work, moved, hooks,
                 message, observed, bounds>>

ExtractFails(r) ==
  /\ pc[r] = "extracting"
  /\ Trouble("extract") /\ AttemptFails(r)

\* A report that leaves the archive pending, or a mark that fails.
StopAt(r, place, kind) ==
  /\ pc[r] = place
  /\ Trouble(kind) /\ Stop(r)

Mark(r) ==
  /\ pc[r] = "marking"
  /\ build' = [build EXCEPT !.marked = @ \cup {log}]
  /\ todo' = todo \ {log}
  /\ log' = None /\ at' = 0 /\ tripped' = FALSE /\ again' = FALSE
  /\ To(r, "picking")
  /\ UNCHANGED <<archives, graph, backups, config, plan, lock, moved, hooks, message,
                 observed, bounds>>

---------------------------------------------------------------------------
(* The swap. *)

OnlyBackup == {graph}               \* mutant of WithBackup
WithBackup == backups \cup {graph}  \* unique_backup finds a free name

RecordFirst(r) ==                   \* mutant of MoveAside
  /\ pc[r] = "swapping" /\ graph # None
  /\ backups' = WithBackup
  /\ moved' = graph /\ aside' = graph.born
  /\ graph' = None
  /\ config' = "v2"
  /\ To(r, "halfway")
  /\ UNCHANGED <<archives, build, plan, lock, work, hooks, message, served, outdated,
                 slipped, bounds>>
MoveAside(r) ==
  /\ pc[r] = "swapping" /\ graph # None
  /\ backups' = WithBackup
  /\ moved' = graph /\ aside' = graph.born
  /\ graph' = None
  /\ To(r, "halfway")
  /\ UNCHANGED <<archives, build, config, plan, lock, work, hooks, message, served,
                 outdated, slipped, bounds>>

CannotMoveAside(r) ==
  /\ pc[r] = "swapping"
  /\ IF graph = None THEN NoTrouble ELSE Trouble("rename")
  /\ Stop(r)

\* The build was just caught up.
Serve(st) == served' = served \cup {st.born} /\ outdated' = outdated \ {st.born}

MoveIn(r) ==
  /\ pc[r] = "halfway" /\ graph = None
  /\ graph' = build /\ build' = None
  /\ Serve(build)
  /\ swaps' = swaps + 1
  /\ To(r, "recording")
  /\ UNCHANGED <<aside, slipped, archives, backups, config, plan, lock, work, moved, hooks, message,
                 starts, troubles, clock>>

\* A directory that a starting daemon has put there is in the way.
CannotMoveIn(r) ==
  /\ pc[r] = "halfway"
  /\ IF graph = None THEN Trouble("rename") ELSE NoTrouble
  /\ To(r, "undoing")
  /\ UNCHANGED <<disk, plan, lock, work, moved, hooks, message, observed, swaps, starts, clock>>

MoveBack(r) ==
  /\ pc[r] = "undoing" /\ graph = None
  /\ graph' = moved /\ backups' = backups \ {moved}
  /\ End(r)
  /\ UNCHANGED <<archives, build, config, hooks, message, observed, bounds>>

CannotMoveBack(r) ==
  /\ pc[r] = "undoing"
  /\ IF graph = None THEN Trouble("rename") ELSE NoTrouble
  /\ Stop(r)

RecordPipeline(r) ==
  /\ pc[r] = "recording"
  /\ \/ config' = "v2" /\ NoTrouble /\ Tell("swapped", moved)
     \/ Trouble("config") /\ Tell("config", moved) /\ UNCHANGED config
  /\ End(r)
  /\ UNCHANGED <<archives, graph, build, backups, hooks, observed, swaps, starts, clock>>

\* Whoever finds the lock file of a killed command takes it for none.
Crash(r) ==
  /\ pc[r] # "idle"
  /\ Trouble("crash")
  /\ Leave(r, IF lockfile = r THEN None ELSE lockfile)
  /\ UNCHANGED <<disk, hooks, message, observed, swaps, starts, clock>>

---------------------------------------------------------------------------
(* Hooks and daemons. *)

\* archive, then ingest_into_graph: nothing is asked when there is no graph/.
Archive(l) ==
  /\ l \notin archives
  /\ archives' = archives \cup {l}
  /\ hook' = [hook EXCEPT ![l] = IF graph = None THEN "failed" ELSE "waiting"]
  /\ UNCHANGED <<graph, build, backups, config, pc, plan, lock, work, moved, daemon, uses,
                 message, observed, bounds>>

\* run() and spawn_daemon create graph/ and daemon.log before they look at
\* the admin lock.
DaemonStarts ==
  /\ daemon = "off" /\ starts < MaxStarts
  /\ daemon' = "started" /\ starts' = starts + 1
  /\ graph' = IF graph = None THEN NewStore("started") ELSE WithDaemonLog(graph)
  /\ clock' = clock + 1
  /\ UNCHANGED <<archives, build, backups, config, pc, plan, lock, work, moved, hook, uses,
                 message, observed, swaps, troubles>>

\* wait_for_admin_lock.
DaemonPasses ==
  /\ daemon = "started" /\ lockfile = None
  /\ daemon' = "checked"
  /\ UNCHANGED <<disk, pc, plan, lock, work, moved, hook, uses, message, observed, bounds>>

\* open_embedded creates the store when there is none; the socket is published.
DaemonOpens ==
  /\ daemon = "checked"
  /\ daemon' = "serving"
  /\ IF graph = None
        THEN graph' = NewStore("started") /\ clock' = clock + 1
        ELSE UNCHANGED <<graph, clock>>
  /\ uses' = graph'.born
  /\ served' = served \cup {graph'.born}
  /\ UNCHANGED <<aside, outdated, slipped, archives, build, backups, config, pc, plan, lock,
                 work, moved, hook, message, swaps, starts, troubles>>

\* It is idle, killed, stopped by a command or cannot go on.
DaemonEnds ==
  /\ daemon # "off"
  /\ daemon' = "off" /\ uses' = None
  /\ UNCHANGED <<disk, pc, plan, lock, work, moved, hook, message, observed, bounds>>

\* A rebuild has found its build complete and is about to put it in place.
Swapping == \E r \in Rebuilders : pc[r] \in {"swapping", "halfway", "undoing"}

\* The archive is appended to the store the daemon uses, under whatever name,
\* and episodes which the log already has are not looked for.
Given(st, l) ==
  IF st = None THEN None
  ELSE IF st.born # uses THEN st
  ELSE [st EXCEPT !.eps[l] = @ \o AllChunks(l),
                  !.marked = IF Chunks[l] = 0 THEN @ ELSE @ \ {l}]

\* The daemon carries out the request of a hook, which only needs its socket.
Ingest(l) ==
  /\ hook[l] = "waiting" /\ daemon = "serving"
  /\ hook' = [hook EXCEPT ![l] = "done"]
  /\ graph' = Given(graph, l) /\ build' = Given(build, l)
  /\ backups' = {Given(st, l) : st \in backups}
  /\ moved' = Given(moved, l) /\ named' = Given(named, l)
  /\ IF Swapping \/ graph = None \/ graph.born # uses
        THEN slipped' = slipped \cup {l} /\ UNCHANGED outdated
        ELSE outdated' = outdated \cup (served \ {uses}) /\ UNCHANGED slipped
  /\ UNCHANGED <<aside, served, archives, config, pc, plan, lock, work, daemon, uses, told,
                 bounds>>

IngestGivesUp(l) ==
  /\ hook[l] = "waiting"
  /\ hook' = [hook EXCEPT ![l] = "failed"]
  /\ UNCHANGED <<disk, pc, plan, lock, work, moved, daemon, uses, message, observed, bounds>>

---------------------------------------------------------------------------
(* The user, who acts while no rebuild is at work. *)

Advised(what) == told = what /\ builder = None
Done == Tell(None, None)

RemoveBuild ==
  /\ Advised("remove") /\ Done
  /\ build' = None
  /\ UNCHANGED <<archives, graph, backups, config, pc, plan, lock, work, moved, hooks,
                 observed, bounds>>

FinishSwap ==
  /\ Advised("half") /\ graph = None /\ build # None /\ Done
  /\ graph' = build /\ build' = None /\ config' = "v2"
  /\ Serve(build)
  /\ swaps' = swaps + 1
  /\ UNCHANGED <<aside, slipped, archives, backups, pc, plan, lock, work, moved, hooks, starts,
                 troubles, clock>>

RollBackHalf ==
  /\ Advised("half") /\ graph = None /\ named \in backups /\ Done
  /\ graph' = named /\ backups' = backups \ {named} /\ config' = "v1"
  /\ UNCHANGED <<archives, build, pc, plan, lock, work, moved, hooks, observed, bounds>>

\* `graph init`: opening the store creates it.
InitGraph ==
  /\ Advised("init") /\ Done
  /\ graph' = IF graph = None THEN NewStore("started") ELSE graph
  /\ clock' = clock + 1
  /\ UNCHANGED <<archives, build, backups, config, pc, plan, lock, work, moved, hooks,
                 observed, swaps, starts, troubles>>

SetPipeline ==
  /\ Advised("config") /\ Done
  /\ config' = "v2"
  /\ UNCHANGED <<archives, graph, build, backups, pc, plan, lock, work, moved, hooks,
                 observed, bounds>>

\* The rollback the report of a finished rebuild prints.
UndoSwap ==
  /\ Advised("swapped") /\ graph # None /\ build = None /\ named \in backups /\ Done
  /\ build' = graph /\ graph' = named /\ backups' = backups \ {named}
  /\ config' = "v1"
  /\ UNCHANGED <<archives, pc, plan, lock, work, moved, hooks, observed, bounds>>

---------------------------------------------------------------------------
(* The specification. *)

OriginalStore(stored) ==
  [born |-> 0, kind |-> "original", stamp |-> FALSE,
   eps |-> [l \in Logs |-> IF l \in stored THEN AllChunks(l) ELSE <<>>],
   marked |-> {}, read |-> {}, log |-> FALSE, touched |-> 0,
   failed |-> {}]

Init ==
  /\ archives = Archived
  /\ graph = OriginalStore(Archived)
  /\ build = None /\ backups = {} /\ config = "v1"
  /\ pc = [r \in Rebuilders |-> "idle"]
  /\ plan = [r \in Rebuilders |-> {}]
  /\ lockfile = None /\ builder = None
  /\ todo = {} /\ log = None /\ at = 0 /\ tripped = FALSE /\ again = FALSE
  /\ moved = None
  /\ hook = [l \in Logs |-> IF l \in Archived THEN "done" ELSE "none"]
  /\ daemon = "off" /\ uses = None
  /\ told = None /\ named = None
  /\ served = {0} /\ aside = None /\ outdated = {} /\ slipped = {}
  /\ swaps = 0 /\ starts = 0 /\ troubles = 0 /\ clock = 1

Start(r) == RefuseWithoutGraph(r) \/ RefuseUnstamped(r) \/ Prepare(r)

Step(r) ==
  \/ TakeLock(r) \/ RemoveLock(r) \/ OpenBuild(r) \/ StampBuild(r) \/ CatchUp(r) \/ PickLog(r)
  \/ StoreChunk(r) \/ StoredAll(r) \/ StoredNotAll(r) \/ Extract(r) \/ Mark(r)
  \/ MoveAside(r) \/ MoveIn(r) \/ MoveBack(r) \/ RecordPipeline(r)
  \/ CannotMoveAside(r) \/ CannotMoveIn(r) \/ CannotMoveBack(r)

Failure(r) ==
  \/ JudgeDead(r) \/ GiveUpOnLock(r) \/ CannotOpen(r) \/ BudgetSpent(r) \/ ExtractFails(r)
  \/ StopAt(r, "extracting", "pending") \/ StopAt(r, "marking", "mark")
  \/ Crash(r)

Others ==
  \/ \E l \in Logs : Archive(l) \/ Ingest(l) \/ IngestGivesUp(l)
  \/ DaemonStarts \/ DaemonPasses \/ DaemonOpens \/ DaemonEnds

User ==
  RemoveBuild \/ FinishSwap \/ RollBackHalf \/ InitGraph \/ SetPipeline \/ UndoSwap

Next == (\E r \in Rebuilders : Start(r) \/ Step(r) \/ Failure(r)) \/ Others \/ User

Spec == Init /\ [][Next]_vars

\* The user starts a rebuild again and does what is asked; a process runs.
Fairness ==
  /\ \A r \in Rebuilders : WF_vars(Start(r) \/ Step(r))
  /\ WF_vars(User)

FairSpec == Spec /\ Fairness

---------------------------------------------------------------------------
(* Properties. *)

Places == {"idle", "planned", "judged", "locked", "swapping", "halfway", "undoing", "recording"}
            \cup Opened

\* Types; whoever is at work on the build is alone with it, and the daemon's
\* store is known.
TypeOK ==
  /\ archives \subseteq Logs
  /\ graph \in Store \cup {None} /\ build \in Store \cup {None}
  /\ backups \subseteq Store
  /\ config \in {"v1", "v2"}
  /\ pc \in [Rebuilders -> Places] /\ plan \in [Rebuilders -> SUBSET Logs]
  /\ lockfile \in Rebuilders \cup {None} /\ builder \in Rebuilders \cup {None}
  /\ \A r \in Rebuilders : pc[r] \notin Outside \cup {"locked"} <=> builder = r
  /\ todo \subseteq Logs /\ log \in Logs \cup {None} /\ at \in Nat
  /\ tripped \in BOOLEAN /\ again \in BOOLEAN
  /\ moved \in Store \cup {None}
  /\ hook \in [Logs -> {"none", "waiting", "done", "failed"}]
  /\ daemon \in {"off", "started", "checked", "serving"}
  /\ uses \in Nat \cup {None} /\ (daemon = "serving" <=> uses # None)
  /\ told \in Advices \cup {None}
  /\ named \in Store \cup {None}
  /\ served \subseteq Nat /\ outdated \subseteq served /\ slipped \subseteq Logs
  /\ aside \in Nat \cup {None}
  /\ swaps \in Nat /\ starts \in Nat /\ troubles \in Nat /\ clock \in Nat

Present == ({graph, build} \ {None}) \cup backups

\* A store that was put to use is still in the memory directory, whatever
\* failed, was rolled back or was removed on advice, and whoever writes to it
\* under its old name (rename_swapping, unique_backup, removal_hint).
StoresKept == \A i \in served : \E st \in Present : st.born = i

Rebuilt(st) == st # None /\ st.kind = "build"

\* Each archive is in the store, or its hook has yet to ingest it or has said
\* that it could not.
Has(st, l) == Len(st.eps[l]) >= Chunks[l] \/ hook[l] \in {"waiting", "failed"}
Caught(st) == \A l \in archives \ slipped : Has(st, l)

\* A rebuilt graph/ has every archive, unless one was given to another store
\* after it served and the user went back to it: none falls between the plan,
\* the catch-up and the swap, whatever fails and is undone on the way, and
\* whoever else has or loses the admin lock (drive_rebuild, rename_swapping,
\* the advice that names a half swap).  The exception are archives that a
\* daemon ingested between the last catch-up and the swap, or into the
\* directory which a swap had set aside: nothing in the code keeps it from
\* that (open_store, start_daemon).
NothingLeftBehind == Rebuilt(graph) /\ graph.born \notin outdated => Caught(graph)

\* Without the exception: "the build, the catch-up of logs that appear while
\* it runs, the swap, and the config write all hold the admin lock".
NothingSlipsPast ==
  Rebuilt(graph) /\ graph.born \notin outdated => \A l \in archives : Has(graph, l)

HasChunks(st, l) == \A i \in 1..Chunks[l] : \E j \in DOMAIN st.eps[l] : st.eps[l][j] = i

\* A log counts as finished in a build only when its facts were written and
\* each of its chunks is there, also after kills between any two writes, as
\* long as no single chunk failed (ensure_episodes, log_is_complete,
\* mark_extracted after extract_log).
FinishedIsWhole ==
  \A st \in Present :
    Rebuilt(st) => \A l \in st.marked :
      l \in st.read /\ (l \in st.failed \/ HasChunks(st, l))

\* The same when one chunk fails and the archive is taken up again.
NoChunkLost ==
  \A st \in Present : Rebuilt(st) => \A l \in st.marked : HasChunks(st, l)

\* The config asks for v2 only when the store that served before or the build
\* in its place is stamped v2, whichever step of a swap fails or is undone
\* (swap_and_record, the rollback lines of the messages).
PipelineAgrees ==
  config = "v2" /\ graph # None => graph.stamp \/ graph.kind = "started"

\* A rebuild that is started again after failures and kills, by a user who
\* does what the messages say, is swapped in.
RebuildsFinish == <>(swaps = MaxRebuilds)

\* No chunk of an archive is stored twice in a rebuilt store.
EpisodesOnce ==
  \A st \in Present :
    Rebuilt(st) => \A l \in Logs : \A i, j \in DOMAIN st.eps[l] :
      st.eps[l][i] = st.eps[l][j] => i = j

\* A resumed build does not extract an archive that is finished in it.
OnlyUnfinished ==
  \A r \in Rebuilders : pc[r] = "extracting" => ~Complete(build, log)

\* The backup that a half swap's message names is the store which the
\* interrupted swap set aside: rolling back to it undoes that swap.
HalfSwapNamesLast ==
  [][told' = "half" /\ told # "half" => named'.born = aside]_vars

\* A crash between the two renames is answered with the commands to finish.
HalfSwapNamed == told # "init"
=============================================================================
