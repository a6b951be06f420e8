-------------------------- MODULE ExtractionWorker --------------------------
(***************************************************************************)
(* Background extraction inside one memory directory's daemon              *)
(* (src/serve_extract.rs, the idle tracking and shutdown of src/serve.rs). *)
(*                                                                         *)
(* Clients ingest archives, the daemon waits until nobody has asked for    *)
(* anything for a while, and its worker extracts the pending archives in   *)
(* small batches.  Archives that fail twice are set aside, three failures  *)
(* in a row switch the worker off.  Meanwhile clients connect, the daemon  *)
(* goes idle, is told to stop or is killed, and the provider fails.        *)
(*                                                                         *)
(* An archive is its log number.  Its episodes arrive in two writes, so    *)
(* that something can happen in between; the file they come from is        *)
(* complete before the first.                                              *)
(***************************************************************************)
EXTENDS Integers, FiniteSets

CONSTANTS
  Logs,              \* log numbers
  Bad,               \* archives that no provider extracts (unreadable, gone)
  Pending0,          \* archives ingested but not extracted when we start
  BatchSize,         \* [extraction] batch_size, at least 1
  IdleExit,          \* FALSE: idle_timeout_secs = 0 or --foreground
  Writable,          \* FALSE: the quarantine file cannot be written
  CaptureRuns,       \* TRUE: the capture worker of the daemon ingests, too
  StoreErrors,       \* TRUE: a query of the store may fail
  LongTimeout,       \* TRUE: a worker with work left never sees the daemon go idle
  Abandons,          \* TRUE: the waits of a stopping daemon may time out
  None,
  MaxConnections, MaxOutages, MaxKills, MaxStops  \* bounds of the disturbances

ASSUME ConstantsAssumption ==
  /\ Logs \subseteq Nat /\ IsFiniteSet(Logs)
  /\ Bad \subseteq Logs /\ Pending0 \subseteq Logs
  /\ BatchSize \in Nat \ {0}
  /\ {IdleExit, Writable, CaptureRuns, StoreErrors, LongTimeout, Abandons} \subseteq BOOLEAN
  /\ None \notin Logs
  /\ {MaxConnections, MaxOutages, MaxKills, MaxStops} \subseteq Nat

MAX_UNIT_ATTEMPTS == 2
MAX_CONSECUTIVE_FAILURES == 3
EpisodesPerLog == 2
ReadLimit == 2         \* reads of an archive are counted up to here

VARIABLES
  \* the store and the files
  episodes,     \* per log: how many of its episodes are stored
  marked,       \* per log: how many of them are extracted = true
  quarantine,   \* the lines of graph/extraction-quarantine.txt
  read,         \* per log: how often its text went into the graph (observed)
  \* the daemon
  life,         \* where run() is
  stopping,     \* the ShutdownSignal is latched
  age,          \* of last_activity: 0 recent, 1 quiet, 2 seen quiet, 3 idle
  clients,      \* open connections that ask for nothing of interest here
  ingest,       \* the ingest in progress: its log and who asked for it
  \* the worker
  at,           \* where ExtractionWorker::run is
  queue,        \* what is left of the batch taken
  unit,         \* the archive in extract()
  yield,        \* archives extracted in this batch
  attempts, skipped, streak,
  \* the outside
  up,           \* the provider answers
  opened, outages, kills, stops   \* disturbances so far

store == <<episodes, marked, quarantine, read>>
activity == <<age, clients, ingest>>
ladder == <<attempts, skipped, streak>>
worker == <<at, queue, unit, yield, ladder>>
counters == <<opened, outages, kills, stops>>
vars == <<store, life, stopping, activity, worker, up, counters>>

Idle == [log |-> None, by |-> "nobody"]

TypeOK ==
  /\ episodes \in [Logs -> 0..EpisodesPerLog]
  /\ marked \in [Logs -> 0..EpisodesPerLog]
  /\ quarantine \subseteq Logs
  /\ read \in [Logs -> 0..ReadLimit]
  /\ life \in {"down", "serving", "idleExit", "closing"}
  /\ stopping \in BOOLEAN /\ age \in 0..3 /\ clients \in 0..MaxConnections
  /\ ingest \in [log : Logs, by : {"client", "capture"}] \cup {Idle}
  /\ at \in {"off", "poll", "list", "batch", "extract", "mark"}
  /\ queue \subseteq Logs /\ unit \in Logs \cup {None} /\ yield \in Nat
  /\ attempts \in [Logs -> Nat] /\ skipped \subseteq Logs /\ streak \in Nat
  /\ up \in BOOLEAN
  /\ opened \in 0..MaxConnections /\ outages \in 0..MaxOutages
  /\ kills \in 0..MaxKills /\ stops \in 0..MaxStops

Fresh ==
  /\ attempts = [l \in Logs |-> 0] /\ skipped = {} /\ streak = 0
  /\ queue = {} /\ unit = None /\ yield = 0

Init ==
  /\ episodes = [l \in Logs |-> IF l \in Pending0 THEN EpisodesPerLog ELSE 0]
  /\ marked = [l \in Logs |-> 0]
  /\ quarantine = {} /\ read = [l \in Logs |-> 0]
  /\ life = "serving" /\ stopping = FALSE /\ age = 0
  /\ clients = 0 /\ ingest = Idle
  /\ at = "poll" /\ Fresh
  /\ up = TRUE
  /\ opened = 0 /\ outages = 0 /\ kills = 0 /\ stops = 0

-----------------------------------------------------------------------------
(* Helpers                                                                 *)

\* The at most k smallest members of S: ORDER BY and take(k).
FirstOf(k, S) == {x \in S : Cardinality({y \in S : y < x}) < k}

Awaiting == {l \in Logs : marked[l] < episodes[l]}

\* GraphExtractionUnit::pending, without its limit.
Eligible == Awaiting \ quarantine

HasConnections == clients > 0 \/ ingest.by = "client"
Quiet == ~HasConnections /\ age > 0

\* A batch or a sweep holds its BackgroundGuard.
Busy == at \in {"batch", "extract", "mark"} \/ ingest.by = "capture"

Touch == age' = 0

\* Mutant of TakePending: no over-fetch.
ExactFetch == FirstOf(BatchSize, Eligible) \ skipped

\* Mutant of TakePending: archives given up on come back.
ForgetSkipped == FirstOf(BatchSize, Eligible)

\* take_pending: over-fetch by what may have to be dropped.
TakePending ==
  FirstOf(BatchSize, FirstOf(BatchSize + Cardinality(skipped), Eligible) \ skipped)

\* run_batch ends, by any of its ways out: finish_batch restarts the idle
\* clock when something was extracted, and the guard is dropped.
EndBatch(next, extracted) ==
  /\ at' = next
  /\ queue' = {} /\ unit' = None /\ yield' = 0
  /\ age' = IF extracted > 0 THEN 0 ELSE age

\* The daemon's memory is gone, and with it every guard and connection.
ProcessEnds ==
  /\ life' = "down" /\ stopping' = FALSE /\ at' = "off"
  /\ clients' = 0 /\ ingest' = Idle /\ age' = 0
  /\ attempts' = [l \in Logs |-> 0] /\ skipped' = {} /\ streak' = 0
  /\ queue' = {} /\ unit' = None /\ yield' = 0

-----------------------------------------------------------------------------
(* Clients and the clock                                                   *)

\* A command finds no daemon and starts one (spawn in serve_extract.rs).
StartDaemon ==
  /\ life = "down"
  /\ life' = "serving" /\ at' = "poll"
  /\ Touch
  /\ UNCHANGED <<store, stopping, clients, ingest, queue, unit, yield, ladder, up, counters>>

\* ActivityGuard: a connection opens and closes.
Connect ==
  /\ life = "serving" /\ opened < MaxConnections
  /\ clients' = clients + 1 /\ opened' = opened + 1
  /\ Touch
  /\ UNCHANGED <<store, life, stopping, ingest, worker, up, outages, kills, stops>>

\* Mutant of Disconnect: the end of an ingest's connection is counted twice.
DisconnectTwice ==
  /\ HasConnections
  /\ clients' = clients - 1
  /\ Touch
  /\ UNCHANGED <<store, life, stopping, ingest, worker, up, counters>>

Disconnect ==
  /\ clients > 0
  /\ clients' = clients - 1
  /\ Touch
  /\ UNCHANGED <<store, life, stopping, ingest, worker, up, counters>>

\* The worker has nothing to do that it knows how to do.
CaughtUp == at = "off" \/ (at = "poll" /\ Eligible \subseteq skipped)

\* Time passes since the last activity.  The worker polls four times in a quiet
\* period (poll_interval), and the idle timeout is longer than that (spawn warns
\* if it is not), so a worker that waits for quiet sees it before the daemon is
\* idle.  With LongTimeout (the defaults: quiet after two minutes, idle after an
\* hour) it also has the time to work off what it found.
Tick ==
  /\ life # "down" /\ age < 3
  /\ age = 1 => at # "poll" \/ stopping
  /\ age = 2 /\ LongTimeout => CaughtUp \/ stopping
  /\ age' = age + 1
  /\ UNCHANGED <<store, life, stopping, clients, ingest, worker, up, counters>>

\* write_episodes has stored the first episode, for a client's IngestArchive
\* request or for the capture worker's sweep.
StartIngest(l) ==
  /\ ingest = Idle /\ episodes[l] = 0
  /\ \/ /\ life = "serving" /\ opened < MaxConnections
        /\ ingest' = [log |-> l, by |-> "client"]
        /\ opened' = opened + 1 /\ Touch
     \/ /\ CaptureRuns /\ life # "down" /\ ~stopping /\ Quiet
        /\ ingest' = [log |-> l, by |-> "capture"]
        /\ UNCHANGED <<opened, age>>
  /\ episodes' = [episodes EXCEPT ![l] = 1]
  /\ UNCHANGED <<marked, quarantine, read, life, stopping, clients, worker, up,
                 outages, kills, stops>>

FinishIngest ==
  /\ ingest # Idle
  /\ episodes' = [episodes EXCEPT ![ingest.log] = EpisodesPerLog]
  /\ ingest' = Idle
  /\ age' = IF ingest.by = "client" THEN 0 ELSE age
  /\ UNCHANGED <<marked, quarantine, read, life, stopping, clients, worker, up, counters>>

\* The capture worker runs its imports under the shutdown guard, too.
CancelIngest ==
  /\ ingest.by = "capture" /\ stopping
  /\ ingest' = Idle
  /\ UNCHANGED <<store, life, stopping, age, clients, worker, up, counters>>

ProviderFails ==
  /\ up /\ outages < MaxOutages
  /\ up' = FALSE /\ outages' = outages + 1
  /\ UNCHANGED <<store, life, stopping, activity, worker, opened, kills, stops>>

ProviderReturns ==
  /\ ~up
  /\ up' = TRUE
  /\ UNCHANGED <<store, life, stopping, activity, worker, counters>>

-----------------------------------------------------------------------------
(* The daemon's main task                                                  *)

\* A Shutdown request latches the signal; accept_loop sees it and ends.
ShutdownRequest ==
  /\ life = "serving" /\ ~stopping /\ stops < MaxStops
  /\ stopping' = TRUE /\ stops' = stops + 1
  /\ UNCHANGED <<store, life, activity, worker, up, opened, outages, kills>>

SeeShutdown ==
  /\ life = "serving" /\ stopping
  /\ life' = "closing"
  /\ UNCHANGED <<store, stopping, activity, worker, up, counters>>

\* accept_loop finds the daemon idle (is_idle_at) and ends ...
GoIdle ==
  /\ life = "serving" /\ IdleExit
  /\ ~Busy /\ ~HasConnections /\ age = 3
  /\ life' = "idleExit"
  /\ UNCHANGED <<store, stopping, activity, worker, up, counters>>

\* ... and run() triggers the signal.
TriggerAfterIdle ==
  /\ life = "idleExit"
  /\ life' = "closing" /\ stopping' = TRUE
  /\ UNCHANGED <<store, activity, worker, up, counters>>

\* stop_background_extraction, stop_background_capture and release_store: the
\* workers and the connection tasks are gone, or are abandoned where they are
\* after WORKER_STOP_TIMEOUT and STORE_RELEASE_TIMEOUT, and the process ends.
Exit ==
  /\ life = "closing"
  /\ Abandons \/ (at = "off" /\ ingest = Idle /\ ~HasConnections)
  /\ ProcessEnds
  /\ UNCHANGED <<store, up, counters>>

Kill ==
  /\ life # "down" /\ kills < MaxKills
  /\ kills' = kills + 1
  /\ ProcessEnds
  /\ UNCHANGED <<store, up, opened, outages, stops>>

-----------------------------------------------------------------------------
(* The worker                                                              *)

\* sleep_until_stopped is over and the daemon is quiet.
WakeUp ==
  /\ at = "poll" /\ ~stopping /\ Quiet
  /\ at' = "list"
  /\ age' = IF age = 1 THEN 2 ELSE age
  /\ UNCHANGED <<store, life, stopping, clients, ingest, queue, unit, yield, ladder, up, counters>>

\* Mutant of StopWaiting: the sleep between two polls is not guarded.
StopUnheard ==
  /\ at \in {"list", "extract", "mark"} /\ stopping
  /\ EndBatch("off", yield)
  /\ UNCHANGED <<store, life, stopping, clients, ingest, ladder, up, counters>>

\* Wherever it waits (for the clock, the store, the provider), the worker
\* stops as soon as the signal is latched, and leaves the unit where it is.
StopWaiting ==
  /\ at \in {"poll", "list", "extract", "mark"} /\ stopping
  /\ EndBatch("off", yield)
  /\ UNCHANGED <<store, life, stopping, clients, ingest, ladder, up, counters>>

\* take_pending has its answer.
List ==
  /\ at = "list"
  /\ queue' = TakePending
  /\ at' = IF queue' = {} THEN "poll" ELSE "batch"
  /\ UNCHANGED <<store, life, stopping, activity, unit, yield, ladder, up, counters>>

ListFails ==
  /\ at = "list" /\ StoreErrors
  /\ at' = "poll"
  /\ UNCHANGED <<store, life, stopping, activity, queue, unit, yield, ladder, up, counters>>

\* The head of the loop of run_batch: shutdown, a hot request, no unit left,
\* or the next unit.
LeaveBatch ==
  /\ at = "batch"
  /\ \/ stopping /\ queue # {} /\ EndBatch("off", yield)
     \/ ~(stopping /\ queue # {}) /\ (HasConnections \/ queue = {}) /\ EndBatch("poll", yield)
  /\ UNCHANGED <<store, life, stopping, clients, ingest, ladder, up, counters>>

StartUnit(l) ==
  /\ at = "batch" /\ ~stopping /\ ~HasConnections
  /\ l \in queue /\ \A m \in queue : l <= m
  /\ unit' = l /\ queue' = queue \ {l}
  /\ at' = "extract"
  /\ UNCHANGED <<store, life, stopping, activity, yield, ladder, up, counters>>

ReadOnceMore(l) ==
  read' = [read EXCEPT ![l] = IF @ < ReadLimit THEN @ + 1 ELSE @]

\* Mutant of Extract: a run in which every chunk failed passes for a report.
ExtractAnything ==
  /\ at = "extract"
  /\ IF up /\ unit \notin Bad THEN ReadOnceMore(unit) ELSE UNCHANGED read
  /\ at' = "mark"
  /\ UNCHANGED <<episodes, marked, quarantine, life, stopping, activity, queue, unit, yield,
                 ladder, up, counters>>

\* extract_log has written what it found in the archive; unit_outcome lets it
\* pass.
Extract ==
  /\ at = "extract" /\ up /\ unit \notin Bad
  /\ ReadOnceMore(unit)
  /\ at' = "mark"
  /\ UNCHANGED <<episodes, marked, quarantine, life, stopping, activity, queue, unit, yield,
                 ladder, up, counters>>

\* Mutant of Mark: the flag is forgotten.
MarkNothing ==
  /\ at = "mark"
  /\ streak' = 0 /\ attempts' = [attempts EXCEPT ![unit] = 0]
  /\ yield' = yield + 1 /\ unit' = None /\ at' = "batch"
  /\ UNCHANGED <<store, life, stopping, activity, queue, skipped, up, counters>>

\* mark_extracted flips the flag of every episode the archive has by now.
Mark ==
  /\ at = "mark"
  /\ marked' = [marked EXCEPT ![unit] = episodes[unit]]
  /\ streak' = 0 /\ attempts' = [attempts EXCEPT ![unit] = 0]
  /\ yield' = yield + 1 /\ unit' = None /\ at' = "batch"
  /\ UNCHANGED <<episodes, quarantine, read, life, stopping, activity, queue, skipped, up,
                 counters>>

\* Mutant of Wedged: one failure too few.
WedgedEarly(failures) == failures + 1 >= MAX_CONSECUTIVE_FAILURES

\* So many failures in a row look like a provider that is wedged.
Wedged(failures) == failures >= MAX_CONSECUTIVE_FAILURES

\* The provider is down, the archive is bad, or the store failed:
\* record_failure, and the end of the worker after three in a row.
Fail ==
  /\ \/ at = "extract" /\ (~up \/ unit \in Bad)
     \/ at = "mark" /\ StoreErrors
  /\ streak' = streak + 1
  /\ attempts' = [attempts EXCEPT ![unit] = @ + 1]
  /\ LET setAside == attempts'[unit] >= MAX_UNIT_ATTEMPTS IN
       /\ skipped' = IF setAside THEN skipped \cup {unit} ELSE skipped
       /\ quarantine' = IF setAside /\ Writable THEN quarantine \cup {unit} ELSE quarantine
  /\ IF Wedged(streak')
     THEN EndBatch("off", yield)
     ELSE at' = "batch" /\ unit' = None /\ UNCHANGED <<queue, yield, age>>
  /\ UNCHANGED <<episodes, marked, read, life, stopping, clients, ingest, up, counters>>

-----------------------------------------------------------------------------
ClientStep ==
  \/ Connect \/ Disconnect \/ FinishIngest \/ \E l \in Logs : StartIngest(l)
DaemonStep ==
  \/ SeeShutdown \/ GoIdle \/ TriggerAfterIdle \/ Exit \/ CancelIngest
WorkerStep ==
  \/ WakeUp \/ StopWaiting \/ List \/ ListFails \/ LeaveBatch
  \/ \E l \in Logs : StartUnit(l)
  \/ Extract \/ Mark \/ Fail
Disturbance == ShutdownRequest \/ Kill \/ ProviderFails \/ ProviderReturns

Next == StartDaemon \/ Tick \/ ClientStep \/ DaemonStep \/ WorkerStep \/ Disturbance

Spec == Init /\ [][Next]_vars

\* Time passes, the runtime runs the daemon's tasks, and connections end.
\* Nothing is assumed of the provider, and nothing of whoever connects.
Fairness ==
  /\ WF_vars(Tick) /\ WF_vars(DaemonStep) /\ WF_vars(WorkerStep)
  /\ WF_vars(Disconnect) /\ WF_vars(FinishIngest)

FairSpec == Spec /\ Fairness

\* Somebody uses the memory again, and the provider comes back.
PersistentSpec == FairSpec /\ WF_vars(StartDaemon) /\ WF_vars(ProviderReturns)

-----------------------------------------------------------------------------
(* Properties                                                              *)

\* No archive counts as extracted, in whole or in part, before an extraction
\* of it has succeeded, whatever interrupts, fails or is killed in between
\* (unit_outcome: "a total failure is an Err and stays pending").
NothingHidden == \A l \in Logs : marked[l] > 0 => read[l] > 0

\* Why: the mark comes after the extraction of the same unit.
MarkFollowsExtract ==
  /\ at = "mark" => read[unit] > 0
  /\ at \in {"extract", "mark"} => unit \in Logs

\* No archive fails more than twice in the life of one daemon, also when the
\* quarantine file cannot be written (quarantine: "The worker's in-memory skip
\* list already holds for this daemon's life").
AtMostTwoTries == \A l \in Logs : attempts[l] <= MAX_UNIT_ATTEMPTS

\* Why: an archive that used up its attempts is not offered again.
LadderOK ==
  /\ AtMostTwoTries
  /\ \A l \in Logs : attempts[l] >= MAX_UNIT_ATTEMPTS <=> l \in skipped
  /\ queue \cap skipped = {}
  /\ at \in {"extract", "mark"} => unit \in Logs \ (queue \cup skipped)

\* Archives given up on take nothing away from the others: a batch holds as
\* many archives worth attempting as there are, up to its size, and the oldest
\* ones, and it is empty only when there are none (take_pending: "a quarantined
\* archive cannot occupy a batch slot forever").
BatchIsFull == [][List => queue' = FirstOf(BatchSize, Eligible \ skipped)]_vars

\* "Shutdown wins": a daemon that was told to stop stops, wherever its worker is.
StopStops == stopping ~> life = "down"

\* "A background batch therefore cannot be cut in half by the idle timeout"
\* (IdleTracker): when the accept loop leaves because the daemon is idle, no
\* unit is being extracted.
IdleCutsNoUnit == life = "idleExit" => at \notin {"extract", "mark"}

\* The oldest archives to be tried are bad, and enough of them to switch the
\* worker off within one batch, before any has been tried twice.
Stuck ==
  /\ BatchSize >= MAX_CONSECUTIVE_FAILURES
  /\ Cardinality(FirstOf(MAX_CONSECUTIVE_FAILURES, Eligible) \cap Bad)
       = MAX_CONSECUTIVE_FAILURES

\* "One retry, then set it aside rather than retry it forever": an archive that
\* never extracts ends up in the quarantine file, however often the daemon is
\* restarted, stopped or killed in between, unless it is one of, or comes after,
\* MAX_CONSECUTIVE_FAILURES bad archives with no good one before them.
BadAreSetAside == \A l \in Bad : l \in Awaiting ~> (l \in quarantine \/ Stuck)

\* The others get extracted, also those with fewer than MAX_CONSECUTIVE_FAILURES
\* bad archives at the head of the list, however often the daemon is restarted,
\* stopped or killed (with no outage: one can send a good archive to quarantine).
GoodAreExtracted == \A l \in Logs \ Bad : l \in Awaiting ~> (l \notin Awaiting \/ Stuck)

\* "... rather than retry it forever", without the exception.
NoneIsRetriedForever == \A l \in Bad : l \in Awaiting ~> l \in quarantine
=============================================================================
