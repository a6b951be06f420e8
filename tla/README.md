# recall-echo in TLA+

recall-echo gives coding agents a memory: session transcripts are captured as
markdown archives, archives are extracted into a knowledge graph (an embedded
SurrealDB over SurrealKV, or a SurrealDB server), and commands and an MCP server
read it back. This directory holds TLA+ models of its stateful parts, the TLC
runs that check them, and the TLAPS proofs about them. `PROJECT.json` ties every
definition to the source lines it stands for, lists the runs, the hazards, the
findings and the theorems. Paths below are relative to the repository.

## 1. The system

### Components, their state, their operations

| Component | Code | State | Operations that change it |
|---|---|---|---|
| Graph daemon and its clients | `src/serve.rs`, `src/serve_client.rs`, `src/serve_security.rs` | the published socket, the spawn lock `<socket>.lock`, the admin lock `<socket>.admin`, the SurrealKV lock inside `graph/`, the pidfile; in memory the shutdown latch, the connection tasks, the idle clock | connect or spawn, handshake and upgrade, one request per connection, stop, idle exit, `exclusive`, `exclusive_without_store` |
| Background extraction | `src/serve_extract.rs` | per-archive attempts, the skipped set, the quarantine file, the failure streak and the wedge | batch, unit, outcome, quarantine, stop |
| Capture | `src/capture.rs`, `src/serve_capture.rs`, `src/archive.rs`, `src/checkpoint.rs`, `src/ephemeral.rs` | `conversations/*.md`, `ARCHIVE.md`, `EPHEMERAL.md`, the sweep watermark, the daemon's swept and failed sets | archive a session, checkpoint, sweep, ingest |
| Edge evidence | `src/graph/confidence.rs`, `crud.rs`, `correct.rs`, `utility.rs` | per relation: positive and negative evidence, valid interval | corroborate, contradict, supersede, retire, decay |
| v1 ingest | `src/graph/ingest.rs`, `extract.rs`, `dedup.rs`, `src/archive_extract.rs` | episodes, entities, relations, the `extracted` mark | chunk, extract, dedup, mark |
| Schema and migration | `src/graph/store.rs`, `src/graph/mod.rs` | the schema version record | define, backfill, write the version |
| Rebuild | `src/graph_cli.rs` | `graph/`, `graph.v2-build/`, `graph.v1-backup-*`, the stamp and the `extracted` flags inside them, `[graph] pipeline` | prepare, drive, swap, resume, refuse a half swap |
| v2 pipeline | `src/graph/v2/` | rows (slots and edges), pending rows, the mark of each archive | pass 1, ground, resolve, write, hold, consolidate |
| Collection and pipeline documents | `src/graph/gc.rs`, `pipeline*.rs`, `vigil_sync.rs` | as above plus the documents' stages | collect, sync |
| Setup, update, rules file | `src/init.rs`, `src/update.rs`, `src/rules_file.rs`, `src/config.rs`, ... | configuration files, the installed binary | edit, replace |
| Readers | `src/graph/query.rs`, `search.rs`, `traverse.rs`, `src/mcp.rs`, `src/dashboard.rs`, ... | none | - |

### How they interact

Every command is a process. A *hot* command (query, ingest, an MCP call) sends
one request over a Unix socket to the daemon of its memory directory and starts
the daemon when there is none. An *admin* command (extract, rebuild, gc, migrate)
takes the admin lock, stops the daemon and opens the store itself, or, for a
rebuild, renames the store's directory. Hooks write archives without going
through the daemon. Inside the daemon a connection task per client, the capture
sweep and the extraction worker share one store; all of them run on a
multi-threaded runtime and end through one shutdown latch.

### What is hard

* Cross-process coordination by files that outlive their owners: every lock but
  SurrealKV's is a path that is tested, judged and removed in separate steps.
* Shutdown: the listener, the workers, the connection tasks, the store and the
  socket go one after the other while clients watch only the socket.
* Retries of requests that may already have been carried out.
* Writers that do not know of each other (hooks, sweeps, checkpoints) number and
  write archives in one directory.
* Work that is done in two steps (archive then ingest, extract then mark, rename
  then rename) with a crash or a cancellation in between.
* Read-modify-write of evidence in a store that several processes may share.

`PROJECT.json` lists each hazard at its line, with the property that covers it.

## 2. Plan

The order is by how much the rest depends on it.

1. `StoreOwnership`, `DaemonProtocol`: who may use the store, and what becomes
   of a request. **Done**, with proofs in `DaemonProtocolProofs`.
2. `ExtractionWorker`: batches, failures, quarantine, wedge, stop; what an
   interrupted extraction leaves behind. **Done**, with proofs in
   `ExtractionWorkerProofs`.
3. `ArchiveCapture`: hooks, sweeps and checkpoints writing one archive directory.
   **Done**, with proofs in `ArchiveCaptureProofs`.
4. `FactSlots`: the write transaction, holds and the judge of the v2 pipeline.
   **Done**, with proofs in `FactSlotsProofs` and `FactValueProofs`.
5. `RebuildSwap`: resume, two renames, their rollback and the advice to the user.
   **Done**, with proofs in `RebuildSwapProofs`.
6. `StoreMigration`: migrators of one store, the evidence they derive and the
   clients that write it. **Done**, with proofs in `StoreMigrationProofs`.
7. `GraphSweep`: garbage collection, composed with `StoreMigration`. **Done**,
   with proofs in `GraphSweepProofs`.
8. Left: `IngestDedup` (duplicate entities of concurrent v1 ingests), `Update` and
   `RulesFile` (replace in place).

## 3. The daemon protocol

### Modules

* `StoreOwnership` is the promise: one owner of the embedded store at a time, a
  request takes effect only in a daemon that owns the store, one that may not be
  repeated takes effect at most once, and success is reported only after the
  effect. An error promises nothing.
* `DaemonProtocol` is the code: three kinds of processes (`Daemons`, `Hot`,
  `Admins`) and four files (`sock`, `spawnLock`, `adminLock`, `kv`).
  A file's value is its owner, `None`, or `Gone` when the owner is dead but the
  file is still there.
* `MCDaemonProtocol` gives TLC its model values and `Role` functions.
* `DaemonProtocolProofs` holds the theorems.

### State and actions against the code

| Model | Code |
|---|---|
| `dpc`: waitAdmin, open, bind, publish, serving, draining, released, exiting | `run()` in `serve.rs`: `open_store`, `bind_socket`, `accept_loop`, `release_store`, unlink |
| `stopping` | the latched `ShutdownSignal` |
| `conn`, `task` | a client's end of a connection, and the daemon's `handle_connection` task for it; a connection in the backlog has no task yet |
| `pc`, `round`, `retried` | `execute` (one retry of a retryable request) around the rounds of `connect_or_spawn` |
| `child` | the `Child` that `wait_for_socket` watches |
| `late` | `connect_or_spawn` computed its start deadline before `start_daemon` waited for the admin lock |
| `apc`, `stops` | `exclusive` / `exclusive_without_store` / `stop` and the rounds of `stop_daemon_for_admin` |
| `astray` | a process whose open directory a rebuild renamed away |
| `applied` | how often a request took effect in a store (observation only) |

File operations are as fine as the code's: a failed `create_new`, the judgement
whether the lock is stale, the removal by path and the second `create_new` are
four actions, so another process can act between any two. A connect and the
`unlink` that follows a refused one are two. Time limits are choices: a limit in
`Timers` may expire whenever its wait is in progress. The two lockfiles are
judged as the code judges them. The admin lock is stale when its owner is dead
(`process_is_alive`). The spawn lock is stale when it is older than
`STALE_LOCK_AGE`, whether or not its owner lives: it keeps the name of a killed
command, and `SpawnLockAges` turns it into `Gone` at any later moment. The lock
of a command that lives does not get that old, since `START_TIMEOUT` is 30 s too
(the last poll of 25 ms aside).

Not modelled here: server mode (no daemon, no locks), the peer-uid check of
`serve_security.rs`, the wire format, what the requests do to the graph, and a
process id reused by another process (`process_is_alive`).

### Runs

CHECK_DEADLOCK is off in every run: commands end and an idle daemon waits, so
the system does stop.

| Run | Instance | Shows |
|---|---|---|
| `daemon_requests` | two hot commands, one retryable; one exclusive admin; an outdated and a current daemon, the current one and one command killable; call and release limits | no request is repeated that must not be; a published socket leads to a serving owner; the protocol implements `StoreOwnership` |
| `daemon_rebuild` | a rebuild, an exclusive admin that wants the same lock, and two hot commands that race to start a daemon; start and admin limits | types; the store is held or was renamed away, also with a second daemon on the new store while the first still listens |
| `daemon_liveness` | a hot command, two admins and an outdated daemon, start and admin limits | every command ends; a daemon told to stop stops and frees the store |
| `daemon_recovery` | every combination of old leftover files, a command killed at any step, and one that begins when it has ended | the second command is answered, unless the first left a spawn lock that is not old yet and no daemon |

`TwoAdmins`, `StopEarly`, `SocketStolen`, `TwoSpawners`, `RebuildUnderDaemon` and
`AdminOverrun` are further configurations outside the suite: the smallest
instances of what is listed under "What the code does not promise". Each ends in
a counterexample of its one property.

Bounds: `MaxConnectRounds` and `MaxStopRounds` stand for the loops' own round
limits; two rounds already reach "gave up after a successful round", the third
is needed where an upgrade uses one up. Two daemons are an old and a new one, or
two that race, or, in `daemon_recovery`, that of the killed command and one more.
Three clients are needed for the
lock races: the one that judges, the one that drops, and the one whose file is
removed; two do not show them (`TwoAdmins`, `TwoSpawners`).

`NextCommandAnswered` is about a command that begins when the others have ended,
with no outdated daemon, on purpose: next to another command, or with a daemon
that is being replaced, `LiveSocketStays` fails (below) and then the recovery
promise fails too. It also leaves out a daemon that takes longer than
`STALE_LOCK_AGE` to come up: its starter's lock is then broken, and the daemon
started next exits because the store is locked.

Fairness is weak fairness of each process's steps: the operating system runs a
process that can run, and every wait in the code is a polling loop or has a
limit. Nothing is assumed about kills.

### What the code does not promise

1. `StopMeansStoreClosed`: `run()` says it closes the store before the socket
   disappears. The listener is dropped when `accept_loop` returns, which is
   before, and clients watch whether a connect succeeds.
2. `LiveSocketStays`: a refused connect and the unlink after it are two steps;
   the socket removed can be a live daemon's. So do `stop_daemon`,
   `wait_for_socket_gone` and the exiting daemon itself.
3. `OneSpawner`, `OneAdminAtATime`: a lockfile that is dropped between the failed
   create and the judgement counts as stale and the next owner's file is removed.
   No crash is needed. SurrealKV's lock keeps the store itself safe, which is
   what `StoreHeldWhileUsed` shows.
4. `NobodyAstray`: a starting daemon checks the admin lock, then opens. A rebuild
   that starts in between stops nobody and renames the directory under it.
5. `WaitedCommandTriesDaemon`: the start deadline includes the time spent waiting
   for an admin operation, so a command may wait for it and fail at once after.
6. The next command is not always answered: a command killed between
   `create_lock_file` and `spawn_daemon` leaves a lock that counts as another
   client's for 30 s. A command that finds it in that time waits for a socket
   nobody will publish until its start limit (`Stranded`).

### Proofs

`DaemonProtocolProofs` proves, for every number of processes and any choice of
`Killable`, `Timers`, `Outdated`, `Debris` and the round bounds:

* `TypeInvariant`: `Spec => []TypeOK`.
* `StoreAlwaysHeld`: `Spec => [](StoreHeldWhileUsed /\ PublishedIsServing)`. The
  two are inductive only together with `TypeOK` and each other: that a task holds
  the store follows from its daemon being in a state between `open` and
  `released`, and that a newly accepted task does follows from the daemon serving.
  `NobodyLosesTheStore` isolates the step that all actions share: the lock leaves
  a process only when the process lets go of it or is put astray.
  `PublishedSocketServes` is the second half by itself.
* `EffectsAreCounted`: `Spec => []NeverRepeated`. Not inductive alone: nothing in
  `applied <= 1` says that a command about to be carried out has not been.
  `EffectsCounted` adds how `retried` and `pc` bound `applied`.
* `ProtocolImplementsOwnership`: without rebuilds (which replace the store) the
  protocol implements `StoreOwnership`, with `owner <- kv`. The step proof uses the
  two invariants above.

Model-checked only: the liveness properties (TLAPS does not reach fairness), and
recovery.

## 4. The extraction worker

### State and actions against the code

`ExtractionWorker` is one daemon's worker (`serve_extract.rs`) with the parts of
the daemon it depends on: the idle clock, the open connections, the capture
worker that holds a background guard too, the shutdown latch, and the store's
list of archives with episodes not marked `extracted`.

| Model | Code |
|---|---|
| `episodes`, `marked` | the store: how many episodes of an archive there are, and how many say `extracted` |
| `read` | how often an archive's text went into the graph (observation only) |
| `quarantine` | `graph/extraction-quarantine.txt`, which survives the daemon; `Writable` says whether it can be written |
| `at`, `queue`, `unit`, `yield` | where `run` and `run_batch` are, the archives still to do, the one in `extract`, how many succeeded in this batch |
| `attempts`, `skipped`, `streak` | the fields of `ExtractionWorker`; gone with the daemon |
| `life`, `stopping` | where the daemon's `run()` is, the latched `ShutdownSignal` |
| `age` | time since `last_activity`: 0 recent, 1 quiet, 2 seen quiet, 3 idle |
| `clients`, `ingest` | open connections, and the ingest in progress with who asked for it |
| `up` | the provider answers |

A unit is one `extract` call and takes several steps, so clients, captures and a
stop may come in between. The mark is a write of its own after it. `age` has four
values because the code compares the clock with two limits only (`idle_after`,
`idle_timeout`); `LongTimeout` says whether a worker with work left always acts
before the daemon has been idle for too long. Episodes of an archive arrive in two
writes. How often the worker reads an archive is counted to `ReadLimit` = 2.

### Runs

| Run | Instance | Shows |
|---|---|---|
| `extraction_safety` | a bad archive before good ones, an unwritable quarantine file, a client, the capture worker, an outage, a kill, a stop, failing queries | nothing counts as extracted that was not; nothing is tried more than twice in a daemon's life; what was given up on leaves the batch full, and a batch without work means there is none |
| `extraction_ladder` | two bad archives first, a third that comes at any moment, two good ones, the default batch of three, a kill, a stop, an idle exit | unless three bad archives head the list together (`Stuck`), the bad ones end in the quarantine file and the good ones are extracted; a stop stops |

Five archives are enough: a full batch of three and two behind it, one of which is ingested late. `IdleCut` and
`ThreeBad` are configurations outside the suite. `IdleCut`: the idle check and the signal that ends the
daemon are two steps (`accept_loop`, `run`), so a unit that starts in between is
cut off although it holds a guard that is meant to prevent an idle exit. Its
archive stays pending, so nothing is lost but the work.

`PersistentSpec` is the fairness of the two liveness properties: the worker and
the store make progress, a provider that is out returns, a client that is
connected leaves, and a daemon that ended is started again by the next command.
The last three are assumptions about the environment, not about the code.

`ThreeBad` and the exception `Stuck`: attempts are counted in the daemon and the
streak of failures over all archives. With the default batch of three
(`batch_size >= MAX_CONSECUTIVE_FAILURES`), three archives at the head of the list
that cannot be extracted switch the worker off after one attempt each. The next
daemon starts from nothing: none of them ever fails "twice" and none is set aside,
so no later archive is extracted in the background. This is not what
`serve_extract.rs:51-52` says ("one retry, then set it aside rather than retry it
forever"): `NoneIsRetriedForever`, that sentence without the exception, is violated
under `ThreeBad`. `BadAreSetAside` and `GoodAreExtracted` name the exception, and it
is narrow: it counts only while the next three archives to be tried
are all bad, so a third bad archive that arrives after one of the others was set
aside must be set aside as well, and a good archive among the first three must be
extracted.

What the model does not promise: an archive is extracted *once*. It is extracted
again when the daemon dies between extraction and mark, or when a hook ingests
while the batch runs.

### Proofs

`ExtractionWorkerProofs` proves for every set of archives, every batch size and
all bounds: `TypeInvariant`, `NothingIsHidden` (no archive loses its pending mark
without a successful extraction), `LadderHolds` (at most two attempts, and none of
what was given up on) and `BatchesAreFull`. The inductive invariant is `TypeOK`,
`Counted` (clients counted open are clients that connected),
`NothingHidden`, `MarkFollowsExtract` (whoever is about to be marked was
extracted) and `LadderOK`; without `MarkFollowsExtract` nothing says that the mark
is earned, and without `LadderOK` the batch may hold what was given up on.
`OverFetchIsEnough` is the arithmetic of `take_pending`: asking for `batch_size`
plus the number of archives given up on always leaves the oldest `batch_size` of
the others. Liveness is model-checked only.

## 5. Capturing transcripts

### State and actions against the code

`ArchiveCapture` has the capture worker of the daemon (`serve_capture.rs`),
`recall-echo ingest` (`capture.rs`), SessionEnd hooks (`archive.rs`) and
PreCompact hooks (`checkpoint.rs`) as processes that share `conversations/` and
one CLI's watermark.

| Model | Code |
|---|---|
| `turns`, `written`, `over` | the transcript of a session: its length, its modification time, whether it will go on |
| `archives` | `conversations/conversation-NNN.md`: session id, how many turns, session or checkpoint |
| `ingested` | numbers whose episodes are in the graph |
| `watermark` | `capture/<cli>.watermark`, in whole seconds |
| `list`, `ref`, `text`, `num` | what a sweep has still to do, the transcript in hand, what was read of it, `next_num` |
| `seen`, `reached`, `blocked` | an importer's archived set and its `Watermark` |
| `attempts`, `skipped` | the fields of `CaptureWorker` |

Listing, reading, numbering, writing, indexing and ingesting are separate
steps; each may fail and a process may be killed between any two. Time is counted
in half seconds because the watermark drops what a transcript's time has below
the second. Sessions of one CLI are modelled; another CLI has another watermark
and the same directory. Left out: `archive --all-unarchived` (no settle time, no
watermark), subagent transcripts, the second check against the id inside a
transcript, and the text of `ARCHIVE.md` and `EPHEMERAL.md`, whose failures are
`IndexFails`.

Any number of processes may be between `highest_conversation_number` and the
write, and nothing keeps two of them from taking one number: the later archive
then replaces the other. `replaced`, a field of an archive that the program does
not have, remembers whose archives were there before.

Two constants are assumptions about the environment in the passing runs:
`Pauses = FALSE` (a session that was silent for `settle_secs` is over) and
`Coarse = FALSE` (no transcript is written at exactly a whole second).
`NothingSkipped` does not rest on them: it leaves out the transcripts that were
last written at a whole second (`Fraction`), one by one, and the sessions whose
archive was written over (`Replaced`), because the code does lose those. Three
configurations outside the suite end in a counterexample and show it: `SameNumber`
(`NothingReplaced`: the later writer replaces the other's archive), `SameSecond`
(`SecondsKept`: of two transcripts with the same whole-second time, as a file
system without fractions gives them, handling the first hides the second, failed
or not) and `Resumed` (`CompleteArchives` with `Pauses`: a resumed session is
archived in part and never again).

### Runs

| Run | Instance | Shows |
|---|---|---|
| `capture_safety` | the worker, an `ingest`, a hook; two sessions, one that does not parse; a batch of one | the shared watermark passes nothing that is neither archived (or written over by another archive), empty nor given up on, although each writer computes it from its own listing; no archive of a session is partial |
| `capture_liveness` | the worker; an empty session, one that does not parse, a good one; two kills | every session that ends is archived or given up on |
| `walked_past` | the worker, two good sessions | the finding below |

Times 1 and 3 are the instants at which turns are written: a transcript before
and one after a whole second, and several at the same instant. `capture_liveness`
has fewer empty sessions than the batch has places; with as many of them in one
second they come back in every listing, since the watermark stays below them, and
fill it (the code's `BATCH_SIZE` is 5). Its fairness: time passes, sessions end, a
daemon is started again, and a process that can run does.

Finding (`walked_past`): `import` archives first and ingests after. When the
index or the ingest fails, or a stop cancels it, `run_sweep` expects the next
quiet period to retry the transcript; `pending` finds its session among the
archives and drops it as a duplicate. Its episodes are never stored.

Also seen, and not a property of any run: a worker and an `ingest`, two of them,
or either and a hook can archive one session twice, since an importer's archived
set is as old as its start and a hook has none; a checkpoint carries its
session's id, so a session with a checkpoint counts as archived and is never
imported whole.

### Proofs

`ArchiveCaptureProofs` proves, for every set of sessions, importers and hooks,
every batch size, settle time and bound:

* `TypeInvariant`. The worker counts at most two failures of a transcript because
  what it has given up on is never in its hand (`SkipsOK`), and an archive is
  ingested under a number that exists (`NumsOK`).
* `ArchivesAreComplete`, from `~Pauses`: a transcript in hand is one that looked
  settled, so its session is over and what was read of it is all of it
  (`SettledIsOver`). An archive that replaces another is complete too.
* `NothingIsSkipped`, from no assumption but `ConstantsAssumption`: processes may
  take the same number, transcripts be written at whole seconds and sessions be
  resumed. The argument is that a sweep goes from old to new over a list that is
  closed downwards: whatever is older than a transcript in hand is in hand too,
  archived, empty or given up on (`Ordered`, `NothingOlder`), so the moment it is
  dealt with the watermark may move to it. `FirstOfClosed` and `FoundClosed` show
  that truncating, dropping what was skipped and truncating again keeps the list
  closed; `Timed` that a watermark is a whole second, so that a time with a fraction
  which it has passed lies before it; `ReachedOK` that an importer's mark stays good although others
  archive and fail before it is written; `ArchivesOK` that what
  was archived once is archived or written over (`Recorded`, which only grows). `SweepStep` says what any step does to one sweep, so that each of these
  is proved once per kind of change and not once per action.

`EverySessionArchived` is model-checked only. `capture_safety` has no
kills (its three processes fill the time limit without them); the theorems do.

## 6. The v2 pipeline's rows

### State and actions against the code

`FactSlots` is one subject of the v2 store and the sessions that write about it
(`graph/v2/write.rs`, `hold.rs`, `consolidate.rs`).

| Model | Code |
|---|---|
| `rows` | the slots of the subject's record and its edges: key, value, status, the sighting that opened the row, all its sightings, whether it is pending and on which row, when and why it was closed |
| `story` | what a session's transcript says: extracted facts, with the value each names as replaced and the values it may not retire; departures; whether it has a date |
| `said` | its facts after they were matched to the known rows (`known_match.rs`): a matched fact has the stored row's key and, in `aims`, its value |
| `part` | the facts of the windows that did not fail |
| `work`, `todo`, `dirty`, `retried` | the write transaction: its copy of the rows, the facts to apply, whether it changed anything, whether it has conflicted once |
| `holds`, `open`, `pair` | the pending pairs it has to settle, those left to the judge, the one in hand |
| `loaded`, `answered`, `gone` | what the judge is asked about, as it was read, and what it has answered |
| `overlap`, `fresh` | two processes extract at once; nobody else has stored since this copy was taken |

`Begin` is the end of pass 1: the windows are read and the facts matched, against
the rows as they are then or, when they cannot be read, against none; `ApplyFact` is one fact with every retirement rule
of `write_fact`; `Commit` is refused when somebody else has stored (`Conflict`,
`ConflictAgain`: one retry, then the session stays pending). `Settle` to
`RecoverPending` are the steps of `hold.rs`, each a write of its own. `close_row`
reads the whole record and writes it back outside a transaction: `CloseRead` and
`CloseWrite`. `Mark` ends a run; a session that was not marked is extracted again
from the start.

A key stands for the family of keys `keys_match` puts together. What a
transcript says and what the judge answers are choices among `Stories`, one per
variation the writer tells apart: repeated, contradicting, replacing, kept,
listed, rejected, considered, undated, fixing, about an edge, matched to a known
row. Which row the words of a fact fit is the story's (`finds`); whether it is
matched is the code's choice among the known rows (`Hits`: its own key is not known,
one row fits). Left out: windows, prompts and grounding of pass 1, entity
resolution, settings without a key (A1 gives them the key of a known row by the words
of the turn, then the same rules hold), the heuristics that select pairs for the
judge, the catalog, and one log extracted by two processes.

A matched setting retires by rules of its own: when the row it was matched to is no
longer there it closes nothing at all (`Stale`, `setting_missing`, `write.rs:824`);
else it closes no row but that one, and that only when the turn departs from it
(`PassedOver`, the two `Close::Skip` of `write.rs:1434-1444`). What it leaves alone it
does not hold either. A value the turn keeps is held, or when holds are off skipped
(`Kept`, `write.rs:1446`). A use of a tool matched by its words (A3) closes the one
other use of its role (`retire_matched`).

### The run and its bounds

`facts`: three sessions about three keys, one of which is a role of an edge, told in
sixteen stories, two of them with facts that are matched, with one trouble (a failed window, a store error or a kill) in one process, or two
processes and no trouble. Three sessions are needed to hold a value, write over it
and settle; one trouble starts any of them again; one closing verdict of the judge
per session shows each kind of verdict, and more of them multiply states without
another interleaving. It checks `CountedOnce` (a sighting counts once),
`OneCurrentValue` (between runs a simple slot's key that no fact is matched to has one
current value),
`NothingForgotten`, `NeverEmpty` (a key does not lose its only value by a write
about it, unless another value of it is held) and `OwnRowsStay`. With three values
instead of two, or five sessions instead of three, the state spaces are several
times as large; the statements were weakened to what those instances confirm, and
the provisos below are what they refuted before.

The provisos in these properties are what the code does, not what it says:

* `torn` in `OneCurrentValue`: a kill between `take_pending` and the stamp of the
  old row leaves two current values, since the pair is not pending any more and
  nobody settles it again. So does clearing a hold on a key that has another
  current value (`Crowded`). `consider` asks `other_live` only when the old row is
  already closed (`hold.rs:208`), so a hold on a row of another key (`replaces`
  names a value whatever its key) is cleared beside its own key's value. And
  `find_ref` finds the old row of a pair by its value when its place is gone
  (`consolidate.rs:1818`) without asking whether that row is itself pending; the
  comment at `consolidate.rs:324` wants no second hold cleared against one row.
* `Simple` in `OneCurrentValue`: without the hold switch, a value the turn keeps
  stays beside the new one by design, and only the first conflict of a fact is held
  (`write.rs:1455`), the later ones are counted skips that leave both current. A key
  is simple when no session of the story comes to either.
* `Unmatched` in `OneCurrentValue`: a matched fact that passes a row over, or whose
  target is stale, stores its value beside the current one and holds neither. The
  comment at `write.rs:1427` says so ("[`Close::Skip`] leaves the slot live"), and
  two current values of the key are the result at rest, with every switch on: the
  configuration `PassedOver` checks `OneValueEverywhere`, the property without this
  proviso, and finds it with two sessions, of which the second says of the stored
  setting under another spelling of its key a new value and nothing about the old one.
* `HasHeld` and `ToAnotherKey` in `NeverEmpty`: a fact whose named value sits in a
  row of another key and is kept opens its row pending on that one, while the rival
  of its own key is closed in the same pass (`write.rs:811`): the key is left with a
  held value only.
* `torn /\ overlapped` in `OwnRowsStay`: two sessions extract at once, and the judge
  of each closes a row. The second's `close_row` has read the record when the first
  settles a pair whose old row is its own, and closes it. The first's `close_row`
  reads that, the second writes its old copy back, in which the row is live again,
  and the first writes its copy back: it closes its own row. The proof of
  `OwnRowsStay` stopped at this step; with three stories the run is found by TLC
  (30 steps, more than the `facts` run's bounds give).
* `SaysTwice` in `NeverEmpty`: the writer relies on `dedupe_facts`
  (`pass1.rs:957`) dropping a fact said twice on one turn.
* `Replays` in `NeverEmpty` and the configuration `FactsRetry`: a session that is
  extracted again does not find what it stored. `RetryMovesNothing` states the
  comment at `graph/v2/write.rs:2596` ("A retry writes the creating session again.
  The stored evidence already holds that session, turn and quote, so neither the
  slot nor the edge moves"). One session says A; a second says B, which is held
  beside A; a third says A and then B, which closes A and releases B; it is killed
  before its mark and run again: its A is closed, so it opens a new A that closes
  the second session's B, and its own B finds it had been closed.

`TornClose` is `NothingEverForgotten`, the same as `NothingForgotten` of every
step: with a server, `close_row` writes back a record that another session has
stored to since it was read. Also seen: rejected and considered rows count as
occupants in `slot_occupied`, and the row `close_duplicate` keeps may be pending.

### Proofs

`FactSlotsProofs` proves `FactTypes`, `SightingsCountOnce` and `StoredRowsRemain`
for every set of sessions, keys, stories and troubles. `FactTypes` needs `TInv`:
every pair has the shape of a pair of rows and only a pair of the judge's is closed
for the reason it carries, and a run applies facts of its own (`NextFactTodo`, the
least of a finite set in the order of `Before`, is one of those to do).
For the other two the invariant is `RowsInv`: what
`CountedOnce` says of the stored rows holds of every transaction's and every
`close_row`'s copy too, and a copy nobody has stored beside extends what is
stored. Without the second part a commit could undo an earlier one; without the
first nothing is known of what a commit stores. `AppliedKeeps` is the heart of
it: applying a fact, whatever it says, is a chain of stamps on live rows and one
written row, each of which keeps the invariant. `MinIsLeast` shows what the
choice of the first row that fits returns.

`OwnRowsRemain` is `OwnRowsStay`. Its invariant `OwnInv` has to follow a verdict from
the rows the judge was asked about to the row that is closed: those rows, and the
copy `close_row` writes back, are extended by what is stored (`OwnRows`), so that a
row keeps its first sighting in between; a judge's pair is one of them (`Judged`);
and what a transaction's copy closes, its own session closes, and of its own rows
only an issue it fixes (`ClosesFor`). The first holds until two extractions have
overlapped and an old copy was written back (`Intact`); until two overlap there is
only one at a time and its copies are up to date (`Alone`).

`FactValueProofs` proves `OneValueAtRest`, which is `OneCurrentValue`. At rest says
little of the steps between, so `ValuesInv` says of the stored rows and of every
transaction's copy that is up to date that they are `Sound`: a decided row of a key the
property is about (`Lone`) says what the transcript of the session that opened it says
(`Said`), a fact has one live row (`Single`), a row on hold of such a key has one with
kept values and waits on a row of the same key (`Waits`), and two current rows clash only while a
session is between clearing the hold of a pair and closing its old row (`Settled`,
`Mid`, `Excused`). That session closes one of the two, holds one again, or leaves the
hold torn; when none is in between, no two clash. Every step of hold.rs and
consolidate.rs is then one of five kinds (`Idles`, `Fails`, `ClosesOne`, `Reholds`,
`Takes`), and each keeps the rows sound; `DecidedSound` and `WrittenSound` are the
same of the writer, where `SimpleKept` is what makes a key simple: the fact that
keeps a value names none, and its session says one value. `VoicesInv` is what lets a fact in hand speak for its
transcript: matching changes the key of a fact to the one it finds, which is not
`Lone`. So no fact about a lone key has a target to pass over or to miss. The invariant says nothing
once a hold is torn or when a session has no date. These proofs rest on
`ConstantsOK`, in which `None` is no value, nobody's hold and nobody's closing.

Its second half proves `ValueRemains`, which is `NeverEmpty`. The exceptions of that
property are read off a single step, but two things have to be carried to it, and
`EmptyInv` carries them until two extractions overlap (after that the property
claims nothing). One is what a commit stores (`CopyFits`): for each key that has a
standing row, current or held, the transaction's copy has one too, or a fact of the
session closed it that is not about the key. A fact that closes a row of its own key
leaves one in its place, unless it finds itself stored (`AppliedUpdates`), and that
happens only to a session that was written before or says one fact twice
(`NothingStored`); this needs that every stored sighting is of a session that
committed (`Recorded`). The other is what the pairs that wait are about (`Ready`):
the new row of each is still held, and later than both rows of the pair in hand,
because a row waits on an earlier one (`Ordered`) and the oldest pair is settled
first (`ConsiderReady`). So no write of one pair disturbs the next, the old row of a
pair is closed while its new one is current (`Replaced`), and a hold that is put
back is the one the row had. `MarkedKeeps` then says of the one row a step marks
when its key can have lost a value.

## 7. Rebuilds

### State and actions against the code

`RebuildSwap` is `graph rebuild` (`graph_cli.rs`), run by several commands, next to
session hooks, a daemon and a user who does what the messages say.

| Model | Code |
|---|---|
| `graph`, `build`, `backups` | the stores in `graph/`, `graph.v2-build/`, `graph.v1-backup-*`: birth, stamp, episodes of each log, finished logs, directory time |
| `config` | `[graph] pipeline` |
| `pc`, `plan` | where each command is, `RebuildPlan.pending` |
| `lockfile`, `builder` | whose the admin lock file is; which command has the build store open or swaps it |
| `todo`, `log`, `at`, `tripped`, `again` | the batch, the archive in hand, its next chunk, a chunk failed, the second attempt |
| `moved` | the directory the swap set aside |
| `hook` | what became of the request to ingest each archive |
| `daemon`, `uses` | a daemon that has started, has looked at the admin lock, serves; the store it has open |
| `told`, `named` | what the last message asks the user to do, and the backup it names |
| `served`, `outdated`, `slipped`, `aside` | observed only: stores put to use, stores that missed an archive another one was given, archives a daemon ingested past a swap, the store set aside last |

The plan is made before the lock, so anything may come between. Stages of one
archive are separate (store chunk by chunk, extract, mark); every stage may fail
or be killed, and the command may be started again with the same build. The swap
is two renames and the setting, with the rename back. A starting daemon creates a
missing `graph/` and changes its directory's time (`DaemonStarts`,
`WithDaemonLog`).

The admin lock excludes no more than the code makes it exclude. `acquire_admin_lock`
judges the file after its `create` has failed and removes by path whatever file is
there then (`JudgeDead`, `RemoveLock`), so two commands may have it; the lock is
removed at the end by whoever took it, whose ever the file is by then (`Leave`).
`open_store` looks at the lock once and opens afterwards (`DaemonPasses`,
`DaemonOpens`), so a daemon may serve while a rebuild works, and a hook that finds
its socket never looks at the lock: `Ingest` needs a serving daemon and nothing
else. The daemon writes to the store it has open (`uses`), also when a rename has
moved that to a backup. `OpenBuild` stops the daemon that serves at that moment
(`stop_for_rebuild`) and no later one.

What does keep two rebuilds apart is the embedded store's own lock: a command that
finds the build open fails (`CannotOpen`). Left out is one step of this: a second
rebuild that opens a new `graph.v2-build/` between another's two renames, when the
first has closed the store. Also left out: dry run, token counts, the refusal in
server mode, a symlinked `graph/`.

### The run and its bounds

`rebuild`: two commands, two failures or kills of ten kinds (one of them is judging
the admin lock dead), an archive that arrives at any moment and has two chunks, one
that is there from the start and has none, a daemon that starts once and may serve
throughout, and one rebuild wanted. Two chunks are what a resume in the middle
needs, and the arriving archive what a catch-up needs. It checks `StoresKept` (a
store that was put to use is still there), `FinishedIsWhole`, `NothingLeftBehind`
(no archive falls between the plan, the catch-up and the swap), `PipelineAgrees`,
and `RebuildsFinish` under weak fairness of each command and of the user: somebody
who wants a rebuild starts it again and does what he is asked to. Kills and failures
are bounded by `MaxTroubles`, so they end. Nothing is asked of the daemon.

`NothingLeftBehind` excepts two kinds of archives. `slipped` are those which a daemon
ingested between the last catch-up and the swap, or into the directory that the swap
had set aside: the code lets that happen (`LateDaemon` below, and the daemon's side of
it in section 3, `RebuildUnderDaemon`), against the comment over `rebuild` that the
build, the catch-up and the swap all hold the admin lock. An archive that a daemon
ingests into the old `graph/` while the rebuild still reads is not excepted: the
catch-up must find it, and two commands in the lock do not change that.

It also speaks only of a rebuilt `graph/` that is not `outdated`: no archive was
given to another store after it served. A store becomes outdated when a user
goes back to an older one and a session ends there; it is no longer so when it is
swapped in again, because the catch-up is in front of every swap. The age of a
store would not do: with two rebuilds and three kills, a message that names a
backup from before may be followed after the next half swap, an archive goes to
the store it names, and a later rollback comes back to the newest store of all,
which never had that archive. The code cannot know; the property is about what a
swap carries over.

Configurations outside the suite, each a counterexample:

| Configuration | What happens |
|---|---|
| `LostChunk` | `ensure_episodes` resumes after as many chunks as there are rows; when the first chunk failed and the second was stored, the second is stored again, the first never, and the log is finished |
| `TwiceIngested` | a daemon that looked at the lock before the rebuild opens the store that was swapped in, and the hook that waited for it ingests once more what the rebuild has extracted |
| `LateDaemon` | such a daemon ingests an archive into the old `graph/` after the last catch-up; the swap leaves it behind, and its hook has reported success |
| `StalePlan` | a plan made before the lock has archives that another rebuild has finished since; after a rollback of its swap they are extracted again |
| `WrongBackup` | the newest backup is judged by directory time, which a rename does not set: after two swaps the message names another backup than the one set aside |
| `HalfSwap` | after a kill between the renames the commands to finish are named only when the build has every archive; when a session ended meanwhile the message says to run `graph init` |

### Proofs

`RebuildSwapProofs` proves, for every set of archives, rebuild commands and bounds,
all five invariants the run checks: `ServedStoresStay`, `ConfigFitsStore`,
`FinishedLogsWhole`, `ArchivesCarried` and `SwapTypes`. The inductive invariant
`Inv` has these parts:

* `Births`: every store has its own birth, before the clock. Otherwise a new build
  could pass for one that had served.
* `Advice`: what the user was told stays safe to do as long as it is not done,
  which may be after other rebuilds: a build that served is stamped and is not the
  one to remove; what a "half" or "swapped" message speaks of is a stamped store.
  `RemoveBuild` is why: without it the advised removal may take a store that
  served and was put back by `UndoSwap`.
* `Staged`: what each stage finds; at "halfway" the store set aside is among the
  backups, so both the rename back and a kill leave it.
* `Fits`: `PipelineAgrees`, also for a user who has yet to set the pipeline, and
  for the store a swap may put back.
* `Whole` and `InHand`: of every log, in every store, either a chunk failed once,
  or all are there, or the first few are, in order, and a resumed archive goes on
  exactly there.

`AtRestNext` and `MoveKeeps` reduce a step to the command that takes it, since only
the one that has the build open is past "locked"; `ShuffledStores` is the step all
renames share: directories change places and none that served is lost. `OutsideKeeps`
is for commands that only fight over the lock file, which no part of `Inv` mentions.
`IngestKeeps` rests on `AppendedHas` and `GivenWhole`: chunks are only appended, and
only to the one store the daemon uses, which is never the build in hand (`Staged`
says so, and `Use` that a daemon which does not serve uses none).

`ArchivesCarried` needs `Carried` next to it: a rebuilt store in `graph/` or among
the backups has served, and has every archive that has not slipped unless it is
outdated; the build has every such archive from the catch-up to the rename, and also
while a message asks to finish a half swap and `graph/` is missing, which may be many
steps and another command's kill later. An ingest in the midst of a swap keeps it
because the archive has slipped then (`HookCarries`, `IngestCarries`), any other
because births tell the store it writes to from every other. `SwapTypes`
needs `Dated`: no directory is dated after the clock, so any backups have a newest
one and the message names a backup. `RebuildsFinish` is model-checked only.

## 8. The v1 store: migration, evidence, collection

### State and actions against the code

`StoreMigration` is the store's version marker and the rows it is about
(`graph/store.rs`), with the clients that write the same rows (`crud.rs`,
`correct.rs`, `ingest.rs`). `GraphSweep` adds `graph gc` (`gc.rs`); it EXTENDS
`StoreMigration` and its next-state relation is a step of either.

| Model | Code |
|---|---|
| `marker` | `meta:schema.schema_version` |
| `edges` | evidence of each edge: without counts, or counted; `base` is what the counts were derived from, `since` what was observed one by one |
| `flags` | `extracted` of each episode, absent before version 2 |
| `pc`, `tries`, `batch`, `outstanding`, `done` | `migrate_with_retries`, its backfills and their locals |
| `held`, `log` | the edges a worker or a correction has read and has still to write, the archive in hand |
| `phase`, `doomed`, `orphans`, `spent`, `halved` | the phases of a sweep and what it has still to delete |

A query of several statements is several transactions, so the SELECT of a backfill
and its UPDATE are two actions. An embedded store admits one process, a server any
number. A correction and an extraction read an edge and write it back whole.
Left out: the arithmetic of counts and decay (`Old` says which edges it makes
weak), the table definitions and the index on `extracted`, the alias table,
utility feedback, functions that only the library offers
(`update_relationship_confidence`, `supersede`, `retire`), `pipeline_sync` and
`vigil_sync`.

### The run and its bounds

`migration` starts from six stores: legacy on disk and on a server, version 1 on a
server, current, one whose marker lies (with `--force`), and one to be swept. Two
processes, three episodes with batches of two (so a backfill takes two rounds and
the last is short), two edges that share an entity, two troubles, one retry.

It checks `MarkerIsHonest` (a marker that promises a backfill is right),
`OpensOnWhole`, `BackfillsOnlyFillAlone` (a backfill of an embedded store touches
no row that has its value), `VersionRespected`, `ApartKept` (what was acknowledged
counts for good), `OnlyWeakGo` and `CitedEpisodesStayUnfailed` of the sweep, and
`MigrationFinishes`. Fairness: a process that runs goes on (`Migrates`), and a user
asks again when an open failed (`Open`).

Configurations outside the suite, each a counterexample:

| Configuration | What happens |
|---|---|
| `LostCorrection` | "The correction accumulates" (`correct.rs:16`): a worker that has read the edge writes it back and the correction is gone |
| `TwoMigrators` | "every backfill only touches rows that still lack the value it writes" (`store.rs:407`, `specs/extracted-flag-index.md`): on a server, a second process selects an edge before and updates it after the first has finished and its clients have counted observations |
| `SweepShared` | on a server: an entity is judged, an edge is added to it, the entity is deleted and the edge with it |
| `SweepFails` | "so is anything a surviving record cites as its source" (`gc.rs:9`): the deletion of an edge fails, the sweep goes on, and the episode the edge cites is deleted |

### Proofs

`StoreMigrationProofs` proves for every set of processes, rows, batch size and
bound:

* `MarkerStaysHonest` and `OpensOnWholeStores`, from `Progress`: by the time a pass
  is somewhere, what is behind it is done and nobody takes it back, so the marker
  it writes is right whoever else wrote one meanwhile.
* `FillsOnlyAlone` and `ObservationsApartKept`, from `Alone` (in an embedded store
  whoever is in the middle of a pass has nobody beside it) and `Records`: what a
  pass has selected still lacks its value, and what a client holds of an edge is no
  older than what was acknowledged on it, but for the edges in `crossed`.
* `NewerStoresLeftAlone` and `TypeInvariant`.

`GraphSweepProofs` proves the same promises of the composition
(`SweptStoreSound`, `SweptOpensOnWhole`, `SweptFillsOnly`,
`SweptVersionRespected`): `SweepTakes` reduces a step of the sweep to "rows go and
nothing else changes", which no part of the invariant of `StoreMigrationProofs`
minds, `Records` only because nobody is beside the sweep in an embedded store.
From `Sweep`, which says what the sweep knows, follow its own two properties:

* `SweepTakesOnlyWeak`, from `OrphansBare`: the edges of an entity that is to be
  deleted were condemned for themselves. On a server that fails (`SweepShared`);
  in an embedded store the edges change under a sweep only when its own process is
  gone, and the sweep with it (`SweptUndisturbed`).
* `SweepKeepsCited`, from `SpentUncited`: what will be left once the edges and
  entities decided upon are deleted cites no episode that is to be deleted, unless
  a deletion failed.

They rest on `SweepConstantsOK`: `graph gc` is a command of its own
(`graph_cli.rs:2475`, under the admin lock), so no worker and no correction runs in
a sweeping process. `MigrationFinishes` is model-checked only.

## 9. Not modelled

`PROJECT.json` lists every component with its status and the reason. Readers
(search, traversal, MCP, dashboard) keep no state; parsers of foreign transcripts
and the LLM providers enter as outcomes; configuration and setup are sequential
file edits; the benchmarks are an offline harness. Of the v1 pipeline the episodes,
the observations on edges and the marks are in `StoreMigration` and
`ExtractionWorker`; its extraction prompts and its deduplication of entities, whose
verdicts come from a model, are not. `cli_provider.rs`, `pass1.rs` and large parts
of `consolidate.rs` prepare text for a model and read its answers, where the state
is the text.
