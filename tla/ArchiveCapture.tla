--------------------------- MODULE ArchiveCapture ---------------------------
(***************************************************************************)
(* From an agent's transcript to an archive in conversations/ and to the   *)
(* graph (src/capture.rs, src/serve_capture.rs, src/archive.rs).           *)
(*                                                                         *)
(* Agents write transcripts.  The daemon's capture worker, `recall-echo    *)
(* ingest` and the hooks of Claude Code read them, number an archive,      *)
(* write it, add it to the index and hand it to the graph.  They share the *)
(* directory and the watermark, and any of them may be killed in between.  *)
(*                                                                         *)
(* Time is counted in half seconds: transcripts have a finer clock than    *)
(* the watermark, which is kept in whole seconds.  A transcript is its     *)
(* session, and the sessions are those of one CLI; their numbers stand for *)
(* the order of their ids.                                                 *)
(***************************************************************************)
EXTENDS Integers, FiniteSets, Sequences

CONSTANTS
  Sessions,       \* numbers
  Empty,          \* sessions without a user turn
  Broken,         \* transcripts that cannot be parsed
  Worker,         \* the capture worker of the daemon
  Importers,      \* `recall-echo ingest` processes
  Hooks,          \* processes of SessionEnd and PreCompact hooks
  BATCH_SIZE,
  Settle,         \* [capture] settle_secs
  Pauses,         \* TRUE: a session may go on after it looked settled
  Coarse,         \* TRUE: a transcript may be written at a whole second
  LastTurn, MaxTurns, MaxKills, MaxImports, MaxCheckpoints,   \* bounds
  None

Procs == {Worker} \cup Importers \cup Hooks

ASSUME ConstantsAssumption ==
  /\ Sessions \subseteq Nat /\ IsFiniteSet(Sessions)
  /\ Empty \subseteq Sessions /\ Broken \subseteq Sessions
  /\ Worker \notin Importers \cup Hooks /\ Importers \cap Hooks = {}
  /\ BATCH_SIZE \in Nat \ {0} /\ Settle \in Nat \ {0}
  /\ Pauses \in BOOLEAN /\ Coarse \in BOOLEAN
  /\ LastTurn \in Nat /\ MaxTurns \in Nat /\ MaxKills \in Nat
  /\ MaxImports \in Nat /\ MaxCheckpoints \in Nat
  /\ None \notin Sessions

MAX_ATTEMPTS == 2

VARIABLES
  clock,
  turns, written, over,      \* per session: length, time of the last turn, ended
  archives,                  \* conversations/: what archive n says
  ingested,                  \* numbers of the archives whose episodes are stored
  watermark,                 \* capture/<cli>.watermark, 0 without the file
  pc, list, ref, text, num,  \* per process: where it is, its transcripts still to
                             \* do, the one in hand, how much of it was read,
                             \* the number it will write
  compacting,                \* the hooks that write a checkpoint
  seen,                      \* per importer: the sessions it knows as archived
  attempts, skipped,         \* CaptureWorker
  reached, blocked,          \* per importer: its Watermark
  givenUp,                   \* sessions a worker has given up on (observed)
  kills, imports, checkpoints

sessions == <<turns, written, over>>
files == <<archives, watermark>>
local == <<list, ref, text, num, compacting, seen>>
ladder == <<attempts, skipped, givenUp>>
mark == <<reached, blocked>>
bounds == <<kills, imports, checkpoints>>
vars == <<clock, sessions, files, ingested, pc, local, ladder, mark, bounds>>

EndOfTime == LastTurn + Settle + 1
Time == 0..EndOfTime
Refs == [session : Sessions, written : Time]
NoRef == [session |-> None, written |-> 0]
Archive == [session : Sessions \cup {None}, turns : 0..MaxTurns,
            kind : {"session", "checkpoint"},
            replaced : SUBSET (Sessions \cup {None})]   \* observed: what was there before

TypeOK ==
  /\ clock \in Time
  /\ turns \in [Sessions -> 0..MaxTurns]
  /\ written \in [Sessions -> Time]
  /\ over \in [Sessions -> BOOLEAN]
  /\ archives \in Seq(Archive)
  /\ ingested \subseteq 1..Len(archives)
  /\ watermark \in Time
  /\ pc \in [Procs -> {"off", "idle", "next", "parse", "number", "write", "index", "ingest"}]
  /\ list \in [Procs -> SUBSET Refs]
  /\ ref \in [Procs -> Refs \cup {NoRef}]
  /\ text \in [Procs -> 0..MaxTurns]
  /\ compacting \subseteq Hooks
  /\ seen \in [Importers -> SUBSET (Sessions \cup {None})]
  /\ num \in [Procs -> Nat]
  /\ attempts \in [Sessions -> 0..MAX_ATTEMPTS]
  /\ skipped \subseteq Sessions /\ givenUp \subseteq Sessions
  /\ reached \in [Importers -> Time]
  /\ blocked \in [Importers -> BOOLEAN]
  /\ kills \in 0..MaxKills /\ imports \in 0..MaxImports /\ checkpoints \in 0..MaxCheckpoints

Init ==
  /\ clock = 0
  /\ turns = [s \in Sessions |-> 0] /\ written = [s \in Sessions |-> 0]
  /\ over = [s \in Sessions |-> FALSE]
  /\ archives = <<>> /\ ingested = {} /\ watermark = 0
  /\ pc = [p \in Procs |-> IF p = Worker THEN "idle" ELSE "off"]
  /\ list = [p \in Procs |-> {}] /\ ref = [p \in Procs |-> NoRef]
  /\ text = [p \in Procs |-> 0] /\ num = [p \in Procs |-> 0]
  /\ compacting = {} /\ seen = [i \in Importers |-> {}]
  /\ attempts = [s \in Sessions |-> 0] /\ skipped = {} /\ givenUp = {}
  /\ reached = [i \in Importers |-> 0] /\ blocked = [i \in Importers |-> FALSE]
  /\ kills = 0 /\ imports = 0 /\ checkpoints = 0

-----------------------------------------------------------------------------
(* Helpers                                                                 *)

\* write_watermark: whole seconds.
WholeSeconds(t) == t - (t % 2)

\* newer_than: the order of discovery.
Earlier(r, q) == r.written < q.written \/ (r.written = q.written /\ r.session < q.session)

\* The first k of a list of transcripts.
FirstOf(k, S) == {r \in S : Cardinality({q \in S : Earlier(q, r)}) < k}

\* collect_archived_sessions.
Archived == {archives[n].session : n \in DOMAIN archives}

\* The sessions whose archive another process has written over (observed).
Replaced == UNION {archives[n].replaced : n \in DOMAIN archives}

Settled(s) == clock - written[s] >= Settle

\* Mutant of Ready: the age of a transcript is not looked at.
Unsettled ==
  {[session |-> s, written |-> written[s]] :
     s \in {s \in Sessions : turns[s] > 0 /\ written[s] > watermark /\ s \notin Archived}}

\* pending: discovered after the watermark, not archived, settled.
Ready ==
  {[session |-> s, written |-> written[s]] :
     s \in {s \in Sessions : /\ turns[s] > 0 /\ written[s] > watermark
                             /\ s \notin Archived /\ Settled(s)}}

\* A client that waits for its ingest is a connection of the daemon.
HasConnections == \E p \in Importers \cup Hooks : pc[p] = "ingest"

GoTo(p, where) == pc' = [pc EXCEPT ![p] = where]

\* The process is done with the transcript in hand.
PutDown(p) ==
  /\ ref' = [ref EXCEPT ![p] = NoRef]
  /\ text' = [text EXCEPT ![p] = 0]
  /\ num' = [num EXCEPT ![p] = 0]
  /\ compacting' = compacting \ {p}

-----------------------------------------------------------------------------
(* Agents and the clock                                                    *)

\* An agent writes a turn of its session.
Turn(s) ==
  /\ ~over[s] /\ turns[s] < MaxTurns /\ 0 < clock /\ clock <= LastTurn
  /\ Coarse \/ WholeSeconds(clock) < clock
  /\ turns' = [turns EXCEPT ![s] = @ + 1]
  /\ written' = [written EXCEPT ![s] = clock]
  /\ UNCHANGED <<clock, over, files, ingested, pc, local, ladder, mark, bounds>>

\* A session ends, with or without a SessionEnd hook that archives it
\* (run_with_hook_input), which does not ask what is archived already.
EndSession(s) ==
  /\ ~over[s] /\ turns[s] > 0
  /\ over' = [over EXCEPT ![s] = TRUE]
  /\ \/ UNCHANGED <<pc, ref>>
     \/ \E h \in Hooks :
          /\ pc[h] = "off"
          /\ GoTo(h, "parse")
          /\ ref' = [ref EXCEPT ![h] = [session |-> s, written |-> written[s]]]
  /\ UNCHANGED <<clock, turns, written, files, ingested, list, text, num, compacting, seen,
                 ladder, mark, bounds>>

\* A PreCompact hook starts; it takes a number before it reads the transcript.
Checkpoint(h, s) ==
  /\ pc[h] = "off" /\ checkpoints < MaxCheckpoints
  /\ ~over[s] /\ turns[s] > 0
  /\ checkpoints' = checkpoints + 1
  /\ GoTo(h, "number")
  /\ ref' = [ref EXCEPT ![h] = [session |-> s, written |-> written[s]]]
  /\ compacting' = compacting \cup {h}
  /\ UNCHANGED <<clock, sessions, files, ingested, list, text, num, seen, ladder, mark,
                 kills, imports>>

\* Time passes.  Without Pauses a session that looks settled is over.
Tick ==
  /\ clock < EndOfTime
  /\ Pauses \/ \A s \in Sessions :
       turns[s] > 0 /\ ~over[s] => clock + 1 - written[s] < Settle
  /\ clock' = clock + 1
  /\ UNCHANGED <<sessions, files, ingested, pc, local, ladder, mark, bounds>>

-----------------------------------------------------------------------------
(* Choosing transcripts                                                    *)

\* Mutant of Found: no room for what is dropped again.
FoundExact == FirstOf(BATCH_SIZE, Ready)

\* take_pending over-fetches by what it will drop.
Found == FirstOf(BATCH_SIZE + Cardinality(skipped), Ready)

\* Mutant of NotSkipped: given up is forgotten.
SkippedToo(found) == found

NotSkipped(found) == {r \in found : r.session \notin skipped}

\* The daemon is quiet, and there is something to import.
WorkerList ==
  /\ pc[Worker] = "idle" /\ ~HasConnections
  /\ NotSkipped(Found) # {}
  /\ list' = [list EXCEPT ![Worker] = FirstOf(BATCH_SIZE, NotSkipped(Found))]
  /\ GoTo(Worker, "next")
  /\ UNCHANGED <<clock, sessions, files, ingested, ref, text, num, compacting, seen,
                 ladder, mark, bounds>>

\* `recall-echo ingest`: what is archived and what is ready, once per sweep.
ImporterList(i) ==
  /\ pc[i] = "off" /\ imports < MaxImports
  /\ imports' = imports + 1
  /\ seen' = [seen EXCEPT ![i] = Archived]
  /\ list' = [list EXCEPT ![i] = Ready]
  /\ GoTo(i, "next")
  /\ UNCHANGED <<clock, sessions, files, ingested, ref, text, num, compacting, ladder, mark,
                 kills, checkpoints>>

\* The head of both loops: the oldest transcript of the list is next.
Take(p) ==
  /\ pc[p] = "next"
  /\ p = Worker => ~HasConnections
  /\ \E r \in list[p] :
       /\ \A q \in list[p] \ {r} : Earlier(r, q)
       /\ ref' = [ref EXCEPT ![p] = r]
       /\ list' = [list EXCEPT ![p] = @ \ {r}]
  /\ GoTo(p, "parse")
  /\ UNCHANGED <<clock, sessions, files, ingested, text, num, compacting, seen,
                 ladder, mark, bounds>>

\* run_sweep is done, or a client has connected.
WorkerRests ==
  /\ pc[Worker] = "next" /\ (list[Worker] = {} \/ HasConnections)
  /\ list' = [list EXCEPT ![Worker] = {}]
  /\ GoTo(Worker, "idle")
  /\ UNCHANGED <<clock, sessions, files, ingested, ref, text, num, compacting, seen,
                 ladder, mark, bounds>>

\* What an importer knows is gone when it ends.
ForgetSweep(p) ==
  /\ seen' = [i \in Importers |-> IF i = p THEN {} ELSE seen[i]]
  /\ reached' = [i \in Importers |-> IF i = p THEN 0 ELSE reached[i]]
  /\ blocked' = [i \in Importers |-> blocked[i] /\ i # p]

\* Watermark::commit, and the command ends.
ImporterEnds(i) ==
  /\ pc[i] = "next" /\ list[i] = {}
  /\ watermark' = IF reached[i] > 0 THEN WholeSeconds(reached[i]) ELSE watermark
  /\ GoTo(i, "off")
  /\ ForgetSweep(i)
  /\ UNCHANGED <<clock, sessions, archives, ingested, list, ref, text, num, compacting,
                 ladder, bounds>>

-----------------------------------------------------------------------------
(* What becomes of the transcript in hand                                  *)

\* Mutant of Reaches: a failure does not stop the importer's watermark.
ReachesAnyway(i) == [reached EXCEPT ![i] = ref[i].written]

\* Watermark::handled.
Reaches(i) == IF blocked[i] THEN reached ELSE [reached EXCEPT ![i] = ref[i].written]

\* Dealt with: mark_swept in the worker, Watermark::handled in an importer.
Handled(p) ==
  /\ GoTo(p, IF p \in Hooks THEN "off" ELSE "next")
  /\ reached' = IF p \in Importers THEN Reaches(p) ELSE reached
  /\ IF p = Worker
     THEN /\ watermark' = WholeSeconds(ref[p].written)
          /\ attempts' = [attempts EXCEPT ![ref[p].session] = 0]
     ELSE UNCHANGED <<watermark, attempts>>
  /\ PutDown(p)
  /\ UNCHANGED <<list, skipped, givenUp, blocked>>

\* record_failure: the second time the transcript in the worker's hand is skipped
\* and the watermark moves past it.
RecordFailure ==
  LET s == ref[Worker].session
      last == attempts[s] + 1 >= MAX_ATTEMPTS
  IN /\ attempts' = [attempts EXCEPT ![s] = @ + 1]
     /\ skipped' = IF last THEN skipped \cup {s} ELSE skipped
     /\ givenUp' = IF last THEN givenUp \cup {s} ELSE givenUp
     /\ watermark' = IF last THEN WholeSeconds(ref[Worker].written) ELSE watermark

\* An error: record_failure and the end of the sweep in the worker,
\* Watermark::failed in an importer, the end of a hook.
Failed(p) ==
  /\ GoTo(p, IF p \in Importers THEN "next" ELSE IF p = Worker THEN "idle" ELSE "off")
  /\ blocked' = [i \in Importers |-> blocked[i] \/ i = p]
  /\ IF p = Worker
     THEN RecordFailure /\ list' = [list EXCEPT ![p] = {}]
     ELSE UNCHANGED <<attempts, skipped, givenUp, watermark, list>>
  /\ PutDown(p)
  /\ UNCHANGED reached

-----------------------------------------------------------------------------
(* Archiving one transcript                                                *)

\* What archive_transcript compares with: the worker looks again, an importer
\* adds to what it found at the start, a SessionEnd hook does not look.
ArchivedNow(p) ==
  IF p = Worker THEN Archived ELSE IF p \in Importers THEN seen[p] ELSE {}

\* The transcript cannot be read or parsed, or the archive not be written.
ArchiveFails(p) ==
  /\ pc[p] \in {"parse", "write"}
  /\ Failed(p)
  /\ UNCHANGED <<clock, sessions, archives, ingested, seen, bounds>>

\* Nothing to archive: archived by now, or no user turn, which an importer
\* remembers like an archive.
NothingToDo(p) ==
  /\ pc[p] = "parse" /\ ref[p].session \notin Broken
  /\ ref[p].session \in ArchivedNow(p) \cup Empty
  /\ Handled(p)
  /\ seen' = [i \in Importers |-> IF i = p THEN seen[i] \cup {ref[p].session} ELSE seen[i]]
  /\ UNCHANGED <<clock, sessions, archives, ingested, bounds>>

\* The turns of the session are read.
Parse(p) ==
  /\ pc[p] = "parse" /\ ref[p].session \notin Broken \cup Empty \cup ArchivedNow(p)
  /\ text' = [text EXCEPT ![p] = turns[ref[p].session]]
  /\ GoTo(p, "number")
  /\ UNCHANGED <<clock, sessions, files, ingested, list, ref, num, compacting, seen,
                 ladder, mark, bounds>>

\* What a checkpoint has of a session: all so far, or nothing of one without a
\* user turn or that does not parse.
CheckpointText(s) == IF s \in Empty \cup Broken THEN 0 ELSE turns[s]

\* highest_conversation_number + 1; a PreCompact hook reads the transcript now.
Number(p) ==
  /\ pc[p] = "number"
  /\ num' = [num EXCEPT ![p] = Len(archives) + 1]
  /\ text' = IF p \in compacting
             THEN [text EXCEPT ![p] = CheckpointText(ref[p].session)] ELSE text
  /\ GoTo(p, "write")
  /\ UNCHANGED <<clock, sessions, files, ingested, list, ref, compacting, seen,
                 ladder, mark, bounds>>

\* The archive p writes under its number.
ArchiveOf(p) ==
  [session |-> IF text[p] = 0 THEN None ELSE ref[p].session,
   turns |-> text[p],
   kind |-> IF p \in compacting THEN "checkpoint" ELSE "session",
   replaced |-> IF num[p] \in DOMAIN archives
                THEN archives[num[p]].replaced \cup {archives[num[p]].session} ELSE {}]

\* fs::write, which replaces what another process has written under that number
\* since.  A checkpoint goes to the graph before it is indexed; nothing here
\* depends on its index entry.
Write(p) ==
  /\ pc[p] = "write"
  /\ archives' = IF num[p] \in DOMAIN archives
                 THEN [archives EXCEPT ![num[p]] = ArchiveOf(p)]
                 ELSE Append(archives, ArchiveOf(p))
  /\ GoTo(p, IF p \in compacting THEN "ingest" ELSE "index")
  /\ UNCHANGED <<clock, sessions, watermark, ingested, local, ladder, mark, bounds>>

\* append_index and the rewriting of EPHEMERAL.md.
Index(p) ==
  /\ pc[p] = "index"
  /\ GoTo(p, "ingest")
  /\ seen' = [i \in Importers |-> IF i = p THEN seen[i] \cup {ref[p].session} ELSE seen[i]]
  /\ UNCHANGED <<clock, sessions, files, ingested, list, ref, text, num, compacting,
                 ladder, mark, bounds>>

\* They fail: the archive is there, and its transcript counts as failed.
IndexFails(p) ==
  /\ pc[p] = "index"
  /\ Failed(p)
  /\ UNCHANGED <<clock, sessions, archives, ingested, seen, bounds>>

\* The archive's episodes are stored.
Ingest(p) ==
  /\ pc[p] = "ingest"
  /\ ingested' = ingested \cup {num[p]}
  /\ Handled(p)
  /\ UNCHANGED <<clock, sessions, archives, seen, bounds>>

\* They are not: an error of the worker's import, a warning anywhere else
\* (graph_ingest).
IngestFails(p) ==
  /\ pc[p] = "ingest"
  /\ IF p = Worker THEN Failed(p) ELSE Handled(p)
  /\ UNCHANGED <<clock, sessions, archives, ingested, seen, bounds>>

-----------------------------------------------------------------------------
(* Kills and restarts                                                      *)

\* A process is killed.  A stop of the daemon is no different for the worker:
\* it drops an import that waits for the store, and what the worker knows is
\* lost with it.
Killed(p) ==
  /\ pc[p] # "off" /\ kills < MaxKills
  /\ kills' = kills + 1
  /\ GoTo(p, "off")
  /\ list' = [list EXCEPT ![p] = {}] /\ PutDown(p)
  /\ IF p = Worker
     THEN attempts' = [s \in Sessions |-> 0] /\ skipped' = {}
     ELSE UNCHANGED <<attempts, skipped>>
  /\ ForgetSweep(p)
  /\ UNCHANGED <<clock, sessions, files, ingested, givenUp, imports, checkpoints>>

\* A daemon starts, and its CaptureWorker::new.
WorkerStarts ==
  /\ pc[Worker] = "off"
  /\ GoTo(Worker, "idle")
  /\ UNCHANGED <<clock, sessions, files, ingested, local, ladder, mark, bounds>>

-----------------------------------------------------------------------------
(* The system                                                              *)

\* A process gets on with the transcript in hand.
Step(p) ==
  \/ ArchiveFails(p) \/ NothingToDo(p) \/ Parse(p) \/ Number(p) \/ Write(p)
  \/ Index(p) \/ IndexFails(p) \/ Ingest(p) \/ IngestFails(p)

Next ==
  \/ \E s \in Sessions : Turn(s) \/ EndSession(s) \/ \E h \in Hooks : Checkpoint(h, s)
  \/ Tick
  \/ WorkerList \/ WorkerRests \/ WorkerStarts
  \/ \E i \in Importers : ImporterList(i) \/ ImporterEnds(i)
  \/ \E p \in Procs \ Hooks : Take(p)
  \/ \E p \in Procs : Step(p) \/ Killed(p)

Spec == Init /\ [][Next]_vars

\* Time passes, sessions end, a daemon that is gone is started again by the
\* next client, and a running process is scheduled.
Fairness ==
  /\ WF_vars(Tick) /\ \A s \in Sessions : WF_vars(EndSession(s))
  /\ WF_vars(WorkerStarts) /\ WF_vars(WorkerList) /\ WF_vars(WorkerRests)
  /\ \A i \in Importers : WF_vars(ImporterEnds(i))
  /\ \A p \in Procs \ Hooks : WF_vars(Take(p))
  /\ \A p \in Procs : WF_vars(Step(p))

FairSpec == Spec /\ Fairness

-----------------------------------------------------------------------------
(* Properties                                                              *)

\* The time of a transcript has a fraction of a second, which the watermark has
\* not.
Fraction(s) == WholeSeconds(written[s]) < written[s]

\* Whatever the watermark has passed is archived, has nothing to archive, or was
\* given up on: "never past a transcript that failed" (Watermark, mark_swept),
\* with several processes that write the same watermark and number archives at
\* the same time.  The two ways to lose a session are named: its archive was
\* written over by a process that had taken the same number, or its transcript
\* was last written at a whole second.
NothingSkipped ==
  \A s \in Sessions :
    turns[s] > 0 /\ written[s] <= watermark /\ Fraction(s) =>
      s \in Archived \cup Replaced \cup Empty \cup givenUp

\* No archive is written over: a number belongs to one process
\* (highest_conversation_number, write_archive).
NothingReplaced == Replaced \subseteq Archived

\* A session written in the second of the watermark is not passed over.
SecondsKept ==
  \A s \in Sessions :
    turns[s] > 0 /\ written[s] <= watermark =>
      s \in Archived \cup Replaced \cup Empty \cup givenUp

\* An archive of a session holds all of it: what is still being written is left
\* alone (pending, settle), and hooks that archive run after the last turn.
CompleteArchives ==
  \A n \in DOMAIN archives :
    archives[n].kind = "session" =>
      over[archives[n].session] /\ archives[n].turns = turns[archives[n].session]

\* Whatever the watermark has passed is in the graph too, unless it was given
\* up on: "the next quiet period retries it rather than silently walking past
\* it" (run_sweep).
NothingWalkedPast ==
  \A s \in Sessions :
    turns[s] > 0 /\ written[s] <= watermark =>
      s \in Empty \cup givenUp \cup {archives[n].session : n \in ingested}

\* Every session that ends is archived or, after two failures, given up on;
\* sessions without a user turn, transcripts that do not parse and whole-second
\* watermarks do not keep the worker from it.
EverySessionArchived ==
  \A s \in Sessions \ Empty : over[s] ~> s \in Archived \cup givenUp
=============================================================================
