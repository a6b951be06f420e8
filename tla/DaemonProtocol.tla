--------------------------- MODULE DaemonProtocol ---------------------------
(***************************************************************************)
(* How the processes of one memory directory share its embedded store:     *)
(* hot commands that reach (or start) the graph daemon, the daemon itself, *)
(* and admin commands that stop the daemon and keep the store for          *)
(* themselves (src/serve_client.rs, src/serve.rs).                         *)
(*                                                                         *)
(* Four files coordinate them: the published socket, the spawn lock        *)
(* (<socket>.lock), the admin lock (<socket>.admin) and the file lock that *)
(* SurrealKV takes inside graph/.  Only the last one disappears by itself  *)
(* when its holder dies.                                                   *)
(*                                                                         *)
(* A process of Hot or Admins is one command and runs once.  A process of  *)
(* Daemons is a slot that can be spawned again after it exits.  A file     *)
(* names the process it belongs to; Gone stands for an owner that is no    *)
(* longer there: a socket nobody listens on, a lock of a dead process, a   *)
(* connection the peer closed, a child that exited.  Only the spawn lock   *)
(* is judged by its age, whoever its owner is: it keeps the name of a      *)
(* command that was killed until it is old, and then becomes Gone.         *)
(***************************************************************************)
EXTENDS Naturals

CONSTANTS
  Daemons, Hot, Admins,   \* the three kinds of processes
  Outdated,               \* daemons of another version than the commands
  Retryable,              \* hot commands whose request is_retryable()
  Role,                   \* what each admin process runs
  None, Gone,             \* "nobody" and "somebody who is not there any more"
  Killable,               \* processes that may be killed at any moment
  Timers,                 \* the time limits that may expire
  IdleExit,               \* FALSE: idle_timeout_secs = 0 or --foreground
  Debris,                 \* TRUE: processes killed earlier may have left files
  MaxConnectRounds, MaxStopRounds

Clients == Hot \cup Admins
Processes == Daemons \cup Clients
Roles == {"exclusive", "rebuild", "stop"}
TimerNames == {"admin", "start", "call", "gone", "release", "overrun"}

ASSUME ConstantsAssumption ==
  /\ Daemons \cap Clients = {} /\ Hot \cap Admins = {}
  /\ None # Gone /\ {None, Gone} \cap Processes = {}
  /\ Outdated \subseteq Daemons /\ Retryable \subseteq Hot
  /\ Role \in [Admins -> Roles]
  /\ Killable \subseteq Processes /\ Timers \subseteq TimerNames
  /\ IdleExit \in BOOLEAN /\ Debris \in BOOLEAN
  /\ MaxConnectRounds \in Nat \ {0} /\ MaxStopRounds \in Nat \ {0}

VARIABLES
  sock,       \* what the published socket path leads to
  spawnLock,  \* who created the spawn lockfile; Gone when it is stale
  adminLock,  \* who created the admin lockfile
  kv,         \* who holds the SurrealKV lock of graph/
  astray,     \* processes whose open store was renamed away under them
  dpc,        \* per daemon: where run() is
  stopping,   \* per daemon: its ShutdownSignal is latched
  conn,       \* per client: its end of the connection
  task,       \* per client: the daemon running handle_connection for it
  pc,         \* per hot command: where execute() is
  round,      \* per hot command: the round of connect_or_spawn
  retried,    \* per hot command: execute() is on its second attempt
  child,      \* per hot command: the daemon it spawned and still watches
  late,       \* per hot command: the start deadline passed during the admin wait
  applied,    \* per hot command: how often a daemon carried it out
  apc,        \* per admin command: where exclusive() is
  stops       \* per admin command: the round of stop_daemon_for_admin

files == <<sock, spawnLock, adminLock, kv, astray>>
daemonVars == <<dpc, stopping>>
wires == <<conn, task>>
hotVars == <<pc, round, retried, child, late, applied>>
adminVars == <<apc, stops>>
vars == <<files, daemonVars, wires, hotVars, adminVars>>

DaemonStates == {"off", "waitAdmin", "open", "bind", "publish", "serving",
                 "draining", "released", "exiting"}
HotStates == {"connect", "unlink", "hello", "askOld", "waitGone", "goneUnlink",
              "waitAdmin", "lock", "exists", "breakLock", "relock", "spawn",
              "wait", "check", "call", "applied", "done", "failed", "lost"}
AdminStates == {"acquire", "exists", "break", "stop", "stopUnlink", "askStop", "waitGone",
                "goneUnlink", "open", "operate", "build", "dropOk", "dropErr",
                "done", "failed"}

TypeOK ==
  /\ sock \in Daemons \cup {None, Gone}
  /\ spawnLock \in Hot \cup {None, Gone}
  /\ adminLock \in Admins \cup {None, Gone}
  /\ kv \in Daemons \cup Admins \cup {None}
  /\ astray \subseteq Daemons \cup Admins
  /\ dpc \in [Daemons -> DaemonStates]
  /\ stopping \in [Daemons -> BOOLEAN]
  /\ conn \in [Clients -> Daemons \cup {None, Gone}]
  /\ task \in [Clients -> Daemons \cup {None}]
  /\ pc \in [Hot -> HotStates]
  /\ round \in [Hot -> Nat]
  /\ retried \in [Hot -> BOOLEAN]
  /\ child \in [Hot -> Daemons \cup {None, Gone}]
  /\ late \in [Hot -> BOOLEAN]
  /\ applied \in [Hot -> Nat]
  /\ apc \in [Admins -> AdminStates]
  /\ stops \in [Admins -> Nat]

Leftover == IF Debris THEN {None, Gone} ELSE {None}

\* Nobody runs, except perhaps a daemon that an older binary started; the files
\* may be those of processes that were killed before.
Init ==
  /\ kv \in Outdated \cup {None}
  /\ sock \in IF kv = None THEN Leftover ELSE {kv}
  /\ dpc = [d \in Daemons |-> IF d = kv THEN "serving" ELSE "off"]
  /\ spawnLock \in Leftover /\ adminLock \in Leftover /\ astray = {}
  /\ stopping = [d \in Daemons |-> FALSE]
  /\ conn = [x \in Clients |-> None]
  /\ task = [x \in Clients |-> None]
  /\ pc = [c \in Hot |-> "connect"]
  /\ round = [c \in Hot |-> 0]
  /\ retried = [c \in Hot |-> FALSE]
  /\ child = [c \in Hot |-> None]
  /\ late = [c \in Hot |-> FALSE]
  /\ applied = [c \in Hot |-> 0]
  /\ apc = [a \in Admins |-> IF Role[a] = "stop" THEN "stop" ELSE "acquire"]
  /\ stops = [a \in Admins |-> 0]

-----------------------------------------------------------------------------
(* Helpers                                                                 *)

Listening == sock \in Daemons
AdminLive == adminLock \in Admins     \* admin_lock_is_live: the owner is alive

Expires(timer) == timer \in Timers

Ended(c) == pc[c] \in {"done", "failed", "lost"}

GoTo(c, state) == pc' = [pc EXCEPT ![c] = state]
AdminGoTo(a, state) == apc' = [apc EXCEPT ![a] = state]
DaemonGoTo(d, state) == dpc' = [dpc EXCEPT ![d] = state]

\* Mutant of HangUp: the daemon never notices that the client is gone.
HangUpUnnoticed(x) ==
  /\ conn' = [conn EXCEPT ![x] = None]
  /\ UNCHANGED task

\* Client x's end and the daemon's end of a connection both go.
HangUp(x) ==
  /\ conn' = [conn EXCEPT ![x] = None]
  /\ task' = [task EXCEPT ![x] = None]

\* Mutant of ListenerCloses: the listener outlives the accept loop.
ListenerStays(d) == UNCHANGED <<sock, conn>>

\* The listener of d is closed: nothing answers on its path, and connections
\* still in its backlog are reset.
ListenerCloses(d) ==
  /\ sock' = IF sock = d THEN Gone ELSE sock
  /\ conn' = [x \in Clients |->
                IF conn[x] = d /\ task[x] # d THEN Gone ELSE conn[x]]

\* Everything the operating system takes back when daemon d is gone.
ProcessEnds(d) ==
  /\ DaemonGoTo(d, "off")
  /\ stopping' = [stopping EXCEPT ![d] = FALSE]
  /\ sock' = IF sock = d THEN Gone ELSE sock
  /\ kv' = IF kv = d THEN None ELSE kv
  /\ astray' = astray \ {d}
  /\ conn' = [x \in Clients |-> IF conn[x] = d THEN Gone ELSE conn[x]]
  /\ task' = [x \in Clients |-> IF task[x] = d THEN None ELSE task[x]]
  /\ child' = [c \in Hot |-> IF child[c] = d THEN Gone ELSE child[c]]

-----------------------------------------------------------------------------
(* The daemon: run(), in order                                             *)

\* open_store: wait until no admin operation holds the lock.
DaemonWaitAdmin(d) ==
  /\ dpc[d] = "waitAdmin"
  /\ ~AdminLive
  /\ DaemonGoTo(d, "open")
  /\ UNCHANGED <<files, stopping, wires, hotVars, adminVars>>

\* The wait is bounded by ADMIN_WAIT_TIMEOUT; run() then fails.
DaemonAdminTimeout(d) ==
  /\ dpc[d] = "waitAdmin"
  /\ AdminLive /\ Expires("admin")
  /\ ProcessEnds(d)
  /\ UNCHANGED <<spawnLock, adminLock, pc, round, retried, late, applied, adminVars>>

\* open_store: GraphMemory::open_embedded took the SurrealKV lock.
DaemonOpen(d) ==
  /\ dpc[d] = "open"
  /\ kv = None
  /\ kv' = d
  /\ DaemonGoTo(d, "bind")
  /\ UNCHANGED <<sock, spawnLock, adminLock, astray, stopping, wires, hotVars, adminVars>>

\* The retries are used up and the store is still locked: by an admin
\* operation, so wait for it again ...
DaemonLockedByAdmin(d) ==
  /\ dpc[d] = "open"
  /\ kv # None /\ AdminLive
  /\ DaemonGoTo(d, "waitAdmin")
  /\ UNCHANGED <<files, stopping, wires, hotVars, adminVars>>

\* ... or by somebody else, and run() fails.
DaemonLocked(d) ==
  /\ dpc[d] = "open"
  /\ kv # None /\ ~AdminLive
  /\ ProcessEnds(d)
  /\ UNCHANGED <<spawnLock, adminLock, pc, round, retried, late, applied, adminVars>>

\* bind_socket, up to the staged listener: refuse when somebody answers on the
\* published path.
DaemonBind(d) ==
  /\ dpc[d] = "bind" /\ ~Listening
  /\ DaemonGoTo(d, "publish")
  /\ UNCHANGED <<files, stopping, wires, hotVars, adminVars>>

DaemonBindRefused(d) ==
  /\ dpc[d] = "bind" /\ Listening
  /\ ProcessEnds(d)
  /\ UNCHANGED <<spawnLock, adminLock, pc, round, retried, late, applied, adminVars>>

\* bind_socket: unlink whatever is at the published path and rename the staged
\* socket there; then the pidfile, the workers and "ready".
DaemonPublish(d) ==
  /\ dpc[d] = "publish"
  /\ sock' = d
  /\ DaemonGoTo(d, "serving")
  /\ UNCHANGED <<spawnLock, adminLock, kv, astray, stopping, wires, hotVars, adminVars>>

\* accept_loop hands a connection to its own handle_connection task.
DaemonAccept(d, x) ==
  /\ dpc[d] = "serving"
  /\ conn[x] = d /\ task[x] = None
  /\ task' = [task EXCEPT ![x] = d]
  /\ UNCHANGED <<files, daemonVars, conn, hotVars, adminVars>>

\* accept_loop ends on the latched signal, or on the idle timeout while no
\* connection task runs, and drops the listener.
DaemonStopAccepting(d) ==
  /\ dpc[d] = "serving"
  /\ \/ stopping[d]
     \/ IdleExit /\ \A x \in Clients : task[x] # d
  /\ stopping' = [stopping EXCEPT ![d] = TRUE]
  /\ DaemonGoTo(d, "draining")
  /\ ListenerCloses(d)
  /\ UNCHANGED <<spawnLock, adminLock, kv, astray, task, hotVars, adminVars>>

\* Mutant of DaemonRelease: the store is closed under the connection tasks.
ReleaseAtOnce(d) ==
  /\ dpc[d] = "draining"
  /\ kv' = IF kv = d THEN None ELSE kv
  /\ astray' = astray \ {d}
  /\ DaemonGoTo(d, "released")
  /\ UNCHANGED <<sock, spawnLock, adminLock, stopping, wires, hotVars, adminVars>>

\* release_store: the last connection task is gone, the store is closed.
DaemonRelease(d) ==
  /\ dpc[d] = "draining"
  /\ \A x \in Clients : task[x] # d
  /\ kv' = IF kv = d THEN None ELSE kv
  /\ astray' = astray \ {d}
  /\ DaemonGoTo(d, "released")
  /\ UNCHANGED <<sock, spawnLock, adminLock, stopping, wires, hotVars, adminVars>>

\* release_store gives up: the store stays open until the process ends.
DaemonGiveUp(d) ==
  /\ dpc[d] = "draining" /\ Expires("release")
  /\ \E x \in Clients : task[x] = d
  /\ DaemonGoTo(d, "released")
  /\ UNCHANGED <<files, stopping, wires, hotVars, adminVars>>

\* run() removes the published socket, whoever's it is by now, and the pidfile.
DaemonUnlink(d) ==
  /\ dpc[d] = "released"
  /\ sock' = None
  /\ DaemonGoTo(d, "exiting")
  /\ UNCHANGED <<spawnLock, adminLock, kv, astray, stopping, wires, hotVars, adminVars>>

DaemonExit(d) ==
  /\ dpc[d] = "exiting"
  /\ ProcessEnds(d)
  /\ UNCHANGED <<spawnLock, adminLock, pc, round, retried, late, applied, adminVars>>

DaemonKilled(d) ==
  /\ d \in Killable /\ dpc[d] # "off"
  /\ ProcessEnds(d)
  /\ UNCHANGED <<spawnLock, adminLock, pc, round, retried, late, applied, adminVars>>

\* handle_connection carries out the request of hot command c.
DaemonApply(d, c) ==
  /\ pc[c] = "call" /\ conn[c] = d /\ task[c] = d
  /\ applied' = [applied EXCEPT ![c] = @ + 1]
  /\ GoTo(c, "applied")
  /\ UNCHANGED <<files, daemonVars, wires, round, retried, child, late, adminVars>>

\* The same after the command stopped waiting: dispatch is not cancelled, and
\* only writing the response fails.
DaemonApplyLate(d, c) ==
  /\ pc[c] = "lost" /\ task[c] = d
  /\ applied' = [applied EXCEPT ![c] = @ + 1]
  /\ task' = [task EXCEPT ![c] = None]
  /\ GoTo(c, "failed")
  /\ UNCHANGED <<files, daemonVars, conn, round, retried, child, late, adminVars>>

-----------------------------------------------------------------------------
(* A hot command: execute() and connect_or_spawn()                         *)

\* Connection::connect: nothing at the path, a dead socket, or a listener.
HotConnect(c) ==
  /\ pc[c] = "connect" /\ round[c] < MaxConnectRounds
  /\ \/ sock = None /\ GoTo(c, "waitAdmin") /\ UNCHANGED conn
     \/ sock = Gone /\ GoTo(c, "unlink") /\ UNCHANGED conn
     \/ Listening /\ GoTo(c, "hello") /\ conn' = [conn EXCEPT ![c] = sock]
  /\ late' = [late EXCEPT ![c] = FALSE]
  /\ UNCHANGED <<files, daemonVars, task, round, retried, child, applied, adminVars>>

HotGiveUpConnecting(c) ==
  /\ pc[c] = "connect" /\ round[c] = MaxConnectRounds
  /\ GoTo(c, "failed")
  /\ UNCHANGED <<files, daemonVars, wires, round, retried, child, late, applied, adminVars>>

\* unlink_socket after a refused connect or a broken handshake: it removes
\* whatever is at the path by now.
HotUnlink(c) ==
  /\ pc[c] = "unlink"
  /\ sock' = None
  /\ GoTo(c, "waitAdmin")
  /\ UNCHANGED <<spawnLock, adminLock, kv, astray, daemonVars, wires,
                 round, retried, child, late, applied, adminVars>>

\* The version handshake succeeded: send the request, or ask an outdated
\* daemon to go.
HotHello(c) ==
  /\ pc[c] = "hello" /\ conn[c] \in Daemons /\ task[c] = conn[c]
  /\ GoTo(c, IF conn[c] \in Outdated THEN "askOld" ELSE "call")
  /\ UNCHANGED <<files, daemonVars, wires, round, retried, child, late, applied, adminVars>>

\* Mutant of HotHelloDisconnected: the end of the stream is read over and over.
HelloIgnoresEnd(c) ==
  /\ pc[c] = "hello" /\ conn[c] = Gone
  /\ UNCHANGED vars

\* The daemon closed the connection during the handshake.
HotHelloDisconnected(c) ==
  /\ pc[c] = "hello" /\ conn[c] = Gone
  /\ HangUp(c)
  /\ GoTo(c, "unlink")
  /\ UNCHANGED <<files, daemonVars, round, retried, child, late, applied, adminVars>>

HotHelloTimeout(c) ==
  /\ pc[c] = "hello" /\ conn[c] \in Daemons /\ Expires("call")
  /\ HangUp(c)
  /\ GoTo(c, "failed")
  /\ UNCHANGED <<files, daemonVars, round, retried, child, late, applied, adminVars>>

\* The result of the Shutdown call is ignored: answered or not, wait for the
\* socket to go.
HotAskOld(c) ==
  /\ pc[c] = "askOld"
  /\ stopping' = [d \in Daemons |-> stopping[d] \/ d = conn[c]]
  /\ HangUp(c)
  /\ GoTo(c, "waitGone")
  /\ UNCHANGED <<files, dpc, round, retried, child, late, applied, adminVars>>

\* wait_for_socket_gone: a connect failed ...
HotSeesGone(c) ==
  /\ pc[c] = "waitGone" /\ ~Listening
  /\ GoTo(c, "goneUnlink")
  /\ UNCHANGED <<files, daemonVars, wires, round, retried, child, late, applied, adminVars>>

\* ... so the path is unlinked.
HotGoneUnlink(c) ==
  /\ pc[c] = "goneUnlink"
  /\ sock' = None
  /\ GoTo(c, "waitAdmin")
  /\ UNCHANGED <<spawnLock, adminLock, kv, astray, daemonVars, wires,
                 round, retried, child, late, applied, adminVars>>

HotGoneTimeout(c) ==
  /\ pc[c] = "waitGone" /\ Listening /\ Expires("gone")
  /\ GoTo(c, "failed")
  /\ UNCHANGED <<files, daemonVars, wires, round, retried, child, late, applied, adminVars>>

\* start_daemon waits for the admin lock first.
HotWaitAdmin(c) ==
  /\ pc[c] = "waitAdmin" /\ ~AdminLive
  /\ GoTo(c, "lock")
  /\ UNCHANGED <<files, daemonVars, wires, round, retried, child, late, applied, adminVars>>

\* The deadline for the daemon to come up was set before that wait, and it
\* passes while the admin operation still runs.
HotAdminOverrun(c) ==
  /\ pc[c] = "waitAdmin" /\ AdminLive /\ Expires("overrun")
  /\ late' = [late EXCEPT ![c] = TRUE]
  /\ UNCHANGED <<files, daemonVars, wires, pc, round, retried, child, applied, adminVars>>

HotAdminTimeout(c) ==
  /\ pc[c] = "waitAdmin" /\ AdminLive /\ Expires("admin")
  /\ GoTo(c, "failed")
  /\ UNCHANGED <<files, daemonVars, wires, round, retried, child, late, applied, adminVars>>

\* acquire_spawn_lock: the O_EXCL create wins, or the lockfile exists ...
HotTakeSpawnLock(c) ==
  /\ pc[c] = "lock"
  /\ IF spawnLock = None
     THEN spawnLock' = c /\ GoTo(c, "spawn")
     ELSE GoTo(c, "exists") /\ UNCHANGED spawnLock
  /\ UNCHANGED <<sock, adminLock, kv, astray, daemonVars, wires,
                 round, retried, child, late, applied, adminVars>>

\* Mutant of HotJudgeSpawnLock: a lockfile is never stale.
NeverStale(c) ==
  /\ pc[c] = "exists"
  /\ GoTo(c, "wait")
  /\ UNCHANGED <<files, daemonVars, wires, round, retried, child, late, applied, adminVars>>

\* ... and lock_is_stale looks at its age, never for its owner: wait for the
\* daemon of a lock that is not older than STALE_LOCK_AGE, whether or not anybody
\* is starting one.  A file that is gone by now counts as stale.
HotJudgeSpawnLock(c) ==
  /\ pc[c] = "exists"
  /\ GoTo(c, IF spawnLock \in Hot THEN "wait" ELSE "breakLock")
  /\ UNCHANGED <<files, daemonVars, wires, round, retried, child, late, applied, adminVars>>

\* The stale lockfile, or whichever one is there by now, is removed ...
HotBreakSpawnLock(c) ==
  /\ pc[c] = "breakLock"
  /\ spawnLock' = None
  /\ GoTo(c, "relock")
  /\ UNCHANGED <<sock, adminLock, kv, astray, daemonVars, wires,
                 round, retried, child, late, applied, adminVars>>

\* ... and the create tried once more.
HotRetakeSpawnLock(c) ==
  /\ pc[c] = "relock"
  /\ \/ /\ spawnLock = None
        /\ spawnLock' = c /\ GoTo(c, "spawn")
     \/ /\ spawnLock # None
        /\ GoTo(c, "wait") /\ UNCHANGED spawnLock
  /\ UNCHANGED <<sock, adminLock, kv, astray, daemonVars, wires,
                 round, retried, child, late, applied, adminVars>>

\* spawn_daemon: the child is this command's own version and starts run().
HotSpawn(c) ==
  /\ pc[c] = "spawn"
  /\ \E d \in Daemons \ Outdated :
       /\ dpc[d] = "off"
       /\ DaemonGoTo(d, "waitAdmin")
       /\ child' = [child EXCEPT ![c] = d]
  /\ GoTo(c, "wait")
  /\ UNCHANGED <<files, stopping, wires, round, retried, late, applied, adminVars>>

\* spawn_daemon fails.  The slots of Daemons bound how many daemons are alive
\* at once: a command that finds none is one whose spawn failed.
HotSpawnFails(c) ==
  /\ pc[c] = "spawn"
  /\ \A d \in Daemons \ Outdated : dpc[d] # "off"
  /\ spawnLock' = None
  /\ GoTo(c, "failed")
  /\ UNCHANGED <<sock, adminLock, kv, astray, daemonVars, wires,
                 round, retried, child, late, applied, adminVars>>

\* start_daemon ends: the SpawnLock guard, when c has one, removes the
\* lockfile, and the child is no longer watched.
StopStarting(c) ==
  /\ spawnLock' = IF child[c] = None THEN spawnLock ELSE None
  /\ child' = [child EXCEPT ![c] = None]

\* wait_for_socket: somebody accepts connections; next round.
HotSeesSocket(c) ==
  /\ pc[c] = "wait" /\ ~late[c] /\ Listening
  /\ StopStarting(c)
  /\ round' = [round EXCEPT ![c] = @ + 1]
  /\ GoTo(c, "connect")
  /\ UNCHANGED <<sock, adminLock, kv, astray, daemonVars, wires,
                 retried, late, applied, adminVars>>

\* wait_for_socket: the connect failed; look at the child, when there is one.
HotSeesNoSocket(c) ==
  /\ pc[c] = "wait" /\ ~late[c] /\ child[c] # None /\ ~Listening
  /\ GoTo(c, "check")
  /\ UNCHANGED <<files, daemonVars, wires, round, retried, child, late, applied, adminVars>>

\* The daemon this command spawned has exited, or it goes on waiting for it.
HotCheckChild(c) ==
  /\ pc[c] = "check"
  /\ IF child[c] = Gone
     THEN StopStarting(c) /\ GoTo(c, "failed")
     ELSE GoTo(c, "wait") /\ UNCHANGED <<spawnLock, child>>
  /\ UNCHANGED <<sock, adminLock, kv, astray, daemonVars, wires,
                 round, retried, late, applied, adminVars>>

\* wait_for_socket: the deadline has passed.
HotStartTimeout(c) ==
  /\ pc[c] = "wait" /\ (late[c] \/ (Expires("start") /\ ~Listening))
  /\ StopStarting(c)
  /\ GoTo(c, "failed")
  /\ UNCHANGED <<sock, adminLock, kv, astray, daemonVars, wires,
                 round, retried, late, applied, adminVars>>

\* The response arrives and the command ends.
HotReply(c) ==
  /\ pc[c] = "applied" /\ conn[c] \in Daemons
  /\ HangUp(c)
  /\ GoTo(c, "done")
  /\ UNCHANGED <<files, daemonVars, round, retried, child, late, applied, adminVars>>

\* Mutants of HotDisconnected: whatever the request, it is tried again; a broken
\* connection passes for an answer.
RetryAnything(c) ==
  /\ pc[c] \in {"call", "applied"} /\ conn[c] = Gone
  /\ HangUp(c)
  /\ IF ~retried[c]
     THEN /\ GoTo(c, "connect")
          /\ retried' = [retried EXCEPT ![c] = TRUE]
          /\ round' = [round EXCEPT ![c] = 0]
     ELSE GoTo(c, "failed") /\ UNCHANGED <<retried, round>>
  /\ UNCHANGED <<files, daemonVars, child, late, applied, adminVars>>

BrokenIsAnswered(c) ==
  /\ pc[c] \in {"call", "applied"} /\ conn[c] = Gone
  /\ HangUp(c)
  /\ GoTo(c, "done")
  /\ UNCHANGED <<files, daemonVars, round, retried, child, late, applied, adminVars>>

\* The connection broke before the response: one more attempt for a request
\* that is safe to apply twice, an error for the others.
HotDisconnected(c) ==
  /\ pc[c] \in {"call", "applied"} /\ conn[c] = Gone
  /\ HangUp(c)
  /\ IF c \in Retryable /\ ~retried[c]
     THEN /\ GoTo(c, "connect")
          /\ retried' = [retried EXCEPT ![c] = TRUE]
          /\ round' = [round EXCEPT ![c] = 0]
     ELSE GoTo(c, "failed") /\ UNCHANGED <<retried, round>>
  /\ UNCHANGED <<files, daemonVars, child, late, applied, adminVars>>

\* CALL_TIMEOUT, or the command is killed: the daemon keeps the request it has
\* begun; "lost" is a finished command whose request may still be carried out.
Abandon(c) ==
  /\ conn' = [conn EXCEPT ![c] = None]
  /\ IF pc[c] = "call" /\ task[c] # None
     THEN GoTo(c, "lost") /\ UNCHANGED task
     ELSE GoTo(c, "failed") /\ task' = [task EXCEPT ![c] = None]

HotCallTimeout(c) ==
  /\ pc[c] \in {"call", "applied"} /\ conn[c] \in Daemons /\ Expires("call")
  /\ Abandon(c)
  /\ UNCHANGED <<files, daemonVars, round, retried, child, late, applied, adminVars>>

\* The lockfiles of a killed command stay.
HotKilled(c) ==
  /\ c \in Killable /\ ~Ended(c)
  /\ Abandon(c)
  /\ child' = [child EXCEPT ![c] = None]
  /\ UNCHANGED <<files, daemonVars, round, retried, late, applied, adminVars>>

\* The spawn lock of a killed command gets older than STALE_LOCK_AGE.  A command
\* that lives holds it for START_TIMEOUT at the most, which is no longer.
SpawnLockAges ==
  /\ spawnLock \in Hot /\ Ended(spawnLock)
  /\ spawnLock' = Gone
  /\ UNCHANGED <<sock, adminLock, kv, astray, daemonVars, wires, hotVars, adminVars>>

-----------------------------------------------------------------------------
(* An admin command: exclusive(), exclusive_without_store(), stop_daemon() *)

\* acquire_admin_lock: the O_EXCL create wins, or the lockfile exists ...
AdminTakeLock(a) ==
  /\ apc[a] = "acquire"
  /\ IF adminLock = None
     THEN adminLock' = a /\ AdminGoTo(a, "stop")
     ELSE AdminGoTo(a, "exists") /\ UNCHANGED adminLock
  /\ UNCHANGED <<sock, spawnLock, kv, astray, daemonVars, wires, hotVars, stops>>

\* ... and admin_lock_is_live looks for its owner: try again later, or remove
\* the lockfile of an owner that is dead, or of one that has dropped it since.
AdminJudgeLock(a) ==
  /\ apc[a] = "exists"
  /\ AdminGoTo(a, IF AdminLive THEN "acquire" ELSE "break")
  /\ UNCHANGED <<files, daemonVars, wires, hotVars, stops>>

\* Whichever lockfile is there by now is removed, and the create tried again
\* unless the deadline has passed.
AdminBreakLock(a) ==
  /\ apc[a] = "break"
  /\ adminLock' = None
  /\ \/ AdminGoTo(a, "acquire")
     \/ Expires("admin") /\ AdminGoTo(a, "failed")
  /\ UNCHANGED <<sock, spawnLock, kv, astray, daemonVars, wires, hotVars, stops>>

AdminLockTimeout(a) ==
  /\ apc[a] = "exists" /\ AdminLive /\ Expires("admin")
  /\ AdminGoTo(a, "failed")
  /\ UNCHANGED <<files, daemonVars, wires, hotVars, stops>>

\* What follows a stop_daemon that found nothing to stop.
AfterStop(a) ==
  [exclusive |-> "open", rebuild |-> "build", stop |-> "done"][Role[a]]

\* Where an error leads: the admin lock guard, when there is one, is dropped.
OnError(a) == IF Role[a] = "stop" THEN "failed" ELSE "dropErr"

\* stop_daemon: nobody listens, or there is a connection to ask through.
AdminStop(a) ==
  /\ apc[a] = "stop"
  /\ IF stops[a] = MaxStopRounds
     THEN AdminGoTo(a, OnError(a)) /\ UNCHANGED conn
     ELSE IF Listening
     THEN AdminGoTo(a, "askStop") /\ conn' = [conn EXCEPT ![a] = sock]
     ELSE AdminGoTo(a, "stopUnlink") /\ UNCHANGED conn
  /\ UNCHANGED <<files, daemonVars, task, hotVars, stops>>

\* Nothing was listening when it looked: clear the path.
AdminStopUnlink(a) ==
  /\ apc[a] = "stopUnlink"
  /\ sock' = None
  /\ AdminGoTo(a, AfterStop(a))
  /\ UNCHANGED <<spawnLock, adminLock, kv, astray, daemonVars, wires, hotVars, stops>>

\* The Shutdown request is answered and latches the daemon's signal, or the
\* connection breaks first.
AdminAskStop(a) ==
  /\ apc[a] = "askStop"
  /\ \/ conn[a] = Gone /\ UNCHANGED stopping
     \/ /\ conn[a] \in Daemons /\ task[a] = conn[a]
        /\ stopping' = [stopping EXCEPT ![conn[a]] = TRUE]
  /\ HangUp(a)
  /\ AdminGoTo(a, "waitGone")
  /\ UNCHANGED <<files, dpc, hotVars, stops>>

AdminAskTimeout(a) ==
  /\ apc[a] = "askStop" /\ conn[a] \in Daemons /\ Expires("call")
  /\ HangUp(a)
  /\ AdminGoTo(a, OnError(a))
  /\ UNCHANGED <<files, daemonVars, hotVars, stops>>

AdminSeesGone(a) ==
  /\ apc[a] = "waitGone" /\ ~Listening
  /\ AdminGoTo(a, "goneUnlink")
  /\ UNCHANGED <<files, daemonVars, wires, hotVars, stops>>

\* A daemon was stopped; stop_daemon_for_admin looks again for one that raced
\* in behind it.
AdminGoneUnlink(a) ==
  /\ apc[a] = "goneUnlink"
  /\ sock' = None
  /\ AdminGoTo(a, IF Role[a] = "stop" THEN "done" ELSE "stop")
  /\ stops' = [stops EXCEPT ![a] = @ + 1]
  /\ UNCHANGED <<spawnLock, adminLock, kv, astray, daemonVars, wires, hotVars>>

AdminGoneTimeout(a) ==
  /\ apc[a] = "waitGone" /\ Listening /\ Expires("gone")
  /\ AdminGoTo(a, OnError(a))
  /\ UNCHANGED <<files, daemonVars, wires, hotVars, stops>>

\* GraphMemory::open_embedded takes the SurrealKV lock, or its retries run out.
AdminOpen(a) ==
  /\ apc[a] = "open"
  /\ \/ kv = None /\ kv' = a /\ AdminGoTo(a, "operate")
     \/ kv # None /\ AdminGoTo(a, "dropErr") /\ UNCHANGED kv
  /\ UNCHANGED <<sock, spawnLock, adminLock, astray, daemonVars, wires, hotVars, stops>>

\* The operation ends and its GraphMemory is dropped with it.
AdminOperate(a) ==
  /\ apc[a] = "operate"
  /\ kv' = IF kv = a THEN None ELSE kv
  /\ astray' = astray \ {a}
  /\ \E end \in {"dropOk", "dropErr"} : AdminGoTo(a, end)
  /\ UNCHANGED <<sock, spawnLock, adminLock, daemonVars, wires, hotVars, stops>>

\* Mutant of AdminBuild: nobody counts as somebody who lost the store.
BuildLosesNobody(a) ==
  /\ apc[a] = "build"
  /\ AdminGoTo(a, "dropOk")
  /\ astray' = astray \cup {kv}
  /\ kv' = None
  /\ UNCHANGED <<sock, spawnLock, adminLock, daemonVars, wires, hotVars, stops>>

\* A rebuild fails or runs out of budget, or renames the new store over
\* graph/: whoever has the old directory open keeps it, and the new one is
\* locked by nobody.
AdminBuild(a) ==
  /\ apc[a] = "build"
  /\ \/ AdminGoTo(a, "dropErr") /\ UNCHANGED <<kv, astray>>
     \/ /\ AdminGoTo(a, "dropOk")
        /\ astray' = astray \cup ({kv} \ {None})
        /\ kv' = None
  /\ UNCHANGED <<sock, spawnLock, adminLock, daemonVars, wires, hotVars, stops>>

\* Dropping the AdminLock removes the lockfile, whoever's it is by now.
AdminDropLock(a) ==
  /\ apc[a] \in {"dropOk", "dropErr"}
  /\ adminLock' = None
  /\ AdminGoTo(a, IF apc[a] = "dropOk" THEN "done" ELSE "failed")
  /\ UNCHANGED <<sock, spawnLock, kv, astray, daemonVars, wires, hotVars, stops>>

AdminKilled(a) ==
  /\ a \in Killable /\ apc[a] \notin {"done", "failed"}
  /\ AdminGoTo(a, "failed")
  /\ HangUp(a)
  /\ adminLock' = IF adminLock = a THEN Gone ELSE adminLock
  /\ kv' = IF kv = a THEN None ELSE kv
  /\ astray' = astray \ {a}
  /\ UNCHANGED <<sock, spawnLock, daemonVars, hotVars, stops>>

-----------------------------------------------------------------------------
DaemonStep(d) ==
  \/ DaemonWaitAdmin(d) \/ DaemonAdminTimeout(d)
  \/ DaemonOpen(d) \/ DaemonLockedByAdmin(d) \/ DaemonLocked(d)
  \/ DaemonBind(d) \/ DaemonBindRefused(d) \/ DaemonPublish(d)
  \/ \E x \in Clients : DaemonAccept(d, x)
  \/ DaemonStopAccepting(d) \/ DaemonRelease(d) \/ DaemonGiveUp(d)
  \/ DaemonUnlink(d) \/ DaemonExit(d)
  \/ \E c \in Hot : DaemonApply(d, c) \/ DaemonApplyLate(d, c)

HotStep(c) ==
  \/ HotConnect(c) \/ HotGiveUpConnecting(c) \/ HotUnlink(c)
  \/ HotHello(c) \/ HotHelloDisconnected(c) \/ HotHelloTimeout(c)
  \/ HotAskOld(c) \/ HotSeesGone(c) \/ HotGoneUnlink(c) \/ HotGoneTimeout(c)
  \/ HotWaitAdmin(c) \/ HotAdminOverrun(c) \/ HotAdminTimeout(c)
  \/ HotTakeSpawnLock(c) \/ HotJudgeSpawnLock(c)
  \/ HotBreakSpawnLock(c) \/ HotRetakeSpawnLock(c)
  \/ HotSpawn(c) \/ HotSpawnFails(c)
  \/ HotSeesSocket(c) \/ HotSeesNoSocket(c) \/ HotCheckChild(c) \/ HotStartTimeout(c)
  \/ HotReply(c) \/ HotDisconnected(c) \/ HotCallTimeout(c)

AdminStep(a) ==
  \/ AdminTakeLock(a) \/ AdminJudgeLock(a) \/ AdminBreakLock(a) \/ AdminLockTimeout(a)
  \/ AdminStop(a) \/ AdminStopUnlink(a) \/ AdminAskStop(a) \/ AdminAskTimeout(a)
  \/ AdminSeesGone(a) \/ AdminGoneUnlink(a) \/ AdminGoneTimeout(a)
  \/ AdminOpen(a) \/ AdminOperate(a) \/ AdminBuild(a) \/ AdminDropLock(a)

Next ==
  \/ \E d \in Daemons : DaemonStep(d) \/ DaemonKilled(d)
  \/ \E c \in Hot : HotStep(c) \/ HotKilled(c)
  \/ \E a \in Admins : AdminStep(a) \/ AdminKilled(a)
  \/ SpawnLockAges

Spec == Init /\ [][Next]_vars

\* The operating system schedules every process that can run.  Nothing is
\* assumed of when processes are killed.
Fairness ==
  /\ \A d \in Daemons : WF_vars(DaemonStep(d))
  /\ \A c \in Hot : WF_vars(HotStep(c))
  /\ \A a \in Admins : WF_vars(AdminStep(a))

FairSpec == Spec /\ Fairness

-----------------------------------------------------------------------------
(* Properties                                                              *)

\* Everybody who works with the open store holds its lock: a daemon from
\* open_store on, every connection task it runs (also after the listener is
\* gone, while release_store waits), and an admin operation.  The exception is
\* a process whose store directory a rebuild renamed away.  Hence no request
\* is ever served by a daemon that has let go of the store ("Own the store
\* before advertising the socket", run() in serve.rs).
HoldsStore(p) == kv = p \/ p \in astray

StoreHeldWhileUsed ==
  /\ \A d \in Daemons :
       dpc[d] \in {"bind", "publish", "serving", "draining"} => HoldsStore(d)
  /\ \A x \in Clients : task[x] \in Daemons => HoldsStore(task[x])
  /\ \A a \in Admins : apc[a] = "operate" => HoldsStore(a)

\* A request that is not safe to apply twice takes effect at most once, through
\* crashes, disconnects, timeouts and the one retry of execute(); one that is
\* safe takes effect at most twice (is_retryable in serve.rs).
NeverRepeated ==
  \A c \in Hot : applied[c] <= IF c \in Retryable THEN 2 ELSE 1

\* Why: only a retry may find its request applied already, only an answered
\* request is reported as done, and a command that gave up is no longer retried.
EffectsCounted ==
  \A c \in Hot :
    /\ retried[c] => c \in Retryable
    /\ applied[c] <= IF retried[c] THEN 2 ELSE 1
    /\ pc[c] \notin {"applied", "done", "failed"} =>
         applied[c] <= IF retried[c] THEN 1 ELSE 0
    /\ pc[c] \in {"applied", "done"} => applied[c] > 0

\* A published socket path never leads to a daemon that has stopped accepting,
\* or to one that does not own the store.
PublishedIsServing ==
  Listening => dpc[sock] = "serving" /\ HoldsStore(sock)

HasAdminLock(a) == apc[a] \in {"stop", "stopUnlink", "askStop", "waitGone", "goneUnlink",
                               "open", "operate", "build", "dropOk", "dropErr"}
                   /\ Role[a] # "stop"

\* At most one admin command is between taking the admin lock and dropping it,
\* and the lockfile is its own ("Exclusive ownership of a store by an admin
\* operation", AdminLock in serve_client.rs).
OneAdminAtATime ==
  \A a \in Admins : HasAdminLock(a) => adminLock = a

HasSpawnLock(c) == pc[c] = "spawn" \/ (pc[c] \in {"wait", "check"} /\ child[c] # None)

\* Exactly one command starts a daemon, the others wait for it (start_daemon).
OneSpawner ==
  \A c1, c2 \in Hot : HasSpawnLock(c1) /\ HasSpawnLock(c2) => c1 = c2

\* A stop that succeeded means the store is free: when the socket of the daemon
\* it stopped is gone, that daemon has closed the store (run() in serve.rs:
\* "Close the store before the socket disappears").
StopMeansStoreClosed ==
  \A a \in Admins : apc[a] = "goneUnlink" =>
    ~\E d \in Daemons : kv = d /\ dpc[d] = "draining"

\* Nobody removes the socket of a daemon that listens on it: a published socket
\* stays until its daemon closes it or dies.
LiveSocketStays ==
  [][\A d \in Daemons : sock = d => sock' \in {d, Gone}]_sock

\* A rebuild renames graph/ only when nobody has it open ("A rebuild stops the
\* daemon before the directory changes", handle_connection in serve.rs).
NobodyAstray == astray = {}

\* A command that waited out an admin operation gives the daemon it then starts
\* the time to come up: it fails only when that daemon exits (with no time
\* limit that expires on the daemon itself).
WaitedCommandTriesDaemon ==
  [][\A c \in Hot : pc[c] \in {"wait", "check"} /\ pc'[c] = "failed" => child[c] = Gone]_pc

\* A daemon that was told to stop gets there and lets go of the store ("the
\* daemon can never outlive its own shutdown request", handle_connection).
ShutdownCompletes ==
  \A d \in Daemons : stopping[d] ~> (dpc[d] = "off" /\ kv # d)

\* Every command comes to an end: nobody waits for a socket, a lock or an
\* answer that never comes.
CommandsFinish ==
  /\ \A c \in Hot : <>Ended(c)
  /\ \A a \in Admins : <>(apc[a] \in {"done", "failed"})

\* A command that begins when all others have ended, and no daemon takes longer
\* than STALE_LOCK_AGE to come up.
Undisturbed(c) ==
  /\ pc[c] # "connect" \/ round[c] > 0 => \A o \in Hot \ {c} : Ended(o)
  /\ spawnLock = Gone => \A d \in Daemons : dpc[d] \in {"off", "serving"}

\* It waits for the daemon of a command that was killed before it had started
\* one, not longer than STALE_LOCK_AGE ago.
Stranded(c) ==
  /\ pc[c] = "wait" /\ spawnLock \in Hot /\ Ended(spawnLock)
  /\ \A d \in Daemons : dpc[d] = "off"

\* Crash-only ("kill it at any moment and the next command cleans up the dead
\* socket and starts a new one", internals.md): wherever the command before was
\* killed, and whatever files others had left before that, the next one is
\* answered.  The exception is a spawn lock that is not old yet.
NextCommandAnswered ==
  \A c \in Hot \ Killable :
    []Undisturbed(c) => <>(pc[c] = "done" \/ Stranded(c))

\* The daemon protocol implements the ownership it promises.
Outcome(c) ==
  IF pc[c] = "done" THEN "ok"
  ELSE IF pc[c] \in {"failed", "lost"} THEN "error" ELSE "pending"

Ownership == INSTANCE StoreOwnership WITH
  Servers <- Daemons, Requests <- Hot, Repeatable <- Retryable,
  owner <- kv, outcome <- [c \in Hot |-> Outcome(c)]

ImplementsOwnership == Ownership!Spec
=============================================================================
