---------------------------- MODULE RebuildSwapProofs ----------------------------
(***************************************************************************)
(* Theorems about RebuildSwap for every set of archives and rebuilds: what *)
(* a swap, its failures and the user's advice may do to the stores.        *)
(***************************************************************************)
EXTENDS RebuildSwap, SequenceTheorems, WellFoundedInduction, TLAPS

---------------------------------------------------------------------------
(* Types, and who is at work on the build. *)

Working == {"opened", "picking", "storing", "extracting", "marking",
            "swapping", "halfway", "undoing", "recording"}

Disk ==
  /\ archives \subseteq Logs
  /\ graph \in Store \cup {None} /\ build \in Store \cup {None}
  /\ backups \subseteq Store
  /\ served \subseteq Nat /\ clock \in Nat

Control ==
  /\ pc \in [Rebuilders -> Places] /\ plan \in [Rebuilders -> SUBSET Logs]
  /\ todo \subseteq Logs /\ log \in Logs \cup {None} /\ at \in Nat
  /\ tripped \in BOOLEAN
  /\ \A r \in Rebuilders : pc[r] \in Working <=> builder = r
  /\ \A r \in Rebuilders : pc[r] \in {"storing", "extracting", "marking"} => log \in Logs

---------------------------------------------------------------------------
(* The inductive invariant. *)

\* Every chunk of a log is there, or the first few are, in order, unless one
\* of them once failed; a finished log was read.
Prefix(st, l) ==
  Len(st.eps[l]) <= Chunks[l] /\ \A j \in 1..Len(st.eps[l]) : st.eps[l][j] = j
Whole(st) ==
  \A l \in Logs :
    /\ l \in st.failed \/ HasChunks(st, l) \/ Prefix(st, l)
    /\ l \in st.marked => l \in st.read /\ (l \in st.failed \/ HasChunks(st, l))

\* The directories hold different stores, each older than the next one.
Births ==
  /\ \A st \in Present : st.born < clock
  /\ \A i \in served : i < clock
  /\ graph # None /\ build # None => graph.born # build.born
  /\ \A b \in backups :
       /\ graph # None => b.born # graph.born
       /\ build # None => b.born # build.born
       /\ \A c \in backups : b.born = c.born => b = c

Stores == Births /\ StoresKept /\ \A st \in Present : Whole(st)

\* What the user was told is still safe to do: no build that served is
\* unstamped or to be removed, and what a swap left behind is a stamped store.
Advice ==
  /\ build # None /\ build.born \in served => build.stamp /\ told # "remove"
  /\ told = "swapped" /\ build = None => graph # None /\ graph.stamp
  /\ told = "half" /\ graph = None => build # None /\ build.stamp

\* graph/ suits a config that asks for v2, or is about to.
AsksV2 == told = "config" \/ config = "v2"
Fit(st) == st = None \/ st.stamp \/ st.kind = "started"
Fits == AsksV2 => Fit(graph)

\* What each stage of a rebuild finds in the memory directory; no daemon has
\* the build open.
Building == {"picking", "storing", "extracting", "marking", "swapping", "halfway", "undoing"}
Staged(r) ==
  /\ pc[r] = "opened" => build # None
  /\ pc[r] \in Building => build # None /\ build.stamp
  /\ pc[r] \in {"halfway", "undoing"} => moved \in backups /\ (AsksV2 => Fit(moved))
  /\ pc[r] = "recording" => graph # None /\ graph.stamp
  /\ pc[r] \in {"opened"} \cup Building => build.born # uses
InHand(r) ==
  /\ pc[r] = "storing" /\ log \notin build.failed =>
       ~tripped /\ (HasChunks(build, log)
                      \/ (Prefix(build, log) /\ at = Len(build.eps[log]) + 1))
  /\ pc[r] \in {"extracting", "marking"} => log \in build.failed \/ HasChunks(build, log)
  /\ pc[r] = "marking" => log \in build.read
Hand(r) == Staged(r) /\ InHand(r)

\* A daemon that serves has a store open.
Use == daemon = "serving" <=> uses # None

Inv == Disk /\ Control /\ Stores /\ Advice /\ Fits /\ \A r \in Rebuilders : Hand(r)

---------------------------------------------------------------------------
(* The stores that steps make. *)

LEMMA NewStoreType ==
  ASSUME clock \in Nat, NEW kind \in {"original", "build", "started"}
  PROVE  /\ NewStore(kind) \in Store /\ NewStore(kind) # None
         /\ NewStore(kind).born = clock /\ NewStore(kind).kind = kind
         /\ ~NewStore(kind).stamp /\ NewStore(kind).marked = {}
         /\ NewStore(kind).failed = {} /\ NewStore(kind).eps = [l \in Logs |-> <<>>]
<1>1. [l \in Logs |-> <<>>] \in [Logs -> Seq(Nat)]
  BY EmptySeq
<1>2. NewStore(kind) \in Store
  BY <1>1 DEF NewStore, Store
<1>. QED
  BY <1>2, NoneIsNothing DEF NewStore

LEMMA DaemonLogType ==
  ASSUME clock \in Nat, NEW st \in Store
  PROVE  LET new == WithDaemonLog(st)
         IN /\ new \in Store /\ new # None /\ new.born = st.born /\ new.kind = st.kind
            /\ new.stamp = st.stamp /\ new.eps = st.eps /\ new.marked = st.marked
            /\ new.read = st.read /\ new.failed = st.failed
BY NoneIsNothing DEF WithDaemonLog, Store

LEMMA AllChunksType ==
  ASSUME NEW l \in Logs
  PROVE  /\ AllChunks(l) \in Seq(Nat) /\ Len(AllChunks(l)) = Chunks[l]
         /\ \A i \in 1..Chunks[l] : AllChunks(l)[i] = i
<1>1. Chunks[l] \in Nat /\ AllChunks(l) \in [1..Chunks[l] -> Nat]
  BY ConstantsOK DEF AllChunks
<1>2. AllChunks(l) \in Seq(Nat)
  BY <1>1, SeqDef
<1>3. Len(AllChunks(l)) = Chunks[l]
  BY <1>1, <1>2, LenProperties
<1>. QED
  BY <1>2, <1>3 DEF AllChunks

\* The build while an archive is worked on: the same store, further along.
Grows ==
  /\ build \in Store /\ build' \in Store /\ build' # None
  /\ build'.born = build.born /\ build'.kind = build.kind
  /\ build.stamp => build'.stamp

LEMMA StampGrows ==
  ASSUME Inv, NEW r \in Rebuilders, StampBuild(r)
  PROVE  /\ Grows /\ build'.stamp /\ build'.eps = build.eps /\ build'.marked = build.marked
         /\ build'.read = build.read /\ build'.failed = build.failed
<1>1. build \in Store
  BY DEF StampBuild, Inv, Disk, Control, Hand, Staged, Building
<1>2. build' = [build EXCEPT !.stamp = TRUE]
  BY DEF StampBuild
<1>3. build' = [born |-> build.born, kind |-> build.kind, stamp |-> TRUE, eps |->
              build.eps, marked |-> build.marked, read |-> build.read, log |-> build.log,
              touched |-> build.touched, failed |-> build.failed]
  BY <1>1, <1>2 DEF Store
<1>4. build' \in Store
  BY <1>1, <1>3 DEF Store
<1>5. /\ build'.born = build.born /\ build'.kind = build.kind /\ build'.stamp = TRUE /\
        build'.eps = build.eps /\ build'.marked = build.marked /\ build'.read = build.read
        /\ build'.failed = build.failed
  BY <1>3
<1>. QED
  BY <1>1, <1>4, <1>5, NoneIsNothing DEF Grows

LEMMA ChunkGrows ==
  ASSUME Inv, NEW r \in Rebuilders, StoreChunk(r)
  PROVE  /\ Grows /\ build'.read = build.read
         /\ build'.marked \subseteq build.marked /\ build.failed \subseteq build'.failed
         /\ \/ /\ log \notin build'.marked /\ build'.failed = build.failed
               /\ build'.eps = [build.eps EXCEPT ![log] = Append(@, at)] /\ UNCHANGED tripped
            \/ log \in build'.failed /\ build'.eps = build.eps /\ tripped'
<1>1. build \in Store /\ log \in Logs /\ at \in Nat
  BY DEF StoreChunk, Inv, Disk, Control, Hand, Staged, Building
<1>2. CASE build' = [build EXCEPT !.eps[log] = Append(@, at), !.marked = @ \ {log}]
           /\ UNCHANGED tripped
  <2> DEFINE eps == [build.eps EXCEPT ![log] = Append(@, at)]
  <2>1. eps \in [Logs -> Seq(Nat)]
    <3>1. build.eps \in [Logs -> Seq(Nat)] /\ Append(build.eps[log], at) \in Seq(Nat)
      BY <1>1 DEF Store
    <3>. QED
      BY <3>1
  <2>2. build' = [born |-> build.born, kind |-> build.kind, stamp |-> build.stamp, eps |-> eps,
                  marked |-> build.marked \ {log}, read |-> build.read, log |-> build.log,
                  touched |-> build.touched, failed |-> build.failed]
    BY <1>1, <1>2 DEF Store
  <2> HIDE DEF eps
  <2>3. build' \in Store
    BY <1>1, <2>1, <2>2 DEF Store
  <2>4. /\ build'.born = build.born /\ build'.kind = build.kind /\ build'.stamp = build.stamp
        /\ build'.eps = eps /\ build'.marked = build.marked \ {log}
        /\ build'.read = build.read /\ build'.failed = build.failed
    BY <2>2
  <2>. QED
    BY <1>1, <1>2, <2>3, <2>4, NoneIsNothing DEF Grows, eps
<1>3. CASE build' = [build EXCEPT !.failed = @ \cup {log}] /\ tripped' = TRUE
  <2>3. build' = [born |-> build.born, kind |-> build.kind, stamp |-> build.stamp, eps |->
                build.eps, marked |-> build.marked, read |-> build.read, log |->
                build.log, touched |-> build.touched, failed |-> build.failed \cup {log}]
    BY <1>1, <1>3 DEF Store
  <2>4. build' \in Store
    BY <1>1, <2>3 DEF Store
  <2>5. /\ build'.born = build.born /\ build'.kind = build.kind /\ build'.stamp =
          build.stamp /\ build'.eps = build.eps /\ build'.marked = build.marked /\
          build'.read = build.read /\ build'.failed = build.failed \cup {log}
    BY <2>3
  <2>. QED
    BY <1>1, <1>3, <2>4, <2>5, NoneIsNothing DEF Grows
<1>. QED
  BY <1>2, <1>3 DEF StoreChunk

LEMMA ExtractGrows ==
  ASSUME Inv, NEW r \in Rebuilders, Extract(r)
  PROVE  /\ Grows /\ build'.eps = build.eps /\ build'.marked = build.marked
         /\ build'.failed = build.failed /\ build'.read = build.read \cup {log}
<1>1. build \in Store /\ log \in Logs
  BY DEF Extract, Inv, Disk, Control, Hand, Staged, Building
<1>2. build' = [build EXCEPT !.read = @ \cup {log}]
  BY DEF Extract
<1>3. build' = [born |-> build.born, kind |-> build.kind, stamp |-> build.stamp, eps |->
              build.eps, marked |-> build.marked, read |-> build.read \cup {log}, log |->
              build.log, touched |-> build.touched, failed |-> build.failed]
  BY <1>1, <1>2 DEF Store
<1>4. build' \in Store
  BY <1>1, <1>3 DEF Store
<1>5. /\ build'.born = build.born /\ build'.kind = build.kind /\ build'.stamp = build.stamp
        /\ build'.eps = build.eps /\ build'.marked = build.marked /\ build'.read =
        build.read \cup {log} /\ build'.failed = build.failed
  BY <1>3
<1>. QED
  BY <1>1, <1>4, <1>5, NoneIsNothing DEF Grows

LEMMA MarkGrows ==
  ASSUME Inv, NEW r \in Rebuilders, Mark(r)
  PROVE  /\ Grows /\ build'.eps = build.eps /\ build'.read = build.read
         /\ build'.failed = build.failed /\ build'.marked = build.marked \cup {log}
<1>1. build \in Store /\ log \in Logs
  BY DEF Mark, Inv, Disk, Control, Hand, Staged, Building
<1>2. build' = [build EXCEPT !.marked = @ \cup {log}]
  BY DEF Mark
<1>3. build' = [born |-> build.born, kind |-> build.kind, stamp |-> build.stamp, eps |->
              build.eps, marked |-> build.marked \cup {log}, read |-> build.read, log |->
              build.log, touched |-> build.touched, failed |-> build.failed]
  BY <1>1, <1>2 DEF Store
<1>4. build' \in Store
  BY <1>1, <1>3 DEF Store
<1>5. /\ build'.born = build.born /\ build'.kind = build.kind /\ build'.stamp = build.stamp
        /\ build'.eps = build.eps /\ build'.marked = build.marked \cup {log} /\
        build'.read = build.read /\ build'.failed = build.failed
  BY <1>3
<1>. QED
  BY <1>1, <1>4, <1>5, NoneIsNothing DEF Grows

---------------------------------------------------------------------------
(* Steps that move one rebuild along. *)

\* Nobody else works on the build while one does.
LEMMA Alone ==
  ASSUME Control
  PROVE  /\ \A r, q \in Rebuilders : pc[r] \in Working /\ q # r => pc[q] \notin Working
         /\ builder = None => \A q \in Rebuilders : pc[q] \notin Working
BY ConstantsOK DEF Control

LEMMA AtRest ==
  \A r \in Rebuilders : pc[r] \notin Working => Hand(r)
BY DEF Hand, Staged, InHand, Working, Building

LEMMA AtRestNext ==
  \A r \in Rebuilders : pc'[r] \notin Working => Hand(r)'
BY DEF Hand, Staged, InHand, Working, Building

LEMMA LeaveControl ==
  ASSUME Control, NEW r \in Rebuilders, NEW file, Leave(r, file)
  PROVE  Control' /\ \A q \in Rebuilders : pc'[q] \in Working => q # r /\ pc'[q] = pc[q]
<1>1. pc' = [pc EXCEPT ![r] = "idle"] /\ plan' = [plan EXCEPT ![r] = {}]
  BY DEF Leave, To
<1>2. CASE builder = r
  <2>1. /\ builder' = None /\ todo' = {} /\ log' = None /\ at' = 0 /\ tripped' = FALSE
    BY <1>2 DEF Leave
  <2>2. \A q \in Rebuilders : pc'[q] \notin Working
    BY <1>1, <1>2 DEF Control, Working
  <2>. QED
    BY <1>1, <2>1, <2>2, ConstantsOK DEF Control, Places, Working
<1>3. CASE builder # r
  <2>1. UNCHANGED <<builder, todo, log, at, tripped>>
    BY <1>3 DEF Leave, work
  <2>2. pc[r] \notin Working
    BY <1>3 DEF Control
  <2>. QED
    BY <1>1, <1>3, <2>1, <2>2 DEF Control, Places, Working
<1>. QED
  BY <1>2, <1>3

LEMMA MoveControl ==
  ASSUME Control, NEW r \in Rebuilders, pc[r] \in Working, NEW p \in Working,
         To(r, p), plan' \in [Rebuilders -> SUBSET Logs], UNCHANGED builder,
         todo' \subseteq Logs, log' \in Logs \cup {None}, at' \in Nat, tripped' \in BOOLEAN,
         p \in {"storing", "extracting", "marking"} => log' \in Logs
  PROVE  Control' /\ pc'[r] = p /\ \A q \in Rebuilders : q # r => pc'[q] \notin Working
<1>1. pc' = [pc EXCEPT ![r] = p] /\ builder = r
  BY DEF To, Control
<1>2. \A q \in Rebuilders : q # r => pc[q] \notin Working
  BY Alone
<1>3. pc'[r] = p /\ \A q \in Rebuilders : q # r => pc'[q] = pc[q] /\ pc'[q] \notin Working
  BY <1>1, <1>2 DEF Control
<1>4. pc' \in [Rebuilders -> Places]
  BY <1>1 DEF Control, Places, Working, Opened
<1>5. \A q \in Rebuilders : pc'[q] \in Working <=> builder' = q
  BY <1>1, <1>3
<1>6. \A q \in Rebuilders : pc'[q] \in {"storing", "extracting", "marking"} => log' \in Logs
  BY <1>3 DEF Working
<1>. QED
  BY <1>3, <1>4, <1>5, <1>6 DEF Control

\* When the directories stay, so does what holds of them.
Still == UNCHANGED <<archives, graph, build, backups, config, served, clock, uses>>

LEMMA StillStores ==
  ASSUME Inv, Still
  PROVE  Disk' /\ Stores'
BY DEF Still, Inv, Disk, Stores, Births, StoresKept, Present, Whole, HasChunks, Prefix

LEMMA StillRest ==
  ASSUME Inv, Still, told' = told
  PROVE  Disk' /\ Stores' /\ Advice' /\ Fits'
<1>1. Advice' /\ Fits'
  BY DEF Still, Inv, Advice, Fits, AsksV2, Fit
<1>. QED
  BY <1>1, StillStores

LEMMA LeaveKeeps ==
  ASSUME Inv, NEW r \in Rebuilders, NEW file, Leave(r, file), Still, told' = told
  PROVE  Inv'
<1>2. Control' /\ \A q \in Rebuilders : pc'[q] \in Working => q # r /\ pc'[q] = pc[q]
  BY LeaveControl DEF Inv
<1>3. ASSUME NEW q \in Rebuilders PROVE Hand(q)'
  <2>1. CASE pc'[q] \notin Working
    BY <2>1, AtRestNext
  <2>2. CASE pc'[q] \in Working
    <3>1. pc[q] \in Working /\ q # r /\ pc'[q] = pc[q]
      BY <1>2, <2>2
    <3>2. builder # r
      BY <3>1 DEF Inv, Control
    <3>3. UNCHANGED <<moved, log, at, tripped, build, backups, graph, told, config, uses>>
      BY <3>2 DEF Leave, Still, work
    <3>. QED
      BY <3>1, <3>3
      DEF Inv, Hand, Staged, InHand, AsksV2, Fit, HasChunks, Prefix
  <2>. QED
    BY <2>1, <2>2
<1>. QED
  BY <1>2, <1>3, StillRest DEF Inv

LEMMA StopKeeps ==
  ASSUME Inv, NEW r \in Rebuilders, Stop(r)
  PROVE  Inv'
<1>1. Still /\ told' = told
  BY DEF Stop, Still, disk, observed, message, hooks
<1>. QED
  BY <1>1, LeaveKeeps DEF Stop, End

LEMMA CrashKeeps ==
  ASSUME Inv, NEW r \in Rebuilders, Crash(r)
  PROVE  Inv'
<1>1. Still /\ told' = told
  BY DEF Crash, Still, disk, observed, message, hooks
<1>. QED
  BY <1>1, LeaveKeeps DEF Crash

LEMMA AttemptKeeps ==
  ASSUME Inv, NEW r \in Rebuilders, pc[r] \in {"storing", "extracting"}, AttemptFails(r)
  PROVE  Inv'
<1>1. CASE again
  BY <1>1, StopKeeps DEF AttemptFails
<1>2. CASE ~again
  <2>1. /\ build \in Store /\ build # None /\ build.stamp /\ log \in Logs
        /\ build.born # uses
    BY DEF Inv, Disk, Control, Hand, Staged, Building
  <2>2. build.eps[log] \in Seq(Nat) /\ FirstMissing(log) \in Nat
    BY <2>1 DEF FirstMissing, Store
  <2>3. /\ at' = Len(build.eps[log]) + 1 /\ tripped' = FALSE /\ To(r, "storing")
        /\ Still /\ UNCHANGED <<plan, builder, todo, log, moved, told>>
    BY <1>2
    DEF AttemptFails, StartArchive, FirstMissing, Still, disk, observed, message, lock, hooks
  <2>4. Control' /\ pc'[r] = "storing" /\ \A q \in Rebuilders : q # r => pc'[q] \notin Working
    BY <2>1, <2>2, <2>3, MoveControl DEF Inv, Control, Working, FirstMissing
  <2>5. log \in build.failed \/ HasChunks(build, log) \/ Prefix(build, log)
    BY <2>1 DEF Inv, Stores, Present, Whole
  <2>6. Hand(r)'
    BY <2>1, <2>3, <2>4, <2>5
    DEF Hand, Staged, InHand, Building, Still, HasChunks, Prefix
  <2>. QED
    BY <2>3, <2>4, <2>6, AtRestNext, StillRest DEF Inv
<1>. QED
  BY <1>1, <1>2

LEMMA MoveKeeps ==
  ASSUME Inv, NEW r \in Rebuilders, pc[r] \in Working, NEW p \in Working, To(r, p),
         Still, UNCHANGED <<plan, builder, told>>,
         todo' \subseteq Logs, log' \in Logs \cup {None}, at' \in Nat, tripped' \in BOOLEAN,
         p \in {"storing", "extracting", "marking"} => log' \in Logs,
         pc'[r] = p => Hand(r)'
  PROVE  Inv'
<1>1. Control' /\ pc'[r] = p /\ \A q \in Rebuilders : q # r => pc'[q] \notin Working
  BY MoveControl DEF Inv, Control
<1>. QED
  BY <1>1, AtRestNext, StillRest DEF Inv

\* The steps that touch no directory.
Works(r) ==
  \/ Prepare(r) \/ TakeLock(r) \/ RemoveLock(r) \/ CatchUp(r) \/ PickLog(r)
  \/ StoredAll(r) \/ StoredNotAll(r) \/ CannotMoveAside(r) \/ CannotMoveIn(r) \/ CannotMoveBack(r)
  \/ Failure(r)

\* A command that is not yet at work on the build.
LEMMA OutsideKeeps ==
  ASSUME Inv, NEW r \in Rebuilders, pc[r] \notin Working, NEW p \in Places \ Working,
         To(r, p), Still, plan' \in [Rebuilders -> SUBSET Logs],
         UNCHANGED <<builder, todo, log, at, tripped, moved, told>>
  PROVE  Inv'
<1>1. pc' = [pc EXCEPT ![r] = p]
  BY DEF To
<1>3. \A q \in Rebuilders : (pc'[q] \in Working <=> pc[q] \in Working)
                              /\ (pc'[q] \in Working => pc'[q] = pc[q])
  BY <1>1 DEF Inv, Control
<1>4. Control'
  <2>1. pc' \in [Rebuilders -> Places]
    BY <1>1 DEF Inv, Control
  <2>2. \A q \in Rebuilders : pc'[q] \in {"storing", "extracting", "marking"} => log' \in Logs
    BY <1>3 DEF Inv, Control, Working
  <2>3. \A q \in Rebuilders : pc'[q] \in Working <=> builder' = q
    BY <1>3 DEF Inv, Control
  <2>. QED
    BY <2>1, <2>2, <2>3 DEF Inv, Control
<1>5. ASSUME NEW q \in Rebuilders PROVE Hand(q)'
  <2>1. CASE pc'[q] \in Working
    BY <1>3, <2>1
    DEF Still, Inv, Hand, Staged, InHand, AsksV2, Fit, HasChunks, Prefix
  <2>. QED
    BY <2>1, AtRestNext
<1>. QED
  BY <1>4, <1>5, StillRest DEF Inv

LEMMA PlanKeeps ==
  ASSUME Inv, NEW r \in Rebuilders,
         Prepare(r) \/ TakeLock(r) \/ JudgeDead(r) \/ RemoveLock(r)
  PROVE  Inv'
<1>1. /\ pc[r] \in {"idle", "planned", "judged"} /\ Still
      /\ UNCHANGED <<builder, todo, log, at, tripped, moved, told>>
  BY DEF Prepare, TakeLock, JudgeDead, RemoveLock, Still, disk, work, observed, bounds,
         message, lock, hooks
<1>2. \E p \in {"planned", "judged", "locked"} : To(r, p)
  BY DEF Prepare, TakeLock, JudgeDead, RemoveLock, To
<1>3. plan' \in [Rebuilders -> SUBSET Logs]
  <2>1. CASE Prepare(r)
    <3>1. \E S \in SUBSET Logs : plan' = [plan EXCEPT ![r] = S]
      BY <2>1 DEF Prepare, PendingLogs, Inv, Disk
    <3>. QED
      BY <3>1 DEF Inv, Control
  <2>2. CASE TakeLock(r) \/ JudgeDead(r) \/ RemoveLock(r)
    BY <2>2 DEF TakeLock, JudgeDead, RemoveLock, Inv, Control
  <2>. QED
    BY <2>1, <2>2
<1>4. /\ {"planned", "judged", "locked"} \subseteq Places \ Working
      /\ {"idle", "planned", "judged"} \cap Working = {}
  BY DEF Places, Working
<1>5. PICK p \in Places \ Working : To(r, p)
  BY <1>2, <1>4
<1>6. pc[r] \notin Working
  BY <1>1, <1>4
<1>. QED
  BY <1>1, <1>3, <1>5, <1>6, OutsideKeeps

LEMMA WorkKeeps ==
  ASSUME Inv, NEW r \in Rebuilders, Works(r)
  PROVE  Inv'
<1>0. Disk /\ Control /\ Hand(r)
  BY DEF Inv
<1>1. CASE Prepare(r) \/ TakeLock(r) \/ RemoveLock(r)
  BY <1>1, PlanKeeps
<1>3. CASE CatchUp(r)
  <2>1. PICK p \in {"swapping", "picking"} : To(r, p)
    BY <1>3 DEF CatchUp
  <2>2. /\ pc[r] = "picking" /\ todo' \subseteq Logs
        /\ Still /\ UNCHANGED <<plan, builder, log, at, tripped, moved, told>>
    BY <1>0, <1>3
    DEF CatchUp, PendingLogs, Disk, Still, disk, observed, bounds, message, lock, hooks
  <2>3. pc'[r] = p => Hand(r)'
    BY <1>0, <2>2 DEF Hand, Staged, InHand, Building, Still
  <2>. QED
    BY <1>0, <2>1, <2>2, <2>3, MoveKeeps DEF Control, Working
<1>4. CASE PickLog(r)
  <2>1. PICK l \in todo :
          IF Chunks[l] = 0
             THEN /\ todo' = todo \ {l}
                  /\ UNCHANGED <<pc, log, at, tripped, again>>
             ELSE /\ log' = l
                  /\ StartArchive(l, FALSE)
                  /\ To(r, "storing")
                  /\ UNCHANGED todo
    BY <1>4 DEF PickLog
  <2>2. pc[r] = "picking" /\ Still /\ UNCHANGED <<plan, builder, moved, told>>
    BY <1>4 DEF PickLog, Still, disk, observed, bounds, message, lock, hooks
  <2>3. CASE Chunks[l] = 0
    <3>1. /\ todo' \subseteq Logs /\ UNCHANGED <<pc, log, at, tripped>>
      BY <1>0, <2>1, <2>3 DEF Control
    <3>2. Control'
      BY <1>0, <2>2, <3>1 DEF Control
    <3>3. \A q \in Rebuilders : Hand(q)'
      BY <2>2, <3>1
      DEF Still, Inv, Hand, Staged, InHand, AsksV2, Fit, HasChunks, Prefix
    <3>. QED
      BY <2>2, <3>2, <3>3, StillRest DEF Inv
  <2>4. CASE Chunks[l] # 0
    <3>1. /\ build \in Store /\ build # None /\ build.stamp /\ l \in Logs
          /\ build.born # uses
      BY <1>0, <2>2 DEF Disk, Control, Hand, Staged, Building
    <3>2. build.eps[l] \in Seq(Nat) /\ FirstMissing(l) \in Nat
      BY <3>1 DEF FirstMissing, Store
    <3>3. /\ at' = Len(build.eps[l]) + 1 /\ at' \in Nat /\ tripped' = FALSE /\ log' = l
          /\ To(r, "storing") /\ UNCHANGED todo
      BY <2>1, <2>4, <3>2 DEF StartArchive, FirstMissing
    <3>4. l \in build.failed \/ HasChunks(build, l) \/ Prefix(build, l)
      BY <3>1 DEF Inv, Stores, Present, Whole
    <3>5. pc'[r] = "storing" => Hand(r)'
      BY <2>2, <3>1, <3>3, <3>4 DEF Hand, Staged, InHand, Building, Still, HasChunks, Prefix
    <3>. QED
      BY <1>0, <2>2, <3>1, <3>3, <3>5, MoveKeeps DEF Control, Working
  <2>. QED
    BY <2>3, <2>4
<1>5. CASE StoredAll(r)
  <2>1. /\ pc[r] = "storing" /\ at > Chunks[log] /\ ~tripped /\ To(r, "extracting")
        /\ Still /\ UNCHANGED <<plan, builder, todo, log, at, tripped, moved, told>>
    BY <1>5 DEF StoredAll, Still, disk, work, observed, bounds, message, lock, hooks
  <2>2. build \in Store /\ build # None /\ build.stamp /\ log \in Logs /\ build.born # uses
    BY <1>0, <2>1 DEF Disk, Control, Hand, Staged, Building
  <2>3. log \in build.failed \/ HasChunks(build, log)
    <3>1. CASE Prefix(build, log) /\ at = Len(build.eps[log]) + 1
      <4>1. Len(build.eps[log]) \in Nat /\ Chunks[log] \in Nat /\ build.eps[log] \in Seq(Nat)
        BY <2>2, ConstantsOK DEF Store
      <4>2. Len(build.eps[log]) = Chunks[log]
        BY <2>1, <3>1, <4>1 DEF Prefix
      <4>. QED
        BY <3>1, <4>1, <4>2 DEF Prefix, HasChunks
    <3>. QED
      BY <1>0, <2>1, <3>1 DEF Hand, InHand
  <2>4. pc'[r] = "extracting" => Hand(r)'
    BY <2>1, <2>2, <2>3 DEF Hand, Staged, InHand, Building, Still, HasChunks
  <2>. QED
    BY <1>0, <2>1, <2>2, <2>4, MoveKeeps DEF Control, Working
<1>6. CASE StoredNotAll(r)
  BY <1>6, AttemptKeeps DEF StoredNotAll
<1>7. CASE CannotMoveAside(r) \/ CannotMoveBack(r)
  BY <1>7, StopKeeps DEF CannotMoveAside, CannotMoveBack
<1>8. CASE CannotMoveIn(r)
  <2>1. /\ pc[r] = "halfway" /\ To(r, "undoing")
        /\ Still /\ UNCHANGED <<plan, builder, todo, log, at, tripped, moved, told>>
    BY <1>8 DEF CannotMoveIn, Still, disk, work, observed, message, lock, hooks
  <2>2. pc'[r] = "undoing" => Hand(r)'
    BY <1>0, <2>1 DEF Hand, Staged, InHand, Building, Still, AsksV2, Fit
  <2>. QED
    BY <1>0, <2>1, <2>2, MoveKeeps DEF Control, Working
<1>9. CASE Failure(r)
  BY <1>9, StopKeeps, AttemptKeeps, CrashKeeps, PlanKeeps
  DEF Failure, GiveUpOnLock, CannotOpen, BudgetSpent, ExtractFails, StopAt
<1>. QED
  BY <1>1, <1>3, <1>4, <1>5, <1>6, <1>7, <1>8, <1>9 DEF Works

---------------------------------------------------------------------------
(* Steps that write to the build. *)

LEMMA GrowRest ==
  ASSUME Inv, Grows, build # None, Whole(build)',
         UNCHANGED <<archives, graph, backups, config, served, clock, told>>
  PROVE  Disk' /\ Stores' /\ Advice' /\ Fits'
<1>1. Disk'
  BY DEF Inv, Disk, Grows
<1>2. Births'
  BY DEF Inv, Stores, Births, Present, Grows
<1>3. StoresKept'
  BY DEF Inv, Stores, StoresKept, Present, Grows
<1>4. ASSUME NEW st \in Present' PROVE Whole(st)'
  BY <1>4 DEF Inv, Stores, Present, Whole, HasChunks, Prefix
<1>5. Advice' /\ Fits'
  BY DEF Inv, Advice, Fits, AsksV2, Fit, Grows
<1>. QED
  BY <1>1, <1>2, <1>3, <1>4, <1>5 DEF Stores

LEMMA StampKeeps ==
  ASSUME Inv, NEW r \in Rebuilders, StampBuild(r)
  PROVE  Inv'
<1>1. /\ Grows /\ build'.stamp /\ build'.eps = build.eps /\ build'.marked = build.marked
      /\ build'.read = build.read /\ build'.failed = build.failed
  BY StampGrows
<1>2. /\ pc[r] = "opened" /\ todo' = plan[r] /\ To(r, "picking")
      /\ plan' = [plan EXCEPT ![r] = {}]
      /\ UNCHANGED <<archives, graph, backups, config, served, clock, told, uses>>
      /\ UNCHANGED <<builder, log, at, tripped, moved>>
  BY DEF StampBuild, observed, bounds, message, lock, hooks
<1>3. build # None /\ Whole(build)
  BY <1>2 DEF Inv, Hand, Staged, Stores, Present
<1>4. Whole(build)'
  BY <1>1, <1>3 DEF Whole, HasChunks, Prefix
<1>5. Control' /\ pc'[r] = "picking" /\ \A q \in Rebuilders : q # r => pc'[q] \notin Working
  BY <1>2, MoveControl DEF Inv, Control, Working
<1>6. Hand(r)'
  BY <1>1, <1>2, <1>5 DEF Inv, Hand, Staged, InHand, Building, Grows
<1>. QED
  BY <1>1, <1>2, <1>3, <1>4, <1>5, <1>6, GrowRest, AtRestNext DEF Inv

LEMMA ExtractKeeps ==
  ASSUME Inv, NEW r \in Rebuilders, Extract(r)
  PROVE  Inv'
<1>1. /\ Grows /\ build'.eps = build.eps /\ build'.marked = build.marked
      /\ build'.failed = build.failed /\ build'.read = build.read \cup {log}
  BY ExtractGrows
<1>2. /\ pc[r] = "extracting" /\ To(r, "marking")
      /\ UNCHANGED <<archives, graph, backups, config, served, clock, told, uses>>
      /\ UNCHANGED <<plan, builder, todo, log, at, tripped, moved>>
  BY DEF Extract, observed, bounds, message, work, lock, hooks
<1>3. build # None /\ Whole(build) /\ build.stamp /\ log \in Logs
  BY <1>2 DEF Inv, Hand, Staged, Building, Stores, Present, Control
<1>4. Whole(build)'
  BY <1>1, <1>3 DEF Whole, HasChunks, Prefix
<1>5. Control' /\ pc'[r] = "marking" /\ \A q \in Rebuilders : q # r => pc'[q] \notin Working
  BY <1>2, <1>3, MoveControl DEF Inv, Control, Working
<1>6. log \in build'.failed \/ HasChunks(build, log)'
  BY <1>1, <1>2 DEF Inv, Hand, InHand, HasChunks
<1>7. Hand(r)'
  BY <1>1, <1>2, <1>3, <1>5, <1>6 DEF Inv, Hand, Staged, InHand, Building, Grows
<1>. QED
  BY <1>1, <1>2, <1>3, <1>4, <1>5, <1>7, GrowRest, AtRestNext DEF Inv

LEMMA MarkKeeps ==
  ASSUME Inv, NEW r \in Rebuilders, Mark(r)
  PROVE  Inv'
<1>1. /\ Grows /\ build'.eps = build.eps /\ build'.read = build.read
      /\ build'.failed = build.failed /\ build'.marked = build.marked \cup {log}
  BY MarkGrows
<1>2. /\ pc[r] = "marking" /\ To(r, "picking") /\ todo' = todo \ {log}
      /\ log' = None /\ at' = 0 /\ tripped' = FALSE
      /\ UNCHANGED <<archives, graph, backups, config, served, clock, told, uses>>
      /\ UNCHANGED <<plan, builder, moved>>
  BY DEF Mark, observed, bounds, message, lock, hooks
<1>3. build # None /\ Whole(build) /\ build.stamp /\ log \in Logs
  BY <1>2 DEF Inv, Hand, Staged, Building, Stores, Present, Control
<1>4. log \in build.read /\ (log \in build.failed \/ HasChunks(build, log))
  BY <1>2 DEF Inv, Hand, InHand
<1>5. Whole(build)'
  BY <1>1, <1>3, <1>4 DEF Whole, HasChunks, Prefix
<1>6. Control' /\ pc'[r] = "picking" /\ \A q \in Rebuilders : q # r => pc'[q] \notin Working
  BY <1>2, <1>3, MoveControl DEF Inv, Control, Working
<1>7. Hand(r)'
  BY <1>1, <1>2, <1>3, <1>6 DEF Inv, Hand, Staged, InHand, Building, Grows
<1>. QED
  BY <1>1, <1>2, <1>3, <1>5, <1>6, <1>7, GrowRest, AtRestNext DEF Inv

\* A chunk is appended to the one log in hand; what was there stays.
LEMMA AppendHas ==
  ASSUME NEW s \in Seq(Nat), NEW n \in Nat
  PROVE  /\ Len(Append(s, n)) = Len(s) + 1
         /\ \A j \in 1..Len(s) : Append(s, n)[j] = s[j]
         /\ Append(s, n)[Len(s) + 1] = n
         /\ DOMAIN s = 1..Len(s) /\ DOMAIN Append(s, n) = 1..(Len(s) + 1)
OBVIOUS

LEMMA ChunkKeeps ==
  ASSUME Inv, NEW r \in Rebuilders, StoreChunk(r)
  PROVE  Inv'
<1>1. /\ Grows /\ build'.read = build.read
      /\ build'.marked \subseteq build.marked /\ build.failed \subseteq build'.failed
      /\ \/ /\ log \notin build'.marked /\ build'.failed = build.failed
            /\ build'.eps = [build.eps EXCEPT ![log] = Append(@, at)] /\ UNCHANGED tripped
         \/ log \in build'.failed /\ build'.eps = build.eps /\ tripped'
  BY ChunkGrows
<1>2. /\ pc[r] = "storing" /\ at <= Chunks[log] /\ at' = at + 1
      /\ UNCHANGED <<archives, graph, backups, config, served, clock, told, uses>>
      /\ UNCHANGED <<pc, plan, builder, todo, log, moved>>
  BY DEF StoreChunk, observed, message, lock, hooks
<1>3. build # None /\ Whole(build) /\ build.stamp /\ log \in Logs /\ build \in Store
  BY <1>2 DEF Inv, Disk, Hand, Staged, Building, Stores, Present, Control
<1>4. build.eps \in [Logs -> Seq(Nat)] /\ at \in Nat /\ Chunks[log] \in Nat
  BY <1>3, ConstantsOK DEF Store, Inv, Control
<1>5. tripped' \in BOOLEAN
  <2>1. tripped' = tripped \/ tripped' = TRUE
    BY DEF StoreChunk
  <2>. QED
    BY <2>1 DEF Inv, Control
<1>6. /\ log \notin build.failed => HasChunks(build, log)
                                      \/ (Prefix(build, log) /\ at = Len(build.eps[log]) + 1)
      /\ log \notin build.failed => ~tripped
  BY <1>2 DEF Inv, Hand, InHand
<1>7. Control' /\ \A q \in Rebuilders : q # r => pc'[q] \notin Working
  BY <1>2, <1>4, <1>5, Alone DEF Inv, Control, Working
<1>8. CASE /\ log \notin build'.marked /\ build'.failed = build.failed
           /\ build'.eps = [build.eps EXCEPT ![log] = Append(@, at)] /\ UNCHANGED tripped
  <2> DEFINE s == build.eps[log]
             t == Append(s, at)
  <2>1. s \in Seq(Nat) /\ build'.eps[log] = t
    BY <1>3, <1>4, <1>8
  <2>2. \A l \in Logs : l # log => build'.eps[l] = build.eps[l]
    BY <1>4, <1>8
  <2>3. /\ Len(t) = Len(s) + 1 /\ (\A j \in 1..Len(s) : t[j] = s[j])
        /\ t[Len(s) + 1] = at /\ DOMAIN s = 1..Len(s) /\ DOMAIN t = 1..(Len(s) + 1)
        /\ Len(s) \in Nat
    BY <1>4, <2>1, AppendHas
  <2> HIDE DEF s, t
  <2>4. HasChunks(build, log) => HasChunks(build, log)'
    <3>1. SUFFICES ASSUME HasChunks(build, log), NEW i \in 1..Chunks[log]
                   PROVE  \E j \in DOMAIN t : t[j] = i
      BY <1>2, <2>1 DEF HasChunks
    <3>2. PICK j \in DOMAIN s : s[j] = i
      BY <3>1 DEF HasChunks, s
    <3>. QED
      BY <2>3, <3>2
  <2>5. Prefix(build, log) /\ at = Len(s) + 1 => Prefix(build, log)' /\ at' = Len(t) + 1
    <3>1. SUFFICES ASSUME Prefix(build, log), at = Len(s) + 1
                   PROVE  Len(t) <= Chunks[log] /\ (\A j \in 1..Len(t) : t[j] = j)
                            /\ at' = Len(t) + 1
      BY <1>2, <2>1 DEF Prefix
    <3>2. \A j \in 1..Len(s) : s[j] = j
      BY <3>1 DEF Prefix, s
    <3>3. ASSUME NEW j \in 1..Len(t) PROVE t[j] = j
      <4>1. CASE j \in 1..Len(s)
        BY <2>3, <3>2, <4>1
      <4>2. CASE j = Len(s) + 1
        BY <2>3, <3>1, <4>2
      <4>. QED
        BY <2>3, <4>1, <4>2
    <3>. QED
      BY <1>2, <1>4, <2>3, <3>1, <3>3
  <2>6. ASSUME NEW l \in Logs
        PROVE  /\ l \in build'.failed \/ HasChunks(build, l)' \/ Prefix(build, l)'
               /\ l \in build'.marked =>
                    l \in build'.read /\ (l \in build'.failed \/ HasChunks(build, l)')
    <3>1. CASE l = log
      BY <1>2, <1>6, <1>8, <2>4, <2>5, <3>1 DEF s
    <3>2. CASE l # log
      BY <1>1, <1>3, <1>8, <2>2, <3>2 DEF Whole, HasChunks, Prefix
    <3>. QED
      BY <3>1, <3>2
  <2>7. Whole(build)'
    BY <2>6 DEF Whole
  <2>8. InHand(r)'
    BY <1>2, <1>6, <1>8, <2>1, <2>4, <2>5 DEF InHand, s
  <2>9. Hand(r)'
    BY <1>1, <1>2, <2>8 DEF Grows, Inv, Hand, Staged, Building
  <2>. QED
    BY <1>1, <1>2, <1>3, <1>7, <2>7, <2>9, GrowRest, AtRestNext DEF Inv
<1>9. CASE log \in build'.failed /\ build'.eps = build.eps /\ tripped'
  <2>1. Whole(build)'
    BY <1>1, <1>3, <1>9 DEF Whole, HasChunks, Prefix
  <2>2. Hand(r)'
    BY <1>1, <1>2, <1>9 DEF Grows, Inv, Hand, Staged, InHand, Building
  <2>. QED
    BY <1>1, <1>2, <1>3, <1>7, <2>1, <2>2, GrowRest, AtRestNext DEF Inv
<1>. QED
  BY <1>1, <1>8, <1>9

LEMMA OpenKeeps ==
  ASSUME Inv, Use, NEW r \in Rebuilders, OpenBuild(r)
  PROVE  Inv'
<1>1. /\ pc[r] = "locked" /\ pc' = [pc EXCEPT ![r] = "opened"]
      /\ builder = None /\ builder' = r /\ uses' = None
      /\ UNCHANGED <<archives, graph, backups, config, served, told>>
      /\ UNCHANGED <<plan, todo, log, at, tripped, moved>>
  BY DEF OpenBuild, To, Use, observed, message, work
<1>2. Control' /\ pc'[r] = "opened" /\ \A q \in Rebuilders : q # r => pc'[q] \notin Working
  <2>1. Control /\ \A q \in Rebuilders : pc[q] \notin Working
    BY <1>1, Alone DEF Inv
  <2>2. pc' \in [Rebuilders -> Places] /\ pc'[r] = "opened" /\ pc'[r] \in Working
    BY <1>1, <2>1 DEF Control, Places, Opened, Working
  <2>3. \A q \in Rebuilders : q # r => pc'[q] \notin Working
    BY <1>1, <2>1 DEF Control
  <2>4. \A q \in Rebuilders : pc'[q] \in {"storing", "extracting", "marking"} => log' \in Logs
    BY <2>2, <2>3 DEF Working
  <2>. QED
    BY <1>1, <2>1, <2>2, <2>3, <2>4 DEF Control
<1>3. CASE build = None
  <2>1. clock \in Nat /\ build' = NewStore("build") /\ clock' = clock + 1
    BY <1>3 DEF OpenBuild, Inv, Disk
  <2>2. /\ build' \in Store /\ build' # None /\ build'.born = clock /\ ~build'.stamp
        /\ build'.marked = {} /\ build'.failed = {} /\ build'.eps = [l \in Logs |-> <<>>]
    BY <2>1, NewStoreType
  <2>3. Disk'
    BY <1>1, <2>1, <2>2 DEF Inv, Disk
  <2>4. Births'
    <3>1. \A st \in Present : st.born \in Nat /\ st.born < clock
      BY DEF Inv, Disk, Stores, Births, Present, Store
    <3>2. \A i \in served : i \in Nat /\ i < clock
      BY DEF Inv, Disk, Stores, Births
    <3>3. Present' = Present \cup {build'}
      BY <1>1, <1>3, <2>2 DEF Present
    <3>4. \A st \in Present' : st.born < clock'
      BY <2>1, <2>2, <3>1, <3>3
    <3>5. \A i \in served' : i < clock'
      BY <1>1, <2>1, <3>2
    <3>6. (graph # None => graph.born < clock) /\ \A b \in backups : b.born < clock
      BY <3>1 DEF Present
    <3>7. /\ graph # None => graph.born # clock
          /\ \A b \in backups : b.born # clock
      BY <2>1, <3>1, <3>6 DEF Present
    <3>. QED
      BY <1>1, <2>2, <3>4, <3>5, <3>7 DEF Inv, Stores, Births
  <2>5. StoresKept'
    BY <1>1, <1>3 DEF Inv, Stores, StoresKept, Present
  <2>6. Whole(build)'
    BY <2>2, ConstantsOK DEF Whole, Prefix
  <2>7. \A st \in Present' : Whole(st)'
    BY <1>1, <1>3, <2>6 DEF Inv, Stores, Present, Whole, HasChunks, Prefix
  <2>8. build'.born \notin served'
    BY <1>1, <2>1, <2>2 DEF Inv, Disk, Stores, Births
  <2>9. Advice' /\ Fits'
    BY <1>1, <1>3, <2>2, <2>8 DEF Inv, Advice, Fits, AsksV2, Fit
  <2>10. Hand(r)'
    BY <1>1, <1>2, <2>1, <2>2, NoneIsNothing DEF Hand, Staged, InHand, Building
  <2>. QED
    BY <1>2, <2>3, <2>4, <2>5, <2>7, <2>9, <2>10, AtRestNext DEF Inv, Stores
<1>4. CASE build # None
  <2>1. UNCHANGED <<build, clock>>
    BY <1>4 DEF OpenBuild
  <2>2. build.born \in Nat
    BY <1>4 DEF Inv, Disk, Store
  <2>3. Hand(r)'
    BY <1>1, <1>2, <1>4, <2>1, <2>2, NoneIsNothing DEF Hand, Staged, InHand, Building
  <2>4. Disk' /\ Stores' /\ Advice' /\ Fits'
    BY <1>1, <2>1
    DEF Inv, Disk, Stores, Births, StoresKept, Present, Whole, HasChunks, Prefix, Advice,
        Fits, AsksV2, Fit
  <2>. QED
    BY <1>2, <2>3, <2>4, AtRestNext DEF Inv
<1>. QED
  BY <1>3, <1>4

---------------------------------------------------------------------------
(* The swap: directories change places, none is lost on the way. *)

\* The same directories in other places, or fewer that never served.
Shuffled ==
  /\ graph' \in Store \cup {None} /\ build' \in Store \cup {None} /\ backups' \subseteq Store
  /\ Present' \subseteq Present
  /\ \A st \in Present : st.born \in served' => st \in Present'
  /\ \A i \in served' : i \in served \/ \E st \in Present' : st.born = i
  /\ UNCHANGED <<archives, clock>>

LEMMA ShuffledStores ==
  ASSUME Inv, Shuffled,
         graph' # None /\ build' # None => graph'.born # build'.born,
         \A b \in backups' : /\ graph' # None => b.born # graph'.born
                             /\ build' # None => b.born # build'.born
                             /\ \A c \in backups' : b.born = c.born => b = c
  PROVE  Disk' /\ Stores'
<1>1. \A st \in Present' : st \in Present /\ st \in Store
  BY DEF Inv, Disk, Shuffled, Present
<1>2. \A i \in served' : \E st \in Present' : st.born = i
  <2>1. SUFFICES ASSUME NEW i \in served', i \in served PROVE \E st \in Present' : st.born = i
    BY DEF Shuffled
  <2>2. PICK st \in Present : st.born = i
    BY <2>1 DEF Inv, Stores, StoresKept
  <2>. QED
    BY <2>1, <2>2 DEF Shuffled
<1>3. \A st \in Present' : st.born \in Nat /\ st.born < clock
  BY <1>1 DEF Inv, Stores, Births, Store
<1>4. Births'
  BY <1>2, <1>3 DEF Births, Shuffled
<1>5. Disk'
  <2>1. served' \subseteq Nat
    BY <1>2, <1>3
  <2>. QED
    BY <2>1 DEF Inv, Disk, Shuffled
<1>6. \A st \in Present' : Whole(st)'
  BY <1>1 DEF Inv, Stores, Whole, HasChunks, Prefix
<1>7. StoresKept'
  BY <1>2 DEF StoresKept
<1>. QED
  BY <1>4, <1>5, <1>6, <1>7 DEF Stores

LEMMA AsideKeeps ==
  ASSUME Inv, NEW r \in Rebuilders, MoveAside(r)
  PROVE  Inv'
<1>1. /\ pc[r] = "swapping" /\ graph # None /\ backups' = backups \cup {graph}
      /\ moved' = graph /\ graph' = None /\ To(r, "halfway")
      /\ UNCHANGED <<archives, build, config, plan, builder, todo, log, at, tripped, told>>
      /\ UNCHANGED <<served, clock, uses>>
  BY DEF MoveAside, WithBackup, work, message, bounds, lock, hooks
<1>2. Control' /\ pc'[r] = "halfway" /\ \A q \in Rebuilders : q # r => pc'[q] \notin Working
  BY <1>1, MoveControl DEF Inv, Control, Working
<1>3. build # None /\ build.stamp /\ build.born # uses
  BY <1>1 DEF Inv, Hand, Staged, Building
<1>4. graph \in Store /\ Present' = Present
  BY <1>1 DEF Inv, Disk, Present
<1>5. Shuffled
  BY <1>1, <1>4 DEF Shuffled, Inv, Disk, Stores, StoresKept
<1>6. \A b \in backups' : /\ graph' # None => b.born # graph'.born
                          /\ build' # None => b.born # build'.born
                          /\ \A c \in backups' : b.born = c.born => b = c
  BY <1>1 DEF Inv, Stores, Births
<1>7. Disk' /\ Stores'
  BY <1>1, <1>5, <1>6, ShuffledStores
<1>8. Advice' /\ Fits'
  BY <1>1, <1>3 DEF Inv, Advice, Fits, AsksV2, Fit
<1>9. Hand(r)'
  BY <1>1, <1>2, <1>3 DEF Inv, Hand, Staged, InHand, Building, Fits, AsksV2, Fit
<1>. QED
  BY <1>2, <1>7, <1>8, <1>9, AtRestNext DEF Inv

LEMMA InKeeps ==
  ASSUME Inv, NEW r \in Rebuilders, MoveIn(r)
  PROVE  Inv'
<1>1. /\ pc[r] = "halfway" /\ graph = None /\ graph' = build /\ build' = None
      /\ served' = served \cup {build.born} /\ To(r, "recording")
      /\ UNCHANGED <<archives, backups, config, plan, builder, todo, log, at, tripped, told>>
      /\ clock' = clock
  BY DEF MoveIn, Serve, work, message, lock
<1>2. Control' /\ pc'[r] = "recording" /\ \A q \in Rebuilders : q # r => pc'[q] \notin Working
  BY <1>1, MoveControl DEF Inv, Control, Working
<1>3. build # None /\ build.stamp /\ build \in Store
  BY <1>1 DEF Inv, Disk, Hand, Staged, Building
<1>4. Present' = Present
  BY <1>1 DEF Present
<1>5. build \in Present'
  BY <1>1, <1>3 DEF Present
<1>6. Shuffled
  BY <1>1, <1>3, <1>4, <1>5 DEF Shuffled, Inv, Disk
<1>7. \A b \in backups' : /\ graph' # None => b.born # graph'.born
                          /\ build' # None => b.born # build'.born
                          /\ \A c \in backups' : b.born = c.born => b = c
  BY <1>1 DEF Inv, Stores, Births
<1>8. Disk' /\ Stores'
  BY <1>1, <1>6, <1>7, ShuffledStores
<1>9. Advice' /\ Fits'
  BY <1>1, <1>3 DEF Inv, Advice, Fits, AsksV2, Fit
<1>10. Hand(r)'
  BY <1>1, <1>2, <1>3 DEF Hand, Staged, InHand, Building
<1>. QED
  BY <1>2, <1>8, <1>9, <1>10, AtRestNext DEF Inv

LEMMA BackKeeps ==
  ASSUME Inv, NEW r \in Rebuilders, MoveBack(r)
  PROVE  Inv'
<1>1. /\ pc[r] = "undoing" /\ graph = None /\ graph' = moved /\ backups' = backups \ {moved}
      /\ End(r) /\ UNCHANGED <<archives, build, config, told, served, clock>>
  BY DEF MoveBack, message, observed, bounds
<1>2. /\ Control' /\ \A q \in Rebuilders : pc'[q] \in Working => q # r /\ pc'[q] = pc[q]
  BY <1>1, LeaveControl DEF Inv, End
<1>3. \A q \in Rebuilders : pc'[q] \notin Working
  BY <1>1, <1>2, Alone DEF Inv, Working
<1>4. build # None /\ build.stamp /\ moved \in backups /\ (AsksV2 => Fit(moved))
  BY <1>1 DEF Inv, Hand, Staged, Building
<1>5. moved \in Store /\ moved # None
  BY <1>4, NoneIsNothing DEF Inv, Disk
<1>6. Present' = Present
  BY <1>1, <1>4, <1>5 DEF Present
<1>7. Shuffled
  BY <1>1, <1>5, <1>6 DEF Shuffled, Inv, Disk
<1>8. /\ graph' # None /\ build' # None => graph'.born # build'.born
      /\ \A b \in backups' : /\ graph' # None => b.born # graph'.born
                             /\ build' # None => b.born # build'.born
                             /\ \A c \in backups' : b.born = c.born => b = c
  BY <1>1, <1>4 DEF Inv, Stores, Births
<1>9. Disk' /\ Stores'
  BY <1>7, <1>8, ShuffledStores
<1>10. Advice' /\ Fits'
  BY <1>1, <1>4, <1>5 DEF Inv, Advice, Fits, AsksV2, Fit
<1>. QED
  BY <1>2, <1>3, <1>9, <1>10, AtRestNext DEF Inv

LEMMA RecordKeeps ==
  ASSUME Inv, NEW r \in Rebuilders, RecordPipeline(r)
  PROVE  Inv'
<1>1. /\ pc[r] = "recording" /\ End(r)
      /\ UNCHANGED <<archives, graph, build, backups, served, clock>>
      /\ told' \in {"swapped", "config"}
  BY DEF RecordPipeline, Tell, observed
<1>2. /\ Control' /\ \A q \in Rebuilders : pc'[q] \in Working => q # r /\ pc'[q] = pc[q]
  BY <1>1, LeaveControl DEF Inv, End
<1>3. \A q \in Rebuilders : pc'[q] \notin Working
  BY <1>1, <1>2, Alone DEF Inv, Working
<1>4. graph # None /\ graph.stamp
  BY <1>1 DEF Inv, Hand, Staged
<1>5. Disk' /\ Stores'
  BY <1>1 DEF Inv, Disk, Stores, Births, StoresKept, Present, Whole, HasChunks, Prefix
<1>6. Advice' /\ Fits'
  BY <1>1, <1>4 DEF Inv, Advice, Fits, AsksV2, Fit
<1>. QED
  BY <1>2, <1>3, <1>5, <1>6, AtRestNext DEF Inv

---------------------------------------------------------------------------
(* Daemons, hooks and the user. *)

Opening == IF graph = None THEN NewStore("started") ELSE WithDaemonLog(graph)

\* A store is the graph/ of before, or new where there was none.
Continues(st) ==
  /\ st \in Store /\ st # None /\ Whole(st)
  /\ graph = None => st.born = clock /\ st.kind = "started"
  /\ graph # None => st.born = graph.born /\ st.kind = graph.kind /\ st.stamp = graph.stamp

LEMMA OpeningContinues ==
  ASSUME Inv
  PROVE  Continues(Opening)
<1>1. clock \in Nat
  BY DEF Inv, Disk
<1>2. CASE graph = None
  <2>1. Opening \in Store /\ Opening # None /\ Opening.born = clock /\ Opening.kind = "started"
        /\ Opening.marked = {} /\ Opening.failed = {} /\ Opening.eps = [l \in Logs |-> <<>>]
    BY <1>1, <1>2, NewStoreType DEF Opening
  <2>2. Whole(Opening)
    BY <2>1, ConstantsOK DEF Whole, Prefix
  <2>. QED
    BY <1>2, <2>1, <2>2 DEF Continues
<1>3. CASE graph # None
  <2>1. graph \in Store /\ Whole(graph)
    BY <1>3 DEF Inv, Disk, Stores, Present
  <2>2. /\ Opening \in Store /\ Opening # None
        /\ Opening.born = graph.born /\ Opening.kind = graph.kind
        /\ Opening.stamp = graph.stamp /\ Opening.eps = graph.eps
        /\ Opening.marked = graph.marked /\ Opening.read = graph.read
        /\ Opening.failed = graph.failed
    BY <1>1, <1>3, <2>1, DaemonLogType DEF Opening
  <2>3. Whole(Opening)
    BY <2>1, <2>2 DEF Whole, HasChunks, Prefix
  <2>. QED
    BY <1>3, <2>2, <2>3 DEF Continues
<1>. QED
  BY <1>2, <1>3

LEMMA ConcatHas ==
  ASSUME NEW s \in Seq(Nat), NEW c \in Seq(Nat)
  PROVE  /\ s \o c \in Seq(Nat) /\ Len(s \o c) = Len(s) + Len(c)
         /\ \A i \in 1..Len(c) : (s \o c)[Len(s) + i] = c[i]
OBVIOUS

\* What an ingest makes of a store: the one the daemon uses gets every chunk.
LEMMA GivenType ==
  ASSUME Inv, NEW l \in Logs, NEW st \in Store
  PROVE  LET new == Given(st, l)
         IN /\ new \in Store /\ new # None /\ new.born = st.born /\ new.kind = st.kind
            /\ new.stamp = st.stamp /\ new.touched = st.touched /\ new.read = st.read
            /\ new.failed = st.failed /\ new.marked \subseteq st.marked
            /\ \A k \in Logs : k # l => new.eps[k] = st.eps[k]
            /\ st.born # uses => new = st
            /\ st.born = uses => new.eps[l] = st.eps[l] \o AllChunks(l)
<1>0. st # None
  BY NoneIsNothing
<1>1. CASE st.born # uses
  BY <1>0, <1>1 DEF Given
<1>2. CASE st.born = uses
  <2> DEFINE t == st.eps[l] \o AllChunks(l)
             eps == [st.eps EXCEPT ![l] = t]
             marked == IF Chunks[l] = 0 THEN st.marked ELSE st.marked \ {l}
  <2>1. st.eps[l] \in Seq(Nat) /\ AllChunks(l) \in Seq(Nat)
    BY AllChunksType DEF Store
  <2>2. t \in Seq(Nat)
    BY <2>1, ConcatHas
  <2>3. eps \in [Logs -> Seq(Nat)] /\ marked \in SUBSET Logs /\ marked \subseteq st.marked
    BY <2>2 DEF Store
  <2>4. eps[l] = t /\ \A k \in Logs : k # l => eps[k] = st.eps[k]
    BY DEF Store
  <2>5. Given(st, l) = [born |-> st.born, kind |-> st.kind, stamp |-> st.stamp, eps |-> eps,
                        marked |-> marked, read |-> st.read, log |-> st.log,
                        touched |-> st.touched, failed |-> st.failed]
    BY <1>0, <1>2 DEF Given, Store
  <2> HIDE DEF eps, marked
  <2>6. Given(st, l) \in Store
    BY <2>3, <2>5 DEF Store
  <2>. QED
    BY <1>2, <2>3, <2>4, <2>5, <2>6, NoneIsNothing
<1>. QED
  BY <1>1, <1>2

\* Where the chunks are appended all of them are there.
LEMMA AppendedHas ==
  ASSUME NEW l \in Logs, NEW s \in Seq(Nat)
  PROVE  /\ Len(s \o AllChunks(l)) >= Chunks[l]
         /\ \A i \in 1..Chunks[l] :
              \E j \in DOMAIN (s \o AllChunks(l)) : (s \o AllChunks(l))[j] = i
<1> DEFINE t == s \o AllChunks(l)
<1>1. /\ AllChunks(l) \in Seq(Nat) /\ Len(AllChunks(l)) = Chunks[l]
      /\ \A i \in 1..Chunks[l] : AllChunks(l)[i] = i
  BY AllChunksType
<1>2. t \in Seq(Nat) /\ Len(t) = Len(s) + Chunks[l]
  BY <1>1, ConcatHas
<1>3. Len(s) \in Nat /\ Chunks[l] \in Nat
  BY ConstantsOK
<1>4. ASSUME NEW i \in 1..Chunks[l] PROVE t[Len(s) + i] = i
  BY <1>1, <1>4, ConcatHas
<1>5. DOMAIN t = 1..Len(t)
  BY <1>2
<1> HIDE DEF t
<1>6. ASSUME NEW i \in 1..Chunks[l] PROVE \E j \in DOMAIN t : t[j] = i
  <2>1. Len(s) + i \in DOMAIN t
    BY <1>2, <1>3, <1>5
  <2>. QED
    BY <1>4, <2>1
<1>7. Len(t) >= Chunks[l]
  BY <1>2, <1>3
<1>. QED
  BY <1>6, <1>7 DEF t

LEMMA GivenWhole ==
  ASSUME Inv, NEW l \in Logs, NEW st \in Store, Whole(st)
  PROVE  Whole(Given(st, l))
<1> DEFINE new == Given(st, l)
<1>1. /\ new.read = st.read /\ new.failed = st.failed /\ new.marked \subseteq st.marked
      /\ \A k \in Logs : k # l => new.eps[k] = st.eps[k]
      /\ st.born # uses => new = st
      /\ st.born = uses => new.eps[l] = st.eps[l] \o AllChunks(l)
  BY GivenType
<1>2. st.eps[l] \in Seq(Nat)
  BY DEF Store
<1>3. st.born = uses => HasChunks(new, l)
  <2>. SUFFICES ASSUME st.born = uses PROVE HasChunks(new, l)
    OBVIOUS
  <2>1. new.eps[l] = st.eps[l] \o AllChunks(l)
    BY <1>1
  <2>2. \A i \in 1..Chunks[l] :
          \E j \in DOMAIN (st.eps[l] \o AllChunks(l)) : (st.eps[l] \o AllChunks(l))[j] = i
    BY <1>2, AppendedHas
  <2> HIDE DEF new
  <2>. QED
    BY <2>1, <2>2 DEF HasChunks
<1> HIDE DEF new
<1>4. ASSUME NEW k \in Logs
      PROVE  /\ k \in new.failed \/ HasChunks(new, k) \/ Prefix(new, k)
             /\ k \in new.marked =>
                  k \in new.read /\ (k \in new.failed \/ HasChunks(new, k))
  <2>1. /\ k \in st.failed \/ HasChunks(st, k) \/ Prefix(st, k)
        /\ k \in st.marked => k \in st.read /\ (k \in st.failed \/ HasChunks(st, k))
    BY DEF Whole
  <2>2. CASE st.born # uses
    BY <1>1, <2>1, <2>2
  <2>3. CASE st.born = uses /\ k = l
    BY <1>1, <1>3, <2>1, <2>3
  <2>4. CASE k # l
    <3>1. HasChunks(new, k) = HasChunks(st, k) /\ Prefix(new, k) = Prefix(st, k)
      BY <1>1, <2>4 DEF HasChunks, Prefix
    <3>. QED
      BY <1>1, <2>1, <3>1
  <2>. QED
    BY <2>2, <2>3, <2>4
<1>5. Whole(new)
  BY <1>4 DEF Whole
<1>. QED
  BY <1>5 DEF new

\* The directories before and after: each holds what its store was given.
GivenAll(l) ==
  /\ graph' = Given(graph, l) /\ build' = Given(build, l)
  /\ backups' = {Given(st, l) : st \in backups}

LEMMA GivenPlaces ==
  ASSUME Inv, NEW l \in Logs, GivenAll(l)
  PROVE  /\ graph' = None <=> graph = None
         /\ build' = None <=> build = None
         /\ \A new \in Present' : \E st \in Present \cap Store : new = Given(st, l)
         /\ \A st \in Present : st \in Store /\ Given(st, l) \in Present'
<1>1. Given(None, l) = None
  BY DEF Given
<1>2. graph \in Store \cup {None} /\ build \in Store \cup {None} /\ backups \subseteq Store
  BY DEF Inv, Disk
<1>3. \A st \in Store : Given(st, l) # None /\ st # None
  BY GivenType, NoneIsNothing
<1>4. (graph' = None <=> graph = None) /\ (build' = None <=> build = None)
  BY <1>1, <1>2, <1>3 DEF GivenAll
<1>5. ASSUME NEW new \in Present' PROVE \E st \in Present \cap Store : new = Given(st, l)
  BY <1>1, <1>2, <1>3, <1>4, <1>5 DEF Present, GivenAll
<1>6. ASSUME NEW st \in Present PROVE st \in Store /\ Given(st, l) \in Present'
  BY <1>1, <1>2, <1>3, <1>4, <1>6 DEF Present, GivenAll
<1>. QED
  BY <1>4, <1>5, <1>6

LEMMA IngestKeeps ==
  ASSUME Inv, NEW l \in Logs, Ingest(l)
  PROVE  Inv'
<1>1. /\ GivenAll(l) /\ moved' = Given(moved, l) /\ archives' = archives
      /\ UNCHANGED <<config, pc, plan, builder, work, uses, told, served, clock>>
  BY DEF Ingest, GivenAll, lock, bounds
<1>2. /\ graph' = None <=> graph = None
      /\ build' = None <=> build = None
      /\ \A new \in Present' : \E st \in Present \cap Store : new = Given(st, l)
      /\ \A st \in Present : st \in Store /\ Given(st, l) \in Present'
  BY <1>1, GivenPlaces
<1>3. \A st \in Store : /\ Given(st, l) \in Store /\ Given(st, l) # None
                        /\ Given(st, l).born = st.born /\ Given(st, l).kind = st.kind
                        /\ Given(st, l).stamp = st.stamp
                        /\ st.born # uses => Given(st, l) = st
  BY GivenType
<1>4. graph \in Store \cup {None} /\ build \in Store \cup {None} /\ backups \subseteq Store
  BY DEF Inv, Disk
<1>5. /\ graph # None => /\ graph' \in Store /\ graph' # None /\ graph'.born = graph.born
                         /\ graph'.kind = graph.kind /\ graph'.stamp = graph.stamp
      /\ build # None => /\ build' \in Store /\ build' # None /\ build'.born = build.born
                         /\ build'.kind = build.kind /\ build'.stamp = build.stamp
                         /\ build.born # uses => build' = build
  BY <1>1, <1>3, <1>4 DEF GivenAll
<1>6. Disk'
  <2>1. graph' \in Store \cup {None} /\ build' \in Store \cup {None}
    BY <1>2, <1>4, <1>5
  <2>2. backups' \subseteq Store
    BY <1>1, <1>3, <1>4 DEF GivenAll
  <2>. QED
    BY <1>1, <2>1, <2>2 DEF Inv, Disk
<1>7. Births'
  <2>1. \A st \in Present' : st.born < clock'
    BY <1>1, <1>2, <1>3 DEF Inv, Stores, Births
  <2>2. graph' # None /\ build' # None => graph'.born # build'.born
    BY <1>2, <1>5 DEF Inv, Stores, Births
  <2>3. ASSUME NEW b \in backups'
        PROVE  /\ graph' # None => b.born # graph'.born
               /\ build' # None => b.born # build'.born
               /\ \A c \in backups' : b.born = c.born => b = c
    <3>1. PICK a \in backups : b = Given(a, l)
      BY <1>1 DEF GivenAll
    <3>2. a \in Store /\ b.born = a.born
      BY <1>3, <1>4, <3>1
    <3>3. ASSUME NEW c \in backups', b.born = c.born PROVE b = c
      <4>1. PICK d \in backups : c = Given(d, l)
        BY <1>1 DEF GivenAll
      <4>2. d.born = a.born
        BY <1>3, <1>4, <3>2, <3>3, <4>1
      <4>. QED
        BY <3>1, <4>1, <4>2 DEF Inv, Stores, Births
    <3>. QED
      BY <1>2, <1>5, <3>2, <3>3 DEF Inv, Stores, Births
  <2>. QED
    BY <1>1, <2>1, <2>2, <2>3 DEF Inv, Stores, Births
<1>8. StoresKept'
  BY <1>1, <1>2, <1>3 DEF Inv, Stores, StoresKept
<1>9. ASSUME NEW new \in Present' PROVE Whole(new)'
  <2>1. PICK st \in Present \cap Store : new = Given(st, l)
    BY <1>2
  <2>2. Whole(new)
    BY <2>1, GivenWhole DEF Inv, Stores
  <2>. QED
    BY <2>2 DEF Whole, HasChunks, Prefix
<1>10. Advice' /\ Fits'
  BY <1>1, <1>2, <1>5 DEF Inv, Advice, Fits, Fit, AsksV2
<1>11. Control'
  BY <1>1 DEF Inv, Control, work
<1>12. ASSUME NEW r \in Rebuilders PROVE Hand(r)'
  <2>1. Hand(r)
    BY DEF Inv
  <2>2. pc[r] \in {"opened"} \cup Building => build # None /\ build' = build
    BY <1>5, <2>1 DEF Hand, Staged
  <2>3. pc[r] \in {"halfway", "undoing"} => moved' \in backups' /\ (AsksV2' => Fit(moved)')
    <3>1. SUFFICES ASSUME pc[r] \in {"halfway", "undoing"}
                   PROVE  moved' \in backups' /\ (AsksV2' => Fit(moved)')
      OBVIOUS
    <3>2. moved \in backups /\ moved \in Store /\ (AsksV2 => Fit(moved))
      BY <1>4, <2>1, <3>1 DEF Hand, Staged
    <3>3. moved' \in backups'
      BY <1>1, <3>2 DEF GivenAll
    <3>4. /\ moved # None /\ moved' # None
          /\ moved'.stamp = moved.stamp /\ moved'.kind = moved.kind
      BY <1>1, <1>3, <3>2, NoneIsNothing
    <3>. QED
      BY <1>1, <3>2, <3>3, <3>4 DEF Fit, AsksV2
  <2>4. Staged(r)'
    BY <1>1, <1>5, <2>1, <2>2, <2>3 DEF Hand, Staged, Building
  <2>5. InHand(r)'
    <3>1. pc[r] \in {"storing", "extracting", "marking"} => build' = build
      BY <2>2 DEF Building
    <3>. QED
      BY <1>1, <2>1, <3>1 DEF Hand, InHand, work, HasChunks, Prefix
  <2>. QED
    BY <2>4, <2>5 DEF Hand
<1>. QED
  BY <1>6, <1>7, <1>8, <1>9, <1>10, <1>11, <1>12 DEF Inv, Stores

LEMMA WrittenKeeps ==
  ASSUME Inv, Continues(graph'), clock' = clock + 1 \/ (clock' = clock /\ graph # None),
         served' = served \/ served' = served \cup {graph'.born},
         uses' = uses \/ uses' = graph'.born,
         told' = told \/ told' = None,
         UNCHANGED <<build, backups, config, pc, plan, builder, work, moved>>,
         archives' = archives
  PROVE  Inv'
<1>1. clock \in Nat /\ graph' \in Store /\ graph' # None
  BY DEF Inv, Disk, Continues
<1>2. graph = None \/ (graph # None /\ graph \in Present /\ graph'.born = graph.born)
  BY DEF Continues, Present
<1>3. graph'.born \in Nat /\ graph'.born < clock' /\ clock' \in Nat /\ clock <= clock'
  BY <1>1, <1>2 DEF Continues, Inv, Disk, Stores, Births, Store
<1>4. \A st \in Present : st.born \in Nat /\ st.born < clock
  BY DEF Inv, Disk, Stores, Births, Present, Store
<1>5. \A i \in served : i \in Nat /\ i < clock
  BY DEF Inv, Disk, Stores, Births
<1>6. \A st \in Present' : st = graph' \/ st \in Present
  BY DEF Present
<1>7. Disk'
  <2>1. served' \subseteq Nat
    BY <1>3, <1>5
  <2>. QED
    BY <1>1, <1>3, <2>1 DEF Inv, Disk
<1>8. build # None => build.born # graph'.born
  <2>1. build # None => build \in Present
    BY DEF Present
  <2>. QED
    BY <1>1, <1>2, <1>4, <2>1 DEF Continues, Inv, Stores, Births
<1>9. \A b \in backups : b.born # graph'.born
  <2>1. backups \subseteq Present
    BY DEF Present
  <2>. QED
    BY <1>1, <1>2, <1>4, <2>1 DEF Continues, Inv, Stores, Births
<1>10. Births'
  <2>1. \A st \in Present' : st.born < clock'
    BY <1>1, <1>3, <1>4, <1>6
  <2>2. \A i \in served' : i < clock'
    BY <1>1, <1>3, <1>5
  <2>. QED
    BY <1>8, <1>9, <2>1, <2>2 DEF Inv, Stores, Births
<1>11. StoresKept'
  <2>1. SUFFICES ASSUME NEW i \in served' PROVE \E st \in Present' : st.born = i
    BY DEF StoresKept
  <2>2. graph' \in Present'
    BY <1>1 DEF Present
  <2>3. CASE i = graph'.born
    BY <2>2, <2>3
  <2>4. CASE i \in served
    <3>1. PICK st \in Present : st.born = i
      BY <2>4 DEF Inv, Stores, StoresKept
    <3>2. st \in Present' \/ (graph # None /\ st = graph)
      BY <3>1 DEF Present
    <3>. QED
      BY <1>2, <2>2, <3>1, <3>2
  <2>. QED
    BY <2>1, <2>3, <2>4
<1>12. \A st \in Present' : Whole(st)'
  <2>1. Whole(graph') /\ \A st \in Present : Whole(st)
    BY DEF Continues, Inv, Stores
  <2>. QED
    BY <1>6, <2>1 DEF Whole, HasChunks, Prefix
<1>13. Advice'
  <2>1. told' \in {"half", "remove", "swapped"} => told' = told
    BY NoneIsNothing DEF Advices
  <2>2. build' # None /\ build'.born \in served' => build.born \in served
    BY <1>8
  <2>3. told' = "swapped" /\ build' = None => graph' # None /\ graph'.stamp
    BY <1>1, <2>1 DEF Inv, Advice, Continues
  <2>. QED
    BY <1>1, <2>1, <2>2, <2>3, NoneIsNothing DEF Inv, Advice, Advices
<1>14. AsksV2' => AsksV2
  BY NoneIsNothing DEF AsksV2, Advices
<1>15. Fits'
  BY <1>1, <1>14 DEF Inv, Fits, Fit, Continues
<1>16. Control'
  BY DEF Inv, Control, work
<1>17. \A q \in Rebuilders : Hand(q)'
  BY <1>1, <1>8, <1>14 DEF Inv, Hand, Staged, InHand, Fit, Continues, work, HasChunks, Prefix
<1>. QED
  BY <1>7, <1>10, <1>11, <1>12, <1>13, <1>15, <1>16, <1>17 DEF Inv, Stores

\* Messages, hooks and archives: no store is written.
LEMMA RestKeeps ==
  ASSUME Inv, archives' \subseteq Logs, Advice', Fits',
         UNCHANGED <<graph, build, backups, served, clock>>,
         UNCHANGED <<pc, plan, builder, work, moved>>, uses' \in {uses, None},
         AsksV2' => AsksV2
  PROVE  Inv'
<1>1. Disk' /\ Control'
  BY DEF Inv, Disk, Control, work
<1>2. Stores'
  BY DEF Inv, Stores, Births, StoresKept, Present, Whole, HasChunks, Prefix
<1>3. build # None => build.born \in Nat /\ build.born # None
  BY NoneIsNothing DEF Inv, Disk, Store
<1>4. ASSUME NEW q \in Rebuilders PROVE Hand(q)'
  <2>1. Hand(q)
    BY DEF Inv
  <2>2. Staged(q)'
    BY <1>3, <2>1 DEF Hand, Staged, Fit, Building
  <2>3. InHand(q)'
    BY <2>1 DEF Hand, InHand, work, HasChunks, Prefix
  <2>. QED
    BY <2>2, <2>3 DEF Hand
<1>. QED
  BY <1>1, <1>2, <1>4 DEF Inv

LEMMA SayKeeps ==
  ASSUME Inv, NEW r \in Rebuilders, RefuseWithoutGraph(r) \/ RefuseUnstamped(r)
  PROVE  Inv'
<1>1. /\ UNCHANGED <<archives, graph, build, backups, served, clock, config>>
      /\ UNCHANGED <<pc, plan, builder, work, moved, uses>>
  BY DEF RefuseWithoutGraph, RefuseUnstamped, disk, observed, bounds, lock, hooks
<1>2. \/ told' = "half" /\ build # None /\ build.stamp
      \/ told' = "init"
      \/ told' = "remove" /\ build # None /\ ~build.stamp
  BY DEF RefuseWithoutGraph, RefuseUnstamped, Tell
<1>3. Advice' /\ Fits' /\ (AsksV2' => AsksV2)
  BY <1>1, <1>2 DEF Inv, Advice, Fits, Fit, AsksV2
<1>. QED
  BY <1>1, <1>3, RestKeeps DEF Inv, Disk

LEMMA OthersKeep ==
  ASSUME Inv, Others
  PROVE  Inv'
<1>1. ASSUME NEW l \in Logs, Archive(l) \/ IngestGivesUp(l) PROVE Inv'
  <2>1. /\ UNCHANGED <<graph, build, backups, served, clock, config, told>>
        /\ UNCHANGED <<pc, plan, builder, work, moved, uses>>
        /\ archives' \subseteq Logs
    BY <1>1 DEF Archive, IngestGivesUp, disk, observed, bounds, message, lock, Inv, Disk
  <2>2. Advice' /\ Fits' /\ (AsksV2' => AsksV2)
    BY <2>1 DEF Inv, Advice, Fits, Fit, AsksV2
  <2>. QED
    BY <2>1, <2>2, RestKeeps
<1>2. CASE DaemonPasses \/ DaemonEnds
  <2>1. /\ UNCHANGED <<graph, build, backups, served, clock, config, told, archives>>
        /\ UNCHANGED <<pc, plan, builder, work, moved>> /\ uses' \in {uses, None}
    BY <1>2 DEF DaemonPasses, DaemonEnds, disk, observed, bounds, message, lock
  <2>2. Advice' /\ Fits' /\ (AsksV2' => AsksV2)
    BY <2>1 DEF Inv, Advice, Fits, Fit, AsksV2
  <2>. QED
    BY <2>1, <2>2, RestKeeps DEF Inv, Disk
<1>3. ASSUME NEW l \in Logs, Ingest(l) PROVE Inv'
  BY <1>3, IngestKeeps
<1>4. CASE DaemonStarts
  <2>1. graph' = Opening
    BY <1>4 DEF DaemonStarts, Opening
  <2>2. Continues(graph')
    BY <2>1, OpeningContinues
  <2>. QED
    BY <1>4, <2>2, WrittenKeeps DEF DaemonStarts, message, observed, lock
<1>5. CASE DaemonOpens
  <2>1. Continues(graph')
    <3>1. CASE graph = None
      BY <1>5, <3>1, OpeningContinues DEF DaemonOpens, Opening
    <3>2. CASE graph # None
      BY <1>5, <3>2 DEF DaemonOpens, Continues, Inv, Disk, Stores, Present
    <3>. QED
      BY <3>1, <3>2
  <2>2. /\ clock' = clock + 1 \/ (clock' = clock /\ graph # None)
        /\ served' = served \cup {graph'.born} /\ uses' = graph'.born
        /\ UNCHANGED <<archives, build, backups, config, pc, plan, builder, work, moved, told>>
    BY <1>5 DEF DaemonOpens, message, lock
  <2>. QED
    BY <2>1, <2>2, WrittenKeeps
<1>. QED
  BY <1>1, <1>2, <1>3, <1>4, <1>5 DEF Others

\* The user acts while nobody works.
LEMMA UserRest ==
  ASSUME Inv, builder = None, UNCHANGED <<pc, plan, builder, work>>, Shuffled, Advice', Fits',
         graph' # None /\ build' # None => graph'.born # build'.born,
         \A b \in backups' : /\ graph' # None => b.born # graph'.born
                             /\ build' # None => b.born # build'.born
                             /\ \A c \in backups' : b.born = c.born => b = c
  PROVE  Inv'
<1>1. Control'
  BY DEF Inv, Control, work
<1>2. \A q \in Rebuilders : pc'[q] \notin Working
  BY Alone DEF Inv
<1>. QED
  BY <1>1, <1>2, ShuffledStores, AtRestNext DEF Inv

LEMMA UserKeeps ==
  ASSUME Inv, User
  PROVE  Inv'
<1>0. None \notin Advices /\ None \notin Store
  BY NoneIsNothing
<1>1. CASE RemoveBuild
  <2>1. /\ told = "remove" /\ builder = None /\ told' = None /\ build' = None
        /\ UNCHANGED <<archives, graph, backups, config, served, clock>>
        /\ UNCHANGED <<pc, plan, builder, work>>
    BY <1>1 DEF RemoveBuild, Advised, Done, Tell, observed, bounds, lock
  <2>2. build # None => build.born \notin served
    BY <2>1 DEF Inv, Advice
  <2>3. Shuffled
    BY <2>1, <2>2 DEF Shuffled, Present, Inv, Disk
  <2>4. Advice' /\ Fits'
    BY <1>0, <2>1 DEF Inv, Advice, Fits, Fit, AsksV2, Advices
  <2>5. \A b \in backups' : /\ graph' # None => b.born # graph'.born
                            /\ \A c \in backups' : b.born = c.born => b = c
    BY <2>1 DEF Inv, Stores, Births
  <2>. QED
    BY <2>1, <2>3, <2>4, <2>5, UserRest
<1>2. CASE FinishSwap
  <2>1. /\ told = "half" /\ builder = None /\ told' = None
        /\ graph = None /\ build # None /\ graph' = build /\ build' = None
        /\ served' = served \cup {build.born}
        /\ UNCHANGED <<archives, backups, clock>>
        /\ UNCHANGED <<pc, plan, builder, work>>
    BY <1>2 DEF FinishSwap, Serve, Advised, Done, Tell, lock
  <2>2. build.stamp /\ build \in Store
    BY <2>1 DEF Inv, Advice, Disk
  <2>3. Present' = Present /\ build \in Present'
    BY <2>1 DEF Present
  <2>4. Shuffled
    BY <2>1, <2>2, <2>3 DEF Shuffled, Inv, Disk
  <2>5. Advice' /\ Fits'
    BY <1>0, <2>1, <2>2 DEF Advice, Fits, Fit, Advices
  <2>6. \A b \in backups' : /\ graph' # None => b.born # graph'.born
                            /\ \A c \in backups' : b.born = c.born => b = c
    BY <2>1 DEF Inv, Stores, Births
  <2>. QED
    BY <2>1, <2>4, <2>5, <2>6, UserRest
<1>3. CASE RollBackHalf
  <2>1. /\ builder = None /\ told' = None /\ config' = "v1"
        /\ graph = None /\ named \in backups /\ graph' = named /\ backups' = backups \ {named}
        /\ UNCHANGED <<archives, build, served, clock>>
        /\ UNCHANGED <<pc, plan, builder, work>> /\ told = "half"
    BY <1>3 DEF RollBackHalf, Advised, Done, Tell, observed, bounds, lock
  <2>2. named \in Store /\ named # None
    BY <1>0, <2>1 DEF Inv, Disk
  <2>3. Present' = Present
    BY <2>1, <2>2 DEF Present
  <2>4. Shuffled
    BY <2>1, <2>2, <2>3 DEF Shuffled, Inv, Disk
  <2>5. Advice' /\ Fits'
    BY <1>0, <2>1 DEF Inv, Advice, Fits, AsksV2, Advices
  <2>6. /\ graph' # None /\ build' # None => graph'.born # build'.born
        /\ \A b \in backups' : /\ graph' # None => b.born # graph'.born
                               /\ build' # None => b.born # build'.born
                               /\ \A c \in backups' : b.born = c.born => b = c
    BY <2>1 DEF Inv, Stores, Births
  <2>. QED
    BY <2>1, <2>4, <2>5, <2>6, UserRest
<1>4. CASE InitGraph
  <2>1. Continues(graph')
    <3>1. CASE graph = None
      BY <1>4, <3>1, OpeningContinues DEF InitGraph, Opening
    <3>2. CASE graph # None
      BY <1>4, <3>2 DEF InitGraph, Continues, Inv, Disk, Stores, Present
    <3>. QED
      BY <3>1, <3>2
  <2>. QED
    BY <1>4, <2>1, WrittenKeeps DEF InitGraph, Done, Tell, observed, lock, hooks
<1>5. CASE SetPipeline
  <2>1. /\ UNCHANGED <<archives, graph, build, backups, served, clock>>
        /\ UNCHANGED <<pc, plan, builder, work, moved, uses>> /\ told = "config" /\ told' = None
    BY <1>5 DEF SetPipeline, Advised, Done, Tell, observed, bounds, lock, hooks
  <2>2. Advice' /\ Fits' /\ (AsksV2' => AsksV2)
    BY <1>0, <2>1 DEF Inv, Advice, Fits, Fit, AsksV2, Advices
  <2>. QED
    BY <2>1, <2>2, RestKeeps DEF Inv, Disk
<1>6. CASE UndoSwap
  <2>1. /\ told = "swapped" /\ builder = None /\ told' = None /\ config' = "v1"
        /\ graph # None /\ build = None /\ named \in backups
        /\ build' = graph /\ graph' = named /\ backups' = backups \ {named}
        /\ UNCHANGED <<archives, served, clock>>
        /\ UNCHANGED <<pc, plan, builder, work>>
    BY <1>6 DEF UndoSwap, Advised, Done, Tell, observed, bounds, lock
  <2>2. named \in Store /\ named # None /\ graph.stamp /\ graph \in Store
    BY <1>0, <2>1 DEF Inv, Disk, Advice
  <2>3. Present' = Present
    BY <2>1, <2>2 DEF Present
  <2>4. Shuffled
    BY <2>1, <2>2, <2>3 DEF Shuffled, Inv, Disk
  <2>5. Advice' /\ Fits'
    BY <1>0, <2>1, <2>2 DEF Advice, Fits, AsksV2, Advices
  <2>6. /\ graph' # None /\ build' # None => graph'.born # build'.born
        /\ \A b \in backups' : /\ graph' # None => b.born # graph'.born
                               /\ build' # None => b.born # build'.born
                               /\ \A c \in backups' : b.born = c.born => b = c
    BY <2>1 DEF Inv, Stores, Births
  <2>. QED
    BY <2>1, <2>4, <2>5, <2>6, UserRest
<1>. QED
  BY <1>1, <1>2, <1>3, <1>4, <1>5, <1>6 DEF User

---------------------------------------------------------------------------
(* What a swap carries over: the archives a rebuilt store was caught up to. *)

Swap == {"swapping", "halfway", "undoing"}
Shelved == ({graph} \cup backups) \ {None}
Excuses == {"none", "waiting", "done", "failed"}

\* A rebuilt store in its place or set aside is caught up unless it was passed
\* by; so is the build from the catch-up on, and while a message asks to finish.
Carried ==
  /\ \A st \in Shelved :
       Rebuilt(st) => st.born \in served /\ (st.born \notin outdated => Caught(st))
  /\ \A r \in Rebuilders : pc[r] \in Swap => Caught(build)
  /\ told = "half" /\ graph = None => Caught(build)

LEMMA CarriedStays ==
  ASSUME Carried, UNCHANGED <<archives, graph, backups, served, outdated, slipped, hook>>,
         \A r \in Rebuilders : pc'[r] \in Swap => Caught(build)',
         told' = "half" /\ graph' = None => Caught(build)'
  PROVE  Carried'
<1>1. \A st \in Shelved' : st \in Shelved /\ (Rebuilt(st)' <=> Rebuilt(st))
                             /\ (Caught(st)' <=> Caught(st))
  BY DEF Shelved, Rebuilt, Caught, Has
<1>2. \A st \in Shelved' :
        Rebuilt(st)' => st.born \in served' /\ (st.born \notin outdated' => Caught(st)')
  BY <1>1 DEF Carried
<1>. QED
  BY <1>2 DEF Carried, Rebuilt, Caught, Has

LEMMA NonePending ==
  ASSUME Inv, PendingLogs(build) = {}, build # None
  PROVE  Caught(build)
<1>1. \A l \in archives : Chunks[l] = 0 \/ Len(build.eps[l]) >= Chunks[l]
  BY DEF PendingLogs, Complete
<1>2. \A l \in archives : l \in Logs /\ Len(build.eps[l]) \in Nat
  BY DEF Inv, Disk, Store
<1>. QED
  BY <1>1, <1>2, ConstantsOK DEF Caught, Has

LEMMA WorksCarry ==
  ASSUME Inv, Carried, NEW r \in Rebuilders, Works(r)
  PROVE  Carried'
<1>1. UNCHANGED <<archives, graph, build, backups, served, outdated, slipped, hook, told>>
  <2>1. CASE Prepare(r) \/ TakeLock(r) \/ RemoveLock(r) \/ CatchUp(r) \/ PickLog(r)
    BY <2>1
    DEF Prepare, TakeLock, RemoveLock, CatchUp, PickLog, disk, message, observed, hooks
  <2>2. CASE Stop(r)
    BY <2>2 DEF Stop, disk, message, observed, hooks
  <2>3. CASE AttemptFails(r)
    BY <2>2, <2>3 DEF AttemptFails, disk, message, observed, hooks
  <2>4. CASE CannotMoveIn(r) \/ StoredAll(r)
    BY <2>4 DEF CannotMoveIn, StoredAll, disk, message, observed, hooks
  <2>5. CASE Crash(r) \/ JudgeDead(r)
    BY <2>5 DEF Crash, JudgeDead, disk, message, observed, hooks
  <2>. QED
    BY <2>1, <2>2, <2>3, <2>4, <2>5
    DEF Works, StoredNotAll, CannotMoveAside, CannotMoveBack, Failure, GiveUpOnLock,
        CannotOpen, BudgetSpent, ExtractFails, StopAt
<1>2. \/ \E p \in Places \ Swap : To(r, p)
      \/ PendingLogs(build) = {} /\ pc[r] = "picking" /\ To(r, "swapping")
      \/ pc[r] = "halfway" /\ To(r, "undoing")
      \/ UNCHANGED pc
  <2>0. {"idle", "planned", "judged", "locked", "picking", "storing", "extracting"}
          \subseteq Places \ Swap
    BY DEF Places, Swap, Opened
  <2>1. CASE Prepare(r) \/ TakeLock(r) \/ JudgeDead(r) \/ RemoveLock(r)
    BY <2>0, <2>1 DEF Prepare, TakeLock, JudgeDead, RemoveLock, To
  <2>2. CASE CatchUp(r) \/ PickLog(r) \/ StoredAll(r)
    BY <2>0, <2>2 DEF CatchUp, PickLog, StoredAll
  <2>3. CASE Stop(r) \/ Crash(r)
    BY <2>0, <2>3 DEF Stop, End, Crash, Leave
  <2>4. CASE AttemptFails(r)
    BY <2>0, <2>3, <2>4 DEF AttemptFails
  <2>5. CASE CannotMoveIn(r)
    BY <2>5 DEF CannotMoveIn
  <2>. QED
    BY <2>1, <2>2, <2>3, <2>4, <2>5
    DEF Works, StoredNotAll, CannotMoveAside, CannotMoveBack, Failure, GiveUpOnLock,
        CannotOpen, BudgetSpent, ExtractFails, StopAt
<1>3. pc[r] = "picking" => build # None
  BY DEF Inv, Hand, Staged, Building
<1>4. \A q \in Rebuilders : pc'[q] \in Swap => pc[q] \in Swap \/ Caught(build)
  BY <1>2, <1>3, NonePending DEF Inv, Control, To, Swap, Places
<1>5. Caught(build)' <=> Caught(build)
  BY <1>1 DEF Caught, Has
<1>. QED
  BY <1>1, <1>4, <1>5, CarriedStays DEF Carried

LEMMA SayCarries ==
  ASSUME Inv, Carried, NEW r \in Rebuilders, RefuseWithoutGraph(r) \/ RefuseUnstamped(r)
  PROVE  Carried'
<1>1. UNCHANGED <<archives, graph, build, backups, served, outdated, slipped, hook, pc>>
  BY DEF RefuseWithoutGraph, RefuseUnstamped, disk, observed, hooks
<1>2. told' = "half" => PendingLogs(build) = {} /\ build # None
  BY DEF RefuseWithoutGraph, RefuseUnstamped, Tell
<1>3. told' = "half" => Caught(build)
  BY <1>2, NonePending
<1>4. Caught(build)' <=> Caught(build)
  BY <1>1 DEF Caught, Has
<1>. QED
  BY <1>1, <1>3, <1>4, CarriedStays DEF Carried

\* The build holds at least the rows it held.
Longer(st, new) == \A l \in Logs : Len(new.eps[l]) >= Len(st.eps[l])

LEMMA RowsType ==
  ASSUME NEW st \in Store
  PROVE  st.eps \in [Logs -> Seq(Nat)] /\ \A l \in Logs : Len(st.eps[l]) \in Nat
BY DEF Store

LEMMA LongerCaught ==
  ASSUME NEW st \in Store, NEW new \in Store, Longer(st, new), Disk,
         UNCHANGED <<archives, hook, slipped>>, Caught(st)
  PROVE  \A l \in archives' \ slipped' :
           Len(new.eps[l]) >= Chunks[l] \/ hook'[l] \in {"waiting", "failed"}
<1>0. archives' = archives /\ hook' = hook /\ slipped' = slipped
  OBVIOUS
<1>1. SUFFICES ASSUME NEW l \in archives \ slipped, hook[l] \notin {"waiting", "failed"}
               PROVE  Len(new.eps[l]) >= Chunks[l]
  BY <1>0
<1>2. l \in Logs
  BY <1>1 DEF Disk
<1>3. Len(st.eps[l]) \in Nat /\ Len(new.eps[l]) \in Nat /\ Chunks[l] \in Nat
  BY <1>2, RowsType, ConstantsOK
<1>4. Len(st.eps[l]) >= Chunks[l]
  BY <1>1 DEF Caught, Has
<1>5. Len(new.eps[l]) >= Len(st.eps[l])
  BY <1>2 DEF Longer
<1>. QED
  BY <1>3, <1>4, <1>5

LEMMA BuildCarries ==
  ASSUME Inv, Carried, NEW r \in Rebuilders,
         OpenBuild(r) \/ StampBuild(r) \/ StoreChunk(r) \/ Extract(r) \/ Mark(r)
  PROVE  Carried'
<1>1. /\ UNCHANGED <<archives, graph, backups, served, outdated, slipped, hook, told>>
      /\ pc[r] \in Working \/ builder = None
      /\ \E p \in Places \ Swap : pc' = [pc EXCEPT ![r] = p]
  <2>0. {"opened", "picking", "storing", "marking"} \subseteq Places \ Swap
    BY DEF Places, Swap, Opened
  <2>1. CASE StoreChunk(r)
    BY <2>0, <2>1 DEF StoreChunk, message, observed, hooks, Working, Inv, Control
  <2>. QED
    BY <2>0, <2>1
    DEF OpenBuild, StampBuild, Extract, Mark, To, message, observed, hooks, Working
<1>2. \A q \in Rebuilders : pc'[q] \notin Swap
  BY <1>1, Alone DEF Inv, Control, Swap, Working
<1>3. build # None => build \in Store /\ build' \in Store /\ Longer(build, build')
  <2>1. SUFFICES ASSUME build # None
                 PROVE  build \in Store /\ build' \in Store /\ Longer(build, build')
    OBVIOUS
  <2>2. build \in Store /\ \A l \in Logs : Len(build.eps[l]) \in Nat
    BY <2>1 DEF Inv, Disk, Store
  <2>3. CASE OpenBuild(r)
    BY <2>1, <2>2, <2>3 DEF OpenBuild, Longer
  <2>4. CASE StampBuild(r)
    BY <2>2, <2>4, StampGrows DEF Longer, Grows
  <2>5. CASE Extract(r)
    BY <2>2, <2>5, ExtractGrows DEF Longer, Grows
  <2>6. CASE Mark(r)
    BY <2>2, <2>6, MarkGrows DEF Longer, Grows
  <2>7. CASE StoreChunk(r)
    <3>1. /\ Grows
          /\ \/ build'.eps = [build.eps EXCEPT ![log] = Append(@, at)]
             \/ build'.eps = build.eps
      BY <2>7, ChunkGrows
    <3>2. log \in Logs /\ at \in Nat /\ build.eps \in [Logs -> Seq(Nat)]
      BY <2>2, <2>7 DEF StoreChunk, Inv, Control, Store
    <3>3. build.eps[log] \in Seq(Nat) /\ Len(Append(build.eps[log], at)) = Len(build.eps[log]) + 1
      BY <3>2, AppendHas
    <3>4. ASSUME NEW l \in Logs PROVE Len(build'.eps[l]) >= Len(build.eps[l])
      <4>1. CASE build'.eps = [build.eps EXCEPT ![log] = Append(@, at)]
        BY <2>2, <3>2, <3>3, <4>1
      <4>2. CASE build'.eps = build.eps
        BY <2>2, <4>2
      <4>. QED
        BY <3>1, <4>1, <4>2
    <3>. QED
      BY <2>2, <3>1, <3>4 DEF Longer, Grows
  <2>. QED
    BY <2>3, <2>4, <2>5, <2>6, <2>7
<1>4. told' = "half" /\ graph' = None => Caught(build)'
  <2>1. SUFFICES ASSUME told = "half", graph = None PROVE Caught(build)'
    BY <1>1
  <2>2. build # None /\ Caught(build)
    BY <2>1 DEF Inv, Advice, Carried
  <2>. QED
    BY <1>1, <1>3, <2>2, LongerCaught DEF Caught, Has, Inv
<1>. QED
  BY <1>1, <1>2, <1>4, CarriedStays

LEMMA SwapCarries ==
  ASSUME Inv, Carried, NEW r \in Rebuilders,
         MoveAside(r) \/ MoveIn(r) \/ MoveBack(r) \/ RecordPipeline(r)
  PROVE  Carried'
<1>0. Control /\ Disk /\ Births /\ None \notin Store /\ None \notin Advices
  BY NoneIsNothing DEF Inv, Stores
<1>1. CASE MoveAside(r)
  <2>1. /\ pc[r] = "swapping" /\ graph # None /\ backups' = backups \cup {graph}
        /\ graph' = None /\ pc' = [pc EXCEPT ![r] = "halfway"]
        /\ UNCHANGED <<archives, build, served, outdated, slipped, hook, told>>
    BY <1>1 DEF MoveAside, WithBackup, To, message, hooks
  <2>2. Caught(build)'
    BY <2>1 DEF Carried, Swap, Caught, Has
  <2>3. Shelved' \subseteq Shelved
    BY <2>1 DEF Shelved
  <2>4. \A st \in Shelved :
          Rebuilt(st)' => st.born \in served' /\ (st.born \notin outdated' => Caught(st)')
    BY <2>1 DEF Carried, Rebuilt, Caught, Has
  <2>. QED
    BY <2>2, <2>3, <2>4 DEF Carried, Rebuilt, Caught, Has
<1>2. CASE MoveIn(r)
  <2>1. /\ pc[r] = "halfway" /\ graph = None /\ graph' = build /\ build' = None
        /\ served' = served \cup {build.born} /\ outdated' = outdated \ {build.born}
        /\ pc' = [pc EXCEPT ![r] = "recording"]
        /\ UNCHANGED <<archives, backups, hook, slipped>>
    BY <1>2 DEF MoveIn, Serve, To, hooks
  <2>2. build # None /\ Caught(build)
    BY <2>1 DEF Inv, Hand, Staged, Building, Carried, Swap
  <2>3. \A q \in Rebuilders : pc'[q] \notin Swap
    BY <1>0, <2>1, Alone DEF Control, Swap, Working
  <2>4. ASSUME NEW st \in Shelved', Rebuilt(st)'
        PROVE  st.born \in served' /\ (st.born \notin outdated' => Caught(st)')
    <3>1. CASE st = build
      BY <2>1, <2>2, <3>1 DEF Caught, Has
    <3>2. CASE st # build
      <4>1. st \in Shelved /\ st \in backups /\ Rebuilt(st)
        BY <2>1, <2>4, <3>2 DEF Shelved, Rebuilt
      <4>2. st.born # build.born
        BY <1>0, <2>2, <4>1 DEF Births
      <4>. QED
        BY <2>1, <4>1, <4>2 DEF Carried, Caught, Has
    <3>. QED
      BY <3>1, <3>2
  <2>5. graph' # None
    BY <2>1, <2>2
  <2>. QED
    BY <2>3, <2>4, <2>5 DEF Carried, Rebuilt, Caught, Has
<1>3. CASE MoveBack(r)
  <2>1. /\ pc[r] = "undoing" /\ graph = None /\ graph' = moved /\ backups' = backups \ {moved}
        /\ End(r) /\ UNCHANGED <<archives, build, told, hook, served, outdated, slipped>>
    BY <1>3 DEF MoveBack, message, observed, hooks
  <2>2. \A q \in Rebuilders : pc'[q] \notin Swap
    BY <1>0, <2>1, LeaveControl, Alone DEF End, Working, Swap
  <2>3. moved \in backups
    BY <2>1 DEF Inv, Hand, Staged
  <2>4. graph' # None /\ Shelved' \subseteq Shelved
    BY <1>0, <2>1, <2>3 DEF Shelved, Disk
  <2>5. \A st \in Shelved :
          Rebuilt(st)' => st.born \in served' /\ (st.born \notin outdated' => Caught(st)')
    BY <2>1 DEF Carried, Rebuilt, Caught, Has
  <2>. QED
    BY <2>2, <2>4, <2>5 DEF Carried, Rebuilt, Caught, Has
<1>4. CASE RecordPipeline(r)
  <2>1. /\ pc[r] = "recording" /\ End(r) /\ told' \in {"swapped", "config"}
        /\ UNCHANGED <<archives, graph, backups, build, hook, served, outdated, slipped>>
    BY <1>4 DEF RecordPipeline, Tell, observed, hooks
  <2>2. \A q \in Rebuilders : pc'[q] \notin Swap
    BY <1>0, <2>1, LeaveControl, Alone DEF End, Working, Swap
  <2>. QED
    BY <2>1, <2>2, CarriedStays
<1>. QED
  BY <1>1, <1>2, <1>3, <1>4

\* An archive that hooks leave or give up on is excused everywhere.
LEMMA HookCarries ==
  ASSUME Inv, Carried, NEW l \in Logs, Archive(l) \/ IngestGivesUp(l), hook \in [Logs -> Excuses]
  PROVE  Carried'
<1>1. /\ UNCHANGED <<graph, build, backups, served, outdated, slipped, told, pc>>
      /\ archives' \subseteq archives \cup {l} /\ archives' \subseteq Logs
      /\ \E w \in {"waiting", "failed"} : hook' = [hook EXCEPT ![l] = w]
  BY DEF Archive, IngestGivesUp, Inv, Disk, disk, message, observed
<1>2. ASSUME NEW st, Caught(st)
      PROVE  \A k \in archives' \ slipped' :
               Len(st.eps[k]) >= Chunks[k] \/ hook'[k] \in {"waiting", "failed"}
  BY <1>1, <1>2 DEF Caught, Has
<1>3. Caught(build) => Caught(build)'
  BY <1>1, <1>2 DEF Caught, Has
<1>4. ASSUME NEW st \in Shelved', Rebuilt(st)'
      PROVE  st.born \in served' /\ (st.born \notin outdated' => Caught(st)')
  BY <1>1, <1>2, <1>4 DEF Carried, Shelved, Rebuilt, Caught, Has
<1>. QED
  BY <1>1, <1>3, <1>4 DEF Carried, Rebuilt, Caught, Has

\* A store that had an archive has it after others were ingested, and one the
\* daemon uses has the archive it was given.
LEMMA GivenHas ==
  ASSUME Inv, NEW l \in Logs, NEW st \in Store
  PROVE  /\ \A k \in Logs : Len(st.eps[k]) >= Chunks[k] => Len(Given(st, l).eps[k]) >= Chunks[k]
         /\ st.born = uses => Len(Given(st, l).eps[l]) >= Chunks[l]
<1> DEFINE new == Given(st, l)
<1>1. /\ \A k \in Logs : k # l => new.eps[k] = st.eps[k]
      /\ st.born # uses => new = st
      /\ st.born = uses => new.eps[l] = st.eps[l] \o AllChunks(l)
  BY GivenType
<1>2. st.eps[l] \in Seq(Nat)
  BY DEF Store
<1>3. st.born = uses => Len(new.eps[l]) >= Chunks[l]
  BY <1>1, <1>2, AppendedHas
<1> HIDE DEF new
<1>4. ASSUME NEW k \in Logs, Len(st.eps[k]) >= Chunks[k] PROVE Len(new.eps[k]) >= Chunks[k]
  BY <1>1, <1>3, <1>4
<1>. QED
  BY <1>3, <1>4 DEF new

LEMMA IngestCarries ==
  ASSUME Inv, Carried, NEW l \in Logs, Ingest(l), hook \in [Logs -> Excuses]
  PROVE  Carried'
<1>1. /\ GivenAll(l) /\ archives' = archives /\ hook' = [hook EXCEPT ![l] = "done"]
      /\ UNCHANGED <<pc, told, served, uses>>
      /\ archives \subseteq Logs
  BY DEF Ingest, GivenAll, Inv, Disk
<1>2. graph \in Store \cup {None} /\ build \in Store \cup {None} /\ backups \subseteq Store
  BY DEF Inv, Disk
<1>3. \A st \in Store : /\ Given(st, l) \in Store /\ Given(st, l) # None /\ st # None
                        /\ Given(st, l).born = st.born /\ Given(st, l).kind = st.kind
  BY GivenType, NoneIsNothing
<1>4. /\ graph' = None <=> graph = None
      /\ build' = None <=> build = None
  BY <1>1, GivenPlaces
<1>5. ASSUME NEW new \in Shelved' PROVE \E st \in Shelved \cap Store : new = Given(st, l)
  BY <1>1, <1>2, <1>3, <1>4, <1>5 DEF Shelved, GivenAll
<1>6. ASSUME NEW st \in Store, Caught(st), NEW k \in archives \ slipped, k # l
      PROVE  Len(Given(st, l).eps[k]) >= Chunks[k] \/ hook'[k] \in {"waiting", "failed"}
  BY <1>1, <1>6, GivenHas DEF Caught, Has
<1>7. CASE slipped' = slipped \cup {l} /\ UNCHANGED outdated
  <2>1. ASSUME NEW st \in Store, Caught(st)
        PROVE  \A k \in archives' \ slipped' :
                 Len(Given(st, l).eps[k]) >= Chunks[k] \/ hook'[k] \in {"waiting", "failed"}
    BY <1>1, <1>6, <1>7, <2>1
  <2>2. ASSUME NEW new \in Shelved', Rebuilt(new)'
        PROVE  new.born \in served' /\ (new.born \notin outdated' => Caught(new)')
    <3>1. PICK st \in Shelved \cap Store : new = Given(st, l)
      BY <1>5
    <3>2. Rebuilt(st) /\ new.born = st.born
      BY <1>3, <2>2, <3>1 DEF Rebuilt
    <3>3. st.born \in served /\ (st.born \notin outdated => Caught(st))
      BY <3>1, <3>2 DEF Carried
    <3>. QED
      BY <1>1, <1>7, <2>1, <3>1, <3>2, <3>3 DEF Caught, Has
  <2>3. build # None /\ Caught(build) => Caught(build)'
    BY <1>1, <1>2, <2>1 DEF GivenAll, Caught, Has
  <2>4. ASSUME NEW r \in Rebuilders, pc'[r] \in Swap PROVE Caught(build)'
    <3>1. pc[r] \in Swap
      BY <1>1, <2>4
    <3>2. Caught(build)
      BY <3>1 DEF Carried
    <3>3. build # None
      BY <3>1 DEF Inv, Hand, Staged, Building, Swap
    <3>. QED
      BY <2>3, <3>2, <3>3
  <2>5. ASSUME told' = "half", graph' = None PROVE Caught(build)'
    <3>1. told = "half" /\ graph = None
      BY <1>1, <1>4, <2>5
    <3>2. Caught(build)
      BY <3>1 DEF Carried
    <3>3. build # None
      BY <3>1 DEF Inv, Advice
    <3>. QED
      BY <2>3, <3>2, <3>3
  <2>. QED
    BY <2>2, <2>4, <2>5 DEF Carried, Rebuilt, Caught, Has
<1>8. CASE /\ ~Swapping /\ graph # None /\ graph.born = uses
           /\ outdated' = outdated \cup (served \ {uses}) /\ UNCHANGED slipped
  <2>1. \A r \in Rebuilders : pc'[r] \notin Swap
    BY <1>1, <1>8 DEF Swapping, Swap
  <2>2. ASSUME NEW new \in Shelved', Rebuilt(new)'
        PROVE  new.born \in served' /\ (new.born \notin outdated' => Caught(new)')
    <3>1. PICK st \in Shelved \cap Store : new = Given(st, l)
      BY <1>5
    <3>2. Rebuilt(st) /\ new.born = st.born
      BY <1>3, <2>2, <3>1 DEF Rebuilt
    <3>3. st.born \in served /\ (st.born \notin outdated => Caught(st))
      BY <3>1, <3>2 DEF Carried
    <3>4. CASE st.born = uses
      <4>1. Len(new.eps[l]) >= Chunks[l]
        BY <3>1, <3>4, GivenHas
      <4>2. ASSUME Caught(st), NEW k \in archives' \ slipped'
            PROVE  Len(new.eps[k]) >= Chunks[k] \/ hook'[k] \in {"waiting", "failed"}
        BY <1>1, <1>6, <1>8, <3>1, <4>1, <4>2
      <4>. QED
        BY <1>1, <1>8, <3>2, <3>3, <4>2 DEF Caught, Has
    <3>5. CASE st.born # uses
      BY <1>1, <1>8, <3>2, <3>3, <3>5
    <3>. QED
      BY <3>4, <3>5
  <2>3. graph' # None
    BY <1>4, <1>8
  <2>. QED
    BY <2>1, <2>2, <2>3 DEF Carried, Rebuilt, Caught, Has
<1>. QED
  BY <1>7, <1>8 DEF Ingest

\* A start or an init opens graph/ and writes no row.
LEMMA OpeningCarries ==
  ASSUME Inv, Carried, graph' = Opening \/ (graph # None /\ graph' = graph),
         served \subseteq served',
         UNCHANGED <<archives, build, backups, outdated, slipped, hook, pc>>
  PROVE  Carried'
<1>1. graph' # None /\ (Rebuilt(graph)' => /\ graph # None /\ Rebuilt(graph)
                                            /\ graph'.born = graph.born /\ graph'.eps = graph.eps)
  <2>1. CASE graph = None
    BY <2>1, NewStoreType DEF Opening, Rebuilt, Inv, Disk
  <2>2. CASE graph # None
    BY <2>2, DaemonLogType DEF Opening, Rebuilt, Inv, Disk
  <2>. QED
    BY <2>1, <2>2
<1>2. ASSUME NEW b \in Shelved', Rebuilt(b)'
      PROVE  b.born \in served' /\ (b.born \notin outdated' => Caught(b)')
  <2>1. CASE b = graph'
    <3>1. graph \in Shelved /\ Rebuilt(graph) /\ b.born = graph.born /\ b.eps = graph.eps
      BY <1>1, <1>2, <2>1 DEF Shelved, Rebuilt
    <3>. QED
      BY <3>1 DEF Carried, Caught, Has
  <2>2. CASE b # graph'
    <3>1. b \in Shelved /\ Rebuilt(b)
      BY <1>2, <2>2 DEF Shelved, Rebuilt
    <3>. QED
      BY <3>1 DEF Carried, Caught, Has
  <2>. QED
    BY <2>1, <2>2
<1>3. \A q \in Rebuilders : pc'[q] \in Swap => Caught(build)'
  BY DEF Carried, Caught, Has
<1>. QED
  BY <1>1, <1>2, <1>3 DEF Carried, Rebuilt, Caught, Has

LEMMA DaemonCarries ==
  ASSUME Inv, Carried, DaemonStarts \/ DaemonPasses \/ DaemonOpens \/ DaemonEnds
  PROVE  Carried'
<1>1. CASE DaemonStarts \/ DaemonOpens
  <2>1. /\ graph' = Opening \/ (graph # None /\ graph' = graph)
        /\ served \subseteq served'
        /\ UNCHANGED <<archives, build, backups, outdated, slipped, hook, pc>>
    BY <1>1 DEF DaemonStarts, DaemonOpens, Opening, observed
  <2>. QED
    BY <2>1, OpeningCarries
<1>2. CASE DaemonPasses \/ DaemonEnds
  <2>1. UNCHANGED <<archives, graph, build, backups, served, outdated, slipped, hook, pc, told>>
    BY <1>2 DEF DaemonPasses, DaemonEnds, disk, message, observed
  <2>2. Caught(build)' <=> Caught(build)
    BY <2>1 DEF Caught, Has
  <2>. QED
    BY <2>1, <2>2, CarriedStays DEF Carried
<1>. QED
  BY <1>1, <1>2

LEMMA UserCarries ==
  ASSUME Inv, Carried, User
  PROVE  Carried'
<1>0. None \notin Store /\ None \notin Advices /\ Disk /\ Births
  BY NoneIsNothing DEF Inv, Stores
<1>1. UNCHANGED pc /\ \A q \in Rebuilders : pc'[q] \notin Swap
  <2>1. UNCHANGED pc /\ builder = None
    BY DEF User, RemoveBuild, FinishSwap, RollBackHalf, InitGraph, SetPipeline, UndoSwap, Advised
  <2>. QED
    BY <2>1, Alone DEF Inv, Swap, Working
<1>2. told' = None /\ UNCHANGED <<archives, hook, slipped>>
  BY DEF User, RemoveBuild, FinishSwap, RollBackHalf, InitGraph, SetPipeline, UndoSwap, Done,
         Tell, hooks, observed
<1>3. told' # "half"
  BY <1>0, <1>2 DEF Advices
<1>4. CASE RemoveBuild \/ SetPipeline
  <2>1. UNCHANGED <<graph, backups, served, outdated>>
    BY <1>4 DEF RemoveBuild, SetPipeline, observed
  <2>. QED
    BY <1>1, <1>2, <1>3, <2>1, CarriedStays
<1>5. CASE FinishSwap
  <2>1. /\ told = "half" /\ graph = None /\ build # None /\ graph' = build
        /\ served' = served \cup {build.born} /\ outdated' = outdated \ {build.born}
        /\ UNCHANGED backups
    BY <1>5 DEF FinishSwap, Advised, Serve
  <2>2. Caught(build)
    BY <2>1 DEF Carried
  <2>3. ASSUME NEW st \in Shelved', Rebuilt(st)'
        PROVE  st.born \in served' /\ (st.born \notin outdated' => Caught(st)')
    <3>1. CASE st = build
      BY <1>2, <2>1, <2>2, <3>1 DEF Caught, Has
    <3>2. CASE st # build
      <4>1. st \in Shelved /\ st \in backups /\ Rebuilt(st)
        BY <2>1, <2>3, <3>2 DEF Shelved, Rebuilt
      <4>2. st.born # build.born
        BY <1>0, <2>1, <4>1 DEF Births
      <4>. QED
        BY <1>2, <2>1, <4>1, <4>2 DEF Carried, Caught, Has
    <3>. QED
      BY <3>1, <3>2
  <2>. QED
    BY <1>1, <1>3, <2>3 DEF Carried, Rebuilt, Caught, Has
<1>6. CASE RollBackHalf \/ UndoSwap
  <2>1. /\ named \in backups /\ graph' = named /\ backups' = backups \ {named}
        /\ UNCHANGED <<served, outdated>>
    BY <1>6 DEF RollBackHalf, UndoSwap, observed
  <2>2. Shelved' \subseteq Shelved
    BY <1>0, <2>1 DEF Shelved, Disk
  <2>3. \A st \in Shelved :
          Rebuilt(st)' => st.born \in served' /\ (st.born \notin outdated' => Caught(st)')
    BY <1>2, <2>1 DEF Carried, Rebuilt, Caught, Has
  <2>. QED
    BY <1>1, <1>3, <2>2, <2>3 DEF Carried, Rebuilt, Caught, Has
<1>7. CASE InitGraph
  <2>1. /\ graph' = Opening \/ (graph # None /\ graph' = graph)
        /\ UNCHANGED <<archives, build, backups, served, outdated, slipped, hook, pc>>
    BY <1>7 DEF InitGraph, Opening, observed, hooks
  <2>2. graph' # None
    BY <2>1, OpeningContinues DEF Continues
  <2>. QED
    BY <2>1, OpeningCarries
<1>. QED
  BY <1>4, <1>5, <1>6, <1>7 DEF User

---------------------------------------------------------------------------
(* The remaining types. *)

Remaining ==
  /\ lockfile \in Rebuilders \cup {None} /\ builder \in Rebuilders \cup {None}
  /\ daemon \in {"off", "started", "checked", "serving"} /\ uses \in Nat \cup {None}
  /\ config \in {"v1", "v2"} /\ again \in BOOLEAN /\ moved \in Store \cup {None}
  /\ hook \in [Logs -> Excuses]
  /\ told \in Advices \cup {None} /\ named \in Store \cup {None}
  /\ outdated \subseteq served /\ slipped \subseteq Logs /\ aside \in Nat \cup {None}
  /\ swaps \in Nat /\ starts \in Nat /\ troubles \in Nat

\* No directory is dated after the present: one of any backups is the newest.
Dated == \A st \in Present : st.touched < clock

LEMMA NewestIsBackup ==
  ASSUME Disk, Dated, backups # {}
  PROVE  Newest \in backups
<1>1. clock \in Nat /\ \A b \in backups : b.touched \in Nat /\ b.touched < clock
  BY DEF Disk, Store, Dated, Present
<1> DEFINE S == {clock - b.touched : b \in backups}
<1>2. S \subseteq Nat /\ S # {}
  BY <1>1
<1>3. PICK x \in S : \A y \in S : ~(<<y, x>> \in OpToRel(<, Nat))
  BY <1>2, WFMin, NatLessThanWellFounded, Zenon
<1>4. ASSUME NEW y \in S PROVE ~(y < x)
  <2>1. <<y, x>> \in Nat \X Nat /\ <<y, x>>[1] = y /\ <<y, x>>[2] = x
    BY <1>2
  <2>. QED
    BY <1>3, <2>1, Zenon DEF OpToRel
<1>5. PICK b \in backups : x = clock - b.touched
  OBVIOUS
<1>6. ASSUME NEW c \in backups PROVE c.touched <= b.touched
  <2>1. ~(clock - c.touched < clock - b.touched)
    BY <1>4, <1>5
  <2>. QED
    BY <1>1, <2>1
<1>. QED
  BY <1>6, Zenon DEF Newest

LEMMA DatedStays ==
  ASSUME Disk, Dated, clock' = clock \/ clock' = clock + 1,
         \A st \in Present' : st \in Present \/ (st.touched = clock /\ clock' = clock + 1)
                                \/ \E old \in Present : st.touched = old.touched
  PROVE  Dated'
<1>1. clock \in Nat /\ \A st \in Present : st.touched \in Nat /\ st.touched < clock
  BY DEF Disk, Store, Dated, Present
<1>. QED
  BY <1>1 DEF Dated

\* The directories stay where they are, or the build alone is written.
LEMMA DatedMoves ==
  ASSUME Disk, Dated, UNCHANGED <<graph, build, backups, clock>>
  PROVE  Dated'
BY DEF Dated, Present

LEMMA DatedBuild ==
  ASSUME Disk, Dated, UNCHANGED <<graph, backups>>,
         \/ build # None /\ build'.touched = build.touched /\ clock' = clock
         \/ build'.touched = clock /\ clock' = clock + 1
  PROVE  Dated'
<1>1. \A st \in Present' : st \in Present \/ st = build'
  BY DEF Present
<1>. QED
  BY <1>1, DatedStays DEF Present

LEMMA OpeningTouched ==
  ASSUME Disk
  PROVE  /\ graph = None => Opening.touched = clock
         /\ graph # None => Opening.touched = clock \/ Opening.touched = graph.touched
<1>1. CASE graph = None
  BY <1>1 DEF Opening, NewStore
<1>2. CASE graph # None
  <2>1. graph \in Store
    BY <1>2 DEF Disk
  <2>2. CASE graph.log
    BY <1>2, <2>2 DEF Opening, WithDaemonLog
  <2>3. CASE ~graph.log
    BY <1>2, <2>1, <2>3 DEF Opening, WithDaemonLog, Store
  <2>. QED
    BY <1>2, <2>2, <2>3
<1>. QED
  BY <1>1, <1>2

LEMMA DatedGraph ==
  ASSUME Disk, Dated, UNCHANGED <<build, backups>>, clock' = clock + 1,
         \/ graph'.touched = Opening.touched
         \/ graph # None /\ graph' = graph
  PROVE  Dated'
<1>1. \A st \in Present' : st \in Present \/ st = graph'
  BY DEF Present
<1>2. graph'.touched = clock \/ (graph # None /\ graph'.touched = graph.touched)
  BY OpeningTouched
<1>. QED
  BY <1>1, <1>2, DatedStays DEF Present

LEMMA StepDated ==
  ASSUME Inv, Dated, NEW r \in Rebuilders, Start(r) \/ Step(r) \/ Failure(r)
  PROVE  Dated'
<1>0. Disk
  BY DEF Inv
<1>1. CASE Works(r) \/ RefuseWithoutGraph(r) \/ RefuseUnstamped(r) \/ RecordPipeline(r)
  <2>1. UNCHANGED <<graph, build, backups, clock>>
    <3>1. CASE Prepare(r) \/ TakeLock(r) \/ JudgeDead(r) \/ RemoveLock(r) \/ CatchUp(r)
               \/ PickLog(r) \/ StoredAll(r) \/ Crash(r) \/ RefuseWithoutGraph(r)
               \/ RefuseUnstamped(r) \/ RecordPipeline(r)
      BY <3>1
      DEF Prepare, TakeLock, JudgeDead, RemoveLock, CatchUp, PickLog, StoredAll, Crash,
          RefuseWithoutGraph, RefuseUnstamped, RecordPipeline, disk, bounds
    <3>2. CASE Stop(r)
      BY <3>2 DEF Stop, disk
    <3>3. CASE AttemptFails(r) \/ CannotMoveIn(r)
      BY <3>2, <3>3 DEF AttemptFails, CannotMoveIn, disk
    <3>. QED
      BY <1>1, <3>1, <3>2, <3>3
      DEF Works, StoredNotAll, CannotMoveAside, CannotMoveBack, Failure, GiveUpOnLock,
          CannotOpen, BudgetSpent, ExtractFails, StopAt
  <2>. QED
    BY <1>0, <2>1, DatedMoves
<1>2. CASE OpenBuild(r)
  <2>1. UNCHANGED <<graph, backups>>
    BY <1>2 DEF OpenBuild
  <2>2. CASE build = None
    BY <1>0, <1>2, <2>1, <2>2, DatedBuild DEF OpenBuild, NewStore
  <2>3. CASE build # None
    BY <1>0, <1>2, <2>1, <2>3, DatedMoves DEF OpenBuild
  <2>. QED
    BY <2>2, <2>3
<1>3. CASE StampBuild(r) \/ StoreChunk(r) \/ Extract(r) \/ Mark(r)
  <2>1. build # None /\ build \in Store
    BY <1>3 DEF StampBuild, StoreChunk, Extract, Mark, Inv, Disk, Hand, Staged, Building
  <2>2. UNCHANGED <<graph, backups, clock>>
    BY <1>3 DEF StampBuild, StoreChunk, Extract, Mark, bounds
  <2>3. build'.touched = build.touched
    <3>1. CASE StampBuild(r)
      BY <2>1, <3>1 DEF StampBuild, Store
    <3>2. CASE StoreChunk(r)
      BY <2>1, <3>2 DEF StoreChunk, Store
    <3>3. CASE Extract(r)
      BY <2>1, <3>3 DEF Extract, Store
    <3>4. CASE Mark(r)
      BY <2>1, <3>4 DEF Mark, Store
    <3>. QED
      BY <1>3, <3>1, <3>2, <3>3, <3>4
  <2>. QED
    BY <1>0, <2>1, <2>2, <2>3, DatedBuild
<1>4. CASE MoveAside(r) \/ MoveIn(r) \/ MoveBack(r)
  <2>1. Present' \subseteq Present /\ clock' = clock
    <3>1. CASE MoveAside(r)
      BY <3>1 DEF MoveAside, WithBackup, bounds, Present
    <3>2. CASE MoveIn(r)
      BY <3>2 DEF MoveIn, Present
    <3>3. CASE MoveBack(r)
      <4>1. moved \in backups
        BY <3>3 DEF MoveBack, Inv, Hand, Staged
      <4>. QED
        BY <3>3, <4>1 DEF MoveBack, bounds, Present
    <3>. QED
      BY <1>4, <3>1, <3>2, <3>3
  <2>. QED
    BY <1>0, <2>1, DatedStays
<1>. QED
  BY <1>1, <1>2, <1>3, <1>4 DEF Start, Step, Works

LEMMA OutsideDated ==
  ASSUME Inv, Dated, Others \/ User \/ UNCHANGED vars
  PROVE  Dated'
<1>0. Disk
  BY DEF Inv
<1>1. ASSUME NEW l \in Logs, Archive(l) \/ IngestGivesUp(l) PROVE Dated'
  BY <1>0, <1>1, DatedMoves DEF Archive, IngestGivesUp, disk, bounds
<1>2. ASSUME NEW l \in Logs, Ingest(l) PROVE Dated'
  <2>1. GivenAll(l) /\ clock' = clock
    BY <1>2 DEF Ingest, GivenAll, bounds
  <2>2. \A new \in Present' : \E st \in Present \cap Store : new = Given(st, l)
    BY <2>1, GivenPlaces
  <2>3. \A st \in Store : Given(st, l).touched = st.touched
    BY GivenType
  <2>. QED
    BY <1>0, <2>1, <2>2, <2>3, DatedStays
<1>3. CASE DaemonStarts
  BY <1>0, <1>3, DatedGraph DEF DaemonStarts, Opening
<1>7. CASE DaemonPasses \/ DaemonEnds
  BY <1>0, <1>7, DatedMoves DEF DaemonPasses, DaemonEnds, disk, bounds
<1>8. CASE DaemonOpens
  <2>1. CASE graph = None
    BY <1>0, <1>8, <2>1, DatedGraph DEF DaemonOpens, Opening
  <2>2. CASE graph # None
    BY <1>0, <1>8, <2>2, DatedMoves DEF DaemonOpens
  <2>. QED
    BY <2>1, <2>2
<1>4. CASE InitGraph
  BY <1>0, <1>4, DatedGraph DEF InitGraph, Opening, WithDaemonLog
<1>5. CASE RemoveBuild \/ FinishSwap \/ RollBackHalf \/ UndoSwap \/ SetPipeline
  <2>1. Present' \subseteq Present /\ clock' = clock
    BY <1>5 DEF RemoveBuild, FinishSwap, RollBackHalf, UndoSwap, SetPipeline, bounds, Present
  <2>. QED
    BY <1>0, <2>1, DatedStays
<1>6. CASE UNCHANGED vars
  BY <1>0, <1>6, DatedMoves DEF vars, disk, bounds
<1>. QED
  BY <1>1, <1>2, <1>3, <1>4, <1>5, <1>6, <1>7, <1>8 DEF Others, User

LEMMA LeaveRemaining ==
  ASSUME Remaining, NEW r \in Rebuilders, NEW file \in Rebuilders \cup {None}, Leave(r, file)
  PROVE  /\ moved' \in Store \cup {None} /\ again' \in BOOLEAN
         /\ lockfile' \in Rebuilders \cup {None} /\ builder' \in Rebuilders \cup {None}
BY DEF Remaining, Leave, work

LEMMA EndRemaining ==
  ASSUME Remaining, NEW r \in Rebuilders, End(r)
  PROVE  /\ moved' \in Store \cup {None} /\ again' \in BOOLEAN
         /\ lockfile' \in Rebuilders \cup {None} /\ builder' \in Rebuilders \cup {None}
BY LeaveRemaining DEF Remaining, End

LEMMA StepRemaining ==
  ASSUME Inv, Dated, Remaining, NEW r \in Rebuilders, Start(r) \/ Step(r) \/ Failure(r)
  PROVE  Remaining'
<1>0. Disk
  BY DEF Inv
<1>1. CASE RefuseWithoutGraph(r) \/ RefuseUnstamped(r)
  <2>1. told' \in Advices \cup {None} /\ named' \in Store \cup {None}
    BY <1>0, <1>1, NewestIsBackup
    DEF RefuseWithoutGraph, RefuseUnstamped, Tell, Advices, Disk
  <2>. QED
    BY <1>1, <2>1
    DEF RefuseWithoutGraph, RefuseUnstamped, Remaining, disk, work, observed, bounds, lock,
        hooks
<1>2. CASE Prepare(r) \/ TakeLock(r) \/ RemoveLock(r) \/ CatchUp(r) \/ PickLog(r)
           \/ StoredAll(r)
  BY <1>2
  DEF Prepare, TakeLock, RemoveLock, CatchUp, PickLog, StoredAll, StartArchive, Remaining,
      disk, work, message, observed, bounds, lock, hooks
<1>3. CASE Stop(r) /\ troubles' \in Nat
  BY <1>3, EndRemaining DEF Stop, Remaining, disk, message, observed, hooks
<1>4. CASE AttemptFails(r) /\ troubles' \in Nat
  BY <1>3, <1>4
  DEF AttemptFails, StartArchive, Remaining, disk, message, observed, lock, hooks
<1>5. Trouble("open") \/ NoTrouble => troubles' \in Nat
  BY DEF Trouble, NoTrouble, Remaining
<1>6. \A kind : Trouble(kind) => troubles' \in Nat
  BY DEF Trouble, Remaining
<1>15. CASE JudgeDead(r)
  BY <1>6, <1>15 DEF JudgeDead, Remaining, disk, work, message, observed, lock, hooks
<1>16. CASE Crash(r)
  <2>1. troubles' \in Nat
    BY <1>6, <1>16 DEF Crash
  <2>2. (IF lockfile = r THEN None ELSE lockfile) \in Rebuilders \cup {None}
    BY DEF Remaining
  <2>. QED
    BY <1>16, <2>1, <2>2, LeaveRemaining DEF Crash, Remaining, disk, message, observed, hooks
<1>7. CASE Failure(r) \/ StoredNotAll(r) \/ CannotMoveAside(r) \/ CannotMoveBack(r)
  BY <1>3, <1>4, <1>5, <1>6, <1>7, <1>15, <1>16
  DEF Failure, StoredNotAll, CannotMoveAside, CannotMoveBack, GiveUpOnLock, CannotOpen,
      BudgetSpent, ExtractFails, StopAt
<1>8. CASE CannotMoveIn(r)
  <2>1. troubles' \in Nat
    BY <1>5, <1>6, <1>8 DEF CannotMoveIn
  <2>. QED
    BY <1>8, <2>1 DEF CannotMoveIn, Remaining, disk, work, message, observed, lock, hooks
<1>9. CASE OpenBuild(r) \/ StampBuild(r) \/ Extract(r) \/ Mark(r)
  BY <1>9
  DEF OpenBuild, StampBuild, Extract, Mark, Remaining, work, message, observed, bounds,
      lock, hooks
<1>10. CASE StoreChunk(r)
  <2>1. troubles' \in Nat
    BY <1>5, <1>6, <1>10 DEF StoreChunk
  <2>. QED
    BY <1>10, <2>1 DEF StoreChunk, Remaining, message, observed, lock, hooks
<1>11. CASE MoveAside(r)
  <2>1. graph \in Store /\ graph.born \in Nat
    BY <1>0, <1>11 DEF MoveAside, Disk, Store
  <2>. QED
    BY <1>11, <2>1 DEF MoveAside, Remaining, work, message, bounds, lock, hooks
<1>12. CASE MoveIn(r)
  BY <1>12 DEF MoveIn, Serve, Remaining, work, message, lock, hooks
<1>13. CASE MoveBack(r)
  BY <1>13, EndRemaining DEF MoveBack, Remaining, message, observed, bounds, hooks
<1>14. CASE RecordPipeline(r)
  <2>1. troubles' \in Nat /\ told' \in Advices /\ named' = moved /\ config' \in {"v1", "v2"}
    BY <1>5, <1>6, <1>14 DEF RecordPipeline, Tell, Advices, Remaining
  <2>. QED
    BY <1>14, <2>1, EndRemaining DEF RecordPipeline, Remaining, observed, hooks
<1>. QED
  BY <1>1, <1>2, <1>7, <1>8, <1>9, <1>10, <1>11, <1>12, <1>13, <1>14 DEF Start, Step

LEMMA OutsideRemaining ==
  ASSUME Inv, Remaining, Others \/ User \/ UNCHANGED vars
  PROVE  Remaining'
<1>1. ASSUME NEW l \in Logs, Archive(l) \/ IngestGivesUp(l) PROVE Remaining'
  <2>1. hook' \in [Logs -> Excuses]
    BY <1>1 DEF Archive, IngestGivesUp, Remaining, Excuses
  <2>. QED
    BY <1>1, <2>1
    DEF Archive, IngestGivesUp, Remaining, disk, work, message, observed, bounds, lock
<1>2. ASSUME NEW l \in Logs, Ingest(l) PROVE Remaining'
  <2>1. hook' \in [Logs -> Excuses]
    BY <1>2 DEF Ingest, Remaining, Excuses
  <2>2. \A st \in Store \cup {None} : Given(st, l) \in Store \cup {None}
    <3>1. Given(None, l) = None
      BY DEF Given
    <3>. QED
      BY <3>1, GivenType
  <2>3. moved' \in Store \cup {None} /\ named' \in Store \cup {None}
    BY <1>2, <2>2 DEF Ingest, Remaining
  <2>4. slipped' \subseteq Logs /\ outdated' \subseteq served'
    BY <1>2 DEF Ingest, Remaining
  <2>. QED
    BY <1>2, <2>1, <2>3, <2>4 DEF Ingest, Remaining, work, lock, bounds
<1>3. CASE DaemonStarts
  BY <1>3 DEF DaemonStarts, Remaining, work, message, observed, lock
<1>6. CASE DaemonPasses \/ DaemonEnds
  BY <1>6
  DEF DaemonPasses, DaemonEnds, Remaining, disk, work, message, observed, bounds, lock
<1>7. CASE DaemonOpens
  <2>1. graph'.born \in Nat
    <3>1. CASE graph = None
      BY <1>7, <3>1, NewStoreType DEF DaemonOpens, Inv, Disk
    <3>2. CASE graph # None
      BY <1>7, <3>2 DEF DaemonOpens, Inv, Disk, Store
    <3>. QED
      BY <3>1, <3>2
  <2>. QED
    BY <1>7, <2>1 DEF DaemonOpens, Remaining, work, message, lock
<1>4. CASE User
  BY <1>4
  DEF User, RemoveBuild, FinishSwap, RollBackHalf, InitGraph, SetPipeline, UndoSwap, Serve,
      Done, Tell, Remaining, work, observed, bounds, lock, hooks
<1>5. CASE UNCHANGED vars
  BY <1>5 DEF vars, Remaining, disk, work, message, observed, bounds, lock, hooks
<1>. QED
  BY <1>1, <1>2, <1>3, <1>4, <1>5, <1>6, <1>7 DEF Others

\* A daemon that opens a store serves, and one that ends or is stopped does not.
LEMMA UseKeeps ==
  ASSUME Inv, Use, [Next]_vars
  PROVE  Use'
<1>1. CASE DaemonOpens
  <2>1. graph'.born \in Nat
    <3>1. CASE graph = None
      BY <1>1, <3>1, NewStoreType DEF DaemonOpens, Inv, Disk
    <3>2. CASE graph # None
      BY <1>1, <3>2 DEF DaemonOpens, Inv, Disk, Store
    <3>. QED
      BY <3>1, <3>2
  <2>. QED
    BY <1>1, <2>1, NoneIsNothing DEF DaemonOpens, Use
<1>2. CASE DaemonStarts \/ DaemonPasses \/ DaemonEnds
  BY <1>2 DEF DaemonStarts, DaemonPasses, DaemonEnds, Use
<1>3. ASSUME NEW l \in Logs, Archive(l) \/ Ingest(l) \/ IngestGivesUp(l) PROVE Use'
  BY <1>3 DEF Archive, Ingest, IngestGivesUp, Use
<1>4. CASE User \/ UNCHANGED vars
  BY <1>4
  DEF User, RemoveBuild, FinishSwap, RollBackHalf, InitGraph, SetPipeline, UndoSwap, vars,
      hooks, Use
<1>5. ASSUME NEW r \in Rebuilders, OpenBuild(r) PROVE Use'
  BY <1>5 DEF OpenBuild, Use
<1>6. ASSUME NEW r \in Rebuilders, Start(r) \/ Step(r) \/ Failure(r), ~OpenBuild(r)
      PROVE  Use'
  <2>1. UNCHANGED hooks
    BY <1>6
    DEF Start, Step, Failure, RefuseWithoutGraph, RefuseUnstamped, Prepare, TakeLock,
        RemoveLock, StampBuild, CatchUp, PickLog, StoreChunk, StoredAll, StoredNotAll,
        Extract, Mark, MoveAside, MoveIn, MoveBack, RecordPipeline, CannotMoveAside,
        CannotMoveIn, CannotMoveBack, JudgeDead, GiveUpOnLock, CannotOpen, BudgetSpent,
        ExtractFails, StopAt, Crash, AttemptFails, Stop
  <2>. QED
    BY <2>1 DEF hooks, Use
<1>. QED
  BY <1>1, <1>2, <1>3, <1>4, <1>5, <1>6 DEF Next, Others

---------------------------------------------------------------------------
(* The theorems. *)

LEMMA InitInv ==
  ASSUME Init
  PROVE  Inv /\ Use
<1>0. \A l \in Logs : AllChunks(l) \in Seq(Nat) /\ Len(AllChunks(l)) = Chunks[l]
                        /\ \A i \in 1..Chunks[l] : AllChunks(l)[i] = i
  BY AllChunksType
<1>1. graph = OriginalStore(Archived) /\ build = None /\ backups = {}
      /\ served = {0} /\ clock = 1 /\ told = None /\ config = "v1" /\ archives = Archived
  BY DEF Init
<1> DEFINE eps == [l \in Logs |-> IF l \in Archived THEN AllChunks(l) ELSE <<>>]
<1>2. eps \in [Logs -> Seq(Nat)]
  BY <1>0
<1>3. /\ graph.born = 0 /\ graph.eps = eps /\ graph.marked = {} /\ ~graph.stamp
      /\ graph \in Store /\ graph # None
  <2>1. graph = [born |-> 0, kind |-> "original", stamp |-> FALSE, eps |-> eps,
                 marked |-> {}, read |-> {}, log |-> FALSE, touched |-> 0, failed |-> {}]
    BY <1>1 DEF OriginalStore
  <2> HIDE DEF eps
  <2>2. graph \in Store
    BY <1>2, <2>1 DEF Store
  <2>. QED
    BY <2>1, <2>2, NoneIsNothing
<1>4. Whole(graph)
  <2>1. ASSUME NEW l \in Logs PROVE Prefix(graph, l)
    <3>1. CASE l \in Archived
      BY <1>0, <1>3, <3>1, ConstantsOK DEF Prefix
    <3>2. CASE l \notin Archived
      BY <1>3, <3>2, ConstantsOK DEF Prefix
    <3>. QED
      BY <3>1, <3>2
  <2>. QED
    BY <1>3, <2>1 DEF Whole
<1>5. Present = {graph}
  BY <1>1, <1>3 DEF Present
<1>6. Disk /\ Stores
  BY <1>1, <1>3, <1>4, <1>5, ConstantsOK DEF Disk, Stores, Births, StoresKept
<1>7. Advice /\ Fits
  BY <1>1, NoneIsNothing DEF Advice, Fits, AsksV2, Advices
<1>8. Control /\ \A q \in Rebuilders : pc[q] \notin Working
  BY ConstantsOK DEF Init, Control, Working, Places
<1>9. Use
  BY DEF Init, Use
<1>. QED
  BY <1>6, <1>7, <1>8, <1>9, AtRest DEF Inv

LEMMA StepKeeps ==
  ASSUME Inv, Use, NEW r \in Rebuilders, Start(r) \/ Step(r) \/ Failure(r)
  PROVE  Inv'
<1>1. CASE Works(r)
  BY <1>1, WorkKeeps
<1>2. CASE RefuseWithoutGraph(r) \/ RefuseUnstamped(r)
  BY <1>2, SayKeeps
<1>3. CASE OpenBuild(r) \/ StampBuild(r) \/ StoreChunk(r) \/ Extract(r) \/ Mark(r)
  BY <1>3, OpenKeeps, StampKeeps, ChunkKeeps, ExtractKeeps, MarkKeeps
<1>4. CASE MoveAside(r) \/ MoveIn(r) \/ MoveBack(r) \/ RecordPipeline(r)
  BY <1>4, AsideKeeps, InKeeps, BackKeeps, RecordKeeps
<1>. QED
  BY <1>1, <1>2, <1>3, <1>4 DEF Start, Step, Works

LEMMA StutterKeeps ==
  ASSUME Inv, UNCHANGED vars
  PROVE  Inv'
<1>1. /\ UNCHANGED <<archives, graph, build, backups, served, clock, config, told>>
      /\ UNCHANGED <<pc, plan, builder, work, moved, uses>>
  BY DEF vars, disk, message, observed, bounds, lock, hooks
<1>2. Advice' /\ Fits' /\ (AsksV2' => AsksV2)
  BY <1>1 DEF Inv, Advice, Fits, Fit, AsksV2
<1>. QED
  BY <1>1, <1>2, RestKeeps DEF Inv, Disk

\* The stores, the stages of a swap and the advice given agree, always.
THEOREM SwapInvariant == Spec => [](Inv /\ Use)
<1>1. Init => Inv /\ Use
  BY InitInv
<1>3. Inv /\ Use /\ [Next]_vars => Use'
  BY UseKeeps
<1>2. Inv /\ Use /\ [Next]_vars => Inv'
  <2>1. SUFFICES ASSUME Inv, Use, [Next]_vars PROVE Inv'
    OBVIOUS
  <2>2. CASE \E r \in Rebuilders : Start(r) \/ Step(r) \/ Failure(r)
    BY <2>1, <2>2, StepKeeps
  <2>3. CASE Others
    BY <2>1, <2>3, OthersKeep
  <2>4. CASE User
    BY <2>1, <2>4, UserKeeps
  <2>5. CASE UNCHANGED vars
    BY <2>1, <2>5, StutterKeeps
  <2>. QED
    BY <2>1, <2>2, <2>3, <2>4, <2>5 DEF Next
<1>. QED
  BY <1>1, <1>2, <1>3, PTL DEF Spec

\* A store that was graph/ is in the memory directory after every kill, failed
\* rename, rollback and removal the messages advise (rename_swapping,
\* unique_backup, removal_hint).
THEOREM ServedStoresStay == Spec => []StoresKept
<1>1. Inv => StoresKept
  BY DEF Inv, Stores
<1>. QED
  BY <1>1, SwapInvariant, PTL

\* A config that asks for v2 finds a stamped or a fresh graph/
\* (swap_and_record and the rollback lines).
THEOREM ConfigFitsStore == Spec => []PipelineAgrees
<1>1. Inv => PipelineAgrees
  BY DEF Inv, Fits, AsksV2, Fit, PipelineAgrees
<1>. QED
  BY <1>1, SwapInvariant, PTL

\* A finished log of a rebuilt store was extracted and has all its chunks,
\* unless one of them once failed (ensure_episodes, mark_extracted).
THEOREM FinishedLogsWhole == Spec => []FinishedIsWhole
<1>1. Inv => FinishedIsWhole
  <2>1. SUFFICES ASSUME Inv, NEW st \in Present, NEW l \in st.marked
                 PROVE  l \in st.read /\ (l \in st.failed \/ HasChunks(st, l))
    BY DEF FinishedIsWhole
  <2>2. l \in Logs
    BY <2>1 DEF Inv, Disk, Present, Store
  <2>. QED
    BY <2>1, <2>2 DEF Inv, Stores, Whole
<1>. QED
  BY <1>1, SwapInvariant, PTL

LEMMA InitCarried ==
  ASSUME Init
  PROVE  Carried /\ Remaining /\ Dated
<1>1. /\ graph = OriginalStore(Archived) /\ graph.kind = "original" /\ graph.touched = 0
      /\ build = None /\ backups = {} /\ clock = 1 /\ told = None
  BY DEF Init, OriginalStore
<1>2. Shelved \subseteq {graph} /\ Present \subseteq {graph} /\ ~Rebuilt(graph)
  BY <1>1 DEF Shelved, Present, Rebuilt
<1>3. \A r \in Rebuilders : pc[r] \notin Swap
  BY DEF Init, Swap
<1>4. Carried
  BY <1>1, <1>2, <1>3, NoneIsNothing DEF Carried, Advices
<1>5. Remaining
  BY DEF Init, Remaining, Excuses
<1>6. Dated
  BY <1>1, <1>2 DEF Dated
<1>. QED
  BY <1>4, <1>5, <1>6

\* What a swap carries over holds next to the invariant, whatever fails.
THEOREM CarriedInvariant == Spec => [](Carried /\ Remaining /\ Dated)
<1>1. Init => Carried /\ Remaining /\ Dated
  BY InitCarried
<1>2. Inv /\ Carried /\ Remaining /\ Dated /\ [Next]_vars => (Carried /\ Remaining /\ Dated)'
  <2>1. SUFFICES ASSUME Inv, Carried, Remaining, Dated, [Next]_vars
                 PROVE  Carried' /\ Remaining' /\ Dated'
    OBVIOUS
  <2>2. ASSUME NEW r \in Rebuilders, Start(r) \/ Step(r) \/ Failure(r)
        PROVE  Carried' /\ Remaining' /\ Dated'
    <3>1. Remaining' /\ Dated'
      BY <2>1, <2>2, StepRemaining, StepDated
    <3>2. Carried'
      BY <2>1, <2>2, WorksCarry, SayCarries, BuildCarries, SwapCarries DEF Start, Step, Works
    <3>. QED
      BY <3>1, <3>2
  <2>3. CASE Others
    <3>1. hook \in [Logs -> Excuses]
      BY <2>1 DEF Remaining
    <3>2. Carried'
      BY <2>1, <2>3, <3>1, HookCarries, IngestCarries, DaemonCarries DEF Others
    <3>. QED
      BY <2>1, <2>3, <3>2, OutsideRemaining, OutsideDated
  <2>4. CASE User
    BY <2>1, <2>4, UserCarries, OutsideRemaining, OutsideDated
  <2>5. CASE UNCHANGED vars
    <3>1. UNCHANGED <<archives, graph, build, backups, served, outdated, slipped, hook, pc, told>>
      BY <2>5 DEF vars, disk, message, observed, hooks
    <3>2. Caught(build)' <=> Caught(build)
      BY <3>1 DEF Caught, Has
    <3>3. Carried'
      BY <2>1, <3>1, <3>2, CarriedStays DEF Carried
    <3>. QED
      BY <2>1, <2>5, <3>3, OutsideRemaining, OutsideDated
  <2>. QED
    BY <2>1, <2>2, <2>3, <2>4, <2>5 DEF Next
<1>. QED
  BY <1>1, <1>2, SwapInvariant, PTL DEF Spec

\* No archive falls between the plan, the catch-up and the swap, whatever fails
\* and is undone on the way and whoever else has or loses the admin lock: a
\* rebuilt graph/ has it, or its hook still waits or has failed, or another
\* store was given it while the user had gone back to that, or a daemon
\* ingested it between the catch-up and the swap or into a directory that a
\* swap had set aside (drive_rebuild, rename_swapping, the advice that names a
\* half swap; start_daemon and open_store for the exception).
THEOREM ArchivesCarried == Spec => []NothingLeftBehind
<1>1. Carried => NothingLeftBehind
  BY DEF Carried, NothingLeftBehind, Shelved, Rebuilt
<1>. QED
  BY <1>1, CarriedInvariant, PTL

\* Types; whoever is at work on the build is alone with it, and a daemon's
\* store is known as long as it serves.
THEOREM SwapTypes == Spec => []TypeOK
<1>1. Inv /\ Use /\ Remaining => TypeOK
  <2>1. SUFFICES ASSUME Inv, Use, Remaining PROVE TypeOK
    OBVIOUS
  <2>2. \A r \in Rebuilders : pc[r] \notin Outside \cup {"locked"} <=> builder = r
    BY <2>1 DEF Inv, Control, Places, Working, Opened, Outside
  <2>. QED
    BY <2>1, <2>2 DEF TypeOK, Use, Inv, Disk, Control, Remaining, Excuses
<1>. QED
  BY <1>1, CarriedInvariant, SwapInvariant, PTL
=============================================================================
