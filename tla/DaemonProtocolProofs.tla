----------------------- MODULE DaemonProtocolProofs -----------------------
(***************************************************************************)
(* Proofs about DaemonProtocol, for every number of processes, every set   *)
(* of killable processes and every choice of time limits.                  *)
(***************************************************************************)
EXTENDS DaemonProtocol, TLAPS

\* The variables keep their types.
THEOREM TypeInvariant == Spec => []TypeOK
<1> USE ConstantsAssumption DEF Clients, Processes
<1> USE DEF TypeOK, DaemonStates, HotStates, AdminStates,
            files, daemonVars, wires, hotVars, adminVars,
            GoTo, AdminGoTo, DaemonGoTo
<1>1. Init => TypeOK
  BY DEF Init, Leftover, Roles
<1>2. TypeOK /\ [Next]_vars => TypeOK'
  <2> SUFFICES ASSUME TypeOK, [Next]_vars PROVE TypeOK'
    OBVIOUS
  <2>1. ASSUME NEW d \in Daemons, DaemonWaitAdmin(d) PROVE TypeOK'
    BY <2>1 DEF DaemonWaitAdmin
  <2>2. ASSUME NEW d \in Daemons, DaemonAdminTimeout(d) PROVE TypeOK'
    BY <2>2 DEF DaemonAdminTimeout, ProcessEnds
  <2>3. ASSUME NEW d \in Daemons, DaemonOpen(d) PROVE TypeOK'
    BY <2>3 DEF DaemonOpen
  <2>4. ASSUME NEW d \in Daemons, DaemonLockedByAdmin(d) PROVE TypeOK'
    BY <2>4 DEF DaemonLockedByAdmin
  <2>5. ASSUME NEW d \in Daemons, DaemonLocked(d) PROVE TypeOK'
    BY <2>5 DEF DaemonLocked, ProcessEnds
  <2>6. ASSUME NEW d \in Daemons, DaemonBind(d) PROVE TypeOK'
    BY <2>6 DEF DaemonBind, Listening
  <2>7. ASSUME NEW d \in Daemons, DaemonBindRefused(d) PROVE TypeOK'
    BY <2>7 DEF DaemonBindRefused, ProcessEnds
  <2>8. ASSUME NEW d \in Daemons, DaemonPublish(d) PROVE TypeOK'
    BY <2>8 DEF DaemonPublish
  <2>9. ASSUME NEW d \in Daemons, NEW x \in Clients, DaemonAccept(d, x) PROVE TypeOK'
    BY <2>9 DEF DaemonAccept
  <2>10. ASSUME NEW d \in Daemons, DaemonStopAccepting(d) PROVE TypeOK'
    BY <2>10 DEF DaemonStopAccepting, ListenerCloses
  <2>11. ASSUME NEW d \in Daemons, DaemonRelease(d) PROVE TypeOK'
    BY <2>11 DEF DaemonRelease
  <2>12. ASSUME NEW d \in Daemons, DaemonGiveUp(d) PROVE TypeOK'
    BY <2>12 DEF DaemonGiveUp
  <2>13. ASSUME NEW d \in Daemons, DaemonUnlink(d) PROVE TypeOK'
    BY <2>13 DEF DaemonUnlink
  <2>14. ASSUME NEW d \in Daemons, DaemonExit(d) PROVE TypeOK'
    BY <2>14 DEF DaemonExit, ProcessEnds
  <2>15. ASSUME NEW d \in Daemons, NEW c \in Hot, DaemonApply(d, c) PROVE TypeOK'
    BY <2>15 DEF DaemonApply
  <2>16. ASSUME NEW d \in Daemons, NEW c \in Hot, DaemonApplyLate(d, c) PROVE TypeOK'
    BY <2>16 DEF DaemonApplyLate
  <2>17. ASSUME NEW d \in Daemons, DaemonKilled(d) PROVE TypeOK'
    BY <2>17 DEF DaemonKilled, ProcessEnds
  <2>18. ASSUME NEW c \in Hot, HotConnect(c) PROVE TypeOK'
    BY <2>18 DEF HotConnect, Listening
  <2>19. ASSUME NEW c \in Hot, HotGiveUpConnecting(c) PROVE TypeOK'
    BY <2>19 DEF HotGiveUpConnecting
  <2>20. ASSUME NEW c \in Hot, HotUnlink(c) PROVE TypeOK'
    BY <2>20 DEF HotUnlink
  <2>21. ASSUME NEW c \in Hot, HotHello(c) PROVE TypeOK'
    BY <2>21 DEF HotHello
  <2>22. ASSUME NEW c \in Hot, HotHelloDisconnected(c) PROVE TypeOK'
    BY <2>22 DEF HotHelloDisconnected, HangUp
  <2>23. ASSUME NEW c \in Hot, HotHelloTimeout(c) PROVE TypeOK'
    BY <2>23 DEF HotHelloTimeout, HangUp
  <2>24. ASSUME NEW c \in Hot, HotAskOld(c) PROVE TypeOK'
    BY <2>24 DEF HotAskOld, HangUp
  <2>25. ASSUME NEW c \in Hot, HotSeesGone(c) PROVE TypeOK'
    BY <2>25 DEF HotSeesGone
  <2>26. ASSUME NEW c \in Hot, HotGoneUnlink(c) PROVE TypeOK'
    BY <2>26 DEF HotGoneUnlink
  <2>27. ASSUME NEW c \in Hot, HotGoneTimeout(c) PROVE TypeOK'
    BY <2>27 DEF HotGoneTimeout
  <2>28. ASSUME NEW c \in Hot, HotWaitAdmin(c) PROVE TypeOK'
    BY <2>28 DEF HotWaitAdmin
  <2>29. ASSUME NEW c \in Hot, HotAdminOverrun(c) PROVE TypeOK'
    BY <2>29 DEF HotAdminOverrun
  <2>30. ASSUME NEW c \in Hot, HotAdminTimeout(c) PROVE TypeOK'
    BY <2>30 DEF HotAdminTimeout
  <2>31. ASSUME NEW c \in Hot, HotTakeSpawnLock(c) PROVE TypeOK'
    BY <2>31 DEF HotTakeSpawnLock
  <2>32. ASSUME NEW c \in Hot, HotJudgeSpawnLock(c) PROVE TypeOK'
    BY <2>32 DEF HotJudgeSpawnLock
  <2>33. ASSUME NEW c \in Hot, HotBreakSpawnLock(c) PROVE TypeOK'
    BY <2>33 DEF HotBreakSpawnLock
  <2>34. ASSUME NEW c \in Hot, HotRetakeSpawnLock(c) PROVE TypeOK'
    BY <2>34 DEF HotRetakeSpawnLock
  <2>35. ASSUME NEW c \in Hot, HotSpawn(c) PROVE TypeOK'
    BY <2>35 DEF HotSpawn
  <2>36. ASSUME NEW c \in Hot, HotSpawnFails(c) PROVE TypeOK'
    BY <2>36 DEF HotSpawnFails
  <2>37. ASSUME NEW c \in Hot, HotSeesSocket(c) PROVE TypeOK'
    BY <2>37 DEF HotSeesSocket, StopStarting
  <2>38. ASSUME NEW c \in Hot, HotSeesNoSocket(c) PROVE TypeOK'
    BY <2>38 DEF HotSeesNoSocket
  <2>39. ASSUME NEW c \in Hot, HotCheckChild(c) PROVE TypeOK'
    BY <2>39 DEF HotCheckChild, StopStarting
  <2>40. ASSUME NEW c \in Hot, HotStartTimeout(c) PROVE TypeOK'
    BY <2>40 DEF HotStartTimeout, StopStarting
  <2>41. ASSUME NEW c \in Hot, HotReply(c) PROVE TypeOK'
    BY <2>41 DEF HotReply, HangUp
  <2>42. ASSUME NEW c \in Hot, HotDisconnected(c) PROVE TypeOK'
    <3>1. CASE c \in Retryable /\ ~retried[c]
      <4>1. /\ pc' = [pc EXCEPT ![c] = "connect"]
            /\ retried' = [retried EXCEPT ![c] = TRUE]
            /\ round' = [round EXCEPT ![c] = 0]
        BY <2>42, <3>1 DEF HotDisconnected
      <4>2. /\ pc' \in [Hot -> HotStates]
            /\ retried' \in [Hot -> BOOLEAN]
            /\ round' \in [Hot -> Nat]
        BY <4>1
      <4> QED
        BY <2>42, <4>2 DEF HotDisconnected, HangUp
    <3>2. CASE ~(c \in Retryable /\ ~retried[c])
      BY <2>42, <3>2 DEF HotDisconnected, HangUp
    <3> QED
      BY <3>1, <3>2
  <2>43. ASSUME NEW c \in Hot, HotCallTimeout(c) PROVE TypeOK'
    BY <2>43 DEF HotCallTimeout, Abandon
  <2>44. ASSUME NEW c \in Hot, HotKilled(c) PROVE TypeOK'
    BY <2>44 DEF HotKilled, Abandon, Ended
  <2>45. ASSUME NEW a \in Admins, AdminTakeLock(a) PROVE TypeOK'
    BY <2>45 DEF AdminTakeLock
  <2>46. ASSUME NEW a \in Admins, AdminJudgeLock(a) PROVE TypeOK'
    BY <2>46 DEF AdminJudgeLock
  <2>47. ASSUME NEW a \in Admins, AdminBreakLock(a) PROVE TypeOK'
    BY <2>47 DEF AdminBreakLock
  <2>48. ASSUME NEW a \in Admins, AdminLockTimeout(a) PROVE TypeOK'
    BY <2>48 DEF AdminLockTimeout
  <2>49. ASSUME NEW a \in Admins, AdminStop(a) PROVE TypeOK'
    BY <2>49 DEF AdminStop, OnError, Listening
  <2>50. ASSUME NEW a \in Admins, AdminStopUnlink(a) PROVE TypeOK'
    BY <2>50 DEF AdminStopUnlink, AfterStop, Roles
  <2>51. ASSUME NEW a \in Admins, AdminAskStop(a) PROVE TypeOK'
    BY <2>51 DEF AdminAskStop, HangUp
  <2>52. ASSUME NEW a \in Admins, AdminAskTimeout(a) PROVE TypeOK'
    BY <2>52 DEF AdminAskTimeout, HangUp, OnError
  <2>53. ASSUME NEW a \in Admins, AdminSeesGone(a) PROVE TypeOK'
    BY <2>53 DEF AdminSeesGone
  <2>54. ASSUME NEW a \in Admins, AdminGoneUnlink(a) PROVE TypeOK'
    BY <2>54 DEF AdminGoneUnlink
  <2>55. ASSUME NEW a \in Admins, AdminGoneTimeout(a) PROVE TypeOK'
    BY <2>55 DEF AdminGoneTimeout, OnError
  <2>56. ASSUME NEW a \in Admins, AdminOpen(a) PROVE TypeOK'
    BY <2>56 DEF AdminOpen
  <2>57. ASSUME NEW a \in Admins, AdminOperate(a) PROVE TypeOK'
    BY <2>57 DEF AdminOperate
  <2>58. ASSUME NEW a \in Admins, AdminBuild(a) PROVE TypeOK'
    BY <2>58 DEF AdminBuild
  <2>59. ASSUME NEW a \in Admins, AdminDropLock(a) PROVE TypeOK'
    BY <2>59 DEF AdminDropLock
  <2>60. ASSUME NEW a \in Admins, AdminKilled(a) PROVE TypeOK'
    BY <2>60 DEF AdminKilled, HangUp
  <2>61. CASE UNCHANGED vars
    BY <2>61 DEF vars
  <2>62. ASSUME SpawnLockAges PROVE TypeOK'
    BY <2>62 DEF SpawnLockAges
  <2> QED
    BY <2>1, <2>2, <2>3, <2>4, <2>5, <2>6, <2>7, <2>8, <2>9, <2>10, <2>11, <2>12, <2>13,
       <2>14, <2>15, <2>16, <2>17, <2>18, <2>19, <2>20, <2>21, <2>22, <2>23, <2>24,
       <2>25, <2>26, <2>27, <2>28, <2>29, <2>30, <2>31, <2>32, <2>33, <2>34, <2>35,
       <2>36, <2>37, <2>38, <2>39, <2>40, <2>41, <2>42, <2>43, <2>44, <2>45, <2>46,
       <2>47, <2>48, <2>49, <2>50, <2>51, <2>52, <2>53, <2>54, <2>55, <2>56, <2>57,
       <2>58, <2>59, <2>60, <2>61, <2>62 DEF Next, DaemonStep, HotStep, AdminStep
<1> QED
  BY <1>1, <1>2, PTL DEF Spec

-----------------------------------------------------------------------------
\* Whoever works with the open store holds its lock (or had its directory
\* renamed away), and the published socket is that of a serving daemon: no
\* connection task outlives the store it works on.
THEOREM StoreAlwaysHeld == Spec => [](StoreHeldWhileUsed /\ PublishedIsServing)
<1> DEFINE Inv == StoreHeldWhileUsed /\ PublishedIsServing
<1> USE ConstantsAssumption DEF Clients, Processes
<1> USE DEF StoreHeldWhileUsed, PublishedIsServing, HoldsStore, Listening,
            files, daemonVars, wires, hotVars, adminVars,
            GoTo, AdminGoTo, DaemonGoTo
<1>1. Init => Inv
  BY DEF Init, Leftover
<1>2. TypeOK /\ Inv /\ [Next]_vars => Inv'
  <2> SUFFICES ASSUME TypeOK, Inv, [Next]_vars PROVE Inv'
    OBVIOUS
  <2> USE DEF TypeOK
  <2>1. ASSUME NEW d \in Daemons, DaemonWaitAdmin(d) PROVE Inv'
    BY <2>1 DEF DaemonWaitAdmin
  <2>2. ASSUME NEW d \in Daemons, DaemonAdminTimeout(d) PROVE Inv'
    BY <2>2 DEF DaemonAdminTimeout, ProcessEnds
  <2>3. ASSUME NEW d \in Daemons, DaemonOpen(d) PROVE Inv'
    BY <2>3 DEF DaemonOpen
  <2>4. ASSUME NEW d \in Daemons, DaemonLockedByAdmin(d) PROVE Inv'
    BY <2>4 DEF DaemonLockedByAdmin
  <2>5. ASSUME NEW d \in Daemons, DaemonLocked(d) PROVE Inv'
    BY <2>5 DEF DaemonLocked, ProcessEnds
  <2>6. ASSUME NEW d \in Daemons, DaemonBind(d) PROVE Inv'
    BY <2>6 DEF DaemonBind, Listening
  <2>7. ASSUME NEW d \in Daemons, DaemonBindRefused(d) PROVE Inv'
    BY <2>7 DEF DaemonBindRefused, ProcessEnds
  <2>8. ASSUME NEW d \in Daemons, DaemonPublish(d) PROVE Inv'
    BY <2>8 DEF DaemonPublish
  <2>9. ASSUME NEW d \in Daemons, NEW x \in Clients, DaemonAccept(d, x) PROVE Inv'
    BY <2>9 DEF DaemonAccept
  <2>10. ASSUME NEW d \in Daemons, DaemonStopAccepting(d) PROVE Inv'
    BY <2>10 DEF DaemonStopAccepting, ListenerCloses
  <2>11. ASSUME NEW d \in Daemons, DaemonRelease(d) PROVE Inv'
    BY <2>11 DEF DaemonRelease
  <2>12. ASSUME NEW d \in Daemons, DaemonGiveUp(d) PROVE Inv'
    BY <2>12 DEF DaemonGiveUp
  <2>13. ASSUME NEW d \in Daemons, DaemonUnlink(d) PROVE Inv'
    BY <2>13 DEF DaemonUnlink
  <2>14. ASSUME NEW d \in Daemons, DaemonExit(d) PROVE Inv'
    BY <2>14 DEF DaemonExit, ProcessEnds
  <2>15. ASSUME NEW d \in Daemons, NEW c \in Hot, DaemonApply(d, c) PROVE Inv'
    BY <2>15 DEF DaemonApply
  <2>16. ASSUME NEW d \in Daemons, NEW c \in Hot, DaemonApplyLate(d, c) PROVE Inv'
    BY <2>16 DEF DaemonApplyLate
  <2>17. ASSUME NEW d \in Daemons, DaemonKilled(d) PROVE Inv'
    BY <2>17 DEF DaemonKilled, ProcessEnds
  <2>18. ASSUME NEW c \in Hot, HotConnect(c) PROVE Inv'
    BY <2>18 DEF HotConnect, Listening
  <2>19. ASSUME NEW c \in Hot, HotGiveUpConnecting(c) PROVE Inv'
    BY <2>19 DEF HotGiveUpConnecting
  <2>20. ASSUME NEW c \in Hot, HotUnlink(c) PROVE Inv'
    BY <2>20 DEF HotUnlink
  <2>21. ASSUME NEW c \in Hot, HotHello(c) PROVE Inv'
    BY <2>21 DEF HotHello
  <2>22. ASSUME NEW c \in Hot, HotHelloDisconnected(c) PROVE Inv'
    BY <2>22 DEF HotHelloDisconnected, HangUp
  <2>23. ASSUME NEW c \in Hot, HotHelloTimeout(c) PROVE Inv'
    BY <2>23 DEF HotHelloTimeout, HangUp
  <2>24. ASSUME NEW c \in Hot, HotAskOld(c) PROVE Inv'
    BY <2>24 DEF HotAskOld, HangUp
  <2>25. ASSUME NEW c \in Hot, HotSeesGone(c) PROVE Inv'
    BY <2>25 DEF HotSeesGone
  <2>26. ASSUME NEW c \in Hot, HotGoneUnlink(c) PROVE Inv'
    BY <2>26 DEF HotGoneUnlink
  <2>27. ASSUME NEW c \in Hot, HotGoneTimeout(c) PROVE Inv'
    BY <2>27 DEF HotGoneTimeout
  <2>28. ASSUME NEW c \in Hot, HotWaitAdmin(c) PROVE Inv'
    BY <2>28 DEF HotWaitAdmin
  <2>29. ASSUME NEW c \in Hot, HotAdminOverrun(c) PROVE Inv'
    BY <2>29 DEF HotAdminOverrun
  <2>30. ASSUME NEW c \in Hot, HotAdminTimeout(c) PROVE Inv'
    BY <2>30 DEF HotAdminTimeout
  <2>31. ASSUME NEW c \in Hot, HotTakeSpawnLock(c) PROVE Inv'
    BY <2>31 DEF HotTakeSpawnLock
  <2>32. ASSUME NEW c \in Hot, HotJudgeSpawnLock(c) PROVE Inv'
    BY <2>32 DEF HotJudgeSpawnLock
  <2>33. ASSUME NEW c \in Hot, HotBreakSpawnLock(c) PROVE Inv'
    BY <2>33 DEF HotBreakSpawnLock
  <2>34. ASSUME NEW c \in Hot, HotRetakeSpawnLock(c) PROVE Inv'
    BY <2>34 DEF HotRetakeSpawnLock
  <2>35. ASSUME NEW c \in Hot, HotSpawn(c) PROVE Inv'
    BY <2>35 DEF HotSpawn
  <2>36. ASSUME NEW c \in Hot, HotSpawnFails(c) PROVE Inv'
    BY <2>36 DEF HotSpawnFails
  <2>37. ASSUME NEW c \in Hot, HotSeesSocket(c) PROVE Inv'
    BY <2>37 DEF HotSeesSocket, StopStarting
  <2>38. ASSUME NEW c \in Hot, HotSeesNoSocket(c) PROVE Inv'
    BY <2>38 DEF HotSeesNoSocket
  <2>39. ASSUME NEW c \in Hot, HotCheckChild(c) PROVE Inv'
    BY <2>39 DEF HotCheckChild, StopStarting
  <2>40. ASSUME NEW c \in Hot, HotStartTimeout(c) PROVE Inv'
    BY <2>40 DEF HotStartTimeout, StopStarting
  <2>41. ASSUME NEW c \in Hot, HotReply(c) PROVE Inv'
    BY <2>41 DEF HotReply, HangUp
  <2>42. ASSUME NEW c \in Hot, HotDisconnected(c) PROVE Inv'
    BY <2>42 DEF HotDisconnected, HangUp
  <2>43. ASSUME NEW c \in Hot, HotCallTimeout(c) PROVE Inv'
    BY <2>43 DEF HotCallTimeout, Abandon
  <2>44. ASSUME NEW c \in Hot, HotKilled(c) PROVE Inv'
    BY <2>44 DEF HotKilled, Abandon, Ended
  <2>45. ASSUME NEW a \in Admins, AdminTakeLock(a) PROVE Inv'
    BY <2>45 DEF AdminTakeLock
  <2>46. ASSUME NEW a \in Admins, AdminJudgeLock(a) PROVE Inv'
    BY <2>46 DEF AdminJudgeLock
  <2>47. ASSUME NEW a \in Admins, AdminBreakLock(a) PROVE Inv'
    BY <2>47 DEF AdminBreakLock
  <2>48. ASSUME NEW a \in Admins, AdminLockTimeout(a) PROVE Inv'
    BY <2>48 DEF AdminLockTimeout
  <2>49. ASSUME NEW a \in Admins, AdminStop(a) PROVE Inv'
    BY <2>49 DEF AdminStop, OnError, Listening
  <2>50. ASSUME NEW a \in Admins, AdminStopUnlink(a) PROVE Inv'
    BY <2>50 DEF AdminStopUnlink, AfterStop, Roles
  <2>51. ASSUME NEW a \in Admins, AdminAskStop(a) PROVE Inv'
    BY <2>51 DEF AdminAskStop, HangUp
  <2>52. ASSUME NEW a \in Admins, AdminAskTimeout(a) PROVE Inv'
    BY <2>52 DEF AdminAskTimeout, HangUp, OnError
  <2>53. ASSUME NEW a \in Admins, AdminSeesGone(a) PROVE Inv'
    BY <2>53 DEF AdminSeesGone
  <2>54. ASSUME NEW a \in Admins, AdminGoneUnlink(a) PROVE Inv'
    BY <2>54 DEF AdminGoneUnlink
  <2>55. ASSUME NEW a \in Admins, AdminGoneTimeout(a) PROVE Inv'
    BY <2>55 DEF AdminGoneTimeout, OnError
  <2>56. ASSUME NEW a \in Admins, AdminOpen(a) PROVE Inv'
    BY <2>56 DEF AdminOpen
  <2>57. ASSUME NEW a \in Admins, AdminOperate(a) PROVE Inv'
    BY <2>57 DEF AdminOperate
  <2>58. ASSUME NEW a \in Admins, AdminBuild(a) PROVE Inv'
    BY <2>58 DEF AdminBuild
  <2>59. ASSUME NEW a \in Admins, AdminDropLock(a) PROVE Inv'
    BY <2>59 DEF AdminDropLock
  <2>60. ASSUME NEW a \in Admins, AdminKilled(a) PROVE Inv'
    BY <2>60 DEF AdminKilled, HangUp
  <2>61. CASE UNCHANGED vars
    BY <2>61 DEF vars
  <2>62. ASSUME SpawnLockAges PROVE Inv'
    BY <2>62 DEF SpawnLockAges
  <2> QED
    BY <2>1, <2>2, <2>3, <2>4, <2>5, <2>6, <2>7, <2>8, <2>9, <2>10, <2>11, <2>12, <2>13,
       <2>14, <2>15, <2>16, <2>17, <2>18, <2>19, <2>20, <2>21, <2>22, <2>23, <2>24,
       <2>25, <2>26, <2>27, <2>28, <2>29, <2>30, <2>31, <2>32, <2>33, <2>34, <2>35,
       <2>36, <2>37, <2>38, <2>39, <2>40, <2>41, <2>42, <2>43, <2>44, <2>45, <2>46,
       <2>47, <2>48, <2>49, <2>50, <2>51, <2>52, <2>53, <2>54, <2>55, <2>56, <2>57,
       <2>58, <2>59, <2>60, <2>61, <2>62 DEF Next, DaemonStep, HotStep, AdminStep
<1> QED
  BY <1>1, <1>2, TypeInvariant, PTL DEF Spec

\* A published socket leads to a daemon that accepts and owns the store
\* (run() in serve.rs unlinks the socket before it lets the store go).
THEOREM PublishedSocketServes == Spec => []PublishedIsServing
BY StoreAlwaysHeld, PTL

-----------------------------------------------------------------------------
\* A request that must not be repeated takes effect at most once, and nothing is
\* reported as done that did not take effect.
THEOREM EffectsAreCounted == Spec => [](EffectsCounted /\ NeverRepeated)
<1> USE ConstantsAssumption DEF Clients, Processes
<1> USE DEF EffectsCounted, files, daemonVars, wires, hotVars, adminVars,
            GoTo, AdminGoTo, DaemonGoTo
<1>1. Init => EffectsCounted
  BY DEF Init
<1>2. TypeOK /\ EffectsCounted /\ [Next]_vars => EffectsCounted'
  <2> SUFFICES ASSUME TypeOK, EffectsCounted, [Next]_vars PROVE EffectsCounted'
    OBVIOUS
  <2> USE DEF TypeOK
  <2>1. ASSUME NEW d \in Daemons, DaemonWaitAdmin(d) PROVE EffectsCounted'
    BY <2>1 DEF DaemonWaitAdmin
  <2>2. ASSUME NEW d \in Daemons, DaemonAdminTimeout(d) PROVE EffectsCounted'
    BY <2>2 DEF DaemonAdminTimeout, ProcessEnds
  <2>3. ASSUME NEW d \in Daemons, DaemonOpen(d) PROVE EffectsCounted'
    BY <2>3 DEF DaemonOpen
  <2>4. ASSUME NEW d \in Daemons, DaemonLockedByAdmin(d) PROVE EffectsCounted'
    BY <2>4 DEF DaemonLockedByAdmin
  <2>5. ASSUME NEW d \in Daemons, DaemonLocked(d) PROVE EffectsCounted'
    BY <2>5 DEF DaemonLocked, ProcessEnds
  <2>6. ASSUME NEW d \in Daemons, DaemonBind(d) PROVE EffectsCounted'
    BY <2>6 DEF DaemonBind, Listening
  <2>7. ASSUME NEW d \in Daemons, DaemonBindRefused(d) PROVE EffectsCounted'
    BY <2>7 DEF DaemonBindRefused, ProcessEnds
  <2>8. ASSUME NEW d \in Daemons, DaemonPublish(d) PROVE EffectsCounted'
    BY <2>8 DEF DaemonPublish
  <2>9. ASSUME NEW d \in Daemons, NEW x \in Clients, DaemonAccept(d, x) PROVE EffectsCounted'
    BY <2>9 DEF DaemonAccept
  <2>10. ASSUME NEW d \in Daemons, DaemonStopAccepting(d) PROVE EffectsCounted'
    BY <2>10 DEF DaemonStopAccepting, ListenerCloses
  <2>11. ASSUME NEW d \in Daemons, DaemonRelease(d) PROVE EffectsCounted'
    BY <2>11 DEF DaemonRelease
  <2>12. ASSUME NEW d \in Daemons, DaemonGiveUp(d) PROVE EffectsCounted'
    BY <2>12 DEF DaemonGiveUp
  <2>13. ASSUME NEW d \in Daemons, DaemonUnlink(d) PROVE EffectsCounted'
    BY <2>13 DEF DaemonUnlink
  <2>14. ASSUME NEW d \in Daemons, DaemonExit(d) PROVE EffectsCounted'
    BY <2>14 DEF DaemonExit, ProcessEnds
  <2>15. ASSUME NEW d \in Daemons, NEW c \in Hot, DaemonApply(d, c) PROVE EffectsCounted'
    BY <2>15 DEF DaemonApply
  <2>16. ASSUME NEW d \in Daemons, NEW c \in Hot, DaemonApplyLate(d, c) PROVE EffectsCounted'
    BY <2>16 DEF DaemonApplyLate
  <2>17. ASSUME NEW d \in Daemons, DaemonKilled(d) PROVE EffectsCounted'
    BY <2>17 DEF DaemonKilled, ProcessEnds
  <2>18. ASSUME NEW c \in Hot, HotConnect(c) PROVE EffectsCounted'
    BY <2>18 DEF HotConnect, Listening
  <2>19. ASSUME NEW c \in Hot, HotGiveUpConnecting(c) PROVE EffectsCounted'
    BY <2>19 DEF HotGiveUpConnecting
  <2>20. ASSUME NEW c \in Hot, HotUnlink(c) PROVE EffectsCounted'
    BY <2>20 DEF HotUnlink
  <2>21. ASSUME NEW c \in Hot, HotHello(c) PROVE EffectsCounted'
    BY <2>21 DEF HotHello
  <2>22. ASSUME NEW c \in Hot, HotHelloDisconnected(c) PROVE EffectsCounted'
    BY <2>22 DEF HotHelloDisconnected, HangUp
  <2>23. ASSUME NEW c \in Hot, HotHelloTimeout(c) PROVE EffectsCounted'
    BY <2>23 DEF HotHelloTimeout, HangUp
  <2>24. ASSUME NEW c \in Hot, HotAskOld(c) PROVE EffectsCounted'
    BY <2>24 DEF HotAskOld, HangUp
  <2>25. ASSUME NEW c \in Hot, HotSeesGone(c) PROVE EffectsCounted'
    BY <2>25 DEF HotSeesGone
  <2>26. ASSUME NEW c \in Hot, HotGoneUnlink(c) PROVE EffectsCounted'
    BY <2>26 DEF HotGoneUnlink
  <2>27. ASSUME NEW c \in Hot, HotGoneTimeout(c) PROVE EffectsCounted'
    BY <2>27 DEF HotGoneTimeout
  <2>28. ASSUME NEW c \in Hot, HotWaitAdmin(c) PROVE EffectsCounted'
    BY <2>28 DEF HotWaitAdmin
  <2>29. ASSUME NEW c \in Hot, HotAdminOverrun(c) PROVE EffectsCounted'
    BY <2>29 DEF HotAdminOverrun
  <2>30. ASSUME NEW c \in Hot, HotAdminTimeout(c) PROVE EffectsCounted'
    BY <2>30 DEF HotAdminTimeout
  <2>31. ASSUME NEW c \in Hot, HotTakeSpawnLock(c) PROVE EffectsCounted'
    BY <2>31 DEF HotTakeSpawnLock
  <2>32. ASSUME NEW c \in Hot, HotJudgeSpawnLock(c) PROVE EffectsCounted'
    BY <2>32 DEF HotJudgeSpawnLock
  <2>33. ASSUME NEW c \in Hot, HotBreakSpawnLock(c) PROVE EffectsCounted'
    BY <2>33 DEF HotBreakSpawnLock
  <2>34. ASSUME NEW c \in Hot, HotRetakeSpawnLock(c) PROVE EffectsCounted'
    BY <2>34 DEF HotRetakeSpawnLock
  <2>35. ASSUME NEW c \in Hot, HotSpawn(c) PROVE EffectsCounted'
    BY <2>35 DEF HotSpawn
  <2>36. ASSUME NEW c \in Hot, HotSpawnFails(c) PROVE EffectsCounted'
    BY <2>36 DEF HotSpawnFails
  <2>37. ASSUME NEW c \in Hot, HotSeesSocket(c) PROVE EffectsCounted'
    BY <2>37 DEF HotSeesSocket, StopStarting
  <2>38. ASSUME NEW c \in Hot, HotSeesNoSocket(c) PROVE EffectsCounted'
    BY <2>38 DEF HotSeesNoSocket
  <2>39. ASSUME NEW c \in Hot, HotCheckChild(c) PROVE EffectsCounted'
    BY <2>39 DEF HotCheckChild, StopStarting
  <2>40. ASSUME NEW c \in Hot, HotStartTimeout(c) PROVE EffectsCounted'
    BY <2>40 DEF HotStartTimeout, StopStarting
  <2>41. ASSUME NEW c \in Hot, HotReply(c) PROVE EffectsCounted'
    BY <2>41 DEF HotReply, HangUp
  <2>42. ASSUME NEW c \in Hot, HotDisconnected(c) PROVE EffectsCounted'
    BY <2>42 DEF HotDisconnected, HangUp
  <2>43. ASSUME NEW c \in Hot, HotCallTimeout(c) PROVE EffectsCounted'
    BY <2>43 DEF HotCallTimeout, Abandon
  <2>44. ASSUME NEW c \in Hot, HotKilled(c) PROVE EffectsCounted'
    BY <2>44 DEF HotKilled, Abandon, Ended
  <2>45. ASSUME NEW a \in Admins, AdminTakeLock(a) PROVE EffectsCounted'
    BY <2>45 DEF AdminTakeLock
  <2>46. ASSUME NEW a \in Admins, AdminJudgeLock(a) PROVE EffectsCounted'
    BY <2>46 DEF AdminJudgeLock
  <2>47. ASSUME NEW a \in Admins, AdminBreakLock(a) PROVE EffectsCounted'
    BY <2>47 DEF AdminBreakLock
  <2>48. ASSUME NEW a \in Admins, AdminLockTimeout(a) PROVE EffectsCounted'
    BY <2>48 DEF AdminLockTimeout
  <2>49. ASSUME NEW a \in Admins, AdminStop(a) PROVE EffectsCounted'
    BY <2>49 DEF AdminStop, OnError, Listening
  <2>50. ASSUME NEW a \in Admins, AdminStopUnlink(a) PROVE EffectsCounted'
    BY <2>50 DEF AdminStopUnlink, AfterStop
  <2>51. ASSUME NEW a \in Admins, AdminAskStop(a) PROVE EffectsCounted'
    BY <2>51 DEF AdminAskStop, HangUp
  <2>52. ASSUME NEW a \in Admins, AdminAskTimeout(a) PROVE EffectsCounted'
    BY <2>52 DEF AdminAskTimeout, HangUp, OnError
  <2>53. ASSUME NEW a \in Admins, AdminSeesGone(a) PROVE EffectsCounted'
    BY <2>53 DEF AdminSeesGone
  <2>54. ASSUME NEW a \in Admins, AdminGoneUnlink(a) PROVE EffectsCounted'
    BY <2>54 DEF AdminGoneUnlink
  <2>55. ASSUME NEW a \in Admins, AdminGoneTimeout(a) PROVE EffectsCounted'
    BY <2>55 DEF AdminGoneTimeout, OnError
  <2>56. ASSUME NEW a \in Admins, AdminOpen(a) PROVE EffectsCounted'
    BY <2>56 DEF AdminOpen
  <2>57. ASSUME NEW a \in Admins, AdminOperate(a) PROVE EffectsCounted'
    BY <2>57 DEF AdminOperate
  <2>58. ASSUME NEW a \in Admins, AdminBuild(a) PROVE EffectsCounted'
    BY <2>58 DEF AdminBuild
  <2>59. ASSUME NEW a \in Admins, AdminDropLock(a) PROVE EffectsCounted'
    BY <2>59 DEF AdminDropLock
  <2>60. ASSUME NEW a \in Admins, AdminKilled(a) PROVE EffectsCounted'
    BY <2>60 DEF AdminKilled, HangUp
  <2>61. CASE UNCHANGED vars
    BY <2>61 DEF vars
  <2>62. ASSUME SpawnLockAges PROVE EffectsCounted'
    BY <2>62 DEF SpawnLockAges
  <2> QED
    BY <2>1, <2>2, <2>3, <2>4, <2>5, <2>6, <2>7, <2>8, <2>9, <2>10, <2>11, <2>12, <2>13,
       <2>14, <2>15, <2>16, <2>17, <2>18, <2>19, <2>20, <2>21, <2>22, <2>23, <2>24,
       <2>25, <2>26, <2>27, <2>28, <2>29, <2>30, <2>31, <2>32, <2>33, <2>34, <2>35,
       <2>36, <2>37, <2>38, <2>39, <2>40, <2>41, <2>42, <2>43, <2>44, <2>45, <2>46,
       <2>47, <2>48, <2>49, <2>50, <2>51, <2>52, <2>53, <2>54, <2>55, <2>56, <2>57,
       <2>58, <2>59, <2>60, <2>61, <2>62 DEF Next, DaemonStep, HotStep, AdminStep
<1>3. TypeOK /\ EffectsCounted => NeverRepeated
  BY DEF TypeOK, NeverRepeated
<1> QED
  BY <1>1, <1>2, <1>3, TypeInvariant, PTL DEF Spec

-----------------------------------------------------------------------------
\* Where no admin command is a rebuild, nobody's store is renamed away.
LEMMA NobodyLosesTheStore ==
  ASSUME \A a \in Admins : Role[a] # "rebuild"
  PROVE  Spec => [](NobodyAstray /\ \A a \in Admins : apc[a] # "build")
<1> DEFINE Inv == NobodyAstray /\ \A a \in Admins : apc[a] # "build"
<1> USE ConstantsAssumption DEF Clients, Processes, Roles
<1> USE DEF NobodyAstray, files, daemonVars, wires, hotVars, adminVars,
            GoTo, AdminGoTo, DaemonGoTo
<1>1. Init => Inv
  BY DEF Init
<1>2. TypeOK /\ Inv /\ [Next]_vars => Inv'
  <2> SUFFICES ASSUME TypeOK, Inv, [Next]_vars PROVE Inv'
    OBVIOUS
  <2> USE DEF TypeOK
  <2>1. ASSUME NEW d \in Daemons, DaemonWaitAdmin(d) PROVE Inv'
    BY <2>1 DEF DaemonWaitAdmin
  <2>2. ASSUME NEW d \in Daemons, DaemonAdminTimeout(d) PROVE Inv'
    BY <2>2 DEF DaemonAdminTimeout, ProcessEnds
  <2>3. ASSUME NEW d \in Daemons, DaemonOpen(d) PROVE Inv'
    BY <2>3 DEF DaemonOpen
  <2>4. ASSUME NEW d \in Daemons, DaemonLockedByAdmin(d) PROVE Inv'
    BY <2>4 DEF DaemonLockedByAdmin
  <2>5. ASSUME NEW d \in Daemons, DaemonLocked(d) PROVE Inv'
    BY <2>5 DEF DaemonLocked, ProcessEnds
  <2>6. ASSUME NEW d \in Daemons, DaemonBind(d) PROVE Inv'
    BY <2>6 DEF DaemonBind, Listening
  <2>7. ASSUME NEW d \in Daemons, DaemonBindRefused(d) PROVE Inv'
    BY <2>7 DEF DaemonBindRefused, ProcessEnds
  <2>8. ASSUME NEW d \in Daemons, DaemonPublish(d) PROVE Inv'
    BY <2>8 DEF DaemonPublish
  <2>9. ASSUME NEW d \in Daemons, NEW x \in Clients, DaemonAccept(d, x) PROVE Inv'
    BY <2>9 DEF DaemonAccept
  <2>10. ASSUME NEW d \in Daemons, DaemonStopAccepting(d) PROVE Inv'
    BY <2>10 DEF DaemonStopAccepting, ListenerCloses
  <2>11. ASSUME NEW d \in Daemons, DaemonRelease(d) PROVE Inv'
    BY <2>11 DEF DaemonRelease
  <2>12. ASSUME NEW d \in Daemons, DaemonGiveUp(d) PROVE Inv'
    BY <2>12 DEF DaemonGiveUp
  <2>13. ASSUME NEW d \in Daemons, DaemonUnlink(d) PROVE Inv'
    BY <2>13 DEF DaemonUnlink
  <2>14. ASSUME NEW d \in Daemons, DaemonExit(d) PROVE Inv'
    BY <2>14 DEF DaemonExit, ProcessEnds
  <2>15. ASSUME NEW d \in Daemons, NEW c \in Hot, DaemonApply(d, c) PROVE Inv'
    BY <2>15 DEF DaemonApply
  <2>16. ASSUME NEW d \in Daemons, NEW c \in Hot, DaemonApplyLate(d, c) PROVE Inv'
    BY <2>16 DEF DaemonApplyLate
  <2>17. ASSUME NEW d \in Daemons, DaemonKilled(d) PROVE Inv'
    BY <2>17 DEF DaemonKilled, ProcessEnds
  <2>18. ASSUME NEW c \in Hot, HotConnect(c) PROVE Inv'
    BY <2>18 DEF HotConnect, Listening
  <2>19. ASSUME NEW c \in Hot, HotGiveUpConnecting(c) PROVE Inv'
    BY <2>19 DEF HotGiveUpConnecting
  <2>20. ASSUME NEW c \in Hot, HotUnlink(c) PROVE Inv'
    BY <2>20 DEF HotUnlink
  <2>21. ASSUME NEW c \in Hot, HotHello(c) PROVE Inv'
    BY <2>21 DEF HotHello
  <2>22. ASSUME NEW c \in Hot, HotHelloDisconnected(c) PROVE Inv'
    BY <2>22 DEF HotHelloDisconnected, HangUp
  <2>23. ASSUME NEW c \in Hot, HotHelloTimeout(c) PROVE Inv'
    BY <2>23 DEF HotHelloTimeout, HangUp
  <2>24. ASSUME NEW c \in Hot, HotAskOld(c) PROVE Inv'
    BY <2>24 DEF HotAskOld, HangUp
  <2>25. ASSUME NEW c \in Hot, HotSeesGone(c) PROVE Inv'
    BY <2>25 DEF HotSeesGone
  <2>26. ASSUME NEW c \in Hot, HotGoneUnlink(c) PROVE Inv'
    BY <2>26 DEF HotGoneUnlink
  <2>27. ASSUME NEW c \in Hot, HotGoneTimeout(c) PROVE Inv'
    BY <2>27 DEF HotGoneTimeout
  <2>28. ASSUME NEW c \in Hot, HotWaitAdmin(c) PROVE Inv'
    BY <2>28 DEF HotWaitAdmin
  <2>29. ASSUME NEW c \in Hot, HotAdminOverrun(c) PROVE Inv'
    BY <2>29 DEF HotAdminOverrun
  <2>30. ASSUME NEW c \in Hot, HotAdminTimeout(c) PROVE Inv'
    BY <2>30 DEF HotAdminTimeout
  <2>31. ASSUME NEW c \in Hot, HotTakeSpawnLock(c) PROVE Inv'
    BY <2>31 DEF HotTakeSpawnLock
  <2>32. ASSUME NEW c \in Hot, HotJudgeSpawnLock(c) PROVE Inv'
    BY <2>32 DEF HotJudgeSpawnLock
  <2>33. ASSUME NEW c \in Hot, HotBreakSpawnLock(c) PROVE Inv'
    BY <2>33 DEF HotBreakSpawnLock
  <2>34. ASSUME NEW c \in Hot, HotRetakeSpawnLock(c) PROVE Inv'
    BY <2>34 DEF HotRetakeSpawnLock
  <2>35. ASSUME NEW c \in Hot, HotSpawn(c) PROVE Inv'
    BY <2>35 DEF HotSpawn
  <2>36. ASSUME NEW c \in Hot, HotSpawnFails(c) PROVE Inv'
    BY <2>36 DEF HotSpawnFails
  <2>37. ASSUME NEW c \in Hot, HotSeesSocket(c) PROVE Inv'
    BY <2>37 DEF HotSeesSocket, StopStarting
  <2>38. ASSUME NEW c \in Hot, HotSeesNoSocket(c) PROVE Inv'
    BY <2>38 DEF HotSeesNoSocket
  <2>39. ASSUME NEW c \in Hot, HotCheckChild(c) PROVE Inv'
    BY <2>39 DEF HotCheckChild, StopStarting
  <2>40. ASSUME NEW c \in Hot, HotStartTimeout(c) PROVE Inv'
    BY <2>40 DEF HotStartTimeout, StopStarting
  <2>41. ASSUME NEW c \in Hot, HotReply(c) PROVE Inv'
    BY <2>41 DEF HotReply, HangUp
  <2>42. ASSUME NEW c \in Hot, HotDisconnected(c) PROVE Inv'
    BY <2>42 DEF HotDisconnected, HangUp
  <2>43. ASSUME NEW c \in Hot, HotCallTimeout(c) PROVE Inv'
    BY <2>43 DEF HotCallTimeout, Abandon
  <2>44. ASSUME NEW c \in Hot, HotKilled(c) PROVE Inv'
    BY <2>44 DEF HotKilled, Abandon, Ended
  <2>45. ASSUME NEW a \in Admins, AdminTakeLock(a) PROVE Inv'
    BY <2>45 DEF AdminTakeLock
  <2>46. ASSUME NEW a \in Admins, AdminJudgeLock(a) PROVE Inv'
    BY <2>46 DEF AdminJudgeLock
  <2>47. ASSUME NEW a \in Admins, AdminBreakLock(a) PROVE Inv'
    BY <2>47 DEF AdminBreakLock
  <2>48. ASSUME NEW a \in Admins, AdminLockTimeout(a) PROVE Inv'
    BY <2>48 DEF AdminLockTimeout
  <2>49. ASSUME NEW a \in Admins, AdminStop(a) PROVE Inv'
    BY <2>49 DEF AdminStop, OnError, Listening
  <2>50. ASSUME NEW a \in Admins, AdminStopUnlink(a) PROVE Inv'
    BY <2>50 DEF AdminStopUnlink, AfterStop
  <2>51. ASSUME NEW a \in Admins, AdminAskStop(a) PROVE Inv'
    BY <2>51 DEF AdminAskStop, HangUp
  <2>52. ASSUME NEW a \in Admins, AdminAskTimeout(a) PROVE Inv'
    BY <2>52 DEF AdminAskTimeout, HangUp, OnError
  <2>53. ASSUME NEW a \in Admins, AdminSeesGone(a) PROVE Inv'
    BY <2>53 DEF AdminSeesGone
  <2>54. ASSUME NEW a \in Admins, AdminGoneUnlink(a) PROVE Inv'
    BY <2>54 DEF AdminGoneUnlink
  <2>55. ASSUME NEW a \in Admins, AdminGoneTimeout(a) PROVE Inv'
    BY <2>55 DEF AdminGoneTimeout, OnError
  <2>56. ASSUME NEW a \in Admins, AdminOpen(a) PROVE Inv'
    BY <2>56 DEF AdminOpen
  <2>57. ASSUME NEW a \in Admins, AdminOperate(a) PROVE Inv'
    BY <2>57 DEF AdminOperate
  <2>58. ASSUME NEW a \in Admins, AdminBuild(a) PROVE Inv'
    BY <2>58 DEF AdminBuild
  <2>59. ASSUME NEW a \in Admins, AdminDropLock(a) PROVE Inv'
    BY <2>59 DEF AdminDropLock
  <2>60. ASSUME NEW a \in Admins, AdminKilled(a) PROVE Inv'
    BY <2>60 DEF AdminKilled, HangUp
  <2>61. CASE UNCHANGED vars
    BY <2>61 DEF vars
  <2>62. ASSUME SpawnLockAges PROVE Inv'
    BY <2>62 DEF SpawnLockAges
  <2> QED
    BY <2>1, <2>2, <2>3, <2>4, <2>5, <2>6, <2>7, <2>8, <2>9, <2>10, <2>11, <2>12, <2>13,
       <2>14, <2>15, <2>16, <2>17, <2>18, <2>19, <2>20, <2>21, <2>22, <2>23, <2>24,
       <2>25, <2>26, <2>27, <2>28, <2>29, <2>30, <2>31, <2>32, <2>33, <2>34, <2>35,
       <2>36, <2>37, <2>38, <2>39, <2>40, <2>41, <2>42, <2>43, <2>44, <2>45, <2>46,
       <2>47, <2>48, <2>49, <2>50, <2>51, <2>52, <2>53, <2>54, <2>55, <2>56, <2>57,
       <2>58, <2>59, <2>60, <2>61, <2>62 DEF Next, DaemonStep, HotStep, AdminStep
<1> QED
  BY <1>1, <1>2, TypeInvariant, PTL DEF Spec

\* A command that ends reports what became of its request.
LEMMA CommandEnds ==
  ASSUME TypeOK, EffectsCounted, NEW c \in Hot, NEW state \in {"done", "failed", "lost"},
         pc[c] \notin {"done", "failed", "lost"}, GoTo(c, state),
         state = "done" => pc[c] = "applied", UNCHANGED <<kv, applied>>
  PROVE  Ownership!Next
<1> DEFINE outcome == [x \in Hot |-> Outcome(x)]
           o == IF state = "done" THEN "ok" ELSE "error"
<1>1. outcome[c] = "pending"
  BY DEF Outcome
<1>2. outcome' = [outcome EXCEPT ![c] = o]
  BY DEF TypeOK, GoTo, Outcome
<1>3. o = "ok" => applied[c] > 0
  BY DEF EffectsCounted
<1>4. Ownership!Report(c)
  BY <1>1, <1>2, <1>3 DEF Ownership!Report
<1> QED
  BY <1>4 DEF Ownership!Next

\* The protocol implements the ownership it promises, where no admin command is
\* a rebuild: the store has one owner, effects happen only under a daemon that
\* owns it, and an answer means the effect took place.
THEOREM ProtocolImplementsOwnership ==
  ASSUME \A a \in Admins : Role[a] # "rebuild"
  PROVE  Spec => ImplementsOwnership
<1> DEFINE Inv == /\ TypeOK /\ StoreHeldWhileUsed /\ EffectsCounted
                  /\ NobodyAstray /\ \A a \in Admins : apc[a] # "build"
<1> USE ConstantsAssumption DEF Clients, Processes
<1>1. Init => Ownership!Init
  BY DEF Init, Ownership!Init, Outcome
<1>2. Inv /\ [Next]_vars => [Ownership!Next]_(Ownership!abstractVars)
  <2> SUFFICES ASSUME Inv, [Next]_vars PROVE [Ownership!Next]_(Ownership!abstractVars)
    OBVIOUS
  <2> USE DEF TypeOK, StoreHeldWhileUsed, HoldsStore, EffectsCounted, NobodyAstray,
              files, daemonVars, wires, hotVars, adminVars,
              GoTo, AdminGoTo, DaemonGoTo, Outcome,
              Ownership!Next, Ownership!Take, Ownership!GiveBack, Ownership!Perform,
              Ownership!Report, Ownership!abstractVars
  <2>1. ASSUME NEW d \in Daemons, DaemonWaitAdmin(d)
        PROVE  [Ownership!Next]_(Ownership!abstractVars)
    BY <2>1 DEF DaemonWaitAdmin
  <2>2. ASSUME NEW d \in Daemons, DaemonAdminTimeout(d)
        PROVE  [Ownership!Next]_(Ownership!abstractVars)
    BY <2>2 DEF DaemonAdminTimeout, ProcessEnds
  <2>3. ASSUME NEW d \in Daemons, DaemonOpen(d) PROVE [Ownership!Next]_(Ownership!abstractVars)
    BY <2>3 DEF DaemonOpen
  <2>4. ASSUME NEW d \in Daemons, DaemonLockedByAdmin(d)
        PROVE  [Ownership!Next]_(Ownership!abstractVars)
    BY <2>4 DEF DaemonLockedByAdmin
  <2>5. ASSUME NEW d \in Daemons, DaemonLocked(d)
        PROVE  [Ownership!Next]_(Ownership!abstractVars)
    BY <2>5 DEF DaemonLocked, ProcessEnds
  <2>6. ASSUME NEW d \in Daemons, DaemonBind(d) PROVE [Ownership!Next]_(Ownership!abstractVars)
    BY <2>6 DEF DaemonBind, Listening
  <2>7. ASSUME NEW d \in Daemons, DaemonBindRefused(d)
        PROVE  [Ownership!Next]_(Ownership!abstractVars)
    BY <2>7 DEF DaemonBindRefused, ProcessEnds
  <2>8. ASSUME NEW d \in Daemons, DaemonPublish(d)
        PROVE  [Ownership!Next]_(Ownership!abstractVars)
    BY <2>8 DEF DaemonPublish
  <2>9. ASSUME NEW d \in Daemons, NEW x \in Clients, DaemonAccept(d, x)
        PROVE  [Ownership!Next]_(Ownership!abstractVars)
    BY <2>9 DEF DaemonAccept
  <2>10. ASSUME NEW d \in Daemons, DaemonStopAccepting(d)
         PROVE  [Ownership!Next]_(Ownership!abstractVars)
    BY <2>10 DEF DaemonStopAccepting, ListenerCloses
  <2>11. ASSUME NEW d \in Daemons, DaemonRelease(d)
         PROVE  [Ownership!Next]_(Ownership!abstractVars)
    BY <2>11 DEF DaemonRelease
  <2>12. ASSUME NEW d \in Daemons, DaemonGiveUp(d)
         PROVE  [Ownership!Next]_(Ownership!abstractVars)
    BY <2>12 DEF DaemonGiveUp
  <2>13. ASSUME NEW d \in Daemons, DaemonUnlink(d)
         PROVE  [Ownership!Next]_(Ownership!abstractVars)
    BY <2>13 DEF DaemonUnlink
  <2>14. ASSUME NEW d \in Daemons, DaemonExit(d) PROVE [Ownership!Next]_(Ownership!abstractVars)
    BY <2>14 DEF DaemonExit, ProcessEnds
  <2>15. ASSUME NEW d \in Daemons, NEW c \in Hot, DaemonApply(d, c)
         PROVE  [Ownership!Next]_(Ownership!abstractVars)
    <3>1. kv = d /\ kv' = kv /\ applied' = [applied EXCEPT ![c] = @ + 1]
      BY <2>15 DEF DaemonApply
    <3>2. c \in Retryable \/ applied[c] = 0
      BY <2>15 DEF DaemonApply
    <3>3. \A x \in Hot : Outcome(x)' = Outcome(x)
      BY <2>15 DEF DaemonApply
    <3>4. [x \in Hot |-> Outcome(x)]' = [x \in Hot |-> Outcome(x)]
      BY <3>3
    <3>5. Ownership!Perform(c)
      BY <3>1, <3>2, <3>4 DEF Ownership!Perform
    <3> QED
      BY <3>5 DEF Ownership!Next
  <2>16. ASSUME NEW d \in Daemons, NEW c \in Hot, DaemonApplyLate(d, c)
         PROVE  [Ownership!Next]_(Ownership!abstractVars)
    <3>1. kv = d /\ kv' = kv /\ applied' = [applied EXCEPT ![c] = @ + 1]
      BY <2>16 DEF DaemonApplyLate
    <3>2. c \in Retryable \/ applied[c] = 0
      BY <2>16 DEF DaemonApplyLate
    <3>3. \A x \in Hot : Outcome(x)' = Outcome(x)
      BY <2>16 DEF DaemonApplyLate
    <3>4. [x \in Hot |-> Outcome(x)]' = [x \in Hot |-> Outcome(x)]
      BY <3>3
    <3>5. Ownership!Perform(c)
      BY <3>1, <3>2, <3>4 DEF Ownership!Perform
    <3> QED
      BY <3>5 DEF Ownership!Next
  <2>17. ASSUME NEW d \in Daemons, DaemonKilled(d)
         PROVE  [Ownership!Next]_(Ownership!abstractVars)
    BY <2>17 DEF DaemonKilled, ProcessEnds
  <2>18. ASSUME NEW c \in Hot, HotConnect(c) PROVE [Ownership!Next]_(Ownership!abstractVars)
    BY <2>18 DEF HotConnect, Listening
  <2>19. ASSUME NEW c \in Hot, HotGiveUpConnecting(c)
         PROVE  [Ownership!Next]_(Ownership!abstractVars)
    BY <2>19, CommandEnds DEF HotGiveUpConnecting, hotVars, files, adminVars
  <2>20. ASSUME NEW c \in Hot, HotUnlink(c) PROVE [Ownership!Next]_(Ownership!abstractVars)
    BY <2>20 DEF HotUnlink
  <2>21. ASSUME NEW c \in Hot, HotHello(c) PROVE [Ownership!Next]_(Ownership!abstractVars)
    BY <2>21 DEF HotHello
  <2>22. ASSUME NEW c \in Hot, HotHelloDisconnected(c)
         PROVE  [Ownership!Next]_(Ownership!abstractVars)
    BY <2>22 DEF HotHelloDisconnected, HangUp
  <2>23. ASSUME NEW c \in Hot, HotHelloTimeout(c)
         PROVE  [Ownership!Next]_(Ownership!abstractVars)
    BY <2>23, CommandEnds DEF HotHelloTimeout, HangUp, hotVars, files, adminVars
  <2>24. ASSUME NEW c \in Hot, HotAskOld(c) PROVE [Ownership!Next]_(Ownership!abstractVars)
    BY <2>24 DEF HotAskOld, HangUp
  <2>25. ASSUME NEW c \in Hot, HotSeesGone(c) PROVE [Ownership!Next]_(Ownership!abstractVars)
    BY <2>25 DEF HotSeesGone
  <2>26. ASSUME NEW c \in Hot, HotGoneUnlink(c) PROVE [Ownership!Next]_(Ownership!abstractVars)
    BY <2>26 DEF HotGoneUnlink
  <2>27. ASSUME NEW c \in Hot, HotGoneTimeout(c) PROVE [Ownership!Next]_(Ownership!abstractVars)
    BY <2>27, CommandEnds DEF HotGoneTimeout, hotVars, files, adminVars
  <2>28. ASSUME NEW c \in Hot, HotWaitAdmin(c) PROVE [Ownership!Next]_(Ownership!abstractVars)
    BY <2>28 DEF HotWaitAdmin
  <2>29. ASSUME NEW c \in Hot, HotAdminOverrun(c)
         PROVE  [Ownership!Next]_(Ownership!abstractVars)
    BY <2>29 DEF HotAdminOverrun
  <2>30. ASSUME NEW c \in Hot, HotAdminTimeout(c)
         PROVE  [Ownership!Next]_(Ownership!abstractVars)
    BY <2>30, CommandEnds DEF HotAdminTimeout, hotVars, files, adminVars
  <2>31. ASSUME NEW c \in Hot, HotTakeSpawnLock(c)
         PROVE  [Ownership!Next]_(Ownership!abstractVars)
    BY <2>31 DEF HotTakeSpawnLock
  <2>32. ASSUME NEW c \in Hot, HotJudgeSpawnLock(c)
         PROVE  [Ownership!Next]_(Ownership!abstractVars)
    BY <2>32 DEF HotJudgeSpawnLock
  <2>33. ASSUME NEW c \in Hot, HotBreakSpawnLock(c)
         PROVE  [Ownership!Next]_(Ownership!abstractVars)
    BY <2>33 DEF HotBreakSpawnLock
  <2>34. ASSUME NEW c \in Hot, HotRetakeSpawnLock(c)
         PROVE  [Ownership!Next]_(Ownership!abstractVars)
    BY <2>34 DEF HotRetakeSpawnLock
  <2>35. ASSUME NEW c \in Hot, HotSpawn(c) PROVE [Ownership!Next]_(Ownership!abstractVars)
    BY <2>35 DEF HotSpawn
  <2>36. ASSUME NEW c \in Hot, HotSpawnFails(c) PROVE [Ownership!Next]_(Ownership!abstractVars)
    BY <2>36, CommandEnds DEF HotSpawnFails, hotVars, files, adminVars
  <2>37. ASSUME NEW c \in Hot, HotSeesSocket(c) PROVE [Ownership!Next]_(Ownership!abstractVars)
    BY <2>37 DEF HotSeesSocket, StopStarting
  <2>38. ASSUME NEW c \in Hot, HotSeesNoSocket(c)
         PROVE  [Ownership!Next]_(Ownership!abstractVars)
    BY <2>38 DEF HotSeesNoSocket
  <2>39. ASSUME NEW c \in Hot, HotCheckChild(c) PROVE [Ownership!Next]_(Ownership!abstractVars)
    <3>1. CASE child[c] # Gone
      BY <2>39, <3>1 DEF HotCheckChild, StopStarting, hotVars, files, adminVars, GoTo,
         Outcome, Ownership!abstractVars, TypeOK
    <3>2. CASE ~(child[c] # Gone)
      BY <2>39, <3>2, CommandEnds DEF HotCheckChild, StopStarting, hotVars, files,
         adminVars
    <3> QED
      BY <3>1, <3>2
  <2>40. ASSUME NEW c \in Hot, HotStartTimeout(c)
         PROVE  [Ownership!Next]_(Ownership!abstractVars)
    BY <2>40, CommandEnds DEF HotStartTimeout, StopStarting, hotVars, files, adminVars
  <2>41. ASSUME NEW c \in Hot, HotReply(c) PROVE [Ownership!Next]_(Ownership!abstractVars)
    BY <2>41, CommandEnds DEF HotReply, HangUp, hotVars, files, adminVars
  <2>42. ASSUME NEW c \in Hot, HotDisconnected(c)
         PROVE  [Ownership!Next]_(Ownership!abstractVars)
    <3>1. CASE c \in Retryable /\ ~retried[c]
      BY <2>42, <3>1 DEF HotDisconnected, HangUp, hotVars, files, adminVars, GoTo,
         Outcome, Ownership!abstractVars, TypeOK
    <3>2. CASE ~(c \in Retryable /\ ~retried[c])
      BY <2>42, <3>2, CommandEnds DEF HotDisconnected, HangUp, hotVars, files, adminVars
    <3> QED
      BY <3>1, <3>2
  <2>43. ASSUME NEW c \in Hot, HotCallTimeout(c) PROVE [Ownership!Next]_(Ownership!abstractVars)
    <3>1. CASE pc[c] = "call" /\ task[c] # None
      BY <2>43, <3>1, CommandEnds DEF HotCallTimeout, Abandon, hotVars, files, adminVars
    <3>2. CASE ~(pc[c] = "call" /\ task[c] # None)
      BY <2>43, <3>2, CommandEnds DEF HotCallTimeout, Abandon, hotVars, files, adminVars
    <3> QED
      BY <3>1, <3>2
  <2>44. ASSUME NEW c \in Hot, HotKilled(c) PROVE [Ownership!Next]_(Ownership!abstractVars)
    <3>1. CASE pc[c] = "call" /\ task[c] # None
      BY <2>44, <3>1, CommandEnds DEF HotKilled, Abandon, Ended, hotVars, files, adminVars
    <3>2. CASE ~(pc[c] = "call" /\ task[c] # None)
      BY <2>44, <3>2, CommandEnds DEF HotKilled, Abandon, Ended, hotVars, files, adminVars
    <3> QED
      BY <3>1, <3>2
  <2>45. ASSUME NEW a \in Admins, AdminTakeLock(a)
         PROVE  [Ownership!Next]_(Ownership!abstractVars)
    BY <2>45 DEF AdminTakeLock
  <2>46. ASSUME NEW a \in Admins, AdminJudgeLock(a)
         PROVE  [Ownership!Next]_(Ownership!abstractVars)
    BY <2>46 DEF AdminJudgeLock
  <2>47. ASSUME NEW a \in Admins, AdminBreakLock(a)
         PROVE  [Ownership!Next]_(Ownership!abstractVars)
    BY <2>47 DEF AdminBreakLock
  <2>48. ASSUME NEW a \in Admins, AdminLockTimeout(a)
         PROVE  [Ownership!Next]_(Ownership!abstractVars)
    BY <2>48 DEF AdminLockTimeout
  <2>49. ASSUME NEW a \in Admins, AdminStop(a) PROVE [Ownership!Next]_(Ownership!abstractVars)
    BY <2>49 DEF AdminStop, OnError, Listening
  <2>50. ASSUME NEW a \in Admins, AdminStopUnlink(a)
         PROVE  [Ownership!Next]_(Ownership!abstractVars)
    BY <2>50 DEF AdminStopUnlink, AfterStop
  <2>51. ASSUME NEW a \in Admins, AdminAskStop(a)
         PROVE  [Ownership!Next]_(Ownership!abstractVars)
    BY <2>51 DEF AdminAskStop, HangUp
  <2>52. ASSUME NEW a \in Admins, AdminAskTimeout(a)
         PROVE  [Ownership!Next]_(Ownership!abstractVars)
    BY <2>52 DEF AdminAskTimeout, HangUp, OnError
  <2>53. ASSUME NEW a \in Admins, AdminSeesGone(a)
         PROVE  [Ownership!Next]_(Ownership!abstractVars)
    BY <2>53 DEF AdminSeesGone
  <2>54. ASSUME NEW a \in Admins, AdminGoneUnlink(a)
         PROVE  [Ownership!Next]_(Ownership!abstractVars)
    BY <2>54 DEF AdminGoneUnlink
  <2>55. ASSUME NEW a \in Admins, AdminGoneTimeout(a)
         PROVE  [Ownership!Next]_(Ownership!abstractVars)
    BY <2>55 DEF AdminGoneTimeout, OnError
  <2>56. ASSUME NEW a \in Admins, AdminOpen(a) PROVE [Ownership!Next]_(Ownership!abstractVars)
    BY <2>56 DEF AdminOpen
  <2>57. ASSUME NEW a \in Admins, AdminOperate(a)
         PROVE  [Ownership!Next]_(Ownership!abstractVars)
    BY <2>57 DEF AdminOperate
  <2>58. ASSUME NEW a \in Admins, AdminBuild(a) PROVE [Ownership!Next]_(Ownership!abstractVars)
    BY <2>58 DEF AdminBuild
  <2>59. ASSUME NEW a \in Admins, AdminDropLock(a)
         PROVE  [Ownership!Next]_(Ownership!abstractVars)
    BY <2>59 DEF AdminDropLock
  <2>60. ASSUME NEW a \in Admins, AdminKilled(a) PROVE [Ownership!Next]_(Ownership!abstractVars)
    BY <2>60 DEF AdminKilled, HangUp
  <2>61. CASE UNCHANGED vars
    BY <2>61 DEF vars
  <2>62. ASSUME SpawnLockAges PROVE [Ownership!Next]_(Ownership!abstractVars)
    BY <2>62 DEF SpawnLockAges
  <2> QED
    BY <2>1, <2>2, <2>3, <2>4, <2>5, <2>6, <2>7, <2>8, <2>9, <2>10, <2>11, <2>12, <2>13,
       <2>14, <2>15, <2>16, <2>17, <2>18, <2>19, <2>20, <2>21, <2>22, <2>23, <2>24,
       <2>25, <2>26, <2>27, <2>28, <2>29, <2>30, <2>31, <2>32, <2>33, <2>34, <2>35,
       <2>36, <2>37, <2>38, <2>39, <2>40, <2>41, <2>42, <2>43, <2>44, <2>45, <2>46,
       <2>47, <2>48, <2>49, <2>50, <2>51, <2>52, <2>53, <2>54, <2>55, <2>56, <2>57,
       <2>58, <2>59, <2>60, <2>61, <2>62 DEF Next, DaemonStep, HotStep, AdminStep
<1> QED
  BY <1>1, <1>2, TypeInvariant, StoreAlwaysHeld, EffectsAreCounted, NobodyLosesTheStore,
     PTL DEF Spec, ImplementsOwnership, Ownership!Spec
=============================================================================
