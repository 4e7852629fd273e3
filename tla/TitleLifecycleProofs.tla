------------------------ MODULE TitleLifecycleProofs ------------------------
(***************************************************************************)
(* Proofs about TitleLifecycle, for any threads and any number of boots    *)
(* and sessions.                                                           *)
(***************************************************************************)
EXTENDS TitleLifecycle, TLAPS

(***************************************************************************)
(* The types, with what keeps the two counters in range: the boot number   *)
(* passes kMaxBoots only on the way out of the loop, and a thread that has *)
(* not started still has a suspend level to lose.                          *)
(***************************************************************************)
BootBound  == pc[Main] \notin {"off", "top", "done"} => boot <= kMaxBoots
LevelsLeft == \A t \in g_threads : ~started[t] => suspendCount[t] >= 1
TypeInv    == TypeOK /\ BootBound /\ LevelsLeft

(***************************************************************************)
(* The inductive invariant.                                                *)
(***************************************************************************)
\* Somebody must still join t.
Busy(t)   == pc[t] \in Unfinished \union {"ended"}
AllJoined == \A t \in Threads : ~Busy(t)

\* The thread table has exactly the threads that exist.
TableIsComplete == \A t \in Threads : t \in g_threads <=> pc[t] # "off"

\* The UI thread joins only when the runtime's thread is gone, which it is between
\* two sessions; the runtime's thread joins for a stop only when one is requested.
OneJoiner ==
  /\ ui \in {"closing", "destroying"} \/ ~booted => pc[Main] = "off"
  /\ pc[Main] = "joiningStop" => stopRequested

\* The two joins the results rest on run with the title shut down, so no thread is
\* created, and whoever must still be joined is in the snapshot or was found alive.
JoinCovers ==
  /\ pc[Main] = "joiningTitle" => g_titleTerminated
  /\ ui = "destroying" => g_stop
  /\ pc[Main] = "joiningTitle" \/ ui = "destroying" =>
       \A t \in Threads : Busy(t) => t \in snap \/ alive

\* What the joins have established, as long as it is used.
NobodyLeft ==
  /\ pc[Main] = "deciding" => stopRequested \/ AllJoined
  /\ pc[Main] \in {"consuming", "clearing", "unstopping"} => AllJoined
  /\ mem = "unmapped" => AllJoined /\ pc[Main] = "off"

BornBefore == \A t \in Threads : born[t][1] <= session
IdsIssued  == \A t \in Threads : pc[t] \in Unfinished => id[t] < g_nextKernelThreadId

Inv ==
  /\ TableIsComplete /\ NoJoinableDestroyed
  /\ OneJoiner /\ JoinCovers /\ NobodyLeft
  /\ BornBefore /\ NoStrayThread
  /\ IdsIssued /\ GuestThreadIdsDistinct

USE DEF Actors, InGuest, Unfinished, ThreadPCs, MainPCs, UiPCs

-----------------------------------------------------------------------------
\* Every action keeps the types and the two counters in range.
LEMMA TypeInvStep ==
  ASSUME TypeInv, Next
  PROVE  TypeInv'
  <1> USE LifecycleAssumption
      DEF TypeInv, TypeOK, BootBound, LevelsLeft, threadVars, irqVars, titleVars, uiVars, joinVars
  <1>1. ASSUME NEW a \in Actors, NEW t \in Threads, CreateThread(a, t) PROVE TypeInv'
    BY <1>1 DEF CreateThread, ShuttingDown
  <1>2. ASSUME NEW a \in Actors, NEW t \in Threads, ResumeThread(a, t) PROVE TypeInv'
    <2>1. suspendCount[t] \in 1..MaxSuspend /\ t \in Threads
      BY <1>2 DEF ResumeThread
    <2>2. suspendCount' \in [Threads -> 0..MaxSuspend]
      BY <1>2, <2>1 DEF ResumeThread
    <2>3. /\ pc' \in [Actors -> ThreadPCs \union MainPCs]
          /\ \A u \in Threads : pc'[u] \in ThreadPCs
          /\ pc'[Main] = pc[Main]
      <3>1. t # Main
        BY <2>1
      <3>2. \E p \in ThreadPCs : pc' = [pc EXCEPT ![t] = p]
        <4>1. pc[t] \in ThreadPCs /\ "starting" \in ThreadPCs
          BY <2>1
        <4>2. pc' = [pc EXCEPT ![t] = pc[t]] \/ pc' = [pc EXCEPT ![t] = "starting"]
          BY <1>2 DEF ResumeThread
        <4> QED
          BY <4>1, <4>2
      <3> QED
        BY <2>1, <3>1, <3>2
    <2>4. started' \in [Threads -> BOOLEAN]
      BY <1>2, <2>1 DEF ResumeThread
    <2>5. LevelsLeft'
      BY <1>2, <2>1 DEF ResumeThread
    <2> QED
      BY <1>2, <2>2, <2>3, <2>4, <2>5 DEF ResumeThread
  <1>3. ASSUME NEW a \in Actors, NEW t \in Threads, SuspendThread(a, t) PROVE TypeInv'
    BY <1>3 DEF SuspendThread
  <1>4. ASSUME NEW a \in Actors, SetGraphicsInterruptCallback(a) PROVE TypeInv'
    BY <1>4 DEF SetGraphicsInterruptCallback
  <1>5. ASSUME NEW a \in Actors, LaunchTitle(a) PROVE TypeInv'
    BY <1>5 DEF LaunchTitle, Goto
  <1>6. ASSUME NEW a \in Actors, TerminateTitle(a) PROVE TypeInv'
    BY <1>6 DEF TerminateTitle, Goto
  <1>7. ASSUME NEW a \in Actors, RequestStop(a) PROVE TypeInv'
    BY <1>7 DEF RequestStop, Goto
  <1>8. ASSUME NEW a \in Actors, NotifyAndLeave(a) PROVE TypeInv'
    BY <1>8 DEF NotifyAndLeave, Exit, Notified
  <1>9. ASSUME NEW a \in Actors, Block(a) PROVE TypeInv'
    BY <1>9 DEF Block, Goto
  <1>10. ASSUME NEW a \in Actors, Unblock(a) PROVE TypeInv'
    BY <1>10 DEF Unblock, Goto
  <1>11. ASSUME NEW a \in Actors, Unwind(a) PROVE TypeInv'
    BY <1>11 DEF Unwind, Goto, Exit, Leaves
  <1>12. ASSUME NEW a \in Actors, Return(a) PROVE TypeInv'
    BY <1>12 DEF Return, Goto, Exit, Leaves
  <1>13. ASSUME NEW t \in Threads, Start(t) PROVE TypeInv'
    BY <1>13 DEF Start, Goto
  <1>14. ASSUME NEW t \in Threads, NeverStarts(t) PROVE TypeInv'
    BY <1>14 DEF NeverStarts, Goto, Exit, Leaves
  <1>15. ASSUME NEW t \in Threads, Parks(t) PROVE TypeInv'
    BY <1>15 DEF Parks, Goto
  <1>16. ASSUME NEW t \in Threads, JoinVisit(t) PROVE TypeInv'
    BY <1>16 DEF JoinVisit, Joiner
  <1>17. ASSUME NativeBoot PROVE TypeInv'
    <2>1. session' \in 0..MaxSessions /\ boot' \in 0..kMaxBoots + 1
      BY <1>17 DEF NativeBoot
    <2>2. /\ pc' \in [Actors -> ThreadPCs \union MainPCs]
          /\ pc'[Main] = "top" /\ \A t \in Threads : pc'[t] = pc[t]
      BY <1>17 DEF NativeBoot, Goto
    <2> QED
      BY <1>17, <2>1, <2>2 DEF NativeBoot
  <1>18. ASSUME StopFlag PROVE TypeInv'
    BY <1>18 DEF StopFlag
  <1>19. ASSUME StopGuest PROVE TypeInv'
    BY <1>19 DEF StopGuest
  <1>20. ASSUME StopNotify PROVE TypeInv'
    BY <1>20 DEF StopNotify, Notified
  <1>21. ASSUME JoinMainThread PROVE TypeInv'
    BY <1>21 DEF JoinMainThread, Goto, NewPass
  <1>22. ASSUME KeepMemory PROVE TypeInv'
    BY <1>22 DEF KeepMemory, TimeIsUp
  <1>23. ASSUME DestroyRuntime PROVE TypeInv'
    BY <1>23 DEF DestroyRuntime, Notified, NewPass, AllFinished
  <1>24. ASSUME UnmapOrKeep PROVE TypeInv'
    BY <1>24 DEF UnmapOrKeep, AllFinished, TimeIsUp
  <1>25. ASSUME RunGuestMain PROVE TypeInv'
    <2>1. /\ pc' \in [Actors -> ThreadPCs \union MainPCs]
          /\ \A t \in Threads : pc'[t] = pc[t]
          /\ pc'[Main] \in {"guest", "done"}
      BY <1>25 DEF RunGuestMain, Goto
    <2>2. pc'[Main] = "guest" => boot <= kMaxBoots
      BY <1>25 DEF RunGuestMain, Goto
    <2> QED
      BY <1>25, <2>1, <2>2 DEF RunGuestMain
  <1>26. ASSUME AfterGuest PROVE TypeInv'
    BY <1>26 DEF AfterGuest, Goto, NewPass
  <1>27. ASSUME Linger PROVE TypeInv'
    BY <1>27 DEF Linger, Goto, NewPass
  <1>28. ASSUME MainJoined PROVE TypeInv'
    BY <1>28 DEF MainJoined, Goto, AllFinished, TimeIsUp
  <1>29. ASSUME Decide PROVE TypeInv'
    BY <1>29 DEF Decide, Goto
  <1>30. ASSUME ConsumeTitleRelaunch PROVE TypeInv'
    BY <1>30 DEF ConsumeTitleRelaunch, Goto
  <1>31. ASSUME ClearTables PROVE TypeInv'
    BY <1>31 DEF ClearTables
  <1>32. ASSUME ClearFlags PROVE TypeInv'
    <2>1. boot' \in 0..kMaxBoots + 1
      BY <1>32 DEF ClearFlags
    <2>2. /\ pc' \in [Actors -> ThreadPCs \union MainPCs]
          /\ pc'[Main] = "top" /\ \A t \in Threads : pc'[t] = pc[t]
      BY <1>32 DEF ClearFlags, Goto
    <2> QED
      BY <1>32, <2>1, <2>2 DEF ClearFlags
  <1>33. ASSUME JoinAgain PROVE TypeInv'
    BY <1>33 DEF JoinAgain, NewPass, Joiner
  <1>34. ASSUME InterruptLoopEnds PROVE TypeInv'
    BY <1>34 DEF InterruptLoopEnds
  <1> QED
    BY <1>1, <1>2, <1>3, <1>4, <1>5, <1>6, <1>7, <1>8, <1>9, <1>10, <1>11, <1>12, <1>13, <1>14, <1>15, <1>16, <1>17, <1>18, <1>19, <1>20, <1>21, <1>22, <1>23, <1>24, <1>25, <1>26, <1>27, <1>28, <1>29, <1>30, <1>31, <1>32, <1>33, <1>34 DEF Next, GuestStep, ThreadStep, JoinStep, MainStep, UiStep

-----------------------------------------------------------------------------
\* Every action keeps the invariant.  Only CreateThread (disabled during a shutdown), the
\* steps of joinAll and the steps of Main after it disturb it; the leaves are one an action.
LEMMA InvStep ==
  ASSUME JoinCompletes, ~LateCreation, TypeInv, Inv, Next
  PROVE  Inv'
  <1> USE LifecycleAssumption
      DEF TypeInv, TypeOK, Inv, TableIsComplete, NoJoinableDestroyed, OneJoiner, JoinCovers,
          NobodyLeft, Busy, AllJoined, BornBefore, NoStrayThread, IdsIssued,
          GuestThreadIdsDistinct, threadVars, irqVars, titleVars, uiVars, joinVars
  <1>1. ASSUME NEW a \in Actors, NEW t \in Threads, CreateThread(a, t) PROVE Inv'
    BY <1>1 DEF CreateThread, ShuttingDown
  <1>2. ASSUME NEW a \in Actors, NEW t \in Threads, ResumeThread(a, t) PROVE Inv'
    BY <1>2 DEF ResumeThread
  <1>3. ASSUME NEW a \in Actors, NEW t \in Threads, SuspendThread(a, t) PROVE Inv'
    BY <1>3 DEF SuspendThread
  <1>4. ASSUME NEW a \in Actors, SetGraphicsInterruptCallback(a) PROVE Inv'
    BY <1>4 DEF SetGraphicsInterruptCallback
  <1>5. ASSUME NEW a \in Actors, LaunchTitle(a) PROVE Inv'
    BY <1>5 DEF LaunchTitle, Goto
  <1>6. ASSUME NEW a \in Actors, TerminateTitle(a) PROVE Inv'
    BY <1>6 DEF TerminateTitle, Goto
  <1>7. ASSUME NEW a \in Actors, RequestStop(a) PROVE Inv'
    BY <1>7 DEF RequestStop, Goto
  <1>8. ASSUME NEW a \in Actors, NotifyAndLeave(a) PROVE Inv'
    BY <1>8 DEF NotifyAndLeave, Exit, Notified
  <1>9. ASSUME NEW a \in Actors, Block(a) PROVE Inv'
    BY <1>9 DEF Block, Goto
  <1>10. ASSUME NEW a \in Actors, Unblock(a) PROVE Inv'
    BY <1>10 DEF Unblock, Goto
  <1>11. ASSUME NEW a \in Actors, Unwind(a) PROVE Inv'
    BY <1>11 DEF Unwind, Goto, Exit, Leaves
  <1>12. ASSUME NEW a \in Actors, Return(a) PROVE Inv'
    BY <1>12 DEF Return, Goto, Exit, Leaves
  <1>13. ASSUME NEW t \in Threads, Start(t) PROVE Inv'
    BY <1>13 DEF Start, Goto
  <1>14. ASSUME NEW t \in Threads, NeverStarts(t) PROVE Inv'
    BY <1>14 DEF NeverStarts, Goto, Exit, Leaves
  <1>15. ASSUME NEW t \in Threads, Parks(t) PROVE Inv'
    BY <1>15 DEF Parks, Goto
  <1>16. ASSUME NEW t \in Threads, JoinVisit(t) PROVE Inv'
    BY <1>16 DEF JoinVisit, Joiner
  <1>17. ASSUME NativeBoot PROVE Inv'
    BY <1>17 DEF NativeBoot, Goto
  <1>18. ASSUME StopFlag PROVE Inv'
    BY <1>18 DEF StopFlag
  <1>19. ASSUME StopGuest PROVE Inv'
    BY <1>19 DEF StopGuest
  <1>20. ASSUME StopNotify PROVE Inv'
    BY <1>20 DEF StopNotify, Notified
  <1>21. ASSUME JoinMainThread PROVE Inv'
    BY <1>21 DEF JoinMainThread, Goto, NewPass
  <1>22. ASSUME KeepMemory PROVE Inv'
    BY <1>22 DEF KeepMemory, TimeIsUp
  <1>23. ASSUME DestroyRuntime PROVE Inv'
    BY <1>23 DEF DestroyRuntime, Notified, NewPass, AllFinished
  <1>24. ASSUME UnmapOrKeep PROVE Inv'
    BY <1>24 DEF UnmapOrKeep, AllFinished, TimeIsUp
  <1>25. ASSUME RunGuestMain PROVE Inv'
    BY <1>25 DEF RunGuestMain, Goto
  <1>26. ASSUME AfterGuest PROVE Inv'
    BY <1>26 DEF AfterGuest, Goto, NewPass
  <1>27. ASSUME Linger PROVE Inv'
    BY <1>27 DEF Linger, Goto, NewPass
  <1>28. ASSUME MainJoined PROVE Inv'
    BY <1>28 DEF MainJoined, Goto, AllFinished, TimeIsUp
  <1>29. ASSUME Decide PROVE Inv'
    BY <1>29 DEF Decide, Goto
  <1>30. ASSUME ConsumeTitleRelaunch PROVE Inv'
    BY <1>30 DEF ConsumeTitleRelaunch, Goto
  <1>31. ASSUME ClearTables PROVE Inv'
    BY <1>31 DEF ClearTables
  <1>32. ASSUME ClearFlags PROVE Inv'
    BY <1>32 DEF ClearFlags, Goto
  <1>33. ASSUME JoinAgain PROVE Inv'
    BY <1>33 DEF JoinAgain, NewPass, Joiner
  <1>34. ASSUME InterruptLoopEnds PROVE Inv'
    BY <1>34 DEF InterruptLoopEnds
  <1> QED
    BY <1>1, <1>2, <1>3, <1>4, <1>5, <1>6, <1>7, <1>8, <1>9, <1>10, <1>11, <1>12, <1>13, <1>14, <1>15, <1>16, <1>17, <1>18, <1>19, <1>20, <1>21, <1>22, <1>23, <1>24, <1>25, <1>26, <1>27, <1>28, <1>29, <1>30, <1>31, <1>32, <1>33, <1>34 DEF Next, GuestStep, ThreadStep, JoinStep, MainStep, UiStep

-----------------------------------------------------------------------------
\* The initial states satisfy both.
LEMMA InitInv == Init => TypeInv /\ Inv
  <1> SUFFICES ASSUME Init PROVE TypeInv /\ Inv
    OBVIOUS
  <1>1. TypeInv
    <2>1. 0 \in 0..kMaxBoots + 1 /\ 0 \in 0..MaxSessions /\ 0 \in 0..MaxSuspend
      BY LifecycleAssumption
    <2>2. TypeOK
      BY <2>1, LifecycleAssumption DEF Init, TypeOK
    <2>3. BootBound /\ LevelsLeft
      BY DEF Init, BootBound, LevelsLeft
    <2> QED
      BY <2>2, <2>3 DEF TypeInv
  <1>2. Inv
    BY LifecycleAssumption
    DEF Init, Inv, TableIsComplete, NoJoinableDestroyed, OneJoiner, JoinCovers, NobodyLeft,
        Busy, AllJoined, BornBefore, NoStrayThread, IdsIssued, GuestThreadIdsDistinct
  <1> QED
    BY <1>1, <1>2

\* A stuttering step keeps whatever is true of the variables.
LEMMA Stutter == UNCHANGED vars => (TypeInv => TypeInv') /\ (Inv => Inv')
  <1> SUFFICES ASSUME UNCHANGED vars PROVE (TypeInv => TypeInv') /\ (Inv => Inv')
    OBVIOUS
  <1> USE DEF vars, threadVars, irqVars, titleVars, uiVars, joinVars
  <1>1. TypeInv => TypeInv'
    BY DEF TypeInv, TypeOK, BootBound, LevelsLeft
  <1>2. Inv => Inv'
    BY DEF Inv, TableIsComplete, NoJoinableDestroyed, OneJoiner, JoinCovers, NobodyLeft,
           Busy, AllJoined, BornBefore, NoStrayThread, IdsIssued, GuestThreadIdsDistinct
  <1> QED
    BY <1>1, <1>2

\* The types hold whatever the shutdown does.
LEMMA TypeInvariance == Spec => []TypeInv
  <1>1. Init => TypeInv
    BY InitInv
  <1>2. TypeInv /\ [Next]_vars => TypeInv'
    BY TypeInvStep, Stutter
  <1> QED
    BY <1>1, <1>2, PTL DEF Spec

\* What the results below suppose: joinAll does not give up before a relaunch, and no
\* thread is created while the title is being shut down.
CleanShutdown == JoinCompletes /\ ~LateCreation

\* The invariant always holds when shutdowns are clean.
LEMMA Invariance == CleanShutdown /\ Spec => []Inv
  <1>1. ASSUME CleanShutdown PROVE Spec => []Inv
    <2>1. Init => Inv
      BY InitInv
    <2>2. TypeInv /\ Inv /\ [Next]_vars => Inv'
      BY <1>1, InvStep, Stutter DEF CleanShutdown
    <2> QED
      BY <2>1, <2>2, TypeInvariance, PTL DEF Spec
  <1> QED
    BY <1>1

-----------------------------------------------------------------------------
\* Every variable keeps its type: boot counts stay within kMaxBoots and a thread that
\* has not started never runs out of suspend levels.
THEOREM TypeCorrect == Spec => []TypeOK
  <1>1. TypeInv => TypeOK
    BY DEF TypeInv
  <1> QED
    BY TypeInvariance, <1>1, PTL

\* joinAll and the flags of the title together keep every thread of a boot from
\* running in the next one.
THEOREM BootsAreSeparate == CleanShutdown /\ Spec => []NoStrayThread
  <1>1. Inv => NoStrayThread
    BY DEF Inv
  <1> QED
    BY Invariance, <1>1, PTL

\* A relaunch destroys only threads that were joined.
THEOREM RelaunchNeverAborts == CleanShutdown /\ Spec => []NoJoinableDestroyed
  <1>1. Inv => NoJoinableDestroyed
    BY DEF Inv
  <1> QED
    BY Invariance, <1>1, PTL

\* Kernel thread ids stay distinct across relaunches.
THEOREM IdsStayDistinct == CleanShutdown /\ Spec => []GuestThreadIdsDistinct
  <1>1. Inv => GuestThreadIdsDistinct
    BY DEF Inv
  <1> QED
    BY Invariance, <1>1, PTL

\* nativeStop never unmaps the memory under a guest thread, even when its joins give up.
THEOREM MemoryAlwaysOutlivesGuest == CleanShutdown /\ Spec => []MemoryOutlivesGuest
  <1>1. TypeInv /\ Inv => MemoryOutlivesGuest
    BY DEF TypeInv, TypeOK, Inv, NobodyLeft, AllJoined, Busy, MemoryOutlivesGuest
  <1> QED
    BY TypeInvariance, Invariance, <1>1, PTL

-----------------------------------------------------------------------------
(***************************************************************************)
(* A relaunch has been asked for.  Whoever asks is a thread of the guest,  *)
(* and none is left from the decision on until the next boot has begun, so *)
(* the request that is consumed is of the boot that ends, and none is      *)
(* pending when `asked' starts over.  A second session may find a request  *)
(* that the stop of the first has left: this is about one session.         *)
(***************************************************************************)
Quiet == AllJoined /\ ~g_relaunchRequested
AskedFor ==
  /\ g_relaunchRequested => asked
  /\ pc[Main] \in {"clearing", "unstopping"} => asked /\ Quiet
  /\ pc[Main] = "top" => Quiet
  /\ session = 0 => Quiet /\ pc[Main] = "off"

\* Every action keeps it: the requests come from LaunchTitle, the rest from Main's own steps.
LEMMA AskedForStep ==
  ASSUME MaxSessions = 1, TypeInv, Inv, AskedFor, Next
  PROVE  AskedFor'
  <1> USE LifecycleAssumption
      DEF TypeInv, TypeOK, Inv, NobodyLeft, Busy, AllJoined, Quiet, AskedFor,
          threadVars, irqVars, titleVars, uiVars, joinVars
  <1>1. ASSUME NEW a \in Actors, NEW t \in Threads, CreateThread(a, t) PROVE AskedFor'
    BY <1>1 DEF CreateThread, ShuttingDown
  <1>2. ASSUME NEW a \in Actors, NEW t \in Threads, ResumeThread(a, t) PROVE AskedFor'
    BY <1>2 DEF ResumeThread
  <1>3. ASSUME NEW a \in Actors, NEW t \in Threads, SuspendThread(a, t) PROVE AskedFor'
    BY <1>3 DEF SuspendThread
  <1>4. ASSUME NEW a \in Actors, SetGraphicsInterruptCallback(a) PROVE AskedFor'
    BY <1>4 DEF SetGraphicsInterruptCallback
  <1>5. ASSUME NEW a \in Actors, LaunchTitle(a) PROVE AskedFor'
    BY <1>5 DEF LaunchTitle, Goto
  <1>6. ASSUME NEW a \in Actors, TerminateTitle(a) PROVE AskedFor'
    BY <1>6 DEF TerminateTitle, Goto
  <1>7. ASSUME NEW a \in Actors, RequestStop(a) PROVE AskedFor'
    BY <1>7 DEF RequestStop, Goto
  <1>8. ASSUME NEW a \in Actors, NotifyAndLeave(a) PROVE AskedFor'
    BY <1>8 DEF NotifyAndLeave, Exit, Notified
  <1>9. ASSUME NEW a \in Actors, Block(a) PROVE AskedFor'
    BY <1>9 DEF Block, Goto
  <1>10. ASSUME NEW a \in Actors, Unblock(a) PROVE AskedFor'
    BY <1>10 DEF Unblock, Goto
  <1>11. ASSUME NEW a \in Actors, Unwind(a) PROVE AskedFor'
    BY <1>11 DEF Unwind, Goto, Exit, Leaves
  <1>12. ASSUME NEW a \in Actors, Return(a) PROVE AskedFor'
    BY <1>12 DEF Return, Goto, Exit, Leaves
  <1>13. ASSUME NEW t \in Threads, Start(t) PROVE AskedFor'
    BY <1>13 DEF Start, Goto
  <1>14. ASSUME NEW t \in Threads, NeverStarts(t) PROVE AskedFor'
    BY <1>14 DEF NeverStarts, Goto, Exit, Leaves
  <1>15. ASSUME NEW t \in Threads, Parks(t) PROVE AskedFor'
    BY <1>15 DEF Parks, Goto
  <1>16. ASSUME NEW t \in Threads, JoinVisit(t) PROVE AskedFor'
    BY <1>16 DEF JoinVisit, Joiner
  <1>17. ASSUME NativeBoot PROVE AskedFor'
    BY <1>17 DEF NativeBoot, Goto
  <1>18. ASSUME StopFlag PROVE AskedFor'
    BY <1>18 DEF StopFlag
  <1>19. ASSUME StopGuest PROVE AskedFor'
    BY <1>19 DEF StopGuest
  <1>20. ASSUME StopNotify PROVE AskedFor'
    BY <1>20 DEF StopNotify, Notified
  <1>21. ASSUME JoinMainThread PROVE AskedFor'
    BY <1>21 DEF JoinMainThread, Goto
  <1>22. ASSUME KeepMemory PROVE AskedFor'
    BY <1>22 DEF KeepMemory
  <1>23. ASSUME DestroyRuntime PROVE AskedFor'
    BY <1>23 DEF DestroyRuntime, Notified
  <1>24. ASSUME UnmapOrKeep PROVE AskedFor'
    BY <1>24 DEF UnmapOrKeep
  <1>25. ASSUME RunGuestMain PROVE AskedFor'
    BY <1>25 DEF RunGuestMain, Goto
  <1>26. ASSUME AfterGuest PROVE AskedFor'
    BY <1>26 DEF AfterGuest, Goto
  <1>27. ASSUME Linger PROVE AskedFor'
    BY <1>27 DEF Linger, Goto
  <1>28. ASSUME MainJoined PROVE AskedFor'
    BY <1>28 DEF MainJoined, Goto
  <1>29. ASSUME Decide PROVE AskedFor'
    BY <1>29 DEF Decide, Goto
  <1>30. ASSUME ConsumeTitleRelaunch PROVE AskedFor'
    BY <1>30 DEF ConsumeTitleRelaunch, Goto
  <1>31. ASSUME ClearTables PROVE AskedFor'
    BY <1>31 DEF ClearTables
  <1>32. ASSUME ClearFlags PROVE AskedFor'
    BY <1>32 DEF ClearFlags, Goto
  <1>33. ASSUME JoinAgain PROVE AskedFor'
    BY <1>33 DEF JoinAgain
  <1>34. ASSUME InterruptLoopEnds PROVE AskedFor'
    BY <1>34 DEF InterruptLoopEnds
  <1> QED
    BY <1>1, <1>2, <1>3, <1>4, <1>5, <1>6, <1>7, <1>8, <1>9, <1>10, <1>11, <1>12, <1>13, <1>14, <1>15, <1>16, <1>17, <1>18,
       <1>19, <1>20, <1>21, <1>22, <1>23, <1>24, <1>25, <1>26, <1>27, <1>28, <1>29, <1>30, <1>31, <1>32, <1>33, <1>34
    DEF Next, GuestStep, ThreadStep, JoinStep, MainStep, UiStep

\* In one session the title is relaunched only if it asked for it in the boot that ends.
THEOREM RelaunchesAreAskedFor ==
  MaxSessions = 1 /\ CleanShutdown /\ Spec => []RelaunchOnlyIfAsked
  <1>1. ASSUME MaxSessions = 1, CleanShutdown PROVE Spec => []RelaunchOnlyIfAsked
    <2>1. Init => AskedFor
      BY LifecycleAssumption DEF Init, AskedFor, Quiet, AllJoined, Busy
    <2>2. TypeInv /\ Inv /\ AskedFor /\ [Next]_vars => AskedFor'
      <3>1. AskedFor /\ UNCHANGED vars => AskedFor'
        BY DEF AskedFor, Quiet, AllJoined, Busy, vars, threadVars, titleVars, uiVars
      <3> QED
        BY <1>1, <3>1, AskedForStep
    <2>3. AskedFor => RelaunchOnlyIfAsked
      BY DEF AskedFor, RelaunchOnlyIfAsked
    <2>4. Spec => []Inv
      BY <1>1, Invariance
    <2> QED
      BY <2>1, <2>2, <2>3, <2>4, TypeInvariance, PTL DEF Spec
  <1> QED
    BY <1>1
=============================================================================
