--------------------------- MODULE TitleLifecycle ---------------------------
(***************************************************************************)
(* The life of the title: nativeBoot and nativeStop (native_main.cpp), the *)
(* boot and relaunch loop of PpcRuntime::run, runGuestMain and             *)
(* guestThreadBody (guest_entry.cpp), the guest threads, requestStop,      *)
(* joinAll, terminateTitle and resetTitleState (kernel_state.cpp).         *)
(*                                                                         *)
(* Three kinds of threads share g_stop, g_titleTerminated,                 *)
(* g_relaunchRequested and g_threads, and most flags are written without a *)
(* lock: the UI thread stops the session, the runtime's thread (which is   *)
(* also the guest's main thread) boots and relaunches, and any guest       *)
(* thread may ask for a relaunch, a termination or a stop.  Each flag is   *)
(* written or read in a step of its own.                                   *)
(*                                                                         *)
(* A wait of a guest thread is one pc, "waiting": KernelWait models what   *)
(* happens inside.                                                         *)
(***************************************************************************)
EXTENDS Integers, FiniteSets

CONSTANTS
  Threads,        \* the GuestThread objects one session may create
  Main,           \* the runtime's thread, which runs the guest's entry point
  kMaxBoots,      \* relaunches are refused beyond this many boots
  MaxSuspend,     \* bound: largest suspend count
  MaxSessions,    \* bound: nativeBoot calls that succeed
  JoinCompletes,  \* TRUE: joinAll never gives up before a relaunch
  LateCreation    \* TRUE: threads are created while the title is being shut down

ASSUME LifecycleAssumption ==
  /\ Main \notin Threads /\ IsFiniteSet(Threads)
  /\ kMaxBoots \in Nat \ {0} /\ MaxSuspend \in Nat \ {0} /\ MaxSessions \in Nat \ {0}
  /\ JoinCompletes \in BOOLEAN /\ LateCreation \in BOOLEAN

Actors == Threads \union {Main}

VARIABLES
  pc,           \* of every guest thread and of Main
  g_threads,    \* the thread table
  started, suspendCount,                  \* fields of GuestThread
  born,         \* the session and the boot in which a thread was created
  id,           \* kernel thread id of a guest thread
  g_nextKernelThreadId,
  irq, irqId,   \* graphicsInterruptLoop: its state and its thread id
  g_stop, g_titleTerminated, g_relaunchRequested,
  stopRequested, booted,                  \* RuntimeState
  session, boot,
  asked,        \* history: a relaunch was requested during this boot
  ui,           \* nativeStop
  mem,          \* the guest's memory: "none", "mapped", "kept" (leaked) or "unmapped"
  snap, alive,  \* joinAll: the threads of its snapshot still to look at; some is alive
  aborted       \* std::terminate: a joinable std::thread was destroyed

threadVars == <<g_threads, started, suspendCount, born, id, g_nextKernelThreadId>>
irqVars    == <<irq, irqId>>
titleVars  == <<g_titleTerminated, g_relaunchRequested, boot, asked>>
uiVars     == <<stopRequested, booted, session, ui, mem>>
joinVars   == <<snap, alive>>
vars == <<pc, threadVars, irqVars, g_stop, titleVars, uiVars, joinVars, aborted>>

\* A thread in one of these executes guest code or is inside a kernel call.
InGuest == {"guest", "waiting", "requesting", "terminating", "stopping"}
\* The body of the thread has not ended.
Unfinished == InGuest \union {"starting", "parking", "parked"}

ThreadPCs == Unfinished \union {"off", "ended", "joined"}
MainPCs   == InGuest \union
  {"off", "top", "left", "lingering", "joiningTitle", "joiningStop",
   "deciding", "consuming", "clearing", "unstopping", "done"}
UiPCs == {"idle", "flagged", "marked", "joining", "closing", "destroying"}

\* Types; suspendCount, which is unsigned in the code, never falls below 0
\* (kernel_state.cpp 163), and joinAll's snapshot holds threads of the table only.
TypeOK ==
  /\ pc \in [Actors -> ThreadPCs \union MainPCs]
  /\ \A t \in Threads : pc[t] \in ThreadPCs
  /\ pc[Main] \in MainPCs
  /\ g_threads \subseteq Threads
  /\ started \in [Threads -> BOOLEAN]
  /\ suspendCount \in [Threads -> 0..MaxSuspend]
  /\ born \in [Threads -> (0..MaxSessions) \X (0..kMaxBoots + 1)]
  /\ boot \in 0..kMaxBoots + 1
  /\ id \in [Threads -> Nat] /\ irqId \in Nat /\ g_nextKernelThreadId \in Nat
  /\ irq \in {"unstarted", "running", "ended"}
  /\ {g_stop, g_titleTerminated, g_relaunchRequested, stopRequested, booted,
      asked, alive, aborted} \subseteq BOOLEAN
  /\ session \in 0..MaxSessions
  /\ ui \in UiPCs
  /\ mem \in {"none", "mapped", "kept", "unmapped"}
  /\ snap \subseteq g_threads

Init ==
  /\ pc = [a \in Actors |-> "off"]
  /\ g_threads = {}
  /\ started = [t \in Threads |-> FALSE]
  /\ suspendCount = [t \in Threads |-> 0]
  /\ born = [t \in Threads |-> <<0, 0>>]
  /\ id = [t \in Threads |-> 0]
  /\ g_nextKernelThreadId = 2
  /\ irq = "unstarted" /\ irqId = 0
  /\ g_stop = FALSE /\ g_titleTerminated = FALSE /\ g_relaunchRequested = FALSE
  /\ stopRequested = FALSE /\ booted = FALSE
  /\ session = 0 /\ boot = 0
  /\ asked = FALSE
  /\ ui = "idle" /\ mem = "none"
  /\ snap = {} /\ alive = FALSE
  /\ aborted = FALSE

-----------------------------------------------------------------------------
(* Helpers. *)

\* a's own step to pc p.
Goto(a, p) == pc' = [pc EXCEPT ![a] = p]

\* Where a thread goes when its guest code returns or is unwound by a longjmp.
Exit(a) == IF a = Main THEN "left" ELSE "ended"

\* requestStop's notifications of startCv, which do not take startM first: a
\* thread "parking" (predicate false, not yet asleep) misses them.
Notified(p) == [a \in Actors |-> IF a \in g_threads /\ p[a] = "parked" THEN "starting" ELSE p[a]]

\* The GuestThread of a thread dropped from g_threads dies with the thread's own
\* last reference, its std::thread still joinable.
Leaves(a) ==
  /\ Goto(a, Exit(a))
  /\ aborted' = (aborted \/ (a # Main /\ a \notin g_threads))

-----------------------------------------------------------------------------
(* nativeBoot and the loop of PpcRuntime::run. *)

\* Nothing of the kernel's flags is reset here.
NativeBoot ==
  /\ ui = "idle" /\ ~booted /\ session < MaxSessions
  /\ session' = session + 1
  /\ booted' = TRUE /\ stopRequested' = FALSE
  /\ mem' = "mapped"
  /\ boot' = 1
  /\ Goto(Main, "top")
  /\ UNCHANGED <<threadVars, irqVars, g_stop, g_titleTerminated, g_relaunchRequested,
                 asked, ui, joinVars, aborted>>

RunGuestMain ==
  /\ pc[Main] = "top"
  /\ IF boot > kMaxBoots THEN Goto(Main, "done") ELSE Goto(Main, "guest")
  /\ asked' = FALSE
  /\ UNCHANGED <<threadVars, irqVars, g_stop, g_titleTerminated, g_relaunchRequested, boot,
                 uiVars, joinVars, aborted>>

-----------------------------------------------------------------------------
(* What guest code does: a is a guest thread or Main. *)

ShuttingDown == g_stop \/ g_titleTerminated

\* Mutant: the id is read but the counter not advanced.
CreateThreadSameId(a, t) ==
  /\ pc[a] = "guest"
  /\ pc[t] = "off"
  /\ ShuttingDown => LateCreation
  /\ pc' = [pc EXCEPT ![t] = "starting"]
  /\ g_threads' = g_threads \union {t}
  /\ started' = [started EXCEPT ![t] = FALSE]
  /\ suspendCount' = [suspendCount EXCEPT ![t] = 1]
  /\ born' = [born EXCEPT ![t] = <<session, boot>>]
  /\ id' = [id EXCEPT ![t] = g_nextKernelThreadId]
  /\ UNCHANGED <<g_nextKernelThreadId, irqVars, g_stop, titleVars, uiVars, joinVars, aborted>>

CreateThread(a, t) ==
  /\ pc[a] = "guest"
  /\ pc[t] = "off"
  /\ ShuttingDown => LateCreation
  /\ pc' = [pc EXCEPT ![t] = "starting"]
  /\ g_threads' = g_threads \union {t}
  /\ started' = [started EXCEPT ![t] = FALSE]
  /\ suspendCount' = [suspendCount EXCEPT ![t] = 1]
  /\ born' = [born EXCEPT ![t] = <<session, boot>>]
  /\ id' = [id EXCEPT ![t] = g_nextKernelThreadId]
  /\ g_nextKernelThreadId' = g_nextKernelThreadId + 1
  /\ UNCHANGED <<irqVars, g_stop, titleVars, uiVars, joinVars, aborted>>

\* NtResumeThread, KeResumeThread: only the last level starts the thread.  Once it has
\* started nobody reads its count again, so the calls that come later are left out:
\* neither a resume nor a suspend has any effect on a thread that runs.
\* startM is free unless t is "parking".
ResumeThread(a, t) ==
  /\ pc[a] = "guest" /\ t \in g_threads /\ ~started[t]
  /\ suspendCount' = [suspendCount EXCEPT ![t] = @ - 1]
  /\ \/ /\ suspendCount[t] > 1
        /\ UNCHANGED <<started, pc>>
     \/ /\ suspendCount[t] <= 1
        /\ pc[t] # "parking"
        /\ started' = [started EXCEPT ![t] = TRUE]
        /\ pc' = [pc EXCEPT ![t] = IF @ = "parked" THEN "starting" ELSE @]
  /\ UNCHANGED <<g_threads, born, id, g_nextKernelThreadId, irqVars, g_stop, titleVars,
                 uiVars, joinVars, aborted>>

SuspendThread(a, t) ==
  /\ pc[a] = "guest" /\ t \in g_threads /\ ~started[t]
  /\ suspendCount[t] < MaxSuspend
  /\ suspendCount' = [suspendCount EXCEPT ![t] = @ + 1]
  /\ UNCHANGED <<pc, g_threads, started, born, id, g_nextKernelThreadId, irqVars, g_stop,
                 titleVars, uiVars, joinVars, aborted>>

\* The interrupt thread is created once in the life of the process.
SetGraphicsInterruptCallback(a) ==
  /\ pc[a] = "guest"
  /\ irq = "unstarted"
  /\ irq' = "running"
  /\ irqId' = g_nextKernelThreadId
  /\ g_nextKernelThreadId' = g_nextKernelThreadId + 1
  /\ UNCHANGED <<pc, g_threads, started, suspendCount, born, id, g_stop, titleVars, uiVars,
                 joinVars, aborted>>

\* XamLoaderLaunchTitle: the request first, then what TerminateTitle does.
LaunchTitle(a) ==
  /\ pc[a] = "guest"
  /\ g_relaunchRequested' = TRUE /\ asked' = TRUE
  /\ Goto(a, "requesting")
  /\ UNCHANGED <<threadVars, irqVars, g_stop, g_titleTerminated, boot, uiVars, joinVars, aborted>>

TerminateTitle(a) ==
  /\ pc[a] \in {"guest", "requesting"}
  /\ g_titleTerminated' = TRUE
  /\ Goto(a, "terminating")
  /\ UNCHANGED <<threadVars, irqVars, g_stop, g_relaunchRequested, boot, asked, uiVars,
                 joinVars, aborted>>

\* requestStop, from terminateTitle or from HalReturnToFirmware ("guest").
RequestStop(a) ==
  /\ pc[a] \in {"guest", "terminating"}
  /\ g_stop' = TRUE
  /\ Goto(a, "stopping")
  /\ UNCHANGED <<threadVars, irqVars, titleVars, uiVars, joinVars, aborted>>

\* Its notifications, then the longjmp of the calling thread.
NotifyAndLeave(a) ==
  /\ pc[a] = "stopping"
  /\ pc' = [Notified(pc) EXCEPT ![a] = Exit(a)]
  /\ aborted' = (aborted \/ (a # Main /\ a \notin g_threads))
  /\ UNCHANGED <<threadVars, irqVars, g_stop, titleVars, uiVars, joinVars>>

Block(a) ==
  /\ pc[a] = "guest"
  /\ Goto(a, "waiting")
  /\ UNCHANGED <<threadVars, irqVars, g_stop, titleVars, uiVars, joinVars, aborted>>

\* The wait is satisfied or times out, which a stop does not prevent.
Unblock(a) ==
  /\ pc[a] = "waiting"
  /\ Goto(a, "guest")
  /\ UNCHANGED <<threadVars, irqVars, g_stop, titleVars, uiVars, joinVars, aborted>>

Unwind(a) ==
  /\ pc[a] = "waiting" /\ g_stop
  /\ Leaves(a)
  /\ UNCHANGED <<threadVars, irqVars, g_stop, titleVars, uiVars, joinVars>>

\* The routine returns, or ExTerminateThread, or a bugcheck.
Return(a) ==
  /\ pc[a] = "guest"
  /\ Leaves(a)
  /\ UNCHANGED <<threadVars, irqVars, g_stop, titleVars, uiVars, joinVars>>

-----------------------------------------------------------------------------
(* guestThreadBody waits on startCv until the thread is resumed or a stop;    *)
(* graphicsInterruptLoop polls g_stop.                                        *)

Start(t) ==
  /\ pc[t] = "starting" /\ started[t]
  /\ Goto(t, "guest")
  /\ UNCHANGED <<threadVars, irqVars, g_stop, titleVars, uiVars, joinVars, aborted>>

NeverStarts(t) ==
  /\ pc[t] = "starting" /\ ~started[t] /\ g_stop
  /\ Leaves(t)
  /\ UNCHANGED <<threadVars, irqVars, g_stop, titleVars, uiVars, joinVars>>

Parks(t) ==
  /\ \/ pc[t] = "starting" /\ ~started[t] /\ ~g_stop /\ Goto(t, "parking")
     \/ pc[t] = "parking" /\ Goto(t, "parked")
  /\ UNCHANGED <<threadVars, irqVars, g_stop, titleVars, uiVars, joinVars, aborted>>

InterruptLoopEnds ==
  /\ irq = "running" /\ g_stop
  /\ irq' = "ended"
  /\ UNCHANGED <<pc, threadVars, irqId, g_stop, titleVars, uiVars, joinVars, aborted>>

-----------------------------------------------------------------------------
(* joinAll: passes over a snapshot of g_threads until all have finished or   *)
(* the time is up.  Main calls it, and the UI thread when Main is done.      *)

NewPass == snap' = g_threads /\ alive' = FALSE

Joiner == pc[Main] \in {"joiningTitle", "joiningStop"} \/ ui \in {"closing", "destroying"}

\* Mutant: a thread that has not finished does not count.
JoinVisitBlind(t) ==
  /\ Joiner /\ t \in snap
  /\ snap' = snap \ {t}
  /\ pc' = [pc EXCEPT ![t] = IF @ = "ended" THEN "joined" ELSE @]
  /\ UNCHANGED <<threadVars, irqVars, g_stop, titleVars, uiVars, alive, aborted>>

JoinVisit(t) ==
  /\ Joiner /\ t \in snap
  /\ snap' = snap \ {t}
  /\ pc' = [pc EXCEPT ![t] = IF @ = "ended" THEN "joined" ELSE @]
  /\ alive' = (alive \/ pc[t] \in Unfinished)
  /\ UNCHANGED <<threadVars, irqVars, g_stop, titleVars, uiVars, aborted>>

JoinAgain ==
  /\ Joiner /\ snap = {} /\ alive
  /\ NewPass
  /\ UNCHANGED <<pc, threadVars, irqVars, g_stop, titleVars, uiVars, aborted>>

AllFinished == snap = {} /\ ~alive
TimeIsUp    == snap = {} /\ alive

-----------------------------------------------------------------------------
(* runGuestMain after the guest's entry point, and PpcRuntime::run.          *)

\* Mutant: the terminated title's threads are not joined.
AfterGuestUnjoined ==
  /\ pc[Main] = "left"
  /\ Goto(Main, IF g_titleTerminated THEN "deciding" ELSE "lingering")
  /\ NewPass
  /\ UNCHANGED <<threadVars, irqVars, g_stop, titleVars, uiVars, aborted>>

AfterGuest ==
  /\ pc[Main] = "left"
  /\ Goto(Main, IF g_titleTerminated THEN "joiningTitle" ELSE "lingering")
  /\ NewPass
  /\ UNCHANGED <<threadVars, irqVars, g_stop, titleVars, uiVars, aborted>>

\* A main that left for another reason than a termination waits for nativeStop.
Linger ==
  /\ pc[Main] = "lingering" /\ stopRequested
  /\ Goto(Main, "joiningStop")
  /\ NewPass
  /\ UNCHANGED <<threadVars, irqVars, g_stop, titleVars, uiVars, aborted>>

MainJoined ==
  /\ \/ pc[Main] = "joiningTitle" /\ (AllFinished \/ (TimeIsUp /\ ~JoinCompletes))
     \/ pc[Main] = "joiningStop" /\ (AllFinished \/ TimeIsUp)
  /\ Goto(Main, "deciding")
  /\ UNCHANGED <<threadVars, irqVars, g_stop, titleVars, uiVars, joinVars, aborted>>

Decide ==
  /\ pc[Main] = "deciding"
  /\ Goto(Main, IF stopRequested THEN "done" ELSE "consuming")
  /\ UNCHANGED <<threadVars, irqVars, g_stop, titleVars, uiVars, joinVars, aborted>>

\* Mutant: the request survives its consumption.
ConsumeTitleRelaunchKept ==
  /\ pc[Main] = "consuming"
  /\ Goto(Main, IF g_relaunchRequested THEN "clearing" ELSE "done")
  /\ UNCHANGED <<threadVars, irqVars, g_stop, titleVars, uiVars, joinVars, aborted>>

ConsumeTitleRelaunch ==
  /\ pc[Main] = "consuming"
  /\ g_relaunchRequested' = FALSE
  /\ Goto(Main, IF g_relaunchRequested THEN "clearing" ELSE "done")
  /\ UNCHANGED <<threadVars, irqVars, g_stop, g_titleTerminated, boot, asked, uiVars,
                 joinVars, aborted>>

\* resetTitleState, the tables: a GuestThread that has finished but was not joined
\* is destroyed here with its std::thread joinable.
ClearTables ==
  /\ pc[Main] = "clearing"
  /\ g_threads' = {}
  /\ g_nextKernelThreadId' = 2
  /\ pc' = [a \in Actors |->
              IF a = Main THEN "unstopping"
              ELSE IF a \in g_threads /\ pc[a] \in {"ended", "joined"} THEN "off"
              ELSE pc[a]]
  /\ aborted' = (aborted \/ \E t \in g_threads : pc[t] = "ended")
  /\ snap' = {}
  /\ UNCHANGED <<started, suspendCount, born, id, irqVars, g_stop, titleVars, uiVars, alive>>

\* resetTitleState, the flags; then the next boot.
ClearFlags ==
  /\ pc[Main] = "unstopping"
  /\ g_stop' = FALSE /\ g_titleTerminated' = FALSE
  /\ boot' = boot + 1
  /\ Goto(Main, "top")
  /\ UNCHANGED <<threadVars, irqVars, g_relaunchRequested, asked, uiVars, joinVars, aborted>>

-----------------------------------------------------------------------------
(* nativeStop, on the UI thread. *)

StopFlag ==
  /\ ui = "idle" /\ booted
  /\ stopRequested' = TRUE
  /\ ui' = "flagged"
  /\ UNCHANGED <<pc, threadVars, irqVars, g_stop, titleVars, booted, session, mem, joinVars, aborted>>

StopGuest ==
  /\ ui = "flagged"
  /\ g_stop' = TRUE
  /\ ui' = "marked"
  /\ UNCHANGED <<pc, threadVars, irqVars, titleVars, stopRequested, booted, session, mem,
                 joinVars, aborted>>

StopNotify ==
  /\ ui = "marked"
  /\ pc' = Notified(pc)
  /\ ui' = "joining"
  /\ UNCHANGED <<threadVars, irqVars, g_stop, titleVars, stopRequested, booted, session, mem,
                 joinVars, aborted>>

JoinMainThread ==
  /\ ui = "joining" /\ pc[Main] = "done"
  /\ Goto(Main, "off")
  /\ ui' = "closing"
  /\ NewPass
  /\ UNCHANGED <<threadVars, irqVars, g_stop, titleVars, stopRequested, booted, session, mem, aborted>>

\* Mutant: the memory is unmapped although threads were found alive.
KeepMemoryUnmaps ==
  /\ ui = "closing" /\ TimeIsUp
  /\ mem' = "unmapped" /\ booted' = FALSE /\ ui' = "idle"
  /\ UNCHANGED <<pc, threadVars, irqVars, g_stop, titleVars, stopRequested, session, joinVars, aborted>>

\* joinAll(2000) found threads alive: the memory is released, that is leaked.
KeepMemory ==
  /\ ui = "closing" /\ TimeIsUp
  /\ mem' = "kept" /\ booted' = FALSE /\ ui' = "idle"
  /\ UNCHANGED <<pc, threadVars, irqVars, g_stop, titleVars, stopRequested, session, joinVars, aborted>>

\* ~PpcRuntime: requestStop again and a second joinAll.
DestroyRuntime ==
  /\ ui = "closing" /\ AllFinished
  /\ g_stop' = TRUE
  /\ pc' = Notified(pc)
  /\ ui' = "destroying"
  /\ NewPass
  /\ UNCHANGED <<threadVars, irqVars, titleVars, stopRequested, booted, session, mem, aborted>>

UnmapOrKeep ==
  /\ ui = "destroying"
  /\ \/ AllFinished /\ mem' = "unmapped"
     \/ TimeIsUp /\ mem' = "kept"
  /\ booted' = FALSE /\ ui' = "idle"
  /\ UNCHANGED <<pc, threadVars, irqVars, g_stop, titleVars, stopRequested, session, joinVars, aborted>>

-----------------------------------------------------------------------------
GuestStep(a) ==
  \/ \E t \in Threads : CreateThread(a, t) \/ ResumeThread(a, t) \/ SuspendThread(a, t)
  \/ SetGraphicsInterruptCallback(a)
  \/ LaunchTitle(a) \/ TerminateTitle(a) \/ RequestStop(a) \/ NotifyAndLeave(a)
  \/ Block(a) \/ Unblock(a) \/ Unwind(a) \/ Return(a)

ThreadStep(t) == Start(t) \/ NeverStarts(t) \/ Parks(t)

JoinStep == (\E t \in Threads : JoinVisit(t)) \/ JoinAgain

MainStep ==
  \/ RunGuestMain \/ AfterGuest \/ Linger \/ MainJoined \/ Decide
  \/ ConsumeTitleRelaunch \/ ClearTables \/ ClearFlags

UiStep ==
  \/ StopGuest \/ StopNotify \/ JoinMainThread
  \/ KeepMemory \/ DestroyRuntime \/ UnmapOrKeep

\* A std::terminate ends the process.
Next ==
  /\ ~aborted
  /\ \/ NativeBoot \/ StopFlag \/ UiStep \/ MainStep \/ JoinStep
     \/ \E a \in Actors : GuestStep(a)
     \/ \E t \in Threads : ThreadStep(t)
     \/ InterruptLoopEnds

Spec == Init /\ [][Next]_vars

(***************************************************************************)
(* Fairness: every thread that has a step to take takes it, the guest's    *)
(* code reaches a blocking call again and again, a thread that blocks again *)
(* and again after g_stop is unwound once (what StopWakesEveryWaiter of    *)
(* KernelWait questions is not repeated here), and joinAll's time passes.   *)
(***************************************************************************)
Continues(a) ==
  pc[a] \in {"requesting", "terminating", "stopping"} /\ GuestStep(a)

Fairness ==
  /\ SF_vars(UiStep) /\ SF_vars(MainStep) /\ WF_vars(JoinStep)
  /\ \A a \in Actors : WF_vars(Continues(a)) /\ WF_vars(Block(a)) /\ SF_vars(Unwind(a))
  /\ \A t \in Threads : WF_vars(ThreadStep(t))

FairSpec == Spec /\ Fairness

-----------------------------------------------------------------------------
(* Safety. *)

\* No thread of an earlier boot of the session outlives it: when the title is
\* (re)launched, every thread still running was created by this very boot.
\* kernel_state.cpp 615 requires it; it takes joinAll, the title's flags and the
\* creation of threads to agree.
NoStrayThread ==
  pc[Main] \in InGuest \union {"top"} =>
    \A t \in Threads :
      pc[t] \in Unfinished /\ born[t][1] = session => born[t][2] = boot

\* The process never dies of destroying a GuestThread that nobody joined.
NoJoinableDestroyed == ~aborted

\* Two running guest threads never have the same kernel id, although a relaunch
\* starts the ids over at 2: critical sections tell their owners by it.
GuestThreadIdsDistinct ==
  \A t, u \in Threads :
    t # u /\ pc[t] \in Unfinished /\ pc[u] \in Unfinished => id[t] # id[u]

\* nativeStop unmaps the guest's memory only when no guest thread can touch it,
\* however late a thread is to leave.
MemoryOutlivesGuest ==
  mem = "unmapped" => \A a \in Actors : pc[a] \notin InGuest

\* The title is relaunched only if it asked for it in the boot that ends.
RelaunchOnlyIfAsked == pc[Main] \in {"clearing", "unstopping"} => asked

-----------------------------------------------------------------------------
(* What the comments and documents of the code claim and the code does not do. *)

\* DECISIONS.md 250-252 and native_main.cpp 178-181: requestStop makes every guest
\* thread leave, so nativeStop's join of the main thread returns.
StopReturns == (ui # "idle") ~> (ui = "idle")

=============================================================================
