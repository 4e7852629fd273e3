----------------------------- MODULE KernelWait -----------------------------
(***************************************************************************)
(* The wait engine of the HLE kernel: waitable objects (events,            *)
(* semaphores, mutants, timers), waitForMultiple, the operations that      *)
(* signal an object, KeDelayExecutionThread and the global stop            *)
(* (kernel_state.cpp 61-83, 206-226, 249-520; kernel_real.cpp 160-201 and  *)
(* 507-774).                                                               *)
(*                                                                         *)
(* One mutex, g_waitM, and one condition variable, g_waitCv, serve every   *)
(* object.  A step that holds g_waitM from start to end is one action.     *)
(* waitForMultiple holds it while it evaluates its predicate and gives it  *)
(* up by going to sleep, so a thread that found nothing is "checked" (it   *)
(* owns g_waitM and is about to sleep) before it is "sleeping".  Nothing   *)
(* that takes g_waitM happens in between, but requestStop and closeHandle  *)
(* notify without taking it, and they do.                                  *)
(*                                                                         *)
(* Time is a clock of a few ticks.  A freed object may be overwritten by   *)
(* the host's allocator at any moment (HeapReuse).                         *)
(***************************************************************************)
EXTENDS Naturals, Sequences

CONSTANTS
  Threads,       \* the guest threads (each has a jmp_buf to unwind to)
  Events,        \* manual-reset events; every Ke* event is one
  SyncEvents,    \* auto-reset events
  Semaphores,
  Mutants,
  Timers,        \* manual-reset timers
  SyncTimers,    \* auto-reset timers
  NtObjects,     \* the objects that live behind a handle and can be closed
  WaitArrays,    \* the object arrays the guest passes to the wait calls
  MaxCount,      \* maxCount of every semaphore
  MaxTime        \* bound: last instant of the clock

AllTimers  == Timers \union SyncTimers
AutoReset  == SyncEvents \union SyncTimers
Consumable == AutoReset \union Semaphores
Objects    == Events \union Mutants \union Timers \union Consumable

ASSUME KernelWaitAssumption ==
  /\ MaxCount \in Nat \ {0} /\ MaxTime \in Nat
  /\ SyncEvents \subseteq NtObjects /\ NtObjects \subseteq Objects \ AllTimers
  /\ WaitArrays \subseteq Seq(Objects)
  /\ \A a \in WaitArrays : a # <<>> /\ \A i, j \in DOMAIN a : a[i] = a[j] => i = j
  /\ Semaphores \intersect (Events \union AutoReset \union Timers \union Mutants) = {}
  /\ AllTimers \intersect (Events \union SyncEvents \union Mutants) = {}
  /\ AutoReset \intersect (Events \union Timers \union Mutants) = {}

(***************************************************************************)
(* until: 0 is a poll, an instant of 1..MaxTime is a timeout (relative     *)
(* timeouts are converted to an instant on entry), Never is kNoTimeout.    *)
(***************************************************************************)
Never     == MaxTime + 1
Requests  == [objs : WaitArrays, any : BOOLEAN, until : 0..Never]
NoRequest == [objs |-> <<>>, any |-> TRUE, until |-> 0]

VARIABLES
  status,    \* "absent", "live" (in g_keyed or g_handles) or "freed"
  signaled, count, dueAbs,      \* the fields of Waitable; dueAbs 0 = not scheduled
  pc, req, wakeAt,              \* waitForMultiple, per thread
  result,    \* "signaled" if the thread's last wait was; a timeout or an unwind is "none"
  stop,      \* requestStop: "no", "set" (g_stop is true), "announced" (wakeAll done)
  now

objVars == <<status, signaled, count, dueAbs>>
vars == <<objVars, pc, req, wakeAt, result, stop, now>>

g_stop == stop # "no"

PCs == {"running", "entering", "checked", "sleeping", "woken", "delaying", "unwound"}

\* Types; in particular releaseSemaphore never takes a count beyond maxCount
\* (kernel_state.cpp 310), and a wait sleeps until instants of the clock only.
TypeOK ==
  /\ status \in [Objects -> {"absent", "live", "freed"}]
  /\ signaled \in [Objects -> BOOLEAN]
  /\ count \in [Objects -> 0..MaxCount]
  /\ dueAbs \in [Objects -> 0..MaxTime]
  /\ pc \in [Threads -> PCs]
  /\ req \in [Threads -> Requests \union {NoRequest}]
  /\ wakeAt \in [Threads -> SUBSET (0..Never)]
  /\ result \in [Threads -> {"none", "signaled"}]
  /\ stop \in {"no", "set", "announced"}
  /\ now \in 0..MaxTime

Init ==
  /\ status = [o \in Objects |-> "absent"]
  /\ signaled = [o \in Objects |-> FALSE]
  /\ count = [o \in Objects |-> 0]
  /\ dueAbs = [o \in Objects |-> 0]
  /\ pc = [t \in Threads |-> "running"]
  /\ req = [t \in Threads |-> NoRequest]
  /\ wakeAt = [t \in Threads |-> {}]
  /\ result = [t \in Threads |-> "none"]
  /\ stop = "no"
  /\ now = 0

-----------------------------------------------------------------------------
(* g_waitM and g_waitCv. *)

WaitMFree == \A t \in Threads : pc[t] # "checked"

\* pcs after g_waitCv.notify_all(), from the pcs p.
NotifyAll(p) == [t \in Threads |-> IF p[t] = "sleeping" THEN "woken" ELSE p[t]]

\* A running guest thread that calls an operation of the kernel under g_waitM.
Caller(t) == pc[t] = "running" /\ WaitMFree

-----------------------------------------------------------------------------
(* Creation: NtCreate*, KeInitialize* and the lazy creation by waitable(),   *)
(* which makes an unsignaled manual-reset event of an unknown address.       *)

InitialCredits(o) ==
  IF o \in Semaphores THEN 0..MaxCount
  ELSE IF o \in AllTimers \union (Events \ NtObjects) THEN {0}
  ELSE {0, 1}

\* The fields a new or re-initialized object starts with.
Initialize(o, credit) ==
  /\ signaled' = [signaled EXCEPT ![o] = credit > 0]
  /\ count' = [count EXCEPT ![o] = IF o \in Semaphores THEN credit ELSE 0]
  /\ dueAbs' = [dueAbs EXCEPT ![o] = 0]
  /\ UNCHANGED <<pc, req, wakeAt, result, stop, now>>

CreateObject(t, o) ==
  /\ Caller(t)
  /\ status[o] = "absent"
  /\ status' = [status EXCEPT ![o] = "live"]
  /\ \E credit \in InitialCredits(o) : Initialize(o, credit)

WaitsOn(t, o) == \E i \in DOMAIN req[t].objs : req[t].objs[i] = o

\* KeInitialize* on an address already known, which the guest does only when no
\* thread waits on the old object.  Nobody is notified.
ReinitializeObject(t, o) ==
  /\ Caller(t)
  /\ o \notin NtObjects \union Events
  /\ status[o] = "live" /\ \A u \in Threads : ~WaitsOn(u, o)
  /\ \E credit \in InitialCredits(o) : Initialize(o, credit)
  /\ UNCHANGED status

\* NtClose: the handle's only reference is dropped, whoever waits on the object;
\* g_stateM is held, g_waitM is not.
CloseHandle(t, o) ==
  /\ pc[t] = "running"
  /\ o \in NtObjects /\ status[o] = "live"
  /\ status' = [status EXCEPT ![o] = "freed"]
  /\ pc' = NotifyAll(pc)
  /\ UNCHANGED <<signaled, count, dueAbs, req, wakeAt, result, stop, now>>

\* The freed Waitable is reused: what a thread still waiting on it reads is arbitrary.
\* (What such a thread writes when it consumes the signal is not modelled.)
HeapReuse(o) ==
  /\ status[o] = "freed"
  /\ \E b \in BOOLEAN : signaled' = [signaled EXCEPT ![o] = b]
  /\ UNCHANGED <<status, count, dueAbs, pc, req, wakeAt, result, stop, now>>

-----------------------------------------------------------------------------
(* The operations that signal or reset an object. *)

\* Mutant: a set that forgets to notify.
SetEventSilently(t, o) ==
  /\ Caller(t) /\ o \in Events \union SyncEvents /\ status[o] = "live"
  /\ signaled' = [signaled EXCEPT ![o] = TRUE]
  /\ UNCHANGED <<status, count, dueAbs, pc, req, wakeAt, result, stop, now>>

SetEvent(t, o) ==
  /\ Caller(t) /\ o \in Events \union SyncEvents /\ status[o] = "live"
  /\ signaled' = [signaled EXCEPT ![o] = TRUE]
  /\ pc' = NotifyAll(pc)
  /\ UNCHANGED <<status, count, dueAbs, req, wakeAt, result, stop, now>>

ResetEvent(t, o) ==
  /\ Caller(t) /\ o \in Events \union SyncEvents /\ status[o] = "live"
  /\ signaled' = [signaled EXCEPT ![o] = FALSE]
  /\ UNCHANGED <<status, count, dueAbs, pc, req, wakeAt, result, stop, now>>

\* Mutant: a release that forgets the signal.
ReleaseSemaphoreUnsignaled(t, o, n) ==
  /\ Caller(t) /\ o \in Semaphores /\ status[o] = "live" /\ count[o] + n <= MaxCount
  /\ count' = [count EXCEPT ![o] = @ + n]
  /\ pc' = NotifyAll(pc)
  /\ UNCHANGED <<status, signaled, dueAbs, req, wakeAt, result, stop, now>>

\* count is clamped to maxCount: credits beyond it are lost.
ReleaseSemaphore(t, o, n) ==
  /\ Caller(t) /\ o \in Semaphores /\ status[o] = "live"
  /\ LET c == IF count[o] + n <= MaxCount THEN count[o] + n ELSE MaxCount
     IN /\ count' = [count EXCEPT ![o] = c]
        /\ signaled' = [signaled EXCEPT ![o] = c > 0]
  /\ pc' = NotifyAll(pc)
  /\ UNCHANGED <<status, dueAbs, req, wakeAt, result, stop, now>>

\* No check that the caller owns the mutant.
ReleaseMutant(t, o) ==
  /\ Caller(t) /\ o \in Mutants /\ status[o] = "live"
  /\ signaled' = [signaled EXCEPT ![o] = TRUE]
  /\ pc' = NotifyAll(pc)
  /\ UNCHANGED <<status, count, dueAbs, req, wakeAt, result, stop, now>>

\* A due time of 0 is stored like any other and means "not scheduled".
SetTimer(t, o, due) ==
  /\ Caller(t) /\ o \in AllTimers /\ status[o] = "live"
  /\ dueAbs' = [dueAbs EXCEPT ![o] = due]
  /\ signaled' = [signaled EXCEPT ![o] = FALSE]
  /\ pc' = NotifyAll(pc)
  /\ UNCHANGED <<status, count, req, wakeAt, result, stop, now>>

CancelTimer(t, o) ==
  /\ Caller(t) /\ o \in AllTimers /\ status[o] = "live"
  /\ dueAbs' = [dueAbs EXCEPT ![o] = 0]
  /\ signaled' = [signaled EXCEPT ![o] = FALSE]
  /\ pc' = NotifyAll(pc)
  /\ UNCHANGED <<status, count, req, wakeAt, result, stop, now>>

-----------------------------------------------------------------------------
(* waitForMultiple. *)

\* The handles are resolved to pointers before g_waitM is taken.
BeginWait(t, r) ==
  /\ \A i \in DOMAIN r.objs : status[r.objs[i]] = "live"
  /\ req' = [req EXCEPT ![t] = r]
  /\ result' = [result EXCEPT ![t] = "none"]

WaitCall(t, r) ==
  /\ pc[t] = "running"
  /\ BeginWait(t, r)
  /\ pc' = [pc EXCEPT ![t] = "entering"]
  /\ UNCHANGED <<objVars, wakeAt, stop, now>>

\* NtSignalAndWaitForSingleObjectEx: a setEvent, then a wait; g_waitM is free between.
SignalAndWait(t, e, r) ==
  /\ Caller(t) /\ e \in Events \union SyncEvents /\ status[e] = "live"
  /\ Len(r.objs) = 1 /\ r.any
  /\ signaled' = [signaled EXCEPT ![e] = TRUE]
  /\ BeginWait(t, r)
  /\ pc' = [NotifyAll(pc) EXCEPT ![t] = "entering"]
  /\ UNCHANGED <<status, count, dueAbs, wakeAt, stop, now>>

TimerExpired(o) == o \in AllTimers /\ ~signaled[o] /\ dueAbs[o] # 0 /\ dueAbs[o] <= now
Ready(o) == signaled[o] \/ TimerExpired(o)
SomeReady(t) == \E i \in DOMAIN req[t].objs : Ready(req[t].objs[i])

\* The object at i is the first one the predicate finds.
FirstReady(t, i) ==
  Ready(req[t].objs[i]) /\ \A j \in 1..(i-1) : ~Ready(req[t].objs[j])

\* Mutant: the auto-reset is forgotten.
SignaledAfterUseNoReset(o) == o \in Semaphores /\ count[o] > 0 => count[o] > 1

\* Whether o is still signaled once a wait has consumed it.
SignaledAfterUse(o) ==
  o \notin AutoReset /\ (o \in Semaphores /\ count[o] > 0 => count[o] > 1)

\* consume(): a wait-any takes f, the first signaled object, a wait-all every
\* signaled object of its array, be it all of them or not.
Taken(t, f) ==
  IF req[t].any THEN {f}
  ELSE {f} \union {o \in Objects : signaled[o] /\ WaitsOn(t, o)}

\* The thread owns g_waitM for one evaluation of the predicate.
Evaluates(t) == pc[t] \in {"entering", "woken"} /\ WaitMFree

\* An expired timer is signaled, and everybody notified, on the way.
WaitSatisfied(t) ==
  /\ Evaluates(t)
  /\ \E i \in DOMAIN req[t].objs :
       /\ FirstReady(t, i)
       /\ LET f == req[t].objs[i]
              taken == Taken(t, f)
          IN /\ signaled' = [o \in Objects |->
                               IF o \in taken THEN SignaledAfterUse(o) ELSE signaled[o]]
             /\ count' = [o \in Objects |->
                            IF o \in taken \intersect Semaphores /\ count[o] > 0
                            THEN count[o] - 1 ELSE count[o]]
             /\ dueAbs' = [dueAbs EXCEPT ![f] = IF signaled[f] THEN @ ELSE 0]
             /\ pc' = [(IF signaled[f] THEN pc ELSE NotifyAll(pc)) EXCEPT ![t] = "running"]
  /\ req' = [req EXCEPT ![t] = NoRequest]
  /\ wakeAt' = [wakeAt EXCEPT ![t] = {}]
  /\ result' = [result EXCEPT ![t] = "signaled"]
  /\ UNCHANGED <<status, stop, now>>

\* An absolute timeout already in the past on entry returns before g_stop is read;
\* a relative one is never in the past on entry, so under g_stop both may happen.
ExpiredOnEntry(t) == pc[t] = "entering" /\ req[t].until # 0 /\ req[t].until <= now

Leave(t, where) ==
  /\ pc' = [pc EXCEPT ![t] = where]
  /\ req' = [req EXCEPT ![t] = NoRequest]
  /\ wakeAt' = [wakeAt EXCEPT ![t] = {}]
  /\ result' = [result EXCEPT ![t] = "none"]
  /\ UNCHANGED <<objVars, stop, now>>

WaitUnwinds(t) ==
  /\ Evaluates(t) /\ ~SomeReady(t)
  /\ g_stop
  /\ Leave(t, "unwound")

WaitTimesOut(t) ==
  /\ Evaluates(t) /\ ~SomeReady(t)
  /\ req[t].until <= now
  /\ g_stop => ExpiredOnEntry(t)
  /\ Leave(t, "running")

DeadlinePassed(t) == \E d \in wakeAt[t] : d <= now

\* Mutant: the due time of a timer replaces the caller's timeout.
DeadlinesOfTimersOnly(r) ==
  LET due == {dueAbs[r.objs[i]] : i \in {j \in DOMAIN r.objs :
                                r.objs[j] \in AllTimers /\ dueAbs[r.objs[j]] # 0}}
  IN IF due = {} THEN {Never} ELSE due

\* The instants that end the sleep: the caller's timeout and the due time of each
\* timer of the array that is scheduled now.
Deadlines(r) ==
  {r.until} \union
  {dueAbs[r.objs[i]] : i \in {j \in DOMAIN r.objs :
                                r.objs[j] \in AllTimers /\ dueAbs[r.objs[j]] # 0}}

\* They are computed when the outer loop starts over, which the wait with a
\* predicate allows only after a deadline, not after a notification.
WaitBlocks(t) ==
  /\ Evaluates(t) /\ ~SomeReady(t)
  /\ ~g_stop /\ now < req[t].until
  /\ pc' = [pc EXCEPT ![t] = "checked"]
  /\ wakeAt' = [wakeAt EXCEPT ![t] =
                  IF pc[t] = "entering" \/ DeadlinePassed(t) THEN Deadlines(req[t]) ELSE @]
  /\ UNCHANGED <<objVars, req, result, stop, now>>

\* The condition variable's atomic release of g_waitM and sleep.
Sleep(t) ==
  /\ pc[t] = "checked"
  /\ pc' = [pc EXCEPT ![t] = "sleeping"]
  /\ UNCHANGED <<objVars, req, wakeAt, result, stop, now>>

WakeUp(t) ==
  /\ pc[t] = "sleeping"
  /\ pc' = [pc EXCEPT ![t] = "woken"]
  /\ UNCHANGED <<objVars, req, wakeAt, result, stop, now>>

DeadlineWake(t) == DeadlinePassed(t) /\ WakeUp(t)

SpuriousWake(t) == ~DeadlinePassed(t) /\ WakeUp(t)

-----------------------------------------------------------------------------
(* KeDelayExecutionThread: slices of 2 ms, each of which reads g_stop. *)

DelayCall(t, until) ==
  /\ pc[t] = "running" /\ now < until
  /\ pc' = [pc EXCEPT ![t] = "delaying"]
  /\ wakeAt' = [wakeAt EXCEPT ![t] = {until}]
  /\ UNCHANGED <<objVars, req, result, stop, now>>

DelayEnds(t) ==
  /\ pc[t] = "delaying"
  /\ \/ DeadlinePassed(t) /\ pc' = [pc EXCEPT ![t] = "running"]
     \/ ~DeadlinePassed(t) /\ g_stop /\ pc' = [pc EXCEPT ![t] = "unwound"]
  /\ wakeAt' = [wakeAt EXCEPT ![t] = {}]
  /\ UNCHANGED <<objVars, req, result, stop, now>>

-----------------------------------------------------------------------------
(* requestStop, called by a host thread, and the clock. *)

SetStop ==
  /\ stop = "no"
  /\ stop' = "set"
  /\ UNCHANGED <<objVars, pc, req, wakeAt, result, now>>

\* Mutant: requestStop without the notification.
WakeAllSilently ==
  /\ stop = "set"
  /\ stop' = "announced"
  /\ UNCHANGED <<objVars, pc, req, wakeAt, result, now>>

\* wakeAll notifies without holding g_waitM.
WakeAll ==
  /\ stop = "set"
  /\ stop' = "announced"
  /\ pc' = NotifyAll(pc)
  /\ UNCHANGED <<objVars, req, wakeAt, result, now>>

Tick ==
  /\ now < MaxTime
  /\ now' = now + 1
  /\ UNCHANGED <<objVars, pc, req, wakeAt, result, stop>>

-----------------------------------------------------------------------------
Guest(t) ==
  \/ \E o \in Objects :
       \/ CreateObject(t, o) \/ ReinitializeObject(t, o) \/ CloseHandle(t, o)
       \/ SetEvent(t, o) \/ ResetEvent(t, o)
       \/ ReleaseMutant(t, o) \/ CancelTimer(t, o)
       \/ \E n \in 1..MaxCount : ReleaseSemaphore(t, o, n)
       \/ \E due \in 0..MaxTime : SetTimer(t, o, due)
       \/ \E r \in Requests : SignalAndWait(t, o, r)
  \/ \E r \in Requests : WaitCall(t, r)
  \/ \E until \in 1..MaxTime : DelayCall(t, until)

WaitStep(t) == WaitSatisfied(t) \/ WaitUnwinds(t) \/ WaitTimesOut(t) \/ WaitBlocks(t)

Next ==
  \/ \E t \in Threads :
       Guest(t) \/ WaitStep(t) \/ Sleep(t) \/ DeadlineWake(t) \/ SpuriousWake(t) \/ DelayEnds(t)
  \/ \E o \in Objects : HeapReuse(o)
  \/ SetStop \/ WakeAll \/ Tick

Spec == Init /\ [][Next]_vars

(***************************************************************************)
(* Fairness: time passes, the host scheduler runs every thread that can    *)
(* run, and a thread that asks for g_waitM again and again gets it (strong  *)
(* fairness: other threads take it in between).  Guest calls are optional   *)
(* and spurious wakeups never owed.                                        *)
(***************************************************************************)
Fairness ==
  /\ WF_vars(Tick)
  /\ WF_vars(WakeAll)
  /\ \A t \in Threads :
       /\ SF_vars(WaitStep(t))
       /\ WF_vars(Sleep(t))
       /\ WF_vars(DeadlineWake(t))
       /\ WF_vars(DelayEnds(t))

FairSpec == Spec /\ Fairness

-----------------------------------------------------------------------------
(* Safety. *)

Live(o) == status[o] = "live"
One(b) == IF b THEN 1 ELSE 0

\* Signals an object can still hand out: a semaphore's count, an auto-reset
\* object's signal and the expiry a scheduled auto-reset timer will raise.
Credits(o) ==
  IF o \in Semaphores THEN count[o] ELSE One(signaled[o]) + One(o \in AllTimers /\ dueAbs[o] # 0)

\* The refinement mapping.
CreditMap == [o \in Consumable |-> IF Live(o) THEN Credits(o) ELSE 0]
Closed    == {o \in Objects : status[o] = "freed"}
WaitMap   == [t \in Threads |-> [objs |-> {o \in Objects : WaitsOn(t, o)}, any |-> req[t].any]]
LimitMap  == [o \in Consumable |-> IF o \in Semaphores THEN MaxCount ELSE 1]

\* No signal satisfies two waits: the engine implements WaitObjects, where a wait
\* that returns "signaled" takes a credit in the same step, whatever threads race
\* for g_waitM.
Promise == INSTANCE WaitObjects WITH
  credits <- CreditMap, closed <- Closed, wait <- WaitMap, result <- result, Limit <- LimitMap

EverySignalServesOneWait == Promise!Spec

\* The redundant fields of a live object agree: a semaphore is signaled exactly
\* while it has credits, and a signaled timer is not scheduled any more (or its
\* old due time would signal it a second time).
FieldsAgree ==
  \A o \in Objects : Live(o) =>
    /\ o \in Semaphores => (signaled[o] <=> count[o] > 0)
    /\ o \in AllTimers /\ signaled[o] => dueAbs[o] = 0

\* No lost wakeup: a thread that went to sleep, or has decided to, has nothing
\* signaled in its array, except through an object closed under it.  Every
\* operation that signals must notify, and all waiters must be notified.
NoSleeperMissesSignal ==
  \A t \in Threads :
    pc[t] \in {"checked", "sleeping"} =>
      \A i \in DOMAIN req[t].objs :
        Live(req[t].objs[i]) => ~signaled[req[t].objs[i]]

-----------------------------------------------------------------------------
(* Liveness. *)

InWait(t) == pc[t] \in {"entering", "checked", "sleeping", "woken"}

\* A wait with a timeout returns, whatever happens to its objects and however
\* often the thread is woken in between.
TimedWaitReturns ==
  \A t \in Threads : (InWait(t) /\ req[t].until # Never) ~> ~InWait(t)

\* A thread that is asleep, or in a delay, when requestStop raises g_stop leaves
\* its wait: a stop never strands a thread that was already blocked.
StopReachesSleepers ==
  \A t \in Threads :
    (stop = "set" /\ pc[t] \in {"sleeping", "delaying"}) ~> pc[t] \in {"running", "unwound"}

\* A signal put in an object some thread waits on is used: the thread returns or
\* the signal is taken (by another waiter or a reset).
SignalIsTaken ==
  \A t \in Threads, o \in Objects :
    (InWait(t) /\ WaitsOn(t, o) /\ Live(o) /\ signaled[o]) ~> (~InWait(t) \/ ~signaled[o])

=============================================================================
