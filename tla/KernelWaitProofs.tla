-------------------------- MODULE KernelWaitProofs --------------------------
(***************************************************************************)
(* Proofs about KernelWait, for any threads, objects, arrays and bounds.   *)
(***************************************************************************)
EXTENDS KernelWait, TLAPS

(***************************************************************************)
(* The inductive invariant.  FieldsAgree and NoSleeperMissesSignal are not *)
(* inductive alone: a step of WaitSatisfied is only known to touch objects *)
(* because a thread in a wait has a request, and creating an object cannot *)
(* leave a sleeper behind because no request names an absent object.       *)
(***************************************************************************)
RequestsSound ==
  \A t \in Threads :
    /\ InWait(t) => req[t] \in Requests
    /\ ~InWait(t) => req[t] = NoRequest
    /\ \A i \in DOMAIN req[t].objs : status[req[t].objs[i]] # "absent"

Inv == TypeOK /\ RequestsSound /\ FieldsAgree /\ NoSleeperMissesSignal

-----------------------------------------------------------------------------
USE DEF PCs

\* A request lists objects of the instance, and a wait in progress has one.
LEMMA RequestFields ==
  ASSUME NEW r \in Requests
  PROVE  /\ r.objs \in WaitArrays /\ r.any \in BOOLEAN /\ r.until \in 0..Never
         /\ r.objs \in Seq(Objects)
         /\ \A i \in DOMAIN r.objs : r.objs[i] \in Objects
  BY KernelWaitAssumption DEF Requests

\* A thread that does not wait has an empty array.
LEMMA NoRequestFields == NoRequest.objs = <<>> /\ DOMAIN NoRequest.objs = {}
  BY DEF NoRequest

\* The initial states satisfy the invariant.
LEMMA InitInv == Init => Inv
  <1> SUFFICES ASSUME Init PROVE Inv
    OBVIOUS
  <1>1. TypeOK
    BY KernelWaitAssumption DEF Init, TypeOK
  <1>2. RequestsSound
    BY NoRequestFields DEF Init, RequestsSound, InWait
  <1>3. FieldsAgree
    BY DEF Init, FieldsAgree, Live
  <1>4. NoSleeperMissesSignal
    BY DEF Init, NoSleeperMissesSignal
  <1> QED
    BY <1>1, <1>2, <1>3, <1>4 DEF Inv

\* What is known of the array of a thread, whether it waits or not.
LEMMA ArrayInObjects ==
  ASSUME RequestsSound, NEW t \in Threads, NEW i \in DOMAIN req[t].objs
  PROVE  /\ req[t] \in Requests /\ InWait(t)
         /\ req[t].objs[i] \in Objects
         /\ status[req[t].objs[i]] # "absent"
  BY RequestFields, NoRequestFields DEF RequestsSound

\* The numeric part of the assumption.
LEMMA Bounds == MaxCount \in Nat \ {0} /\ MaxTime \in Nat
  BY KernelWaitAssumption

\* An object starts with at most its limit of credits.
LEMMA InitialCreditsBound ==
  ASSUME NEW o \in Objects PROVE InitialCredits(o) \subseteq 0..MaxCount
  BY KernelWaitAssumption DEF InitialCredits

\* Every deadline of a sleep is an instant of the clock or Never.
LEMMA DeadlinesTyped ==
  ASSUME TypeOK, NEW r \in Requests PROVE Deadlines(r) \subseteq 0..Never
  <1>1. r.until \in 0..Never
    BY RequestFields
  <1>2. ASSUME NEW i \in DOMAIN r.objs PROVE dueAbs[r.objs[i]] \in 0..Never
    BY RequestFields, KernelWaitAssumption DEF TypeOK, Never
  <1> QED
    BY <1>1, <1>2 DEF Deadlines

\* Types are preserved by every step.
LEMMA TypeOKStep == Inv /\ [Next]_vars => TypeOK'
  <1> SUFFICES ASSUME Inv, [Next]_vars PROVE TypeOK'
    OBVIOUS
  <1> USE DEF Inv
  <1>1. ASSUME NEW t \in Threads, NEW o \in Objects, CreateObject(t, o) PROVE TypeOK'
    <2>1. PICK credit \in InitialCredits(o) : Initialize(o, credit)
      BY <1>1 DEF CreateObject
    <2>2. credit \in 0..MaxCount
      BY InitialCreditsBound
    <2> QED
      BY <1>1, <2>1, <2>2, Bounds DEF CreateObject, Initialize, TypeOK
  <1>2. ASSUME NEW t \in Threads, NEW o \in Objects, ReinitializeObject(t, o)
        PROVE  TypeOK'
    <2>1. PICK credit \in InitialCredits(o) : Initialize(o, credit)
      BY <1>2 DEF ReinitializeObject
    <2>2. credit \in 0..MaxCount
      BY InitialCreditsBound
    <2> QED
      BY <1>2, <2>1, <2>2, Bounds DEF ReinitializeObject, Initialize, TypeOK
  <1>3. ASSUME NEW t \in Threads, NEW o \in Objects, CloseHandle(t, o) PROVE TypeOK'
    BY <1>3 DEF CloseHandle, NotifyAll, objVars, TypeOK
  <1>4. ASSUME NEW t \in Threads, NEW o \in Objects, SetEvent(t, o) PROVE TypeOK'
    BY <1>4 DEF SetEvent, Caller, NotifyAll, objVars, TypeOK
  <1>5. ASSUME NEW t \in Threads, NEW o \in Objects, ResetEvent(t, o) PROVE TypeOK'
    BY <1>5 DEF ResetEvent, Caller, objVars, TypeOK
  <1>6. ASSUME NEW t \in Threads, NEW o \in Objects, ReleaseMutant(t, o) PROVE TypeOK'
    BY <1>6 DEF ReleaseMutant, Caller, NotifyAll, objVars, TypeOK
  <1>7. ASSUME NEW t \in Threads, NEW o \in Objects, CancelTimer(t, o) PROVE TypeOK'
    BY <1>7, Bounds DEF CancelTimer, Caller, NotifyAll, TypeOK
  <1>8. ASSUME NEW t \in Threads, NEW o \in Objects, NEW n \in 1..MaxCount, ReleaseSemaphore(t, o, n)
        PROVE  TypeOK'
    BY <1>8, Bounds DEF ReleaseSemaphore, Caller, NotifyAll, TypeOK
  <1>9. ASSUME NEW t \in Threads, NEW o \in Objects, NEW due \in 0..MaxTime, SetTimer(t, o, due)
        PROVE  TypeOK'
    BY <1>9 DEF SetTimer, Caller, NotifyAll, objVars, TypeOK
  <1>10. ASSUME NEW t \in Threads, NEW o \in Objects, NEW r \in Requests, SignalAndWait(t, o, r)
         PROVE  TypeOK'
    BY <1>10 DEF SignalAndWait, BeginWait, Caller, NotifyAll, objVars, TypeOK
  <1>11. ASSUME NEW t \in Threads, NEW r \in Requests, WaitCall(t, r) PROVE TypeOK'
    BY <1>11 DEF WaitCall, BeginWait, objVars, TypeOK
  <1>12. ASSUME NEW t \in Threads, NEW until \in 1..MaxTime, DelayCall(t, until)
         PROVE  TypeOK'
    BY <1>12, Bounds DEF DelayCall, objVars, TypeOK, Never
  <1>13. ASSUME NEW t \in Threads, WaitSatisfied(t) PROVE TypeOK'
    <2>1. PICK i \in DOMAIN req[t].objs :
             /\ dueAbs' = [dueAbs EXCEPT ![req[t].objs[i]] =
                             IF signaled[req[t].objs[i]] THEN @ ELSE 0]
             /\ pc' = [(IF signaled[req[t].objs[i]] THEN pc ELSE NotifyAll(pc))
                         EXCEPT ![t] = "running"]
      BY <1>13 DEF WaitSatisfied
    <2>2. dueAbs' \in [Objects -> 0..MaxTime]
      BY <2>1, Bounds, ArrayInObjects DEF TypeOK
    <2>3. pc' \in [Threads -> PCs]
      BY <2>1 DEF TypeOK, NotifyAll
    <2>4. count' \in [Objects -> 0..MaxCount]
      BY <1>13, Bounds DEF WaitSatisfied, TypeOK
    <2>5. signaled' \in [Objects -> BOOLEAN]
      <3>1. ASSUME NEW o \in Objects PROVE SignaledAfterUse(o) \in BOOLEAN
        BY DEF SignaledAfterUse, TypeOK
      <3> QED
        BY <1>13, <3>1 DEF WaitSatisfied, TypeOK
    <2>6. /\ status' = status /\ stop' = stop /\ now' = now
          /\ req' = [req EXCEPT ![t] = NoRequest]
          /\ wakeAt' = [wakeAt EXCEPT ![t] = {}]
          /\ result' = [result EXCEPT ![t] = "signaled"]
      BY <1>13 DEF WaitSatisfied
    <2> QED
      BY <2>2, <2>3, <2>4, <2>5, <2>6 DEF TypeOK
  <1>14. ASSUME NEW t \in Threads, WaitUnwinds(t) PROVE TypeOK'
    BY <1>14 DEF WaitUnwinds, Leave, Evaluates, objVars, TypeOK
  <1>15. ASSUME NEW t \in Threads, WaitTimesOut(t) PROVE TypeOK'
    BY <1>15 DEF WaitTimesOut, Leave, Evaluates, objVars, TypeOK
  <1>16. ASSUME NEW t \in Threads, WaitBlocks(t) PROVE TypeOK'
    <2>1. Deadlines(req[t]) \subseteq 0..Never
      BY <1>16, DeadlinesTyped DEF WaitBlocks, Evaluates, RequestsSound, InWait
    <2> QED
      BY <1>16, <2>1 DEF WaitBlocks, objVars, TypeOK
  <1>17. ASSUME NEW t \in Threads, Sleep(t) PROVE TypeOK'
    BY <1>17 DEF Sleep, objVars, TypeOK
  <1>18. ASSUME NEW t \in Threads, WakeUp(t) PROVE TypeOK'
    BY <1>18 DEF WakeUp, objVars, TypeOK
  <1>19. ASSUME NEW t \in Threads, DelayEnds(t) PROVE TypeOK'
    BY <1>19 DEF DelayEnds, objVars, TypeOK
  <1>20. ASSUME NEW o \in Objects, HeapReuse(o) PROVE TypeOK'
    BY <1>20 DEF HeapReuse, objVars, TypeOK
  <1>21. CASE SetStop
    BY <1>21 DEF SetStop, objVars, TypeOK
  <1>22. CASE WakeAll
    BY <1>22 DEF WakeAll, NotifyAll, objVars, TypeOK
  <1>23. CASE Tick
    BY <1>23, Bounds DEF Tick, objVars, TypeOK
  <1>24. CASE UNCHANGED vars
    BY <1>24 DEF vars, objVars, objVars, TypeOK
  <1> QED
    BY <1>1, <1>2, <1>3, <1>4, <1>5, <1>6, <1>7, <1>8, <1>9, <1>10, <1>11, <1>12,
       <1>13, <1>14, <1>15, <1>16, <1>17, <1>18, <1>19, <1>20, <1>21, <1>22, <1>23,
       <1>24
    DEF Next, Guest, WaitStep, DeadlineWake, SpuriousWake

\* The kinds of objects do not overlap.
LEMMA Kinds ==
  /\ \A o \in Events \union SyncEvents \union Mutants : o \notin Semaphores /\ o \notin AllTimers
  /\ \A o \in AllTimers : o \notin Semaphores
  /\ \A o \in AutoReset : o \notin Semaphores
  /\ Consumable \subseteq Objects /\ Semaphores \subseteq Objects /\ AllTimers \subseteq Objects
  BY KernelWaitAssumption DEF AllTimers, AutoReset, Objects, Consumable

\* A step that begins or ends a wait sets the request with the pc; no object of a
\* request ever becomes absent again.
LEMMA RequestsSoundStep == Inv /\ [Next]_vars => RequestsSound'
  <1> SUFFICES ASSUME Inv, [Next]_vars PROVE RequestsSound'
    OBVIOUS
  <1> USE DEF Inv
  <1>1. ASSUME NEW t \in Threads, NEW o \in Objects, CreateObject(t, o)
        PROVE  RequestsSound'
    BY <1>1 DEF CreateObject, Initialize, Caller, objVars, TypeOK, RequestsSound,
       InWait
  <1>2. ASSUME NEW t \in Threads, NEW o \in Objects, ReinitializeObject(t, o)
        PROVE  RequestsSound'
    BY <1>2 DEF ReinitializeObject, Initialize, Caller, objVars, TypeOK,
       RequestsSound, InWait
  <1>3. ASSUME NEW t \in Threads, NEW o \in Objects, CloseHandle(t, o)
        PROVE  RequestsSound'
    BY <1>3 DEF CloseHandle, NotifyAll, objVars, TypeOK, RequestsSound, InWait
  <1>4. ASSUME NEW t \in Threads, NEW o \in Objects, SetEvent(t, o)
        PROVE  RequestsSound'
    BY <1>4 DEF SetEvent, Caller, NotifyAll, objVars, TypeOK, RequestsSound, InWait
  <1>5. ASSUME NEW t \in Threads, NEW o \in Objects, ResetEvent(t, o)
        PROVE  RequestsSound'
    BY <1>5 DEF ResetEvent, Caller, objVars, TypeOK, RequestsSound, InWait
  <1>6. ASSUME NEW t \in Threads, NEW o \in Objects, ReleaseMutant(t, o)
        PROVE  RequestsSound'
    BY <1>6 DEF ReleaseMutant, Caller, NotifyAll, objVars, TypeOK, RequestsSound,
       InWait
  <1>7. ASSUME NEW t \in Threads, NEW o \in Objects, CancelTimer(t, o)
        PROVE  RequestsSound'
    BY <1>7 DEF CancelTimer, Caller, NotifyAll, objVars, TypeOK, RequestsSound, InWait
  <1>8. ASSUME NEW t \in Threads, NEW o \in Objects, NEW n \in 1..MaxCount, ReleaseSemaphore(t, o, n)
        PROVE  RequestsSound'
    BY <1>8 DEF ReleaseSemaphore, Caller, NotifyAll, objVars, TypeOK, RequestsSound,
       InWait
  <1>9. ASSUME NEW t \in Threads, NEW o \in Objects, NEW due \in 0..MaxTime, SetTimer(t, o, due)
        PROVE  RequestsSound'
    BY <1>9 DEF SetTimer, Caller, NotifyAll, objVars, TypeOK, RequestsSound, InWait
  <1>10. ASSUME NEW t \in Threads, NEW o \in Objects, NEW r \in Requests, SignalAndWait(t, o, r)
         PROVE  RequestsSound'
    BY <1>10 DEF SignalAndWait, BeginWait, Caller, NotifyAll, objVars, TypeOK,
       RequestsSound, InWait
  <1>11. ASSUME NEW t \in Threads, NEW r \in Requests, WaitCall(t, r)
         PROVE  RequestsSound'
    BY <1>11 DEF WaitCall, BeginWait, objVars, TypeOK, RequestsSound, InWait
  <1>12. ASSUME NEW t \in Threads, NEW until \in 1..MaxTime, DelayCall(t, until)
         PROVE  RequestsSound'
    BY <1>12 DEF DelayCall, objVars, TypeOK, RequestsSound, InWait
  <1>13. ASSUME NEW t \in Threads, WaitSatisfied(t) PROVE RequestsSound'
    <2>1. req' = [req EXCEPT ![t] = NoRequest] /\ status' = status
      BY <1>13 DEF WaitSatisfied, Leave, objVars
    <2>2. \A u \in Threads : InWait(u)' <=> InWait(u) /\ u # t
      BY <1>13 DEF WaitSatisfied, NotifyAll, TypeOK, InWait, Leave
    <2> QED
      BY <2>1, <2>2, NoRequestFields DEF RequestsSound, TypeOK
  <1>14. ASSUME NEW t \in Threads, WaitUnwinds(t) PROVE RequestsSound'
    <2>1. req' = [req EXCEPT ![t] = NoRequest] /\ status' = status
      BY <1>14 DEF WaitUnwinds, Leave, objVars
    <2>2. \A u \in Threads : InWait(u)' <=> InWait(u) /\ u # t
      BY <1>14 DEF WaitUnwinds, NotifyAll, TypeOK, InWait, Leave
    <2> QED
      BY <2>1, <2>2, NoRequestFields DEF RequestsSound, TypeOK
  <1>15. ASSUME NEW t \in Threads, WaitTimesOut(t) PROVE RequestsSound'
    <2>1. req' = [req EXCEPT ![t] = NoRequest] /\ status' = status
      BY <1>15 DEF WaitTimesOut, Leave, objVars
    <2>2. \A u \in Threads : InWait(u)' <=> InWait(u) /\ u # t
      BY <1>15 DEF WaitTimesOut, NotifyAll, TypeOK, InWait, Leave
    <2> QED
      BY <2>1, <2>2, NoRequestFields DEF RequestsSound, TypeOK
  <1>16. ASSUME NEW t \in Threads, WaitBlocks(t) PROVE RequestsSound'
    BY <1>16 DEF WaitBlocks, Evaluates, objVars, TypeOK, RequestsSound, InWait
  <1>17. ASSUME NEW t \in Threads, Sleep(t) PROVE RequestsSound'
    BY <1>17 DEF Sleep, objVars, TypeOK, RequestsSound, InWait
  <1>18. ASSUME NEW t \in Threads, WakeUp(t) PROVE RequestsSound'
    BY <1>18 DEF WakeUp, objVars, TypeOK, RequestsSound, InWait
  <1>19. ASSUME NEW t \in Threads, DelayEnds(t) PROVE RequestsSound'
    <2>1. \A u \in Threads : InWait(u)' <=> InWait(u)
      BY <1>19 DEF DelayEnds, TypeOK, InWait
    <2> QED
      BY <1>19, <2>1 DEF DelayEnds, RequestsSound, TypeOK, objVars
  <1>20. ASSUME NEW o \in Objects, HeapReuse(o) PROVE RequestsSound'
    BY <1>20 DEF HeapReuse, objVars, TypeOK, RequestsSound, InWait
  <1>21. CASE SetStop
    BY <1>21 DEF SetStop, objVars, TypeOK, RequestsSound, InWait
  <1>22. CASE WakeAll
    BY <1>22 DEF WakeAll, NotifyAll, objVars, TypeOK, RequestsSound, InWait
  <1>23. CASE Tick
    BY <1>23 DEF Tick, objVars, TypeOK, RequestsSound, InWait
  <1>24. CASE UNCHANGED vars
    BY <1>24 DEF vars, objVars, objVars, TypeOK, RequestsSound, InWait
  <1> QED
    BY <1>1, <1>2, <1>3, <1>4, <1>5, <1>6, <1>7, <1>8, <1>9, <1>10, <1>11, <1>12,
       <1>13, <1>14, <1>15, <1>16, <1>17, <1>18, <1>19, <1>20, <1>21, <1>22, <1>23,
       <1>24
    DEF Next, Guest, WaitStep, DeadlineWake, SpuriousWake

\* Every operation writes the redundant fields together; WaitSatisfied takes a
\* credit only of signaled objects and of the timer that has just expired.
LEMMA FieldsAgreeStep == Inv /\ [Next]_vars => FieldsAgree'
  <1> SUFFICES ASSUME Inv, [Next]_vars PROVE FieldsAgree'
    OBVIOUS
  <1> USE DEF Inv
  <1>1. ASSUME NEW t \in Threads, NEW o \in Objects, CreateObject(t, o)
        PROVE  FieldsAgree'
    <2>1. PICK credit \in InitialCredits(o) : Initialize(o, credit)
      BY <1>1 DEF CreateObject
    <2>2. credit \in 0..MaxCount
      BY InitialCreditsBound
    <2> QED
      BY <1>1, <2>1, <2>2, Kinds DEF CreateObject, Initialize, FieldsAgree, Live,
         TypeOK
  <1>2. ASSUME NEW t \in Threads, NEW o \in Objects, ReinitializeObject(t, o)
        PROVE  FieldsAgree'
    <2>1. PICK credit \in InitialCredits(o) : Initialize(o, credit)
      BY <1>2 DEF ReinitializeObject
    <2>2. credit \in 0..MaxCount
      BY InitialCreditsBound
    <2> QED
      BY <1>2, <2>1, <2>2, Kinds DEF ReinitializeObject, Initialize, FieldsAgree,
         Live, TypeOK
  <1>3. ASSUME NEW t \in Threads, NEW o \in Objects, CloseHandle(t, o)
        PROVE  FieldsAgree'
    BY <1>3 DEF CloseHandle, NotifyAll, objVars, FieldsAgree, Live
  <1>4. ASSUME NEW t \in Threads, NEW o \in Objects, SetEvent(t, o) PROVE FieldsAgree'
    BY <1>4, Kinds DEF SetEvent, FieldsAgree, Live, TypeOK
  <1>5. ASSUME NEW t \in Threads, NEW o \in Objects, ResetEvent(t, o)
        PROVE  FieldsAgree'
    BY <1>5, Kinds DEF ResetEvent, FieldsAgree, Live, TypeOK
  <1>6. ASSUME NEW t \in Threads, NEW o \in Objects, ReleaseMutant(t, o)
        PROVE  FieldsAgree'
    BY <1>6, Kinds DEF ReleaseMutant, FieldsAgree, Live, TypeOK
  <1>7. ASSUME NEW t \in Threads, NEW o \in Objects, CancelTimer(t, o)
        PROVE  FieldsAgree'
    BY <1>7, Kinds DEF CancelTimer, FieldsAgree, Live, TypeOK
  <1>8. ASSUME NEW t \in Threads, NEW o \in Objects, NEW n \in 1..MaxCount, ReleaseSemaphore(t, o, n)
        PROVE  FieldsAgree'
    BY <1>8, Kinds DEF ReleaseSemaphore, FieldsAgree, Live, TypeOK
  <1>9. ASSUME NEW t \in Threads, NEW o \in Objects, NEW due \in 0..MaxTime, SetTimer(t, o, due)
        PROVE  FieldsAgree'
    BY <1>9, Kinds DEF SetTimer, FieldsAgree, Live, TypeOK
  <1>10. ASSUME NEW t \in Threads, NEW o \in Objects, NEW r \in Requests, SignalAndWait(t, o, r)
         PROVE  FieldsAgree'
    BY <1>10, Kinds DEF SignalAndWait, FieldsAgree, Live, TypeOK
  <1>11. ASSUME NEW t \in Threads, NEW r \in Requests, WaitCall(t, r)
         PROVE  FieldsAgree'
    BY <1>11 DEF WaitCall, BeginWait, objVars, FieldsAgree, Live
  <1>12. ASSUME NEW t \in Threads, NEW until \in 1..MaxTime, DelayCall(t, until)
         PROVE  FieldsAgree'
    BY <1>12 DEF DelayCall, objVars, FieldsAgree, Live
  <1>13. ASSUME NEW t \in Threads, WaitSatisfied(t) PROVE FieldsAgree'
    <2>1. PICK i \in DOMAIN req[t].objs :
             LET f == req[t].objs[i]
                 taken == Taken(t, f)
             IN /\ FirstReady(t, i)
                /\ signaled' = [o \in Objects |->
                                  IF o \in taken THEN SignaledAfterUse(o) ELSE signaled[o]]
                /\ count' = [o \in Objects |->
                               IF o \in taken \intersect Semaphores /\ count[o] > 0
                               THEN count[o] - 1 ELSE count[o]]
                /\ dueAbs' = [dueAbs EXCEPT ![f] = IF signaled[f] THEN @ ELSE 0]
      BY <1>13 DEF WaitSatisfied
    <2> DEFINE f == req[t].objs[i]
    <2>2. f \in Objects /\ (signaled[f] \/ TimerExpired(f))
      BY <2>1, ArrayInObjects DEF FirstReady, Ready
    <2>3. \A o \in Taken(t, f) : o = f \/ signaled[o]
      BY DEF Taken
    <2>4. ASSUME NEW o \in Semaphores, Live(o) PROVE signaled'[o] <=> count'[o] > 0
      <3>1. o \in Taken(t, f) => signaled[o]
        BY <2>2, <2>3, Kinds DEF TimerExpired
      <3>2. (signaled[o] <=> count[o] > 0) /\ count[o] \in Nat
        BY <2>4, Kinds DEF FieldsAgree, TypeOK
      <3>3. o \in Taken(t, f) => SignaledAfterUse(o) = (count[o] > 1)
        BY <3>1, <3>2, Kinds DEF SignaledAfterUse
      <3>4. CASE o \in Taken(t, f)
        <4>1. signaled'[o] = SignaledAfterUse(o)
          BY <2>1, <3>4, Kinds
        <4>2. signaled'[o] <=> count[o] > 1
          BY <3>3, <3>4, <4>1
        <4>3. count'[o] = count[o] - 1 /\ count[o] \in Nat
          BY <2>1, <3>1, <3>2, <3>4, Kinds
        <4> QED
          BY <4>2, <4>3
      <3>5. CASE o \notin Taken(t, f)
        <4>1. signaled'[o] = signaled[o] /\ count'[o] = count[o]
          BY <2>1, <3>5, Kinds
        <4> QED
          BY <3>2, <4>1
      <3> QED
        BY <3>4, <3>5
    <2>5. ASSUME NEW o \in AllTimers, Live(o), signaled'[o] PROVE dueAbs'[o] = 0
      <3>1. signaled[o] => dueAbs[o] = 0
        BY <2>5, Kinds DEF FieldsAgree
      <3>2. o = f \/ signaled[o]
        BY <2>1, <2>3, <2>5, Kinds
      <3> QED
        BY <2>1, <3>1, <3>2, Kinds DEF TypeOK
    <2>6. status' = status
      BY <1>13 DEF WaitSatisfied
    <2> QED
      BY <2>4, <2>5, <2>6 DEF FieldsAgree, Live
  <1>14. ASSUME NEW t \in Threads, WaitUnwinds(t) PROVE FieldsAgree'
    BY <1>14 DEF WaitUnwinds, Leave, Evaluates, objVars, FieldsAgree, Live
  <1>15. ASSUME NEW t \in Threads, WaitTimesOut(t) PROVE FieldsAgree'
    BY <1>15 DEF WaitTimesOut, Leave, Evaluates, objVars, FieldsAgree, Live
  <1>16. ASSUME NEW t \in Threads, WaitBlocks(t) PROVE FieldsAgree'
    BY <1>16 DEF WaitBlocks, Evaluates, objVars, FieldsAgree, Live
  <1>17. ASSUME NEW t \in Threads, Sleep(t) PROVE FieldsAgree'
    BY <1>17 DEF Sleep, objVars, FieldsAgree, Live
  <1>18. ASSUME NEW t \in Threads, WakeUp(t) PROVE FieldsAgree'
    BY <1>18 DEF WakeUp, objVars, FieldsAgree, Live
  <1>19. ASSUME NEW t \in Threads, DelayEnds(t) PROVE FieldsAgree'
    BY <1>19 DEF DelayEnds, objVars, FieldsAgree, Live
  <1>20. ASSUME NEW o \in Objects, HeapReuse(o) PROVE FieldsAgree'
    BY <1>20 DEF HeapReuse, objVars, FieldsAgree, Live
  <1>21. CASE SetStop
    BY <1>21 DEF SetStop, objVars, FieldsAgree, Live
  <1>22. CASE WakeAll
    BY <1>22 DEF WakeAll, NotifyAll, objVars, FieldsAgree, Live
  <1>23. CASE Tick
    BY <1>23 DEF Tick, objVars, FieldsAgree, Live
  <1>24. CASE UNCHANGED vars
    BY <1>24 DEF vars, objVars, objVars, FieldsAgree, Live
  <1> QED
    BY <1>1, <1>2, <1>3, <1>4, <1>5, <1>6, <1>7, <1>8, <1>9, <1>10, <1>11, <1>12,
       <1>13, <1>14, <1>15, <1>16, <1>17, <1>18, <1>19, <1>20, <1>21, <1>22, <1>23,
       <1>24
    DEF Next, Guest, WaitStep, DeadlineWake, SpuriousWake

\* The pcs of a thread that a notification must reach.
Asleep == {"checked", "sleeping"}

\* A notification given under g_waitM leaves nobody asleep.
LEMMA NotifyUnderLock ==
  ASSUME TypeOK, WaitMFree, NEW u \in Threads PROVE NotifyAll(pc)[u] \notin Asleep
  BY DEF WaitMFree, NotifyAll, Asleep, TypeOK

\* A step that puts nobody to sleep and signals nothing a sleeper waits on.
LEMMA SleepersUndisturbed ==
  ASSUME Inv,
         \A u \in Threads : pc'[u] \in Asleep =>
           /\ pc[u] \in Asleep /\ req'[u] = req[u]
           /\ \A i \in DOMAIN req[u].objs :
                LET o == req[u].objs[i]
                IN status'[o] = "live" => status[o] = "live" /\ (signaled'[o] => signaled[o])
  PROVE  NoSleeperMissesSignal'
  BY DEF Inv, NoSleeperMissesSignal, Asleep, Live

\* A step that signals an object of a sleeper notifies under g_waitM, so that
\* nobody sleeps after it; every other step signals nothing live.
LEMMA NoSleeperStep == Inv /\ [Next]_vars => NoSleeperMissesSignal'
  <1> SUFFICES ASSUME Inv, [Next]_vars PROVE NoSleeperMissesSignal'
    OBVIOUS
  <1> USE DEF Inv
  <1>1. ASSUME NEW t \in Threads, NEW o \in Objects, CreateObject(t, o)
        PROVE  NoSleeperMissesSignal'
    <2>1. PICK credit \in InitialCredits(o) : Initialize(o, credit)
      BY <1>1 DEF CreateObject
    <2>2. \A u \in Threads : \A i \in DOMAIN req[u].objs : req[u].objs[i] # o
      BY <1>1 DEF CreateObject, RequestsSound, WaitsOn
    <2>3. /\ pc' = pc /\ req' = req
          /\ \A p : p # o => status'[p] = status[p] /\ signaled'[p] = signaled[p]
      BY <1>1, <2>1 DEF CreateObject, Initialize, TypeOK
    <2> QED
      BY <2>2, <2>3, SleepersUndisturbed
  <1>2. ASSUME NEW t \in Threads, NEW o \in Objects, ReinitializeObject(t, o)
        PROVE  NoSleeperMissesSignal'
    <2>1. PICK credit \in InitialCredits(o) : Initialize(o, credit)
      BY <1>2 DEF ReinitializeObject
    <2>2. \A u \in Threads : \A i \in DOMAIN req[u].objs : req[u].objs[i] # o
      BY <1>2 DEF ReinitializeObject, RequestsSound, WaitsOn
    <2>3. /\ pc' = pc /\ req' = req
          /\ \A p : p # o => status'[p] = status[p] /\ signaled'[p] = signaled[p]
      BY <1>2, <2>1 DEF ReinitializeObject, Initialize, TypeOK
    <2> QED
      BY <2>2, <2>3, SleepersUndisturbed
  <1>3. ASSUME NEW t \in Threads, NEW o \in Objects, CloseHandle(t, o)
        PROVE  NoSleeperMissesSignal'
    <2>1. \A p : status'[p] = "live" => status[p] = "live"
      BY <1>3 DEF CloseHandle, TypeOK
    <2> QED
      BY <1>3, <2>1, SleepersUndisturbed DEF CloseHandle, NotifyAll, Asleep, TypeOK
  <1>4. ASSUME NEW t \in Threads, NEW o \in Objects, SetEvent(t, o)
        PROVE  NoSleeperMissesSignal'
    <2>1. pc' = NotifyAll(pc)
      BY <1>4 DEF SetEvent
    <2>2. WaitMFree
      BY <1>4 DEF SetEvent, Caller
    <2> QED
      BY <2>1, <2>2, NotifyUnderLock DEF NoSleeperMissesSignal, Asleep
  <1>5. ASSUME NEW t \in Threads, NEW o \in Objects, ResetEvent(t, o)
        PROVE  NoSleeperMissesSignal'
    BY <1>5, SleepersUndisturbed DEF ResetEvent, Caller, objVars, Asleep, TypeOK
  <1>6. ASSUME NEW t \in Threads, NEW o \in Objects, ReleaseMutant(t, o)
        PROVE  NoSleeperMissesSignal'
    <2>1. pc' = NotifyAll(pc)
      BY <1>6 DEF ReleaseMutant
    <2>2. WaitMFree
      BY <1>6 DEF ReleaseMutant, Caller
    <2> QED
      BY <2>1, <2>2, NotifyUnderLock DEF NoSleeperMissesSignal, Asleep
  <1>7. ASSUME NEW t \in Threads, NEW o \in Objects, CancelTimer(t, o)
        PROVE  NoSleeperMissesSignal'
    <2>1. pc' = NotifyAll(pc)
      BY <1>7 DEF CancelTimer
    <2>2. WaitMFree
      BY <1>7 DEF CancelTimer, Caller
    <2> QED
      BY <2>1, <2>2, NotifyUnderLock DEF NoSleeperMissesSignal, Asleep
  <1>8. ASSUME NEW t \in Threads, NEW o \in Objects, NEW n \in 1..MaxCount, ReleaseSemaphore(t, o, n)
        PROVE  NoSleeperMissesSignal'
    <2>1. pc' = NotifyAll(pc)
      BY <1>8 DEF ReleaseSemaphore
    <2>2. WaitMFree
      BY <1>8 DEF ReleaseSemaphore, Caller
    <2> QED
      BY <2>1, <2>2, NotifyUnderLock DEF NoSleeperMissesSignal, Asleep
  <1>9. ASSUME NEW t \in Threads, NEW o \in Objects, NEW due \in 0..MaxTime, SetTimer(t, o, due)
        PROVE  NoSleeperMissesSignal'
    <2>1. pc' = NotifyAll(pc)
      BY <1>9 DEF SetTimer
    <2>2. WaitMFree
      BY <1>9 DEF SetTimer, Caller
    <2> QED
      BY <2>1, <2>2, NotifyUnderLock DEF NoSleeperMissesSignal, Asleep
  <1>10. ASSUME NEW t \in Threads, NEW o \in Objects, NEW r \in Requests, SignalAndWait(t, o, r)
         PROVE  NoSleeperMissesSignal'
    <2>1. pc' = [NotifyAll(pc) EXCEPT ![t] = "entering"]
      BY <1>10 DEF SignalAndWait
    <2>2. WaitMFree
      BY <1>10 DEF SignalAndWait, Caller
    <2> QED
      BY <2>1, <2>2, NotifyUnderLock DEF NoSleeperMissesSignal, Asleep, NotifyAll
  <1>11. ASSUME NEW t \in Threads, NEW r \in Requests, WaitCall(t, r)
         PROVE  NoSleeperMissesSignal'
    BY <1>11, SleepersUndisturbed DEF WaitCall, BeginWait, objVars, Asleep, TypeOK
  <1>12. ASSUME NEW t \in Threads, NEW until \in 1..MaxTime, DelayCall(t, until)
         PROVE  NoSleeperMissesSignal'
    BY <1>12, SleepersUndisturbed DEF DelayCall, objVars, Asleep, TypeOK
  <1>13. ASSUME NEW t \in Threads, WaitSatisfied(t) PROVE NoSleeperMissesSignal'
    <2>1. PICK i \in DOMAIN req[t].objs :
             LET f == req[t].objs[i]
             IN /\ signaled' = [o \in Objects |-> IF o \in Taken(t, f)
                                                  THEN SignaledAfterUse(o) ELSE signaled[o]]
                /\ pc' = [(IF signaled[f] THEN pc ELSE NotifyAll(pc)) EXCEPT ![t] = "running"]
      BY <1>13 DEF WaitSatisfied
    <2> DEFINE f == req[t].objs[i]
    <2>2. /\ status' = status
          /\ \A u \in Threads \ {t} : req'[u] = req[u]
          /\ WaitMFree
      BY <1>13 DEF WaitSatisfied, Evaluates, TypeOK
    <2>3. CASE signaled[f]
      <3>1. \A o \in Objects : signaled'[o] => signaled[o]
        BY <2>1, <2>3 DEF Taken
      <3>2. \A u \in Threads : pc'[u] \in Asleep => pc[u] \in Asleep /\ u # t
        BY <2>1, <2>3 DEF TypeOK, Asleep
      <3> QED
        BY <2>2, <3>1, <3>2, ArrayInObjects, SleepersUndisturbed
    <2>4. CASE ~signaled[f]
      <3>1. \A u \in Threads : pc'[u] \notin Asleep
        BY <2>1, <2>2, <2>4, NotifyUnderLock DEF Asleep, NotifyAll
      <3> QED
        BY <3>1 DEF NoSleeperMissesSignal, Asleep
    <2> QED
      BY <2>3, <2>4
  <1>14. ASSUME NEW t \in Threads, WaitUnwinds(t) PROVE NoSleeperMissesSignal'
    BY <1>14, SleepersUndisturbed DEF WaitUnwinds, Leave, Evaluates, objVars,
       Asleep, TypeOK
  <1>15. ASSUME NEW t \in Threads, WaitTimesOut(t) PROVE NoSleeperMissesSignal'
    BY <1>15, SleepersUndisturbed DEF WaitTimesOut, Leave, Evaluates, objVars,
       Asleep, TypeOK
  <1>16. ASSUME NEW t \in Threads, WaitBlocks(t) PROVE NoSleeperMissesSignal'
    <2>1. \A i \in DOMAIN req[t].objs : ~signaled[req[t].objs[i]]
      BY <1>16 DEF WaitBlocks, SomeReady, Ready
    <2>2. /\ \A u \in Threads \ {t} : pc'[u] = pc[u]
          /\ req' = req /\ status' = status /\ signaled' = signaled
      BY <1>16 DEF WaitBlocks, objVars, TypeOK
    <2> QED
      BY <2>1, <2>2 DEF NoSleeperMissesSignal, Live
  <1>17. ASSUME NEW t \in Threads, Sleep(t) PROVE NoSleeperMissesSignal'
    BY <1>17, SleepersUndisturbed DEF Sleep, objVars, Asleep, TypeOK
  <1>18. ASSUME NEW t \in Threads, WakeUp(t) PROVE NoSleeperMissesSignal'
    BY <1>18, SleepersUndisturbed DEF WakeUp, objVars, Asleep, TypeOK
  <1>19. ASSUME NEW t \in Threads, DelayEnds(t) PROVE NoSleeperMissesSignal'
    BY <1>19, SleepersUndisturbed DEF DelayEnds, objVars, Asleep, TypeOK
  <1>20. ASSUME NEW o \in Objects, HeapReuse(o) PROVE NoSleeperMissesSignal'
    BY <1>20, SleepersUndisturbed DEF HeapReuse, TypeOK
  <1>21. CASE SetStop
    BY <1>21, SleepersUndisturbed DEF SetStop, objVars
  <1>22. CASE WakeAll
    BY <1>22, SleepersUndisturbed DEF WakeAll, NotifyAll, objVars, Asleep, TypeOK
  <1>23. CASE Tick
    BY <1>23, SleepersUndisturbed DEF Tick, objVars
  <1>24. CASE UNCHANGED vars
    BY <1>24, SleepersUndisturbed DEF vars, objVars, objVars, Asleep, TypeOK
  <1> QED
    BY <1>1, <1>2, <1>3, <1>4, <1>5, <1>6, <1>7, <1>8, <1>9, <1>10, <1>11, <1>12,
       <1>13, <1>14, <1>15, <1>16, <1>17, <1>18, <1>19, <1>20, <1>21, <1>22, <1>23,
       <1>24
    DEF Next, Guest, WaitStep, DeadlineWake, SpuriousWake

-----------------------------------------------------------------------------
\* The invariant is inductive and therefore holds in every reachable state.
LEMMA InductiveStep == Inv /\ [Next]_vars => Inv'
  BY TypeOKStep, RequestsSoundStep, FieldsAgreeStep, NoSleeperStep DEF Inv

\* The invariant always holds.
LEMMA Invariance == Spec => []Inv
  <1>1. Inv /\ [Next]_vars => Inv'
    BY InductiveStep
  <1> QED
    BY InitInv, <1>1, PTL DEF Spec

\* Every variable keeps its type (waitForMultiple and the operations around it).
THEOREM TypeCorrect == Spec => []TypeOK
  <1>1. Inv => TypeOK
    BY DEF Inv
  <1> QED
    BY Invariance, <1>1, PTL

\* signaled, count and dueAbs100ns of a live Waitable never contradict each other.
THEOREM FieldsAlwaysAgree == Spec => []FieldsAgree
  <1>1. Inv => FieldsAgree
    BY DEF Inv
  <1> QED
    BY Invariance, <1>1, PTL

\* No thread sleeps in waitForMultiple, or is about to, over a signaled live object.
THEOREM NoLostWakeup == Spec => []NoSleeperMissesSignal
  <1>1. Inv => NoSleeperMissesSignal
    BY DEF Inv
  <1> QED
    BY Invariance, <1>1, PTL

-----------------------------------------------------------------------------
\* No object holds more credits than its limit.
CreditsWithinLimit == \A o \in Consumable : CreditMap[o] \in 0..LimitMap[o]

\* It follows from the types and from FieldsAgree.
LEMMA CreditsBounded == Inv => CreditsWithinLimit
  <1> USE DEF CreditsWithinLimit
  <1> SUFFICES ASSUME Inv, NEW o \in Consumable PROVE CreditMap[o] \in 0..LimitMap[o]
    OBVIOUS
  <1>1. CASE o \in Semaphores
    BY <1>1, Bounds, Kinds DEF Inv, CreditMap, LimitMap, Credits, TypeOK
  <1>2. CASE o \in SyncTimers
    BY <1>2, Kinds DEF Inv, CreditMap, LimitMap, Credits, One, FieldsAgree,
       AutoReset, AllTimers
  <1>3. CASE o \in SyncEvents
    BY <1>3, Kinds DEF Inv, CreditMap, LimitMap, Credits, One, FieldsAgree
  <1> QED
    BY <1>1, <1>2, <1>3 DEF Consumable, AutoReset

\* A step that touches one object, not a freed one, is an operation on it or invisible.
LEMMA ObjectStep ==
  ASSUME Inv, Inv', NEW o \in Objects, status[o] # "freed",
         UNCHANGED <<Closed, req, result>>,
         \A p \in Objects \ {o} :
           /\ status'[p] = status[p] /\ signaled'[p] = signaled[p]
           /\ count'[p] = count[p] /\ dueAbs'[p] = dueAbs[p]
  PROVE  [Promise!Next]_(Promise!avars)
  <1>1. WaitMap' = WaitMap /\ Closed' = Closed /\ result' = result
    BY DEF WaitMap, WaitsOn
  <1>2. \A p \in Consumable \ {o} : CreditMap'[p] = CreditMap[p]
    BY Kinds DEF CreditMap, Credits, Live
  <1>3. CASE o \in Consumable
    <2>1. CreditsWithinLimit'
      BY CreditsBounded, PTL
    <2>2. CreditMap'[o] \in 0..LimitMap[o]
      BY <1>3, <2>1 DEF CreditsWithinLimit, LimitMap
    <2>3. CreditMap' = [CreditMap EXCEPT ![o] = CreditMap'[o]]
      BY <1>2, <1>3 DEF CreditMap
    <2>4. Promise!Operate(o)
      BY <1>1, <2>2, <2>3 DEF Promise!Operate, Closed
    <2> QED
      BY <1>3, <2>4 DEF Promise!Next
  <1>4. CASE o \notin Consumable
    <2>1. CreditMap' = CreditMap
      BY <1>2, <1>4 DEF CreditMap
    <2> QED
      BY <1>1, <2>1 DEF Promise!avars
  <1> QED
    BY <1>3, <1>4

\* A step that leaves the objects, the requests and the results alone is invisible.
LEMMA InvisibleStep ==
  ASSUME UNCHANGED <<objVars, req, result>> PROVE UNCHANGED Promise!avars
  BY DEF objVars, Promise!avars, CreditMap, Closed, WaitMap, WaitsOn, Credits, Live

\* A thread out of its wait has the abstract request NoWait, a thread in one has not.
LEMMA WaitMapOf ==
  ASSUME RequestsSound, NEW t \in Threads
  PROVE  /\ ~InWait(t) => WaitMap[t] = Promise!NoWait
         /\ InWait(t) => WaitMap[t].objs # {}
  <1>1. ASSUME ~InWait(t) PROVE WaitMap[t] = Promise!NoWait
    <2>1. req[t] = NoRequest
      BY <1>1 DEF RequestsSound
    <2>2. ~\E o \in Objects : WaitsOn(t, o)
      BY <2>1, NoRequestFields DEF WaitsOn
    <2>3. req[t].any = TRUE
      BY <2>1 DEF NoRequest
    <2> QED
      BY <2>2, <2>3 DEF WaitMap, Promise!NoWait
  <1>2. ASSUME InWait(t) PROVE WaitMap[t].objs # {}
    <2>1. req[t] \in Requests
      BY <1>2 DEF RequestsSound
    <2>2. req[t].objs \in Seq(Objects) /\ req[t].objs # <<>>
      BY <2>1, RequestFields, KernelWaitAssumption
    <2>3. 1 \in DOMAIN req[t].objs /\ req[t].objs[1] \in Objects
      BY <2>2
    <2> QED
      BY <2>3 DEF WaitMap, WaitsOn
  <1> QED
    BY <1>1, <1>2

\* Leaving a wait changes the abstract request of one thread to NoWait.
LEMMA WaitMapReset ==
  ASSUME TypeOK, NEW t \in Threads, req' = [req EXCEPT ![t] = NoRequest]
  PROVE  WaitMap' = [WaitMap EXCEPT ![t] = Promise!NoWait]
  <1>1. WaitMap'[t] = Promise!NoWait
    BY NoRequestFields DEF TypeOK, WaitMap, WaitsOn, Promise!NoWait, NoRequest
  <1>2. \A u \in Threads \ {t} : WaitMap'[u] = WaitMap[u]
    BY DEF TypeOK, WaitMap, WaitsOn
  <1> QED
    BY <1>1, <1>2 DEF WaitMap

\* NtClose closes the object and forgets its credits.
LEMMA CloseStep ==
  ASSUME Inv, NEW t \in Threads, NEW o \in Objects, CloseHandle(t, o)
  PROVE  Promise!Close(o)
  <1>1. Closed' = Closed \union {o}
    BY DEF CloseHandle, Closed, Inv, TypeOK
  <1>2. CreditMap' = [p \in Consumable |-> IF p = o THEN 0 ELSE CreditMap[p]]
    BY Kinds DEF CloseHandle, CreditMap, Credits, Live, Inv, TypeOK
  <1>3. WaitMap' = WaitMap /\ result' = result
    BY DEF CloseHandle, WaitMap, WaitsOn
  <1> QED
    BY <1>1, <1>2, <1>3 DEF Promise!Close

\* BeginWait gives the thread an abstract request.
LEMMA BeginStep ==
  ASSUME Inv, NEW t \in Threads, NEW r \in Requests, ~InWait(t), BeginWait(t, r)
  PROVE  /\ WaitMap[t] = Promise!NoWait
         /\ \E w \in Promise!Waits : w.objs # {} /\ WaitMap' = [WaitMap EXCEPT ![t] = w]
         /\ result' = [result EXCEPT ![t] = "none"]
  <1> DEFINE w == [objs |-> {o \in Objects : \E i \in DOMAIN r.objs : r.objs[i] = o},
                   any |-> r.any]
  <1>1. WaitMap[t] = Promise!NoWait
    BY WaitMapOf DEF Inv
  <1>2. w \in Promise!Waits
    BY RequestFields DEF Promise!Waits
  <1>3. w.objs # {}
    <2>1. r.objs \in Seq(Objects) /\ r.objs # <<>>
      BY RequestFields, KernelWaitAssumption
    <2>2. 1 \in DOMAIN r.objs /\ r.objs[1] \in Objects
      BY <2>1
    <2> QED
      BY <2>2
  <1>4. WaitMap' = [WaitMap EXCEPT ![t] = w]
    <2>1. req' = [req EXCEPT ![t] = r]
      BY DEF BeginWait
    <2>2. WaitMap'[t] = w
      BY <2>1 DEF WaitMap, WaitsOn, Inv, TypeOK
    <2>3. \A u \in Threads \ {t} : WaitMap'[u] = WaitMap[u]
      BY <2>1 DEF WaitMap, WaitsOn, Inv, TypeOK
    <2> QED
      BY <2>2, <2>3 DEF WaitMap
  <1> QED
    BY <1>1, <1>2, <1>3, <1>4 DEF BeginWait

\* Signal-and-wait changes one object and begins a wait.
LEMMA SignalAndWaitStep ==
  ASSUME Inv, NEW t \in Threads, NEW e \in Objects, NEW r \in Requests, SignalAndWait(t, e, r)
  PROVE  Promise!Begin(t)
  <1>1. Closed' = Closed
    BY DEF SignalAndWait, Closed
  <1>2. ~InWait(t) /\ BeginWait(t, r)
    BY DEF SignalAndWait, Caller, InWait
  <1>3. \/ CreditMap' = CreditMap
        \/ \E o \in Consumable \ Closed : \E n \in 0..LimitMap[o] :
             CreditMap' = [CreditMap EXCEPT ![o] = n]
    <2>1. \A p \in Consumable \ {e} : CreditMap'[p] = CreditMap[p]
      BY Kinds DEF SignalAndWait, CreditMap, Credits, Live, Inv, TypeOK
    <2>2. CASE e \in Consumable
      <3>1. CreditMap'[e] = 1 /\ LimitMap[e] = 1
        BY <2>2, Kinds DEF SignalAndWait, CreditMap, LimitMap, Credits, One, Live,
           Inv, TypeOK
      <3>2. CreditMap' = [CreditMap EXCEPT ![e] = 1] /\ e \notin Closed
        BY <2>1, <2>2, <3>1 DEF CreditMap, Closed, SignalAndWait
      <3>3. 1 \in 0..LimitMap[e]
        BY <3>1
      <3> QED
        BY <2>2, <3>2, <3>3
    <2>3. CASE e \notin Consumable
      BY <2>1, <2>3 DEF CreditMap
    <2> QED
      BY <2>2, <2>3
  <1> QED
    BY <1>1, <1>2, <1>3, BeginStep DEF Promise!Begin

\* A timeout or an unwind ends the abstract wait without taking a credit.
LEMMA GiveUpStep ==
  ASSUME Inv, NEW t \in Threads, InWait(t), NEW where, Leave(t, where)
  PROVE  Promise!GiveUp(t)
  <1>1. WaitMap[t] # Promise!NoWait
    BY WaitMapOf DEF Inv, Promise!NoWait
  <1>2. WaitMap' = [WaitMap EXCEPT ![t] = Promise!NoWait]
    BY WaitMapReset DEF Leave, Inv
  <1>3. CreditMap' = CreditMap /\ Closed' = Closed
    BY DEF Leave, objVars, CreditMap, Closed, Credits, Live
  <1> QED
    BY <1>1, <1>2, <1>3 DEF Leave, Promise!GiveUp

\* A satisfied wait takes one credit of every live consumable object it used.
LEMMA SatisfyStep ==
  ASSUME Inv, NEW t \in Threads, WaitSatisfied(t)
  PROVE  Promise!Satisfy(t)
  <1> USE DEF Inv
  <1>1. PICK i \in DOMAIN req[t].objs :
           LET f == req[t].objs[i]
               taken == Taken(t, f)
           IN /\ FirstReady(t, i)
              /\ signaled' = [o \in Objects |->
                                IF o \in taken THEN SignaledAfterUse(o) ELSE signaled[o]]
              /\ count' = [o \in Objects |->
                             IF o \in taken \intersect Semaphores /\ count[o] > 0
                             THEN count[o] - 1 ELSE count[o]]
              /\ dueAbs' = [dueAbs EXCEPT ![f] = IF signaled[f] THEN @ ELSE 0]
    BY DEF WaitSatisfied
  <1> DEFINE f == req[t].objs[i]
             used == Taken(t, f)
             taken == {o \in used : o \in Consumable /\ Live(o)}
  <1>2. f \in Objects /\ WaitsOn(t, f) /\ (signaled[f] \/ TimerExpired(f)) /\ InWait(t)
    BY <1>1, ArrayInObjects DEF FirstReady, Ready, WaitsOn
  <1>3. \A o \in used : o \in Objects /\ WaitsOn(t, o) /\ (o = f \/ signaled[o])
    BY <1>2 DEF Taken
  <1>4. /\ status' = status /\ req' = [req EXCEPT ![t] = NoRequest]
        /\ result' = [result EXCEPT ![t] = "signaled"]
    BY DEF WaitSatisfied
  <1>5. ASSUME NEW o \in taken
        PROVE  CreditMap[o] > 0 /\ CreditMap'[o] = CreditMap[o] - 1
    <2>1. CASE o \in Semaphores
      <3>1. signaled[o] /\ count[o] \in Nat /\ count[o] > 0
        BY <1>2, <1>3, <2>1, Kinds DEF TimerExpired, FieldsAgree, TypeOK
      <3>2. count'[o] = count[o] - 1
        BY <1>1, <2>1, <3>1, Kinds
      <3> QED
        BY <1>4, <2>1, <3>1, <3>2 DEF CreditMap, Credits, Live
    <2>2. CASE o \in AutoReset
      <3>1. ~signaled'[o]
        BY <1>1, <1>3, <2>2 DEF SignaledAfterUse
      <3>2. ~(o \in AllTimers /\ dueAbs'[o] # 0)
        BY <1>1, <1>2, <1>3, Kinds DEF FieldsAgree, TypeOK
      <3>3. CreditMap'[o] = 0
        BY <1>4, <2>2, <3>1, <3>2, Kinds DEF CreditMap, Credits, Live, One
      <3>4. CreditMap[o] = 1
        BY <1>2, <1>3, <2>2, Kinds DEF CreditMap, Credits, Live, One, FieldsAgree,
           TimerExpired
      <3> QED
        BY <3>3, <3>4
    <2> QED
      BY <2>1, <2>2 DEF Consumable
  <1>6. ASSUME NEW o \in Consumable \ taken PROVE CreditMap'[o] = CreditMap[o]
    <2>1. CASE ~Live(o)
      BY <1>4, <2>1 DEF CreditMap, Live
    <2>2. CASE o \notin used
      <3>1. signaled'[o] = signaled[o] /\ count'[o] = count[o]
        BY <1>1, <2>2, Kinds
      <3>2. o # f
        BY <2>2 DEF Taken
      <3>3. dueAbs'[o] = dueAbs[o]
        BY <1>1, <3>2, Kinds DEF TypeOK
      <3> QED
        BY <1>4, <3>1, <3>3 DEF CreditMap, Credits, Live
    <2> QED
      BY <2>1, <2>2
  <1>7. CreditMap' = [o \in Consumable |-> IF o \in taken THEN CreditMap[o] - 1 ELSE CreditMap[o]]
    BY <1>5, <1>6 DEF CreditMap
  <1>8. taken \in SUBSET (WaitMap[t].objs \intersect Consumable)
    BY <1>3 DEF WaitMap
  <1>9. taken # {} \/ Promise!Free(WaitMap[t]) # {}
    <2>1. f \in used /\ f \in WaitMap[t].objs
      BY <1>2 DEF Taken, WaitMap
    <2>2. status[f] \in {"live", "freed"}
      BY <1>2, ArrayInObjects DEF TypeOK
    <2>3. f \notin taken => f \in Promise!Free(WaitMap[t])
      BY <1>2, <2>1, <2>2 DEF Promise!Free, Closed, Live
    <2> QED
      BY <2>3
  <1>10. WaitMap[t].any => \A o, p \in taken : o = p
    BY DEF WaitMap, Taken
  <1>11. WaitMap[t] # Promise!NoWait
    BY <1>2, WaitMapOf DEF Promise!NoWait
  <1>12. WaitMap' = [WaitMap EXCEPT ![t] = Promise!NoWait]
    BY <1>4, WaitMapReset
  <1>13. Closed' = Closed
    BY <1>4 DEF Closed
  <1> QED
    BY <1>4, <1>5, <1>7, <1>8, <1>9, <1>10, <1>11, <1>12, <1>13 DEF Promise!Satisfy

\* Every step implements a step of WaitObjects or is invisible to it.
LEMMA RefinementStep == Inv /\ Inv' /\ [Next]_vars => [Promise!Next]_(Promise!avars)
  <1> SUFFICES ASSUME Inv, Inv', [Next]_vars PROVE [Promise!Next]_(Promise!avars)
    OBVIOUS
  <1>1. ASSUME NEW t \in Threads, NEW o \in Objects, CreateObject(t, o)
        PROVE  [Promise!Next]_(Promise!avars)
    BY <1>1, ObjectStep DEF CreateObject, Initialize, Closed, TypeOK, Inv
  <1>2. ASSUME NEW t \in Threads, NEW o \in Objects, ReinitializeObject(t, o)
        PROVE  [Promise!Next]_(Promise!avars)
    BY <1>2, ObjectStep DEF ReinitializeObject, Initialize, Closed, TypeOK, Inv
  <1>3. ASSUME NEW t \in Threads, NEW o \in Objects, CloseHandle(t, o)
        PROVE  [Promise!Next]_(Promise!avars)
    BY <1>3, CloseStep DEF Promise!Next
  <1>4. ASSUME NEW t \in Threads, NEW o \in Objects, SetEvent(t, o)
        PROVE  [Promise!Next]_(Promise!avars)
    BY <1>4, ObjectStep DEF SetEvent, Closed, TypeOK, Inv
  <1>5. ASSUME NEW t \in Threads, NEW o \in Objects, ResetEvent(t, o)
        PROVE  [Promise!Next]_(Promise!avars)
    BY <1>5, ObjectStep DEF ResetEvent, Closed, TypeOK, Inv
  <1>6. ASSUME NEW t \in Threads, NEW o \in Objects, ReleaseMutant(t, o)
        PROVE  [Promise!Next]_(Promise!avars)
    BY <1>6, ObjectStep DEF ReleaseMutant, Closed, TypeOK, Inv
  <1>7. ASSUME NEW t \in Threads, NEW o \in Objects, CancelTimer(t, o)
        PROVE  [Promise!Next]_(Promise!avars)
    BY <1>7, ObjectStep DEF CancelTimer, Closed, TypeOK, Inv
  <1>8. ASSUME NEW t \in Threads, NEW o \in Objects, NEW n \in 1..MaxCount, ReleaseSemaphore(t, o, n)
        PROVE  [Promise!Next]_(Promise!avars)
    BY <1>8, ObjectStep DEF ReleaseSemaphore, Closed, TypeOK, Inv
  <1>9. ASSUME NEW t \in Threads, NEW o \in Objects, NEW due \in 0..MaxTime, SetTimer(t, o, due)
        PROVE  [Promise!Next]_(Promise!avars)
    BY <1>9, ObjectStep DEF SetTimer, Closed, TypeOK, Inv
  <1>10. ASSUME NEW t \in Threads, NEW o \in Objects, NEW r \in Requests, SignalAndWait(t, o, r)
         PROVE  [Promise!Next]_(Promise!avars)
    BY <1>10, SignalAndWaitStep DEF Promise!Next
  <1>11. ASSUME NEW t \in Threads, NEW r \in Requests, WaitCall(t, r)
         PROVE  [Promise!Next]_(Promise!avars)
    <2>1. ~InWait(t) /\ BeginWait(t, r)
      BY <1>11 DEF WaitCall, InWait
    <2>2. CreditMap' = CreditMap /\ Closed' = Closed
      BY <1>11 DEF WaitCall, objVars, CreditMap, Credits, Live, Closed
    <2> QED
      BY <2>1, <2>2, BeginStep DEF Promise!Begin, Promise!Next
  <1>12. ASSUME NEW t \in Threads, NEW until \in 1..MaxTime, DelayCall(t, until)
         PROVE  [Promise!Next]_(Promise!avars)
    BY <1>12, InvisibleStep DEF DelayCall, objVars
  <1>13. ASSUME NEW t \in Threads, WaitSatisfied(t)
         PROVE  [Promise!Next]_(Promise!avars)
    BY <1>13, SatisfyStep DEF Promise!Next
  <1>14. ASSUME NEW t \in Threads, WaitUnwinds(t) PROVE [Promise!Next]_(Promise!avars)
    <2>1. InWait(t) /\ Leave(t, "unwound")
      BY <1>14 DEF WaitUnwinds, Evaluates, InWait
    <2> QED
      BY <2>1, GiveUpStep DEF Promise!Next
  <1>15. ASSUME NEW t \in Threads, WaitTimesOut(t)
         PROVE  [Promise!Next]_(Promise!avars)
    <2>1. InWait(t) /\ Leave(t, "running")
      BY <1>15 DEF WaitTimesOut, Evaluates, InWait
    <2> QED
      BY <2>1, GiveUpStep DEF Promise!Next
  <1>16. ASSUME NEW t \in Threads, WaitBlocks(t) PROVE [Promise!Next]_(Promise!avars)
    BY <1>16, InvisibleStep DEF WaitBlocks, Evaluates, objVars
  <1>17. ASSUME NEW t \in Threads, Sleep(t) PROVE [Promise!Next]_(Promise!avars)
    BY <1>17, InvisibleStep DEF Sleep, objVars
  <1>18. ASSUME NEW t \in Threads, WakeUp(t) PROVE [Promise!Next]_(Promise!avars)
    BY <1>18, InvisibleStep DEF WakeUp, objVars
  <1>19. ASSUME NEW t \in Threads, DelayEnds(t) PROVE [Promise!Next]_(Promise!avars)
    BY <1>19, InvisibleStep DEF DelayEnds, objVars
  <1>20. ASSUME NEW o \in Objects, HeapReuse(o) PROVE [Promise!Next]_(Promise!avars)
    <2>1. UNCHANGED <<status, count, dueAbs, req, result>>
      BY <1>20 DEF HeapReuse
    <2>2. \A p \in Objects : Live(p) => signaled'[p] = signaled[p]
      BY <1>20 DEF HeapReuse, Live, TypeOK, Inv
    <2>3. CreditMap' = CreditMap
      BY <2>1, <2>2, Kinds DEF CreditMap, Credits, Live
    <2> QED
      BY <2>1, <2>3 DEF Promise!avars, Closed, WaitMap, WaitsOn
  <1>21. CASE SetStop
    BY <1>21, InvisibleStep DEF SetStop, objVars
  <1>22. CASE WakeAll
    BY <1>22, InvisibleStep DEF WakeAll, NotifyAll, objVars
  <1>23. CASE Tick
    BY <1>23, InvisibleStep DEF Tick, objVars
  <1>24. CASE UNCHANGED vars
    BY <1>24, InvisibleStep DEF vars
  <1> QED
    BY <1>1, <1>2, <1>3, <1>4, <1>5, <1>6, <1>7, <1>8, <1>9, <1>10, <1>11, <1>12,
       <1>13, <1>14, <1>15, <1>16, <1>17, <1>18, <1>19, <1>20, <1>21, <1>22, <1>23,
       <1>24
    DEF Next, Guest, WaitStep, DeadlineWake, SpuriousWake

\* The wait engine implements WaitObjects: no signal of an auto-reset event, an
\* auto-reset timer or a semaphore satisfies two waits.
THEOREM Refinement == Spec => EverySignalServesOneWait
  <1>1. Init => Promise!Init
    <2> SUFFICES ASSUME Init PROVE Promise!Init
      OBVIOUS
    <2>1. CreditMap = [o \in Consumable |-> 0] /\ Closed = {}
      BY Kinds DEF Init, CreditMap, Closed, Live
    <2>2. WaitMap = [t \in Threads |-> Promise!NoWait]
      <3>1. RequestsSound
        BY InitInv DEF Inv
      <3> QED
        BY <3>1, WaitMapOf DEF Init, InWait, WaitMap
    <2> QED
      BY <2>1, <2>2 DEF Init, Promise!Init
  <1>2. Inv /\ Inv' /\ [Next]_vars => [Promise!Next]_(Promise!avars)
    BY RefinementStep
  <1> QED
    BY <1>1, <1>2, Invariance, PTL DEF Spec, EverySignalServesOneWait, Promise!Spec
=============================================================================
