--------------------------- MODULE CritSecProofs ----------------------------
(***************************************************************************)
(* Proofs about CritSec, for any threads, sections and depth.              *)
(***************************************************************************)
EXTENDS CritSec, TLAPS

(***************************************************************************)
(* The inductive invariant adds what the two properties rest on: nobody    *)
(* has entered or waits for a section that is not initialized, and a       *)
(* thread that is about to sleep found its section taken and still owns    *)
(* the mutex, so nobody can have left the section since.                   *)
(***************************************************************************)
UnreadyUnused ==
  /\ \A t \in Threads, c \in Sections : c \notin ready => held[t][c] = 0
  /\ \A t \in Threads : pc[t] \in InEnter => want[t] \in ready

CheckedFoundTaken == \A t \in Threads : pc[t] = "checked" => lock[want[t]] >= 0

Inv == TypeOK /\ HoldersAgree /\ UnreadyUnused /\ CheckedFoundTaken /\ FreeSectionIsAnnounced

USE DEF PCs, InEnter

\* The initial states satisfy the invariant.
LEMMA InitInv == Init => Inv
  <1> SUFFICES ASSUME Init PROVE Inv
    OBVIOUS
  <1>1. TypeOK
    BY CritSecAssumption DEF Init, TypeOK
  <1>2. HoldersAgree
    BY CritSecAssumption DEF Init, HoldersAgree
  <1>3. UnreadyUnused /\ CheckedFoundTaken /\ FreeSectionIsAnnounced
    BY DEF Init, UnreadyUnused, CheckedFoundTaken, FreeSectionIsAnnounced
  <1> QED
    BY <1>1, <1>2, <1>3 DEF Inv

\* Entering, by Take or Reenter, adds one to the count of one thread for one section,
\* which agrees with the new lock_count n.
LEMMA Entered ==
  ASSUME Inv, NEW t \in Threads, NEW c \in ready, Take(t, c) \/ Reenter(t, c)
  PROVE  \E n \in 0..MaxDepth :
           /\ lock' = [lock EXCEPT ![c] = n]
           /\ owner' = [owner EXCEPT ![c] = t]
           /\ held' = [held EXCEPT ![t] = [held[t] EXCEPT ![c] = n + 1]]
           /\ \A u \in Threads \ {t} : held[u][c] = 0
  <1> USE CritSecAssumption DEF Inv, TypeOK
  <1>1. c \in Sections
    OBVIOUS
  <1>2. CASE Take(t, c)
    <2>1. \A u \in Threads : held[u][c] = 0
      BY <1>1, <1>2 DEF Take, HoldersAgree
    <2>2. held' = [held EXCEPT ![t] = [held[t] EXCEPT ![c] = 0 + 1]]
      BY <1>1, <1>2, <2>1 DEF Take, Count
    <2>3. 0 \in 0..MaxDepth
      OBVIOUS
    <2> QED
      BY <1>2, <2>1, <2>2, <2>3 DEF Take
  <1>3. CASE Reenter(t, c)
    <2>1. held[t][c] = lock[c] + 1 /\ \A u \in Threads \ {t} : held[u][c] = 0
      BY <1>1, <1>3 DEF Reenter, HoldersAgree
    <2>2. lock[c] + 1 \in 0..MaxDepth
      BY <1>1, <1>3 DEF Reenter
    <2>3. /\ lock' = [lock EXCEPT ![c] = lock[c] + 1]
          /\ held' = [held EXCEPT ![t] = [held[t] EXCEPT ![c] = (lock[c] + 1) + 1]]
      BY <1>1, <1>3, <2>1 DEF Reenter, Count
    <2>4. owner' = [owner EXCEPT ![c] = t]
      BY <1>1, <1>3 DEF Reenter
    <2> QED
      BY <2>1, <2>2, <2>3, <2>4
  <1> QED
    BY <1>2, <1>3

\* A step that enters keeps the parts of the invariant that speak of held.
LEMMA EnteredKeeps ==
  ASSUME Inv, NEW t \in Threads, NEW c \in ready, Take(t, c) \/ Reenter(t, c), ready' = ready
  PROVE  /\ lock' \in [Sections -> -1..MaxDepth]
         /\ owner' \in [Sections -> Threads \union {NoThread}]
         /\ held' \in [Threads -> [Sections -> 0..MaxDepth + 1]]
         /\ HoldersAgree'
         /\ \A d \in Sections : lock'[d] < 0 => lock[d] < 0
  <1>1. PICK n \in 0..MaxDepth :
           /\ lock' = [lock EXCEPT ![c] = n]
           /\ owner' = [owner EXCEPT ![c] = t]
           /\ held' = [held EXCEPT ![t] = [held[t] EXCEPT ![c] = n + 1]]
           /\ \A u \in Threads \ {t} : held[u][c] = 0
    BY Entered
  <1> USE CritSecAssumption DEF Inv, TypeOK
  <1>2. c \in Sections /\ n \in -1..MaxDepth /\ n + 1 \in 0..MaxDepth + 1
    OBVIOUS
  <1>3. lock' \in [Sections -> -1..MaxDepth]
    BY <1>1, <1>2
  <1>4. owner' \in [Sections -> Threads \union {NoThread}]
    BY <1>1, <1>2
  <1>5. held' \in [Threads -> [Sections -> 0..MaxDepth + 1]]
    BY <1>1, <1>2
  <1>6. \A d \in Sections : lock'[d] = IF d = c THEN n ELSE lock[d]
    BY <1>1
  <1>7. \A d \in Sections : owner'[d] = IF d = c THEN t ELSE owner[d]
    BY <1>1
  <1>8. \A u \in Threads, d \in Sections :
          held'[u][d] = IF u = t /\ d = c THEN n + 1 ELSE held[u][d]
    BY <1>1
  <1>9. HoldersAgree'
    <2>1. \A d \in ready : d \in Sections
      OBVIOUS
    <2>2. \A d \in ready, u \in Threads :
            held'[u][d] > 0 => owner'[d] = u /\ held'[u][d] = lock'[d] + 1
      BY <1>1, <1>6, <1>7, <1>8, <2>1 DEF HoldersAgree
    <2>3. \A d \in ready : lock'[d] >= 0 => owner'[d] \in Threads /\ held'[owner'[d]][d] > 0
      BY <1>6, <1>7, <1>8, <2>1 DEF HoldersAgree
    <2> QED
      BY <2>2, <2>3 DEF HoldersAgree
  <1> QED
    BY <1>3, <1>4, <1>5, <1>6, <1>9

\* Types are preserved.
LEMMA TypeOKStep == Inv /\ [Next]_vars => TypeOK'
  <1> SUFFICES ASSUME Inv, [Next]_vars PROVE TypeOK'
    OBVIOUS
  <1> USE CritSecAssumption DEF Inv
  <1>1. ASSUME NEW t \in Threads, NEW c \in Sections, Initialize(t, c) PROVE TypeOK'
    BY <1>1 DEF Initialize, TypeOK
  <1>2. ASSUME NEW t \in Threads, NEW c \in Sections, Enter(t, c) PROVE TypeOK'
    BY <1>2, EnteredKeeps DEF Enter, Caller, TypeOK
  <1>3. ASSUME NEW t \in Threads, NEW c \in Sections, EnterBlocks(t, c) PROVE TypeOK'
    BY <1>3 DEF EnterBlocks, Caller, TakenByOther, TypeOK
  <1>4. ASSUME NEW t \in Threads, NEW c \in Sections, Leave(t, c) PROVE TypeOK'
    BY <1>4 DEF Leave, Caller, TypeOK
  <1>5. ASSUME NEW t \in Threads, Sleep(t) PROVE TypeOK'
    BY <1>5 DEF Sleep, TypeOK
  <1>6. ASSUME NEW t \in Threads, SpuriousWake(t) PROVE TypeOK'
    BY <1>6 DEF SpuriousWake, TypeOK
  <1>7. ASSUME NEW t \in Threads, Retry(t) PROVE TypeOK'
    <2>1. CASE stop = "no" /\ Take(t, want[t])
      <3>1. want[t] \in ready
        BY <1>7 DEF Retry, UnreadyUnused
      <3> QED
        BY <1>7, <2>1, <3>1, EnteredKeeps DEF Retry, TypeOK
    <2>2. CASE ~(stop = "no" /\ Take(t, want[t]))
      BY <1>7, <2>2 DEF Retry, TypeOK
    <2> QED
      BY <2>1, <2>2
  <1>8. ASSUME NEW t \in Threads, LeaveNotifies(t) PROVE TypeOK'
    BY <1>8 DEF LeaveNotifies, NotifyAll, TypeOK
  <1>9. CASE SetStop
    BY <1>9 DEF SetStop, TypeOK
  <1>10. CASE WakeAll
    BY <1>10 DEF WakeAll, NotifyAll, TypeOK
  <1>11. CASE UNCHANGED vars
    BY <1>11 DEF vars, TypeOK
  <1> QED
    BY <1>1, <1>2, <1>3, <1>4, <1>5, <1>6, <1>7, <1>8, <1>9, <1>10, <1>11 DEF Next

\* Only the holder changes lock_count, owning_thread and its own count, together.
LEMMA HoldersStep == Inv /\ [Next]_vars => HoldersAgree'
  <1> SUFFICES ASSUME Inv, [Next]_vars PROVE HoldersAgree'
    OBVIOUS
  <1> USE CritSecAssumption DEF Inv
  <1>1. ASSUME NEW t \in Threads, NEW c \in Sections, Initialize(t, c)
        PROVE  HoldersAgree'
    BY <1>1 DEF Initialize, TypeOK, HoldersAgree, UnreadyUnused
  <1>2. ASSUME NEW t \in Threads, NEW c \in Sections, Enter(t, c) PROVE HoldersAgree'
    BY <1>2, EnteredKeeps DEF Enter, Caller
  <1>3. ASSUME NEW t \in Threads, NEW c \in Sections, EnterBlocks(t, c)
        PROVE  HoldersAgree'
    BY <1>3 DEF EnterBlocks, Caller, TakenByOther, TypeOK, HoldersAgree, UnreadyUnused
  <1>4. ASSUME NEW t \in Threads, NEW c \in Sections, Leave(t, c) PROVE HoldersAgree'
    BY <1>4 DEF Leave, Caller, TypeOK, HoldersAgree, UnreadyUnused
  <1>5. ASSUME NEW t \in Threads, Sleep(t) PROVE HoldersAgree'
    BY <1>5 DEF Sleep, TypeOK, HoldersAgree, UnreadyUnused
  <1>6. ASSUME NEW t \in Threads, SpuriousWake(t) PROVE HoldersAgree'
    BY <1>6 DEF SpuriousWake, TypeOK, HoldersAgree, UnreadyUnused
  <1>7. ASSUME NEW t \in Threads, Retry(t) PROVE HoldersAgree'
    <2>1. CASE stop = "no" /\ Take(t, want[t])
      <3>1. want[t] \in ready
        BY <1>7 DEF Retry, UnreadyUnused
      <3> QED
        BY <1>7, <2>1, <3>1, EnteredKeeps DEF Retry, HoldersAgree
    <2>2. CASE ~(stop = "no" /\ Take(t, want[t]))
      BY <1>7, <2>2 DEF Retry, HoldersAgree
    <2> QED
      BY <2>1, <2>2
  <1>8. ASSUME NEW t \in Threads, LeaveNotifies(t) PROVE HoldersAgree'
    BY <1>8 DEF LeaveNotifies, NotifyAll, TypeOK, HoldersAgree, UnreadyUnused
  <1>9. CASE SetStop
    BY <1>9 DEF SetStop, TypeOK, HoldersAgree, UnreadyUnused
  <1>10. CASE WakeAll
    BY <1>10 DEF WakeAll, NotifyAll, TypeOK, HoldersAgree, UnreadyUnused
  <1>11. CASE UNCHANGED vars
    BY <1>11 DEF vars, TypeOK, HoldersAgree, UnreadyUnused
  <1> QED
    BY <1>1, <1>2, <1>3, <1>4, <1>5, <1>6, <1>7, <1>8, <1>9, <1>10, <1>11 DEF Next

\* A section is used only once it is ready.
LEMMA UnreadyStep == Inv /\ [Next]_vars => UnreadyUnused'
  <1> SUFFICES ASSUME Inv, [Next]_vars PROVE UnreadyUnused'
    OBVIOUS
  <1> USE CritSecAssumption DEF Inv
  <1>1. ASSUME NEW t \in Threads, NEW c \in Sections, Initialize(t, c)
        PROVE  UnreadyUnused'
    BY <1>1 DEF Initialize, TypeOK, UnreadyUnused
  <1>2. ASSUME NEW t \in Threads, NEW c \in Sections, Enter(t, c) PROVE UnreadyUnused'
    BY <1>2 DEF Enter, Caller, Take, Reenter, Count, TypeOK, UnreadyUnused
  <1>3. ASSUME NEW t \in Threads, NEW c \in Sections, EnterBlocks(t, c)
        PROVE  UnreadyUnused'
    BY <1>3 DEF EnterBlocks, Caller, TakenByOther, TypeOK, UnreadyUnused
  <1>4. ASSUME NEW t \in Threads, NEW c \in Sections, Leave(t, c) PROVE UnreadyUnused'
    BY <1>4 DEF Leave, Caller, TypeOK, UnreadyUnused
  <1>5. ASSUME NEW t \in Threads, Sleep(t) PROVE UnreadyUnused'
    BY <1>5 DEF Sleep, TypeOK, UnreadyUnused
  <1>6. ASSUME NEW t \in Threads, SpuriousWake(t) PROVE UnreadyUnused'
    BY <1>6 DEF SpuriousWake, TypeOK, UnreadyUnused
  <1>7. ASSUME NEW t \in Threads, Retry(t) PROVE UnreadyUnused'
    BY <1>7 DEF Retry, Take, Count, TakenByOther, TypeOK, UnreadyUnused
  <1>8. ASSUME NEW t \in Threads, LeaveNotifies(t) PROVE UnreadyUnused'
    BY <1>8 DEF LeaveNotifies, NotifyAll, TypeOK, UnreadyUnused
  <1>9. CASE SetStop
    BY <1>9 DEF SetStop, TypeOK, UnreadyUnused
  <1>10. CASE WakeAll
    BY <1>10 DEF WakeAll, NotifyAll, TypeOK, UnreadyUnused
  <1>11. CASE UNCHANGED vars
    BY <1>11 DEF vars, TypeOK, UnreadyUnused
  <1> QED
    BY <1>1, <1>2, <1>3, <1>4, <1>5, <1>6, <1>7, <1>8, <1>9, <1>10, <1>11 DEF Next

\* Nobody leaves a section while a thread that found it taken owns the mutex.
LEMMA CheckedStep == Inv /\ [Next]_vars => CheckedFoundTaken'
  <1> SUFFICES ASSUME Inv, [Next]_vars PROVE CheckedFoundTaken'
    OBVIOUS
  <1> USE CritSecAssumption DEF Inv
  <1>1. ASSUME NEW t \in Threads, NEW c \in Sections, Initialize(t, c)
        PROVE  CheckedFoundTaken'
    BY <1>1 DEF Initialize, TypeOK, CheckedFoundTaken, UnreadyUnused, WaitMFree
  <1>2. ASSUME NEW t \in Threads, NEW c \in Sections, Enter(t, c)
        PROVE  CheckedFoundTaken'
    BY <1>2 DEF Enter, Caller, Take, Reenter, Count, TypeOK, CheckedFoundTaken,
       UnreadyUnused, WaitMFree
  <1>3. ASSUME NEW t \in Threads, NEW c \in Sections, EnterBlocks(t, c)
        PROVE  CheckedFoundTaken'
    BY <1>3 DEF EnterBlocks, Caller, TakenByOther, TypeOK, CheckedFoundTaken,
       UnreadyUnused, WaitMFree
  <1>4. ASSUME NEW t \in Threads, NEW c \in Sections, Leave(t, c)
        PROVE  CheckedFoundTaken'
    BY <1>4 DEF Leave, Caller, TypeOK, CheckedFoundTaken, UnreadyUnused, WaitMFree
  <1>5. ASSUME NEW t \in Threads, Sleep(t) PROVE CheckedFoundTaken'
    BY <1>5 DEF Sleep, TypeOK, CheckedFoundTaken, UnreadyUnused, WaitMFree
  <1>6. ASSUME NEW t \in Threads, SpuriousWake(t) PROVE CheckedFoundTaken'
    BY <1>6 DEF SpuriousWake, TypeOK, CheckedFoundTaken, UnreadyUnused, WaitMFree
  <1>7. ASSUME NEW t \in Threads, Retry(t) PROVE CheckedFoundTaken'
    BY <1>7 DEF Retry, Take, Count, TakenByOther, TypeOK, CheckedFoundTaken,
       UnreadyUnused, WaitMFree
  <1>8. ASSUME NEW t \in Threads, LeaveNotifies(t) PROVE CheckedFoundTaken'
    BY <1>8 DEF LeaveNotifies, NotifyAll, TypeOK, CheckedFoundTaken, UnreadyUnused,
       WaitMFree
  <1>9. CASE SetStop
    BY <1>9 DEF SetStop, TypeOK, CheckedFoundTaken, UnreadyUnused, WaitMFree
  <1>10. CASE WakeAll
    BY <1>10 DEF WakeAll, NotifyAll, TypeOK, CheckedFoundTaken, UnreadyUnused, WaitMFree
  <1>11. CASE UNCHANGED vars
    BY <1>11 DEF vars, TypeOK, CheckedFoundTaken, UnreadyUnused, WaitMFree
  <1> QED
    BY <1>1, <1>2, <1>3, <1>4, <1>5, <1>6, <1>7, <1>8, <1>9, <1>10, <1>11 DEF Next

\* A leave makes the leaving thread the notifier; its notification leaves no sleeper.
LEMMA AnnouncedStep == Inv /\ [Next]_vars => FreeSectionIsAnnounced'
  <1> SUFFICES ASSUME Inv, [Next]_vars PROVE FreeSectionIsAnnounced'
    OBVIOUS
  <1> USE CritSecAssumption DEF Inv
  <1>1. ASSUME NEW t \in Threads, NEW c \in Sections, Initialize(t, c)
        PROVE  FreeSectionIsAnnounced'
    BY <1>1 DEF Initialize, TypeOK, FreeSectionIsAnnounced, CheckedFoundTaken,
       UnreadyUnused, WaitMFree
  <1>2. ASSUME NEW t \in Threads, NEW c \in Sections, Enter(t, c)
        PROVE  FreeSectionIsAnnounced'
    <2>1. pc' = pc /\ want' = want
      BY <1>2 DEF Enter
    <2>2. \A d \in Sections : lock'[d] < 0 => lock[d] < 0
      BY <1>2, EnteredKeeps DEF Enter, Caller
    <2>3. ASSUME NEW u \in Threads, pc[u] \in {"checked", "sleeping"}, lock'[want[u]] < 0
          PROVE  \E v \in Threads : pc[v] = "notifying"
      <3>1. want[u] \in Sections
        BY DEF TypeOK
      <3>2. lock[want[u]] < 0
        BY <2>2, <2>3, <3>1
      <3> QED
        BY <2>3, <3>2 DEF FreeSectionIsAnnounced
    <2> QED
      BY <2>1, <2>3 DEF FreeSectionIsAnnounced
  <1>3. ASSUME NEW t \in Threads, NEW c \in Sections, EnterBlocks(t, c)
        PROVE  FreeSectionIsAnnounced'
    BY <1>3 DEF EnterBlocks, Caller, TakenByOther, TypeOK, FreeSectionIsAnnounced,
       CheckedFoundTaken, UnreadyUnused, WaitMFree
  <1>4. ASSUME NEW t \in Threads, NEW c \in Sections, Leave(t, c)
        PROVE  FreeSectionIsAnnounced'
    BY <1>4 DEF Leave, Caller, TypeOK, FreeSectionIsAnnounced, CheckedFoundTaken,
       UnreadyUnused, WaitMFree
  <1>5. ASSUME NEW t \in Threads, Sleep(t) PROVE FreeSectionIsAnnounced'
    BY <1>5 DEF Sleep, TypeOK, FreeSectionIsAnnounced, CheckedFoundTaken,
       UnreadyUnused, WaitMFree
  <1>6. ASSUME NEW t \in Threads, SpuriousWake(t) PROVE FreeSectionIsAnnounced'
    BY <1>6 DEF SpuriousWake, TypeOK, FreeSectionIsAnnounced, CheckedFoundTaken,
       UnreadyUnused, WaitMFree
  <1>7. ASSUME NEW t \in Threads, Retry(t) PROVE FreeSectionIsAnnounced'
    BY <1>7 DEF Retry, Take, Count, TakenByOther, TypeOK, FreeSectionIsAnnounced,
       CheckedFoundTaken, UnreadyUnused, WaitMFree
  <1>8. ASSUME NEW t \in Threads, LeaveNotifies(t) PROVE FreeSectionIsAnnounced'
    BY <1>8 DEF LeaveNotifies, NotifyAll, TypeOK, FreeSectionIsAnnounced,
       CheckedFoundTaken, UnreadyUnused, WaitMFree
  <1>9. CASE SetStop
    BY <1>9 DEF SetStop, TypeOK, FreeSectionIsAnnounced, CheckedFoundTaken,
       UnreadyUnused, WaitMFree
  <1>10. CASE WakeAll
    BY <1>10 DEF WakeAll, NotifyAll, TypeOK, FreeSectionIsAnnounced,
       CheckedFoundTaken, UnreadyUnused, WaitMFree
  <1>11. CASE UNCHANGED vars
    BY <1>11 DEF vars, TypeOK, FreeSectionIsAnnounced, CheckedFoundTaken,
       UnreadyUnused, WaitMFree
  <1> QED
    BY <1>1, <1>2, <1>3, <1>4, <1>5, <1>6, <1>7, <1>8, <1>9, <1>10, <1>11 DEF Next

-----------------------------------------------------------------------------
\* The invariant always holds.
LEMMA Invariance == Spec => []Inv
  <1>1. Inv /\ [Next]_vars => Inv'
    BY TypeOKStep, HoldersStep, UnreadyStep, CheckedStep, AnnouncedStep DEF Inv
  <1> QED
    BY InitInv, <1>1, PTL DEF Spec

\* Every variable keeps its type (lock_count stays within -1 and the depth bound).
THEOREM TypeCorrect == Spec => []TypeOK
  <1>1. Inv => TypeOK
    BY DEF Inv
  <1> QED
    BY Invariance, <1>1, PTL

\* lock_count and owning_thread always say who is inside, and how deep.
THEOREM HoldersAlwaysAgree == Spec => []HoldersAgree
  <1>1. Inv => HoldersAgree
    BY DEF Inv
  <1> QED
    BY Invariance, <1>1, PTL

\* Two threads are never inside one section.
THEOREM MutualExclusion ==
  Spec => [](\A c \in ready : \A t, u \in Threads :
               held[t][c] > 0 /\ held[u][c] > 0 => t = u)
  <1>1. Inv => \A c \in ready : \A t, u \in Threads :
                 held[t][c] > 0 /\ held[u][c] > 0 => t = u
    BY DEF Inv, HoldersAgree
  <1> QED
    BY Invariance, <1>1, PTL

\* Leaving before notifying loses no wakeup.
THEOREM NoLostWakeup == Spec => []FreeSectionIsAnnounced
  <1>1. Inv => FreeSectionIsAnnounced
    BY DEF Inv
  <1> QED
    BY Invariance, <1>1, PTL
=============================================================================
