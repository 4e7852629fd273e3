------------------------------ MODULE CritSec -------------------------------
(***************************************************************************)
(* Critical sections of the guest (kernel_real.cpp 776-906).  A section is *)
(* a structure in guest memory whose lock_count and owning_thread the HLE  *)
(* reads and writes under waitMutex(), the mutex of the wait engine, and   *)
(* whose waiters sleep on the engine's condition variable: every           *)
(* notification of the engine reaches them too.                            *)
(*                                                                         *)
(* Leave notifies after it has given the mutex up, so that between the two *)
(* the section is free and its waiters are not awake.  A waiter that found *)
(* the section taken owns the mutex until it sleeps ("checked").  The      *)
(* guest leaves only the sections it has entered and initializes only      *)
(* sections nobody uses: the code checks neither.                          *)
(***************************************************************************)
EXTENDS Integers

CONSTANTS
  Threads,
  Sections,
  Static,      \* the sections of the image's .data, which are born free
  NoThread,    \* owning_thread 0
  MaxDepth     \* bound: levels of reentrance

ASSUME CritSecAssumption ==
  /\ MaxDepth \in Nat
  /\ Static \subseteq Sections
  /\ NoThread \notin Threads

VARIABLES
  ready,         \* sections that are static or have been initialized
  lock, owner,   \* lock_count and owning_thread of each section
  pc, want,      \* RtlEnterCriticalSection, per thread
  held,          \* history: how often each thread has entered and not left
  stop           \* requestStop: "no", "set" (g_stop is true), "announced" (wakeAll done)

vars == <<ready, lock, owner, pc, want, held, stop>>

PCs == {"running", "checked", "sleeping", "woken", "notifying", "unwound"}
InEnter == {"checked", "sleeping", "woken"}

\* Types; lock_count never falls below -1 however enters and leaves are paired
\* (kernel_real.cpp 839-884), and a thread's levels are bounded by it.
TypeOK ==
  /\ ready \subseteq Sections
  /\ lock \in [Sections -> -1..MaxDepth]
  /\ owner \in [Sections -> Threads \union {NoThread}]
  /\ pc \in [Threads -> PCs]
  /\ want \in [Threads -> Sections]
  /\ held \in [Threads -> [Sections -> 0..MaxDepth + 1]]
  /\ stop \in {"no", "set", "announced"}

\* A section of the guest's heap is zeroed memory until it is initialized.
Init ==
  /\ ready = Static
  /\ lock = [c \in Sections |-> IF c \in Static THEN -1 ELSE 0]
  /\ owner = [c \in Sections |-> NoThread]
  /\ pc = [t \in Threads |-> "running"]
  /\ want \in [Threads -> Sections]
  /\ held = [t \in Threads |-> [c \in Sections |-> 0]]
  /\ stop = "no"

WaitMFree == \A t \in Threads : pc[t] # "checked"
NotifyAll(p) == [t \in Threads |-> IF p[t] = "sleeping" THEN "woken" ELSE p[t]]
Waits(t, c) == pc[t] \in InEnter /\ want[t] = c

\* RtlInitializeCriticalSection writes the fields without the mutex.
Initialize(t, c) ==
  /\ pc[t] = "running"
  /\ c \notin ready
  /\ ready' = ready \union {c}
  /\ lock' = [lock EXCEPT ![c] = -1]
  /\ owner' = [owner EXCEPT ![c] = NoThread]
  /\ UNCHANGED <<pc, want, held, stop>>

-----------------------------------------------------------------------------
(* Enter and TryEnter. *)

Count(t, c) == held' = [held EXCEPT ![t][c] = @ + 1]

\* The free section is taken.
Take(t, c) ==
  /\ lock[c] < 0
  /\ lock' = [lock EXCEPT ![c] = 0]
  /\ owner' = [owner EXCEPT ![c] = t]
  /\ Count(t, c)

\* Reentrance: the depth is kept in lock_count.
Reenter(t, c) ==
  /\ lock[c] >= 0 /\ owner[c] = t /\ lock[c] < MaxDepth
  /\ lock' = [lock EXCEPT ![c] = @ + 1]
  /\ Count(t, c)
  /\ UNCHANGED owner

Caller(t, c) == pc[t] = "running" /\ c \in ready /\ WaitMFree

\* RtlTryEnterCriticalSection succeeds in the same two cases; it returns FALSE and
\* changes nothing in the others.
Enter(t, c) ==
  /\ Caller(t, c)
  /\ Take(t, c) \/ Reenter(t, c)
  /\ UNCHANGED <<ready, pc, want, stop>>

TakenByOther(t, c) == lock[c] >= 0 /\ owner[c] # t

\* The wait evaluates its predicate at once, so a stop ends it before any sleep.
EnterBlocks(t, c) ==
  /\ Caller(t, c)
  /\ TakenByOther(t, c)
  /\ pc' = [pc EXCEPT ![t] = IF stop = "no" THEN "checked" ELSE "unwound"]
  /\ want' = [want EXCEPT ![t] = c]
  /\ UNCHANGED <<ready, lock, owner, held, stop>>

Sleep(t) ==
  /\ pc[t] = "checked"
  /\ pc' = [pc EXCEPT ![t] = "sleeping"]
  /\ UNCHANGED <<ready, lock, owner, want, held, stop>>

\* Any notification of the wait engine, or none at all.
SpuriousWake(t) ==
  /\ pc[t] = "sleeping"
  /\ pc' = [pc EXCEPT ![t] = "woken"]
  /\ UNCHANGED <<ready, lock, owner, want, held, stop>>

\* The waiter owns the mutex again: it looks at g_stop before it takes the section.
Retry(t) ==
  /\ pc[t] = "woken" /\ WaitMFree
  /\ \/ /\ stop # "no"
        /\ pc' = [pc EXCEPT ![t] = "unwound"]
        /\ UNCHANGED <<lock, owner, held>>
     \/ /\ stop = "no"
        /\ Take(t, want[t])
        /\ pc' = [pc EXCEPT ![t] = "running"]
     \/ /\ stop = "no"
        /\ TakenByOther(t, want[t])
        /\ pc' = [pc EXCEPT ![t] = "checked"]
        /\ UNCHANGED <<lock, owner, held>>
  /\ UNCHANGED <<ready, want, stop>>

-----------------------------------------------------------------------------
(* Leave. *)

\* Mutants: a leave that forgets the outer levels, and one that never notifies.
LeaveAllLevels(t, c) ==
  /\ Caller(t, c)
  /\ held[t][c] > 0
  /\ lock' = [lock EXCEPT ![c] = -1] /\ owner' = [owner EXCEPT ![c] = NoThread]
  /\ held' = [held EXCEPT ![t][c] = @ - 1]
  /\ pc' = [pc EXCEPT ![t] = "notifying"]
  /\ UNCHANGED <<ready, want, stop>>

LeaveSilently(t, c) ==
  /\ Caller(t, c)
  /\ held[t][c] > 0
  /\ IF lock[c] > 0
     THEN lock' = [lock EXCEPT ![c] = @ - 1] /\ UNCHANGED owner
     ELSE lock' = [lock EXCEPT ![c] = -1] /\ owner' = [owner EXCEPT ![c] = NoThread]
  /\ held' = [held EXCEPT ![t][c] = @ - 1]
  /\ UNCHANGED <<ready, pc, want, stop>>

Leave(t, c) ==
  /\ Caller(t, c)
  /\ held[t][c] > 0
  /\ IF lock[c] > 0
     THEN lock' = [lock EXCEPT ![c] = @ - 1] /\ UNCHANGED owner
     ELSE lock' = [lock EXCEPT ![c] = -1] /\ owner' = [owner EXCEPT ![c] = NoThread]
  /\ held' = [held EXCEPT ![t][c] = @ - 1]
  /\ pc' = [pc EXCEPT ![t] = "notifying"]
  /\ UNCHANGED <<ready, want, stop>>

\* Mutant: the notification of a leave wakes nobody.
LeaveForgetsNotify(t) ==
  /\ pc[t] = "notifying"
  /\ pc' = [pc EXCEPT ![t] = "running"]
  /\ UNCHANGED <<ready, lock, owner, want, held, stop>>

LeaveNotifies(t) ==
  /\ pc[t] = "notifying"
  /\ pc' = [NotifyAll(pc) EXCEPT ![t] = "running"]
  /\ UNCHANGED <<ready, lock, owner, want, held, stop>>

-----------------------------------------------------------------------------
(* requestStop. *)

SetStop ==
  /\ stop = "no"
  /\ stop' = "set"
  /\ UNCHANGED <<ready, lock, owner, pc, want, held>>

WakeAll ==
  /\ stop = "set"
  /\ stop' = "announced"
  /\ pc' = NotifyAll(pc)
  /\ UNCHANGED <<ready, lock, owner, want, held>>

-----------------------------------------------------------------------------
Next ==
  \/ \E t \in Threads :
       \/ \E c \in Sections :
            Initialize(t, c) \/ Enter(t, c) \/ EnterBlocks(t, c) \/ Leave(t, c)
       \/ Sleep(t) \/ SpuriousWake(t) \/ Retry(t) \/ LeaveNotifies(t)
  \/ SetStop \/ WakeAll

Spec == Init /\ [][Next]_vars

\* Every host thread that can run does; the guest owes no call, and the mutex is
\* given to each waiter in the end.
Fairness ==
  /\ WF_vars(WakeAll)
  /\ \A t \in Threads :
       WF_vars(Sleep(t)) /\ SF_vars(Retry(t)) /\ WF_vars(LeaveNotifies(t))

FairSpec == Spec /\ Fairness

-----------------------------------------------------------------------------
\* What the threads believe they hold is what the sections say: two threads are
\* never inside one section, nobody is inside a free one, and a section is never
\* taken with nobody inside it, whatever the order of enters, retries and leaves.
HoldersAgree ==
  \A c \in ready :
    /\ \A t \in Threads : held[t][c] > 0 => owner[c] = t /\ held[t][c] = lock[c] + 1
    /\ lock[c] >= 0 => owner[c] \in Threads /\ held[owner[c]][c] > 0

\* A thread sleeps over a free section only while the thread that left it has yet
\* to notify: giving the mutex up before notify_all loses no wakeup.
FreeSectionIsAnnounced ==
  \A t \in Threads :
    pc[t] \in {"checked", "sleeping"} /\ lock[want[t]] < 0 =>
      \E u \in Threads : pc[u] = "notifying"

\* A section that is left while a thread waits for it is taken, by that thread or
\* another, or the wait is unwound by a stop.
FreeSectionIsTaken ==
  \A t \in Threads, c \in Sections :
    (Waits(t, c) /\ lock[c] < 0) ~> (~Waits(t, c) \/ lock[c] >= 0)
=============================================================================
