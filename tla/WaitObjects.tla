---------------------------- MODULE WaitObjects -----------------------------
(***************************************************************************)
(* What the wait engine of the HLE kernel promises (kernel_state.h         *)
(* 226-258): an auto-reset event, an auto-reset timer or a semaphore holds *)
(* a number of credits, and a wait that returns "signaled" took a credit   *)
(* from an object of its array, so that no credit ever serves two waits.   *)
(* Nothing is promised of an object closed while a thread waits on it.     *)
(***************************************************************************)
EXTENDS Naturals

CONSTANTS Threads, Objects, Consumable, Limit

VARIABLES
  credits,   \* what each consumable object still holds
  closed,    \* the objects whose handle is gone
  wait,      \* the objects each thread waits on, and whether one of them is enough
  result     \* what the thread's last wait returned

avars == <<credits, closed, wait, result>>

NoWait == [objs |-> {}, any |-> TRUE]
Waits  == [objs : SUBSET Objects, any : BOOLEAN]

Init ==
  /\ credits = [o \in Consumable |-> 0]
  /\ closed = {}
  /\ wait = [t \in Threads |-> NoWait]
  /\ result = [t \in Threads |-> "none"]

\* A guest operation on one object: creation, set, reset, release, schedule, cancel.
Operate(o) ==
  /\ o \notin closed
  /\ \E n \in 0..Limit[o] : credits' = [credits EXCEPT ![o] = n]
  /\ UNCHANGED <<closed, wait, result>>

Close(o) ==
  /\ closed' = closed \union {o}
  /\ credits' = [p \in Consumable |-> IF p = o THEN 0 ELSE credits[p]]
  /\ UNCHANGED <<wait, result>>

\* A thread begins to wait; signal-and-wait operates on an object in the same step.
Begin(t) ==
  /\ wait[t] = NoWait
  /\ \E w \in Waits : w.objs # {} /\ wait' = [wait EXCEPT ![t] = w]
  /\ result' = [result EXCEPT ![t] = "none"]
  /\ \/ UNCHANGED credits
     \/ \E o \in Consumable \ closed : \E n \in 0..Limit[o] :
          credits' = [credits EXCEPT ![o] = n]
  /\ UNCHANGED closed

\* The objects of w that a wait may be satisfied by without taking a credit.
Free(w) == {o \in w.objs : o \notin Consumable \/ o \in closed}

Satisfy(t) ==
  /\ wait[t] # NoWait
  /\ \E taken \in SUBSET (wait[t].objs \intersect Consumable) :
       /\ \A o \in taken : credits[o] > 0
       /\ taken # {} \/ Free(wait[t]) # {}
       /\ wait[t].any => \A o, p \in taken : o = p
       /\ credits' = [o \in Consumable |-> IF o \in taken THEN credits[o] - 1 ELSE credits[o]]
  /\ wait' = [wait EXCEPT ![t] = NoWait]
  /\ result' = [result EXCEPT ![t] = "signaled"]
  /\ UNCHANGED closed

\* A timeout or a stop ends the wait and takes nothing.
GiveUp(t) ==
  /\ wait[t] # NoWait
  /\ wait' = [wait EXCEPT ![t] = NoWait]
  /\ result' = [result EXCEPT ![t] = "none"]
  /\ UNCHANGED <<credits, closed>>

Next ==
  \/ \E o \in Consumable : Operate(o)
  \/ \E o \in Objects : Close(o)
  \/ \E t \in Threads : Begin(t) \/ Satisfy(t) \/ GiveUp(t)

Spec == Init /\ [][Next]_avars
=============================================================================
