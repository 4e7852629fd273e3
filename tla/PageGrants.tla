----------------------------- MODULE PageGrants -----------------------------
(***************************************************************************)
(* What a window of guest memory promises its callers (guest_alloc.h       *)
(* 53-90): an allocation is a set of pages that no other allocation holds, *)
(* it keeps all of them until its owner frees it or the title is           *)
(* relaunched, and no step touches two allocations.                        *)
(***************************************************************************)
CONSTANT Pages

VARIABLE grants   \* the sets of pages in use, one per allocation

Init == grants = {}

Grant(g) ==
  /\ g # {}
  /\ \A h \in grants : g \intersect h = {}
  /\ grants' = grants \union {g}

Release(g) == g \in grants /\ grants' = grants \ {g}

\* The relaunch of the title forgets every allocation.
Reset == grants' = {}

Next ==
  \/ \E g \in SUBSET Pages : Grant(g) \/ Release(g)
  \/ Reset

Spec == Init /\ [][Next]_grants
=============================================================================
