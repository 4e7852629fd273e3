---------------------------- MODULE SurfaceBackend ----------------------------
(***************************************************************************)
(* What gfx/graphics_backend.h promises of a backend: it presents to the   *)
(* window it was last given and to no other, it may fail to take a window  *)
(* or lose the one it has, the surface never changes under a present, and  *)
(* every present ends.                                                     *)
(***************************************************************************)
CONSTANTS Windows, NoWindow
VARIABLES attached, busy
vars == <<attached, busy>>

Init == attached = NoWindow /\ ~busy

Available(w) == ~busy /\ attached' \in {w, NoWindow} /\ UNCHANGED busy
Lost == ~busy /\ attached' = NoWindow /\ UNCHANGED busy
Begin == ~busy /\ attached # NoWindow /\ busy' = TRUE /\ UNCHANGED attached
End == busy /\ busy' = FALSE /\ attached' \in {attached, NoWindow}

Next == (\E w \in Windows : Available(w)) \/ Lost \/ Begin \/ End
PresentEnds == busy ~> ~busy
Spec == Init /\ [][Next]_vars /\ PresentEnds
=============================================================================
