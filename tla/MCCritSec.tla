----------------------------- MODULE MCCritSec ------------------------------
(* Instances of CritSec for TLC: CritSec.cfg gives the constants their values. *)
EXTENDS CritSec, TLC
=============================================================================
