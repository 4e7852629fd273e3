---------------------------- MODULE MCAppSession ----------------------------
(* Values of the constants of AppSession for its runs. *)
EXTENDS AppSession
MCThreads == ThreadNames
=============================================================================
