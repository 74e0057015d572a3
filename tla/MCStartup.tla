-------------------------------- MODULE MCStartup --------------------------------
(* Startup for TLC: three events are enough for a second entry, by the same    *)
(* process after a failed one or by another process.                           *)
EXTENDS Startup
=============================================================================
