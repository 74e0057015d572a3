--------------------------- MODULE MCExecHandshake ---------------------------
(* Model values for ExecHandshake: both timeouts a few ticks long, so that  *)
(* every wait can end before, at and after its deadline.                    *)
EXTENDS ExecHandshake
=============================================================================
