------------------------------ MODULE TargetRun ------------------------------
(***************************************************************************)
(* What the fuzzer needs from one controlled execution of a target         *)
(* program, whatever protocol provides it: the target may be released      *)
(* once, it executes at most once and only after its release, and the      *)
(* caller gets one verdict.  ExecHandshake shows that the pipe         *)
(* protocol of fuzz/execution.rs provides this.                            *)
(***************************************************************************)

VARIABLES
  phase,      \* where the caller is with this target
  executed,   \* has the target program been started?
  destroyed,  \* has something outside the fuzzer killed the helper process?
  verdict     \* what the caller was told

vars == <<phase, executed, destroyed, verdict>>

Verdicts == {"observed", "refused", "failed"}

TypeOK ==
  /\ phase \in {"waiting", "released", "over"}
  /\ executed \in BOOLEAN
  /\ destroyed \in BOOLEAN
  /\ verdict \in Verdicts \cup {"none"}

Init ==
  /\ phase = "waiting"
  /\ executed = FALSE
  /\ destroyed = FALSE
  /\ verdict = "none"

Release ==
  /\ phase = "waiting"
  /\ phase' = "released"
  /\ UNCHANGED <<executed, destroyed, verdict>>

Execute ==
  /\ phase = "released"
  /\ ~executed
  /\ executed' = TRUE
  /\ UNCHANGED <<phase, destroyed, verdict>>

Destroy ==
  /\ phase # "over"
  /\ ~destroyed
  /\ destroyed' = TRUE
  /\ UNCHANGED <<phase, executed, verdict>>

\* An observation needs an execution, unless the process was destroyed by a
\* third party; a refusal means that the target was never released.
Finish(v) ==
  /\ phase # "over"
  /\ v = "observed" => phase = "released" /\ (executed \/ destroyed)
  /\ v = "refused" => phase = "waiting"
  /\ v = "failed" => phase = "released"
  /\ phase' = "over"
  /\ verdict' = v
  /\ UNCHANGED <<executed, destroyed>>

Next ==
  \/ Release
  \/ Execute
  \/ Destroy
  \/ \E v \in Verdicts : Finish(v)

Spec == Init /\ [][Next]_vars

=============================================================================
