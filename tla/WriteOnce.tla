------------------------------- MODULE WriteOnce -------------------------------
(***************************************************************************)
(* What publishing metrics promises: a path takes the value of at most one *)
(* writer, for good, and a writer that is told "ok" is that one.  A writer *)
(* whose value is there may yet be told "error", or never answered.        *)
(***************************************************************************)
CONSTANTS Procs, Nobody

VARIABLES
  value,  \* whose metrics the path holds
  answer  \* what each writer was told: "pending", "ok" or "error"

vars == <<value, answer>>

Init ==
  /\ value = Nobody
  /\ answer = [p \in Procs |-> "pending"]

Publish(p) ==
  /\ value = Nobody
  /\ answer[p] = "pending"
  /\ value' = p
  /\ UNCHANGED answer

Confirm(p) ==
  /\ value = p
  /\ answer[p] = "pending"
  /\ answer' = [answer EXCEPT ![p] = "ok"]
  /\ UNCHANGED value

Refuse(p) ==
  /\ answer[p] = "pending"
  /\ answer' = [answer EXCEPT ![p] = "error"]
  /\ UNCHANGED value

Next == \E p \in Procs : Publish(p) \/ Confirm(p) \/ Refuse(p)

Spec == Init /\ [][Next]_vars
=============================================================================
