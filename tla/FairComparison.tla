---------------------------- MODULE FairComparison ----------------------------
(***************************************************************************)
(* What one differential case promises: the reference runs, then the       *)
(* device under test runs, never both at once, and the second one starts   *)
(* from the state the first one started from; or the case fails and        *)
(* nothing is compared.                                                    *)
(***************************************************************************)
EXTENDS Naturals

CONSTANTS
  Fixtures,   \* the states of a fixture that a program can tell apart
  Nothing     \* the start of a run that has not begun

VARIABLES
  phase,      \* how far the case is
  begun       \* the fixture each program started from

TypeOK ==
  /\ phase \in {"fresh", "referenceRuns", "between", "dutRuns", "compared", "failed"}
  /\ begun \in [{"reference", "dut"} -> Fixtures \cup {Nothing}]

Init ==
  /\ phase = "fresh"
  /\ begun = [v \in {"reference", "dut"} |-> Nothing]

ReleaseReference ==
  /\ phase = "fresh"
  /\ phase' = "referenceRuns"
  /\ \E f \in Fixtures : begun' = [begun EXCEPT !["reference"] = f]

ReferenceEnds ==
  /\ phase = "referenceRuns"
  /\ phase' = "between"
  /\ UNCHANGED begun

ReleaseDut ==
  /\ phase = "between"
  /\ phase' = "dutRuns"
  /\ begun' = [begun EXCEPT !["dut"] = begun["reference"]]

DutEnds ==
  /\ phase = "dutRuns"
  /\ phase' = "compared"
  /\ UNCHANGED begun

Fail ==
  /\ phase \notin {"compared", "failed"}
  /\ phase' = "failed"
  /\ UNCHANGED begun

Next ==
  \/ ReleaseReference \/ ReferenceEnds
  \/ ReleaseDut \/ DutEnds
  \/ Fail

Spec == Init /\ [][Next]_<<phase, begun>>

===============================================================================
