-------------------------------- MODULE Campaign --------------------------------
(***************************************************************************)
(* run_fuzzer and run_single_iteration of fuzz/campaign.rs, with the       *)
(* recorder of fuzz/metrics.rs, the case source and the corpus: a campaign *)
(* sets itself up, runs its cases one after the other until one does not   *)
(* match, and ends in a verdict and, if asked for, a metrics file.         *)
(*                                                                         *)
(* What an evaluation, the reducer or a write to disk comes to is open:    *)
(* an evaluation may match, mismatch, time out or fail otherwise, and may  *)
(* show something new; the reducer and every write may fail.               *)
(***************************************************************************)
EXTENDS Naturals, Sequences

CONSTANTS
  MaxIterations,  \* bound on --iterations
  Scenarios,      \* how many scenarios the utility's generator has
  MaxCases,       \* the capacity of the corpus
  Nothing         \* no case set, no metrics file

ASSUME CapacityAssumption == MaxCases \in Nat \ {0}
ASSUME IterationsAssumption == MaxIterations \in Nat /\ Scenarios \in Nat /\ Nothing \notin Nat

VARIABLES
  pc,         \* where the campaign is
  requested,  \* --iterations
  caseSet,    \* the number of cases in the case set, or Nothing
  wanted,     \* was --metrics-out given?
  executor,   \* the case executor, a container: "none", "running", "removed"
  attempt,    \* the current iteration, from 0
  origins,    \* the origin of every submitted case
  found,      \* what each first evaluation came to
  corpus,     \* the iterations whose cases the corpus holds
  novel,      \* the iterations that showed something new
  submitted, completed, outcomes,  \* the recorder's counts
  bundles,    \* the saved repros, by kind and iteration
  lostWrite,  \* did a write of a repro fail?
  metrics,    \* the metrics file: Nothing, or the number of completed cases in it
  result      \* "running", "pass" or "fail"

recorder == <<submitted, completed, outcomes>>
setup == <<requested, caseSet, wanted>>
vars == <<pc, setup, executor, attempt, origins, found, corpus, novel, recorder,
          bundles, lostWrite, metrics, result>>

Verdicts == {"match", "mismatch", "timeout", "other"}
Origins == {"explicit", "scenario", "mutation", "random"}

TypeOK ==
  /\ pc \in {"create", "discover", "load", "configure", "loop", "evaluate", "shrink", "save",
             "finishWell", "finishBadly", "drop", "done"}
  /\ requested \in 1 .. MaxIterations
  /\ caseSet \in Nat \cup {Nothing}
  /\ wanted \in BOOLEAN
  /\ executor \in {"none", "running", "removed"}
  /\ attempt \in 0 .. requested
  /\ origins \in Seq(Origins)
  /\ found \in Seq(Verdicts)
  /\ corpus \in Seq(Nat)
  /\ novel \in Seq(Nat)
  /\ submitted \in Nat
  /\ completed \in Nat
  /\ outcomes \in [Verdicts -> Nat]
  /\ bundles \subseteq {"mismatch", "input"} \X Nat
  /\ lostWrite \in BOOLEAN
  /\ metrics \in Nat \cup {Nothing}
  /\ result \in {"running", "pass", "fail"}

Init ==
  /\ pc = "create"
  /\ requested \in 1 .. MaxIterations
  /\ caseSet \in (0 .. MaxIterations + 1) \cup {Nothing}
  /\ wanted \in BOOLEAN
  /\ executor = "none"
  /\ attempt = 0
  /\ origins = <<>>
  /\ found = <<>>
  /\ corpus = <<>>
  /\ novel = <<>>
  /\ submitted = 0
  /\ completed = 0
  /\ outcomes = [v \in Verdicts |-> 0]
  /\ bundles = {}
  /\ lostWrite = FALSE
  /\ metrics = Nothing
  /\ result = "running"

-----------------------------------------------------------------------------
(* Setting up.  A failure here leaves no metrics: there is no recorder yet. *)

idle == <<attempt, origins, found, corpus, novel, recorder, bundles, lostWrite>>

\* The capability, the targets or the container are missing.
CreateFails ==
  /\ pc = "create"
  /\ pc' = "done"
  /\ result' = "fail"
  /\ UNCHANGED <<setup, executor, idle, metrics>>

Create ==
  /\ pc = "create"
  /\ executor' = "running"
  /\ pc' = "discover"
  /\ UNCHANGED <<setup, idle, metrics, result>>

\* The option pool, given or discovered by running the reference's help.
Discover ==
  /\ pc = "discover"
  /\ pc' = "load"
  /\ UNCHANGED <<setup, executor, idle, metrics, result>>

\* Any later failure of the setup drops the executor on its way out.
DiscoverFails ==
  /\ pc = "discover"
  /\ pc' = "drop"
  /\ result' = "fail"
  /\ UNCHANGED <<setup, executor, idle, metrics>>

\* validate_case_set: as many cases as iterations, and at least one.
ValidCaseSet == caseSet \in {Nothing} \cup ({requested} \ {0})

Load ==
  /\ pc = "load"
  /\ ValidCaseSet
  /\ pc' = "configure"
  /\ UNCHANGED <<setup, executor, idle, metrics, result>>

LoadFails ==
  /\ pc = "load"
  /\ caseSet # Nothing
  /\ pc' = "drop"
  /\ result' = "fail"
  /\ UNCHANGED <<setup, executor, idle, metrics>>

Configure ==
  /\ pc = "configure"
  /\ pc' = "loop"
  /\ UNCHANGED <<setup, executor, idle, metrics, result>>

\* The metrics file, if wanted, or nothing if it cannot be written.
Written == {Nothing} \cup (IF wanted THEN {completed} ELSE {})

ConfigureFails ==
  /\ pc = "configure"
  /\ metrics' \in Written
  /\ pc' = "drop"
  /\ result' = "fail"
  /\ UNCHANGED <<setup, executor, idle>>

-----------------------------------------------------------------------------
(* One iteration.                                                          *)

\* select_fuzz_case: the case set first, then the scenarios, and then by
\* chance a mutation of an interesting case or a random one.
Sources ==
  IF caseSet # Nothing /\ attempt < caseSet THEN {"explicit"}
  ELSE IF attempt < Scenarios THEN {"scenario"}
  ELSE {"random"} \cup (IF corpus # <<>> THEN {"mutation"} ELSE {})

Submit ==
  /\ pc = "loop"
  /\ attempt < requested
  /\ \E o \in Sources : origins' = Append(origins, o)
  /\ submitted' = submitted + 1
  /\ pc' = "evaluate"
  /\ UNCHANGED <<setup, executor, attempt, found, corpus, novel, completed, outcomes,
                 bundles, lostWrite, metrics, result>>

\* complete: the case is counted under one outcome.
Complete(outcome) ==
  /\ completed' = completed + 1
  /\ outcomes' = [outcomes EXCEPT ![outcome] = @ + 1]
  /\ UNCHANGED submitted

\* The same as below, had a full corpus been closed.
RememberedAtOnce == IF Len(corpus) >= MaxCases THEN corpus ELSE Append(corpus, attempt)

\* maybe_add: a full corpus forgets its oldest case.
Remembered == Append(IF Len(corpus) >= MaxCases THEN Tail(corpus) ELSE corpus, attempt)

\* Semantic coverage, and the corpus with it, sees the evaluation before its
\* verdict is looked at.
Observe ==
  \/ UNCHANGED <<corpus, novel>>
  \/ corpus' = Remembered /\ novel' = Append(novel, attempt)

EvaluatesToMatch ==
  /\ pc = "evaluate"
  /\ found' = Append(found, "match")
  /\ Observe
  /\ Complete("match")
  /\ attempt' = attempt + 1
  /\ pc' = "loop"
  /\ UNCHANGED <<setup, executor, origins, bundles, lostWrite, metrics, result>>

EvaluatesToMismatch ==
  /\ pc = "evaluate"
  /\ found' = Append(found, "mismatch")
  /\ Observe
  /\ pc' = "shrink"
  /\ UNCHANGED <<setup, executor, attempt, origins, recorder, bundles, lostWrite, metrics, result>>

\* A write of a repro that may fail: the repro is there afterwards or not.
Save(kind) ==
  \/ bundles' = bundles \cup {<<kind, attempt>>} /\ UNCHANGED lostWrite
  \/ lostWrite' = TRUE /\ UNCHANGED bundles

\* A failed evaluation, had only an input that could be kept been counted.
EvaluationFailsUncounted ==
  /\ pc = "evaluate"
  /\ \E v \in {"timeout", "other"} :
       /\ found' = Append(found, v)
       /\ \/ Complete(v) /\ bundles' = bundles \cup {<<"input", attempt>>} /\ UNCHANGED lostWrite
          \/ lostWrite' = TRUE /\ UNCHANGED <<bundles, recorder>>
  /\ pc' = "finishBadly"
  /\ UNCHANGED <<setup, executor, attempt, origins, corpus, novel, metrics, result>>

\* The input is kept, and the error is counted as what its marker says.
EvaluationFails ==
  /\ pc = "evaluate"
  /\ \E v \in {"timeout", "other"} : found' = Append(found, v) /\ Complete(v)
  /\ Save("input")
  /\ pc' = "finishBadly"
  /\ UNCHANGED <<setup, executor, attempt, origins, corpus, novel, metrics, result>>

Shrink ==
  /\ pc = "shrink"
  /\ pc' = "save"
  /\ UNCHANGED <<setup, executor, idle, metrics, result>>

\* An error of any candidate is the error of the iteration, and nothing of
\* the mismatch is kept.
ShrinkFails ==
  /\ pc = "shrink"
  /\ \E v \in {"timeout", "other"} : Complete(v)
  /\ pc' = "finishBadly"
  /\ UNCHANGED <<setup, executor, attempt, origins, found, corpus, novel, bundles, lostWrite,
                 metrics, result>>

\* A mismatch counted as such whether or not its repro could be saved.
CountMismatchAnyway ==
  /\ pc = "save"
  /\ Save("mismatch")
  /\ Complete("mismatch")
  /\ pc' = "finishBadly"
  /\ UNCHANGED <<setup, executor, attempt, origins, found, corpus, novel, metrics, result>>

\* The repro is saved first; a mismatch is counted as such only then.
SaveMismatch ==
  /\ pc = "save"
  /\ Save("mismatch")
  /\ Complete(IF lostWrite' THEN "other" ELSE "mismatch")
  /\ pc' = "finishBadly"
  /\ UNCHANGED <<setup, executor, attempt, origins, found, corpus, novel, metrics, result>>

LoopEnds ==
  /\ pc = "loop"
  /\ attempt = requested
  /\ pc' = "finishWell"
  /\ UNCHANGED <<setup, executor, idle, metrics, result>>

-----------------------------------------------------------------------------
(* finish_campaign, and the return that drops the executor.                *)

\* The end of the loop, had a lost metrics file been a warning.
FinishWellRegardless ==
  /\ pc = "finishWell"
  /\ metrics' \in Written
  /\ result' = "pass"
  /\ pc' = "drop"
  /\ UNCHANGED <<setup, executor, idle>>

\* The verdict is a pass only once the metrics, if wanted, are saved.
FinishWell ==
  /\ pc = "finishWell"
  /\ metrics' \in Written
  /\ result' = IF wanted => metrics' # Nothing THEN "pass" ELSE "fail"
  /\ pc' = "drop"
  /\ UNCHANGED <<setup, executor, idle>>

FinishBadly ==
  /\ pc = "finishBadly"
  /\ metrics' \in Written
  /\ result' = "fail"
  /\ pc' = "drop"
  /\ UNCHANGED <<setup, executor, idle>>

Drop ==
  /\ pc = "drop"
  /\ executor' = "removed"
  /\ pc' = "done"
  /\ UNCHANGED <<setup, idle, metrics, result>>

SetUp ==
  \/ CreateFails \/ Create \/ Discover \/ DiscoverFails \/ Load \/ LoadFails
  \/ Configure \/ ConfigureFails

Iterate ==
  \/ Submit \/ EvaluatesToMatch \/ EvaluatesToMismatch \/ EvaluationFails
  \/ Shrink \/ ShrinkFails \/ SaveMismatch \/ LoopEnds

Next == SetUp \/ Iterate \/ FinishWell \/ FinishBadly \/ Drop

Spec == Init /\ [][Next]_vars

-----------------------------------------------------------------------------
(* Properties.                                                             *)

AllMatched == \A i \in 1 .. Len(found) : found[i] = "match"

\* "PASS - all requested iterations matched" (fuzz/campaign.rs:214) is said
\* only if every requested case was evaluated and matched, and the metrics
\* file, if asked for, says so.
PassIsEarned ==
  result = "pass" =>
    /\ AllMatched
    /\ Len(found) = requested
    /\ wanted => metrics = requested

\* Nothing runs after the first case that does not match, so that its state
\* on disk is the last one (the loop of fuzz/campaign.rs:119-138).
StopsAtFirstFailure == [][submitted' # submitted => AllMatched]_vars

\* The population report subtracts counts from each other
\* (fuzz/metrics.rs:240-264): no difference is negative, every outcome is
\* counted once, and a match is counted as nothing else.
CountsBalance ==
  /\ completed <= submitted
  /\ submitted <= requested
  /\ completed = outcomes["match"] + outcomes["mismatch"] + outcomes["timeout"] + outcomes["other"]
  /\ pc \in {"loop", "finishWell", "finishBadly"} => submitted = completed

\* A mismatch that the metrics count can be replayed: its repro was saved
\* before (fuzz/campaign.rs:383-406).
CountedMismatchHasRepro ==
  outcomes["mismatch"] > 0 => <<"mismatch", attempt>> \in bundles

\* A campaign over a case set runs exactly that set, in its order: it never
\* falls back to a generated case (validate_case_set, fuzz/case_source.rs).
CaseSetIsExact ==
  caseSet # Nothing =>
    /\ \A i \in 1 .. Len(origins) : origins[i] = "explicit"
    /\ result = "pass" => Len(origins) = caseSet

\* The corpus holds the latest interesting cases, as many as it has room for.
CorpusIsLatest ==
  /\ Len(corpus) <= MaxCases
  /\ Len(corpus) <= Len(novel)
  /\ Len(corpus) < MaxCases => Len(corpus) = Len(novel)
  /\ \A i \in 1 .. Len(corpus) : corpus[i] = novel[Len(novel) - Len(corpus) + i]

\* The inductive invariant: how far the counts are from one another depends
\* on where the iteration is.
Quiet == {"create", "discover", "load", "configure", "loop", "finishWell"}

IterationCounts ==
  /\ pc \in Quiet =>
       AllMatched /\ Len(found) = attempt /\ submitted = attempt /\ completed = attempt
  /\ pc = "evaluate" =>
       AllMatched /\ Len(found) = attempt /\ submitted = attempt + 1 /\ completed = attempt
  /\ pc \in {"shrink", "save"} => submitted = attempt + 1 /\ completed = attempt
  /\ pc \in {"evaluate", "shrink", "save"} => attempt < requested
  /\ pc \in {"finishBadly", "drop", "done"} => submitted = completed
  /\ pc = "finishWell" => attempt = requested

SetIsKept ==
  caseSet # Nothing =>
    /\ pc \notin {"create", "discover", "load", "drop", "done"} => caseSet = requested
    /\ result = "pass" => caseSet = requested
    /\ \A i \in 1 .. Len(origins) : origins[i] = "explicit"

IInv ==
  /\ TypeOK
  /\ CountsBalance
  /\ IterationCounts
  /\ pc \notin {"drop", "done"} => result = "running"
  /\ PassIsEarned
  /\ Len(origins) = submitted
  /\ result = "pass" => submitted = requested
  /\ SetIsKept

\* Until a campaign has failed it has counted no mismatch.
ReproInv ==
  /\ CountedMismatchHasRepro
  /\ pc \notin {"finishBadly", "drop", "done"} => outcomes["mismatch"] = 0

\* "It stops at the first mismatch and saves a repro bundle" (docs/fuzzing.md,
\* section 1), unless the bundle itself cannot be written.
MismatchKept ==
  pc = "done" /\ ~ lostWrite =>
    \A i \in 1 .. Len(found) : found[i] = "mismatch" => <<"mismatch", i - 1>> \in bundles
=============================================================================
