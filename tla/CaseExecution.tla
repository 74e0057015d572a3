----------------------------- MODULE CaseExecution -----------------------------
(***************************************************************************)
(* execute_case_in_work_dir of fuzz/shrink.rs: one case is staged twice,   *)
(* the reference runs in the live tree, and the DUT runs after it at the   *)
(* same path, on the very objects the reference had if nothing touched     *)
(* them, else on the spare copy moved there.                               *)
(*                                                                         *)
(* A fixture tree is one record: its contents (names, bytes, owners), its  *)
(* mode, its access, modification and change times, and the identity of    *)
(* its objects.  A program, an observation and the preparation of a helper *)
(* disturb these as the operating system lets them: reading moves the      *)
(* access time alone, and every other change also stamps the change time,  *)
(* which nobody can set back.                                              *)
(***************************************************************************)
EXTENDS Integers

CONSTANTS
  MaxClock,   \* bound on the clock, whose ticks are those of file times
  Nothing     \* no tree, no snapshot, no saved time

ASSUME ClockAssumption == MaxClock \in Nat
Variants == {"reference", "dut"}
Time == 0 .. MaxClock

Trees ==
  [data : 0 .. 1, mode : {"staged", "fixture", "other"},
   atime : Time, mtime : Time, ctime : Time, object : 0 .. 3]

ASSUME NothingAssumption == Nothing \notin Trees /\ Nothing \notin Time

VARIABLES
  pc,        \* the next step of the function
  tree,      \* the live tree, at the path both programs see
  spare,     \* the second staged tree, not opened yet by any program
  helper,    \* the helper that waits for GO: the variant and its directory
  before,    \* the snapshot each variant starts with
  after,     \* the snapshot each variant leaves
  sharing,   \* fixture_sharing
  start,     \* the live tree when each variant got its GO
  replay,    \* the saved file times of a replay, or Nothing
  spoiled,   \* did the reference reach out and change the spare tree?
  clock

vars == <<pc, tree, spare, helper, before, after, sharing, start, replay, spoiled, clock>>

Steps ==
  {"stage", "prepareReference", "restoreReplayTimes", "referenceModes", "observeBefore",
   "runReference", "observeAfter", "checkSharing", "prepareShared", "recheckSharing",
   "clone", "prepareCloned", "restoreTimes", "clonedModes", "observeClone", "compareClone",
   "runDut", "observeDut"}

Stops == {"done", "failed", "differs"}

TypeOK ==
  /\ pc \in Steps \cup Stops
  /\ tree \in Trees \cup {Nothing}
  /\ spare \in Trees \cup {Nothing}
  /\ helper \in [variant : Variants, cwd : 0 .. 3] \cup {Nothing}
  /\ before \in [Variants -> Trees \cup {Nothing}]
  /\ after \in [Variants -> Trees \cup {Nothing}]
  /\ sharing \in BOOLEAN
  /\ start \in [Variants -> Trees \cup {Nothing}]
  /\ replay \in Time \cup {Nothing}
  /\ spoiled \in BOOLEAN
  /\ clock \in Time

Init ==
  /\ pc = "stage"
  /\ tree = Nothing
  /\ spare = Nothing
  /\ helper = Nothing
  /\ before = [v \in Variants |-> Nothing]
  /\ after = [v \in Variants |-> Nothing]
  /\ sharing = FALSE
  /\ start = [v \in Variants |-> Nothing]
  /\ replay \in Time \cup {Nothing}
  /\ spoiled = FALSE
  /\ clock = 0

-----------------------------------------------------------------------------
(* Trees.                                                                  *)

\* What a comparison looks at: everything but change times and identities.
Compared(t) == [data |-> t.data, mode |-> t.mode, atime |-> t.atime, mtime |-> t.mtime]

\* What stat tells: everything but the bytes.
Metadata(t) ==
  [mode |-> t.mode, atime |-> t.atime, mtime |-> t.mtime, ctime |-> t.ctime, object |-> t.object]

\* Reading may move the access time; it never moves the change time.
Read(t) == {t, [t EXCEPT !.atime = clock]}

\* restore_path_times: a restoration that would change nothing is skipped,
\* because it would still stamp the change time.
RestoreTimes(t, a, m) ==
  IF t.atime = a /\ t.mtime = m THEN t ELSE [t EXCEPT !.atime = a, !.mtime = m, !.ctime = clock]

\* apply_fixture_modes: a chmod always stamps the change time.
FixtureMode(t) == [t EXCEPT !.mode = "fixture", !.ctime = clock]

\* What a program can make of a tree: leave it, read it, or rewrite it, with
\* the objects it had or with others in their place, and set the times back.
Effects(t) ==
  Read(t) \cup
  [data : 0 .. 1, mode : {"fixture", "other"}, atime : {t.atime, clock}, mtime : {t.mtime, clock},
   ctime : {clock}, object : {t.object, t.object + 1}]

-----------------------------------------------------------------------------
(* The reference.                                                          *)

\* Both trees are copied from one base and get the same times and owner.
Stage ==
  /\ pc = "stage"
  /\ tree' = [data |-> 0, mode |-> "staged", atime |-> clock, mtime |-> clock,
              ctime |-> clock, object |-> 0]
  /\ spare' = [tree' EXCEPT !.object = 2]
  /\ pc' = "prepareReference"
  /\ UNCHANGED <<helper, before, after, sharing, start, replay, spoiled, clock>>

\* A helper enters the fixture and waits there for GO.
Prepare(variant) ==
  /\ tree' \in Read(tree)
  /\ helper' = [variant |-> variant, cwd |-> tree.object]

PrepareReference ==
  /\ pc = "prepareReference"
  /\ Prepare("reference")
  /\ pc' = "restoreReplayTimes"
  /\ UNCHANGED <<spare, before, after, sharing, start, replay, spoiled, clock>>

\* A replay starts the reference from the file times it saved.
RestoreReplayTimes ==
  /\ pc = "restoreReplayTimes"
  /\ tree' = IF replay = Nothing THEN tree ELSE RestoreTimes(tree, replay, replay)
  /\ pc' = "referenceModes"
  /\ UNCHANGED <<spare, helper, before, after, sharing, start, replay, spoiled, clock>>

ReferenceModes ==
  /\ pc = "referenceModes"
  /\ tree' = FixtureMode(tree)
  /\ pc' = "observeBefore"
  /\ UNCHANGED <<spare, helper, before, after, sharing, start, replay, spoiled, clock>>

\* The snapshot reads the tree, undoes what reading did to its times, and
\* records the times as they are then.
ObservePre(variant) ==
  /\ \E seen \in Read(tree) : tree' = RestoreTimes(seen, tree.atime, tree.mtime)
  /\ before' = [before EXCEPT ![variant] = tree']

ObserveBefore ==
  /\ pc = "observeBefore"
  /\ ObservePre("reference")
  /\ pc' = "runReference"
  /\ UNCHANGED <<spare, helper, after, sharing, start, replay, spoiled, clock>>

\* GO, the run and its collection.  The spare tree belongs to the same user, so
\* nothing keeps the program from changing that one too.
RunReference ==
  /\ pc = "runReference"
  /\ start' = [start EXCEPT !["reference"] = tree]
  /\ tree' \in Effects(tree)
  /\ \/ UNCHANGED <<spare, spoiled>>
     \/ \E t \in {[spare EXCEPT !.data = 1], [spare EXCEPT !.mtime = clock]} :
          /\ spare' = t
          /\ spoiled' = TRUE
  /\ helper' = Nothing
  /\ pc' = "observeAfter"
  /\ UNCHANGED <<before, after, sharing, replay, clock>>

\* The last look at a run restores nothing, for that would stamp change times.
ObservePost(variant) ==
  /\ after' = [after EXCEPT ![variant] = tree]
  /\ tree' \in Read(tree)

ObserveAfter ==
  /\ pc = "observeAfter"
  /\ ObservePost("reference")
  /\ pc' = "checkSharing"
  /\ UNCHANGED <<spare, helper, before, sharing, start, replay, spoiled, clock>>

-----------------------------------------------------------------------------
(* One tree for both, or a fresh one for the DUT.                          *)

\* The same, had the two snapshots been compared as results are.
CheckSharingAsResults ==
  /\ pc = "checkSharing"
  /\ sharing' = (Compared(before["reference"]) = Compared(after["reference"])
                 /\ Metadata(tree) = Metadata(after["reference"]))
  /\ pc' = IF sharing' THEN "prepareShared" ELSE "clone"
  /\ UNCHANGED <<tree, spare, helper, before, after, start, replay, spoiled, clock>>

CheckSharing ==
  /\ pc = "checkSharing"
  /\ sharing' = (before["reference"] = after["reference"]
                 /\ Metadata(tree) = Metadata(after["reference"]))
  /\ pc' = IF sharing' THEN "prepareShared" ELSE "clone"
  /\ UNCHANGED <<tree, spare, helper, before, after, start, replay, spoiled, clock>>

PrepareShared ==
  /\ pc = "prepareShared"
  /\ Prepare("dut")
  /\ pc' = "recheckSharing"
  /\ UNCHANGED <<spare, before, after, sharing, start, replay, spoiled, clock>>

\* The same, had the preparation been trusted to leave the tree alone.
RecheckSharingTrusting ==
  /\ pc = "recheckSharing"
  /\ before' = [before EXCEPT !["dut"] = after["reference"]]
  /\ pc' = "runDut"
  /\ UNCHANGED <<tree, spare, helper, after, sharing, start, replay, spoiled, clock>>

\* The same, had the helper been kept for the clone.
RecheckSharingKeepsHelper ==
  /\ pc = "recheckSharing"
  /\ sharing' = (Metadata(tree) = Metadata(after["reference"]))
  /\ \/ sharing' /\ before' = [before EXCEPT !["dut"] = after["reference"]] /\ pc' = "runDut"
     \/ ~sharing' /\ pc' = "clone" /\ UNCHANGED before
  /\ UNCHANGED <<tree, spare, helper, after, start, replay, spoiled, clock>>

\* The helper that entered a tree it may not keep is dropped.
RecheckSharing ==
  /\ pc = "recheckSharing"
  /\ sharing' = (Metadata(tree) = Metadata(after["reference"]))
  /\ IF sharing'
       THEN /\ before' = [before EXCEPT !["dut"] = after["reference"]]
            /\ pc' = "runDut"
            /\ UNCHANGED helper
       ELSE /\ pc' = "clone"
            /\ helper' = Nothing
            /\ UNCHANGED before
  /\ UNCHANGED <<tree, spare, after, start, replay, spoiled, clock>>

\* cp -a keeps contents, mode and times, and makes new objects.
Clone ==
  /\ pc = "clone"
  /\ tree' = [spare EXCEPT !.ctime = clock]
  /\ pc' = "prepareCloned"
  /\ UNCHANGED <<spare, helper, before, after, sharing, start, replay, spoiled, clock>>

PrepareCloned ==
  /\ pc = "prepareCloned"
  /\ Prepare("dut")
  /\ pc' = "restoreTimes"
  /\ UNCHANGED <<spare, before, after, sharing, start, replay, spoiled, clock>>

\* The same, had the clone been left with the times of the staging.
RestoreObservedTimesSkipped ==
  /\ pc = "restoreTimes"
  /\ pc' = "clonedModes"
  /\ UNCHANGED <<tree, spare, helper, before, after, sharing, start, replay, spoiled, clock>>

RestoreObservedTimes ==
  /\ pc = "restoreTimes"
  /\ tree' = RestoreTimes(tree, before["reference"].atime, before["reference"].mtime)
  /\ pc' = "clonedModes"
  /\ UNCHANGED <<spare, helper, before, after, sharing, start, replay, spoiled, clock>>

ClonedModes ==
  /\ pc = "clonedModes"
  /\ tree' = FixtureMode(tree)
  /\ pc' = "observeClone"
  /\ UNCHANGED <<spare, helper, before, after, sharing, start, replay, spoiled, clock>>

ObserveClone ==
  /\ pc = "observeClone"
  /\ ObservePre("dut")
  /\ pc' = "compareClone"
  /\ UNCHANGED <<spare, helper, after, sharing, start, replay, spoiled, clock>>

\* The same, had the clone been taken to be what was staged.
CompareCloneTrusting ==
  /\ pc = "compareClone"
  /\ pc' = "runDut"
  /\ UNCHANGED <<tree, spare, helper, before, after, sharing, start, replay, spoiled, clock>>

\* A clone that is not what the reference started from fails the case.
CompareClone ==
  /\ pc = "compareClone"
  /\ IF Compared(before["reference"]) = Compared(before["dut"])
       THEN pc' = "runDut" /\ UNCHANGED helper
       ELSE pc' = "differs" /\ helper' = Nothing
  /\ UNCHANGED <<tree, spare, before, after, sharing, start, replay, spoiled, clock>>

-----------------------------------------------------------------------------
(* The DUT.                                                                *)

RunDut ==
  /\ pc = "runDut"
  /\ start' = [start EXCEPT !["dut"] = tree]
  /\ tree' \in Effects(tree)
  /\ helper' = Nothing
  /\ pc' = "observeDut"
  /\ UNCHANGED <<spare, before, after, sharing, replay, spoiled, clock>>

ObserveDut ==
  /\ pc = "observeDut"
  /\ ObservePost("dut")
  /\ pc' = "done"
  /\ UNCHANGED <<spare, helper, before, sharing, start, replay, spoiled, clock>>

\* Each step may fail; leaving the function drops the helper that waits.
StepFails ==
  /\ pc \in Steps
  /\ pc' = "failed"
  /\ helper' = Nothing
  /\ UNCHANGED <<tree, spare, before, after, sharing, start, replay, spoiled, clock>>

Tick ==
  /\ pc \in Steps
  /\ clock < MaxClock
  /\ clock' = clock + 1
  /\ UNCHANGED <<pc, tree, spare, helper, before, after, sharing, start, replay, spoiled>>

Stopped == pc \in Stops /\ UNCHANGED vars

ReferenceStep ==
  \/ Stage \/ PrepareReference \/ RestoreReplayTimes \/ ReferenceModes
  \/ ObserveBefore \/ RunReference \/ ObserveAfter

DutStep ==
  \/ CheckSharing \/ PrepareShared \/ RecheckSharing
  \/ Clone \/ PrepareCloned \/ RestoreObservedTimes \/ ClonedModes
  \/ ObserveClone \/ CompareClone
  \/ RunDut \/ ObserveDut

Next == ReferenceStep \/ DutStep \/ StepFails \/ Tick \/ Stopped

Spec == Init /\ [][Next]_vars

-----------------------------------------------------------------------------
(* Properties.                                                             *)

Started(variant) == start[variant] # Nothing

\* The DUT starts from the state the reference started from, in everything a
\* comparison looks at, whatever the reference, the observations and the
\* preparation of helpers did in between, and to which tree.
EqualStart ==
  Started("dut") => Compared(start["dut"]) = Compared(start["reference"])

\* A DUT that is given the reference's own objects starts from exactly what the
\* reference had, change times and identities included: a reference that wrote
\* and put everything back is found out.
SharedStart ==
  Started("dut") /\ sharing => start["dut"] = start["reference"]

\* The initial snapshot in the evidence of each run is the state its program
\* was released on: neither the snapshot itself nor a helper changes it later.
RecordedStart ==
  \A v \in Variants : Started(v) => start[v] = before[v]

\* A replay releases both programs on the file times it saved.
ReplayStart ==
  \A v \in Variants : Started(v) /\ replay # Nothing =>
    start[v].atime = replay /\ start[v].mtime = replay

\* A helper that waits for GO stands in the tree that is live now, not in one
\* that was replaced after it entered.
WaitsInTree ==
  helper # Nothing => tree # Nothing /\ helper.cwd = tree.object

\* The fuzzer blames the fixtures only if the reference changed the spare tree:
\* what the fuzzer itself disturbs, it restores.
NoSpuriousDifference == pc = "differs" => spoiled

-----------------------------------------------------------------------------
(* The inductive invariant.                                                *)

Staging == {"stage", "prepareReference", "restoreReplayTimes", "referenceModes", "observeBefore"}
Cloning == {"clone", "prepareCloned", "restoreTimes", "clonedModes", "observeClone", "compareClone"}

\* Where the trees, the snapshots and the starts exist.
IExists ==
  /\ pc \in Steps \ {"stage"} => tree \in Trees /\ spare \in Trees
  /\ pc \in Staging => before["reference"] = Nothing /\ start["reference"] = Nothing
  /\ pc = "runReference" => before["reference"] \in Trees /\ start["reference"] = Nothing
  /\ pc \in Steps \ (Staging \cup {"runReference"}) =>
       before["reference"] \in Trees /\ start["reference"] = before["reference"]
  /\ pc \in Steps \ {"observeDut"} => start["dut"] = Nothing
  /\ pc \in Steps \ {"compareClone", "runDut", "observeDut"} => before["dut"] = Nothing
  /\ Started("dut") => Started("reference")

\* What the reference starts from.
IReference ==
  /\ pc = "runReference" => tree = before["reference"]
  /\ before["reference"] # Nothing => before["reference"].data = 0 /\ before["reference"].mode = "fixture"
  /\ pc \in Staging \ {"stage"} => tree.data = 0
  /\ pc = "observeBefore" => tree.mode = "fixture"
  /\ pc \in {"referenceModes", "observeBefore"} /\ replay # Nothing =>
       tree.atime = replay /\ tree.mtime = replay
  /\ before["reference"] # Nothing /\ replay # Nothing =>
       before["reference"].atime = replay /\ before["reference"].mtime = replay

\* The objects: the live tree's, the clone's, and where helpers stand.
IObjects ==
  /\ pc \in Staging \ {"stage"} => tree.object = 0
  /\ pc = "runReference" => tree.object = 0
  /\ pc \in {"observeAfter", "checkSharing", "prepareShared", "recheckSharing", "clone"} =>
       tree.object \in {0, 1}
  /\ pc \in Steps \ {"stage"} => spare.object = 2
  /\ pc = "runDut" => tree.object # 3
  /\ pc \in Cloning \ {"clone"} => tree.object = 2
  /\ pc \in {"stage", "prepareReference", "observeAfter", "checkSharing", "prepareShared",
            "clone", "prepareCloned", "observeDut"} \cup Stops => helper = Nothing

\* What a shared tree still is.
ISharing ==
  /\ pc \in {"checkSharing", "prepareShared", "recheckSharing"} =>
       after["reference"] \in Trees /\ tree.data = after["reference"].data
  /\ pc \in {"prepareShared", "recheckSharing"} => before["reference"] = after["reference"]
  /\ pc = "runDut" /\ sharing => tree = before["reference"] /\ tree = before["dut"]
  /\ pc \in Cloning => ~sharing

\* What a clone is on its way to the DUT.
ICloning ==
  /\ pc \in Steps \ {"stage"} /\ ~spoiled => spare.data = 0
  /\ pc \in Cloning \ {"clone"} /\ ~spoiled => tree.data = 0
  /\ pc \in {"clonedModes", "observeClone", "compareClone"} =>
       tree.atime = before["reference"].atime /\ tree.mtime = before["reference"].mtime
  /\ pc \in {"observeClone", "compareClone"} => tree.mode = "fixture"
  /\ pc = "compareClone" => tree = before["dut"]
  /\ pc = "runDut" =>
       tree = before["dut"] /\ Compared(tree) = Compared(before["reference"])

\* What the starts were.
IStarts ==
  /\ EqualStart /\ SharedStart /\ RecordedStart /\ ReplayStart
  /\ WaitsInTree /\ NoSpuriousDifference

IInv == TypeOK /\ IExists /\ IReference /\ IObjects /\ ISharing /\ ICloning /\ IStarts

-----------------------------------------------------------------------------
(* Refinement of FairComparison.                                           *)

Fixtures == [data : 0 .. 1, mode : {"staged", "fixture", "other"}, atime : Time, mtime : Time]

phaseBar ==
  IF pc \in Staging \cup {"runReference"} THEN "fresh"
  ELSE IF pc = "observeAfter" THEN "referenceRuns"
  ELSE IF pc = "observeDut" THEN "dutRuns"
  ELSE IF pc = "done" THEN "compared"
  ELSE IF pc \in {"failed", "differs"} THEN "failed"
  ELSE "between"

begunBar == [v \in Variants |-> IF Started(v) THEN Compared(start[v]) ELSE Nothing]

FC == INSTANCE FairComparison WITH phase <- phaseBar, begun <- begunBar

\* A case is a fair comparison or fails.
ImplementsFairComparison == FC!Spec

=============================================================================
