-------------------------- MODULE CaseExecutionProofs --------------------------
(***************************************************************************)
(* Proofs about CaseExecution, for every bound on the clock: the inductive *)
(* invariant IInv, the properties it contains, and the refinement of       *)
(* FairComparison.                                                         *)
(***************************************************************************)
EXTENDS CaseExecution, TLAPS

-----------------------------------------------------------------------------
(* What disturbs a tree keeps it a tree.                                   *)

LEMMA ReadIsTree ==
  ASSUME NEW t \in Trees, NEW s \in Read(t), clock \in Time
  PROVE  /\ s \in Trees
         /\ s.data = t.data /\ s.mode = t.mode /\ s.mtime = t.mtime
         /\ s.ctime = t.ctime /\ s.object = t.object
  BY DEF Read, Trees

LEMMA RestoredIsTree ==
  ASSUME NEW t \in Trees, NEW a \in Time, NEW m \in Time, clock \in Time
  PROVE  /\ RestoreTimes(t, a, m) \in Trees
         /\ RestoreTimes(t, a, m).atime = a /\ RestoreTimes(t, a, m).mtime = m
         /\ RestoreTimes(t, a, m).data = t.data /\ RestoreTimes(t, a, m).mode = t.mode
         /\ RestoreTimes(t, a, m).object = t.object
  BY DEF RestoreTimes, Trees

\* A snapshot leaves the times it found.
LEMMA ObservedIsTree ==
  ASSUME NEW t \in Trees, NEW s \in Read(t), clock \in Time
  PROVE  /\ RestoreTimes(s, t.atime, t.mtime) \in Trees
         /\ RestoreTimes(s, t.atime, t.mtime).atime = t.atime
         /\ RestoreTimes(s, t.atime, t.mtime).mtime = t.mtime
         /\ RestoreTimes(s, t.atime, t.mtime).data = t.data
         /\ RestoreTimes(s, t.atime, t.mtime).mode = t.mode
         /\ RestoreTimes(s, t.atime, t.mtime).object = t.object
  BY DEF RestoreTimes, Read, Trees

LEMMA FixtureModeIsTree ==
  ASSUME NEW t \in Trees, clock \in Time
  PROVE  /\ FixtureMode(t) \in Trees
         /\ FixtureMode(t).mode = "fixture"
         /\ FixtureMode(t).data = t.data /\ FixtureMode(t).object = t.object
         /\ FixtureMode(t).atime = t.atime /\ FixtureMode(t).mtime = t.mtime
  BY DEF FixtureMode, Trees

LEMMA EffectIsTree ==
  ASSUME NEW t \in Trees, t.object # 3, NEW s \in Effects(t), clock \in Time
  PROVE  /\ s \in Trees
         /\ s.object \in {t.object, t.object + 1}
  <1>1. CASE s \in Read(t)
    BY <1>1, ReadIsTree DEF Trees
  <1>2. CASE s \notin Read(t)
    BY <1>2 DEF Effects, Trees
  <1>3. QED
    BY <1>1, <1>2

\* Two trees with the same bytes and the same metadata are the same tree.
LEMMA SameTree ==
  ASSUME NEW t \in Trees, NEW s \in Trees, t.data = s.data, Metadata(t) = Metadata(s)
  PROVE  t = s
  BY DEF Trees, Metadata

-----------------------------------------------------------------------------
(* The inductive invariant.                                                *)

\* Nothing is staged, observed or released yet.
LEMMA InitIInv == Init => IInv
  <1> SUFFICES ASSUME Init PROVE IInv
    OBVIOUS
  <1> USE ClockAssumption DEF Init, Steps, Stops, Staging, Cloning, Variants, Time
  <1>1. TypeOK
    <2>1. sharing \in BOOLEAN /\ spoiled \in BOOLEAN
      OBVIOUS
    <2>2. clock \in Time /\ pc \in Steps /\ replay \in Time \cup {Nothing}
      OBVIOUS
    <2>4. before \in [Variants -> Trees \cup {Nothing}]
      OBVIOUS
    <2>5. after \in [Variants -> Trees \cup {Nothing}]
      OBVIOUS
    <2>6. start \in [Variants -> Trees \cup {Nothing}]
      OBVIOUS
    <2>3. QED
      BY <2>1, <2>2, <2>4, <2>5, <2>6 DEF TypeOK
  <1>2. IExists
    BY DEF IExists, Started
  <1>3. IReference /\ IObjects
    BY DEF IReference, IObjects
  <1>6. ISharing /\ ICloning
    BY DEF ISharing, ICloning
  <1>4. IStarts
    BY DEF IStarts, EqualStart, SharedStart, RecordedStart, ReplayStart, WaitsInTree,
           NoSpuriousDifference, Started
  <1>5. QED
    BY <1>1, <1>2, <1>3, <1>4, <1>6 DEF IInv

\* Staging, the preparation of the reference, its run and its observation.
LEMMA ReferenceIInv ==
  ASSUME IInv, ReferenceStep
  PROVE  IInv'
  <1> USE ClockAssumption, NothingAssumption
      DEF IInv, TypeOK, IExists, IReference, IObjects, ISharing, ICloning, IStarts,
          EqualStart, SharedStart, RecordedStart, ReplayStart, WaitsInTree,
          NoSpuriousDifference, Started, Steps, Stops, Staging, Cloning, Variants
  <1>1. CASE Stage
    BY <1>1 DEF Stage, Trees, Time
  <1>2. CASE PrepareReference
    <2>1. /\ pc = "prepareReference" /\ pc' = "restoreReplayTimes"
          /\ UNCHANGED <<spare, before, after, sharing, start, replay, spoiled, clock>>
      BY <1>2 DEF PrepareReference
    <2>2. tree \in Trees /\ clock \in Time
      BY <2>1
    <2>3. /\ tree' \in Trees
          /\ tree'.data = tree.data /\ tree'.mode = tree.mode /\ tree'.mtime = tree.mtime
          /\ tree'.ctime = tree.ctime /\ tree'.object = tree.object
      BY <1>2, <2>1, <2>2, ReadIsTree DEF PrepareReference, Prepare
    <2>7. helper' = [variant |-> "reference", cwd |-> tree.object]
      BY <1>2 DEF PrepareReference, Prepare
    <2>4. TypeOK' /\ IExists'
      BY <2>1, <2>2, <2>3, <2>7
    <2>5. IReference' /\ IObjects' /\ ISharing' /\ ICloning'
      BY <2>1, <2>2, <2>3, <2>7
    <2>6. IStarts'
      BY <2>1, <2>2, <2>3, <2>7
    <2>8. QED
      BY <2>4, <2>5, <2>6
  <1>3. CASE RestoreReplayTimes
    <2>1. /\ pc = "restoreReplayTimes" /\ pc' = "referenceModes"
          /\ UNCHANGED <<spare, helper, before, after, sharing, start, replay, spoiled, clock>>
      BY <1>3 DEF RestoreReplayTimes
    <2>2. tree \in Trees /\ clock \in Time
      BY <2>1
    <2>3. /\ tree' \in Trees
          /\ tree'.data = tree.data /\ tree'.mode = tree.mode /\ tree'.object = tree.object
          /\ replay # Nothing => tree'.atime = replay /\ tree'.mtime = replay
      <3>1. CASE replay = Nothing
        BY <1>3, <2>2, <3>1 DEF RestoreReplayTimes
      <3>2. CASE replay # Nothing
        <4>1. replay \in Time
          BY <3>2
        <4>2. tree' = RestoreTimes(tree, replay, replay)
          BY <1>3, <3>2 DEF RestoreReplayTimes
        <4> HIDE DEF IInv
        <4>3. /\ RestoreTimes(tree, replay, replay) \in Trees
              /\ RestoreTimes(tree, replay, replay).atime = replay
              /\ RestoreTimes(tree, replay, replay).mtime = replay
              /\ RestoreTimes(tree, replay, replay).data = tree.data
              /\ RestoreTimes(tree, replay, replay).mode = tree.mode
              /\ RestoreTimes(tree, replay, replay).object = tree.object
          BY <2>2, <4>1, RestoredIsTree
        <4>4. QED
          BY <4>2, <4>3
      <3>3. QED
        BY <3>1, <3>2
    <2>4. TypeOK' /\ IExists'
      BY <2>1, <2>2, <2>3
    <2>5. IReference' /\ IObjects' /\ ISharing' /\ ICloning'
      BY <2>1, <2>2, <2>3
    <2>6. IStarts'
      BY <2>1, <2>2, <2>3
    <2>8. QED
      BY <2>4, <2>5, <2>6
  <1>4. CASE ReferenceModes
    <2>1. /\ pc = "referenceModes" /\ pc' = "observeBefore"
          /\ UNCHANGED <<spare, helper, before, after, sharing, start, replay, spoiled, clock>>
      BY <1>4 DEF ReferenceModes
    <2>2. tree \in Trees /\ clock \in Time
      BY <2>1
    <2>3. /\ tree' \in Trees /\ tree'.mode = "fixture"
          /\ tree'.data = tree.data /\ tree'.object = tree.object
          /\ tree'.atime = tree.atime /\ tree'.mtime = tree.mtime
      BY <1>4, <2>1, <2>2, FixtureModeIsTree DEF ReferenceModes
    <2>4. TypeOK' /\ IExists'
      BY <2>1, <2>2, <2>3
    <2>5. IReference' /\ IObjects' /\ ISharing' /\ ICloning'
      BY <2>1, <2>2, <2>3
    <2>6. IStarts'
      BY <2>1, <2>2, <2>3
    <2>8. QED
      BY <2>4, <2>5, <2>6
  <1>5. CASE ObserveBefore
    <2>2. tree \in Trees /\ clock \in Time
      BY <1>5 DEF ObserveBefore
    <2>4. /\ tree' \in Trees
          /\ tree'.atime = tree.atime /\ tree'.mtime = tree.mtime
          /\ tree'.data = tree.data /\ tree'.mode = tree.mode /\ tree'.object = tree.object
      BY <1>5, <2>2, ObservedIsTree DEF ObserveBefore, ObservePre
    <2>5. TypeOK' /\ IExists'
      BY <1>5, <2>4 DEF ObserveBefore, ObservePre
    <2>6. IReference'
      BY <1>5, <2>2, <2>4 DEF ObserveBefore, ObservePre
    <2>8. IObjects' /\ ISharing' /\ ICloning'
      BY <1>5, <2>4 DEF ObserveBefore, ObservePre
    <2>9. IStarts'
      BY <1>5, <2>4 DEF ObserveBefore, ObservePre
    <2>7. QED
      BY <2>5, <2>6, <2>8, <2>9
  <1>6. CASE RunReference
    <2>1. tree' \in Trees /\ tree'.object \in {0, 1}
      BY <1>6, EffectIsTree DEF RunReference
    <2>2. spare' \in Trees /\ spare'.object = 2 /\ (~spoiled' => spare'.data = 0)
      BY <1>6 DEF RunReference, Trees
    <2>3. tree \in Trees
      BY <1>6 DEF RunReference
    <2>4. TypeOK' /\ IExists'
      BY <1>6, <2>1, <2>2, <2>3 DEF RunReference
    <2>5. IReference' /\ IObjects' /\ ISharing' /\ ICloning'
      BY <1>6, <2>1, <2>2, <2>3 DEF RunReference
    <2>6. IStarts'
      BY <1>6, <2>1, <2>2, <2>3 DEF RunReference
    <2>7. QED
      BY <2>4, <2>5, <2>6
  <1>7. CASE ObserveAfter
    <2>1. /\ pc = "observeAfter" /\ pc' = "checkSharing"
          /\ UNCHANGED <<spare, helper, before, sharing, start, replay, spoiled, clock>>
      BY <1>7 DEF ObserveAfter
    <2>2. tree \in Trees /\ clock \in Time
      BY <2>1
    <2>3. /\ tree' \in Trees
          /\ tree'.data = tree.data /\ tree'.mode = tree.mode /\ tree'.mtime = tree.mtime
          /\ tree'.ctime = tree.ctime /\ tree'.object = tree.object
      BY <1>7, <2>1, <2>2, ReadIsTree DEF ObserveAfter, ObservePost
    <2>7. after' = [after EXCEPT !["reference"] = tree]
      BY <1>7 DEF ObserveAfter, ObservePost
    <2>4. TypeOK' /\ IExists'
      BY <2>1, <2>2, <2>3, <2>7
    <2>5. IReference' /\ IObjects' /\ ISharing' /\ ICloning'
      BY <2>1, <2>2, <2>3, <2>7
    <2>6. IStarts'
      BY <2>1, <2>2, <2>3, <2>7
    <2>8. QED
      BY <2>4, <2>5, <2>6
  <1>8. QED
    BY <1>1, <1>2, <1>3, <1>4, <1>5, <1>6, <1>7 DEF ReferenceStep

\* The sharing decision, the clone, and the run of the DUT.
LEMMA DutIInv ==
  ASSUME IInv, DutStep
  PROVE  IInv'
  <1> USE ClockAssumption, NothingAssumption
      DEF IInv, TypeOK, IExists, IReference, IObjects, ISharing, ICloning, IStarts,
          EqualStart, SharedStart, RecordedStart, ReplayStart, WaitsInTree,
          NoSpuriousDifference, Started, Steps, Stops, Staging, Cloning, Variants
  <1>1. CASE CheckSharing
    BY <1>1 DEF CheckSharing
  <1>2. CASE PrepareShared
    <2>1. /\ pc = "prepareShared" /\ pc' = "recheckSharing"
          /\ UNCHANGED <<spare, before, after, sharing, start, replay, spoiled, clock>>
      BY <1>2 DEF PrepareShared
    <2>2. tree \in Trees /\ clock \in Time
      BY <2>1
    <2>3. /\ tree' \in Trees
          /\ tree'.data = tree.data /\ tree'.mode = tree.mode /\ tree'.mtime = tree.mtime
          /\ tree'.ctime = tree.ctime /\ tree'.object = tree.object
      BY <1>2, <2>1, <2>2, ReadIsTree DEF PrepareShared, Prepare
    <2>7. helper' = [variant |-> "dut", cwd |-> tree.object]
      BY <1>2 DEF PrepareShared, Prepare
    <2>4. TypeOK' /\ IExists'
      BY <2>1, <2>2, <2>3, <2>7
    <2>5. IReference' /\ IObjects' /\ ISharing' /\ ICloning'
      BY <2>1, <2>2, <2>3, <2>7
    <2>6. IStarts'
      BY <2>1, <2>2, <2>3, <2>7
    <2>8. QED
      BY <2>4, <2>5, <2>6
  <1>3. CASE RecheckSharing
    <2>1. sharing' => tree = after["reference"]
      BY <1>3, SameTree DEF RecheckSharing
    <2>2. tree \in Trees /\ after["reference"] \in Trees /\ before["reference"] = after["reference"]
      BY <1>3 DEF RecheckSharing
    <2>3. CASE sharing'
      BY <1>3, <2>1, <2>2, <2>3 DEF RecheckSharing
    <2>4. CASE ~sharing'
      BY <1>3, <2>2, <2>4 DEF RecheckSharing
    <2>5. QED
      BY <2>3, <2>4
  <1>4. CASE Clone
    BY <1>4 DEF Clone, Trees
  <1>5. CASE PrepareCloned
    <2>1. /\ pc = "prepareCloned" /\ pc' = "restoreTimes"
          /\ UNCHANGED <<spare, before, after, sharing, start, replay, spoiled, clock>>
      BY <1>5 DEF PrepareCloned
    <2>2. tree \in Trees /\ clock \in Time
      BY <2>1
    <2>3. /\ tree' \in Trees
          /\ tree'.data = tree.data /\ tree'.mode = tree.mode /\ tree'.mtime = tree.mtime
          /\ tree'.ctime = tree.ctime /\ tree'.object = tree.object
      BY <1>5, <2>1, <2>2, ReadIsTree DEF PrepareCloned, Prepare
    <2>7. helper' = [variant |-> "dut", cwd |-> tree.object]
      BY <1>5 DEF PrepareCloned, Prepare
    <2>4. TypeOK' /\ IExists'
      BY <2>1, <2>2, <2>3, <2>7
    <2>5. IReference' /\ IObjects' /\ ISharing' /\ ICloning'
      BY <2>1, <2>2, <2>3, <2>7
    <2>6. IStarts'
      BY <2>1, <2>2, <2>3, <2>7
    <2>8. QED
      BY <2>4, <2>5, <2>6
  <1>6. CASE RestoreObservedTimes
    <2>1. /\ pc = "restoreTimes" /\ pc' = "clonedModes"
          /\ UNCHANGED <<spare, helper, before, after, sharing, start, replay, spoiled, clock>>
      BY <1>6 DEF RestoreObservedTimes
    <2>2. tree \in Trees /\ clock \in Time
      BY <2>1
    <2>3. /\ tree' \in Trees
          /\ tree'.data = tree.data /\ tree'.mode = tree.mode /\ tree'.object = tree.object
          /\ tree'.atime = before["reference"].atime
          /\ tree'.mtime = before["reference"].mtime
      BY <1>6, <2>1, <2>2, RestoredIsTree DEF RestoreObservedTimes, Trees
    <2>4. TypeOK' /\ IExists'
      BY <2>1, <2>2, <2>3
    <2>5. IReference' /\ IObjects' /\ ISharing' /\ ICloning'
      BY <2>1, <2>2, <2>3
    <2>6. IStarts'
      BY <2>1, <2>2, <2>3
    <2>8. QED
      BY <2>4, <2>5, <2>6
  <1>7. CASE ClonedModes
    <2>1. /\ pc = "clonedModes" /\ pc' = "observeClone"
          /\ UNCHANGED <<spare, helper, before, after, sharing, start, replay, spoiled, clock>>
      BY <1>7 DEF ClonedModes
    <2>2. tree \in Trees /\ clock \in Time
      BY <2>1
    <2>3. /\ tree' \in Trees /\ tree'.mode = "fixture"
          /\ tree'.data = tree.data /\ tree'.object = tree.object
          /\ tree'.atime = tree.atime /\ tree'.mtime = tree.mtime
      BY <1>7, <2>1, <2>2, FixtureModeIsTree DEF ClonedModes
    <2>4. TypeOK' /\ IExists'
      BY <2>1, <2>2, <2>3
    <2>5. IReference' /\ IObjects' /\ ISharing' /\ ICloning'
      BY <2>1, <2>2, <2>3
    <2>6. IStarts'
      BY <2>1, <2>2, <2>3
    <2>8. QED
      BY <2>4, <2>5, <2>6
  <1>8. CASE ObserveClone
    <2>1. tree \in Trees /\ clock \in Time
      BY <1>8 DEF ObserveClone
    <2>2. /\ tree' \in Trees
          /\ tree'.atime = tree.atime /\ tree'.mtime = tree.mtime
          /\ tree'.data = tree.data /\ tree'.mode = tree.mode /\ tree'.object = tree.object
      BY <1>8, <2>1, ObservedIsTree DEF ObserveClone, ObservePre
    <2>3. QED
      BY <1>8, <2>2 DEF ObserveClone, ObservePre
  <1>9. CASE CompareClone
    BY <1>9 DEF CompareClone, Compared
  <1>10. CASE RunDut
    <2>1. tree \in Trees /\ tree.object # 3 /\ clock \in Time /\ tree' \in Effects(tree)
      BY <1>10 DEF RunDut
    <2>2. tree' \in Trees
      BY <2>1, EffectIsTree
    <2>3. TypeOK' /\ IExists' /\ IReference' /\ IObjects' /\ ISharing' /\ ICloning'
      BY <1>10, <2>2 DEF RunDut
    <2>4. tree.atime = before["reference"].atime /\ tree.mtime = before["reference"].mtime
      BY <1>10 DEF RunDut, Compared
    <2>6. EqualStart' /\ SharedStart' /\ RecordedStart'
      BY <1>10, <2>1 DEF RunDut
    <2>7. ReplayStart'
      BY <1>10, <2>1, <2>4 DEF RunDut
    <2>8. WaitsInTree' /\ NoSpuriousDifference'
      BY <1>10 DEF RunDut
    <2>5. QED
      BY <2>3, <2>6, <2>7, <2>8
  <1>11. CASE ObserveDut
    <2>1. /\ pc = "observeDut" /\ pc' = "done"
          /\ UNCHANGED <<spare, helper, before, sharing, start, replay, spoiled, clock>>
      BY <1>11 DEF ObserveDut
    <2>2. tree \in Trees /\ clock \in Time
      BY <2>1
    <2>3. /\ tree' \in Trees
          /\ tree'.data = tree.data /\ tree'.mode = tree.mode /\ tree'.mtime = tree.mtime
          /\ tree'.ctime = tree.ctime /\ tree'.object = tree.object
      BY <1>11, <2>1, <2>2, ReadIsTree DEF ObserveDut, ObservePost
    <2>7. after' = [after EXCEPT !["dut"] = tree]
      BY <1>11 DEF ObserveDut, ObservePost
    <2>4. TypeOK' /\ IExists'
      BY <2>1, <2>2, <2>3, <2>7
    <2>5. IReference' /\ IObjects' /\ ISharing' /\ ICloning'
      BY <2>1, <2>2, <2>3, <2>7
    <2>6. IStarts'
      BY <2>1, <2>2, <2>3, <2>7
    <2>8. QED
      BY <2>4, <2>5, <2>6
  <1>12. QED
    BY <1>1, <1>2, <1>3, <1>4, <1>5, <1>6, <1>7, <1>8, <1>9, <1>10, <1>11 DEF DutStep

\* A failing step, a tick and a stutter.
LEMMA OtherIInv ==
  ASSUME IInv, StepFails \/ Tick \/ UNCHANGED vars
  PROVE  IInv'
  <1> USE ClockAssumption, NothingAssumption
      DEF IInv, TypeOK, IExists, IReference, IObjects, ISharing, ICloning, IStarts,
          EqualStart, SharedStart, RecordedStart, ReplayStart, WaitsInTree,
          NoSpuriousDifference, Started, Steps, Stops, Staging, Cloning, Variants
  <1>1. CASE StepFails
    BY <1>1 DEF StepFails
  <1>2. CASE Tick
    BY <1>2 DEF Tick, Time
  <1>3. CASE UNCHANGED vars
    BY <1>3 DEF vars
  <1>4. QED
    BY <1>1, <1>2, <1>3

\* The inductive invariant holds in every reachable state.
THEOREM InductiveInvariant == Spec => []IInv
  <1>1. IInv /\ [Next]_vars => IInv'
    BY ReferenceIInv, DutIInv, OtherIInv DEF Next, Stopped
  <1>2. QED
    BY InitIInv, <1>1, PTL DEF Spec

\* The DUT starts from the state the reference started from.
THEOREM StartsAreEqual == Spec => []EqualStart
  BY InductiveInvariant, PTL DEF IInv, IStarts

\* A shared tree is exactly the tree the reference started from.
THEOREM SharingIsExact == Spec => []SharedStart
  BY InductiveInvariant, PTL DEF IInv, IStarts

\* The recorded initial snapshots are what the programs were released on, and
\* a replay releases them on the saved file times.
THEOREM EvidenceIsTheStart == Spec => [](RecordedStart /\ ReplayStart)
  BY InductiveInvariant, PTL DEF IInv, IStarts

\* A waiting helper stands in the live tree.
THEOREM HelperWaitsInLiveTree == Spec => []WaitsInTree
  BY InductiveInvariant, PTL DEF IInv, IStarts

\* The fuzzer's own steps never make the fixtures differ.
THEOREM FuzzerRestoresWhatItDisturbs == Spec => []NoSpuriousDifference
  BY InductiveInvariant, PTL DEF IInv, IStarts

-----------------------------------------------------------------------------
(* Refinement.                                                             *)

\* Each step of the function is a step of FairComparison or changes nothing
\* that it shows.
LEMMA StepSimulation ==
  ASSUME IInv, IInv', [Next]_vars
  PROVE  [FC!Next]_<<phaseBar, begunBar>>
  <1> USE NothingAssumption
      DEF IInv, TypeOK, IExists, Started, Steps, Stops, Staging, Cloning, Variants,
          phaseBar, begunBar
  <1>1. CASE RunReference
    <2>1. Compared(tree) \in Fixtures
      BY <1>1 DEF RunReference, Compared, Fixtures, Trees
    <2>2. begunBar' = [begunBar EXCEPT !["reference"] = Compared(tree)]
      BY <1>1 DEF RunReference
    <2>3. phaseBar = "fresh" /\ phaseBar' = "referenceRuns"
      BY <1>1 DEF RunReference
    <2>4. FC!ReleaseReference
      BY <2>1, <2>2, <2>3 DEF FC!ReleaseReference
    <2>5. QED
      BY <2>4 DEF FC!Next
  <1>2. CASE ObserveAfter
    BY <1>2 DEF ObserveAfter, FC!Next, FC!ReferenceEnds
  <1>3. CASE RunDut
    <2>1. Compared(tree) = Compared(start["reference"]) /\ start["reference"] # Nothing
      BY <1>3 DEF RunDut, ICloning
    <2>2. begunBar' = [begunBar EXCEPT !["dut"] = begunBar["reference"]]
      BY <1>3, <2>1 DEF RunDut
    <2>3. phaseBar = "between" /\ phaseBar' = "dutRuns"
      BY <1>3 DEF RunDut
    <2>4. FC!ReleaseDut
      BY <2>2, <2>3 DEF FC!ReleaseDut
    <2>5. QED
      BY <2>4 DEF FC!Next
  <1>4. CASE ObserveDut
    BY <1>4 DEF ObserveDut, FC!Next, FC!DutEnds
  <1>5. CASE StepFails
    BY <1>5 DEF StepFails, FC!Next, FC!Fail
  <1>6. CASE CompareClone
    BY <1>6 DEF CompareClone, FC!Next, FC!Fail
  <1>7. CASE Stage \/ PrepareReference \/ RestoreReplayTimes \/ ReferenceModes \/ ObserveBefore
    BY <1>7 DEF Stage, PrepareReference, RestoreReplayTimes, ReferenceModes, ObserveBefore
  <1>8. CASE CheckSharing \/ PrepareShared \/ RecheckSharing
    BY <1>8 DEF CheckSharing, PrepareShared, RecheckSharing
  <1>9. CASE Clone \/ PrepareCloned \/ RestoreObservedTimes \/ ClonedModes \/ ObserveClone
    BY <1>9 DEF Clone, PrepareCloned, RestoreObservedTimes, ClonedModes, ObserveClone
  <1>10. CASE Tick \/ UNCHANGED vars
    BY <1>10 DEF Tick, vars
  <1>11. QED
    BY <1>1, <1>2, <1>3, <1>4, <1>5, <1>6, <1>7, <1>8, <1>9, <1>10
    DEF Next, ReferenceStep, DutStep, Stopped

\* A case is a fair comparison, or it fails and nothing is compared.
THEOREM Refinement == Spec => ImplementsFairComparison
  <1>1. Init => FC!Init
    BY DEF Init, FC!Init, phaseBar, begunBar, Started, Staging, Variants
  <1>2. QED
    BY <1>1, StepSimulation, InductiveInvariant, PTL DEF Spec, ImplementsFairComparison, FC!Spec

=============================================================================
