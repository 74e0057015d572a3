------------------------------ MODULE LaunchProofs ------------------------------
(***************************************************************************)
(* Proofs about the two protocols by which a program is launched.  First   *)
(* READY / GO / status, for every pair of timeouts: its inductive          *)
(* invariant, the safety properties that follow from it, and the           *)
(* refinement of TargetRun.  Then the startup capture, for any number of   *)
(* events: what the preloaded library leaves in the descriptor table, and  *)
(* what a report that says "complete" is worth.                            *)
(***************************************************************************)
EXTENDS ExecHandshake, Startup, TLAPS

\* The initial state satisfies the inductive invariant.
LEMMA InitIInv == Init => IInv
  BY TimeoutAssumption, ReadyTimeoutAssumption
  DEF Init, IInv, TypeOK, IProcesses, IGo, IStatus, IResult, RunnerStates, HelperStates,
      Results, Failures, HelperCode, NeverRan

\* The steps of prepare_controlled_target keep the invariant.
LEMMA PrepareIInv ==
  ASSUME IInv,
         Spawn \/ SpawnFails \/ ReceiveReady \/ ReadyTimesOut \/ Discard
  PROVE  IInv'
  <1> USE TimeoutAssumption, ReadyTimeoutAssumption
      DEF IInv, TypeOK, IProcesses, IGo, IStatus, IResult, RunnerStates, HelperStates,
          Results, Failures, HelperCode, NeverRan, procVars, pipeVars, timeVars
  <1>1. CASE Spawn
    BY <1>1 DEF Spawn
  <1>2. CASE SpawnFails
    BY <1>2 DEF SpawnFails
  <1>3. CASE ReceiveReady
    BY <1>3 DEF ReceiveReady, GiveUp
  <1>4. CASE ReadyTimesOut
    BY <1>4 DEF ReadyTimesOut, GiveUp
  <1>5. CASE Discard
    BY <1>5 DEF Discard, GiveUp
  <1>6. QED
    BY <1>1, <1>2, <1>3, <1>4, <1>5

\* The steps of go_and_collect_timed keep the invariant.
LEMMA CollectIInv ==
  ASSUME IInv,
         \/ SendGo \/ SendGoFails \/ ReceiveStatus \/ StatusTimesOut
         \/ Collected \/ CollectTimesOut \/ CollectFails \/ Reap \/ RunnerCrash
  PROVE  IInv'
  <1> USE TimeoutAssumption, ReadyTimeoutAssumption
      DEF IInv, TypeOK, IProcesses, IGo, IStatus, IResult, RunnerStates, HelperStates,
          Results, Failures, HelperCode, NeverRan, procVars, pipeVars, timeVars
  <1>1. CASE SendGo
    BY <1>1 DEF SendGo
  <1>2. CASE SendGoFails
    BY <1>2 DEF SendGoFails, GiveUp
  <1>3. CASE ReceiveStatus
    BY <1>3 DEF ReceiveStatus, GiveUp, CollectFor, Remaining, StatusEof
  <1>4. CASE StatusTimesOut
    BY <1>4 DEF StatusTimesOut, GiveUp
  <1>5. CASE Collected
    BY <1>5 DEF Collected, Collecting
  <1>6. CASE CollectTimesOut
    BY <1>6 DEF CollectTimesOut, Collecting, KillAndReap, Alive
  <1>7. CASE CollectFails
    BY <1>7 DEF CollectFails, Collecting, KillAndReap, Alive
  <1>8. CASE Reap
    BY <1>8 DEF Reap, KillAndReap, Alive
  <1>9. CASE RunnerCrash
    BY <1>9 DEF RunnerCrash
  <1>10. QED
    BY <1>1, <1>2, <1>3, <1>4, <1>5, <1>6, <1>7, <1>8, <1>9

\* The helper's own steps keep the invariant.
LEMMA HelperIInv ==
  ASSUME IInv, HelperStep
  PROVE  IInv'
  <1> USE TimeoutAssumption, ReadyTimeoutAssumption
      DEF IInv, TypeOK, IProcesses, IGo, IStatus, IResult, RunnerStates, HelperStates,
          Results, Failures, HelperCode, NeverRan, procVars, pipeVars, timeVars
  <1>0. UNCHANGED <<runner, result, elapsed, deadline>>
    BY DEF HelperStep
  <1>1. CASE FinishFailing
    BY <1>0, <1>1 DEF FinishFailing
  <1>2. CASE RestoreCloexec
    BY <1>0, <1>2 DEF RestoreCloexec
  <1>3. CASE RestoreCloexecFails
    BY <1>0, <1>3 DEF RestoreCloexecFails, StartFailing
  <1>4. CASE SendReady
    BY <1>0, <1>4 DEF SendReady
  <1>5. CASE SendReadyFails
    BY <1>0, <1>5 DEF SendReadyFails, StartFailing
  <1>6. CASE ReceiveGo
    BY <1>0, <1>6 DEF ReceiveGo, GoEof, StartFailing
  <1>7. CASE Exec
    BY <1>0, <1>7 DEF Exec
  <1>8. CASE ExecFails
    BY <1>0, <1>8 DEF ExecFails, StartFailing
  <1>9. QED
    BY <1>1, <1>2, <1>3, <1>4, <1>5, <1>6, <1>7, <1>8 DEF HelperStep

\* The environment's steps and the clock keep the invariant.
LEMMA EnvironmentIInv ==
  ASSUME IInv,
         TargetExits \/ DescendantsEnd \/ KilledOutside \/ Tick \/ UNCHANGED vars
  PROVE  IInv'
  <1> USE TimeoutAssumption, ReadyTimeoutAssumption
      DEF IInv, TypeOK, IProcesses, IGo, IStatus, IResult, RunnerStates, HelperStates,
          Results, Failures, HelperCode, NeverRan, procVars, pipeVars, timeVars
  <1>1. CASE TargetExits
    BY <1>1 DEF TargetExits
  <1>2. CASE DescendantsEnd
    BY <1>2 DEF DescendantsEnd
  <1>3. CASE KilledOutside
    BY <1>3 DEF KilledOutside
  <1>4. CASE Tick
    BY <1>4 DEF Tick, NothingToRead, Collecting, ReadyEof, StatusEof
  <1>5. CASE UNCHANGED vars
    BY <1>5 DEF vars
  <1>6. QED
    BY <1>1, <1>2, <1>3, <1>4, <1>5

\* The inductive invariant holds in every reachable state.
THEOREM InductiveInvariant == Spec => []IInv
  <1>1. Init => IInv
    BY InitIInv
  <1>2. IInv /\ [Next]_vars => IInv'
    BY PrepareIInv, CollectIInv, HelperIInv, EnvironmentIInv DEF Next, RunnerStep, Stopped
  <1>3. QED
    BY <1>1, <1>2, PTL DEF Spec

\* A target is started only after GO was written.
THEOREM ReleaseBeforeExec == Spec => []NoExecWithoutGo
  BY InductiveInvariant, PTL DEF IInv, IGo, NoExecWithoutGo

\* Every return leaves no child behind.
THEOREM ReturnReapsChild == Spec => []NoChildLeft
  BY InductiveInvariant, PTL DEF IInv, IProcesses, NoChildLeft

\* What is reported as the target's result comes from the target, and what is
\* reported as an exec failure or a refusal comes from a target that never ran.
THEOREM ResultsAreAttributed == Spec => [](CollectedMeansExecuted /\ ExecFailedMeansNotExecuted)
  <1>1. IInv => CollectedMeansExecuted /\ ExecFailedMeansNotExecuted
    BY DEF IInv, IGo, IResult, TypeOK, CollectedMeansExecuted, ExecFailedMeansNotExecuted
  <1>2. QED
    BY <1>1, InductiveInvariant, PTL

\* The wait for the status and the collection share one timeout.
THEOREM OneTimeout == Spec => []BudgetRespected
  BY InductiveInvariant, PTL DEF IInv, IGo, BudgetRespected

\* A target that started in time never makes its own status wait time out.
THEOREM StatusNotHeldByTarget == Spec => []StatusChannelReleased
  BY InductiveInvariant, PTL DEF IInv, IResult, StatusChannelReleased

-----------------------------------------------------------------------------

\* Each step of the protocol is a step of TargetRun or leaves it unchanged.
LEMMA StepSimulation ==
  ASSUME IInv, [Next]_vars
  PROVE  [TR!Next]_(TR!vars)
  <1> USE DEF TR!vars, TR!Verdicts, phaseBar, verdictBar, procVars, pipeVars, timeVars
  <1>1. CASE Spawn \/ ReceiveReady \/ ReadyTimesOut \/ Discard \/ SendGoFails
    BY <1>1 DEF Spawn, ReceiveReady, ReadyTimesOut, Discard, SendGoFails, GiveUp, IInv, IGo, IProcesses
  <1>2. CASE SpawnFails
    <2>1. TR!Finish("refused")
      BY <1>2 DEF SpawnFails, TR!Finish, IInv, IGo
    <2>2. QED
      BY <2>1 DEF TR!Next
  <1>3. CASE SendGo
    <2>1. TR!Release
      BY <1>3 DEF SendGo, TR!Release, IInv, IGo
    <2>2. QED
      BY <2>1 DEF TR!Next
  <1>4. CASE ReceiveStatus \/ StatusTimesOut \/ RunnerCrash \/ Tick
    BY <1>4 DEF ReceiveStatus, StatusTimesOut, RunnerCrash, Tick, NothingToRead, Collecting, GiveUp
  <1>5. CASE Collected
    <2>1. runner = "collect" \/ runner = "collectError"
      BY <1>5 DEF Collected, Collecting
    <2>2. CASE result' = "collected"
      <3>1. TR!Finish("observed")
        BY <1>5, <2>1, <2>2 DEF Collected, TR!Finish, IInv, IGo, IStatus
      <3>2. QED
        BY <3>1 DEF TR!Next
    <2>3. CASE result' # "collected"
      <3>1. TR!Finish("failed")
        BY <1>5, <2>1, <2>3 DEF Collected, TR!Finish, IInv, IGo
      <3>2. QED
        BY <3>1 DEF TR!Next
    <2>4. QED
      BY <2>2, <2>3
  <1>6. CASE CollectTimesOut \/ CollectFails
    <2>1. TR!Finish("failed")
      BY <1>6 DEF CollectTimesOut, CollectFails, Collecting, KillAndReap, TR!Finish, IInv, IGo
    <2>2. QED
      BY <2>1 DEF TR!Next
  <1>7. CASE Reap
    <2>1. CASE go = "GO"
      <3>1. TR!Finish("failed")
        BY <1>7, <2>1 DEF Reap, KillAndReap, TR!Finish, IInv, IResult
      <3>2. QED
        BY <3>1 DEF TR!Next
    <2>2. CASE go = "empty"
      <3>1. TR!Finish("refused")
        BY <1>7, <2>2 DEF Reap, KillAndReap, TR!Finish
      <3>2. QED
        BY <3>1 DEF TR!Next
    <2>3. QED
      BY <2>1, <2>2 DEF IInv, TypeOK
  <1>8. CASE HelperStep
    <2>1. UNCHANGED <<runner, result>>
      BY <1>8 DEF HelperStep
    <2>2. CASE Exec
      <3>1. TR!Execute
        BY <2>1, <2>2 DEF Exec, TR!Execute, IInv, IGo, IStatus, IProcesses, TypeOK, HelperCode, NeverRan
      <3>2. QED
        BY <3>1 DEF TR!Next
    <2>3. CASE ~Exec
      BY <1>8, <2>1, <2>3 DEF HelperStep, FinishFailing, RestoreCloexec, RestoreCloexecFails, SendReady,
        SendReadyFails, ReceiveGo, ExecFails, StartFailing
    <2>4. QED
      BY <2>2, <2>3
  <1>9. CASE TargetExits \/ DescendantsEnd
    BY <1>9 DEF TargetExits, DescendantsEnd
  <1>10. CASE KilledOutside
    <2>1. runner # "returned"
      BY <1>10 DEF KilledOutside, IInv, IProcesses, HelperCode
    <2>2. CASE fate = "own"
      <3>1. TR!Destroy
        BY <1>10, <2>1, <2>2 DEF KilledOutside, TR!Destroy
      <3>2. QED
        BY <3>1 DEF TR!Next
    <2>3. CASE fate = "outside"
      BY <1>10, <2>3 DEF KilledOutside
    <2>4. QED
      BY <2>2, <2>3 DEF IInv, TypeOK
  <1>11. CASE UNCHANGED vars
    BY <1>11 DEF vars
  <1>12. QED
    BY <1>1, <1>2, <1>3, <1>4, <1>5, <1>6, <1>7, <1>8, <1>9, <1>10, <1>11
    DEF Next, RunnerStep, Stopped

\* The pipe protocol provides what TargetRun promises.
THEOREM Refinement == Spec => ImplementsTargetRun
  <1>1. Init => TR!Init
    BY DEF Init, TR!Init, phaseBar, verdictBar, NeverRan
  <1>2. QED
    BY <1>1, StepSimulation, InductiveInvariant, PTL DEF Spec, ImplementsTargetRun, TR!Spec

-----------------------------------------------------------------------------
(* Startup capture.                                                        *)

\* The descriptors as EarlyTransfer::prepare and the exec leave them.
LEMMA SpawnedTable ==
  ASSUME profile \in Profiles
  PROVE  LET table == AfterExec(Prepare(Forked)) IN
         /\ DOMAIN table = Roles \cup Kept \cup Transport
         /\ \A f \in DOMAIN table : table[f].object = Object(f)
<1> DEFINE t1 == Forked
           t2 == Reserve(t1)
           gone(t) == Without(Inherit(t), {16})
<1>1. /\ DOMAIN t1 = 0 .. 16
      /\ \A f \in 0 .. 16 :
           /\ t1[f].object = IF f <= 2 THEN Standard[f] ELSE IF f <= 5 THEN "null" ELSE Private[f]
           /\ t1[f].cloexec <=> f > 2
  BY DEF Forked, Fd
<1>2. CASE profile = "reference"
  <2>1. /\ DOMAIN gone(t1) = 0 .. 15
        /\ \A f \in 0 .. 15 :
             /\ gone(t1)[f].object = t1[f].object
             /\ gone(t1)[f].cloexec <=> f > 2 /\ f \notin Transport
    BY <1>1 DEF Inherit, Without, Fd, Transport
  <2>2. Prepare(Forked) = gone(t1)
    BY <1>2 DEF Prepare
  <2> QED
    BY <1>1, <1>2, <2>1, <2>2 DEF AfterExec, Without, Roles, Kept, Transport, Object, Slots
<1>3. CASE profile = "managed"
  <2>1. /\ DOMAIN t2 = 0 .. 16
        /\ \A f \in 0 .. 16 :
             /\ t2[f].object = IF f \in 3 .. 5 THEN Standard[f - 3] ELSE t1[f].object
             /\ t2[f].cloexec <=> f > 5
    BY <1>1 DEF Reserve, Slots, Fd
  <2>2. /\ DOMAIN gone(t2) = 0 .. 15
        /\ \A f \in 0 .. 15 :
             /\ gone(t2)[f].object = t2[f].object
             /\ gone(t2)[f].cloexec <=> f > 5 /\ f \notin Transport
    BY <2>1 DEF Inherit, Without, Fd, Transport
  <2> HIDE DEF t2, gone
  <2> DEFINE t3 == GiveRuntime(gone(t2))
  <2>3. \A r \in Roles : RuntimeFd[r] \in 6 .. 12 /\ gone(t2)[RuntimeFd[r]].object = Private[RuntimeFd[r]]
    BY <1>1, <2>1, <2>2 DEF RuntimeFd, Roles
  <2>4. /\ DOMAIN t3 = 0 .. 15
        /\ \A f \in 0 .. 15 :
             /\ t3[f].object = IF f \in Roles THEN Private[RuntimeFd[f]] ELSE gone(t2)[f].object
             /\ t3[f].cloexec <=> f > 5 /\ f \notin Transport
    BY <2>2, <2>3 DEF GiveRuntime, Fd, Roles
  <2>5. Prepare(Forked) = t3
    BY <1>3 DEF Prepare, t2, gone
  <2> HIDE DEF t3
  <2> QED
    BY <1>1, <1>3, <2>1, <2>2, <2>4, <2>5 DEF AfterExec, Without, Roles, Kept, Transport, Object, Slots
<1> QED
  BY <1>2, <1>3 DEF Profiles

\* Nothing is started yet.
LEMMA InitStartupInv == StartupInit => StartupInv
<1> SUFFICES ASSUME StartupInit PROVE StartupInv
  OBVIOUS
<1>1. StartupTypeOK
  <2>1. /\ where \in [Procs -> {"absent", "failing", "exit", "dead"} \cup Bootstrapping \cup Loaded]
        /\ sending \in [Procs -> {Idle} \cup [kind : Events, body : Bodies]]
        /\ sigpipe \in [Procs -> Actions]
    BY DEF StartupInit, Actions
  <2>2. wire \in Seq(Halves) /\ begun \in Seq([by : Procs, sigpipe : Actions])
    BY DEF StartupInit
  <2> QED
    BY <2>1, <2>2 DEF StartupInit, StartupTypeOK
<1>2. Table /\ CapturedRoles
  BY DEF StartupInit, Table, CapturedRoles, Procs, Bootstrapping, Loaded
<1>3. Collection
  BY DEF StartupInit, Collection, Procs
<1>4. Unready
  BY DEF StartupInit, Unready, Procs, Loaded
<1> QED
  BY <1>1, <1>2, <1>3, <1>4 DEF StartupInv, Lifecycle

\* The early record names the descriptor of each role.
LEMMA EarlyFd ==
  ASSUME profile \in Profiles
  PROVE  /\ EarlyRecord # None
         /\ \A r \in Roles : EarlyRecord.roles[r].fd = IF profile = "managed" THEN r + 3 ELSE r
<1>1. /\ EarlyRecord.roles = [r \in Roles |->
           [state |-> "inherited", fd |-> IF profile = "managed" THEN r + 3 ELSE r, errno |-> 0]]
      /\ EarlyRecord.profile = profile
  BY DEF EarlyRecord, Slot
<1>2. EarlyRecord \in EarlyRecords
  BY DEF EarlyRecord, EarlyRecords, Slot, Roles
<1> QED
  BY <1>1, <1>2, NoneAssumption

\* What serialize_standard makes of a role has the fields of the record.
LEMMA SnapshotType ==
  ASSUME StartupTypeOK, captured # None
  PROVE  Snapshot("own", captured, profile) \in ReadyBodies
<1>1. captured \in CapturedRecords /\ profile \in Profiles
  BY DEF StartupTypeOK
<1>2. \A r \in Roles : Serialize(captured.standards[r], r, profile) \in
        [role : Roles, available : BOOLEAN, fd : -1 .. 5, errno : {0, EBADF},
         statErrno : {0, EIO, EBADF}, stat : BOOLEAN, state : {"inherited"}, binding : Profiles]
  BY <1>1 DEF CapturedRecords, Standards, Serialize
<1> QED
  BY <1>1, <1>2 DEF Snapshot, ReadyBodies, CapturedRecords

\* The record of capture_standards: each role is where the early record says, or closed.
LEMMA CapturedType ==
  ASSUME StartupTypeOK, early = EarlyRecord, NEW limit \in Limits, NEW e \in {0, EIO}
  PROVE  /\ [sigpipe |-> sigpipe["own"], limit |-> limit,
             standards |-> [r \in Roles |-> Captured(early.roles[r], r, DOMAIN fds, e, profile)]]
              \in CapturedRecords
         /\ \A r \in Roles :
              LET standard == Captured(early.roles[r], r, DOMAIN fds, e, profile) IN
              \/ standard.fd = EarlyRecord.roles[r].fd /\ standard.errno = 0 /\ standard.statErrno = e
              \/ profile = "reference" /\ standard.fd = -1 /\ standard.errno = EBADF /\ standard.statErrno = EBADF
<1>1. \A r \in Roles :
        /\ early.roles[r].state = "inherited"
        /\ early.roles[r].fd = IF profile = "managed" THEN r + 3 ELSE r
  BY DEF EarlyRecord, Slot
<1>2. \A r \in Roles :
        LET standard == Captured(early.roles[r], r, DOMAIN fds, e, profile) IN
        /\ standard \in Standards
        /\ \/ standard.fd = EarlyRecord.roles[r].fd /\ standard.errno = 0 /\ standard.statErrno = e
           \/ profile = "reference" /\ standard.fd = -1 /\ standard.errno = EBADF /\ standard.statErrno = EBADF
  BY <1>1 DEF Captured, Standards, EBADF, EIO, Roles, StartupTypeOK, Profiles
<1> QED
  BY <1>2 DEF CapturedRecords, StartupTypeOK, Procs

-----------------------------------------------------------------------------
LEMMA TypeStep ==
  ASSUME StartupTypeOK, Table, StartupNext
  PROVE  StartupTypeOK'
<1> USE DEF StartupTypeOK, Procs, launcherVars, processVars
<1>1. CASE Setup
  BY <1>1 DEF Setup, Ends, ControlRecord, EarlyRecord
<1>2. CASE SpawnChild
  <2>1. early' \in {None, EarlyRecord'} /\ control' \in {None, ControlRecord'}
    BY <1>2 DEF SpawnChild, ControlRecord, EarlyRecord
  <2>2. /\ where' \in [Procs -> {"absent", "failing", "exit", "dead"} \cup Bootstrapping \cup Loaded]
        /\ sigpipe' \in [Procs -> Actions]
    BY <1>2 DEF SpawnChild, Bootstrapping
  <2> QED
    BY <1>2, <2>1, <2>2 DEF SpawnChild
<1>3. CASE DropEnds
  BY <1>3 DEF DropEnds, ControlRecord, EarlyRecord
<1>4. CASE WriteControl
  BY <1>4 DEF WriteControl, ControlRecord, EarlyRecord
<1>5. CASE CollectAll
  BY <1>5 DEF CollectAll, ControlRecord, EarlyRecord
<1>6. CASE Report
  BY <1>6 DEF Report, ControlRecord, EarlyRecord
<1>7. CASE CollectionFails
  BY <1>7 DEF CollectionFails, ControlRecord, EarlyRecord
<1>8. CASE ReadControl \/ ReadEarly
  <2>1. where' \in [Procs -> {"absent", "failing", "exit", "dead"} \cup Bootstrapping \cup Loaded]
    BY <1>8 DEF ReadControl, ReadEarly, Goto, Bootstrapping
  <2> QED
    BY <1>8, <2>1 DEF ReadControl, ReadEarly, ControlRecord, EarlyRecord
<1>9. CASE Capture
  <2>1. captured' \in CapturedRecords
    BY <1>9, CapturedType DEF Capture, Table, Bootstrapping
  <2> QED
    BY <1>9, <2>1 DEF Capture, Goto, Bootstrapping, ControlRecord, EarlyRecord
<1>10. CASE BeginReady
  <2>1. Snapshot("own", captured, profile) \in Bodies
    BY <1>10, SnapshotType DEF BeginReady, Table, Bodies
  <2> QED
    BY <1>10, <2>1 DEF BeginReady, Begin, Header, Halves, Events, ControlRecord, EarlyRecord
<1>11. ASSUME NEW p \in Procs, Complete(p)
       PROVE  /\ wire' \in Seq(Halves)
              /\ sending' \in [Procs -> {Idle} \cup [kind : Events, body : Bodies]]
  BY <1>11 DEF Complete, Payload, Halves
<1>22. ASSUME NEW p \in Procs, NEW event \in Events, NEW body \in Bodies, Begin(p, event, body)
       PROVE  /\ wire' \in Seq(Halves)
              /\ sending' \in [Procs -> {Idle} \cup [kind : Events, body : Bodies]]
  BY <1>22 DEF Begin, Header, Halves
<1>12. CASE CompleteReady
  BY <1>11, <1>12 DEF CompleteReady, Goto, Loaded, ControlRecord, EarlyRecord
<1>13. CASE InitializeFails
  BY <1>13 DEF InitializeFails, Goto, ControlRecord, EarlyRecord
<1>14. CASE Fail
  <2>1. /\ wire' \in Seq(Halves)
        /\ sending' \in [Procs -> {Idle} \cup [kind : Events, body : Bodies]]
    BY <1>11, <1>22, <1>14 DEF Fail, Events, Bodies
  <2> QED
    BY <1>14, <2>1 DEF Fail, Goto, ControlRecord, EarlyRecord
<1>15. CASE Fork
  BY <1>15 DEF Fork, Goto, ControlRecord, EarlyRecord
<1>16. CASE Meddle
  BY <1>16 DEF Meddle, Actions, ControlRecord, EarlyRecord
<1>17. ASSUME NEW p \in Procs, Adopt(p) PROVE StartupTypeOK'
  BY <1>17 DEF Adopt, Goto, Loaded, ControlRecord, EarlyRecord
<1>18. ASSUME NEW p \in Procs, BeginEntry(p) PROVE StartupTypeOK'
  <2>1. sigpipe' \in [Procs -> Actions]
    <3>1. captured \in CapturedRecords
      BY <1>18 DEF BeginEntry, CanEnter, Table, Loaded
    <3> QED
      BY <1>18, <3>1 DEF BeginEntry, CapturedRecords
  <2>2. [pid |-> p, sigpipe |-> sigpipe'[p],
         standards |-> IF profile = "managed" THEN None ELSE Roles \cap DOMAIN fds] \in Bodies
    BY <1>18, <2>1 DEF Bodies, EntryBodies
  <2>3. /\ wire' \in Seq(Halves)
        /\ sending' \in [Procs -> {Idle} \cup [kind : Events, body : Bodies]]
    BY <1>18, <1>22, <2>2 DEF BeginEntry, Events
  <2> QED
    BY <1>18, <2>1, <2>3 DEF BeginEntry, ControlRecord, EarlyRecord
<1>19. ASSUME NEW p \in Procs, CompleteEntry(p) PROVE StartupTypeOK'
  BY <1>11, <1>19 DEF CompleteEntry, Goto, Loaded, ControlRecord, EarlyRecord
<1>23. ASSUME NEW p \in Procs, CanEnter(p), Restoring(p) PROVE sigpipe' \in [Procs -> Actions]
  <2>1. profile = "managed" => captured \in CapturedRecords
    BY <1>23 DEF CanEnter, Table, Loaded
  <2> QED
    BY <1>23, <2>1 DEF Restoring, CapturedRecords
<1>20. ASSUME NEW p \in Procs, EntryFails(p) PROVE StartupTypeOK'
  <2>1. /\ wire' \in Seq(Halves)
        /\ sending' \in [Procs -> {Idle} \cup [kind : Events, body : Bodies]]
    BY <1>11, <1>22, <1>20 DEF EntryFails, Events, Bodies
  <2>2. Restoring(p) \/ UNCHANGED sigpipe
    BY <1>20 DEF EntryFails
  <2>3. sigpipe' \in [Procs -> Actions]
    BY <1>20, <2>2, <1>23 DEF EntryFails
  <2> QED
    BY <1>20, <2>1, <2>3 DEF EntryFails, EntryOver, Goto, ControlRecord, EarlyRecord
<1>24. ASSUME NEW p \in Procs, EntryFailsUnsent(p) PROVE StartupTypeOK'
  <2>1. sigpipe' \in [Procs -> Actions]
    BY <1>24, <1>23 DEF EntryFailsUnsent
  <2> QED
    BY <1>24, <2>1 DEF EntryFailsUnsent, EntryOver, Goto, ControlRecord, EarlyRecord
<1>21. ASSUME NEW p \in Procs, End(p) PROVE StartupTypeOK'
  BY <1>21 DEF End, Goto, ControlRecord, EarlyRecord
<1> QED
  BY <1>1, <1>2, <1>3, <1>4, <1>5, <1>6, <1>7, <1>8, <1>9, <1>10, <1>12, <1>13, <1>14, <1>15, <1>16,
     <1>17, <1>18, <1>19, <1>20, <1>21, <1>24
  DEF StartupNext, LauncherStep, LibraryStep, ProgramStep

\* Steps that open or close no descriptor of the child, move it from no part of the
\* bootstrap to another, and capture nothing.
LEMMA SameTable ==
  ASSUME Table, UNCHANGED <<profile, early, fds, captured>>,
         \/ where'["own"] = where["own"]
         \/ where'["own"] \in {"failing", "exit", "dead"}
         \/ {where["own"], where'["own"]} \subseteq {"control", "early", "capture"}
         \/ where["own"] \in {"ready"} \cup Loaded /\ where'["own"] \in Loaded,
         where'["heir"] # "absent" => captured # None
  PROVE  Table'
<1>1. EarlyRecord' = EarlyRecord /\ Kept' = Kept /\ \A f : Object(f)' = Object(f)
  BY DEF EarlyRecord, Kept, Object
<1> QED
  BY <1>1 DEF Table, Bootstrapping, Loaded

\* The descriptors stay those the invariant names.
LEMMA TableStep ==
  ASSUME StartupTypeOK, Table, Collection, StartupNext
  PROVE  Table'
<1> USE DEF launcherVars, processVars, Procs
<1>1. CASE Setup \/ DropEnds \/ WriteControl \/ CollectAll \/ Report
  BY <1>1, SameTable DEF Setup, DropEnds, WriteControl, CollectAll, Report, Table
<1>2. CASE SpawnChild
  <2>1. CASE errors' = {"Spawn"} /\ UNCHANGED <<early, fds, sigpipe, where>>
    BY <1>2, <2>1, SameTable DEF SpawnChild, Table
  <2>2. CASE /\ early' = EarlyRecord
             /\ \E closed \in {{}, {1}} : fds' = Without(AfterExec(Prepare(Forked)), closed)
             /\ where' = [where EXCEPT !["own"] = "control"]
    <3>1. /\ EarlyRecord' = EarlyRecord /\ Kept' = Kept /\ \A f : Object(f)' = Object(f)
          /\ captured' = captured
      BY <1>2 DEF SpawnChild, EarlyRecord, Kept, Object
    <3>2. /\ Kept \subseteq DOMAIN fds' /\ DOMAIN fds' \subseteq Roles \cup Kept \cup Transport
          /\ \A f \in DOMAIN fds' : fds'[f].object = Object(f)
      BY <2>2, SpawnedTable DEF Without, Kept, StartupTypeOK, Slots
    <3>3. where'["own"] = "control" /\ where'["heir"] = where["heir"]
      BY <2>2 DEF StartupTypeOK
    <3> QED
      BY <2>2, <3>1, <3>2, <3>3 DEF Table, Loaded
  <2> QED
    BY <1>2, <2>1, <2>2 DEF SpawnChild
<1>3. CASE CollectionFails
  <2>1. where'["own"] = "dead" /\ where'["heir"] = where["heir"] /\ captured' = captured
    BY <1>3 DEF CollectionFails, StartupTypeOK
  <2> QED
    BY <2>1 DEF Table, Bootstrapping, Loaded
<1>4. CASE ReadControl \/ ReadEarly \/ InitializeFails \/ CompleteReady \/ Fork
  <2>1. UNCHANGED <<profile, early, fds, captured>>
    BY <1>4 DEF ReadControl, ReadEarly, InitializeFails, CompleteReady, Fork
  <2>2. where'["heir"] # "absent" => captured # None
    BY <1>4 DEF ReadControl, ReadEarly, InitializeFails, CompleteReady, Fork, Goto, StartupTypeOK, Table,
      Loaded
  <2> QED
    BY <1>4, <2>1, <2>2, SameTable
    DEF ReadControl, ReadEarly, InitializeFails, CompleteReady, Fork, Goto, StartupTypeOK, Loaded
<1>5. CASE Capture
  <2>1. /\ where["own"] = "capture" /\ where'["own"] \in {"ready", "failing"}
        /\ where'["heir"] = where["heir"]
    BY <1>5 DEF Capture, Goto, StartupTypeOK
  <2>2. captured' # None /\ early = EarlyRecord /\ early' = early
    BY <1>5, <2>1, CapturedType, NoneAssumption DEF Capture, Table, Bootstrapping
  <2>3. /\ EarlyRecord' = EarlyRecord /\ Kept' = Kept /\ \A f : Object(f)' = Object(f)
    BY <1>5 DEF Capture, EarlyRecord, Kept, Object
  <2>4. /\ Kept \subseteq DOMAIN fds /\ DOMAIN fds \subseteq Roles \cup Kept \cup Transport
        /\ \A f \in DOMAIN fds : fds[f].object = Object(f)
    BY <2>1 DEF Table, Bootstrapping
  <2>5. /\ DOMAIN fds' = DOMAIN fds \ {7, 10, 12, 15}
        /\ \A f \in DOMAIN fds' :
             fds'[f].object = fds[f].object /\ (f \in 3 .. 14 => fds'[f].cloexec)
    BY <1>5 DEF Capture, Without, Fd
  <2>6. /\ Kept \subseteq DOMAIN fds' /\ DOMAIN fds' \subseteq Roles \cup Kept \cup {14}
        /\ \A f \in DOMAIN fds' \ Roles : f \in 3 .. 14
    BY <2>4, <2>5 DEF Kept, Slots, Transport, Roles
  <2> QED
    BY <2>1, <2>2, <2>3, <2>4, <2>5, <2>6 DEF Table, Bootstrapping, Loaded
<1>6. CASE BeginReady \/ Fail
  BY <1>6, SameTable DEF BeginReady, Fail, Goto, StartupTypeOK, Table
<1>7. CASE Meddle
  <2>1. /\ UNCHANGED <<profile, early, captured, where>> /\ where["own"] = "loaded"
        /\ \/ fds' = fds
           \/ profile = "reference" /\ fds' = Without(fds, {0})
    BY <1>7 DEF Meddle
  <2>2. CASE fds' = fds
    BY <2>1, <2>2, SameTable DEF Table
  <2>3. CASE profile = "reference" /\ fds' = Without(fds, {0})
    <3>1. EarlyRecord' = EarlyRecord /\ Kept' = Kept /\ Kept = {} /\ \A f : Object(f)' = Object(f)
      BY <2>1, <2>3 DEF EarlyRecord, Kept, Object
    <3>2. DOMAIN fds' \subseteq DOMAIN fds /\ \A f \in DOMAIN fds' : fds'[f] = fds[f]
      BY <2>3 DEF Without
    <3> QED
      BY <2>1, <3>1, <3>2 DEF Table, Bootstrapping, Loaded
  <2> QED
    BY <2>1, <2>2, <2>3
<1>8. ASSUME NEW p \in Procs,
             Adopt(p) \/ BeginEntry(p) \/ CompleteEntry(p) \/ EntryFails(p) \/ EntryFailsUnsent(p)
      PROVE  Table'
  <2>1. UNCHANGED <<profile, early, fds, captured>>
    BY <1>8 DEF Adopt, BeginEntry, CompleteEntry, EntryFails, EntryFailsUnsent
  <2>2. \/ where' = where
        \/ /\ where[p] \in Loaded
           /\ \E step \in {"adopted", "entered", "exit"} : where' = [where EXCEPT ![p] = step]
    BY <1>8 DEF Adopt, BeginEntry, CompleteEntry, EntryFails, EntryFailsUnsent, EntryOver, Goto, CanEnter, Loaded
  <2>3. where'["heir"] # "absent" => captured # None
    BY <2>2 DEF Table, StartupTypeOK, Loaded
  <2> QED
    BY <2>1, <2>2, <2>3, SameTable DEF StartupTypeOK, Loaded
<1>9. ASSUME NEW p \in Procs, End(p) PROVE Table'
  <2>1. where' = [where EXCEPT ![p] = "dead"] /\ UNCHANGED <<profile, early, captured>> /\ Present(p)
    BY <1>9 DEF End, Goto
  <2>2. CASE p = "own"
    BY <2>1, <2>2 DEF Table, StartupTypeOK, Bootstrapping, Loaded
  <2>3. CASE p = "heir"
    <3>1. fds' = fds
      BY <1>9, <2>3 DEF End
    <3> QED
      BY <2>1, <2>3, <3>1, SameTable DEF StartupTypeOK, Present, Table
  <2> QED
    BY <2>2, <2>3
<1> QED
  BY <1>1, <1>2, <1>3, <1>4, <1>5, <1>6, <1>7, <1>8, <1>9
  DEF StartupNext, LauncherStep, LibraryStep, ProgramStep

\* Only the capture writes the record, and no other step changes what it is compared with.
LEMMA CapturedStep ==
  ASSUME StartupTypeOK, Table, CapturedRoles, [StartupNext]_startupVars
  PROVE  CapturedRoles'
<1>1. profile' = profile /\ EarlyRecord' = EarlyRecord
  BY DEF StartupNext, LauncherStep, LibraryStep, ProgramStep, Setup, SpawnChild, DropEnds, WriteControl,
    CollectAll, Report, CollectionFails, ReadControl, ReadEarly, Capture, BeginReady, CompleteReady,
    InitializeFails, Fail, Fork, Meddle, Adopt, BeginEntry, CompleteEntry, EntryFails,
      EntryFailsUnsent, EntryOver, End,
    startupVars, EarlyRecord
<1>2. CASE Capture
  <2>1. PICK limit \in Limits, e \in {0, EIO} :
          captured' =
            [sigpipe |-> sigpipe["own"], limit |-> limit,
             standards |-> [r \in Roles |-> Captured(early.roles[r], r, DOMAIN fds, e, profile)]]
    BY <1>2 DEF Capture
  <2>2. early = EarlyRecord
    BY <1>2 DEF Capture, Table, Bootstrapping
  <2>3. \A r \in Roles :
          LET standard == captured'.standards[r] IN
          \/ standard.fd = EarlyRecord.roles[r].fd /\ standard.errno = 0 /\ standard.statErrno = e
          \/ profile = "reference" /\ standard.fd = -1 /\ standard.errno = EBADF /\ standard.statErrno = EBADF
    BY <2>1, <2>2, CapturedType
  <2> QED
    BY <1>1, <2>3 DEF CapturedRoles
<1>3. CASE ~Capture
  <2>1. captured' = captured
    BY <1>3 DEF StartupNext, LauncherStep, LibraryStep, ProgramStep, Setup, SpawnChild, DropEnds,
      WriteControl, CollectAll, Report, CollectionFails, ReadControl, ReadEarly, BeginReady, CompleteReady,
      InitializeFails, Fail, Fork, Meddle, Adopt, BeginEntry, CompleteEntry, EntryFails,
      EntryFailsUnsent, EntryOver, End,
      launcherVars, processVars, startupVars
  <2> QED
    BY <1>1, <2>1 DEF CapturedRoles
<1> QED
  BY <1>2, <1>3

\* Nothing but the launcher's own step changes what the collection is about.
LEMMA CollectionStep ==
  ASSUME StartupTypeOK, Collection, StartupNext
  PROVE  Collection'
<1> USE DEF launcherVars, processVars, Procs
<1>1. CASE Setup
  BY <1>1 DEF Setup, Collection
<1>2. CASE SpawnChild
  BY <1>2 DEF SpawnChild, Collection
<1>3. CASE DropEnds
  <2>1. errors = {} \/ pc' = "report"
    BY <1>3 DEF DropEnds
  <2> QED
    BY <1>3, <2>1 DEF DropEnds, Collection
<1>4. CASE WriteControl
  BY <1>4 DEF WriteControl, Collection
<1>5. CASE CollectAll
  BY <1>5 DEF CollectAll, Collection, Present
<1>6. CASE Report
  <2>1. pc = "report" /\ pc' = "done" /\ report = None
    BY <1>6 DEF Report, Collection
  <2> DEFINE complete == /\ errors = {}
                         /\ Decodes(got, profile)
                         /\ early # None
                         /\ ValidLifecycle(EventsOf(got), "own", requested, profile)
  <2>2. UNCHANGED <<errors, got, early, requested, profile, wire, where>>
    BY <1>6 DEF Report
  <2>3. report' = [complete |-> complete] \/ report' = None
    BY <1>6, <2>1 DEF Report
  <2>4. complete' <=> complete
    BY <2>2, Zenon
  <2> HIDE DEF complete
  <2>5. report' # None => report'.complete = complete
    BY <2>3
  <2>6. report' # None => report'.complete = complete'
    BY <2>4, <2>5
  <2>7. errors' = {} => got' = wire' /\ \A p \in Procs : ~Present(p)'
    BY <2>1, <2>2 DEF Collection, Present
  <2> QED
    BY <2>1, <2>6, <2>7 DEF Collection, complete
<1>7. CASE CollectionFails
  BY <1>7 DEF CollectionFails, Collection
<1>8. CASE pc \notin {"report", "done"} /\ (LibraryStep \/ ProgramStep)
  <2>1. UNCHANGED <<pc, errors, report, profile, requested>>
    BY <1>8 DEF LibraryStep, ProgramStep, ReadControl, ReadEarly, Capture, BeginReady, CompleteReady,
      InitializeFails, Fail, Fork, Meddle, Adopt, BeginEntry, CompleteEntry, EntryFails,
      EntryFailsUnsent, EntryOver, End
  <2>2. where["own"] = "absent" => where'["own"] = "absent"
    BY <1>8 DEF LibraryStep, ProgramStep, ReadControl, ReadEarly, Capture, BeginReady, CompleteReady,
      InitializeFails, Fail, Fork, Meddle, Adopt, BeginEntry, CompleteEntry, EntryFails,
      EntryFailsUnsent, EntryOver, End, Goto,
      CanEnter, Present, StartupTypeOK
  <2> QED
    BY <1>8, <2>1, <2>2 DEF Collection
<1> QED
  BY <1>1, <1>2, <1>3, <1>4, <1>5, <1>6, <1>7, <1>8 DEF StartupNext, LauncherStep

\* What was sent is counted by the length of the wire.
LEMMA SentType ==
  ASSUME StartupTypeOK
  PROVE  Sent \in Nat /\ (wire' = wire => Sent' = Sent)
  BY DEF StartupTypeOK, Sent

\* What was sent stays as it was sent.
LEMMA AppendHalf ==
  ASSUME wire \in Seq(Halves), NEW half \in Halves, wire' = Append(wire, half)
  PROVE  /\ Sent' = Sent + 1 /\ Sent \in Nat
         /\ \A i \in 1 .. Sent : wire'[i] = wire[i]
         /\ wire'[Sent + 1] = half
  BY DEF Sent

\* A part of another kind of event does not say that a utility began.
LEMMA AppendedKind ==
  ASSUME wire \in Seq(Halves), NEW half \in Halves, wire' = Append(wire, half), half.kind # "entered",
         \A i \in DOMAIN wire : wire[i].kind # "entered"
  PROVE  \A i \in DOMAIN wire' : wire'[i].kind # "entered"
  OBVIOUS

\* The "ready" event stays the first that was sent.
LEMMA ToldStays ==
  ASSUME Told, UNCHANGED <<profile, early, captured>>, Sent \in Nat, Sent' \in Nat, Sent' >= Sent,
         \A i \in 1 .. Sent : wire'[i] = wire[i]
  PROVE  Told'
  BY DEF Told, EarlyRecord

\* The beginning of an event of an entry.
LEMMA ReadyBegins ==
  ASSUME StartupTypeOK, Ready, NEW p \in Procs, NEW body \in Bodies, NEW event \in {"entered", "entryError"},
         Begin(p, event, body), CanEnter(p),
         UNCHANGED <<profile, early, where, captured, begun>>,
         \A q \in Procs \ {p} : sigpipe'[q] = sigpipe[q],
         event = "entered" => failed' = failed, event = "entryError" => failed',
         Sending(p)'
  PROVE  Ready'
<1>1. /\ wire' = Append(wire, Header(event)) /\ Header(event) \in Halves
      /\ sending' = [sending EXCEPT ![p] = [kind |-> event, body |-> body]]
      /\ sending[p] = Idle
  BY DEF Begin, Header, Halves, Events
<1>2. /\ Sent' = Sent + 1 /\ Sent \in Nat /\ Sent >= 2
      /\ \A i \in 1 .. Sent : wire'[i] = wire[i]
      /\ wire'[Sent + 1] = Header(event)
  BY <1>1, AppendHalf DEF StartupTypeOK, Ready, Told
<1>3. /\ sending'[p] = [kind |-> event, body |-> body] /\ sending'[p] # Idle
      /\ \A q \in Procs \ {p} : sending'[q] = sending[q]
  BY <1>1 DEF StartupTypeOK, Idle
<1>4. \A q \in Procs : Sending(q)'
  BY <1>3 DEF Ready, Sending, CanEnter
<1>5. EntriesCounted'
  <2>1. Entries' = Entries /\ Entries \in Nat /\ (~failed' => ~failed)
    BY DEF StartupTypeOK, Entries
  <2>2. InFlight("own")' + InFlight("heir")' = InFlight("own") + InFlight("heir") + 1
    BY <1>1, <1>3 DEF InFlight, Procs
  <2>3. \A q \in Procs : InFlight(q) \in Nat /\ InFlight(q)' \in Nat
    BY DEF InFlight
  <2> QED
    BY <1>2, <2>1, <2>2, <2>3 DEF Ready, EntriesCounted, Procs
<1>6. NothingAfter'
  BY <1>2 DEF NothingAfter
<1>7. HalfAfter'
  <2> SUFFICES ASSUME Sent' = 3 PROVE HalfAfter'
    BY DEF HalfAfter
  <2>0. Sent = 2
    BY <1>2
  <2>1. begun = <<>> /\ ~failed /\ \A q \in Procs : sending[q] = Idle
    BY <2>0 DEF Ready, NothingAfter
  <2> QED
    BY <1>2, <1>3, <2>1 DEF HalfAfter, Header
<1>8. EventAfter'
  <2>1. Sent' = 4 => wire'[4].part = "head" /\ begun' = <<>>
    BY <1>2 DEF Ready, HalfAfter, Header
  <2> QED
    BY <2>1 DEF EventAfter
<1>9. Told' /\ Started'
  BY <1>2 DEF Ready, Told, Started, EarlyRecord
<1> QED
  BY <1>4, <1>5, <1>6, <1>7, <1>8, <1>9 DEF Ready

\* The end of an event of an entry that failed, or of the process that was sending it.
LEMMA ReadyBreaksOff ==
  ASSUME StartupTypeOK, Ready, NEW p \in Procs, sending[p] # Idle,
         sending' = [sending EXCEPT ![p] = Idle],
         UNCHANGED <<profile, early, captured, begun, sigpipe>>, failed',
         \E step \in {where[p], "exit", "dead"} : where' = [where EXCEPT ![p] = step],
         \/ wire' = wire
         \/ sending[p].kind = "entryError" /\ wire' = Append(wire, Payload("entryError", sending[p].body))
  PROVE  Ready'
<1>1. /\ sending'[p] = Idle /\ \A q \in Procs \ {p} : sending'[q] = sending[q] /\ where'[q] = where[q]
      /\ where'[p] \in {where[p], "exit", "dead"}
  BY DEF StartupTypeOK
<1>2. \A q \in Procs : Sending(q)'
  BY <1>1 DEF Ready, Sending, CanEnter
<1>3. Started'
  BY <1>1 DEF Ready, Started, Procs
<1>4. Sent # 2 /\ Sent \in Nat /\ Sent >= 2 /\ (wire' = wire => Sent' = Sent)
  BY SentType DEF Ready, Told, NothingAfter
<1>5. EntriesCounted'
  BY DEF EntriesCounted
<1>6. CASE wire' = wire
  <2>1. Sent = 3 => \A q \in Procs : sending'[q] = Idle
    BY <1>1 DEF Ready, HalfAfter
  <2>2. ~Entered
    BY DEF Entered
  <2>3. Told' /\ NothingAfter'
    BY <1>4, <1>6 DEF Ready, Told, NothingAfter, EarlyRecord
  <2>4. HalfAfter'
    BY <1>4, <1>6, <2>1 DEF Ready, HalfAfter
  <2>5. EventAfter'
    BY <1>4, <1>6, <2>2 DEF Ready, EventAfter
  <2> QED
    BY <1>2, <1>3, <1>5, <2>3, <2>4, <2>5 DEF Ready
<1>7. CASE sending[p].kind = "entryError" /\ wire' = Append(wire, Payload("entryError", sending[p].body))
  <2>1. Payload("entryError", sending[p].body) \in Halves
    BY DEF Payload, Halves, StartupTypeOK, Events, Idle
  <2>2. /\ Sent' = Sent + 1
        /\ \A i \in 1 .. Sent : wire'[i] = wire[i]
        /\ wire'[Sent + 1] = Payload("entryError", sending[p].body)
    BY <1>7, <2>1, AppendHalf DEF StartupTypeOK
  <2>3. Told' /\ NothingAfter' /\ HalfAfter'
    <3>1. Sent' >= 4
      BY <1>4, <2>2
    <3>2. Told'
      BY <1>4, <2>2, <3>1, ToldStays DEF Ready
    <3>3. NothingAfter' /\ HalfAfter'
      BY <3>1 DEF NothingAfter, HalfAfter
    <3> QED
      BY <3>2, <3>3
  <2>4. EventAfter'
    BY <1>4, <2>2 DEF EventAfter, Payload
  <2> QED
    BY <1>2, <1>3, <1>5, <2>3, <2>4 DEF Ready
<1> QED
  BY <1>6, <1>7

\* An entry is complete when its event is.
LEMMA ReadyEnters ==
  ASSUME StartupTypeOK, Ready, NEW p \in Procs, CompleteEntry(p)
  PROVE  Ready'
<1> USE DEF launcherVars
<1>1. /\ UNCHANGED <<profile, early, captured, failed, sigpipe>>
      /\ where' = [where EXCEPT ![p] = "entered"] /\ sending' = [sending EXCEPT ![p] = Idle]
      /\ begun' = Append(begun, [by |-> p, sigpipe |-> sigpipe[p]])
      /\ wire' = Append(wire, Payload("entered", sending[p].body))
      /\ sending[p] # Idle /\ sending[p].kind = "entered"
  BY DEF CompleteEntry, Complete, Goto
<1>2. /\ sending'[p] = Idle /\ \A q \in Procs \ {p} : sending'[q] = sending[q] /\ where'[q] = where[q]
      /\ where'[p] = "entered"
  BY <1>1 DEF StartupTypeOK
<1>3. \A q \in Procs : Sending(q)'
  BY <1>1, <1>2 DEF Ready, Sending, CanEnter
<1>4. Payload("entered", sending[p].body) \in Halves
  BY <1>1 DEF Payload, Halves, StartupTypeOK, Events, Idle
<1>5. Sent \in Nat /\ Sent >= 3
  BY <1>1, SentType DEF Ready, Told, NothingAfter
<1>6. /\ Sent' = Sent + 1
      /\ \A i \in 1 .. Sent : wire'[i] = wire[i]
      /\ wire'[Sent + 1] = Payload("entered", sending[p].body)
  BY <1>1, <1>4, AppendHalf DEF StartupTypeOK
<1>7. EntriesCounted'
  <2>1. Entries' = Entries + 1 /\ Entries \in Nat
    BY <1>1 DEF StartupTypeOK, Entries
  <2>2. InFlight("own")' + InFlight("heir")' = InFlight("own") + InFlight("heir") - 1
    BY <1>1, <1>2 DEF InFlight, Procs
  <2>3. \A q \in Procs : InFlight(q) \in Nat /\ InFlight(q)' \in Nat
    BY DEF InFlight
  <2>4. ~failed' => Sent = 2 + 2 * Entries + InFlight("own") + InFlight("heir")
    BY <1>1 DEF Ready, EntriesCounted
  <2>5. ~failed' => Sent' = 2 + 2 * Entries' + InFlight("own")' + InFlight("heir")'
    BY <1>5, <1>6, <2>1, <2>2, <2>3, <2>4 DEF Procs
  <2> QED
    BY <2>5 DEF EntriesCounted
<1>8. ASSUME Sent' = 4 PROVE Entered'
  <2>1. Sent = 3 /\ HalfAfter
    BY <1>5, <1>6, <1>8 DEF Ready
  <2>2. /\ wire[3] = Header("entered") /\ ~failed /\ begun = <<>>
        /\ \A q \in Procs : sending'[q] = Idle
    BY <1>1, <1>2, <2>1 DEF HalfAfter
  <2>3. wire'[3] = wire[3] /\ wire'[4] = Payload("entered", sending[p].body)
    BY <1>6, <2>1
  <2>4. Entries' = 1 /\ begun'[1] = [by |-> p, sigpipe |-> sigpipe[p]]
    BY <1>1, <2>2 DEF Entries
  <2>5. /\ sending[p].body.pid = p
        /\ profile = "managed" => sending[p].body.sigpipe = sigpipe[p]
        /\ profile = "managed" <=> sending[p].body.standards = None
    BY <1>1 DEF Ready, Sending
  <2>6. /\ wire'[4].part = "tail" /\ wire'[4].kind = "entered" /\ wire'[4].body = sending[p].body
    BY <2>3 DEF Payload
  <2>7. UNCHANGED <<profile, failed>>
    BY <1>1
  <2> QED
    BY <2>2, <2>3, <2>4, <2>5, <2>6, <2>7 DEF Entered
<1>9. Told' /\ NothingAfter' /\ HalfAfter'
  <2>1. Sent' >= 4
    BY <1>5, <1>6
  <2>0. UNCHANGED <<profile, early, captured>>
    BY <1>1
  <2>2. Told'
    BY <1>5, <1>6, <2>0, <2>1, ToldStays DEF Ready
  <2>3. NothingAfter' /\ HalfAfter'
    BY <2>1 DEF NothingAfter, HalfAfter
  <2> QED
    BY <2>2, <2>3
<1>10. EventAfter'
  BY <1>8 DEF EventAfter
<1>11. Started'
  BY <1>2 DEF Ready, Started, Procs, Loaded
<1> QED
  BY <1>3, <1>7, <1>9, <1>10, <1>11 DEF Ready

\* Steps that send nothing and leave what is being sent alone.
LEMMA ReadyStays ==
  ASSUME StartupTypeOK, Ready, UNCHANGED <<profile, early, captured, begun, wire, sending, failed>>,
         Started', \A p \in Procs : Sending(p)'
  PROVE  Ready'
<1>1. Sent' = Sent /\ Entries' = Entries /\ Sent \in Nat
  BY SentType DEF Entries
<1>2. Told'
  BY <1>1, ToldStays DEF Ready, Told
<1>3. EntriesCounted' /\ NothingAfter' /\ HalfAfter'
  BY <1>1 DEF Ready, EntriesCounted, NothingAfter, HalfAfter, InFlight
<1>4. EventAfter'
  BY <1>1 DEF Ready, EventAfter, Entered
<1> QED
  BY <1>2, <1>3, <1>4 DEF Ready

\* Once "ready" is sent.
LEMMA ReadyStep ==
  ASSUME StartupTypeOK, Table, Collection, Ready, StartupNext, errors' = {}
  PROVE  Ready'
<1> USE DEF launcherVars, processVars, Procs
<1>1. CASE Setup \/ DropEnds \/ WriteControl \/ CollectAll \/ Report
  <2>1. UNCHANGED <<profile, processVars>>
    BY <1>1 DEF Setup, DropEnds, WriteControl, CollectAll, Report
  <2>2. Started' /\ \A p \in Procs : Sending(p)'
    BY <2>1 DEF Ready, Started, Sending, CanEnter
  <2> QED
    BY <2>1, <2>2, ReadyStays
<1>2. CASE SpawnChild
  BY <1>2 DEF SpawnChild, Collection, Ready, Started, Loaded
<1>3. CASE CollectionFails
  BY <1>3 DEF CollectionFails
<1>4. CASE LibraryStep \/ InitializeFails
  BY <1>4 DEF LibraryStep, ReadControl, ReadEarly, Capture, BeginReady, CompleteReady, Fail, InitializeFails,
    Ready, Started, Loaded
<1>5. CASE Fork
  <2>1. /\ UNCHANGED <<profile, early, captured, begun, wire, sending, failed>>
        /\ where["own"] \in Loaded /\ where["heir"] = "absent"
        /\ where' = [where EXCEPT !["heir"] = where["own"]]
        /\ sigpipe'["own"] = sigpipe["own"]
    BY <1>5 DEF Fork, Goto, Loaded, StartupTypeOK
  <2>2. where'["own"] = where["own"] /\ where'["heir"] = where["own"]
    BY <2>1 DEF StartupTypeOK
  <2>3. sending["heir"] = Idle
    BY <2>1 DEF Ready, Sending, CanEnter
  <2>4. Started' /\ \A p \in Procs : Sending(p)'
    BY <2>1, <2>2, <2>3 DEF Ready, Started, Sending, CanEnter
  <2> QED
    BY <2>1, <2>4, ReadyStays
<1>6. CASE Meddle
  <2>1. /\ UNCHANGED <<profile, early, captured, begun, wire, sending, failed, where>>
        /\ where["own"] = "loaded" /\ sigpipe'["heir"] = sigpipe["heir"]
    BY <1>6 DEF Meddle, StartupTypeOK
  <2>2. profile = "managed" => sending["own"] = Idle
    BY <2>1 DEF Ready, Sending, CanEnter
  <2>3. Started' /\ \A p \in Procs : Sending(p)'
    BY <2>1, <2>2 DEF Ready, Started, Sending, CanEnter
  <2> QED
    BY <2>1, <2>3, ReadyStays
<1>7. ASSUME NEW p \in Procs, Adopt(p) PROVE Ready'
  <2>1. /\ UNCHANGED <<profile, early, captured, begun, wire, sending, failed, sigpipe>>
        /\ where[p] = "loaded" /\ profile = "managed" /\ where' = [where EXCEPT ![p] = "adopted"]
    BY <1>7 DEF Adopt, Goto
  <2>2. sending[p] = Idle
    BY <2>1 DEF Ready, Sending, CanEnter
  <2>3. Started' /\ \A q \in Procs : Sending(q)'
    BY <2>1, <2>2 DEF Ready, Started, Sending, CanEnter, Loaded, StartupTypeOK
  <2> QED
    BY <2>1, <2>3, ReadyStays
<1>8. ASSUME NEW p \in Procs, BeginEntry(p) PROVE Ready'
  <2> DEFINE body == [pid |-> p, sigpipe |-> sigpipe'[p],
                      standards |-> IF profile = "managed" THEN None ELSE Roles \cap DOMAIN fds]
  <2>1. /\ UNCHANGED <<profile, early, where, captured, begun, failed>>
        /\ Begin(p, "entered", body) /\ CanEnter(p)
        /\ sigpipe' = [sigpipe EXCEPT ![p] = IF profile = "managed" THEN captured.sigpipe ELSE @]
    BY <1>8 DEF BeginEntry
  <2>2. sigpipe' \in [Procs -> Actions]
    BY <2>1, TypeStep DEF StartupTypeOK
  <2>3. body \in Bodies
    BY <2>2 DEF Bodies, EntryBodies
  <2>4. sending'[p] = [kind |-> "entered", body |-> body]
    BY <2>1 DEF Begin, StartupTypeOK
  <2>5. Sending(p)'
    BY <2>1, <2>4, NoneAssumption DEF Sending, CanEnter
  <2>6. \A q \in Procs \ {p} : sigpipe'[q] = sigpipe[q]
    BY <2>1 DEF StartupTypeOK
  <2> HIDE DEF body
  <2> QED
    BY <2>1, <2>3, <2>5, <2>6, ReadyBegins
<1>9. ASSUME NEW p \in Procs, CompleteEntry(p) PROVE Ready'
  BY <1>9, ReadyEnters
<1>10. ASSUME NEW p \in Procs, EntryFails(p) PROVE Ready'
  <2>1. UNCHANGED <<profile, early, captured, begun>> /\ failed' /\ CanEnter(p)
    BY <1>10 DEF EntryFails
  <2>2. CASE Begin(p, "entryError", None) /\ Restoring(p) /\ UNCHANGED where
    <3>0. \A q \in Procs \ {p} : sigpipe'[q] = sigpipe[q]
      BY <2>2 DEF Restoring, StartupTypeOK
    <3>1. sending'[p] = [kind |-> "entryError", body |-> None]
      BY <2>2 DEF Begin, StartupTypeOK
    <3>2. Sending(p)'
      BY <2>1, <2>2, <3>1 DEF Sending, CanEnter
    <3> QED
      BY <2>1, <2>2, <3>0, <3>2, ReadyBegins DEF Bodies
  <2>3. CASE /\ sending[p] # Idle /\ sending[p].kind = "entryError"
             /\ Complete(p) /\ EntryOver(p)
             /\ UNCHANGED sigpipe
    <3>1. \E step \in {where[p], "exit", "dead"} : where' = [where EXCEPT ![p] = step]
      BY <2>3 DEF EntryOver, Goto, StartupTypeOK
    <3> QED
      BY <2>1, <2>3, <3>1, ReadyBreaksOff DEF Complete
  <2>4. CASE /\ sending[p] # Idle
             /\ sending' = [sending EXCEPT ![p] = Idle]
             /\ EntryOver(p)
             /\ UNCHANGED <<wire, sigpipe>>
    <3>1. \E step \in {where[p], "exit", "dead"} : where' = [where EXCEPT ![p] = step]
      BY <2>4 DEF EntryOver, Goto, StartupTypeOK
    <3> QED
      BY <2>1, <2>4, <3>1, ReadyBreaksOff
  <2> QED
    BY <1>10, <2>2, <2>3, <2>4 DEF EntryFails
<1>12. ASSUME NEW p \in Procs, EntryFailsUnsent(p) PROVE Ready'
  <2>1. /\ UNCHANGED <<profile, early, captured, begun, wire, sending, failed>>
        /\ CanEnter(p) /\ sending[p] = Idle /\ Restoring(p) /\ EntryOver(p)
    BY <1>12 DEF EntryFailsUnsent
  <2>2. \A q \in Procs \ {p} : sigpipe'[q] = sigpipe[q] /\ where'[q] = where[q]
    BY <2>1 DEF Restoring, EntryOver, Goto, StartupTypeOK
  <2>3. where'[p] \in {where[p], "exit"}
    BY <2>1 DEF EntryOver, Goto, StartupTypeOK
  <2>4. \A q \in Procs : Sending(q)'
    BY <2>1, <2>2 DEF Ready, Sending, CanEnter
  <2>5. Started'
    BY <2>2, <2>3 DEF Ready, Started, Loaded
  <2> QED
    BY <2>1, <2>4, <2>5, ReadyStays
<1>11. ASSUME NEW p \in Procs, End(p) PROVE Ready'
  <2>1. /\ UNCHANGED <<profile, early, captured, begun, sigpipe, wire>>
        /\ where' = [where EXCEPT ![p] = "dead"] /\ sending' = [sending EXCEPT ![p] = Idle]
        /\ failed' = (failed \/ sending[p] # Idle)
    BY <1>11 DEF End, Goto
  <2>2. CASE sending[p] # Idle
    <3>1. \E step \in {where[p], "exit", "dead"} : where' = [where EXCEPT ![p] = step]
      BY <2>1
    <3> QED
      BY <2>1, <2>2, <3>1, ReadyBreaksOff
  <2>3. CASE sending[p] = Idle
    <3>1. UNCHANGED <<sending, failed>>
      BY <2>1, <2>3 DEF StartupTypeOK
    <3>2. Started' /\ \A q \in Procs : Sending(q)'
      BY <2>1, <2>3, <3>1 DEF Ready, Started, Sending, CanEnter, StartupTypeOK
    <3> QED
      BY <2>1, <3>1, <3>2, ReadyStays
  <2> QED
    BY <2>2, <2>3
<1> QED
  BY <1>1, <1>2, <1>3, <1>4, <1>5, <1>6, <1>7, <1>8, <1>9, <1>10, <1>11, <1>12
  DEF StartupNext, LauncherStep, ProgramStep

\* Before that.
LEMMA UnreadyStep ==
  ASSUME StartupTypeOK, Table, Collection, Unready, StartupNext, errors' = {}
  PROVE  Unready' \/ Ready'
<1> USE DEF launcherVars, processVars, Procs
<1>1. CASE Setup \/ DropEnds \/ WriteControl \/ CollectAll \/ Report
  <2>1. UNCHANGED <<profile, processVars>>
    BY <1>1 DEF Setup, DropEnds, WriteControl, CollectAll, Report
  <2> QED
    BY <2>1 DEF Unready
<1>2. CASE SpawnChild
  <2>1. /\ where["own"] = "absent" /\ where'["own"] = "control" /\ where'["heir"] = where["heir"]
        /\ UNCHANGED <<sending, wire, begun, failed>>
    BY <1>2 DEF SpawnChild, Collection, StartupTypeOK
  <2> QED
    BY <2>1 DEF Unready, Loaded
<1>3. CASE CollectionFails
  BY <1>3 DEF CollectionFails
<1>4. CASE ReadControl \/ ReadEarly \/ Capture
  <2>1. /\ where["own"] \in {"control", "early", "capture"}
        /\ where'["own"] \in {"early", "capture", "ready", "failing", "exit"}
        /\ where'["heir"] = where["heir"]
        /\ UNCHANGED <<sending, wire, begun, failed>>
    BY <1>4 DEF ReadControl, ReadEarly, Capture, Goto, StartupTypeOK
  <2> QED
    BY <2>1 DEF Unready, Loaded, Idle
<1>5. CASE BeginReady
  <2> DEFINE body == Snapshot("own", captured, profile)
  <2>1. /\ where["own"] = "ready" /\ UNCHANGED <<profile, where, captured, begun, failed>>
        /\ sending["own"] = Idle /\ sending' = [sending EXCEPT !["own"] = [kind |-> "ready", body |-> body]]
        /\ wire' = Append(wire, Header("ready"))
    BY <1>5 DEF BeginReady, Begin
  <2>2. wire = <<>>
    BY <2>1 DEF Unready, Header, Idle
  <2>3. wire' = <<Header("ready")>>
    BY <2>1, <2>2
  <2>4. sending'["own"] = [kind |-> "ready", body |-> body] /\ sending'["heir"] = sending["heir"]
    BY <2>1 DEF StartupTypeOK
  <2>5. \A i \in DOMAIN wire' : wire'[i].kind # "entered"
    BY <2>3 DEF Header
  <2>6. body' = body
    BY <2>1
  <2> HIDE DEF body
  <2>7. sending'["own"] = [kind |-> "ready", body |-> body']
    BY <2>4, <2>6
  <2> QED
    BY <2>1, <2>3, <2>4, <2>5, <2>7 DEF Unready, body
<1>6. CASE CompleteReady
  <2> DEFINE body == Snapshot("own", captured, profile)
  <2>1. /\ where["own"] = "ready" /\ UNCHANGED <<profile, captured, begun, failed, early, sigpipe>>
        /\ where' = [where EXCEPT !["own"] = "loaded"]
        /\ sending["own"] # Idle /\ sending' = [sending EXCEPT !["own"] = Idle]
        /\ wire' = Append(wire, Payload(sending["own"].kind, sending["own"].body))
    BY <1>6 DEF CompleteReady, Complete, Goto
  <2>2. /\ wire = <<Header("ready")>> /\ sending["own"] = [kind |-> "ready", body |-> body]
        /\ ~failed /\ begun = <<>> /\ sending["heir"] = Idle /\ where["heir"] = "absent"
    BY <2>1 DEF Unready
  <2>3. Sent' = 2 /\ wire'[1] = Header("ready") /\ wire'[2] = Payload("ready", body)
    <3>1. Sent = 1 /\ wire[1] = Header("ready")
      BY <2>2 DEF Sent
    <3>2. sending["own"].kind = "ready" /\ sending["own"].body = body
      BY <2>2
    <3> HIDE DEF body
    <3>3. Payload("ready", body) \in Halves /\ wire' = Append(wire, Payload("ready", body))
      BY <2>1, <3>2 DEF Payload, Halves, StartupTypeOK, Idle, Events
    <3>4. Sent' = Sent + 1 /\ (\A i \in 1 .. Sent : wire'[i] = wire[i]) /\ wire'[Sent + 1] = Payload("ready", body)
      BY <3>3, AppendHalf DEF StartupTypeOK
    <3> QED
      BY <3>1, <3>4
  <2>4. /\ where'["own"] = "loaded" /\ where'["heir"] = "absent"
        /\ \A p \in Procs : sending'[p] = Idle
    BY <2>1, <2>2 DEF StartupTypeOK
  <2>5. early' = EarlyRecord' /\ captured' # None
    BY <2>1 DEF Table, EarlyRecord, Bootstrapping
  <2>6. body' = body
    BY <2>1
  <2> HIDE DEF body
  <2>7. Sent' = 2 /\ wire'[1] = Header("ready") /\ wire'[2] = Payload("ready", body')
    BY <2>3, <2>6
  <2>8. Told'
    BY <2>5, <2>7 DEF Told, body
  <2>9. Entries' = 0 /\ begun' = <<>> /\ ~failed'
    BY <2>1, <2>2 DEF Entries
  <2>10. EntriesCounted' /\ NothingAfter' /\ HalfAfter' /\ EventAfter'
    BY <2>4, <2>7, <2>9 DEF EntriesCounted, NothingAfter, HalfAfter, EventAfter, InFlight
  <2>11. Started' /\ \A p \in Procs : Sending(p)'
    BY <2>4 DEF Started, Sending, Loaded
  <2> QED
    BY <2>8, <2>10, <2>11 DEF Ready
<1>7. CASE InitializeFails
  <2>1. /\ where'["own"] \in {"failing", "exit"} /\ where'["heir"] = where["heir"]
        /\ sending'["own"] = Idle /\ sending'["heir"] = sending["heir"]
        /\ UNCHANGED <<wire, begun>>
    BY <1>7 DEF InitializeFails, Goto, StartupTypeOK
  <2> QED
    BY <2>1 DEF Unready, Loaded, Idle
<1>8. CASE Fail
  <2>1. where["own"] = "failing" /\ begun' = begun
    BY <1>8 DEF Fail
  <2>2. CASE Begin("own", "bootstrapError", None) /\ UNCHANGED where
    <3>1. /\ sending'["own"].kind = "bootstrapError" /\ sending'["heir"] = sending["heir"]
          /\ \A i \in DOMAIN wire' : wire'[i].kind # "entered"
      BY <2>2, AppendedKind DEF Begin, StartupTypeOK, Header, Halves, Events, Unready
    <3> QED
      BY <2>1, <2>2, <3>1 DEF Unready
  <2>3. CASE Complete("own") /\ Goto("own", "exit")
    <3>1. sending["own"].kind = "bootstrapError"
      BY <2>1, <2>3 DEF Unready, Complete, Idle, StartupTypeOK, Events
    <3>2. Payload(sending["own"].kind, sending["own"].body) \in Halves
      BY <2>3 DEF Complete, Payload, Halves, StartupTypeOK, Events, Idle
    <3>3. /\ sending'["own"] = Idle /\ sending'["heir"] = sending["heir"]
          /\ where'["own"] = "exit" /\ where'["heir"] = where["heir"]
          /\ \A i \in DOMAIN wire' : wire'[i].kind # "entered"
      BY <2>3, <3>1, <3>2, AppendedKind DEF Complete, Goto, StartupTypeOK, Payload, Unready
    <3> QED
      BY <2>1, <3>3 DEF Unready, Loaded
  <2> QED
    BY <1>8, <2>2, <2>3 DEF Fail
<1>9. CASE Fork \/ Meddle
  BY <1>9 DEF Fork, Meddle, Unready, Loaded
<1>10. ASSUME NEW p \in Procs,
              Adopt(p) \/ BeginEntry(p) \/ CompleteEntry(p) \/ EntryFails(p) \/ EntryFailsUnsent(p)
       PROVE  FALSE
  BY <1>10 DEF Adopt, BeginEntry, CompleteEntry, EntryFails, EntryFailsUnsent, CanEnter, Unready, Loaded
<1>11. ASSUME NEW p \in Procs, End(p) PROVE Unready'
  <2>1. p = "own"
    BY <1>11 DEF End, Present, Unready
  <2>2. /\ where'["own"] = "dead" /\ where'["heir"] = where["heir"]
        /\ sending'["own"] = Idle /\ sending'["heir"] = sending["heir"]
        /\ UNCHANGED <<wire, begun>>
    BY <1>11, <2>1 DEF End, Goto, StartupTypeOK
  <2> QED
    BY <2>2 DEF Unready, Loaded
<1> QED
  BY <1>1, <1>2, <1>3, <1>4, <1>5, <1>6, <1>7, <1>8, <1>9, <1>10, <1>11
  DEF StartupNext, LauncherStep, LibraryStep, ProgramStep

\* The two phases of a startup, as long as the launcher saw no error.
LEMMA LifecycleStep ==
  ASSUME StartupTypeOK, Table, Collection, Lifecycle, StartupNext
  PROVE  Lifecycle'
<1> SUFFICES ASSUME errors' = {} PROVE Unready' \/ Ready'
  BY DEF Lifecycle
<1>1. errors = {}
  BY DEF StartupNext, LauncherStep, LibraryStep, ProgramStep, Setup, SpawnChild, DropEnds, WriteControl,
    CollectAll, Report, CollectionFails, ReadControl, ReadEarly, Capture, BeginReady, CompleteReady,
    InitializeFails, Fail, Fork, Meddle, Adopt, BeginEntry, CompleteEntry, EntryFails,
      EntryFailsUnsent, EntryOver, End,
    launcherVars, Collection
<1> QED
  BY <1>1, UnreadyStep, ReadyStep DEF Lifecycle

\* The invariant of the startup.
THEOREM StartupInvariant == StartupSpec => []StartupInv
<1>1. StartupInit => StartupInv
  BY InitStartupInv
<1>2. StartupInv /\ [StartupNext]_startupVars => StartupInv'
  <2> SUFFICES ASSUME StartupInv, [StartupNext]_startupVars PROVE StartupInv'
    OBVIOUS
  <2>1. CASE StartupNext
    BY <2>1, TypeStep, TableStep, CapturedStep, CollectionStep, LifecycleStep DEF StartupInv
  <2>2. CASE UNCHANGED startupVars
    <3> USE <2>2 DEF startupVars, launcherVars, processVars, StartupInv
    <3>1. StartupTypeOK'
      BY DEF StartupTypeOK, ControlRecord, EarlyRecord
    <3>2. Table'
      BY DEF Table, EarlyRecord, Kept, Object
    <3>3. CapturedRoles' /\ Collection'
      BY DEF CapturedRoles, Collection, EarlyRecord, Present
    <3>4. Unready => Unready'
      BY DEF Unready
    <3>5. Ready => Ready'
      BY ReadyStays DEF Ready, Started, Sending, CanEnter
    <3> QED
      BY <3>1, <3>2, <3>3, <3>4, <3>5 DEF Lifecycle
  <2> QED
    BY <2>1, <2>2
<1> QED
  BY <1>1, <1>2, PTL DEF StartupSpec

-----------------------------------------------------------------------------
\* What the utility gets is what the launcher gave: the clauses about the table are
\* about every step from the exec on, not only about the utility's.
THEOREM StreamsAreTheLaunchersHolds == StartupSpec => []StreamsAreTheLaunchers
<1>1. StartupInv => StreamsAreTheLaunchers
  <2> SUFFICES ASSUME StartupInv, where["own"] \in Loaded
               PROVE  StreamsAreTheLaunchers
    BY DEF StreamsAreTheLaunchers, Loaded
  <2>1. /\ captured # None /\ profile \in Profiles
        /\ Kept \subseteq DOMAIN fds /\ DOMAIN fds \subseteq Roles \cup Kept \cup {14}
        /\ \A f \in DOMAIN fds \ Roles : fds[f].cloexec
        /\ \A f \in DOMAIN fds : fds[f].object = Object(f)
    BY DEF StartupInv, StartupTypeOK, Table
  <2>2. ASSUME NEW r \in Roles, captured.standards[r].errno = 0, profile = "managed" \/ r \in DOMAIN fds
        PROVE  fds[captured.standards[r].fd].object = Standard[r]
    <3>1. captured.standards[r].fd = IF profile = "managed" THEN r + 3 ELSE r
      BY <2>1, <2>2, EarlyFd DEF StartupInv, CapturedRoles, EBADF
    <3> QED
      BY <2>1, <2>2, <3>1 DEF Object, Kept, Slots, Roles
  <2>3. ASSUME profile = "managed", NEW r \in Roles \cap DOMAIN fds
        PROVE  fds[r].object = Private[RuntimeFd[r]]
    BY <2>1, <2>3 DEF Object
  <2>4. ASSUME NEW f \in DOMAIN fds, f > 2
        PROVE  fds[f].cloexec /\ (fds[f].object = "observerW" \/ f \in Slots)
    <3>1. f \notin Roles /\ (f \in Slots \/ f = 14)
      BY <2>1, <2>4 DEF Roles, Kept
    <3>2. Private[14] = "observerW"
      BY DEF Private
    <3> QED
      BY <2>1, <3>1, <3>2 DEF Object, Slots
  <2> QED
    BY <2>2, <2>3, <2>4 DEF StreamsAreTheLaunchers
<1> QED
  BY <1>1, StartupInvariant, PTL

\* The library's snapshot passes the launcher's checks of it.
LEMMA SnapshotIsValid ==
  ASSUME StartupTypeOK, CapturedRoles, captured # None
  PROVE  ValidSnapshot(Snapshot("own", captured, profile), profile)
<1> DEFINE body == Snapshot("own", captured, profile)
<1>1. captured \in CapturedRecords /\ profile \in Profiles
  BY DEF StartupTypeOK
<1>2. ASSUME NEW r \in Roles
      PROVE  LET standard == captured.standards[r] IN
             \/ /\ standard.fd = (IF profile = "managed" THEN r + 3 ELSE r)
                /\ standard.errno = 0 /\ standard.statErrno \in {0, EIO}
             \/ /\ profile = "reference" /\ standard.fd = -1
                /\ standard.errno = EBADF /\ standard.statErrno = EBADF
  BY <1>1, EarlyFd DEF CapturedRoles
<1>3. \A r \in Roles : body.standards[r] = Serialize(captured.standards[r], r, profile)
  BY DEF Snapshot
<1>4. \A r \in Roles : captured.standards[r].state = "inherited"
  BY <1>1 DEF CapturedRecords, Standards
<1>5. ASSUME NEW r \in Roles PROVE ValidStandard(body.standards[r], r, profile)
  <2>1. ValidStandard(Serialize(captured.standards[r], r, profile), r, profile)
    <3> DEFINE s == captured.standards[r]
    <3>1. s.state = "inherited" /\ r \in Roles /\ (profile = "managed" \/ profile = "reference")
      BY <1>1, <1>4 DEF Profiles
    <3> DEFINE t == Serialize(s, r, profile)
    <3>4. /\ t.role = r /\ t.fd = s.fd /\ t.errno = s.errno /\ t.statErrno = s.statErrno
          /\ t.state = s.state /\ t.binding = profile
          /\ t.available \in BOOLEAN /\ (t.available <=> s.errno = 0)
          /\ t.stat \in BOOLEAN /\ (t.stat <=> s.statErrno = 0)
      BY DEF Serialize
    <3> SUFFICES ValidStandard(t, r, profile)
      OBVIOUS
    <3> HIDE DEF t
    <3>2. CASE s.fd = (IF profile = "managed" THEN r + 3 ELSE r) /\ s.errno = 0 /\ s.statErrno \in {0, EIO}
      <4> HIDE DEF s
      <4> QED
        BY <3>1, <3>2, <3>4 DEF ValidStandard, Roles, EIO
    <3>3. CASE profile = "reference" /\ s.fd = -1 /\ s.errno = EBADF /\ s.statErrno = EBADF
      <4> HIDE DEF s
      <4> QED
        BY <3>1, <3>3, <3>4 DEF ValidStandard, EBADF
    <3> QED
      BY <1>2, <3>2, <3>3
  <2> QED
    BY <1>3, <2>1
<1>6. ASSUME profile = "managed", NEW r \in Roles, NEW s \in Roles, r # s
      PROVE  body.standards[r].fd # body.standards[s].fd
  <2>1. captured.standards[r].fd = r + 3 /\ captured.standards[s].fd = s + 3
    BY <1>2, <1>6
  <2> QED
    BY <1>3, <1>6, <2>1 DEF Serialize, Roles
<1>7. ValidLimit(body.limit)
  <2>1. captured.limit \in Limits
    BY <1>1 DEF CapturedRecords
  <2> QED
    BY <2>1 DEF Snapshot, ValidLimit, EIO, Limits
<1> QED
  BY <1>5, <1>6, <1>7 DEF ValidSnapshot

\* The bytes of two whole events.
LEMMA EventsSent ==
  ASSUME wire \in Seq(Halves)
  PROVE  /\ Len(EventsOf(wire)) = Sent \div 2 /\ Sent \in Nat
         /\ \A i \in 1 .. Sent \div 2 : EventsOf(wire)[i] = wire[2 * i]
         /\ Decodes(wire, profile) <=>
              /\ Sent % 2 = 0
              /\ \A i \in 1 .. Sent \div 2 :
                   /\ wire[2 * i - 1].part = "head" /\ wire[2 * i].part = "tail"
                   /\ wire[2 * i - 1].kind = wire[2 * i].kind
                   /\ ValidPayload(wire[2 * i], profile)
  BY DEF EventsOf, Decodes, Sent

\* The launcher's verdict and what happened agree.
THEOREM CompleteIsOneEntryHolds == StartupSpec => []CompleteIsOneEntry
<1>1. StartupInv => CompleteIsOneEntry
  <2> SUFFICES ASSUME StartupInv, report # None
               PROVE  report.complete <=>
                        /\ errors = {} /\ ~failed
                        /\ captured # None
                        /\ Entries = 1
                        /\ begun[1].by = "own"
                        /\ profile = "managed" => captured.sigpipe = requested /\ begun[1].sigpipe = requested
    BY DEF CompleteIsOneEntry, Entries
  <2>1. report.complete <=> /\ errors = {}
                            /\ Decodes(got, profile)
                            /\ early # None
                            /\ ValidLifecycle(EventsOf(got), "own", requested, profile)
    BY DEF StartupInv, Collection
  <2> SUFFICES ASSUME errors = {}
               PROVE  /\ Decodes(wire, profile) /\ early # None
                      /\ ValidLifecycle(EventsOf(wire), "own", requested, profile)
                      <=>
                      /\ ~failed /\ captured # None /\ Entries = 1
                      /\ begun[1].by = "own"
                      /\ profile = "managed" => captured.sigpipe = requested /\ begun[1].sigpipe = requested
    BY <2>1 DEF StartupInv, Collection
  <2>2. /\ \A p \in Procs : ~Present(p)
        /\ wire \in Seq(Halves) /\ profile \in Profiles
    BY DEF StartupInv, Collection, StartupTypeOK
  <2>3. ASSUME Len(EventsOf(wire)) = 2, Decodes(wire, profile)
        PROVE  /\ Sent = 4 /\ EventsOf(wire)[1] = wire[2] /\ EventsOf(wire)[2] = wire[4]
               /\ wire[4].part = "tail" /\ 4 \in DOMAIN wire
    <3>1. Sent % 2 = 0 /\ Sent \div 2 = 2 /\ Sent \in Nat
      BY <2>2, <2>3, EventsSent
    <3>2. Sent = 4
      BY <3>1
    <3>3. /\ \A i \in 1 .. 2 : EventsOf(wire)[i] = wire[2 * i]
          /\ \A i \in 1 .. 2 : wire[2 * i].part = "tail"
      BY <2>2, <2>3, <3>1, EventsSent
    <3>4. 4 \in DOMAIN wire
      BY <2>2, <3>2 DEF Sent
    <3>5. EventsOf(wire)[1] = wire[2 * 1] /\ EventsOf(wire)[2] = wire[2 * 2] /\ wire[2 * 2].part = "tail"
      BY <3>3
    <3> QED
      BY <3>2, <3>4, <3>5
  <2>4. CASE Unready
    <3>1. ~ (Decodes(wire, profile) /\ ValidLifecycle(EventsOf(wire), "own", requested, profile))
      BY <2>3, <2>4 DEF Unready, ValidLifecycle
    <3>2. Entries = 0
      BY <2>4 DEF Unready, Entries
    <3> QED
      BY <3>1, <3>2
  <2>5. CASE Ready
    <3>1. \A p \in Procs : sending[p] = Idle
      BY <2>2, <2>5 DEF Ready, Sending, CanEnter, Present
    <3>2. Told /\ EventAfter /\ EntriesCounted /\ early # None /\ captured # None
      BY <2>2, <2>5, EarlyFd DEF Ready, Told
    <3>3. ASSUME Decodes(wire, profile), ValidLifecycle(EventsOf(wire), "own", requested, profile)
          PROVE  Entered /\ Sent = 4
      <4>1. Sent = 4 /\ wire[4].kind = "entered" /\ wire[4].part = "tail"
        BY <2>3, <3>3 DEF ValidLifecycle
      <4> QED
        BY <3>2, <4>1 DEF EventAfter
    <3>4. ASSUME ~failed, Entries = 1
          PROVE  Entered /\ Sent = 4
      <4>1. InFlight("own") = 0 /\ InFlight("heir") = 0
        BY <3>1 DEF InFlight, Procs
      <4>2. Sent = 4
        BY <3>2, <3>4, <4>1 DEF EntriesCounted
      <4>3. begun # <<>>
        BY <3>4 DEF Entries
      <4> QED
        BY <3>2, <3>4, <4>2, <4>3 DEF EventAfter
    <3>5. ASSUME Entered, Sent = 4
          PROVE  /\ Decodes(wire, profile)
                 /\ ValidLifecycle(EventsOf(wire), "own", requested, profile)
                    <=> /\ begun[1].by = "own"
                        /\ profile = "managed" =>
                             captured.sigpipe = requested /\ begun[1].sigpipe = requested
      <4> DEFINE body == Snapshot("own", captured, profile)
      <4>1. /\ wire[1] = Header("ready") /\ wire[2] = Payload("ready", body)
            /\ wire[3] = Header("entered") /\ wire[4].part = "tail" /\ wire[4].kind = "entered"
        BY <3>2, <3>5 DEF Told, Entered
      <4>2. ValidSnapshot(body, profile)
        BY <3>2, SnapshotIsValid DEF StartupInv
      <4>3. body.pid = "own" /\ body.sigpipe = captured.sigpipe
        BY DEF Snapshot
      <4> HIDE DEF body
      <4>4. /\ wire[1].part = "head" /\ wire[2].part = "tail" /\ wire[3].part = "head"
            /\ wire[1].kind = "ready" /\ wire[2].kind = "ready" /\ wire[3].kind = "entered"
            /\ wire[2].body = body
        BY <4>1 DEF Header, Payload
      <4>5. Decodes(wire, profile)
        <5>1. Sent % 2 = 0 /\ Sent \div 2 = 2
          BY <3>5
        <5>2. ASSUME NEW i \in 1 .. 2
              PROVE  /\ wire[2 * i - 1].part = "head" /\ wire[2 * i].part = "tail"
                     /\ wire[2 * i - 1].kind = wire[2 * i].kind
                     /\ ValidPayload(wire[2 * i], profile)
          <6>1. CASE i = 1
            BY <4>2, <4>4, <6>1 DEF ValidPayload
          <6>2. CASE i = 2
            BY <4>1, <4>4, <6>2 DEF ValidPayload
          <6> QED
            BY <6>1, <6>2
        <5> QED
          BY <2>2, <5>1, <5>2, EventsSent
      <4>6. Len(EventsOf(wire)) = 2 /\ EventsOf(wire)[1] = wire[2] /\ EventsOf(wire)[2] = wire[4]
        <5>1. Sent \div 2 = 2
          BY <3>5
        <5>2. Len(EventsOf(wire)) = 2 /\ EventsOf(wire)[1] = wire[2 * 1] /\ EventsOf(wire)[2] = wire[2 * 2]
          BY <2>2, <5>1, EventsSent
        <5> QED
          BY <5>2
      <4> QED
        BY <3>5, <4>1, <4>3, <4>4, <4>5, <4>6 DEF ValidLifecycle, Entered
    <3> QED
      BY <3>2, <3>3, <3>4, <3>5 DEF Entered
  <2> QED
    BY <2>4, <2>5 DEF StartupInv, Lifecycle
<1> QED
  BY <1>1, StartupInvariant, PTL

=============================================================================
