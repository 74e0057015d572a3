------------------------ MODULE ContainerExecutorProofs ------------------------
(***************************************************************************)
(* The container of a campaign, for every number of requests, limit and    *)
(* slack: no directory has two runners, only the fuzzer's own slowness     *)
(* reaches the deadline, and a fuzzer that ends leaves no container.       *)
(***************************************************************************)
EXTENDS ContainerExecutor, TLAPS

LEMMA InitIInv == Init => IInv
<1> SUFFICES ASSUME Init PROVE IInv OBVIOUS
<1>1. shared \in BOOLEAN /\ (shared => driver = "campaign") BY DEF Init
<1>2. TypeOK
  <2>1. ran \in [Cases -> [Programs -> 0 .. Timeout]]
    BY TimeoutAssumption DEF Init
  <2>2. runner \in [Cases -> {"absent"} \cup Live \cup Over] BY DEF Init
  <2>3. request \in 0 .. Requests /\ own \in Nat BY RequestsAssumption DEF Init
  <2>4. known \in BOOLEAN BY DEF Init
  <2>5. /\ driver \in {"campaign", "regression"}
        /\ host \in {"create", "learn", "stage", "ready", "waiting", "dropping", "done", "killed"}
        /\ container \in {"none", "up", "stuck", "removed"}
    BY DEF Init
  <2>6. QED BY <1>1, <2>1, <2>2, <2>3, <2>4, <2>5 DEF TypeOK
<1>3. IRunners BY <1>1 DEF Init, IRunners, Live, Preparing, Programs
<1>4. IContainer /\ NoContainerLeft BY DEF Init, IContainer, NoContainerLeft
<1>5. QED BY <1>2, <1>3, <1>4 DEF IInv

LEMMA LearnIdKnows ==
  ASSUME IInv, LearnId
  PROVE  /\ host = "learn" /\ host' \in {"stage", "done"} /\ known' \in BOOLEAN
         /\ host' = "stage" => known'
         /\ host' = "done" => ~ known'
<1>1. host = "learn" BY DEF LearnId
<1>2. ~ known BY <1>1 DEF IInv, IContainer
<1>3. CASE host' = "stage" /\ known' = TRUE BY <1>1, <1>3
<1>4. CASE host' = "done" /\ UNCHANGED known
  <2>1. known' = FALSE BY <1>2, <1>4 DEF IInv, TypeOK
  <2>2. QED BY <1>1, <1>4, <2>1
<1>5. QED BY <1>3, <1>4 DEF LearnId

\* The host's steps that leave the runners alone.
LEMMA HostIInv ==
  ASSUME IInv,
         ComposeRun \/ LearnId \/ Stage \/ Receive \/ GiveUp \/ ClientFails \/ Finish \/ HostDies
  PROVE  IInv'
<1> USE RequestsAssumption, TimeoutAssumption
    DEF IInv, TypeOK, IRunners, IContainer, NoContainerLeft, Cases, Programs, Live, Preparing, Over
<1>1. CASE ComposeRun
  <2>1. host = "create" /\ host' \in {"learn", "done"} /\ container' \in {"none", "up"} BY <1>1 DEF ComposeRun
  <2>2. UNCHANGED <<driver, shared, known, request, runner, ran, own>> BY <1>1 DEF ComposeRun
  <2>3. TypeOK' BY <2>1, <2>2
  <2>4. IRunners' BY <2>1, <2>2
  <2>5. IContainer' /\ NoContainerLeft' BY <2>1, <2>2
  <2>6. QED BY <2>3, <2>4, <2>5
<1>2. CASE LearnId
  <2>1. /\ host = "learn" /\ host' \in {"stage", "done"} /\ known' \in BOOLEAN
        /\ host' = "stage" => known'
        /\ host' = "done" => ~ known'
    BY <1>2, LearnIdKnows
  <2>2. UNCHANGED <<driver, shared, request, container, runner, ran, own>> BY <1>2 DEF LearnId
  <2>3. TypeOK' BY <2>1, <2>2
  <2>4. IRunners' BY <2>1, <2>2
  <2>5. IContainer' /\ NoContainerLeft' BY <2>1, <2>2
  <2>6. QED BY <2>3, <2>4, <2>5
<1>3. CASE Stage \/ Receive \/ GiveUp \/ ClientFails \/ Finish \/ HostDies
  <2>1. UNCHANGED <<driver, shared, known, request, container, runner, ran, own>>
    BY <1>3 DEF Stage, Receive, GiveUp, ClientFails, Finish, HostDies
  <2>2. \/ host' = "killed"
        \/ host' \in {"ready", "dropping"} /\ host \in {"stage", "ready", "waiting"}
    BY <1>3 DEF Stage, Receive, GiveUp, ClientFails, Finish, HostDies, After
  <2>3. host' = "ready" =>
          driver = "regression" \/ request = 0 \/ runner[request] \in Over
    BY <1>3 DEF Stage, Receive, GiveUp, ClientFails, Finish, HostDies, After
  <2>4. TypeOK' BY <2>1, <2>2
  <2>5. IRunners' BY <2>1, <2>2, <2>3
  <2>6. IContainer' /\ NoContainerLeft' BY <2>1, <2>2
  <2>7. QED BY <2>4, <2>5, <2>6
<1>4. QED BY <1>1, <1>2, <1>3

LEMMA SendIInv == ASSUME IInv, SendRequest PROVE IInv'
<1> USE RequestsAssumption, TimeoutAssumption
    DEF IInv, TypeOK, IRunners, IContainer, NoContainerLeft, Cases, Programs, Live, Preparing, Over
<1>1. request' = request + 1 /\ request' \in Cases /\ host' = "waiting" BY DEF SendRequest
<1>2. UNCHANGED <<driver, shared, known, container, ran>> /\ own' = 0 BY DEF SendRequest
<1>3. runner' \in [Cases -> {"absent"} \cup Live \cup Over] BY <1>1 DEF SendRequest
<1>4. TypeOK' BY <1>1, <1>2, <1>3
<1>5. \A i \in Cases : i # request' => runner'[i] = runner[i] BY DEF SendRequest
<1>6. IRunners' BY <1>1, <1>4, <1>5, <1>2 DEF SendRequest
<1>7. IContainer' /\ NoContainerLeft' BY <1>1, <1>2 DEF SendRequest
<1>8. QED BY <1>4, <1>6, <1>7

LEMMA DropIInv == ASSUME IInv, Drop PROVE IInv'
<1> USE RequestsAssumption, TimeoutAssumption
    DEF IInv, TypeOK, IRunners, IContainer, NoContainerLeft, Cases, Programs, Live, Preparing, Over
<1>1. CASE container' = "removed" /\ runner' = KillRunners
  <2>1. runner' \in [Cases -> {"absent"} \cup Live \cup Over] BY <1>1 DEF KillRunners
  <2>2. \A i \in Cases : runner'[i] \notin Live /\ (runner[i] = "absent" => runner'[i] = "absent")
    BY <1>1 DEF KillRunners
  <2>3. QED BY <1>1, <2>1, <2>2 DEF Drop
<1>2. CASE container' = "stuck" /\ UNCHANGED runner BY <1>2 DEF Drop
<1>3. QED BY <1>1, <1>2 DEF Drop

\* A runner's step: it was live before, so it is the latest request's in a
\* campaign, and its executor is not done with a removed container.
LEMMA RunnerIInv ==
  ASSUME IInv, NEW i \in Cases, Advance(i) \/ Fail(i) \/ ProgramTimesOut(i)
  PROVE  IInv'
<1> USE RequestsAssumption, TimeoutAssumption
    DEF IInv, TypeOK, IRunners, IContainer, NoContainerLeft, Cases, Programs, Live, Preparing, Over
<1>1. PICK step \in Live \cup Over : runner' = [runner EXCEPT ![i] = step]
  BY DEF Advance, Fail, ProgramTimesOut, Following
<1>2. runner[i] \in Live /\ UNCHANGED <<hostVars, container, ran, own>>
  BY DEF Advance, Fail, ProgramTimesOut
<1>3. TypeOK' BY <1>1, <1>2 DEF hostVars
<1>4. \A j \in Cases : runner'[j] = runner[j] \/ (j = i /\ runner[j] \in Live) BY <1>1, <1>2
<1>5. IRunners' BY <1>2, <1>3, <1>4 DEF hostVars
<1>6. IContainer' /\ NoContainerLeft' BY <1>2, <1>4 DEF hostVars
<1>7. QED BY <1>3, <1>5, <1>6

LEMMA TickIInv == ASSUME IInv, Tick PROVE IInv'
<1> USE RequestsAssumption, TimeoutAssumption
    DEF IInv, TypeOK, IRunners, IContainer, NoContainerLeft, Cases, Live, Preparing, Over
<1>1. \A i \in Cases, p \in Programs : ran'[i][p] = ran[i][p] + (IF runner[i] = p THEN 1 ELSE 0)
  BY DEF Tick
<1>2. ran' \in [Cases -> [Programs -> 0 .. Timeout]] BY DEF Tick
<1>3. TypeOK' BY <1>2 DEF Tick, hostVars
<1>4. \A i \in Cases : i > request => ran'[i] = [p \in Programs |-> 0]
  BY DEF Tick, Programs
<1>5. IRunners' BY <1>4 DEF Tick, hostVars
<1>6. QED BY <1>3, <1>5 DEF Tick, hostVars

LEMMA NextIInv == IInv /\ [Next]_vars => IInv'
<1> SUFFICES ASSUME IInv, [Next]_vars PROVE IInv' OBVIOUS
<1>1. CASE UNCHANGED vars
  BY <1>1 DEF vars, hostVars, IInv, TypeOK, IRunners, IContainer, NoContainerLeft
<1>2. CASE Next BY <1>2, HostIInv, SendIInv, DropIInv, RunnerIInv, TickIInv DEF Next
<1>3. QED BY <1>1, <1>2

\* The inductive invariant holds of every reachable state, for every number
\* of requests, process limit and slack.
THEOREM InductiveInvariant == Spec => []IInv
BY InitIInv, NextIInv, PTL DEF Spec

\* No directory is ever worked in by two runners: in a campaign only the
\* latest request has one, and a regression suite shares no directory
\* (fuzz/container.rs:377, fuzz/regression.rs:80).
THEOREM TreesAreNotShared == Spec => []OneRunnerPerTree
<1>1. IInv => OneRunnerPerTree
  BY DEF IInv, IRunners, TypeOK, OneRunnerPerTree, Tree
<1>2. QED BY <1>1, InductiveInvariant, PTL

\* The deadline of a request leaves both programs their full limit
\* (fuzz/container.rs:384).
THEOREM DeadlineIsEnough == Spec => []SlowOnItsOwn
<1>1. IInv => SlowOnItsOwn
  <2> SUFFICES ASSUME IInv, host = "waiting", Waited >= Deadline PROVE own >= Slack
    BY DEF SlowOnItsOwn
  <2>1. request \in Cases /\ own \in Nat BY DEF IInv, TypeOK, IContainer
  <2>2. ran[request]["reference"] \in 0 .. Timeout /\ ran[request]["dut"] \in 0 .. Timeout
    BY <2>1 DEF IInv, TypeOK, Programs
  <2>3. QED BY <2>1, <2>2, TimeoutAssumption DEF Waited, Deadline
<1>2. QED BY <1>1, InductiveInvariant, PTL

\* A fuzzer that ends by itself removes the container it knows of
\* (fuzz/container.rs:421).
THEOREM ContainerIsRemoved == Spec => []NoContainerLeft
BY InductiveInvariant, PTL DEF IInv
=============================================================================
