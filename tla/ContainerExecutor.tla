---------------------------- MODULE ContainerExecutor ----------------------------
(***************************************************************************)
(* DockerCaseExecutor of fuzz/container.rs: one container per campaign,    *)
(* one `docker exec` of the case runner per request, a deadline on the     *)
(* request, and the removal of the container when the executor is dropped. *)
(*                                                                         *)
(* The runner inside the container is a process of its own: giving up a    *)
(* request kills the docker client, not the runner.                        *)
(***************************************************************************)
EXTENDS Naturals

CONSTANTS
  Requests,   \* how many cases are executed at most, candidates of the reducer included
  Timeout,    \* --process-timeout-seconds
  Slack       \* the time a request has besides its two programs' limits

ASSUME RequestsAssumption == Requests \in Nat
ASSUME TimeoutAssumption == Timeout \in Nat /\ Slack \in Nat

VARIABLES
  driver,     \* what runs the cases
  shared,     \* --workdir-mode shared
  host,       \* where the fuzzer is
  known,      \* does the fuzzer hold the container's id?
  container,  \* the container; "stuck" if its removal failed
  request,    \* the latest request
  runner,     \* where the runner of each request is, or how it ended
  ran,        \* how long each program of each request has run
  own         \* time of the latest request spent outside the two programs

hostVars == <<driver, shared, host, known, request>>
vars == <<hostVars, container, runner, ran, own>>

Cases == 1 .. Requests
Programs == {"reference", "dut"}
Preparing == {"prepareReference", "prepareDut", "reply"}
Live == Preparing \cup Programs
Over == {"observed", "timeout", "error", "killed"}

TypeOK ==
  /\ driver \in {"campaign", "regression"}
  /\ shared \in BOOLEAN
  /\ host \in {"create", "learn", "stage", "ready", "waiting", "dropping", "done", "killed"}
  /\ known \in BOOLEAN
  /\ container \in {"none", "up", "stuck", "removed"}
  /\ request \in 0 .. Requests
  /\ runner \in [Cases -> {"absent"} \cup Live \cup Over]
  /\ ran \in [Cases -> [Programs -> 0 .. Timeout]]
  /\ own \in Nat

\* Regression suites always give each case a directory of its own.
Init ==
  /\ driver \in {"campaign", "regression"}
  /\ shared \in (IF driver = "regression" THEN {FALSE} ELSE BOOLEAN)
  /\ host = "create"
  /\ known = FALSE
  /\ container = "none"
  /\ request = 0
  /\ runner = [i \in Cases |-> "absent"]
  /\ ran = [i \in Cases |-> [p \in Programs |-> 0]]
  /\ own = 0

-----------------------------------------------------------------------------
(* Creating the executor.                                                  *)

\* A `docker compose run` that fails may have made the container already.
ComposeRun ==
  /\ host = "create"
  /\ \/ container' = "up" /\ host' = "learn"
     \/ container' \in {"none", "up"} /\ host' = "done"
  /\ UNCHANGED <<driver, shared, known, request, runner, ran, own>>

\* There is an executor to drop only once the id is known.
LearnId ==
  /\ host = "learn"
  /\ \/ host' = "stage" /\ known' = TRUE
     \/ host' = "done" /\ UNCHANGED known
  /\ UNCHANGED <<driver, shared, request, container, runner, ran, own>>

\* Staging, had it been done before there was something to drop.
StageUnowned ==
  /\ host = "stage"
  /\ host' \in {"ready", "done"}
  /\ UNCHANGED <<driver, shared, known, request, container, runner, ran, own>>

\* Copying the runner and the targets in, inspecting, asking for --help.
Stage ==
  /\ host = "stage"
  /\ host' \in {"ready", "dropping"}
  /\ UNCHANGED <<driver, shared, known, request, container, runner, ran, own>>

-----------------------------------------------------------------------------
(* Requests.                                                               *)

\* The deadline, had it been meant for one program.
OneTimeout == Timeout + Slack

Deadline == 2 * Timeout + Slack

Waited == own + ran[request]["reference"] + ran[request]["dut"]

SendRequest ==
  /\ host = "ready"
  /\ request < Requests
  /\ request' = request + 1
  /\ own' = 0
  /\ \/ runner' = [runner EXCEPT ![request'] = "prepareReference"]
     \/ UNCHANGED runner
  /\ host' = "waiting"
  /\ UNCHANGED <<driver, shared, known, container, ran>>

\* After an error, had a campaign gone on like a regression suite.
AlwaysReady(ok) == "ready"

\* A campaign, a reduction and a replay end with their first error; a
\* regression suite goes on with its next case.
After(ok) == IF ok \/ driver = "regression" THEN "ready" ELSE "dropping"

Receive ==
  /\ host = "waiting"
  /\ runner[request] \in Over
  /\ host' = After(runner[request] = "observed")
  /\ UNCHANGED <<driver, shared, known, request, container, runner, ran, own>>

\* The docker client is killed at the deadline; its runner is not.
GiveUp ==
  /\ host = "waiting"
  /\ Waited >= Deadline
  /\ host' = After(FALSE)
  /\ UNCHANGED <<driver, shared, known, request, container, runner, ran, own>>

\* The docker client fails on its own.
ClientFails ==
  /\ host = "waiting"
  /\ host' = After(FALSE)
  /\ UNCHANGED <<driver, shared, known, request, container, runner, ran, own>>

\* The last case was run, or the campaign has found what it wanted.
Finish ==
  /\ host = "ready"
  /\ host' = "dropping"
  /\ UNCHANGED <<driver, shared, known, request, container, runner, ran, own>>

KillRunners == [i \in Cases |-> IF runner[i] \in Live THEN "killed" ELSE runner[i]]

\* docker rm --force; that it may fail is ignored.
Drop ==
  /\ host = "dropping"
  /\ \/ container' = "removed" /\ runner' = KillRunners
     \/ container' = "stuck" /\ UNCHANGED runner
  /\ host' = "done"
  /\ UNCHANGED <<driver, shared, known, request, ran, own>>

HostDies ==
  /\ host \notin {"done", "killed"}
  /\ host' = "killed"
  /\ UNCHANGED <<driver, shared, known, request, container, runner, ran, own>>

-----------------------------------------------------------------------------
(* A runner.                                                               *)

Following(step) ==
  IF step = "prepareReference" THEN "reference"
  ELSE IF step = "reference" THEN "prepareDut"
  ELSE IF step = "prepareDut" THEN "dut"
  ELSE IF step = "dut" THEN "reply" ELSE "observed"

Advance(i) ==
  /\ runner[i] \in Live
  /\ runner' = [runner EXCEPT ![i] = Following(runner[i])]
  /\ UNCHANGED <<hostVars, container, ran, own>>

Fail(i) ==
  /\ runner[i] \in Live
  /\ runner' = [runner EXCEPT ![i] = "error"]
  /\ UNCHANGED <<hostVars, container, ran, own>>

ProgramTimesOut(i) ==
  /\ runner[i] \in Programs
  /\ ran[i][runner[i]] = Timeout
  /\ runner' = [runner EXCEPT ![i] = "timeout"]
  /\ UNCHANGED <<hostVars, container, ran, own>>

-----------------------------------------------------------------------------
(* Time.                                                                   *)

\* A program is stopped at its limit and a request is given up at its
\* deadline: time does not pass either.
Tick ==
  /\ host = "waiting" => Waited < Deadline
  /\ \A i \in Cases : runner[i] \in Programs => ran[i][runner[i]] < Timeout
  /\ ran' = [i \in Cases |-> [p \in Programs |-> ran[i][p] + (IF runner[i] = p THEN 1 ELSE 0)]]
  /\ own' = IF host = "waiting" /\ runner[request] \notin Programs THEN own + 1 ELSE own
  /\ UNCHANGED <<hostVars, container, runner>>

Next ==
  \/ ComposeRun \/ LearnId \/ Stage
  \/ SendRequest \/ Receive \/ GiveUp \/ ClientFails \/ Finish \/ Drop \/ HostDies
  \/ \E i \in Cases : Advance(i) \/ Fail(i) \/ ProgramTimesOut(i)
  \/ Tick

Spec == Init /\ [][Next]_vars

-----------------------------------------------------------------------------
(* Properties.                                                             *)

\* The directory a runner works in.
Tree(i) == IF shared THEN 0 ELSE i

\* Two runners never work in one directory, although a runner that was given
\* up goes on and may outlive many later requests.
OneRunnerPerTree ==
  \A i, j \in Cases : runner[i] \in Live /\ runner[j] \in Live /\ Tree(i) = Tree(j) => i = j

\* A request reaches its deadline only if the fuzzer's own steps took the
\* slack: two programs that use their limits to the full do not make a case
\* fail as anything but a timeout or a result.
SlowOnItsOwn == host = "waiting" /\ Waited >= Deadline => own >= Slack

\* A fuzzer that ends by itself has removed its container with everything
\* that still ran in it, unless it never learnt the id or docker failed.
NoContainerLeft ==
  host = "done" /\ known /\ container # "stuck" =>
    container = "removed" /\ \A i \in Cases : runner[i] \notin Live

-----------------------------------------------------------------------------
(* The inductive invariant.                                                *)

\* Who still runs: nobody who was not asked for, in a campaign only the
\* latest request's runner, and none of its runners between two requests.
IRunners ==
  /\ shared => driver = "campaign"
  /\ host \in {"create", "learn", "stage"} => request = 0
  /\ \A i \in Cases :
       /\ i > request => runner[i] = "absent" /\ ran[i] = [p \in Programs |-> 0]
       /\ driver = "campaign" /\ runner[i] \in Live => i = request /\ host # "ready"

\* What the fuzzer knows of the container.
IContainer ==
  /\ host \in {"create", "learn"} => ~ known
  /\ host \in {"stage", "ready", "waiting", "dropping"} => known
  /\ host = "waiting" => request \in Cases

IInv == TypeOK /\ IRunners /\ IContainer /\ NoContainerLeft
=============================================================================
