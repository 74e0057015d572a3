---------------------------- MODULE ExecHandshake ----------------------------
(***************************************************************************)
(* The READY / GO / exec-status protocol between the fuzzer process that   *)
(* runs a target (the runner: prepare_controlled_target and                *)
(* PreparedTarget::go_and_collect_timed) and the helper process that       *)
(* becomes the target by exec (run_exec_helper), both in                   *)
(* fuzz/execution.rs, with the kill-and-reap of utils/process.rs.          *)
(*                                                                         *)
(* Three pipes join the two processes.  READY goes from the helper to the  *)
(* runner, GO from the runner to the helper, and the status pipe carries   *)
(* an error frame, or closes silently when exec succeeds because its       *)
(* descriptor is close-on-exec.  Each reader reads up to end of file, so   *)
(* what matters is which process still holds the write end.                *)
(*                                                                         *)
(* Time is counted in ticks while the runner waits.  A tick is long        *)
(* compared with the runner's 1 ms polling, so none passes while the       *)
(* runner has something to read, nor beyond the deadline it waits for.     *)
(***************************************************************************)
EXTENDS Integers

CONSTANTS
  ReadyTimeout,   \* READY_TIMEOUT, in ticks
  Timeout         \* the execution timeout of a case, in ticks

ASSUME ReadyTimeoutAssumption == ReadyTimeout \in Nat \ {0}
ASSUME TimeoutAssumption == Timeout \in Nat \ {0}

VARIABLES
  runner,     \* control state of the runner
  result,     \* what the runner returns (set when its fate is decided)
  helper,     \* control state of the helper process, the target included
  exit,       \* how the process ended
  fate,       \* was the helper killed by something outside the protocol?
  statusFd,   \* the helper's close-on-exec flag on the status pipe
  outputs,    \* do descendants of the target keep its output pipes open?
  ready,      \* bytes in the READY pipe
  go,         \* bytes in the GO pipe
  goEnd,      \* does the runner still hold the write end of GO?
  status,     \* bytes in the status pipe
  elapsed,    \* ticks since the runner's current clock was started
  deadline,   \* value of elapsed at which the collection times out
  ranAt       \* elapsed at the moment of a successful exec, or NeverRan

procVars == <<helper, exit, fate, statusFd, outputs, ranAt>>
pipeVars == <<ready, go, goEnd, status>>
timeVars == <<elapsed, deadline>>
vars == <<runner, result, procVars, pipeVars, timeVars>>

NeverRan == -1

RunnerStates == {"spawn", "awaitReady", "prepared", "awaitStatus", "collect",
                 "collectError", "dropping", "returned", "crashed"}
HelperStates == {"absent", "starting", "armed", "waitGo", "goRead", "failing",
                 "target", "zombie", "reaped"}
Failures == {"spawn_failed", "ready_failed", "clock_failed", "discarded",
             "go_failed", "status_failed", "status_timeout", "exec_failed",
             "timed_out", "collect_failed"}
Results == Failures \cup {"none", "collected"}

TypeOK ==
  /\ runner \in RunnerStates
  /\ result \in Results
  /\ helper \in HelperStates
  /\ exit \in {"none", "exec_error", "target", "killed"}
  /\ fate \in {"own", "outside"}
  /\ statusFd \in {"inherited", "cloexec"}
  /\ outputs \in {"free", "held"}
  /\ ready \in {"empty", "READY"}
  /\ go \in {"empty", "GO"}
  /\ goEnd \in {"open", "closed"}
  /\ status \in {"empty", "partial", "frame"}
  /\ elapsed \in Nat
  /\ deadline \in 0 .. Timeout
  /\ ranAt \in Nat \cup {NeverRan}

Init ==
  /\ runner = "spawn"
  /\ result = "none"
  /\ helper = "absent"
  /\ exit = "none"
  /\ fate = "own"
  /\ statusFd = "inherited"
  /\ outputs = "free"
  /\ ready = "empty"
  /\ go = "empty"
  /\ goEnd = "open"
  /\ status = "empty"
  /\ elapsed = 0
  /\ deadline = 0
  /\ ranAt = NeverRan

HelperCode == {"starting", "armed", "waitGo", "goRead", "failing"}
Alive == helper \in HelperCode \cup {"target"}

\* End of file on each pipe: nobody holds its write end any more.  The pipes
\* are created close-on-exec, so the helper holds only the three ends whose
\* flag the pre-exec hook clears.
ReadyEof == helper \notin {"absent", "starting", "armed"}

\* The same, had the helper inherited the write end of GO.
GoEofInherited == goEnd = "closed" /\ helper # "waitGo"
GoEof == goEnd = "closed"

StatusEof ==
  /\ helper \notin HelperCode
  /\ helper = "target" => statusFd = "cloexec"

-----------------------------------------------------------------------------
(* The runner: prepare_controlled_target.                                  *)

Spawn ==
  /\ runner = "spawn"
  /\ runner' = "awaitReady"
  /\ helper' = "starting"
  /\ UNCHANGED <<result, exit, fate, statusFd, outputs, ranAt, pipeVars, timeVars>>

SpawnFails ==
  /\ runner = "spawn"
  /\ runner' = "returned"
  /\ result' = "spawn_failed"
  /\ UNCHANGED <<procVars, pipeVars, timeVars>>

\* Giving up: the error is decided and the locals are dropped; Reap is the
\* drop of PreparedProcess.
GiveUp(why) ==
  /\ runner' = "dropping"
  /\ result' = why

ReceiveReady ==
  /\ runner = "awaitReady"
  /\ ReadyEof
  /\ IF ready = "READY"
       THEN runner' = "prepared" /\ UNCHANGED result
       ELSE GiveUp("ready_failed")
  /\ UNCHANGED <<procVars, pipeVars, timeVars>>

ReadyTimesOut ==
  /\ runner = "awaitReady"
  /\ elapsed >= ReadyTimeout
  /\ GiveUp("ready_failed")
  /\ UNCHANGED <<procVars, pipeVars, timeVars>>

\* The caller drops the prepared target without releasing it (the DUT that
\* was prepared before the fixture turned out not to be shareable).  The GO
\* end is the first field to be dropped, the process the last.
Discard ==
  /\ runner = "prepared"
  /\ GiveUp("discarded")
  /\ goEnd' = "closed"
  /\ UNCHANGED <<procVars, ready, go, status, timeVars>>

-----------------------------------------------------------------------------
(* The runner: PreparedTarget::go_and_collect_timed.                       *)

\* write_all(b"GO") and the close of the write end; the reader needs both, so
\* nothing can be told apart in between.
SendGo ==
  /\ runner = "prepared"
  /\ helper # "zombie"
  /\ runner' = "awaitStatus"
  /\ go' = "GO"
  /\ goEnd' = "closed"
  /\ elapsed' = 0
  /\ UNCHANGED <<result, procVars, ready, status, deadline>>

SendGoFails ==
  /\ runner = "prepared"
  /\ \/ helper = "zombie" /\ GiveUp("go_failed")
     \/ GiveUp("clock_failed")
  /\ goEnd' = "closed"
  /\ UNCHANGED <<procVars, ready, go, status, timeVars>>

Remaining == IF elapsed < Timeout THEN Timeout - elapsed ELSE 0

\* The time given to the collection, had it been the whole timeout again.
WholeTimeout == Timeout

\* What the collection is given: what the status wait left of the timeout.
CollectFor == Remaining

\* Receiving the status, had an empty one been taken for an exec error.
ReceiveStatusSilenceIsError ==
  /\ runner = "awaitStatus"
  /\ StatusEof
  /\ runner' = "collectError"
  /\ deadline' = elapsed + CollectFor
  /\ UNCHANGED <<result, procVars, pipeVars, elapsed>>

ReceiveStatus ==
  /\ runner = "awaitStatus"
  /\ StatusEof
  /\ \/ status = "empty" /\ runner' = "collect" /\ UNCHANGED result
     \/ status = "frame" /\ runner' = "collectError" /\ UNCHANGED result
     \/ status = "partial" /\ GiveUp("status_failed")
  /\ deadline' = elapsed + CollectFor
  /\ UNCHANGED <<procVars, pipeVars, elapsed>>

StatusTimesOut ==
  /\ runner = "awaitStatus"
  /\ elapsed >= Timeout
  /\ GiveUp("status_timeout")
  /\ UNCHANGED <<procVars, pipeVars, timeVars>>

Collecting == runner \in {"collect", "collectError"}

\* The child has exited and every output pipe has been read to its end.
Collected ==
  /\ Collecting
  /\ helper = "zombie"
  /\ outputs = "free"
  /\ runner' = "returned"
  /\ helper' = "reaped"
  /\ result' \in IF runner = "collect" THEN {"collected", "clock_failed"}
                                       ELSE {"exec_failed"}
  /\ UNCHANGED <<exit, fate, statusFd, outputs, ranAt, pipeVars, timeVars>>

\* kill_and_reap: a child that has already exited keeps its own status.  That its
\* system calls may fail, and leave the child, is ProcessCollect's matter.
KillAndReap ==
  /\ helper' = IF helper = "absent" THEN "absent" ELSE "reaped"
  /\ exit' = IF Alive THEN "killed" ELSE exit
  /\ UNCHANGED <<fate, statusFd, outputs, ranAt>>

\* The same, had the loop returned without killing the child.
CollectTimesOutLeavesChild ==
  /\ Collecting
  /\ elapsed >= deadline
  /\ runner' = "returned"
  /\ result' = "timed_out"
  /\ UNCHANGED <<procVars, pipeVars, timeVars>>

\* The deadline of the collection loop: the child is killed and reaped.
CollectTimesOut ==
  /\ Collecting
  /\ elapsed >= deadline
  /\ KillAndReap
  /\ runner' = "returned"
  /\ result' = "timed_out"
  /\ UNCHANGED <<pipeVars, timeVars>>

\* poll, wait or a channel failed: the loop still kills and reaps the child.
CollectFails ==
  /\ Collecting
  /\ KillAndReap
  /\ runner' = "returned"
  /\ result' = "collect_failed"
  /\ UNCHANGED <<pipeVars, timeVars>>

\* Drop of PreparedProcess.
Reap ==
  /\ runner = "dropping"
  /\ KillAndReap
  /\ runner' = "returned"
  /\ goEnd' = "closed"
  /\ UNCHANGED <<result, ready, go, status, timeVars>>

\* The runner dies (the case container is removed by its outer deadline, the
\* user interrupts it): the kernel closes its pipe ends and nobody waits for
\* the child.
RunnerCrash ==
  /\ runner \notin {"returned", "crashed"}
  /\ runner' = "crashed"
  /\ goEnd' = "closed"
  /\ UNCHANGED <<result, procVars, ready, go, status, timeVars>>

RunnerStep ==
  \/ Spawn \/ SpawnFails
  \/ ReceiveReady \/ ReadyTimesOut
  \/ SendGo \/ SendGoFails
  \/ ReceiveStatus \/ StatusTimesOut
  \/ Collected \/ CollectTimesOut \/ CollectFails
  \/ Reap

-----------------------------------------------------------------------------
(* The helper: run_exec_helper, until exec makes it the target.            *)

\* fail(): a length prefix, the message, exit(127).  Write errors are ignored.
StartFailing ==
  /\ helper' = "failing"
  /\ status' = "partial"
  /\ UNCHANGED <<exit, fate, statusFd, outputs, ranAt, ready, go, goEnd>>

FinishFailing ==
  /\ helper = "failing"
  /\ helper' = "zombie"
  /\ exit' = "exec_error"
  /\ status' = "frame"
  /\ UNCHANGED <<fate, statusFd, outputs, ranAt, ready, go, goEnd>>

\* The same, had the helper kept the status pipe inheritable.
RestoreCloexecForgotten ==
  /\ helper = "starting"
  /\ helper' = "armed"
  /\ UNCHANGED <<exit, fate, statusFd, outputs, ranAt, pipeVars>>

RestoreCloexec ==
  /\ helper = "starting"
  /\ helper' = "armed"
  /\ statusFd' = "cloexec"
  /\ UNCHANGED <<exit, fate, outputs, ranAt, pipeVars>>

RestoreCloexecFails ==
  /\ helper = "starting"
  /\ StartFailing

SendReady ==
  /\ helper = "armed"
  /\ runner # "crashed"
  /\ helper' = "waitGo"
  /\ ready' = "READY"
  /\ UNCHANGED <<exit, fate, statusFd, outputs, ranAt, go, goEnd, status>>

SendReadyFails ==
  /\ helper = "armed"
  /\ runner = "crashed"
  /\ StartFailing

\* The same, had the helper taken any end of file for GO.
ReceiveAnyGo ==
  /\ helper = "waitGo"
  /\ GoEof
  /\ helper' = "goRead"
  /\ UNCHANGED <<exit, fate, statusFd, outputs, ranAt, pipeVars>>

ReceiveGo ==
  /\ helper = "waitGo"
  /\ GoEof
  /\ IF go = "GO"
       THEN helper' = "goRead" /\ UNCHANGED <<exit, fate, statusFd, outputs, ranAt, pipeVars>>
       ELSE StartFailing

\* Identity and file-size limit applied, exec succeeded.
Exec ==
  /\ helper = "goRead"
  /\ helper' = "target"
  /\ ranAt' = elapsed
  /\ UNCHANGED <<exit, fate, statusFd, outputs, pipeVars>>

ExecFails ==
  /\ helper = "goRead"
  /\ StartFailing

HelperStep ==
  /\ \/ FinishFailing
     \/ RestoreCloexec \/ RestoreCloexecFails
     \/ SendReady \/ SendReadyFails
     \/ ReceiveGo
     \/ Exec \/ ExecFails
  /\ UNCHANGED <<runner, result, timeVars>>

\* The target ends, by itself or by a signal; descendants may keep its pipes.
TargetExits ==
  /\ helper = "target"
  /\ helper' = "zombie"
  /\ exit' = "target"
  /\ outputs' \in {"free", "held"}
  /\ UNCHANGED <<runner, result, fate, statusFd, ranAt, pipeVars, timeVars>>

DescendantsEnd ==
  /\ outputs = "held"
  /\ outputs' = "free"
  /\ UNCHANGED <<runner, result, helper, exit, fate, statusFd, ranAt, pipeVars, timeVars>>

\* Something outside the fuzzer (out-of-memory, an operator) kills the helper.
KilledOutside ==
  /\ helper \in HelperCode
  /\ helper' = "zombie"
  /\ exit' = "killed"
  /\ fate' = "outside"
  /\ UNCHANGED <<runner, result, statusFd, outputs, ranAt, pipeVars, timeVars>>

-----------------------------------------------------------------------------
NothingToRead ==
  \/ runner = "awaitReady" /\ ~ReadyEof /\ elapsed < ReadyTimeout
  \/ runner = "awaitStatus" /\ ~StatusEof /\ elapsed < Timeout
  \/ Collecting /\ ~(helper = "zombie" /\ outputs = "free") /\ elapsed < deadline

Tick ==
  /\ NothingToRead
  /\ elapsed' = elapsed + 1
  /\ UNCHANGED <<runner, result, procVars, pipeVars, deadline>>

Stopped ==
  /\ runner \in {"returned", "crashed"}
  /\ helper \in {"absent", "zombie", "reaped", "target"}
  /\ UNCHANGED vars

Next ==
  \/ RunnerStep
  \/ Discard
  \/ RunnerCrash
  \/ HelperStep
  \/ TargetExits
  \/ DescendantsEnd
  \/ KilledOutside
  \/ Tick
  \/ Stopped

Spec == Init /\ [][Next]_vars

\* The runner keeps running and time passes while it waits.  Nothing is
\* assumed of the helper or of the target, which may never end.
RunnerFairSpec == Spec /\ WF_vars(RunnerStep) /\ WF_vars(Tick)

-----------------------------------------------------------------------------
(* Properties.                                                             *)

\* A target program is started only after the runner wrote GO: a prepared
\* target that is dropped, or whose runner dies, never touches the fixture.
NoExecWithoutGo ==
  ranAt # NeverRan => go = "GO"

\* When the call returns, on whatever path, the child is gone and reaped.
NoChildLeft ==
  runner = "returned" => helper \in {"absent", "reaped"}

\* A process result that is reported as the target's was produced by the
\* target, never by the helper's own failure, unless a third party killed the
\* helper.
CollectedMeansExecuted ==
  result = "collected" => exit = "target" \/ fate = "outside"

\* An exec failure is never reported for a target that did execute.
ExecFailedMeansNotExecuted ==
  result \in {"exec_failed", "go_failed", "ready_failed", "discarded"} => ranAt = NeverRan

\* The status wait and the collection share one timeout.
BudgetRespected ==
  go = "GO" => elapsed <= Timeout

\* A target that started before the deadline does not hold the status channel
\* open: its runner is never told that the channel timed out.
StatusChannelReleased ==
  result = "status_timeout" => ranAt \in {NeverRan, Timeout}

\* The call ends whatever the helper and the target do, on every path with the
\* child reaped.
CallReturns == <>(runner = "crashed" \/ (runner = "returned" /\ NoChildLeft))

\* A helper whose runner died before GO ends by itself instead of waiting for
\* ever, provided the helper is scheduled.
NoWaitingOrphan ==
  WF_vars(HelperStep) =>
    ((runner = "crashed" /\ go = "empty") ~> helper \in {"absent", "zombie"})

-----------------------------------------------------------------------------
(* The inductive invariant behind the safety properties.                   *)

\* Which runner states go with which helper states.
IProcesses ==
  /\ runner = "spawn" => helper = "absent"
  /\ helper = "absent" => runner \in {"spawn", "returned", "crashed"}
  /\ runner \in {"collect", "collectError"} => helper \in {"target", "zombie"}
  /\ runner = "returned" => helper \in {"absent", "reaped"}
  /\ helper = "reaped" => runner = "returned"

\* GO is written once, by a runner that then only waits, collects or returns.
IGo ==
  /\ runner \in {"spawn", "awaitReady", "prepared"} => go = "empty" /\ result = "none"
  /\ runner \in {"awaitStatus", "collect", "collectError"} => go = "GO" /\ result = "none"
  /\ helper \in {"goRead", "target"} => go = "GO"
  /\ ranAt # NeverRan => go = "GO"
  /\ go = "GO" => elapsed <= Timeout
  /\ goEnd = "open" => go = "empty"

\* What the status pipe says of the helper's fate.
IStatus ==
  /\ helper \in HelperCode \cup {"absent"} => ranAt = NeverRan /\ exit = "none"
  /\ helper = "target" => ranAt # NeverRan /\ exit = "none" /\ status = "empty"
  /\ helper \in {"armed", "waitGo", "goRead", "target"} => statusFd = "cloexec"
  /\ status # "empty" => ranAt = NeverRan /\ helper \in {"failing", "zombie", "reaped"}
  /\ runner = "collect" => status = "empty"
  /\ runner = "collectError" => status = "frame"
  /\ helper = "zombie" => \/ exit = "exec_error" /\ status = "frame"
                          \/ exit = "target" /\ ranAt # NeverRan
                          \/ exit = "killed" /\ fate = "outside"

\* What each result remembers.
IResult ==
  /\ result = "collected" => runner = "returned" /\ go = "GO" /\ (fate = "outside" \/ (exit = "target" /\ ranAt # NeverRan))
  /\ result = "exec_failed" => ranAt = NeverRan /\ runner = "returned"
  /\ result \in {"ready_failed", "go_failed", "discarded", "spawn_failed"} =>
       go = "empty" /\ runner \in {"dropping", "returned", "crashed"}
  /\ result = "status_timeout" =>
       elapsed = Timeout /\ ranAt \in {NeverRan, Timeout} /\ runner \in {"dropping", "returned", "crashed"}
  /\ runner = "awaitStatus" /\ ranAt # NeverRan => ranAt = elapsed
  /\ runner \in {"dropping", "returned"} => result # "none"
  /\ result \in {"timed_out", "collect_failed", "status_failed"} => go = "GO"

\* What the protocol maintains, in one inductive formula.
IInv == TypeOK /\ IProcesses /\ IGo /\ IStatus /\ IResult

-----------------------------------------------------------------------------
(* Refinement of TargetRun.                                                *)

phaseBar ==
  IF runner = "returned" THEN "over" ELSE IF go = "GO" THEN "released" ELSE "waiting"
verdictBar ==
  IF runner # "returned" THEN "none"
  ELSE IF go = "empty" THEN "refused"
  ELSE IF result = "collected" THEN "observed" ELSE "failed"

TR == INSTANCE TargetRun WITH
        phase <- phaseBar, executed <- ranAt # NeverRan,
        destroyed <- fate = "outside", verdict <- verdictBar

\* The protocol provides TargetRun.
ImplementsTargetRun == TR!Spec

=============================================================================
