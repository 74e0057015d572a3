# Verification of the coreutils fuzzer

This repository holds Dafny implementations of coreutils-like programs and a
differential fuzzer, `tools/coreutils_fuzzer`, that compares each of them (the
*DUT*) with a reference program.  The Dafny side is specified and proved in
Dafny itself.  The fuzzer is not: it is a Rust program that starts processes,
talks to them over pipes, shares file trees between them, gives up on them when
a deadline passes, and must never blame the DUT for something it did itself.
This directory models that program in TLA+, checks the models with TLC, and
proves theorems about them with TLAPS.

All source paths below are relative to `tools/coreutils_fuzzer/src/`.

## 1. The system

One run of the fuzzer is a *campaign* over one utility.

    run.py ──> campaign ──> case source, corpus, coverage
                  │  │
                  │  └────> recorder ──> metrics file
                  │
                  ├──> case execution ──> staging, snapshots, comparison
                  │         │
                  │         ├── on the host, or behind the container executor
                  │         │   (docker exec of the same code)
                  │         └──> target handshake ──> process collection ──> child
                  │
                  └──> reducer (executes candidates the same way) ──> repro bundle

`replay` and the regression suites use the same execution on saved cases.

| component | state it keeps | operations | interacts through |
|---|---|---|---|
| target handshake (`fuzz/execution.rs`) | a prepared helper process, three pipes, a deadline | prepare, go and collect, drop | pipes, exec, signals, `waitpid` |
| process collection (`utils/process.rs`) | child, open channels, unwritten input, deadline | collect, kill and reap | pipes, poll, `waitpid` |
| case execution (`fuzz/shrink.rs:149-274`) | live tree, spare tree, snapshots, file times | stage, prepare, observe, run, share or clone | the file system, which the programs change too |
| fixtures (`fuzz/system_state_concretizer.rs`) | a blueprint, the tree made from it | validate, materialize, restore times | the file system |
| reducer (`fuzz/shrink.rs:372-541`) | best case so far, attempts | reduce, accept, stop | calls case execution |
| campaign (`fuzz/campaign.rs`) | iteration, container, recorder, corpus, coverage | iterate, report, finish | calls everything |
| recorder and metrics file (`fuzz/metrics.rs`) | counts; a path shared with other fuzzers | record, write | the file system |
| container executor (`fuzz/container.rs`) | container id, request number | create, execute, drop | docker, a runner in the container |
| repro bundles, replay (`fuzz/repro.rs`, `fuzz/replay.rs`) | directories of evidence | save, load, replay | the file system |
| startup capture (`fuzz/startup.rs`, `utils/startup_protocol.rs`) | lifecycle events of one start | launch, decode, validate | a channel from a preloaded library |
| snapshots, comparison (`fuzz/comparison/`) | handles on objects; none | snapshot, restore; compare | the file system |
| regression suites (`fuzz/regression.rs`) | results of the cases so far | run, report | the container executor |
| case generation (`fuzz/input.rs`, `fuzz/input/`, `fuzz/case_source.rs`) | the latest interesting cases | scenario, generate, mutate, normalize | the corpus, the campaign |
| coverage, CLI, JSON worlds, launcher, benchmark and scaffold tools | little or none | pure functions of their input | |

What is hard about it:

- **Two processes and three pipes.**  Whether a reader sees bytes, end of file,
  or nothing depends on which process still holds the other end, and a killed
  process looks much like one that succeeded.
- **A child that owes nothing.**  It may never read, never write, never exit,
  or exit and leave descendants that keep its pipes.
- **One tree, used twice.**  The reference may change the tree and put it back;
  snapshots and helpers disturb access times; a tree may be replaced under a
  helper that has already entered it.
- **Deadlines.**  Giving up kills the nearest process, not the one that does
  the work; a deadline can expire together with the answer.
- **Crashes and races on files.**  Several fuzzers may write one metrics path,
  process ids come again, and any of them may die between two system calls.
- **Long sequences.**  A case mutated for the hundredth time must still be one
  the benchmark speaks of, and a reduction accepted by the hundredth evaluation
  one that shows the first one's difference.
- **Objects without names.**  Inode numbers and names come again; what a
  program did to an object has to be told from what is left.
- **Descriptors.**  A captured start shares its process with a language runtime
  that may close, move or inherit anything.

## 2. The modules

Every component has a module of its own; the parts of a component that promise
something to its caller also have an abstract module, which the detailed one is
shown to implement.

| component | modules | implements | proofs |
|---|---|---|---|
| target handshake | `ExecHandshake` | `TargetRun` | `LaunchProofs` |
| process collection | `ProcessCollect` | | `ProcessCollectProofs` |
| case execution | `CaseExecution` | `FairComparison` | `CaseExecutionProofs` |
| fixtures, reducer | `Fixture`, `LsArguments`, `Shrink` | | `ShrinkProofs` |
| case generation | `ArgvPattern`, `SystemState`, `PlainGenerators`, `Generators`, `Scenarios`, `CaseGeneration` | | `ShrinkProofs` |
| campaign | `Campaign` | | `CampaignProofs` |
| metrics file | `MetricsPublish` | `WriteOnce` | `MetricsPublishProofs` |
| container executor | `ContainerExecutor` | | `ContainerExecutorProofs` |
| repro bundles | `BundleStore` | | `ReplayProofs` |
| object identity | `Observation` | | `ReplayProofs` |
| comparison, verdicts | `Verdict` | | `ReplayProofs` |
| replay | `Replay` | `BundleStore` | `ReplayProofs` |
| startup capture | `StartupProtocol`, `Startup` | | `LaunchProofs` |

Two modules compose components that interact.  `FuzzCase` takes a case from its
generation through mutations to the reducer (`CaseGeneration` and `Shrink`);
`Replay` takes one from its execution through the observer and the verdict to
the bundle, which several campaigns save at once, and back
(`Observation`, `Verdict` and `BundleStore`).

The `MC...` modules give the constants their values.  `MCProcessCollect` also
composes `ProcessCollect` with a particular child, a filter.  A definition
whose comment says what the code would be "had" something been different is the
code with one mistake in it; it belongs to no specification, and takes the place
of the definition after it when one wants to see which property notices.

### ExecHandshake

`prepare_controlled_target` forks a helper, waits for READY, and later writes
GO and watches a status pipe, which is close-on-exec: if it closes empty, the
exec succeeded; if it has a frame in it, it failed.  `runner` is the position
in these two functions, `helper` that in `run_exec_helper` (and then
`target`, then `zombie`, then `reaped`), `ready`, `go` and `status` are the
bytes in the three pipes, `goEnd` and `statusFd` who still holds an end.  The
actions are the system calls: a read that sees bytes, one that sees end of
file, a poll that expires, each error return with the drop that follows it, and
the death of either process at any moment.  `outputs` says whether descendants
of the target keep its output; the collection after exec is one action per
outcome here, and a module of its own below.  Left out: what the helper sets up
(directory, umask, arguments), except that any of it may fail; and that
`try_wait` or `kill` may fail in `kill_and_reap` and leave the child, which is
in `ProcessCollect`.

`TargetRun` is the promise: a release, at most one execution after it, one
verdict, and no observation without an execution unless a third party killed
the process.

### ProcessCollect

The Linux x86-64 loop: `LoopTop` is `try_wait` with the end test and the
deadline test, `Poll` the poll with the pidfd, `TransferIn` and `TransferOut`
one bounded transfer of one ready channel, `Cleanup` the kill-and-reap and the
drop of the channels.  The other actions of `SystemCallFails` are these calls
failing.  A pipe is a number of bytes and a set of holders.  The child is any
process: it reads, writes, closes, forks and exits as it likes.

### CaseExecution

`execute_case_in_work_dir`, one action per step of the function: staging both
trees, preparing a helper, restoring saved times, fixing modes, the snapshots,
the runs, the test whether the DUT may have the reference's own objects and,
after preparing the second helper, the same test again, or else the clone.  A
tree is a record of what the code can tell apart: contents, mode, the three
times, and the identity of its objects.  Programs, snapshots and helpers
disturb it as the operating system allows.  `Time` is the clock of file times,
so that two changes in one tick have equal times.

`FairComparison` is the promise: the DUT begins on the state the reference
began on, or nothing is compared.

### Fixture and Shrink

`Fixture` has `validate_fixture` and, as `Materialised`, the tree that
materializing it makes or fails to make.  `Shrink` lists the reductions of a case in the order of the code,
with the cascade each deletion has (entries below a directory, aliases of a
file), and is the greedy loop.  The pair of programs under test is a variable
that never changes, and `Outcomes` says what an evaluation of a pair on a case
may find: a match, or a mismatch of some signature, one or several, since a
program need not give the same answer twice; an evaluation may also fail.
`Accept` and `Refuse` take what the evaluation of the candidate found and
compare it with the original's signature, and `MinimalRepro` relates the result
to the programs: they can show the original difference on it, and on no
reduction of it do they always do so.
Bytes of a file and of the input are lengths.  `LsArguments` is what generation
and reduction both ask of the arguments of `ls`.

### Case generation

`ArgvPattern` renders a declared pattern under the argument budget, alternative
by alternative and element by element, as the set of all argument lists it can
give; `SystemState` is the random fixture and the shared fixed ones, as sets.
`PlainGenerators`, `Generators` and `Scenarios` hold what each of the 48
generators declares: pattern, fixture, working directory, guards, mutator,
normalizer and hand-written cases.  `CaseGeneration` is the life of a case: a
case set, a scenario or a random case, then mutations of arguments, fixture,
input and directory in any number, with the guard and the normalizer after
each.  Of an argument only what a guard or a normalizer can tell is kept: an
operand is the file, the existing or the missing path it names, and for a
utility without guards just the number of arguments is.

### Campaign

`run_fuzzer` with `run_single_iteration`: set-up with its error exits, then per
iteration the choice of a case (a case set, a scenario, the corpus, or a
generated one), the evaluation, the reducer, the bundle, the recorder, and at
the end the metrics file and the verdict.  Evaluation, reduction and writes
have every outcome the code distinguishes.

### MetricsPublish

`write_metrics`, system call by system call, in several processes given one
path: the check that the path is free, the temporary file named after the pid,
the write, the link, the removal.  A process may be killed between any two
calls and its pid may come again.  `WriteOnce` is the promise: a path that
takes one value for good, and "ok" only for the writer of that value.

### ContainerExecutor

The creation of the container (compose run, learn the id, stage the runner),
one request at a time with its outer deadline, and the drop.  The runner of a
request is a process in the container which outlives the docker client that
was killed at the deadline.  `driver` is a campaign, which ends at its first
error, or a regression suite, which goes on in a new directory.

### BundleStore

`save_repro_at` and its companion for failed evaluations, in several campaigns
under one root: trying a name and its suffixes with `mkdir`, then the files one
after another, each of which may be there in part, with every call failing and
a kill between any two.  A mismatch writes its manifest first, a failed
evaluation last, after its input.

### Observation, Verdict and Replay

`Observation` is a small file system (names, inode numbers, objects) that gives
a freed number out again as soon as it can, and the observer over it: handles
kept open since the first snapshot, the snapshot after, the identity
transitions.  `Texts` is what files hold and links point to, `Written` the text
a program writes.  `Verdict` turns two observations into a comparison, a signature
and evidence, and has the checks a replay makes of evidence; its line diff is
the one printed with a mismatch, and its two tables are indexed by the cells of
`diff_lines`.  `DiffRebuilds` says what is expected of the diff without a table:
under two marks each it is one output and the other, and no `Alignments` of the
two, sets of pairs of equal lines that do not cross, is larger than its share of
kept lines.  `Replay` puts them together: the reference,
the DUT on the shared tree or on a clone, the verdict, the bundle, and later a
replay with the same programs or a changed DUT under other inode numbers and
clock ticks.  A program runs system call by system call (`BeginReference`,
`BeginDut`, `Call`, `Observe`) while `observer` holds its handles; the other
campaigns save their bundles meanwhile.

### Startup

The launcher (`fuzz/startup.rs`) and the library it preloads
(`bench/core/IOStartup.c`), system call by system call: the socket pair, the
event pipe, the private pipes of the language runtime, the byte that permits
the start.  Both sides hold a table of descriptors, since most of what can go
wrong is a descriptor that is open where it should not be.  The program may
fork, close and redirect descriptors, enter its utility more than once, or end
anywhere.  `StartupProtocol` is what a frame may say and what the launcher
accepts of a sequence of them.  The launcher's comparison of the blocked state
of SIGPIPE at the entry and at "ready" (`fuzz/startup.rs:259-264`) is left out:
the entry of a managed program restores the captured mask before it reads it, so
the two are equal.  An entry that fails may be tried again by a managed runtime.
`failed` is about a failure of which something was sent; one before the first
byte (`EntryFailsUnsent`) leaves no trace, and an entry that then succeeds is
rightly reported as the one there was.

## 3. What is checked

`Spec` is `Init /\ [][Next]_vars` in each module, with fairness where the next
subsection says so.  A run whose configuration says `CHECK_DEADLOCK FALSE` is
of a program that ends (a campaign, a publication, a reduction, an executor, a
replay, a capture); the other modules have an action `Stopped` for the end and
are checked for deadlock.

| run | states | what it shows |
|---|---|---|
| `ExecHandshake_safety` | 513 | an exec failure is never told of a target that ran; the target does not hold the status pipe; one timeout for all of it; `TargetRun` is implemented; the call returns whatever helper and target do; a helper whose runner died does not wait for ever |
| `ProcessCollect_any` | 356 190 | with any child and any system call failing: success means the whole output, the child's own status, the input delivered; the collection returns; a filter whose input and output are larger than the pipes is collected to the end |
| `CaseExecution_safety` | 641 243 | equal starts, exact sharing, truthful evidence, helpers in the live tree, no blame for what the fuzzer itself disturbs; `FairComparison` is implemented |
| `Shrink_safety` | 216 565 | every generated, mutated or reduced case can be staged and started; mutation does not leave what a generator promises; arguments stay within their budget; the reducer's result shows the original difference and no reduction of it always does; each accepted case is smaller |
| `Shrink_listing` | violated | section 6 |
| `Campaign_safety` | 44 740 | PASS is earned, the counts balance, a counted mismatch has its bundle, the corpus keeps the latest |
| `Campaign_kept` | violated | section 6 |
| `MetricsPublish_safety` | 49 056 | nothing left behind but by a process that died or could not remove it; `WriteOnce` (whole, never overwritten) is implemented |
| `ContainerExecutor_safety` | 438 537 | one runner per directory, slow programs are not infrastructure errors, the container is removed |
| `Replay_safety` | 539 521 | the observer tells the truth about objects although numbers come again; evidence is valid; what is reported as saved is complete and can be replayed; a replay says "reproduced" exactly of the same behaviour; the printed diff rebuilds both sides |
| `Replay_sharing` | violated | section 6 |
| `Startup_safety` | 1 492 912 | a start is complete exactly when the owned child entered its utility once; the utility starts on the launcher's streams with nothing private beside them; the bootstrap never needs the deadline |

Every property of a passing run fails for at least one plausible mistake in the
code (PROJECT.json, `mutants`).

### Bounds, and why they are enough

- **ExecHandshake**: `ReadyTimeout = 2`, `Timeout = 3`.  Each wait can end
  before, at and after its deadline, and the second wait can have all, some or
  nothing of the shared timeout.  Nothing else in the protocol is unbounded:
  each pipe carries one message.
- **ProcessCollect**: pipes of 2 bytes, transfers of 1, one deadline tick, two
  inputs (one of them not the standard input) and one output.  A child that
  does anything gets inputs of up to 2 bytes: a transfer can be smaller than
  what is wanted for each of its three reasons, and a pipe can be empty, partly
  filled and full.  The filter gets 5 bytes and writes two for each, so that
  both directions fill several times; its clock stands still, so that the
  deadline cannot rescue a deadlock.  Outputs do not interact.
- **CaseExecution**: clock values 0, 1, 2.  Staging, the reference and the DUT
  can be in one tick, in different ones, or two of them together; this is what
  decides if a change hides behind an equal change time.
- **Shrink, generation**: 51 campaigns.  Every utility is there with its whole
  option pool and its scenarios.  `--max-args` and `--max-fs-entries` are one to
  three, and none to four, per utility: enough for the longest element a
  pattern requires, for one more than fits, and for a link beside its target
  and a directory above it.  Utilities without guards have two arguments and
  one entry.  Chains of mutations have any length, since a state is the latest
  case.
- **Shrink, reduction**: two cases in which every kind of entry is there,
  entries hang from one another across kinds, and the directories are listed
  either way; one with nothing to reduce; and the random cases with an alias of
  a symlink.  The programs are a pair that finds anything each time, and all
  pairs that differ in their output whenever a case has certain arguments, input
  or entries, and in the file system whenever it has certain others, so that a
  deletion may lose the difference, keep it, or turn it into the other one.
  With `MaxAttempts = 30` there are both searches that end by
  themselves and searches that the limit ends.
- **Campaign**: 5 iterations, one scenario, a corpus of 2: scenarios run out,
  the corpus evicts, and case sets (empty ones too) are shorter than, equal to,
  or longer than what is requested; only an equal one is accepted.
- **MetricsPublish**: four campaigns on two pids, so that a recycled pid can
  meet a race with another pid.
- **ContainerExecutor**: three requests, so that a runner can outlive two later
  ones; limits of one tick and a slack of two, so that the fuzzer's own steps
  can use some and all of it.
- **Replay**: two paths and three inode numbers, so that a freed number can
  come again and need not; programs of up to three operations (the longest,
  delete, create, rename, moves a new object under an old name); two ticks of
  the clock and two numberings of the staged tree; two campaigns with one base
  name, each saving up to twice, so that a claimed name, its suffix and a second
  bundle meet.  `MCInit` takes two families apart that do not interact: one
  campaign with all pairs of programs, and two campaigns with one pair.
- **Startup**: at most three events, so that an entry can be doubled and come
  before the ready event; one forked heir; one descriptor limit.

### Fairness

The fuzzer is scheduled (`WF_vars(RunnerStep)`), and time passes
(`WF_vars(Tick)`).  The code needs no more there, because every wait in the
runner has a deadline.  Nothing is assumed of targets or of their descendants.
`NoWaitingOrphan` assumes, in the property itself, that the helper is
scheduled; it says that the helper then needs no live runner to end.  In
`MCProcessCollect` the filter is assumed to run as well, since its question is
whether two running processes can wait for each other.  `Startup` assumes that
the launcher and the library run; its deadline is not assumed to expire, since
`BootstrapEnds` says that it is not needed.

## 4. What is proved

TLAPS checks every theorem below for all values of the constants, under the
named assumptions of the modules (positive timeouts, capacities and sizes, the
standard input among the inputs, pids as a function of processes, values that
stand for "nothing" outside the sets they complete; for `Replay`, finitely many
inode numbers, which start at 1, fixtures that fit in them, programs made of the
system calls of `Observation` whose output is a sequence of lines, and an evaluation that belongs to one of the
campaigns; for `Shrink`, originals that are values of the type
`Cases` of a generated case).  A replay may have any number of paths, programs of any length and
any number of other campaigns; a captured start any number of events and heirs.

Each proof module has the same shape: a lemma per action, or per small group
of actions, that the inductive invariant is kept; `InductiveInvariant` from
these; and each property as a consequence of the invariant or, for a property
of steps, of a step taken where the invariant holds.

| module | theorems | why the invariant is needed |
|---|---|---|
| `LaunchProofs`, of `ExecHandshake` | `ReleaseBeforeExec`, `ReturnReapsChild`, `ResultsAreAttributed`, `OneTimeout`, `StatusNotHeldByTarget`, `Refinement` | a result says something about the helper's past, so `IStatus` records what an empty or full status pipe proves about it, and `IProcesses` which pairs of positions are possible |
| `ProcessCollectProofs` | `SuccessIsComplete`, `SuccessIsTheChilds`, `SuccessDelivers`, `ReturnReapsChild` | the end test looks only at which channels are open; `IClosed` says why a channel may be closed while there is no error, and that this cannot be undone: nobody reopens an end that no process holds |
| `CaseExecutionProofs` | `StartsAreEqual`, `SharingIsExact`, `EvidenceIsTheStart`, `HelperWaitsInLiveTree`, `FuzzerRestoresWhatItDisturbs`, `Refinement` | the DUT starts many steps after the reference; `ISharing` and `ICloning` carry what each intermediate step has established about the tree so far |
| `ShrinkProofs` | `BudgetIsKept`, `DirectoriesAreFresh`, `ResultIsMinimal`, `MinimalReproHolds`, `SmallerHolds`, `ValidFixturesMaterialise`, `CandidatesLaunchHolds`, `CasesLaunchHolds` | the counter goes one above the budget, so the directories used must be bounded by the counter and by the budget separately; `PassSoFar` says that what lies behind the loop's index has been refused since the best case was accepted, and `Repro` what an evaluation has shown of the programs; of the reductions, see below |
| `CampaignProofs` | `OnlyMatchesPass`, `CountsAddUp`, `CaseSetIsRun`, `FirstFailureStops`, `CountedMismatchesAreSaved`, `CorpusKeepsLatest` | within an iteration the counts differ by one, and `IterationCounts` says where; `ReproInv` says that a mismatch is counted only by the step that has just saved it |
| `MetricsPublishProofs` | `PublishedWhole`, `NothingIsOverwritten`, `TemporariesHaveMakers`, `Refinement` | a temporary name left by a crash may be a link to the published file; `OwnWork` says that a process about to truncate or write such a name cannot be one that found the path free |
| `ContainerExecutorProofs` | `TreesAreNotShared`, `DeadlineIsEnough`, `ContainerIsRemoved` | directories are shared only by a campaign, and `IRunners` says that its driver does not go on after it gave up; `DeadlineIsEnough` adds up the time a request has spent |
| `LaunchProofs`, of `Startup` | `StartupInvariant`, `StreamsAreTheLaunchersHolds`, `CompleteIsOneEntryHolds` | what a descriptor is for follows from when it was opened: `Table` says it for every phase of the start, `CapturedRoles` which of them the library remembers; `Lifecycle` ties what the library has sent to what happened, so that the launcher, who sees only the messages, can conclude from them |
| `ReplayProofs`, of `BundleStore` | `StoreInvariant`, `OneAuthorHolds`, `ManifestHasInputHolds`, `SavedIsCompleteHolds` | a file is written by name, not by handle: only because a directory belongs to the campaign whose `mkdir` made it does a complete bundle stay complete while others save |
| `ReplayProofs`, of `Replay` | `ReplayInvariant`, `ObservationIsTrueHolds`, `EvidenceIsValidHolds`, `SavedReplaysHolds`, `ReproducedMeansSameHolds`, `DiffIsRight`, `DiffRebuildsHolds`, `ReplayKeepsTheStore` | see below |

The invariant of `Replay`, `ReplayInv`, follows an observation from the handles to
the replay of the bundle:

- `Disk`: while a program runs, every handle is on the object it was opened on,
  under the number it had (`Holds`).  A freed number comes again, but the number
  of an object that a handle keeps open is not free, which needs that the lowest
  free number is in fact free; the observer remembers what the snapshot before
  the run said, so that a transition from it to the snapshot after tells of the
  same object (`ObservationIsTrueHolds`).
- `Records`: what was seen of each variant is `Consistent`, and a decision to share
  the tree is the one that the snapshots justify.  Everything `check_evidence`
  asks of evidence follows from this (`EvidenceIsValidHolds`).
- `Saved` and `Rejected`: what a complete manifest says is what was seen, and
  one that is cut short belongs to a campaign that has ended.
  `SavedReplaysHolds` then needs `StoreInv` as well, for the directory the
  evaluation wrote.
- `ReproducedMeansSame` is about inode numbers that differ between the rounds.
  Replay evidence leaves the numbers out and keeps which names share an object,
  within a snapshot and from one to the next; the proof builds, from these
  relations alone, the renumbering that turns one observation into the other
  (`Renumbering`).

The printed difference is proved right for any two sequences (`DiffIsRight`), and
for those of a mismatch from there (`DiffRebuildsHolds`).  The tables of
`DiffLines` are functions that refer to themselves, so that nothing is known of
them at first:

- `TableExists` says that a table can be filled by any rule that looks only at
  cells where fewer lines are left; `CommonIs` and `DiffIs` conclude that the
  cells hold what the loops put into them.
- `CellInduction` is the induction over both lengths at once: what holds of a cell
  if it holds of all those where fewer lines are left holds of every cell.
- `DiffEnds` says, by that induction, that what is printed from a cell on is what is
  left of both texts and keeps as many lines as the table of common
  subsequences says (`Printed`; a step for each of the three marks).
- `Optimal` says, by the same induction, that no alignment within what is left has
  more pairs: where the next two lines are equal, at most one pair lies on either
  of them, since another would cross it; where they differ, one of them is in no
  pair.

`StartupInv` and `ReplayInv` were checked by TLC, part by part, on all states of
the two runs before they were proved.

The theorems about what `Shrink` reduces are about every case of the type `Cases`
(lists of any length, files of any size), not only those TLC is given.  A choice
of a list's entries and the making of a tree are folds, and what a fold computes
is proved by induction over the length of the list.  The library's induction
theorems take an operator as a parameter; `Induction` takes the *set* of numbers
with a property instead, and follows from the well-foundedness of finite sets.
From there:

- `ChosenIs` says what a choice of entries is, and `PartIsValid` that a part of a
  valid fixture is valid if what its hardlinks alias is still in it: this is where
  the cascade of `reduce_fixture` (`retain`) is needed, and where `PopFileOnly`,
  the mutant without it, fails.
- `ReductionsReduce` collects, reduction by reduction, that a reduction is in
  `Better(c)`: a case of less weight, which is `Staged` (a valid fixture, and a
  working directory that is the root or listed) if `c` is.  `SmallerHolds` is its
  first half.
- `EntriesAreOrderly` and `CreateKeepsMade` walk through `materialize_fixture`: in
  a valid fixture nothing that was made is in the way of the next entry, and the
  source of a hardlink is there before it (`ValidFixturesMaterialise`).
- `CandidatesLaunchHolds` joins the two.  Its premise is that the cases handed to
  the reducer are `Staged`.

`CasesLaunchHolds` discharges that premise for every case a campaign makes itself,
for every `--max-entries`, every pool of options and every chain of mutations.  The
invariant is in two parts: `CaseInv`, that the latest case is `ReadyFor` its utility,
and `SearchInv`, that the search is at a case that is staged.  What it takes:

- A path that goes up and down again, as `relative_path_from` computes it, leads to
  a place inside the fixture (`RelativeStays`, from what each name on the way does).
- `Layout(D, N)`: each place is in the root or in one of the directories.  A fixture
  whose entries are at such places `Fits`, and stays so when entries are added
  (`PlusFits`, `PlusApartFits`) or taken away.  Each fixture that is written out is
  built up this way, each random one (`RandomFits`) has its entries at the places
  `RandomD` and `RandomN`, and `SystemStatesFit` goes through what the generators make of it.
- `Trimmed` (the trim to `--max-entries` once chmod's links are planned) keeps a
  directory or a file where one is to be linked to (`TrimmedIs`): a link is to the
  first of those that are left, and there must be one.
- The normalizers of comm and csplit put a fixture of their own in place of the
  case's, and so could strand its working directory; they do not, because these
  utilities only ever run in the root.  This is why `ReadyFor` says so of their
  scenarios, generated cases and mutations, and why `Ready` alone is not inductive.

Its premise, `ListedCwds`, is about case sets only: a case in one that may mismatch
names the root or a listed directory as its working directory.  The decoder does
not ask for it, and the conclusion does not hold without it (section 6).  Two
assumptions on constants are used: `NamesAssumption` (the names in fixtures are
strings, which the prover does not know of a literal) and `CampaignsAssumption`
(a campaign's utility has a generator and `--max-entries` is a number); TLC
evaluates both.

The abstract modules are tied in by refinement: `ranAt # NeverRan` and the
runner's position make up `TargetRun`'s state, the compared part of `start`
makes up `FairComparison`'s, and the author of the published file is
`WriteOnce`'s value.  `ReplayKeepsTheStore` says that a replay among saving
campaigns does to the bundles what `BundleStore` allows and nothing else, so that
its theorems hold of `Replay` too.  A step maps to a step or a stutter, and the proofs go
through the invariant because some steps (a verdict, a release) are legal
abstractly only in states that it describes.

## 5. What is only model-checked, and what is not modelled

Only model-checked:

- liveness (`CallReturns`, `NoWaitingOrphan`, `CollectionReturns`,
  `FilterCollected`, `BootstrapEnds`): the prover does not do `ENABLED` and
  fairness;
- `StaysInScope` and `ArgumentsFit`: they are about which arguments each of some forty
  patterns can give, each pattern a table of its own that TLC goes through whole; a
  proof would be the same walk, table by table, and say little more.

Assumed where the models meet the outside:

- the observer may read everything (in the container it runs with
  `DAC_OVERRIDE` and `DAC_READ_SEARCH`), and fixtures are on a file system that
  keeps no access times of reads (`noatime`);
- a manifest's context, umask and image are written by the functions that check
  them on replay, so that those checks can fail for a changed environment only;
- a campaign that stops while it saves was killed or had a call fail;
- the standard library opens descriptors 0 to 2 if they are closed at the start
  of a program, and its `Command` replaces the three streams it is asked to;
- a random name does not fall on the ancestor of a path: the generator looks
  for whole paths only (`occupied_paths`), and a collision of random names is
  too rare for a case.

Not modelled, besides what section 2 leaves out of each module:

- the collection with a thread per stream on other platforms
  (`utils/process.rs:428-513`), the reporting of regression suites, the
  launcher: section 7;
- in comparison, the wording of details, the semantic categories counted for a
  report, and the normalisation of printed dates;
- in generation, modes, the text of names and values, and what a scenario of a
  file-size limit needs;
- option coverage, command line and run configuration, the JSON encoding of
  worlds, the benchmark and scaffold tools, input validation: sequential, and
  without state that a later step could find stale;
- the Dafny core: it is proved where it stands.

## 6. Findings

- `Shrink_listing`, `LinksResolve`.  A test comment at `fuzz/shrink.rs:901`
  says that shrinking must not turn a valid implicit link into a dangling one.
  The guard at `fuzz/shrink.rs:443` looks only at the arguments of the case
  being reduced.  For `ls -L -n -d` it allows a link's target to be deleted,
  and the next reduction drops `-d`: the reduced case is `ls -L -n` with a
  dangling link.
- `Campaign_kept`, `MismatchKept`.  `docs/fuzzing.md:15` says that a campaign
  stops at the first mismatch and saves a repro bundle.  When a candidate of
  the reducer fails to run (a timeout, say), `fuzz/campaign.rs:343` returns
  that error: the mismatch already found is neither saved nor counted.
- `Replay_sharing`, `NotReproducedMeansChanged`.  `docs/fuzzing.md:514-516`
  excludes timestamps from replay decisions.  A replay also demands the same
  decision to share the tree (`fuzz/comparison/compare.rs:293`), and that one
  compares raw timestamps: when the reference does no more than stamp a change
  time, whether the stamp falls into the fixture's own tick decides, and the
  same programs may be reported as `replay_not_reproduced`.

Met while modelling, and not runs of their own:

- Drawing arguments for `mkfifo` under `--max-args 2` panics: its mode may occur
  twice and have a word of its own, the second occurrence is counted with one
  argument, and none of its forms fits (`fuzz/input/pattern.rs:592`).
  `ArgumentsFit` says that this is the only place.
- The comment at `fuzz/input/generators/cp.rs:38-41` keeps links away from `-f`.
  A mutation may replace an argument beside `-f` by a random mode
  (`fuzz/input/mutations.rs:171`), and the mode `-s` is the option that links.
- With `--opts` holding `-t` and `-u` but no `--time`, the `ls` generator falls
  back to `-u` beside `-t` over symlinks, which its own guard is to prevent;
  the option pools of the model hold `--time`.
- Scenarios need not obey the guards of their generator, and some of `ls`
  (11, 15, 22, 23) and `date` (27, 28) do not; `StaysInScope` therefore speaks
  of random cases and of mutations of cases in scope.
- The hard link to a symlink in another directory may dangle even where links
  are drawn with `allow_dangling` off, since the target is relative.
- `printenv`'s normalizer may add two arguments above `--max-args`.
- A rendered diff does not tell `"a"` from `"a\n"`, and the quoted command of a
  bundle drops empty arguments; both are for readers only.
- An explicit case may name as working directory one that exists only as the
  parent of a file; a reduction that drops the file makes it unlaunchable.
- A helper killed between reading GO and exec closes its status pipe empty,
  which reads as a successful exec; `TargetRun` allows it after a kill.

## 7. Plan

Done: all components of section 2, in the order handshake, collection, case
execution, reducer, campaign, metrics, container, bundles and replay, startup,
generation.  Next:

1. `ThreadCollect`: the thread-per-stream variant, whose joins come after the
   deadline's kill (`utils/process.rs:466`).  `CollectionReturns` is the
   question; a descendant that keeps a pipe is the case to look at.
2. The staging archive of the container (`fuzz/container.rs:607`), whose two
   processes are connected by a pipe while a third is read last.
3. `Regression` over `ContainerExecutor`, and the launcher over `Campaign`.
4. Composition: `ExecHandshake`'s collection replaced by `ProcessCollect`, and
   `CaseExecution`'s runs by `TargetRun`.

## 8. Running it

    tlc -workers 2 -config ExecHandshake_safety.cfg MCExecHandshake.tla
    tlapm LaunchProofs.tla

PROJECT.json names the module and the configuration of each run, the lines of
the source behind each definition, the hazards, the findings and the theorems.
