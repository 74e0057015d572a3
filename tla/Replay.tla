--------------------------------- MODULE Replay ---------------------------------
(***************************************************************************)
(* A mismatch from its first evaluation to its replay: the comparison of   *)
(* fuzz/shrink.rs on what two programs did to a fixture, the bundle saved  *)
(* by fuzz/repro.rs while other campaigns save theirs, and run_replay of   *)
(* fuzz/replay.rs, which runs the case again from what the bundle holds.   *)
(*                                                                         *)
(* The programs may be the same in the replay, or the DUT another one.  A  *)
(* replay meets other inode numbers, another clock and other clock ticks.  *)
(***************************************************************************)
EXTENDS BundleStore, Observation, Verdict

CONSTANTS
  Cases,       \* a fixture, and the options that shape the verdict on it
  Behaviours,  \* what a program may do: operations, wait status, output
  Changes,     \* what a DUT may do instead when the bundle is replayed
  Evaluating   \* the campaign whose evaluation this is

ASSUME CasesAssumption ==
  \A c \in Cases :
    /\ c.fixture.body \in Seq(Objects) /\ Len(c.fixture.body) <= Cardinality(Inodes)
    /\ c.fixture.object \in [Paths -> 0 .. Len(c.fixture.body)]
    /\ c.environment \in BOOLEAN /\ c.ignoreStderr \in BOOLEAN

ASSUME BehavioursAssumption ==
  \A b \in Behaviours \cup Changes :
    /\ b.status \in WaitStatuses /\ b.stdout \in Seq(STRING)
    /\ \A i \in DOMAIN b.ops : b.ops[i] \in SystemCalls

ASSUME NoneAssumption ==
  /\ None \notin Signatures
  /\ \A b, c \in Behaviours \cup Changes : None # <<Termination(b.status), Termination(c.status)>>

ASSUME EvaluatingAssumption == Evaluating \in Savers

Rounds == {"original", "replay"}

VARIABLES
  phase,     \* the next step of the evaluation, or the end of all of it
  round,     \* the first evaluation, or the replay
  case,      \* the case
  program,   \* what each of the two programs does
  disk,      \* the live tree
  observer,  \* the handles that the last snapshot before a run opened
  before,    \* that snapshot, while the run lasts
  calls,     \* the system calls the running program has made
  tick,      \* the tick of the clock it runs in
  seen,      \* what was observed of each variant in this round
  sharing,   \* did the DUT get the reference's tree?
  content,   \* what the campaign's manifest says
  first      \* what was observed in the first round

runVars == <<disk, observer, before, calls, tick>>
evalVars == <<phase, round, case, program, runVars, seen, sharing, content, first>>
vars == <<evalVars, storeVars>>

Nothing == [v \in Variants |-> None]

Init ==
  /\ StoreInit
  /\ saver[Evaluating] = "ready"
  /\ phase = "reference"
  /\ round = "original"
  /\ case \in Cases
  /\ program \in [Variants -> Behaviours]
  /\ disk = None
  /\ observer = None
  /\ before = None
  /\ calls = 0
  /\ tick = 0
  /\ seen = Nothing
  /\ sharing = FALSE
  /\ content = None
  /\ first = Nothing

-----------------------------------------------------------------------------
(* One evaluation.                                                         *)

\* A tree staged from the fixture: its objects in the order of their paths,
\* under the lowest numbers or the highest.
Staged(fixture, numbers) ==
  [name |-> [p \in Paths |-> IF fixture.object[p] = 0 THEN Absent ELSE numbers[fixture.object[p]]],
   object |-> [i \in Inodes |->
                 IF \E o \in DOMAIN numbers : numbers[o] = i
                   THEN CHOOSE o \in DOMAIN numbers : numbers[o] = i ELSE 0],
   body |-> fixture.body]

Numberings(fixture) ==
  {[o \in DOMAIN fixture.body |-> o + k] : k \in {0, Cardinality(Inodes) - Len(fixture.body)}}

\* A variant begins to run in a tree whose snapshot was taken through these
\* handles; its times are stamped in the tick of the staging or in a later one.
Begin(fs, o, ticks) ==
  /\ observer' = o
  /\ before' = Snapshot(fs, o)
  /\ disk' = fs
  /\ calls' = 0
  /\ tick' \in ticks

\* The reference gets a new tree.
BeginReference ==
  /\ phase = "reference"
  /\ \E numbers \in Numberings(case.fixture) :
       LET fs == Staged(case.fixture, numbers) IN Begin(fs, Observer(fs), 0 .. 1)
  /\ phase' = "referenceRuns"
  /\ UNCHANGED <<round, case, program, seen, sharing, content, first, storeVars>>

\* A tree the reference left as it was is the DUT's too, and so are the handles
\* on it; else the DUT gets a new one.
BeginDut ==
  /\ phase = "dut"
  /\ sharing' = (seen["reference"].pre = seen["reference"].post)
  /\ \E numbers \in Numberings(case.fixture) :
       LET fs == Staged(case.fixture, numbers) IN
       IF sharing' THEN Begin(disk, observer, {1}) ELSE Begin(fs, Observer(fs), {1})
  /\ phase' = "dutRuns"
  /\ UNCHANGED <<round, case, program, seen, content, first, storeVars>>

Running(v) == phase = IF v = "reference" THEN "referenceRuns" ELSE "dutRuns"

\* A program makes its next system call, while the observer holds its handles.
Call(v) ==
  /\ Running(v)
  /\ calls + 1 \in DOMAIN program[v].ops
  /\ calls' = calls + 1
  /\ disk' = Do(disk, Pinned(observer), program[v].ops[calls'], tick)
  /\ UNCHANGED <<phase, round, case, program, observer, before, tick, seen, sharing, content, first, storeVars>>

\* It has made the last one, and the tree it left is observed.
Observe(v) ==
  /\ Running(v)
  /\ calls + 1 \notin DOMAIN program[v].ops
  /\ LET post == Snapshot(disk, observer) IN
     seen' = [seen EXCEPT ![v] =
       [pre |-> before, post |-> post, identity |-> Transitions(observer, post),
        status |-> program[v].status, stdout |-> program[v].stdout, stderr |-> program[v].stderr]]
  /\ phase' = IF v = "reference" THEN "dut" ELSE "compare"
  /\ before' = None
  /\ UNCHANGED <<round, case, program, disk, observer, calls, tick, sharing, content, first, storeVars>>

Manifest(evidence) ==
  [case |-> case, evidence |-> evidence,
   signature |-> Signature(evidence.comparison, evidence.identity["reference"], evidence.identity["dut"])]

\* An evaluation that fails saves the input it failed on.
Finish(ordered) ==
  LET evidence == Evidence(case, sharing, ordered, seen) IN
  IF ~ValidEvidence(evidence)
    THEN /\ phase' = "failed"
         /\ BeginSave(Evaluating, "failure")
         /\ UNCHANGED <<content, first>>
  ELSE IF IsMatch(evidence.comparison)
    THEN phase' = "match" /\ UNCHANGED <<content, first, storeVars>>
  ELSE IF ~OutcomesAgree(evidence) \/ Manifest(evidence).signature = None
    THEN phase' = "refused" /\ UNCHANGED <<content, first, storeVars>>
  ELSE /\ content' = Manifest(evidence)
       /\ first' = seen
       /\ phase' = "saving"
       /\ BeginSave(Evaluating, "mismatch")

\* finish_case_evaluation and, for a mismatch, the beginning of save_repro_at.
\* The wall clock may have been set back between the two runs.
CompareOriginal ==
  /\ phase = "compare"
  /\ round = "original"
  /\ \E ordered \in BOOLEAN : Finish(ordered)
  /\ UNCHANGED <<round, case, program, runVars, seen, sharing>>

-----------------------------------------------------------------------------
(* The replay of the bundle this campaign wrote, or was writing.           *)

\* decode_manifest: the file parses, its outcomes are wait statuses, and they are
\* those of the comparison.  What it says of directories, images and the umask was
\* computed by the functions that check it.
Decodable(m) ==
  (\A v \in Variants : ValidTermination(m.evidence.outcome[v])) /\ OutcomesAgree(m.evidence)

\* validate_saved_verdict
Acceptable(m) ==
  /\ ValidEvidence(m.evidence)
  /\ ~IsMatch(m.evidence.comparison)
  /\ m.signature =
       Signature(m.evidence.comparison, m.evidence.identity["reference"], m.evidence.identity["dut"])

\* Somebody replays the directory when the campaign is through with it, with the
\* DUT of then, with one that does what the reference does, or with another.
StartReplay ==
  /\ phase = "saving"
  /\ saver[Evaluating] \in SaverEnds
  /\ Evaluating \in creator[Place(Evaluating)]
  /\ \E b \in Changes \cup {program[v] : v \in Variants} : program' = [program EXCEPT !["dut"] = b]
  /\ IF manifest[Place(Evaluating)] = "whole" /\ Decodable(content) /\ Acceptable(content)
       THEN phase' = "reference" /\ round' = "replay"
       ELSE phase' = "rejected" /\ UNCHANGED round
  /\ disk' = None
  /\ observer' = None
  /\ UNCHANGED <<before, calls, tick>>
  /\ seen' = Nothing
  /\ sharing' = FALSE
  /\ UNCHANGED <<case, content, first, storeVars>>

\* The same, had equal signatures been enough.
JudgeBySignature(evidence) == Manifest(evidence).signature = content.signature

Judge(evidence) ==
  /\ Manifest(evidence).signature = content.signature
  /\ evidence.comparison = content.evidence.comparison
  /\ Reproduces(evidence, content.evidence)

CompareReplay ==
  /\ phase = "compare"
  /\ round = "replay"
  /\ \E ordered \in BOOLEAN :
       LET evidence == Evidence(case, sharing, ordered, seen) IN
       phase' = IF ~ValidEvidence(evidence) THEN "failed"
                ELSE IF ~IsMatch(evidence.comparison) /\ Judge(evidence) THEN "reproduced"
                ELSE "notReproduced"
  /\ UNCHANGED <<round, case, program, runVars, seen, sharing, content, first, storeVars>>

-----------------------------------------------------------------------------

\* The other campaigns have their mismatches or failures to save all the time.
RivalSaves(s) ==
  /\ s # Evaluating
  /\ \E what \in Kinds : BeginSave(s, what)
  /\ UNCHANGED evalVars

StoreStep(s) == SaveStep(s) /\ UNCHANGED evalVars

Next ==
  \/ BeginReference \/ BeginDut \/ CompareOriginal
  \/ \E v \in Variants : Call(v) \/ Observe(v)
  \/ StartReplay \/ CompareReplay
  \/ \E s \in Savers : RivalSaves(s) \/ StoreStep(s)

Spec == Init /\ [][Next]_vars

-----------------------------------------------------------------------------
(* Properties.                                                             *)

\* What the observer says of objects and contents is true of the file system:
\* a path is said to have kept its object exactly if it did, though freed numbers
\* are given out again, and every content read is the one that is there, through
\* whichever handle or cache it was read (observe_identity, walk).
ObservationIsTrue ==
  phase \in {"dut", "compare"} =>
    LET observed == seen[IF phase = "dut" THEN "reference" ELSE "dut"]
        object == case.fixture.object
        now(p) == disk.object[disk.name[p]]
    IN /\ DOMAIN observed.post = Names(disk)
       /\ \A p \in Names(disk) : observed.post[p].data = disk.body[now(p)].data
       /\ observed.identity = {pair \in Paths \X Names(disk) : object[pair[1]] = now(pair[2])}

\* No mismatch is lost for want of a signature, and whatever is saved can be
\* replayed: its manifest passes every check replay makes, unless the file itself is
\* cut short (save_repro_at, run_replay).
SavedReplays ==
  /\ phase # "refused"
  /\ phase = "rejected" => manifest[Place(Evaluating)] # "whole"

\* A campaign never fails on a case because of its own evidence: only a clock
\* that was set back does that (finish_case_evaluation).
EvidenceIsValid ==
  phase = "compare" => ValidEvidence(Evidence(case, sharing, TRUE, seen))

\* The same run under other inode numbers and another clock.
Alike(one, other) ==
  /\ \A f \in {"status", "stderr"} : one[f] = other[f] \/ (f = "stderr" /\ case.ignoreStderr)
  /\ Canonical(case, one.stdout) = Canonical(case, other.stdout)
  /\ \E numbers \in Bijection(Inodes, Inodes) :
       \A s \in {"pre", "post"} :
         /\ DOMAIN one[s] = DOMAIN other[s]
         /\ \A p \in DOMAIN one[s] :
              Seen(one[s][p]) = Seen(other[s][p]) /\ numbers[one[s][p].key] = other[s][p].key

\* A replay reports the saved mismatch exactly if both programs did again what
\* they had done, up to a renaming of inode numbers and the clock, and the tree was
\* shared as before: what the evidence leaves out never hides a change, and what it
\* keeps never invents one (ReplayVerdict::reproduces).
ReproducedMeansSame ==
  phase \in {"reproduced", "notReproduced"} =>
    (phase = "reproduced" <=>
       /\ sharing = content.evidence.execution.sharing
       /\ \A v \in Variants : Alike(first[v], seen[v]))

\* docs/fuzzing.md, "Replay a saved mismatch": replay_not_reproduced means that the program now behaves
\* differently, and timestamps are excluded from replay decisions.
NotReproducedMeansChanged ==
  phase = "notReproduced" => \E v \in Variants : ~Alike(first[v], seen[v])

\* The places of the lines of a difference that have one of these marks.
Marked(diff, ops) == {k \in DOMAIN diff : diff[k].op \in ops}

\* The lines with these marks are those of the text, one by one.
Rebuilds(diff, ops, text) ==
  LET upTo(k) == Marked(diff, ops) \cap 1 .. k
      place(k) == Cardinality(upTo(k))
  IN /\ place(Len(diff)) = Len(text)
     /\ \A k \in Marked(diff, ops) : diff[k].line = text[place(k)]

\* The ways to find lines of one text in the other, in the same order.
Alignments(left, right) ==
  {pairs \in SUBSET {c \in (DOMAIN left) \X (DOMAIN right) : left[c[1]] = right[c[2]]} :
     \A c, d \in pairs : c[1] < d[1] <=> c[2] < d[2]}

\* The difference printed with a mismatch rebuilds both outputs and keeps as many
\* lines of one in the other as possible (report_mismatch, diff_lines).
DiffRebuilds ==
  phase = "compare" =>
    LET left == seen["reference"].stdout
        right == seen["dut"].stdout
        diff == DiffLines(left, right)
    IN /\ Rebuilds(diff, {"equal", "remove"}, left)
       /\ Rebuilds(diff, {"equal", "add"}, right)
       /\ \A pairs \in Alignments(left, right) :
            Cardinality(pairs) <= Cardinality(Marked(diff, {"equal"}))

-----------------------------------------------------------------------------
(* The inductive invariant.                                                *)

Staging == {"reference", "dut"}
Runs == {"referenceRuns", "dutRuns"}
Ends == {"failed", "match", "refused", "rejected", "reproduced", "notReproduced"}

ReplayTypeOK ==
  /\ phase \in Staging \cup Runs \cup Ends \cup {"compare", "saving"}
  /\ round \in Rounds
  /\ case \in Cases
  /\ program \in [Variants -> Behaviours \cup Changes]
  /\ DOMAIN seen = Variants
  /\ sharing \in BOOLEAN
  /\ tick \in Nat

\* Every number that is in use is of an object, and no two are of the same.
Tree(fs) ==
  /\ fs \in [name : [Paths -> Inodes \cup {Absent}], object : [Inodes -> Nat], body : Seq(Objects)]
  /\ \A i \in Inodes : fs.object[i] <= Len(fs.body)
  /\ \A i \in Named(fs) : fs.object[i] # 0
  /\ \A i, j \in Inodes : fs.object[i] = fs.object[j] /\ fs.object[i] # 0 => i = j

\* The handles are still on the objects of the fixture they were opened on.
Holds(fs, o, fixture) ==
  /\ DOMAIN o.identities \subseteq Inodes
  /\ DOMAIN o.files \cup DOMAIN o.symlinks \subseteq DOMAIN o.identities
  /\ \A i \in DOMAIN o.files : o.files[i] = fs.object[i]
  /\ \A i \in DOMAIN o.symlinks :
       LET body == fs.body[fs.object[i]] IN body.kind = "symlink" /\ body.data = o.symlinks[i]
  /\ \A i \in DOMAIN o.identities :
       fs.object[i] # 0 /\ o.identities[i] = {p \in Paths : fixture.object[p] = fs.object[i]}
  /\ \A p \in Paths : fixture.object[p] # 0 => \E i \in DOMAIN o.identities : fixture.object[p] = fs.object[i]

Disk ==
  phase \in Runs \cup {"dut", "compare"} => Tree(disk) /\ Holds(disk, observer, case.fixture)

\* What the handles remember of a tree is what its snapshot says.
Remembered(o, pre) ==
  /\ DOMAIN pre \subseteq Paths /\ \A p \in DOMAIN pre : pre[p].key \in Inodes
  /\ DOMAIN o.identities = {pre[p].key : p \in DOMAIN pre}
  /\ \A i \in DOMAIN o.identities : o.identities[i] = {p \in DOMAIN pre : pre[p].key = i}

\* An observation in itself, and what is there.
Consistent(obs) ==
  /\ obs.status \in {b.status : b \in Behaviours \cup Changes}
  /\ obs.stdout \in {b.stdout : b \in Behaviours \cup Changes}
  /\ \A s \in {"pre", "post"} : DOMAIN obs[s] \subseteq Paths /\ \A p \in DOMAIN obs[s] : obs[s][p].key \in Inodes
  /\ obs.identity =
       {pair \in (DOMAIN obs.pre) \X (DOMAIN obs.post) : obs.pre[pair[1]].key = obs.post[pair[2]].key}

Latest(obs) == obs.post = Snapshot(disk, observer) /\ obs.identity = Transitions(observer, obs.post)

Alone(pre) == sharing => seen["reference"].pre = pre /\ seen["reference"].post = pre

Records ==
  /\ phase \in Runs => Remembered(observer, before)
  /\ phase \in {"dut", "dutRuns", "compare"} => Consistent(seen["reference"])
  /\ phase = "dut" => Latest(seen["reference"]) /\ Remembered(observer, seen["reference"].pre)
  /\ phase = "dutRuns" => Alone(before)
  /\ phase = "compare" => Latest(seen["dut"]) /\ Consistent(seen["dut"]) /\ Alone(seen["dut"].pre)

\* What was saved is the evidence of the first round, which was a mismatch.
Saved ==
  phase \in {"saving", "rejected", "reproduced", "notReproduced"} \/ round = "replay" =>
    \E shared \in BOOLEAN :
      LET evidence == Evidence(case, shared, TRUE, first) IN
      /\ content = Manifest(evidence)
      /\ ValidEvidence(evidence) /\ ~IsMatch(evidence.comparison)
      /\ \A v \in Variants : Consistent(first[v])

\* Nobody completes a manifest that was found cut short.
Rejected ==
  phase = "rejected" =>
    /\ saver[Evaluating] \in SaverEnds
    /\ Evaluating \in creator[Place(Evaluating)]
    /\ manifest[Place(Evaluating)] # "whole"

ReplayInv ==
  ReplayTypeOK /\ StoreInv /\ Disk /\ Records /\ Saved /\ Rejected /\ phase # "refused" /\ ReproducedMeansSame

=============================================================================
