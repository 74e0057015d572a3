--------------------------------- MODULE Verdict ---------------------------------
(***************************************************************************)
(* The verdict on one case: fuzz/comparison/compare.rs, process_outcome.rs *)
(* and evaluation.rs.  What was observed of a variant is a record of its   *)
(* two snapshots, its identity transitions, its wait status and its        *)
(* streams.  A comparison lists what differs; the evidence kept with it is *)
(* checked against itself before it is saved and before it is replayed,    *)
(* and abstracted from inode numbers and clocks when it is replayed.       *)
(***************************************************************************)
EXTENDS Naturals, FiniteSets, Sequences, SequencesExt

CONSTANT None   \* no signature, no difference

Variants == {"reference", "dut"}

-----------------------------------------------------------------------------
(* Process outcomes.                                                       *)

\* Termination::from_status of a raw wait status: a code in the high byte, or
\* a signal in the low seven bits and the core flag above them.
Termination(raw) ==
  IF raw % 128 = 0
    THEN [kind |-> "exit", code |-> (raw \div 256) % 256, raw |-> raw]
    ELSE [kind |-> "signal", signal |-> raw % 128, core |-> (raw \div 128) % 2 = 1, raw |-> raw]

\* The same, had the core flag been forgotten.
ValidWithoutCore(t) ==
  \/ t.kind = "exit" /\ t.code \in 0 .. 255 /\ t.raw = t.code * 256
  \/ t.kind = "signal" /\ t.signal \in 1 .. 126 /\ t.raw = t.signal

ValidTermination(t) ==
  \/ t.kind = "exit" /\ t.code \in 0 .. 255 /\ t.raw = t.code * 256
  \/ t.kind = "signal" /\ t.signal \in 1 .. 126 /\ t.raw = t.signal + (IF t.core THEN 128 ELSE 0)

\* What wait reports of a process that has ended.
WaitStatuses == {256 * code : code \in 0 .. 255} \cup {signal + 128 * core : signal \in 1 .. 126, core \in 0 .. 1}

-----------------------------------------------------------------------------
(* Streams.  An output is a sequence of records; printenv without operands *)
(* prints the environment, in an order that means nothing.                 *)

Canonical(case, stdout) ==
  IF case.environment
    THEN [r \in Range(stdout) |-> Cardinality({i \in DOMAIN stdout : stdout[i] = r})]
    ELSE stdout

\* The cells of the table of diff_lines: what is left of one text from the first
\* place on, and of the other from the second.
Cells(left, right) == (1 .. Len(left) + 1) \X (1 .. Len(right) + 1)

Below(c) == <<c[1] + 1, c[2]>>
Beside(c) == <<c[1], c[2] + 1>>
Across(c) == <<c[1] + 1, c[2] + 1>>

\* The same table, had the loops that fill it left out the last line of each text.
CommonButLast(left, right) ==
  LET lcs[c \in Cells(left, right)] ==
        IF c[1] >= Len(left) \/ c[2] >= Len(right) THEN 0
        ELSE IF left[c[1]] = right[c[2]] THEN lcs[Across(c)] + 1
        ELSE IF lcs[Below(c)] >= lcs[Beside(c)] THEN lcs[Below(c)] ELSE lcs[Beside(c)]
  IN lcs

\* The lengths of the common subsequences of what is left of both texts.
Common(left, right) ==
  LET lcs[c \in Cells(left, right)] ==
        IF c[1] > Len(left) \/ c[2] > Len(right) THEN 0
        ELSE IF left[c[1]] = right[c[2]] THEN lcs[Across(c)] + 1
        ELSE IF lcs[Below(c)] >= lcs[Beside(c)] THEN lcs[Below(c)] ELSE lcs[Beside(c)]
  IN lcs

Mark(op, line) == <<[op |-> op, line |-> line]>>

\* The lines of a shortest edit from one output to the other (diff_lines).
DiffLines(left, right) ==
  LET lcs == Common(left, right)
      from[c \in Cells(left, right)] ==
        IF c[1] > Len(left) /\ c[2] > Len(right) THEN <<>>
        ELSE IF c[1] > Len(left) THEN Mark("add", right[c[2]]) \o from[Beside(c)]
        ELSE IF c[2] > Len(right) THEN Mark("remove", left[c[1]]) \o from[Below(c)]
        ELSE IF left[c[1]] = right[c[2]] THEN Mark("equal", left[c[1]]) \o from[Across(c)]
        ELSE IF lcs[Below(c)] >= lcs[Beside(c)] THEN Mark("remove", left[c[1]]) \o from[Below(c)]
        ELSE Mark("add", right[c[2]]) \o from[Beside(c)]
  IN from[<<1, 1>>]

-----------------------------------------------------------------------------
(* Comparison.                                                             *)

\* Pairs of paths that name one object.
Aliases(snapshot) ==
  {pair \in (DOMAIN snapshot) \X (DOMAIN snapshot) :
     pair[1] # pair[2] /\ snapshot[pair[1]].key = snapshot[pair[2]].key}

\* fs_nodes_match with compare_times off: neither numbers nor times count.
Seen(node) == [kind |-> node.kind, data |-> node.data, links |-> node.links]

FsDifferences(ref, dut) ==
  LET r == ref.post
      d == dut.post
  IN [added |-> DOMAIN d \ DOMAIN r, removed |-> DOMAIN r \ DOMAIN d,
      changed |-> {p \in DOMAIN r \cap DOMAIN d : Seen(r[p]) # Seen(d[p])},
      aliases |-> Aliases(r) # Aliases(d), identity |-> ref.identity # dut.identity]

NoFsDifference ==
  [added |-> {}, removed |-> {}, changed |-> {}, aliases |-> FALSE, identity |-> FALSE]

\* compare_results_with_roots
Compare(case, ref, dut) ==
  [process |-> IF ref.status = dut.status THEN None
               ELSE <<Termination(ref.status), Termination(dut.status)>>,
   stdout |-> Canonical(case, ref.stdout) # Canonical(case, dut.stdout),
   stderr |-> ~case.ignoreStderr /\ ref.stderr # dut.stderr,
   fs |-> FsDifferences(ref, dut)]

IsMatch(comparison) ==
  comparison = [process |-> None, stdout |-> FALSE, stderr |-> FALSE, fs |-> NoFsDifference]

Signatures == {"process_outcome", "stdout", "stderr", "identity_transition", "filesystem"}

\* mismatch_signature: the first of the differences in this order.
Signature(comparison, refIdentity, dutIdentity) ==
  IF comparison.process # None THEN "process_outcome"
  ELSE IF comparison.stdout THEN "stdout"
  ELSE IF comparison.stderr THEN "stderr"
  ELSE IF refIdentity # dutIdentity THEN "identity_transition"
  ELSE IF comparison.fs # NoFsDifference THEN "filesystem"
  ELSE None

-----------------------------------------------------------------------------
(* Evidence.                                                               *)

\* replay_fs_evidence.  After a run, each node says whether its time moved.
FsEvidence(snapshot, pre, isPost) ==
  [nodes |->
     [p \in DOMAIN snapshot |->
        [seen |-> Seen(snapshot[p]), key |-> snapshot[p].key, time |-> snapshot[p].time,
         changed |-> isPost /\ (p \in DOMAIN pre => pre[p].time # snapshot[p].time)]],
   aliases |-> Aliases(snapshot)]

\* replay_verdict_with_roots, with the execution evidence put into it after.
Evidence(case, sharing, ordered, obs) ==
  [execution |-> [sharing |-> sharing, ordered |-> ordered],
   comparison |-> Compare(case, obs["reference"], obs["dut"]),
   outcome |-> [v \in Variants |-> Termination(obs[v].status)],
   stdout |-> [v \in Variants |-> Canonical(case, obs[v].stdout)],
   stderr |-> [v \in Variants |-> IF case.ignoreStderr THEN "ignored" ELSE obs[v].stderr],
   identity |-> [v \in Variants |-> obs[v].identity],
   pre |-> [v \in Variants |-> FsEvidence(obs[v].pre, obs[v].pre, FALSE)],
   post |-> [v \in Variants |-> FsEvidence(obs[v].post, obs[v].pre, TRUE)]]

SameKey(before, after) ==
  {pair \in (DOMAIN before.nodes) \X (DOMAIN after.nodes) :
     before.nodes[pair[1]].key = after.nodes[pair[2]].key}

\* The two runs were made one after the other by the wall clock, the numbers
\* agree with what was made of them, and so do the times.
IdentityAgrees(e) ==
  \A v \in Variants :
    /\ e.identity[v] = SameKey(e.pre[v], e.post[v])
    /\ \A s \in {e.pre[v], e.post[v]} : s.aliases = {pair \in SameKey(s, s) : pair[1] # pair[2]}

TimesAgree(e) ==
  \A v \in Variants :
    /\ \A p \in DOMAIN e.pre[v].nodes : ~e.pre[v].nodes[p].changed
    /\ \A p \in DOMAIN e.post[v].nodes :
         e.post[v].nodes[p].changed =
           (p \in DOMAIN e.pre[v].nodes => e.pre[v].nodes[p].time # e.post[v].nodes[p].time)

\* A shared tree was left alone by the reference and is what the DUT got.
SharingAgrees(e) ==
  e.execution.sharing =>
    e.pre["reference"] = e.post["reference"] /\ e.post["reference"] = e.pre["dut"]

\* validate_time_evidence
ValidEvidence(e) ==
  e.execution.ordered /\ IdentityAgrees(e) /\ TimesAgree(e) /\ SharingAgrees(e)

\* validate_process_outcome_consistency
OutcomesAgree(e) ==
  IF e.comparison.process # None
    THEN /\ e.comparison.process = <<e.outcome["reference"], e.outcome["dut"]>>
         /\ e.outcome["reference"] # e.outcome["dut"]
    ELSE e.outcome["reference"] = e.outcome["dut"]

\* replay_comparison_evidence: what has to come back in a replay.  Numbers,
\* times and clock readings are left out; whether the tree was shared is not.
Replayable(e) ==
  LET abstract(s) == [nodes |-> [p \in DOMAIN s.nodes |-> s.nodes[p].seen], aliases |-> s.aliases]
  IN [e EXCEPT !.execution = [sharing |-> e.execution.sharing],
               !.pre = [v \in Variants |-> abstract(e.pre[v])],
               !.post = [v \in Variants |-> abstract(e.post[v])]]

Reproduces(e, saved) == Replayable(e) = Replayable(saved)

=============================================================================
