--------------------------------- MODULE Shrink ---------------------------------
(***************************************************************************)
(* shrink_mismatch_with_executor of fuzz/shrink.rs: a mismatching case is  *)
(* reduced greedily, one reduction at a time, for as long as the smaller   *)
(* case still mismatches with the same signature, within a budget of       *)
(* evaluations.                                                            *)
(*                                                                         *)
(* A case is a record: its argv as a sequence of arguments, its fixture,   *)
(* the length of its stdin and its working directory.  An evaluation runs  *)
(* both programs anew.  What it finds is up to them, and need not be a     *)
(* function of the case: it may match, mismatch with any signature, or     *)
(* fail (a timeout, a helper that could not start).  A candidate that      *)
(* cannot be staged always fails.                                          *)
(***************************************************************************)
EXTENDS Fixture, LsArguments, FiniteSets, TLC

CONSTANTS
  Originals,       \* the cases that may have mismatched
  Signatures,      \* the kinds of difference, MismatchSignature
  NoSignature,     \* a match has none
  Programs,        \* the pairs of programs that may be compared
  Outcomes(_, _),  \* what an evaluation of such a pair on a case may find
  Unsupported,     \* the argvs accepts_candidate refuses
  MaxAttempts      \* --shrink-attempts

Cases == [argv : Seq(STRING), fixture : Blueprints, stdin : Nat, cwd : Path]

ASSUME OriginalsAssumption == Originals \subseteq Cases
ASSUME AttemptsAssumption == MaxAttempts \in Nat
ASSUME SignaturesAssumption == NoSignature \notin Signatures

VARIABLES
  pc,        \* "begin", "pass" while reductions are tried, "done", "failed"
  programs,  \* the reference and the DUT
  original,  \* the evaluation handed in
  best,      \* the smallest evaluation that still mismatches
  next,      \* which reduction of best comes next
  attempts,  \* the attempts counted so far
  used,      \* the work directories used, numbered above those of the campaign
  refused    \* the reductions of best evaluated and not accepted

vars == <<pc, programs, original, best, next, attempts, used, refused>>

-----------------------------------------------------------------------------
(* Reductions, in the order in which the code lists them.                  *)

\* The entries of a list at these places.
Chosen(s, places) ==
  FoldLeftDomain(LAMBDA chosen, i : IF i \in places THEN Append(chosen, s[i]) ELSE chosen, <<>>, s)

Without(s, i) == Chosen(s, DOMAIN s \ {i})

Kept(hardlinks, removed) ==
  Chosen(hardlinks, {i \in DOMAIN hardlinks : hardlinks[i].source # removed})

\* A list of one candidate, or of none.
Only(condition, candidate) == IF condition THEN <<candidate>> ELSE <<>>

ReduceArgv(c) ==
  LET reduced == [i \in DOMAIN c.argv |-> [c EXCEPT !.argv = Without(@, i)]] IN
  IF Len(c.argv) <= 1 THEN <<>>
  ELSE Chosen(reduced, {i \in DOMAIN reduced : reduced[i].argv \notin Unsupported})

PopHardlink(c) ==
  Only(c.fixture.hardlinks # <<>>, [c EXCEPT !.fixture.hardlinks = Front(@)])

PopSymlink(c) ==
  Only(c.fixture.symlinks # <<>>,
       [c EXCEPT !.fixture.symlinks = Front(@),
                            !.fixture.hardlinks = Kept(@, Last(c.fixture.symlinks).path)])

\* The same, had the aliases of the file been left in the fixture.
PopFileOnly(c) ==
  Only(Len(c.fixture.files) > 1, [c EXCEPT !.fixture.files = Front(@)])

PopFile(c) ==
  Only(Len(c.fixture.files) > 1,
       [c EXCEPT !.fixture.files = Front(@),
                            !.fixture.hardlinks = Kept(@, Last(c.fixture.files).path)])

\* The last directory that does not lead to the working directory.
Removable(c) == {i \in DOMAIN c.fixture.directories : ~ IsPrefix(c.fixture.directories[i], c.cwd)}

RemoveDirectory(c) ==
  Only(Len(c.fixture.directories) > 1 /\ Removable(c) # {},
       [c EXCEPT !.fixture.directories = Without(@, Max(Removable(c)))])

ReduceFixture(c) == PopHardlink(c) \o PopSymlink(c) \o PopFile(c) \o RemoveDirectory(c)

ReduceContents(c) ==
  LET files == c.fixture.files
      reduced == [i \in DOMAIN files |-> [c EXCEPT !.fixture.files[i].size = @ \div 2]]
  IN Chosen(reduced, {i \in DOMAIN files : files[i].size > 0})

\* The same, had an empty stdin been halved too.
ReduceAnyStdin(c) == <<[c EXCEPT !.stdin = @ \div 2]>>

ReduceStdin(c) == Only(c.stdin > 0, [c EXCEPT !.stdin = @ \div 2])

ReduceCwd(c) == Only(c.cwd # <<>>, [c EXCEPT !.cwd = <<>>])

Reductions(c) ==
  ReduceArgv(c)
    \o (IF RequiresResolvable(c.argv) THEN <<>> ELSE ReduceFixture(c))
    \o ReduceContents(c) \o ReduceStdin(c) \o ReduceCwd(c)

-----------------------------------------------------------------------------
(* The loop.                                                               *)

\* Can the case be staged and both programs be started in it?
Launchable(c) ==
  LET tree == Materialised(c.fixture) IN
  tree # Broken /\ c.cwd \in DOMAIN tree /\ tree[c.cwd] = "directory"

\* A case whose working directory is listed in its fixture, or the root.
Staged(c) == ValidFixture(c.fixture) /\ c.cwd \in {<<>>} \cup ToSet(c.fixture.directories)

Evaluations == [case : Originals, signature : Signatures \cup {NoSignature}]

Init ==
  /\ pc = "begin"
  /\ programs \in Programs
  /\ original \in Evaluations
  /\ original.signature \in Outcomes(programs, original.case)
  /\ best = original
  /\ next = 1
  /\ attempts = 0
  /\ used = {}
  /\ refused = {}

Candidate == Reductions(best.case)[next]

Begin ==
  /\ pc = "begin"
  /\ pc' = IF MaxAttempts = 0 \/ original.signature = NoSignature THEN "done" ELSE "pass"
  /\ UNCHANGED <<programs, original, best, next, attempts, used, refused>>

\* The next reduction is evaluated in a work directory of its own.
Evaluate ==
  /\ pc = "pass"
  /\ next <= Len(Reductions(best.case))
  /\ attempts < MaxAttempts
  /\ attempts' = attempts + 1
  /\ used' = used \cup {attempts'}
  /\ UNCHANGED <<programs, original>>

\* The same, had the loop over the reductions gone on where it was.
AcceptInPlace ==
  /\ Evaluate
  /\ Launchable(Candidate)
  /\ \E s \in Outcomes(programs, Candidate) :
       s = original.signature /\ best' = [case |-> Candidate, signature |-> s]
  /\ next' = next
  /\ refused' = {}
  /\ UNCHANGED pc

\* The same, had any mismatch been good enough.
AcceptAnyMismatch ==
  /\ Evaluate
  /\ Launchable(Candidate)
  /\ \E s \in Outcomes(programs, Candidate) \ {NoSignature} :
       best' = [case |-> Candidate, signature |-> s]
  /\ next' = 1
  /\ refused' = {}
  /\ UNCHANGED pc

\* The smaller case still shows the difference: start over from it.
Accept ==
  /\ Evaluate
  /\ Launchable(Candidate)
  /\ \E s \in Outcomes(programs, Candidate) :
       s = original.signature /\ best' = [case |-> Candidate, signature |-> s]
  /\ next' = 1
  /\ refused' = {}
  /\ UNCHANGED pc

\* It matches, or differs in another way.
Refuse ==
  /\ Evaluate
  /\ Launchable(Candidate)
  /\ \E s \in Outcomes(programs, Candidate) : s # original.signature
  /\ next' = next + 1
  /\ refused' = refused \cup {Candidate}
  /\ UNCHANGED <<pc, best>>

\* The candidate could not be evaluated, and the error is the result.
Fail ==
  /\ Evaluate
  /\ pc' = "failed"
  /\ UNCHANGED <<best, next, refused>>

\* The attempt that would exceed the budget ends the search.
OutOfBudget ==
  /\ pc = "pass"
  /\ next <= Len(Reductions(best.case))
  /\ attempts >= MaxAttempts
  /\ attempts' = attempts + 1
  /\ pc' = "done"
  /\ UNCHANGED <<programs, original, best, next, used, refused>>

\* A whole pass accepted nothing.
Finish ==
  /\ pc = "pass"
  /\ next > Len(Reductions(best.case))
  /\ pc' = "done"
  /\ UNCHANGED <<programs, original, best, next, attempts, used, refused>>

Next == Begin \/ Accept \/ Refuse \/ Fail \/ OutOfBudget \/ Finish

Spec == Init /\ [][Next]_vars

-----------------------------------------------------------------------------
(* Properties.                                                             *)

\* What the variables hold; a counted attempt may exceed the budget by one.
TypeOK ==
  /\ pc \in {"begin", "pass", "done", "failed"}
  /\ programs \in Programs
  /\ original \in Evaluations
  /\ best.signature \in Signatures \cup {NoSignature}
  /\ next \in Nat \ {0}
  /\ attempts \in 0 .. MaxAttempts + 1
  /\ used \subseteq Nat

\* No more evaluations than --shrink-attempts, each in a work directory that
\* no earlier evaluation used (fuzz/shrink.rs:391-396).
Budget == used \subseteq 1 .. MaxAttempts

\* The inductive invariant behind it.
IInv ==
  /\ attempts \in Nat
  /\ used \subseteq 1 .. attempts
  /\ Budget

\* Each evaluation uses a work directory no earlier one used
\* (fuzz/shrink.rs:396): none starts in what another left behind.
FreshDirectory ==
  [][refused' # refused \/ best' # best => attempts' \in used' \ used]_vars

\* A search that ends within its budget ends at a case none of whose
\* reductions, all of them evaluated since it was accepted, still shows the
\* difference (fuzz/shrink.rs:409-414).
LocalMinimum ==
  pc = "done" /\ original.signature # NoSignature /\ attempts <= MaxAttempts /\ MaxAttempts > 0
    => ToSet(Reductions(best.case)) \subseteq refused

\* What the search returns is a repro of the bug it was given and a smallest one,
\* in terms of the programs and not of the search: they can show the original's
\* difference on it, whatever else they show on the cases on the way, and, unless
\* the budget ended the search, there is no reduction of it on which they always
\* show that difference (fuzz/shrink.rs:388-417).
MinimalRepro ==
  pc = "done" /\ original.signature # NoSignature =>
    /\ original.signature \in Outcomes(programs, best.case)
    /\ MaxAttempts > 0 /\ attempts <= MaxAttempts =>
         \A c \in ToSet(Reductions(best.case)) : Outcomes(programs, c) # {original.signature}

\* The same of the search as far as it has got.
Repro ==
  /\ original.signature \in Outcomes(programs, best.case)
  /\ \A c \in refused : Outcomes(programs, c) # {original.signature}

\* What a case is made of.
Bytes(files) == UNION {{i} \X (1 .. files[i].size) : i \in DOMAIN files}

Weight(c) ==
  Len(c.argv) + Len(c.fixture.hardlinks) + Len(c.fixture.symlinks) + Len(c.fixture.files)
    + Len(c.fixture.directories) + c.stdin + Len(c.cwd) + Cardinality(Bytes(c.fixture.files))

\* Every accepted case is smaller, so that the search ends whatever its
\* budget is and however the programs answer (the reductions of
\* fuzz/shrink.rs:440-541).
Smaller ==
  [][used' # used /\ next' = 1 /\ pc' = "pass" => Weight(best'.case) < Weight(best.case)]_vars

\* "Reducing a mismatch from a generated cwd must leave every candidate
\* launchable there" (fuzz/shrink.rs:783): its fixture is valid, can be put on
\* disk, and holds the working directory, after any number of reductions.
CandidatesLaunch ==
  \A c \in ToSet(Reductions(best.case)) : ValidFixture(c.fixture) /\ Launchable(c)

\* "Metadata-producing -L shrinking must not turn a valid implicit link into a
\* dangling one" (fuzz/shrink.rs:901).
LinksResolve ==
  \A c \in ToSet(Reductions(best.case)) :
    RequiresResolvable(c.argv) => \A s \in ToSet(c.fixture.symlinks) : ~ Dangles(c.fixture, s)
=============================================================================
