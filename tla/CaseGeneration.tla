----------------------------- MODULE CaseGeneration -----------------------------
(***************************************************************************)
(* Where the cases of a campaign come from (fuzz/case_source.rs,           *)
(* fuzz/input.rs and fuzz/input/mutations.rs): a case set, a hand-written  *)
(* scenario, a random case, or the mutation of a case that was interesting *)
(* before, which may itself be a mutation, and so on.                      *)
(*                                                                         *)
(* A state is the latest case.  Any earlier one may be the base of a       *)
(* mutation, so it is enough to mutate the latest, in chains of any        *)
(* length.  Random contents are one unit or none.                          *)
(***************************************************************************)
EXTENDS Scenarios

CONSTANT
  Campaigns \* [util, pool, maxArgs, maxEntries, cases]: the pool of options,
            \* and the cases of a case set

\* What the entries of fixtures are called, a blank or tab in a name written as
\* a dash.  Strings all of them, which a proof has to be told of a literal and
\* TLC finds out.
ASSUME NamesAssumption ==
  {"..", ".", "d", "e", "f", "l", "h", "gone", "dir", "a.txt", "b.txt", "target.txt",
   "a-link", "dir-link", "loop", "dangling", "missing", "occupied", "child", "left.txt",
   "right.txt", "split.txt", "dups.txt", "case.txt", "empty.txt", "payload.bin", "nul.txt",
   "chmod-target", "chmod-file-link", "chmod-dir-link", "chmod-dangling-link",
   "chmod-missing-target", "chmod-cycle-a", "chmod-cycle-b", "__rp-dir", "__rp-blocked",
   "__rp-file", "__rp-link", "__rp-dangling", "__rp-loop", "__rp-cycle-a", "__rp-cycle-b",
   "__rp-cycle-c", "__rp-dot", "left0.txt", "right0.txt", "du-input-0", "du-input-1",
   "du-input-2", "left", "right", "colon-left", "colon-right", "nul-left", "nul-right",
   "zero-left", "zero-right", "blank-name", "unreadable", "a:b", "empty", "tree",
   "zzz-large", "aaa-small", "visible", "large", ".hidden", "leaf", "file-link",
   "dangling-link", "missing-target", "back", "visible-hard", "regular", "regular-link",
   "missing-stat-target", "regular-hard", "alias", "denied", "graph", "root-file", "setuid",
   "quote'file", "e'", "tab-file", "cycle-a", "cycle-b", "blocked", "nested", "read-only",
   "cycle", "target.txt.~3~", "target.txt.~7~", "alias2", "--help", "slink", "absent",
   "srcdir", "empty-dest", "full-dest", "file.txt", "kept.txt", "loop-a", "loop-b",
   "__rp-chain-00", "__rp-chain-47", "keep", "link", "empty-link", "missing-link", "chain",
   "nonempty", "missing.txt", "target"} \subseteq STRING

\* A campaign is of a utility that has a generator, and --max-entries is a count.
ASSUME CampaignsAssumption ==
  \A c \in Campaigns : c.util \in DOMAIN Scenarios /\ c.maxEntries \in Nat

VARIABLES
  campaign,
  origin, \* "none" yet, "again" where a random case must be drawn, or CaseOrigin
  case    \* the case selected last

caseVars == <<campaign, origin, case>>

util == campaign.util

-----------------------------------------------------------------------------

NoCase == [argv |-> <<>>, fixture |-> NoFixture, stdin |-> 0, cwd |-> <<>>]

\* Only the number of arguments is kept where no guard looks at them.
GeneratedArgvs(f) ==
  LET argvs == Argvs(Pattern(util), campaign.pool, campaign.maxArgs, f) IN
  IF util \in Plain THEN {Numbered(a) : a \in argvs} ELSE argvs

\* requires_resolvable_fixture
MustResolve(argv) == util = "ls" /\ RequiresResolvable(argv)

\* What generate_case gives of a fixture: with the first arguments that do
\* without every link, or with arguments drawn anew for one without a
\* dangling link.
Drawn ==
  {d \in UNION {{[fixture |-> f, argv |-> a] : a \in GeneratedArgvs(f)} :
                  f \in SystemStates(util, campaign.maxEntries)} : ~ MustResolve(d.argv)}
    \cup (IF util # "ls" THEN {}
          ELSE UNION {{[fixture |-> f, argv |-> a] : a \in GeneratedArgvs(f)} :
                        f \in RandomFixtures(campaign.maxEntries, FALSE)})

\* generate_case
GeneratedCases ==
  LET At(d, w) ==
        {Normalized(util, [argv |-> d.argv, fixture |-> d.fixture, stdin |-> n, cwd |-> w]) : n \in Contents}
  IN UNION {UNION {At(d, w) : w \in Cwds(util, d.fixture, FALSE)} : d \in Drawn}

\* The argument mutation of a generator; one that begins anew does so too
\* where there is nothing to change.
MutateArgv(c) ==
  {[c EXCEPT !.argv = a] :
     a \in GeneratedArgvs(c.fixture)
             \cup (IF util \in RegenerateArgv \/ c.argv = <<>> THEN {}
                   ELSE MutatedArgvs(util, c.argv, campaign.maxArgs, c.fixture))}

MutateStdin(c) ==
  {[c EXCEPT !.stdin = n] : n \in Contents \cup {c.stdin \div 2}}

\* Of the files, the first and the last stand for all.
MutateContents(c) ==
  IF c.fixture.files = <<>> THEN {c}
  ELSE UNION {{[c EXCEPT !.fixture.files[i].size = n] : n \in Contents} : i \in {1, Len(c.fixture.files)}}

MutateCwd(c) == {[c EXCEPT !.cwd = w] : w \in Cwds(util, c.fixture, TRUE)}

Mutations(c) ==
  (IF util \in RegenerateCaseOnArgvMutation THEN {} ELSE MutateArgv(c))
    \cup MutateStdin(c) \cup MutateContents(c) \cup MutateCwd(c)

-----------------------------------------------------------------------------

CaseInit ==
  /\ campaign \in Campaigns
  /\ origin = "none"
  /\ case = NoCase

\* A case set is decoded only if every fixture in it is valid and every
\* working directory stays below the root.
SelectExplicit ==
  /\ origin = "none"
  /\ origin' = "explicit"
  /\ case' \in {c \in campaign.cases : ValidFixture(c.fixture) /\ Normal(c.cwd) # Escape}
  /\ UNCHANGED campaign

SelectScenario ==
  /\ origin = "none"
  /\ origin' = "scenario"
  /\ case' \in Scenarios[util]
  /\ UNCHANGED campaign

SelectRandom ==
  /\ origin \in {"none", "again"}
  /\ origin' = "random"
  /\ case' \in GeneratedCases
  /\ UNCHANGED campaign

\* There is a case to begin with, and drawing it did not end the campaign.
Mutable == origin \in {"scenario", "random", "mutation"} /\ case.argv # Panic

\* One of the changes, had the changed case been taken as it is.
MutateOnly ==
  /\ Mutable
  /\ case' \in Mutations(case)
  /\ origin' = "mutation"
  /\ UNCHANGED campaign

\* One of the changes, after which the case is normalized and its arguments
\* are looked at once more.
Mutate ==
  /\ Mutable
  /\ \E c \in Mutations(case) :
       LET n == Normalized(util, c) IN
       /\ AcceptsMutation(util, n.argv)
       /\ case' = n
       /\ origin' = "mutation"
  /\ UNCHANGED campaign

\* The fifth kind of mutation, and what becomes of refused arguments and of
\* the argument mutation of a generator that regenerates the case.
MutateAnew ==
  /\ Mutable
  /\ origin' = "again"
  /\ case' = NoCase
  /\ UNCHANGED campaign

CaseNext == SelectExplicit \/ SelectScenario \/ SelectRandom \/ Mutate \/ MutateAnew

-----------------------------------------------------------------------------
(* Properties.                                                             *)

\* What a generator promises of its arguments: the guards, "-" at most once
\* for head (allow_repeated_stdin), no access-time sort over links and no
\* dangling link where each one is looked into for ls.
WithinSlice(c) ==
  /\ AcceptsCandidate(util, c.argv)
  /\ AcceptsMutation(util, c.argv)
  /\ util = "head" => Len(SelectSeq(c.argv, LAMBDA a : a = "-")) <= 1
  /\ util = "ls" /\ c.fixture.symlinks # <<>> => ~ {"-t", "-u"} \subseteq ToSet(c.argv)
  /\ MustResolve(c.argv) => \A s \in ToSet(c.fixture.symlinks) : ~ Dangles(c.fixture, s)

\* "relationships between arguments and supplied inputs" (normalize_case).
InputSupplied(c) ==
  CASE util = "comm" -> Len(SelectSeq(c.argv, LAMBDA a : a = "-")) = 1 => c.stdin > 0
    [] util = "csplit" -> c.argv # <<>> /\ c.argv[1] = "-" => c.stdin > 0
    [] util = "expand" -> c.stdin > 0
    [] util = "join" -> "-" \in ToSet(c.argv) /\ c.fixture.files[1].size > 0 => c.stdin > 0
    [] util = "printenv" -> ~ ToSet(c.argv) \subseteq {"-0"}
    [] util = "tsort" -> \E x \in ToSet(c.fixture.files) : x.path = <<"graph">> /\ x.size = c.stdin
    [] OTHER -> TRUE

InScope(c) == WithinSlice(c) /\ InputSupplied(c)

\* A random case lies within what its generator promises (the guards of
\* fuzz/input/generators), and no chain of mutations of such a case leads out
\* of it (fuzz/input/mutations.rs:46-76): what both programs are run on stays
\* what the benchmark specifies.
StaysInScope ==
  [][case' # case /\ origin' \in {"random", "mutation"}
       => InScope(case') \/ (origin' = "mutation" /\ ~ InScope(case))]_caseVars

\* The most arguments a pattern can need, or may have; printenv adds two.
ArgumentLimit ==
  Max({campaign.maxArgs, 1} \cup {MinimumTokens(a.elements, campaign.pool) : a \in Eligible(Pattern(util), campaign.pool)})
    + (IF util = "printenv" THEN 2 ELSE 0)

\* Drawing arguments panics in one place only: where mkfifo may have two of
\* them, both for one mode, and is to have another mode (an empty range at
\* fuzz/input/pattern.rs:592).  A case has no more arguments than --max-args
\* or than its pattern needs, however often it is mutated
\* (fuzz/input/pattern.rs:395-447, fuzz/input/mutations.rs:137-168); only a
\* scenario may have more.
ArgumentsFit ==
  [][case' # case /\ origin' \in {"random", "mutation"}
       => /\ case'.argv = Panic => util = "mkfifo" /\ campaign.maxArgs = 2
          /\ \/ origin' = "mutation" /\ Len(case'.argv) <= Len(case.argv)
             \/ Len(case'.argv) <= ArgumentLimit]_caseVars
=============================================================================
