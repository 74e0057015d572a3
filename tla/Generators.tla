------------------------------- MODULE Generators -------------------------------
(***************************************************************************)
(* fuzz/input/generators: what the generator of each utility declares.     *)
(* Its pattern, the fixtures it makes, where its cases run, how it mutates *)
(* arguments, which arguments it accepts, and what it restores in a case   *)
(* after every change.  The words of ArgvPattern stand for the arguments.  *)
(***************************************************************************)
EXTENDS PlainGenerators, LsArguments

-----------------------------------------------------------------------------
(* Patterns.                                                               *)

CatPattern == <<Alternative({}, <<Element(0, 2, Some("-n")), Element(0, 3, Stream)>>)>>

\* The left operand may be the standard input; the right one if that is not.
CommPattern ==
  LET options == <<Optional(Some("-z")), Optional(Some("--total"))>>
      rest == <<Optional(OptionValue({"--output-delimiter"}, {1, 2})),
                Optional(OptionValue({"--output-delimiter"}, {1})),
                Once(Operand({"file", "-"}, "file")),
                Once([Operand({"file", "-"}, "file") EXCEPT !.once = TRUE])>>
  IN <<Alternative({}, options \o <<Element(0, 3, Some("-1"))>> \o rest),
       Alternative({"-1"}, options \o <<Once(Literal("-1"))>> \o rest)>>

CsplitPattern ==
  <<Alternative({}, <<Once(Operand({"file", "missing"}, "missing")), Element(1, 3, Value)>>)>>

DatePattern ==
  LET format == Once(Literal("+format")) IN
  <<Alternative({"-r"}, <<Optional(Some("-u")), Once(Literal("-r")), Once(AnyTarget), format>>),
    Alternative({"-d"}, <<Optional(Some("-u")), Once(Literal("-d")), Once(Literal("@date")), format>>),
    Alternative({}, <<Once(Literal("--reference=")), format>>),
    Alternative({}, <<Once(Literal("--help"))>>)>>

DdPattern ==
  <<Alternative({}, <<Once(Literal("status=none")), Optional(Literal("iflag=fullblock")),
                      Element(0, 6, Value)>>),
    Alternative({}, <<Element(1, 3, Literal("--help"))>>),
    Alternative({}, <<Once(Literal("status=none")), Once(Literal("--")),
                      Once([kind |-> "word", words |-> {"--help", "value"}])>>)>>

DuPattern ==
  LET rest == <<Optional(Some("-s")), Element(1, 3, ExistingFileUnique)>>
      Counted(option) == <<Once(Literal(option))>> \o rest
  IN <<Alternative({"--bytes"}, Counted("-b")),
       Alternative({"--apparent-size", "--block-size"},
                   <<Once(Literal("--apparent-size"))>> \o Counted("--block-size=1")),
       Alternative({}, Counted("-b"))>>

ExpandPattern ==
  <<Alternative({}, <<Optional(OptionOr({"-i"}, "-i")), Optional(OptionValue({"-t"}, {1, 2})),
                      Element(0, 3, Stream)>>)>>

HeadPattern ==
  LET modes == Element(0, 2, Some("-q")) IN
  <<Alternative({}, <<Once(Value), modes, Element(0, 1, StreamOnce)>>),
    Alternative({}, <<Once(OptionValue({"-n"}, {1, 2})), modes, Element(0, 3, StreamOnce)>>),
    Alternative({}, <<modes, Element(0, 3, StreamOnce)>>)>>

JoinPattern ==
  LET two == Element(2, 2, Stream) IN
  <<Alternative({}, <<Optional(Some("-i")), Element(0, 3, OptionValue({"-a"}, {2})),
                      Optional(OptionValue({"-1", "-t", "-e", "-o"}, {2})), two>>),
    Alternative({}, <<Element(0, 3, Stream)>>),
    Alternative({}, <<Once(OptionValue({"-a", "-o"}, {2})), two>>)>>

LsPattern ==
  LET directory == Optional(Some("-d"))
      long == Once(Some("-n"))
      time == Optional(Generated)
      style == Optional([kind |-> "word", words |-> Styles])
      block == Optional(Some("--block-size"))
      rest == <<Optional(Some("-r")), Optional(Option({"-H", "-L"})), Optional(Some("-R")),
                Element(0, 3, AnyTarget)>>
      Sorted(option) == Once(Literal(option))
  IN <<Alternative({"--help"}, <<Sorted("--help")>>),
       Alternative({"-t", "-c"}, <<Sorted("-t"), Sorted("-c"), Optional(Some("-r"))>>),
       Alternative({}, <<directory, long, time, style, block>> \o rest),
       Alternative({"-t"}, <<directory, Sorted("-t"), time>> \o rest),
       Alternative({"-t"}, <<directory, long, Sorted("-t"), time, style, block>> \o rest),
       Alternative({}, <<directory, Once(Some("-s")), block>> \o rest),
       Alternative({"-S"}, <<directory, Sorted("-S")>> \o rest),
       Alternative({}, <<directory>> \o rest)>>

\* ls_time_field: reading a symlink to sort it would change its access time.
LsTimeField(argv, pool, fixture) ==
  LET access == ~ Has(argv, {"-t"}) \/ fixture.symlinks = <<>>
      fields == (pool \cap {"--time"}) \cup (IF access THEN pool \cap {"-u", "--time"} ELSE {})
  IN IF fields = {} THEN {"-u"} ELSE fields

StatPattern ==
  LET format == Once(OptionValue({"-c"}, {1, 2}))
      dereference == Optional(Some("-L"))
      first == Once(ExistingTarget)
      more == Element(0, 3, AnyTarget)
  IN <<Alternative({"--help"}, <<Once(Literal("--help"))>>),
       Alternative({}, <<format, dereference, first, more>>),
       Alternative({}, <<first, format, dereference, more>>),
       Alternative({}, <<first, dereference, format, more>>),
       Alternative({}, <<Once(Literal("-c")), Once(Value), dereference, first, more>>)>>

TruncatePattern ==
  <<Alternative({}, <<Element(0, 2, Some("-c")), Once(Literal("-s")), Once(Value),
                      UpToBudget(1, AnyTarget)>>),
    Alternative({}, <<Once(Literal("-r")), Once(ExistingFile), UpToBudget(1, AnyTarget)>>),
    Alternative({}, <<Once(Literal("-r")), Once(ExistingFile), Once(Literal("-s")), Once(Value),
                      UpToBudget(1, AnyTarget)>>),
    Alternative({}, <<Once(Some("--help")), UpToBudget(0, AnyTarget)>>)>>

TsortPattern ==
  LET option == [kind |-> "word", words |-> {"-w", "--help"}]
      file == [kind |-> "word", words |-> {"file", "existing", "missing", "-"}]
  IN <<Alternative({}, <<Element(0, 2, option), Element(0, 2, file)>>),
       Alternative({}, <<Once(file), Once(option)>>),
       Alternative({}, <<Once(Literal("-x"))>>),
       Alternative({}, <<Once(Literal("--")), Once(file)>>)>>

UniqPattern == <<Alternative({}, <<Element(0, 2, Some("-c")), Optional(StreamOnce)>>)>>

-----------------------------------------------------------------------------
(* Fixtures of their own.                                                  *)

CommFixture ==
  Tree(Top(<<"dir">>), Top(<<"left.txt", "right.txt", "left0.txt", "right0.txt">>), <<>>, <<>>)

CsplitFixture == Tree(Top(<<"dir">>), Top(<<"split.txt", "a.txt">>), <<>>, <<>>)

ExpandFixture == Emptied(Tree(Top(<<"dir">>), Top(<<"a.txt", "b.txt", "empty.txt">>), <<>>, <<>>))

Padding == Top(<<"du-input-0", "du-input-1", "du-input-2">>)

\* The files of the random fixture as they are.
NotPadded(f) == f

\* At least three files, so that as many distinct ones can be named.
Padded(f) ==
  LET n == Less(3, Len(f.files)) IN
  Plus(f, Tree(<<>>, SubSeq(Padding, 1, n), <<>>, <<>>))

JoinFixture ==
  Tree(Top(<<"dir">>),
       Top(<<"left", "right", "colon-left", "colon-right", "nul-left", "nul-right", "zero-left",
             "zero-right", "blank-name", "unreadable">>),
       <<Symlink(<<"a:b">>, <<"left">>)>>, <<>>)

JoinScenarioFixture == Tree(Top(<<"dir">>), Top(<<"left", "right">>), <<>>, <<>>)

LsFixture ==
  LET visible == <<"visible">>
      child == <<"tree", "child">>
      f == Tree(<<<<"empty">>, <<"tree">>, child>>,
                <<<<"zzz-large">>, <<"aaa-small">>, visible, <<"large">>, <<".hidden">>, Append(child, "leaf")>>,
                <<Symlink(<<"file-link">>, visible), Symlink(<<"dir-link">>, child),
                  Symlink(<<"dangling-link">>, <<"missing-target">>),
                  Symlink(Append(child, "back"), <<Up>>)>>, <<>>)
  IN PlusHardlink(f, <<"visible-hard">>, visible)

StatFixture ==
  LET regular == <<"regular">>
      f == Tree(<<<<"dir">>, <<"dir", "child">>>>, <<regular, <<"empty">>>>,
                <<Symlink(<<"regular-link">>, regular),
                  Symlink(<<"dangling-link">>, <<"missing-stat-target">>),
                  Symlink(<<"dir-link">>, <<"dir">>)>>, <<>>)
  IN [PlusHardlink(f, <<"regular-hard">>, regular) EXCEPT !.files[2].size = 0]

TruncateFixture == PlusHardlink(FailureFixture, <<"alias">>, <<"a.txt">>)

TsortFixture(contents) ==
  LET f == PlusFile(PlusFile(FailureFixture, <<"denied">>), <<"graph">>) IN
  [f EXCEPT !.files[Len(f.files)].size = contents]

-----------------------------------------------------------------------------
(* What each generator is made of.                                         *)

\* chown stands for the utilities without a generator.
Pattern(u) ==
  CASE u \in Plain -> PlainPatterns[u]
    [] u = "cat" -> CatPattern [] u = "comm" -> CommPattern [] u = "csplit" -> CsplitPattern
    [] u = "date" -> DatePattern [] u = "dd" -> DdPattern [] u = "du" -> DuPattern
    [] u = "expand" -> ExpandPattern [] u = "head" -> HeadPattern [] u = "join" -> JoinPattern
    [] u = "ls" -> LsPattern [] u = "stat" -> StatPattern [] u = "truncate" -> TruncatePattern
    [] u = "tsort" -> TsortPattern [] u = "uniq" -> UniqPattern
    [] u = "printenv" -> Generic(FALSE, FALSE)
    [] u = "chown" -> Generic(TRUE, TRUE)

\* generate_system_state
SystemStates(u, maxEntries) ==
  CASE u \in Plain -> PlainSystemStates(u, maxEntries)
    [] u \in {"head", "uniq"} -> {GeneratedLineFixture}
    [] u = "comm" -> {CommFixture}
    [] u = "csplit" -> {CsplitFixture}
    [] u = "dd" -> {NoFixture}
    [] u = "du" -> {Padded(f) : f \in RandomFixtures(Max({maxEntries, 3}), TRUE)}
    [] u = "expand" -> {ExpandFixture}
    [] u = "join" -> {[JoinFixture EXCEPT !.files[1].size = n] : n \in 0 .. 1}
    [] u = "tsort" -> {TsortFixture(n) : n \in 0 .. 1}
    [] OTHER -> RandomFixtures(maxEntries, TRUE)

\* CwdPolicy
Cwds(u, f, mutation) ==
  IF \/ u \in PlainAtRoot
     \/ u \in {"comm", "csplit", "dd", "expand", "head", "join", "ls", "stat", "tsort", "uniq"}
     \/ u \in {"cat", "wc"} /\ ~ mutation
  THEN {<<>>} ELSE RandomCwds(f)

RequiresRootCwd == {"ls", "du"}

RegenerateCaseOnArgvMutation == {"ls", "truncate"}

\* Those with_mutator(mutations::regenerate_argv).
RegenerateArgv ==
  {"comm", "csplit", "dd", "du", "join", "ls", "stat", "truncate"} \cup PlainRegenerated

-----------------------------------------------------------------------------
(* Guards.                                                                 *)

\* deterministic_source: the time comes from an argument, never from a clock.
DeterministicSource(argv) ==
  LET Read(s, i) ==
        CASE s.verdict # "open" \/ i < s.next -> s
          [] argv[i] = "--help" -> [s EXCEPT !.verdict = "yes"]
          [] argv[i] = "-d" /\ i < Len(argv) /\ argv[i + 1] # "@date" -> [s EXCEPT !.verdict = "no"]
          [] argv[i] \in {"-d", "-r"} -> [s EXCEPT !.source = TRUE, !.next = i + 2]
          [] argv[i] = "--reference=" -> [s EXCEPT !.source = TRUE]
          [] OTHER -> s
      last == FoldLeft(Read, [verdict |-> "open", source |-> FALSE, next |-> 1],
                       [i \in DOMAIN argv |-> i])
  IN last.verdict = "yes" \/ (last.verdict = "open" /\ last.source)

\* What comes before a "--".
BeforeDashes(argv) ==
  {argv[i] : i \in {j \in DOMAIN argv : "--" \notin ToSet(SubSeq(argv, 1, j))}}

\* in_scope of dd
StatusSilenced(argv) == "status=none" \in ToSet(argv) \/ "--help" \in BeforeDashes(argv)

\* argv_stays_in_modeled_accounting_slice
CountsBytes(argv) ==
  LET given == ToSet(argv)
      operands == given \cap {"file", "existing", "missing", "."}
  IN \/ "--help" \in given
     \/ /\ "-b" \in given \/ {"--apparent-size", "--block-size=1"} \subseteq given
        /\ operands # {} /\ "." \notin operands

\* stat_argv_is_supported
HasFormat(argv) == {"--help", "-c"} \cap BeforeDashes(argv) # {}

\* uniq_argv_is_supported: no second operand, which would be written to.
OneOperand(argv) ==
  LET operands == SelectSeq(argv, LAMBDA a : a \notin {"-c", "-x"}) IN
  Len(operands) = 2 => operands[2] = "-"

\* with_candidate_guard
AcceptsCandidate(u, argv) ==
  CASE u = "date" -> DeterministicSource(argv)
    [] u = "dd" -> StatusSilenced(argv)
    [] u = "du" -> CountsBytes(argv)
    [] u = "ls" -> RespectsDependencies(argv)
    [] u = "stat" -> HasFormat(argv)
    [] OTHER -> TRUE

\* with_mutation_guard
AcceptsMutation(u, argv) ==
  CASE u \in {"date", "dd", "stat"} -> AcceptsCandidate(u, argv)
    [] u = "uniq" -> OneOperand(argv)
    [] OTHER -> TRUE

-----------------------------------------------------------------------------
(* Mutators: one change of arguments there are.                            *)

Dropped(argv, i) == SubSeq(argv, 1, i - 1) \o SubSeq(argv, i + 1, Len(argv))

\* random_argument_value: "-x" is a mode that reads as an option.
ArgumentValues == {"-", "value", "-x"}

\* random_replacement_value of head: a second "-" is drawn again.
HeadReplacements(argv, i) ==
  ArgumentValues \ (IF "-" \in ToSet(argv) /\ argv[i] # "-" THEN {"-"} ELSE {})

Replacements(u, argv, i) ==
  CASE u = "head" -> HeadReplacements(argv, i) [] u \in Plain -> {"value"} [] OTHER -> ArgumentValues

\* The operand that is added: a path of the fixture, or for head a file.
Added(u, f) ==
  CASE u \in Plain -> "value"
    [] u # "head" -> "existing"
    [] f.files # <<>> -> "file"
    [] OTHER -> "missing"

Shuffled(argv) ==
  IF Cardinality(ToSet(argv)) <= 1 THEN {argv}
  ELSE {[i \in DOMAIN argv |-> argv[p[i]]] : p \in Permutations(DOMAIN argv)}

MutatedArgvs(u, argv, maxArgs, f) ==
  {Dropped(argv, i) : i \in IF Len(argv) > 1 THEN DOMAIN argv ELSE {}}
    \cup (IF Len(argv) < Max({maxArgs, 1}) THEN {Append(argv, Added(u, f))} ELSE {})
    \cup UNION {{[argv EXCEPT ![i] = v] : v \in Replacements(u, argv, i)} : i \in DOMAIN argv}
    \cup Shuffled(argv)

-----------------------------------------------------------------------------
(* Normalizers.                                                            *)

\* keep_printenv_on_explicit_variables
ExplicitVariables(argv) ==
  IF ToSet(argv) \subseteq {"-0"} THEN argv \o <<"value", "value">> ELSE argv

IfEmpty(n, filled) == IF n = 0 THEN filled ELSE n

\* case_normalizer
Restored(u, c) ==
  CASE u = "comm" ->
         [c EXCEPT !.fixture = CommFixture,
                   !.stdin = IF Len(SelectSeq(c.argv, LAMBDA a : a = "-")) = 1 THEN 1 ELSE @]
    [] u = "csplit" ->
         [c EXCEPT !.fixture = CsplitFixture,
                   !.stdin = IF c.argv # <<>> /\ c.argv[1] = "-" THEN IfEmpty(@, 1) ELSE @]
    [] u = "expand" -> [c EXCEPT !.cwd = <<>>, !.stdin = IfEmpty(@, 1)]
    [] u = "fold" -> [c EXCEPT !.cwd = <<>>]
    [] u = "join" ->
         [c EXCEPT !.stdin = IF "-" \in ToSet(c.argv) /\ c.fixture.files # <<>>
                             THEN IfEmpty(@, c.fixture.files[1].size) ELSE @]
    [] u = "printenv" -> [c EXCEPT !.argv = ExplicitVariables(@)]
    [] u = "tsort" ->
         [c EXCEPT !.stdin = FoldLeft(LAMBDA n, x : IF x.path = <<"graph">> THEN x.size ELSE n, @, c.fixture.files)]
    [] OTHER -> c

\* normalize_case
Normalized(u, c) ==
  IF u \in RequiresRootCwd THEN [Restored(u, c) EXCEPT !.cwd = <<>>] ELSE Restored(u, c)
=============================================================================
