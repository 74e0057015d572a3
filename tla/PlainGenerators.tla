---------------------------- MODULE PlainGenerators ----------------------------
(***************************************************************************)
(* fuzz/input/generators, the utilities that have no guard on arguments:   *)
(* nothing looks at an argument of theirs once it is drawn, and only the   *)
(* number of them is kept in a case (Numbered).                            *)
(***************************************************************************)
EXTENDS SystemState, ArgvPattern

\* The options of a group as one: whether, and how often, it is given.
Some(option) == Option({option})

\* One option, its value in the same argument or in the next.
Attached(options) == OptionValue(options, {1})
Separate(options) == OptionValue(options, {2})
EitherWay(options) == OptionValue(options, {1, 2})

Missing == Literal("missing")
Existing == Literal("existing")
Information == Some("--help")

Numbered(argv) == IF argv = Panic THEN Panic ELSE [i \in DOMAIN argv |-> "value"]

-----------------------------------------------------------------------------

\* PatternInputGenerator::generic: any options and operands.
Worded ==
  {"basename", "dirname", "echo", "expr", "factor", "false", "logname", "printf", "pwd", "seq",
   "tr", "true", "base64", "tee", "fold"}

ChmodPattern ==
  LET options == Element(0, 4, Some("-c"))
      targets == Element(0, 4, AnyTarget)
  IN <<Alternative({"--reference"},
                   <<options, Optional(Value), Once(EitherWay({"--reference"})), targets>>),
       Alternative({}, <<options, Optional(Literal("--")), Once(Value), targets>>)>>

CpPattern ==
  LET policy == Some("-f")
      Copy(first, target) == Alternative({}, first \o <<Once(AnyTarget), Once(target)>>)
      suffix == [kind |-> "pair", forms |-> {[option |-> "--suffix", width |-> 1], [option |-> "-S", width |-> 2]}]
  IN <<Copy(<<Element(0, 3, policy)>>, AnyTarget),
       Copy(<<Once(Some("-l")), Optional(Some("-n"))>>, AnyTarget),
       Alternative({}, <<Once(Literal("-t")), Once(Existing), Element(1, 3, AnyTarget)>>),
       Copy(<<Optional(policy), Once(Attached({"--preserve"}))>>, AnyTarget),
       Copy(<<Optional(policy), Once(Attached({"--update"}))>>, AnyTarget),
       Copy(<<Once(Literal("--parents")), Optional(policy)>>, Existing),
       Copy(<<Optional(policy), Once(Attached({"--backup"}))>>, AnyTarget),
       Copy(<<Optional(policy), Once(suffix)>>, AnyTarget),
       Copy(<<Once(Some("-d")), Optional(policy)>>, Missing),
       Copy(<<Once(Attached({"--preserve"})), Optional(policy)>>, Missing),
       Copy(<<Once(Attached({"--no-preserve"})), Optional(policy)>>, AnyTarget),
       Alternative({}, <<Element(0, 1, AnyTarget)>>),
       Alternative({}, <<Once(Information)>>)>>

CutPattern ==
  LET rest == <<Optional(Some("--complement")), Optional(Some("-n")), Optional(Some("-z")),
                Optional(Separate({"--output-delimiter"})), Element(0, 3, Stream)>>
  IN <<Alternative({}, <<Once(Separate({"-b"}))>> \o rest),
       Alternative({}, <<Once(Literal("-b")), Once(Value)>> \o rest)>>

LinkPattern ==
  LET some == Element(0, 2, Information)
      extra == UpToBudget(0, AnyTarget)
  IN <<Alternative({}, <<Once(Value)>>),
       Alternative({}, <<some, Once(AnyTarget), Once(AnyTarget), extra>>),
       Alternative({}, <<some, Optional(AnyTarget)>>),
       Alternative({}, <<Once(AnyTarget), Element(1, 2, Information), Optional(AnyTarget), extra>>)>>

LnPattern == <<Alternative({}, <<Once(OptionOr({"-s"}, "-s")), Once(AnyTarget), Once(AnyTarget)>>)>>

MkdirPattern ==
  <<Alternative({}, <<Element(0, 2, Some("-v")), UpToBudget(0, AnyTarget)>>),
    Alternative({}, <<Once(Value)>>),
    Alternative({}, <<Optional(AnyTarget), Element(1, 2, Information), Optional(Value)>>)>>

MkfifoPattern ==
  LET mode == EitherWay({"-m"}) IN
  <<Alternative({}, <<Element(0, 2, mode), UpToBudget(0, AnyTarget)>>),
    Alternative({}, <<Once(AnyTarget), Once(mode), UpToBudget(0, AnyTarget)>>),
    Alternative({}, <<Once(Value), Optional(AnyTarget)>>),
    Alternative({}, <<Optional(mode), Optional(AnyTarget), Element(1, 2, Information),
                      Optional(mode), Optional(Value)>>)>>

\* The options mv knows, each of which makes an alternative eligible; -t and
\* -T are followed by as many arguments as -v.
MvPattern ==
  LET Given(options, words) ==
        Alternative(options, [i \in DOMAIN words |-> Once(Literal(words[i]))]
                               \o <<Once(Existing), Once(AnyTarget)>>)
  IN <<Alternative({"-t"}, <<Once(Literal("-t")), Once(Existing), Once(Existing), Optional(Existing)>>),
       Given({"-n"}, <<"-n">>), Given({"-v"}, <<"-v">>), Given({"-T"}, <<"-T">>),
       Given({"--debug", "-n"}, <<"--debug", "-n">>),
       Given({"--strip-trailing-slashes"}, <<"--strip-trailing-slashes">>),
       Given({"--backup", "-v"}, <<"--backup=numbered", "-v">>),
       Given({"-b", "-S"}, <<"-b", "-S", ".bak">>),
       Given({"--backup", "--suffix"}, <<"--backup=existing", "--suffix=.bak">>),
       Given({"--update", "--debug"}, <<"--debug", "--update=none">>),
       Given({"--update"}, <<"--update=none-fail">>),
       Given({"-u"}, <<"-u">>), Given({"--no-copy"}, <<"--no-copy">>), Given({"-f"}, <<"-f">>),
       Alternative({"--target-directory"}, <<Once(Attached({"--target-directory"})), Once(Existing)>>),
       Given({}, <<>>)>>

NlPattern ==
  LET streams == Element(0, 2, Stream) IN
  [i \in 1 .. 3 |-> Alternative({}, <<Once(Separate({<<"-b", "-n", "-s">>[i]})), streams>>)]
    \o <<Alternative({}, <<streams>>)>>

PastePattern ==
  <<Alternative({}, <<Optional(Some("-s")), Optional(Some("-z")), Optional(Separate({"-d"})),
                      Element(0, 4, Stream)>>)>>

ReadlinkPattern ==
  <<Alternative({}, <<Element(0, 2, Some("-n")), UpToBudget(1, ExistingTarget)>>)>>

RealpathPattern ==
  LET mode == Some("-e") IN
  <<Alternative({}, <<Element(0, 6, mode), Optional(EitherWay({"--relative-to"})),
                      Optional(EitherWay({"--relative-base"})), UpToBudget(0, AnyTarget)>>),
    Alternative({}, <<Optional(AnyTarget), Element(1, 2, Information), Optional(Value), Optional(AnyTarget)>>),
    Alternative({}, <<Once(Value)>>),
    Alternative({}, <<Element(0, 4, mode), Once(AnyTarget), Element(1, 3, mode), Optional(AnyTarget)>>)>>

RmPattern ==
  <<Alternative({"-I"}, <<Once(Literal("-I")), Element(0, 3, Some("-f")), Element(0, 3, AnyTarget)>>),
    Alternative({}, <<Element(0, 4, Some("-f")), Element(0, 4, AnyTarget)>>),
    Alternative({"--interactive"},
                <<Once(Attached({"--interactive"})), Element(0, 3, Some("-f")), Element(0, 3, AnyTarget)>>)>>

RmdirPattern ==
  LET targets == UpToBudget(0, AnyTarget) IN
  <<Alternative({}, <<Element(0, 3, Some("-p")), targets>>),
    Alternative({}, <<Once(AnyTarget), Element(0, 2, Some("-p")), targets>>)>>

TailPattern ==
  LET streams == Element(0, 3, Stream) IN
  <<Alternative({}, <<Once(Separate({"-n"})), streams>>),
    Alternative({}, <<Once(Value), Element(0, 1, Stream)>>),
    Alternative({}, <<Element(0, 2, Some("-q")), streams>>),
    Alternative({}, <<streams>>)>>

TouchPattern ==
  LET more == UpToBudget(0, ExistingTarget)
      Stamped(option, source) ==
        Alternative({option}, <<Once(Literal(option)), Once(source), Once(AnyTarget), more>>)
  IN <<Alternative({"-c"}, <<Once(Literal("-c")), Once(Missing), more>>),
       Stamped("-r", ExistingFile), Stamped("-d", Value), Stamped("-t", Value),
       Alternative({}, <<Element(0, 2, Some("-a")), Once(ExistingTarget), more>>)>>

UnlinkPattern ==
  LET targets == UpToBudget(0, AnyTarget) IN
  <<Alternative({}, <<Element(0, 2, Information), targets>>),
    Alternative({}, <<Once(AnyTarget), Element(1, 2, Information), targets>>)>>

WcPattern == <<Alternative({}, <<Element(0, 3, Some("-c")), Element(0, 3, Stream)>>)>>

-----------------------------------------------------------------------------
(* Fixtures of their own.                                                  *)

CutFixture == PlusFile(GeneratedLineFixture, <<"nul.txt">>)

\* trim_fixture_for_links: files are dropped first, then directories.
Trimmed(f, budget, links, keepFile, keepDirectory) ==
  LET over == Less(Len(f.directories) + Len(f.files) + links, budget)
      files == Max({Less(Len(f.files), over), Min({Len(f.files), keepFile})})
      rest == Less(over, Len(f.files) - files)
      directories == Max({Less(Len(f.directories), rest), Min({Len(f.directories), keepDirectory})})
  IN [f EXCEPT !.files = SubSeq(@, 1, files), !.directories = SubSeq(@, 1, directories)]

Linked(f, links) == [f EXCEPT !.symlinks = links]

\* A link to a file, to a directory, to nothing, two links to each other, or,
\* where two do not fit, none.
ChmodFixtures(maxEntries) ==
  LET budget == Max({maxEntries, 1})
      ToFile(f) ==
        LET t == Trimmed(IF f.files # <<>> THEN f
                         ELSE [f EXCEPT !.directories = SubSeq(@, 1, Min({Len(@), Less(budget, 2)})),
                                        !.files = <<File(<<"chmod-target">>, 0)>>],
                         budget, 1, 1, 0)
        IN Linked(t, <<Symlink(<<"chmod-file-link">>, t.files[1].path)>>)
      ToDirectory(f) ==
        LET t == Trimmed(f, budget, 1, 0, 1) IN
        Linked(t, <<Symlink(<<"chmod-dir-link">>, t.directories[1])>>)
      ToNothing(f) ==
        Linked(Trimmed(f, budget, 1, 0, 0), <<Symlink(<<"chmod-dangling-link">>, <<"chmod-missing-target">>)>>)
      Cycle(f) ==
        Linked(Trimmed(f, budget, 2, 0, 0),
               <<Symlink(<<"chmod-cycle-a">>, <<"chmod-cycle-b">>), Symlink(<<"chmod-cycle-b">>, <<"chmod-cycle-a">>)>>)
      Made(f) == IF budget >= 2 THEN {ToFile(f), ToDirectory(f), ToNothing(f), Cycle(f)} ELSE {ToNothing(f), f}
  IN UNION {Made([f EXCEPT !.symlinks = <<>>, !.hardlinks = <<>>]) : f \in RandomFixtures(maxEntries, TRUE)}

\* add_path_scenarios
RealpathFixture(f) ==
  Plus(f, Tree(<<<<"__rp-dir">>, <<"__rp-dir", "child">>, <<"__rp-blocked">>>>, <<<<"__rp-file">>>>,
               <<Symlink(<<"__rp-link">>, <<"__rp-dir", "child">>),
                 Symlink(<<"__rp-dangling">>, <<"missing">>),
                 Symlink(<<"__rp-loop">>, <<"__rp-loop">>),
                 Symlink(<<"__rp-cycle-a">>, <<"__rp-cycle-b">>),
                 Symlink(<<"__rp-cycle-b">>, <<"__rp-cycle-c">>),
                 Symlink(<<"__rp-cycle-c">>, <<"__rp-cycle-a">>),
                 Symlink(<<"__rp-dot">>, <<Here>>)>>, <<>>))

-----------------------------------------------------------------------------

PlainPatterns ==
  [chmod |-> ChmodPattern, cp |-> CpPattern, cut |-> CutPattern,
   link |-> LinkPattern, ln |-> LnPattern, mkdir |-> MkdirPattern, mkfifo |-> MkfifoPattern,
   mv |-> MvPattern, nl |-> NlPattern, paste |-> PastePattern, readlink |-> ReadlinkPattern,
   realpath |-> RealpathPattern, rm |-> RmPattern, rmdir |-> RmdirPattern, tail |-> TailPattern,
   touch |-> TouchPattern, unlink |-> UnlinkPattern, wc |-> WcPattern]
    @@ [u \in Worded |-> Generic(FALSE, FALSE)]

Plain == DOMAIN PlainPatterns

PlainSystemStates(u, maxEntries) ==
  CASE u = "chmod" -> ChmodFixtures(maxEntries)
    [] u = "cut" -> {CutFixture}
    [] u = "realpath" -> {RealpathFixture(f) : f \in RandomFixtures(maxEntries, TRUE)}
    [] u = "rm" -> RandomFixtures(Min({maxEntries, 12}), TRUE)
    [] u \in {"fold", "nl", "paste", "tail"} -> {GeneratedLineFixture}
    [] OTHER -> RandomFixtures(maxEntries, TRUE)

\* Those with_cwd_policy(CwdPolicy::Root)
PlainAtRoot == {"cp", "cut", "mv", "nl", "paste", "rm", "tail"}

\* Those with_mutator(mutations::regenerate_argv).
PlainRegenerated == {"mv", "rm", "tail"}
=============================================================================
