-------------------------------- MODULE Scenarios --------------------------------
(***************************************************************************)
(* The scenario_case of each generator of fuzz/input/generators: the       *)
(* hand-written cases a campaign begins with.                              *)
(*                                                                         *)
(* A scenario is given by its arguments, its fixture, the units on its     *)
(* standard input and its working directory.  Scenarios that differ in     *)
(* nothing a guard or a normalizer can tell apart are one; for the         *)
(* utilities without guards only the number of arguments is told.          *)
(***************************************************************************)
EXTENDS Generators

Contents == {0, 1}

Words(n) == [i \in 1 .. n |-> "value"]

\* support::case: the working directory is the root.
CasesOf(argvs, fixture, stdins) ==
  {[argv |-> a, fixture |-> fixture, stdin |-> n, cwd |-> <<>>] : a \in argvs, n \in stdins}

Counted(counts, fixture, stdins) == CasesOf({Words(n) : n \in counts}, fixture, stdins)

\* Each with the standard input empty.
Quiet(counts, fixture) == Counted(counts, fixture, {0})

AText == <<"a.txt">>
Alias == <<"alias">>
Blocked == <<"blocked">>

-----------------------------------------------------------------------------
(* Utilities without a pattern: any words.                                 *)

BasenameScenarios == Quiet({0, 1, 2, 3, 6}, BasicFixture)
DirnameScenarios == Quiet({0, 1, 2, 3}, BasicFixture)
EchoScenarios == Quiet({0, 1, 2}, BasicFixture)
ExprScenarios == Quiet({0, 3, 4}, BasicFixture)
FactorScenarios == Counted({0}, BasicFixture, {1}) \cup Quiet({2, 3}, BasicFixture)
FalseScenarios == Quiet({0, 1, 2}, BasicFixture)
LognameScenarios == Quiet({0, 1}, BasicFixture)
PrintfScenarios == Quiet({0, 1, 3, 4}, BasicFixture)
PwdScenarios == Quiet({0, 1, 2}, BasicFixture)
SeqScenarios == Quiet({1, 3}, BasicFixture)
TrScenarios == Counted({2, 4}, BasicFixture, {1}) \cup Quiet({0}, BasicFixture)
TrueScenarios == Quiet({0, 1, 2}, BasicFixture)

Base64Scenarios == Counted({0, 1, 2}, LineFixture, Contents) \cup Counted({1}, FailureFixture, {1})
TeeScenarios == Counted({0, 1, 2, 3}, LineFixture, {1}) \cup Counted({1, 2}, FailureFixture, {1})
FoldScenarios == Counted({0, 3}, LineFixture, {1}) \cup Quiet({2, 3, 4}, LineFixture)

-----------------------------------------------------------------------------
(* Utilities without a guard.                                              *)

ChmodScenarioFixture ==
  LET tree == <<"tree">>
      child == <<"tree", "child">>
  IN Tree(<<tree, child>>,
          <<Append(tree, "root-file"), Append(child, "setuid"), <<"quote'file">>, <<"e'">>, <<"tab-file">>>>,
          <<Symlink(<<"file-link">>, Append(tree, "root-file")), Symlink(<<"dir-link">>, child),
            Symlink(<<"dangling-link">>, <<"missing-target">>),
            Symlink(<<"cycle-a">>, <<"cycle-b">>), Symlink(<<"cycle-b">>, <<"cycle-a">>)>>, <<>>)

ChmodScenarios ==
  Quiet({0, 2, 3}, BasicFixture) \cup Quiet({1, 2, 3, 4}, ChmodScenarioFixture)
    \cup {[c EXCEPT !.cwd = <<"tree", "child">>] : c \in Quiet({2}, ChmodScenarioFixture)}
    \cup Quiet({3}, Tree(<<<<"d">>, <<"d", "e">>>>, <<>>, <<>>, <<>>))
    \cup Quiet({3}, PlusDirectories(ChmodScenarioFixture, <<Blocked>>))

CpScenarios ==
  LET nested == PlusFile(PlusFile(FailureFixture, <<"dir", "nested">>), <<"read-only">>)
      base == PlusHardlink(nested, Alias, AText)
  IN Quiet({1, 2, 3, 4}, base)
       \cup Quiet({3}, PlusSymlink(base, <<"dir", "cycle">>, <<Here>>))
       \cup Quiet({3}, PlusDirectories(base, <<<<"unreadable">>>>))
       \cup Quiet({3}, PlusFile(PlusFile(base, <<"target.txt.~3~">>), <<"target.txt.~7~">>))
       \cup Quiet({3}, PlusHardlink(PlusHardlink(base, <<"dir", "alias">>, AText), <<"dir", "alias2">>, AText))

CutScenarios == Counted({2, 3, 4, 5}, LineFixture, Contents)

LinkScenarios ==
  Quiet({0, 1, 2, 3}, BasicFixture) \cup Quiet({3}, PlusFile(BasicFixture, <<"--help">>))
    \cup Quiet({2}, PlusHardlink(BasicFixture, Alias, AText))
    \cup Quiet({2}, PlusDirectories(BasicFixture, <<Blocked>>))

LnScenarios == Quiet({1, 3}, LineFixture) \cup Counted({2}, FailureFixture, {1})

MkdirScenarios ==
  Quiet(0 .. 5, BasicFixture) \cup Quiet({1}, PlusSymlink(BasicFixture, <<"slink">>, <<Here>>))
    \cup Quiet({1}, PlusSymlink(BasicFixture, <<"dangling">>, <<"absent">>))
    \cup Quiet({3}, PlusDirectories(BasicFixture, <<Blocked>>))

MkfifoScenarios ==
  Quiet(0 .. 5, BasicFixture)
    \cup Quiet({3}, PlusSymlink(BasicFixture, <<"dangling">>, <<"absent">>))
    \cup Quiet({3}, PlusDirectories(BasicFixture, <<Blocked>>))

MvDirectoryFixture ==
  Tree(<<<<"srcdir">>, <<"srcdir", "child">>, <<"empty-dest">>, <<"full-dest">>>>,
       <<<<"srcdir", "file.txt">>, <<"full-dest", "kept.txt">>>>, <<>>, <<>>)

MvLoopFixture ==
  PlusSymlink(PlusSymlink(NoFixture, <<"loop-a">>, <<"loop-b">>), <<"loop-b">>, <<"loop-a">>)

MvScenarios ==
  Quiet({2, 3, 4}, BasicFixture) \cup Quiet({2, 3}, MvDirectoryFixture) \cup Quiet({2}, MvLoopFixture)
    \cup Counted({3}, FailureFixture, {1})

NlScenarios == Counted({0, 6}, LineFixture, {1}) \cup Quiet({3}, LineFixture)

PasteScenarios == Counted({0, 3, 4, 5}, LineFixture, {1}) \cup Quiet({2, 3}, LineFixture)

ReadlinkScenarios == Quiet({0, 1, 2, 3}, BasicFixture)

\* Two links stand for the chain of 48.
RealpathScenarios ==
  LET base == RealpathFixture(BasicFixture)
      chain == PlusSymlink(base, <<"__rp-chain-00">>, <<"__rp-chain-47">>)
  IN Quiet(0 .. 6, base) \cup Quiet({2}, PlusSymlink(chain, <<"__rp-chain-47">>, <<"__rp-file">>))

RmScenarios ==
  Quiet(0 .. 4, FailureFixture) \cup Quiet({2}, PlusHardlink(FailureFixture, Alias, AText))
    \cup Quiet({3}, PlusFile(PlusDirectories(FailureFixture, <<Blocked>>), <<"blocked", "keep">>))
    \cup Quiet({2}, PlusDirectories(FailureFixture, <<<<"unreadable">>>>))
    \cup Quiet({3}, PlusFile(FailureFixture, <<"--help">>))
    \cup Quiet({2}, PlusSymlink(FailureFixture, <<"occupied", "link">>, <<Up, "a.txt">>))

RmdirScenarios ==
  LET linked == PlusSymlink(PlusSymlink(BasicFixture, <<"empty-link">>, <<"empty">>),
                            <<"missing-link">>, <<"missing">>)
      base == PlusDirectories(linked, <<<<"empty">>, <<"chain">>, <<"chain", "leaf">>,
                                        <<"nonempty">>, <<"nonempty", "child">>>>)
      below == PlusDirectories(base, <<Blocked, <<"blocked", "nonempty">>>>)
  IN Quiet({0, 1, 2, 3}, base) \cup Quiet({2}, PlusDirectories(base, <<<<"empty", "child">>>>))
       \cup Quiet({2}, PlusDirectories(base, <<<<"--help">>>>)) \cup Quiet({2}, below)
       \cup Quiet({2}, PlusFile(below, <<"blocked", "nonempty", "keep">>))

TailScenarios == Counted({1, 3}, LineFixture, {1}) \cup Quiet({3}, LineFixture)

TouchScenarios == Quiet({1, 2, 3}, BasicFixture)

UnlinkScenarios ==
  Quiet({0, 1, 2, 3}, BasicFixture) \cup Quiet({1}, FailureFixture)
    \cup Quiet({1}, PlusSymlink(BasicFixture, <<"dangling">>, <<"missing.txt">>))
    \cup Quiet({1}, PlusHardlink(BasicFixture, Alias, AText))
    \cup Quiet({2}, PlusFile(BasicFixture, <<"--help">>))
    \cup Quiet({1}, PlusFile(PlusDirectories(BasicFixture, <<Blocked>>), <<"blocked", "target">>))

WcScenarios == Counted({0, 2, 3}, BasicFixture, Contents) \cup Quiet({2}, LineFixture)

-----------------------------------------------------------------------------
(* Utilities with a guard, a normalizer or a fixture of their own.         *)

CatScenarios ==
  CasesOf({<<>>, <<"-", "file">>}, BasicFixture, {1})
    \cup CasesOf({<<"file", "file">>, <<"file", "missing">>}, BasicFixture, {0})
    \cup CasesOf({<<"value">>}, FailureFixture, {1})

CommScenarios ==
  CasesOf({<<"file", "file">>, <<"-1", "file", "file">>}, CommFixture, {0})
    \cup CasesOf({<<"-", "file">>}, CommFixture, {1})

CsplitScenarios ==
  CasesOf({<<"file", "value">>, <<"file", "value", "value">>}, CsplitFixture, {0})
    \cup CasesOf({<<"-", "value">>}, CsplitFixture, {1})

DateScenarios ==
  CasesOf({<<"--reference=", "+format">>, <<"-r", "file">>, <<"-d", "@date", "-r", "file">>,
           <<"-d">>, <<"value">>, <<"--help">>}, FailureFixture, {0})

DdScenarios ==
  CasesOf({<<"status=none">>, <<"status=none", "value">>, <<"value", "--help">>,
           <<"status=none", "--", "--help">>}, NoFixture, Contents)

DuScenarios ==
  CasesOf({<<"-b", "file">>, <<"--apparent-size", "--block-size=1", "file">>, <<"-b", "-s", "missing">>},
          LineFixture, {0})

ExpandScenarios == CasesOf({<<>>, <<"-t", "-i">>, <<"-t", "file", "-", "file">>}, LineFixture, {1})

HeadScenarios ==
  CasesOf({<<>>, <<"value", "file", "-">>}, LineFixture, {1})
    \cup CasesOf({<<"value", "file">>}, LineFixture, {0})

JoinScenarios ==
  CasesOf({<<"file", "file">>}, JoinScenarioFixture, {0})
    \cup CasesOf({<<"-", "file">>, <<"-", "-">>}, JoinScenarioFixture, {1})

LsScenarios ==
  CasesOf(
    {<<>>, <<"-r">>, <<"-d", "existing", "existing">>, <<"-n">>, <<"-s", "--block-size">>,
     <<"-S", "existing", "existing">>, <<"-t", "-r", "existing">>, <<"-n", "+%s", "-H", "existing">>,
     <<"-L", "existing">>, <<"-R", "-L", "existing">>, <<"missing", "existing">>,
     <<"-r", "-t", "-L", "existing">>, <<"-n", "-s", "--block-size">>, <<"-L">>,
     <<"-n", "-d", "-c", "+%s", "existing">>, <<"-n", "--time-style">>, <<"--time">>,
     <<"--block-size">>, <<"-S", "-t", "existing">>, <<"-n", "-d", "-u", "-c", "+%s", "existing">>,
     <<"-n", "+%s", "-H", "-L", "existing">>, <<"-n", "--time-style", "+%s", "existing">>,
     <<"existing", "-n", "+%s">>, <<"-n", "--time", "--block-size">>},
    LsFixture, {0})

PrintenvScenarios == CasesOf({<<"value", "value">>, <<"-0", "value", "value">>}, BasicFixture, {0})

StatScenarios == CasesOf({<<"-c", "value", "existing">>, <<"-c", "existing">>, <<"--help">>}, StatFixture, {0})

TruncateScenarios == CasesOf({<<"-c", "-s", "value", "missing">>, <<"-s", "value">>}, TruncateFixture, {0})

TsortScenarios ==
  UNION {CasesOf({<<>>, <<"file">>, <<"-">>, <<"--help", "-x">>}, TsortFixture(n), {n}) : n \in Contents}

UniqScenarios ==
  CasesOf({<<>>}, LineFixture, {1}) \cup CasesOf({<<"-c", "file">>, <<"missing">>}, LineFixture, {0})

-----------------------------------------------------------------------------

Scenarios ==
  [basename |-> BasenameScenarios, dirname |-> DirnameScenarios, echo |-> EchoScenarios,
   expr |-> ExprScenarios, factor |-> FactorScenarios, false |-> FalseScenarios,
   logname |-> LognameScenarios, printf |-> PrintfScenarios, pwd |-> PwdScenarios,
   seq |-> SeqScenarios, tr |-> TrScenarios, true |-> TrueScenarios,
   base64 |-> Base64Scenarios, tee |-> TeeScenarios, fold |-> FoldScenarios,
   chmod |-> ChmodScenarios, cp |-> CpScenarios, cut |-> CutScenarios, link |-> LinkScenarios,
   ln |-> LnScenarios, mkdir |-> MkdirScenarios, mkfifo |-> MkfifoScenarios, mv |-> MvScenarios,
   nl |-> NlScenarios, paste |-> PasteScenarios, readlink |-> ReadlinkScenarios,
   realpath |-> RealpathScenarios, rm |-> RmScenarios, rmdir |-> RmdirScenarios,
   tail |-> TailScenarios, touch |-> TouchScenarios, unlink |-> UnlinkScenarios, wc |-> WcScenarios,
   cat |-> CatScenarios, comm |-> CommScenarios, csplit |-> CsplitScenarios, date |-> DateScenarios,
   dd |-> DdScenarios, du |-> DuScenarios, expand |-> ExpandScenarios, head |-> HeadScenarios,
   join |-> JoinScenarios, ls |-> LsScenarios, printenv |-> PrintenvScenarios,
   stat |-> StatScenarios, truncate |-> TruncateScenarios, tsort |-> TsortScenarios,
   uniq |-> UniqScenarios, chown |-> {}]
=============================================================================
