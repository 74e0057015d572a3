------------------------------ MODULE LsArguments ------------------------------
(***************************************************************************)
(* What the arguments of an ls case say of it: the guards and the parsers  *)
(* of fuzz/input/generators/ls.rs.                                         *)
(*                                                                         *)
(* One spelling stands for all spellings of an option: "-u" for every      *)
(* access time, "--time" for every other valid field but the change time,  *)
(* "-c" for the change time, "+%s" for --time-style=+%s and "--time-style" *)
(* for the other styles, "-r" for -r and the options that hide nothing     *)
(* else.  Options carry their values in the same argument, as the          *)
(* generator writes them, and none follows "--".                           *)
(***************************************************************************)
EXTENDS Naturals, FiniteSets, SequencesExt

TimeFields == {"-u", "-c", "--time"}
Styles == {"+%s", "--time-style"}

LsOptions ==
  TimeFields \cup Styles
    \cup {"-d", "-n", "-s", "-S", "-t", "-R", "-r", "-H", "-L", "--block-size", "--help"}

Position(argv, options) == {i \in DOMAIN argv : argv[i] \in options}

Has(argv, options) == Position(argv, options) # {}

\* The last of two rival options counts.
Wins(argv, option, rivals) ==
  \E i \in Position(argv, {option}) : \A j \in Position(argv, rivals) : j < i

Operands(argv) == {i \in DOMAIN argv : argv[i] \notin LsOptions}

ChangeTime(argv) == Wins(argv, "-c", {"-u", "--time"})

\* ls_short_ctime_sort_case: sorted by change time, nothing printed of it.
ShortChangeTimeSort(argv) ==
  ToSet(argv) \subseteq {"-t", "-r"} \cup TimeFields /\ Has(argv, {"-t"}) /\ ChangeTime(argv)

\* ls_direct_ctime_case: the change time of one operand in epoch seconds.
DirectChangeTime(argv) ==
  /\ Has(argv, {"-n"}) /\ Has(argv, {"-d"}) /\ ChangeTime(argv)
  /\ Wins(argv, "+%s", {"--time-style"})
  /\ Cardinality(Operands(argv)) = 1
  /\ \A i \in DOMAIN argv \ Operands(argv) :
       argv[i] \in {"-n", "-d", "-H", "-L"} \cup TimeFields \cup Styles

\* ls_argv_respects_mode_dependencies
RespectsDependencies(argv) ==
  /\ Has(argv, TimeFields) => Has(argv, {"-n", "-t"})
  /\ Has(argv, Styles) => Has(argv, {"-n"})
  /\ Has(argv, {"--block-size"}) => Has(argv, {"-n", "-s"})
  /\ ChangeTime(argv) => DirectChangeTime(argv) \/ ShortChangeTimeSort(argv)

\* ls_argv_requires_followed_entry_metadata: does ls follow every symlink it
\* lists and then look into it?  The last of -L and -H counts, and -d lists
\* no entries.
RequiresResolvable(argv) ==
  /\ ~ Has(argv, {"--help"})
  /\ Wins(argv, "-L", {"-H"})
  /\ ~ Has(argv, {"-d"})
  /\ Has(argv, {"-n", "-s", "-S", "-t", "-R"})
=============================================================================
