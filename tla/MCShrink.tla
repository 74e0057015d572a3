-------------------------------- MODULE MCShrink --------------------------------
(***************************************************************************)
(* Instances of FuzzCase.  A case set holds the originals that are         *)
(* written out here; of the generated cases, those with an alias of a      *)
(* symlink are minimised.                                                  *)
(***************************************************************************)
EXTENDS FuzzCase

D == <<"d">>
DE == <<"d", "e">>
F == <<"d", "e", "f">>
G == <<"g">>
L == <<"l">>

\* An alias of the file that is dropped first, one of the symlink, and
\* directories above and below the working directory, listed either way.
Tangled(directories, cwd) ==
  [argv |-> <<"a", "b">>,
   fixture |-> [directories |-> directories,
                files |-> <<File(G, 0), File(F, 2)>>,
                symlinks |-> <<Symlink(L, <<"d", Up, "g">>)>>,
                hardlinks |-> <<Hardlink(<<"d", "x">>, F), Hardlink(<<"y">>, L)>>],
   stdin |-> 1,
   cwd |-> cwd]

\* An ls case, whose working directory is the root (CwdPolicy::Root).
Listing(argv) ==
  [argv |-> argv,
   fixture |-> [directories |-> <<D, DE>>, files |-> <<File(G, 1), File(F, 1)>>,
                symlinks |-> <<Symlink(L, F), Symlink(<<"d", "m">>, <<Up, "g">>)>>,
                hardlinks |-> << >>],
   stdin |-> 1,
   cwd |-> <<>>]

MCUnsupported == {<<"b">>}

\* Tangled cases, and one the loop has nothing to do for.
MCExplicit == {Tangled(<<D, DE>>, DE), Tangled(<<DE, D>>, D), NoCase}

ListingOriginals ==
  {Listing(a) : a \in {<<"-L", "-n">>, <<"-n", "-L", "-H">>, <<"-L", "-n", "-d">>}}

Aliased ==
  {[argv |-> <<"existing">>, fixture |-> f, stdin |-> 1, cwd |-> D] :
     f \in {g \in RandomFixtures(4, TRUE) : AliasesOfSymlinks(g) # {} /\ g.directories = <<D>>}}

MCOriginals == MCExplicit \cup Aliased

ASSUME StagedAssumption == \A c \in MCOriginals \cup ListingOriginals : Staged(c) /\ Launchable(c)

ASSUME ListingAssumption ==
  \A c \in ListingOriginals : \A s \in ToSet(c.fixture.symlinks) : ~ Dangles(c.fixture, s)

-----------------------------------------------------------------------------
(* The programs: such as find something else each time, and such as differ *)
(* in their output or else in the file system whenever a case has certain  *)
(* arguments, input or entries.                                            *)

Traits(c) ==
  {<<"argv", a>> : a \in ToSet(c.argv)} \cup {<<"stdin">> : n \in 1 .. c.stdin}
    \cup {e.path : e \in ToSet(c.fixture.files) \cup ToSet(c.fixture.symlinks) \cup ToSet(c.fixture.hardlinks)}

Needs == {{}, {<<"stdin">>}, {G, <<"y">>}, {<<"argv", "a">>}}

Flaky == [steady |-> FALSE]
Steady == [steady : {TRUE}, stdout : Needs, filesystem : Needs]

MCSignatures == {"stdout", "filesystem"}
MCPrograms == {Flaky} \cup Steady

\* mismatch_signature takes the first difference in its order.
MCOutcomes(p, c) ==
  IF ~p.steady THEN Signatures \cup {NoSignature}
  ELSE IF p.stdout \subseteq Traits(c) THEN {"stdout"}
  ELSE IF p.filesystem \subseteq Traits(c) THEN {"filesystem"}
  ELSE {NoSignature}

ListingPrograms == {Flaky}

-----------------------------------------------------------------------------

OptionsOf(atom) ==
  CASE atom.kind = "option" -> atom.options
    [] atom.kind = "pair" -> {f.option : f \in atom.forms}
    [] atom.kind = "generated" -> {"-u", "--time"}
    [] OTHER -> {}

\* Every option a utility has a use for.
Pool(u) ==
  CASE u = "printenv" -> {"-0"}
    [] u \in {"chown"} \cup Worded -> {"-v"}
    [] OTHER -> UNION {a.needs \cup UNION {OptionsOf(e.atom) : e \in ToSet(a.elements)} : a \in ToSet(Pattern(u))}

Limits(u, pool, maxArgs, maxEntries) ==
  [util |-> u, pool |-> pool, maxArgs |-> maxArgs, maxEntries |-> maxEntries, cases |-> {}]

CaseSet(cases) == [Limits("ls", {}, 2, 2) EXCEPT !.cases = cases]

MCCampaigns ==
  {CaseSet(MCExplicit), Limits("comm", {}, 1, 0), Limits("ls", Pool("ls"), 3, 2),
   Limits("chown", Pool("chown"), 1, 4), Limits("cat", Pool("cat"), 2, 2),
   Limits("date", Pool("date") \ {"-u"}, 1, 1), Limits("printenv", Pool("printenv"), 1, 1),
   Limits("du", Pool("du"), 2, 3), Limits("join", Pool("join"), 3, 0),
   Limits("truncate", Pool("truncate"), 2, 2), Limits("stat", Pool("stat"), 2, 2)}
    \cup {Limits(u, Pool(u), 2, 0) : u \in {"comm", "csplit", "dd", "expand", "head", "tsort", "uniq"}}
    \cup {Limits(u, Pool(u), 2, IF u = "chmod" THEN 3 ELSE 1) : u \in Plain}

ListingCampaigns == {CaseSet(ListingOriginals)}
=============================================================================
