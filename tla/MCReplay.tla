--------------------------------- MODULE MCReplay ---------------------------------
EXTENDS Replay

CONSTANTS a, b, c1, c2

MCPaths == {a, b}
MCSavers == {c1, c2}

\* Two campaigns save what has the same base name.
MCBaseName == c1 :> "seed1" @@ c2 :> "seed1"

File(data) == [kind |-> "file", data |-> data, time |-> 0]
Symlink(target) == [kind |-> "symlink", data |-> target, time |-> 0]

FileAndLink == [object |-> a :> 1 @@ b :> 2, body |-> <<File("x"), Symlink("x")>>]
HardLinks == [object |-> a :> 1 @@ b :> 1, body |-> <<File("x")>>]
OneFile == [object |-> a :> 1 @@ b :> 0, body |-> <<File("x")>>]

MCCases ==
  [fixture : {FileAndLink, HardLinks, OneFile}, environment : {FALSE}, ignoreStderr : {FALSE}]
    \cup [fixture : {OneFile}, environment : {TRUE}, ignoreStderr : {TRUE}]

Op(do, path, to) == [do |-> do, path |-> path, to |-> to]
Quiet(ops) == [ops |-> ops, status |-> 0, stdout |-> <<"x", "y", "y">>, stderr |-> "e"]

Prints ==
  {[Quiet(<<>>) EXCEPT !.stdout = <<"y", "y", "x">>], [Quiet(<<>>) EXCEPT !.status = 139, !.stdout = <<>>],
   [Quiet(<<>>) EXCEPT !.status = 256, !.stderr = "f"]}

Touches ==
  {Quiet(ops) : ops \in
     {<<>>, <<Op("stamp", a, a)>>, <<Op("rename", a, b)>>, <<Op("link", a, b)>>,
      <<Op("unlink", b, b), Op("symlink", b, "y")>>, <<Op("unlink", a, a), Op("create", a, "x")>>,
      <<Op("unlink", a, a), Op("create", a, "x"), Op("rename", b, a)>>}}

MCBehaviours == Touches \cup Prints \cup {Quiet(<<Op("write", a, a)>>)}

MCChanges ==
  {Quiet(<<Op("rename", a, b)>>), Quiet(<<Op("unlink", a, a), Op("create", a, "x")>>),
   [Quiet(<<>>) EXCEPT !.stdout = <<"y", "y", "x">>]}

\* Either one campaign evaluates anything, or several save at once what a fixed
\* pair of programs makes of one case.
MCInit ==
  /\ Init
  /\ kind = [s \in Savers |-> "mismatch"]
  /\ \/ /\ \A s \in Savers \ {Evaluating} : saver[s] = "off"
        /\ program["reference"] \in Touches \/ program["dut"] \in {Quiet(<<>>)} \cup Prints
        /\ program["dut"] \in Touches \/ program["reference"] = Quiet(<<>>)
     \/ /\ \A s \in Savers : saver[s] = "ready"
        /\ case.fixture = OneFile /\ ~case.environment
        /\ program["reference"] = Quiet(<<>>)
        /\ program["dut"] = [Quiet(<<>>) EXCEPT !.status = 139, !.stdout = <<>>]

MCSpec == MCInit /\ [][Next]_vars

=============================================================================
