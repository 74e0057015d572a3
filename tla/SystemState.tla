------------------------------ MODULE SystemState ------------------------------
(***************************************************************************)
(* fuzz/input/system_state.rs: the fixtures that several generators share, *)
(* and the random one, as the set of all it can give.                      *)
(*                                                                         *)
(* The generator draws every name anew and draws again when the path is    *)
(* taken.  Here a few names stand for all: "d" and "e" of directories, "f" *)
(* of files, "l" of symlinks, "h" of hardlinks, "gone" of nothing.         *)
(* A name drawn for a file or a link is thus never that of a directory     *)
(* above a listed one, the one collision the generator does not look for.  *)
(* A file holds 0, 1 or 2 units of contents.                               *)
(***************************************************************************)
EXTENDS Fixture, FiniteSetsExt

File(p, n) == [path |-> p, size |-> n]
Symlink(p, t) == [path |-> p, target |-> t]
Hardlink(p, s) == [path |-> p, source |-> s]

\* A fixture of which every file has contents; names are those of the root.
Tree(directories, files, symlinks, hardlinks) ==
  [directories |-> directories,
   files |-> [i \in DOMAIN files |-> File(files[i], 1)],
   symlinks |-> symlinks, hardlinks |-> hardlinks]

Top(names) == [i \in DOMAIN names |-> <<names[i]>>]

NoFixture == Tree(<<>>, <<>>, <<>>, <<>>)

\* A fixture with the entries of another after its own.
Plus(f, g) ==
  [directories |-> f.directories \o g.directories, files |-> f.files \o g.files,
   symlinks |-> f.symlinks \o g.symlinks, hardlinks |-> f.hardlinks \o g.hardlinks]
PlusDirectories(f, paths) == Plus(f, Tree(paths, <<>>, <<>>, <<>>))
PlusFile(f, path) == Plus(f, Tree(<<>>, <<path>>, <<>>, <<>>))
PlusSymlink(f, path, target) == Plus(f, Tree(<<>>, <<>>, <<Symlink(path, target)>>, <<>>))
PlusHardlink(f, path, source) == Plus(f, Tree(<<>>, <<>>, <<>>, <<Hardlink(path, source)>>))

BasicFixture ==
  Tree(Top(<<"dir">>), Top(<<"a.txt", "b.txt", "target.txt">>),
       <<Symlink(<<"a-link">>, <<"a.txt">>)>>, <<>>)

FailureFixture ==
  Plus(BasicFixture,
       Tree(<<<<"occupied">>>>, <<<<"occupied", "child">>>>,
            <<Symlink(<<"dir-link">>, <<"dir">>), Symlink(<<"loop">>, <<"loop">>),
              Symlink(<<"dangling">>, <<"missing">>)>>, <<>>))

\* empty.txt has no contents.
Emptied(f) ==
  [f EXCEPT !.files = [i \in DOMAIN @ |-> IF @[i].path = <<"empty.txt">> THEN File(@[i].path, 0) ELSE @[i]]]

LineFixture ==
  Emptied(Tree(Top(<<"dir">>),
               Top(<<"a.txt", "b.txt", "left.txt", "right.txt", "split.txt", "dups.txt",
                     "case.txt", "empty.txt", "payload.bin", "target.txt">>),
               <<Symlink(<<"a-link">>, <<"a.txt">>)>>, <<>>))

GeneratedLineFixture ==
  Emptied(Tree(Top(<<"dir">>),
               Top(<<"a.txt", "b.txt", "split.txt", "dups.txt", "case.txt", "empty.txt">>),
               <<>>, <<>>))

-----------------------------------------------------------------------------
(* generate_fixture_blueprint                                              *)

\* In the order of a BTreeSet, where a directory comes before what is in it.
DirectoryLists == {<<<<"d">>>>, <<<<"d", "e">>>>, <<<<"d">>, <<"d", "e">>>>}

AtMost(n, set) == {s \in SUBSET set : Cardinality(s) <= n}

\* A name in a directory of the fixture, or in its root.
In(directories, name) == {Append(d, name) : d \in directories \cup {<<>>}}

\* relative_path_from
Shared(base, target) ==
  Max({n \in 0 .. Min({Len(base), Len(target)}) : SubSeq(base, 1, n) = SubSeq(target, 1, n)})

RelativePath(base, target) ==
  LET n == Shared(base, target)
      path == [i \in 1 .. Len(base) - n |-> Up] \o SubSeq(target, n + 1, Len(target))
  IN IF path = <<>> THEN <<Here>> ELSE path

\* random_symlink_target
SymlinkTargets(parent, existing, dangling) ==
  {RelativePath(parent, t) : t \in existing}
    \cup (IF dangling THEN existing \cup {<<"gone">>} ELSE {})

\* Up to two of them, the deeper one last.
Symlinked(directories, files, budget, dangling) ==
  LET paths == In(directories, "l")
      At(p) == {Symlink(p, t) : t \in SymlinkTargets(Front(p), directories \cup files, dangling)}
  IN {<<>>}
       \cup (IF budget >= 1 THEN UNION {{<<s>> : s \in At(p)} : p \in paths} ELSE {})
       \cup (IF budget >= 2
             THEN UNION {At(x[1]) \X At(x[2]) : x \in {y \in paths \X paths : Len(y[1]) < Len(y[2])}}
             ELSE {})

\* A hardlink to a file, or to a symlink that leads no further from there.
Hardlinked(directories, files, symlinks) ==
  {<<Hardlink(p, f)>> : p \in In(directories, "h"), f \in files}
    \cup {<<Hardlink(x[1], x[2].path)>> :
            x \in {y \in In(directories, "h") \X ToSet(symlinks) : StaysWithin(y[1], y[2].target)}}

RandomFixtures(maxEntries, dangling) ==
  LET total == Max({maxEntries, 1}) IN
  UNION {
    LET ds == ToSet(directories)
        left == total - Len(directories) IN
    UNION {
      LET budget == Min({2, left - Cardinality(fs)}) IN
      UNION {
        {[directories |-> directories,
          files |-> SetToSeq({File(f, 1) : f \in fs}),
          symlinks |-> ls, hardlinks |-> hs] :
           hs \in {<<>>} \cup (IF left > Cardinality(fs) + Len(ls) /\ fs # {}
                               THEN Hardlinked(ds, fs, ls) ELSE {})} :
        ls \in Symlinked(ds, fs, budget, dangling)} :
      fs \in {s \in AtMost(left, In(ds, "f")) : (s = {}) = (left = 0)}} :
    directories \in {list \in DirectoryLists : Len(list) <= Min({4, total})}}

\* random_cwd
RandomCwds(f) == {<<>>} \cup ToSet(f.directories)
=============================================================================
