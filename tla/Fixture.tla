-------------------------------- MODULE Fixture --------------------------------
(***************************************************************************)
(* The fixture of a case (FixtureBlueprint of fuzz/mod.rs), what makes one *)
(* valid (validate_fixture), and what becomes of one on disk               *)
(* (materialize_fixture), of fuzz/system_state_concretizer.rs.             *)
(*                                                                         *)
(* A path is a sequence of names below the fixture's root, <<>> the root   *)
(* itself.  A fixture is a record of four sequences: the paths of its      *)
(* directories, its files [path, size], its symlinks [path, target] and    *)
(* its hardlinks [path, source].  Modes and bytes are left out.            *)
(***************************************************************************)
EXTENDS Naturals, SequencesExt, TLC

Up == ".."
Here == "."

Path == Seq(STRING)

Blueprints ==
  [directories : Seq(Path), files : Seq([path : Path, size : Nat]),
   symlinks : Seq([path : Path, target : Path]), hardlinks : Seq([path : Path, source : Path])]

Pluck(entries) == [i \in DOMAIN entries |-> entries[i].path]

Symlinks(f) == ToSet(Pluck(f.symlinks))

NonDirectories(f) == ToSet(Pluck(f.files) \o Pluck(f.symlinks) \o Pluck(f.hardlinks))

\* Every declared path, in the order in which materialize_fixture makes them.
Destinations(f) == f.directories \o Pluck(f.files) \o Pluck(f.symlinks) \o Pluck(f.hardlinks)

\* ancestors().skip(1)
Above(p) == {SubSeq(p, 1, n) : n \in 0 .. Len(p) - 1}

\* Where a path ends up if every name in it were a plain directory, or the
\* model's Escape if it climbs above the root.
Escape == <<Up>>

Normal(p) ==
  FoldLeft(LAMBDA at, name :
             CASE at = Escape -> Escape
               [] name = Here -> at
               [] name = Up -> IF at = <<>> THEN Escape ELSE Front(at)
               [] OTHER -> Append(at, name),
           <<>>, p)

\* The path a symlink at p names.
Target(p, target) == Normal(Front(p) \o target)

\* symlink_target_stays_within_fixture
StaysWithin(p, target) == target # <<>> /\ Target(p, target) # Escape

-----------------------------------------------------------------------------
(* validate_fixture                                                        *)

AliasesOfSymlinks(f) == {h.path : h \in {x \in ToSet(f.hardlinks) : x.source \in Symlinks(f)}}

ValidHardlink(f, h) ==
  /\ \A s \in ToSet(f.symlinks) : s.path = h.source => StaysWithin(h.path, s.target)
  /\ \A p \in {h.path, h.source} : Above(p) \cap (Symlinks(f) \cup AliasesOfSymlinks(f)) = {}
  /\ h.source \in ToSet(Pluck(f.files) \o Pluck(f.symlinks))

ValidFixture(f) ==
  /\ IsInjective(Destinations(f))
  /\ \A s \in ToSet(f.symlinks) : StaysWithin(s.path, s.target)
  /\ \A h \in ToSet(f.hardlinks) : ValidHardlink(f, h)
  /\ \A p \in ToSet(Destinations(f)) : p # <<>> /\ Above(p) \cap NonDirectories(f) = {}

-----------------------------------------------------------------------------
(* materialize_fixture, on a tree: the kind of each path that exists, or   *)
(* Broken once a system call has failed.                                   *)

Broken == [p \in {} |-> "broken"]

EmptyRoot == [p \in {<<>>} |-> "directory"]

\* More of a tree: what exists stays as it is.
Grown(tree, places, kind) ==
  [q \in DOMAIN tree \cup places |-> IF q \in DOMAIN tree THEN tree[q] ELSE kind]

\* create_dir_all: the directories that are missing down to p.  A file in
\* the way is an error; so is a symlink here, which would lead elsewhere.
CreateDirs(tree, p) ==
  LET wanted == Above(p) \cup {p} IN
  IF tree = Broken \/ \E q \in wanted : q \in DOMAIN tree /\ tree[q] # "directory"
  THEN Broken
  ELSE Grown(tree, wanted, "directory")

\* A new entry that must not exist yet, in parents made on the way.
CreateEntry(tree, p, kind) ==
  LET parents == CreateDirs(tree, Front(p)) IN
  IF parents = Broken \/ p \in DOMAIN parents THEN Broken ELSE Grown(parents, {p}, kind)

CreateHardlink(tree, h) ==
  IF h.source \in DOMAIN tree /\ tree[h.source] # "directory"
  THEN CreateEntry(tree, h.path, tree[h.source])
  ELSE Broken

\* The entries of a fixture, in the order in which they are made.
Entries(f) ==
  LET As(make, list) == [i \in DOMAIN list |-> [make |-> make, entry |-> list[i]]] IN
  As("directory", f.directories) \o As("file", f.files)
    \o As("symlink", f.symlinks) \o As("hardlink", f.hardlinks)

Create(tree, e) ==
  CASE e.make = "directory" -> CreateDirs(tree, e.entry)
    [] e.make = "hardlink" -> CreateHardlink(tree, e.entry)
    [] OTHER -> CreateEntry(tree, e.entry.path, e.make)

Materialised(f) == FoldLeft(Create, EmptyRoot, Entries(f))

\* A symlink that names nothing, once the fixture is on disk.
Dangles(f, s) == Target(s.path, s.target) \notin DOMAIN Materialised(f)
=============================================================================
