------------------------------- MODULE Observation -------------------------------
(***************************************************************************)
(* The observer of fuzz/comparison/fs_snapshot.rs over a file system that  *)
(* gives a freed inode number out again as soon as it can.  The snapshot   *)
(* before a run keeps every object it saw open, so that the number it was  *)
(* known by cannot come to mean another object while the program runs.     *)
(*                                                                         *)
(* Paths name inode numbers, an inode number belongs to an object at a     *)
(* time, and an object has a kind, its data (the target, of a symbolic     *)
(* link) and one stamp for its three times.                                *)
(***************************************************************************)
EXTENDS Naturals, Sequences, FiniteSets, FiniteSetsExt

CONSTANTS
  Paths,    \* the paths of the fixture
  Inodes,   \* inode numbers
  Absent,   \* no inode
  Texts,    \* what files may hold, and symbolic links may point to
  Written   \* what a program writes to a file that is there

ASSUME InodesAssumption == IsFiniteSet(Inodes) /\ Inodes = 1 .. Cardinality(Inodes)
ASSUME AbsentAssumption == Absent \notin Inodes
ASSUME TextsAssumption == Written \in Texts

\* What there is to know of an object.
Objects == [kind : {"file", "symlink"}, data : Texts, time : Nat]

\* A file system: what each path names, which object has each number, and the
\* objects there ever were, in the order they were made.
Names(fs) == {p \in Paths : fs.name[p] # Absent}
Named(fs) == {fs.name[p] : p \in Names(fs)}
Links(fs, i) == Cardinality({p \in Paths : fs.name[p] = i})
At(fs, p) == fs.body[fs.object[fs.name[p]]]

-----------------------------------------------------------------------------
(* The observer.                                                           *)

Of(fs, kinds) == {i \in Named(fs) : fs.body[fs.object[i]].kind \in kinds}

\* Each readable file is opened once and stays open.
OpenFiles(fs) == [i \in Of(fs, {"file"}) |-> fs.object[i]]

\* What is kept from before the run: the open files, the targets of symbolic links
\* that were read, and an O_PATH handle on every object with the paths it had.
Observer(fs) ==
  [files |-> OpenFiles(fs),
   symlinks |-> [i \in Of(fs, {"symlink"}) |-> fs.body[fs.object[i]].data],
   identities |-> [i \in Named(fs) |-> {p \in Names(fs) : fs.name[p] = i}]]

\* The same, had only the contents of files been kept open.
PinnedFilesOnly(observer) == DOMAIN observer.files

\* An open object keeps its inode number.
Pinned(observer) == DOMAIN observer.files \cup DOMAIN observer.identities

\* A node is read through a handle or a cached target only if its number is
\* that of the object held.
Contents(fs, observer, p) ==
  LET i == fs.name[p] IN
  IF At(fs, p).kind = "symlink"
    THEN IF i \in DOMAIN observer.symlinks THEN observer.symlinks[i] ELSE At(fs, p).data
    ELSE IF i \in DOMAIN observer.files THEN fs.body[observer.files[i]].data ELSE At(fs, p).data

Snapshot(fs, observer) ==
  [p \in Names(fs) |->
     [key |-> fs.name[p], kind |-> At(fs, p).kind, data |-> Contents(fs, observer, p),
      links |-> Links(fs, fs.name[p]), time |-> At(fs, p).time]]

\* The same, had each object been looked for under its first path only.
FirstPathTransitions(observer, post) ==
  {pair \in Paths \X DOMAIN post :
     LET key == post[pair[2]].key IN
     key \in DOMAIN observer.identities /\ pair[1] = CHOOSE p \in observer.identities[key] : TRUE}

\* identity_transition_evidence: which path after the run names the object
\* that which path named before it.
Transitions(observer, post) ==
  {pair \in Paths \X DOMAIN post :
     LET key == post[pair[2]].key IN
     key \in DOMAIN observer.identities /\ pair[1] \in observer.identities[key]}

-----------------------------------------------------------------------------
(* What programs do to a file system.                                      *)

Rename(fs, from, to) ==
  IF from = to \/ fs.name[from] = fs.name[to] THEN fs
  ELSE [fs EXCEPT !.name[to] = fs.name[from], !.name[from] = Absent]

\* A new object gets the lowest number nobody has.
Make(fs, pinned, p, kind, data, time) ==
  LET free == Inodes \ (Named(fs) \cup pinned)
      i == Min(free)
      o == Len(fs.body) + 1
  IN IF fs.name[p] # Absent \/ free = {} THEN fs
     ELSE [name |-> [fs.name EXCEPT ![p] = i], object |-> [fs.object EXCEPT ![i] = o],
           body |-> Append(fs.body, [kind |-> kind, data |-> data, time |-> time])]

Change(body, o, data, time) == [body EXCEPT ![o] = [body[o] EXCEPT !.data = data, !.time = time]]

SystemCalls ==
  [do : {"create", "symlink"}, path : Paths, to : Texts]
    \cup [do : {"unlink", "link", "rename", "write", "stamp"}, path : Paths, to : Paths]

\* An operation that cannot be done changes nothing.
Do(fs, pinned, op, time) ==
  LET p == op.path
      there == fs.name[p] # Absent
      o == fs.object[fs.name[p]]
      kind == IF op.do = "create" THEN "file" ELSE "symlink"
  IN IF op.do \in {"create", "symlink"} THEN Make(fs, pinned, p, kind, op.to, time)
     ELSE IF ~there THEN fs
     ELSE CASE op.do = "unlink" -> [fs EXCEPT !.name[p] = Absent]
            [] op.do = "link" ->
                 IF fs.name[op.to] # Absent THEN fs ELSE [fs EXCEPT !.name[op.to] = fs.name[p]]
            [] op.do = "rename" -> Rename(fs, p, op.to)
            [] op.do = "write" ->
                 IF fs.body[o].kind # "file" THEN fs
                 ELSE [fs EXCEPT !.body = Change(fs.body, o, Written, time)]
            [] op.do = "stamp" -> [fs EXCEPT !.body = Change(fs.body, o, fs.body[o].data, time)]

=============================================================================
