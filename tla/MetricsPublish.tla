----------------------------- MODULE MetricsPublish -----------------------------
(***************************************************************************)
(* write_metrics of fuzz/metrics.rs, run by several campaigns that were    *)
(* given one --metrics-out: each writes a temporary file named after its   *)
(* pid, links it to the path, and removes the temporary name.              *)
(*                                                                         *)
(* A campaign may be killed between any two steps.  Its temporary file     *)
(* then stays, perhaps half written, perhaps linked to the published path, *)
(* and a later process may get its pid.                                    *)
(***************************************************************************)
EXTENDS FiniteSets

CONSTANTS
  Procs,   \* the campaigns
  Pids,    \* process ids
  Pid,     \* the id each campaign runs under
  Nobody   \* no process, and no file

ASSUME PidAssumption == Pid \in [Procs -> Pids]
ASSUME NobodyAssumption == Nobody \notin Procs

VARIABLES
  pc,      \* where each campaign is
  out,     \* the file the published path names, or Nobody
  temp,    \* the file each temporary name names, or Nobody
  author,  \* who wrote each file last; a file is known by its creator
  whole    \* has the content of each file been written out?

vars == <<pc, out, temp, author, whole>>

Between == {"mkdir", "create", "write", "link"}
Running == Between \cup {"check", "unlink", "discard"}
Ended == {"ok", "refused", "brokenWrite", "littered", "crashed"}

TypeOK ==
  /\ pc \in [Procs -> {"idle"} \cup Running \cup Ended]
  /\ out \in Procs \cup {Nobody}
  /\ temp \in [Pids -> Procs \cup {Nobody}]
  /\ author \in [Procs -> Procs]
  /\ whole \in [Procs -> BOOLEAN]

Init ==
  /\ pc = [p \in Procs |-> "idle"]
  /\ out = Nobody
  /\ temp = [d \in Pids |-> Nobody]
  /\ author = [p \in Procs |-> p]
  /\ whole = [p \in Procs |-> FALSE]

Goto(p, step) == pc' = [pc EXCEPT ![p] = step]

-----------------------------------------------------------------------------
(* Steps.                                                                  *)

\* Only one live process has a pid.
Start(p) ==
  /\ pc[p] = "idle"
  /\ \A q \in Procs : Pid[q] = Pid[p] => pc[q] \notin Running
  /\ Goto(p, "check")
  /\ UNCHANGED <<out, temp, author, whole>>

\* An existing file is refused before anything is written.
Check(p) ==
  /\ pc[p] = "check"
  /\ Goto(p, IF out = Nobody THEN "mkdir" ELSE "refused")
  /\ UNCHANGED <<out, temp, author, whole>>

MakeDirs(p) ==
  /\ pc[p] = "mkdir"
  /\ \/ Goto(p, "create")
     \/ Goto(p, "refused")
  /\ UNCHANGED <<out, temp, author, whole>>

\* fs::write opens the temporary name: what it already names is emptied.
Create(p) ==
  /\ pc[p] = "create"
  /\ LET d == Pid[p]
         file == IF temp[d] = Nobody THEN p ELSE temp[d]
     IN /\ temp' = [temp EXCEPT ![d] = file]
        /\ author' = [author EXCEPT ![file] = p]
        /\ whole' = [whole EXCEPT ![file] = FALSE]
  /\ Goto(p, "write")
  /\ UNCHANGED out

\* ... and fills it.  A write that fails leaves the temporary file behind.
Write(p) ==
  /\ pc[p] = "write"
  /\ \/ whole' = [whole EXCEPT ![temp[Pid[p]]] = TRUE] /\ Goto(p, "link")
     \/ Goto(p, "brokenWrite") /\ UNCHANGED whole
  /\ UNCHANGED <<out, temp, author>>

\* Had the temporary file been renamed over the path.
Rename(p) ==
  /\ pc[p] = "link"
  /\ out' = temp[Pid[p]]
  /\ Goto(p, "unlink")
  /\ UNCHANGED <<temp, author, whole>>

\* hard_link fails if the path names a file; it may fail otherwise too.
Link(p) ==
  /\ pc[p] = "link"
  /\ \/ out = Nobody /\ out' = temp[Pid[p]] /\ Goto(p, "unlink")
     \/ Goto(p, "discard") /\ UNCHANGED out
  /\ UNCHANGED <<temp, author, whole>>

\* A published file loses its temporary name; a failure to do so is reported
\* as a failure.
Unlink(p) ==
  /\ pc[p] = "unlink"
  /\ \/ temp' = [temp EXCEPT ![Pid[p]] = Nobody] /\ Goto(p, "ok")
     \/ Goto(p, "littered") /\ UNCHANGED temp
  /\ UNCHANGED <<out, author, whole>>

\* Had the loser been left to a later cleanup.
DiscardNothing(p) ==
  /\ pc[p] = "discard"
  /\ Goto(p, "refused")
  /\ UNCHANGED <<out, temp, author, whole>>

\* A file that lost the race is removed; a failure to do so is ignored.
Discard(p) ==
  /\ pc[p] = "discard"
  /\ \/ temp' = [temp EXCEPT ![Pid[p]] = Nobody] /\ Goto(p, "refused")
     \/ Goto(p, "littered") /\ UNCHANGED temp
  /\ UNCHANGED <<out, author, whole>>

Crash(p) ==
  /\ pc[p] \in Running
  /\ Goto(p, "crashed")
  /\ UNCHANGED <<out, temp, author, whole>>

Step(p) ==
  \/ Start(p) \/ Check(p) \/ MakeDirs(p) \/ Create(p) \/ Write(p) \/ Link(p)
  \/ Unlink(p) \/ Discard(p) \/ Crash(p)

Next == \E p \in Procs : Step(p)

Spec == Init /\ [][Next]_vars

-----------------------------------------------------------------------------
(* Properties.                                                             *)

\* What a reader finds at the path is a whole metrics file
\* (fuzz/metrics.rs:372-384).
PublishedIsWhole == out # Nobody => whole[out]

\* Nobody changes what was published, not even a process with the pid of one
\* that was killed with its temporary name still on the published file
\* (the check at fuzz/metrics.rs:346).
NoOverwrite ==
  [][out # Nobody => out' = out /\ author'[out] = author[out] /\ whole'[out] = whole[out]]_vars

\* A temporary file is left only by a process that was killed or could not
\* write or remove it (fuzz/metrics.rs:377-391).
NoLitter ==
  \A p \in Procs :
    pc[p] \in {"ok", "refused"} /\ temp[Pid[p]] # Nobody =>
      \E q \in Procs : Pid[q] = Pid[p] /\ pc[q] \in Running \cup {"crashed", "brokenWrite", "littered"}

\* The inductive invariant: two temporary names never share a file; a name is
\* the process's own work until it is linked; and nobody who is about to
\* write a temporary file holds the published one.
OwnNames ==
  /\ \A d, e \in Pids : d # e /\ temp[d] # Nobody => temp[d] # temp[e]
  /\ \A p \in Procs :
       pc[p] \in {"idle", "check", "mkdir", "create"} =>
         out # p /\ \A d \in Pids : temp[d] # p
  /\ \A d \in Pids : temp[d] # Nobody => Pid[temp[d]] = d

OwnWork ==
  \A p \in Procs :
    LET file == temp[Pid[p]] IN
    /\ pc[p] \in {"write", "link", "unlink", "discard"} => file # Nobody /\ author[file] = p
    /\ pc[p] \in {"link", "unlink"} => whole[file]
    /\ pc[p] \in Between \cup {"discard"} => out = Nobody \/ file # out
    /\ pc[p] = "unlink" => out = file

OnePerPid ==
  \A p, q \in Procs : p # q /\ Pid[p] = Pid[q] => ~ (pc[p] \in Running /\ pc[q] \in Running)

OkIsPublished == \A p \in Procs : pc[p] = "ok" => out # Nobody /\ author[out] = p

IInv == TypeOK /\ OwnNames /\ OwnWork /\ OnePerPid /\ OkIsPublished /\ PublishedIsWhole

\* A temporary name is that of a process at work on its file, or of one that
\* ended without removing it.
LitterHasMaker ==
  \A d \in Pids : temp[d] # Nobody =>
    \E q \in Procs :
      /\ Pid[q] = d
      /\ pc[q] \in {"write", "link", "unlink", "discard", "crashed", "brokenWrite", "littered"}

\* Publishing implements a path that is written once, with a whole file.
AnswerOf(step) ==
  IF step = "ok" THEN "ok"
  ELSE IF step \in {"refused", "brokenWrite", "littered"} THEN "error" ELSE "pending"

Answer == [p \in Procs |-> AnswerOf(pc[p])]

Value ==
  IF out = Nobody THEN Nobody ELSE IF whole[out] THEN author[out] ELSE "partial"

Abstract == INSTANCE WriteOnce WITH value <- Value, answer <- Answer

ImplementsWriteOnce == Abstract!Spec
=============================================================================
