------------------------------- MODULE BundleStore -------------------------------
(***************************************************************************)
(* The store of fuzz/repro.rs.  Campaigns save under one root: a bundle is *)
(* a directory of its own, claimed by creating it, and its files are       *)
(* written one after another, none of them atomically.  A mismatch is      *)
(* saved with its manifest first; the input of a failed evaluation with    *)
(* its manifest last.  A campaign may be killed between any two steps.     *)
(***************************************************************************)
EXTENDS Integers

CONSTANTS
  Savers,    \* the campaigns, each saving one bundle
  BaseName,  \* the base name of what a campaign saves: utility, seed and iteration
  MaxRuns    \* bound on the -run suffixes tried

ASSUME MaxRunsAssumption == MaxRuns \in Nat \ {0}

Kinds == {"mismatch", "failure"}
Places == {BaseName[s] : s \in Savers} \X Kinds \X (1 .. MaxRuns)

\* One file of a bundle: not there, opened but not written out, or whole.
FileStates == {"absent", "torn", "whole"}

VARIABLES
  saver,     \* where each campaign is
  kind,      \* what it saves
  attempt,   \* the suffix it tries, or the one it got
  creator,   \* the campaigns whose creation of each directory succeeded
  manifest,  \* manifest.json of each directory
  files,     \* its other files, the case set of a failed input among them
  writers    \* the campaigns that wrote to each directory

storeVars == <<saver, kind, attempt, creator, manifest, files, writers>>

Steps == {"claim", "first", "firstWritten", "second", "secondWritten"}
SaverEnds == {"saved", "stopped"}

StoreTypeOK ==
  /\ saver \in [Savers -> {"off", "ready"} \cup Steps \cup SaverEnds]
  /\ kind \in [Savers -> Kinds]
  /\ attempt \in [Savers -> 1 .. MaxRuns]
  /\ creator \in [Places -> SUBSET Savers]
  /\ manifest \in [Places -> FileStates]
  /\ files \in [Places -> FileStates]
  /\ writers \in [Places -> SUBSET Savers]

StoreInit ==
  /\ saver \in [Savers -> {"off", "ready"}]
  /\ kind \in [Savers -> Kinds]
  /\ attempt = [s \in Savers |-> 1]
  /\ creator = [d \in Places |-> {}]
  /\ manifest = [d \in Places |-> "absent"]
  /\ files = [d \in Places |-> "absent"]
  /\ writers = [d \in Places |-> {}]

Place(s) == <<BaseName[s], kind[s], attempt[s]>>

SaverGoto(s, step) == saver' = [saver EXCEPT ![s] = step]

-----------------------------------------------------------------------------
(* Claiming a directory.                                                   *)

\* save_repro_at and save_failure_input_at, up to their unique directory.
BeginSave(s, what) ==
  /\ saver[s] = "ready"
  /\ kind' = [kind EXCEPT ![s] = what]
  /\ SaverGoto(s, "claim")
  /\ UNCHANGED <<attempt, creator, manifest, files, writers>>

\* The same, had the directory been taken whether or not it was there.
ClaimExisting(s) ==
  /\ saver[s] = "claim"
  /\ creator' = [creator EXCEPT ![Place(s)] = @ \cup {s}]
  /\ SaverGoto(s, "first")
  /\ UNCHANGED <<kind, attempt, manifest, files, writers>>

\* mkdir of a name that is taken fails, and the next suffix is tried.
Claim(s) ==
  /\ saver[s] = "claim"
  /\ IF creator[Place(s)] = {}
       THEN /\ creator' = [creator EXCEPT ![Place(s)] = {s}]
            /\ SaverGoto(s, "first")
            /\ UNCHANGED attempt
       ELSE /\ attempt[s] < MaxRuns
            /\ attempt' = [attempt EXCEPT ![s] = @ + 1]
            /\ UNCHANGED <<saver, creator>>
  /\ UNCHANGED <<kind, manifest, files, writers>>

-----------------------------------------------------------------------------
(* Writing its files.  fs::write truncates or creates, then writes.        *)

SetManifest(s, state) ==
  /\ manifest' = [manifest EXCEPT ![Place(s)] = state]
  /\ UNCHANGED files

SetFiles(s, state) ==
  /\ files' = [files EXCEPT ![Place(s)] = state]
  /\ UNCHANGED manifest

\* What is written first: the manifest of a mismatch, the input of a failure.
SetFirst(s, state) ==
  IF kind[s] = "mismatch" THEN SetManifest(s, state) ELSE SetFiles(s, state)

SetSecond(s, state) ==
  IF kind[s] = "mismatch" THEN SetFiles(s, state) ELSE SetManifest(s, state)

Touch(s) ==
  /\ writers' = [writers EXCEPT ![Place(s)] = @ \cup {s}]
  /\ UNCHANGED <<kind, attempt, creator>>

OpenFirst(s) ==
  saver[s] = "first" /\ SetFirst(s, "torn") /\ SaverGoto(s, "firstWritten") /\ Touch(s)

WriteFirst(s) ==
  saver[s] = "firstWritten" /\ SetFirst(s, "whole") /\ SaverGoto(s, "second") /\ Touch(s)

OpenSecond(s) ==
  saver[s] = "second" /\ SetSecond(s, "torn") /\ SaverGoto(s, "secondWritten") /\ Touch(s)

WriteSecond(s) ==
  saver[s] = "secondWritten" /\ SetSecond(s, "whole") /\ SaverGoto(s, "saved") /\ Touch(s)

\* A call fails, or the campaign is killed: what is there stays.
SaveStops(s) ==
  /\ saver[s] \in Steps
  /\ SaverGoto(s, "stopped")
  /\ UNCHANGED <<kind, attempt, creator, manifest, files, writers>>

SaveStep(s) ==
  \/ Claim(s) \/ OpenFirst(s) \/ WriteFirst(s) \/ OpenSecond(s) \/ WriteSecond(s)
  \/ SaveStops(s)

-----------------------------------------------------------------------------
(* The store on its own: whatever there is to save may be saved.           *)

StoreNext == \E s \in Savers : SaveStep(s) \/ \E what \in Kinds : BeginSave(s, what)

StoreSpec == StoreInit /\ [][StoreNext]_storeVars

-----------------------------------------------------------------------------
(* Properties.                                                             *)

\* A bundle is the work of one campaign: whoever wrote to a directory is the
\* one whose mkdir made it, however many campaigns save the same seed and
\* iteration at once and whoever died before (unique_repro_path).
OneAuthor ==
  \A d \in Places : \E s \in Savers : creator[d] \cup writers[d] \subseteq {s}

\* The manifest of an input-only bundle promises an input to run again: the
\* case set is whole before there is any manifest (save_failure_input_at).
ManifestHasInput ==
  \A d \in Places : d[2] = "failure" /\ manifest[d] # "absent" => files[d] = "whole"

\* A campaign that reports a bundle as saved leaves all of it on disk, and no
\* later campaign takes any of it away (save_repro_at).
SavedIsComplete ==
  \A s \in Savers : saver[s] = "saved" => manifest[Place(s)] = "whole" /\ files[Place(s)] = "whole"

\* How far the files of a directory are, by the step its campaign is at.
Progress(s) ==
  LET m == manifest[Place(s)]
      f == files[Place(s)]
      began == IF kind[s] = "mismatch" THEN m ELSE f
      ended == IF kind[s] = "mismatch" THEN f ELSE m
  IN /\ saver[s] \in {"first", "firstWritten"} => ended = "absent"
     /\ saver[s] = "second" => began = "whole" /\ ended = "absent"
     /\ saver[s] = "secondWritten" => began = "whole"
     /\ saver[s] = "saved" => began = "whole" /\ ended = "whole"

Owner ==
  /\ \A d \in Places : writers[d] \subseteq creator[d] /\ \E s \in Savers : creator[d] \subseteq {s}
  /\ \A s \in Savers :
       saver[s] \in (Steps \ {"claim"}) \cup {"saved"} => creator[Place(s)] = {s}
  /\ \A d \in Places : creator[d] = {} => manifest[d] = "absent" /\ files[d] = "absent"

StoreInv ==
  StoreTypeOK /\ Owner /\ ManifestHasInput /\ \A s \in Savers : Progress(s)

=============================================================================
