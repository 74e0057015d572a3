--------------------------------- MODULE Startup ---------------------------------
(***************************************************************************)
(* The startup capture of fuzz/startup.rs: a launcher starts one program   *)
(* with a preloaded library (bench/core/IOStartup.c), which is to report   *)
(* the state the program was started in ("ready") and the moment its       *)
(* utility begins ("entered") over a private socket, and to leave nothing  *)
(* of the private transport to the utility.                                *)
(*                                                                         *)
(* The managed profile moves the standard streams to reserved descriptors  *)
(* and gives 0, 1 and 2 to the language runtime; the reference profile     *)
(* leaves them alone.  Objects are named; a descriptor table says which    *)
(* object an open descriptor is, and whether it survives an exec.          *)
(***************************************************************************)
EXTENDS StartupProtocol, FiniteSets

CONSTANT MaxEvents   \* bound: events begun, as a failed entry may be tried again

VARIABLES
  profile,    \* "managed" or "reference"
  requested,  \* the SIGPIPE action asked for
  pc,         \* the launcher's next step
  held,       \* the private ends the launcher has open
  control,    \* the record in the control pipe
  early,      \* the record in the early pipe
  where,      \* how far each process is: the launcher's child and its own child
  sending,    \* the event each process is in the middle of sending
  sigpipe,    \* each process's SIGPIPE action
  fds,        \* the descriptor table of the launcher's child
  captured,   \* what the library captured
  wire,       \* what was sent over the observer socket
  got,        \* what the launcher read of it
  errors,     \* errors of the collection
  report,     \* the report written
  begun,      \* who began the utility, and under which SIGPIPE action
  failed      \* did a bootstrap fail, or an entry of which something was sent?

launcherVars == <<pc, held, control, got, errors, report>>
processVars == <<early, where, sending, sigpipe, fds, captured, wire, begun, failed>>
startupVars == <<profile, requested, launcherVars, processVars>>

Procs == {"own", "heir"}
Idle == [kind |-> "none", body |-> None]   \* no event is being sent
Present(p) == where[p] \notin {"absent", "dead"}

-----------------------------------------------------------------------------
(* Descriptors.                                                            *)

Standard == [r \in Roles |-> <<"stdin", "stdout", "stderr">>[r + 1]]
Slot == [r \in Roles |-> r + 3]
Slots == 3 .. 5

\* The private ends, by descriptor: runtime stdin, and the pipes and the socket.
Private ==
  [f \in 6 .. 16 |->
     <<"null", "controlR", "controlW", "outR", "outW", "errR", "errW", "observerR", "observerW",
       "earlyR", "earlyW">>[f - 5]]
RuntimeFd == [r \in Roles |-> <<6, 10, 12>>[r + 1]]
Transport == {7, 10, 12, 14, 15}
ControlFd == 7
ControlRecord == [profile |-> profile, fds |-> <<10, 12, 14, 15>>]

Fd(object, cloexec) == [object |-> object, cloexec |-> cloexec]

\* A child's table after fork: Command has put the standard pipes in place.
Forked ==
  [f \in 0 .. 16 |->
     IF f <= 2 THEN Fd(Standard[f], FALSE)
     ELSE IF f <= 5 THEN Fd("null", TRUE) ELSE Fd(Private[f], TRUE)]

\* EarlyTransfer::prepare.  The runtime's channels take 0, 1 and 2 last.
GiveRuntime(table) ==
  [f \in DOMAIN table \cup Roles |->
     IF f \in Roles THEN Fd(table[RuntimeFd[f]].object, FALSE) ELSE table[f]]
Reserve(table) ==
  [f \in DOMAIN table \cup Slots |->
     IF f \in Slots THEN Fd(table[f - 3].object, FALSE) ELSE table[f]]
Inherit(table) == [f \in DOMAIN table |-> IF f \in Transport THEN Fd(table[f].object, FALSE) ELSE table[f]]
Without(table, gone) == [f \in DOMAIN table \ gone |-> table[f]]

\* The same, had the runtime's channels been put in place first.
PrepareRuntimeFirst(table) ==
  Without(Inherit(IF profile = "managed" THEN Reserve(GiveRuntime(table)) ELSE table), {16})

Prepare(table) ==
  IF profile = "managed" THEN GiveRuntime(Without(Inherit(Reserve(table)), {16}))
                         ELSE Without(Inherit(table), {16})

EarlyRecord ==
  [profile |-> profile,
   roles |-> [r \in Roles |->
                [state |-> "inherited", fd |-> IF profile = "managed" THEN Slot[r] ELSE r, errno |-> 0]]]

AfterExec(table) == Without(table, {f \in DOMAIN table : table[f].cloexec})

\* Nobody can write to a pipe any more.
Eof(end) == end \notin held /\ \A f \in DOMAIN fds : fds[f].object # end

-----------------------------------------------------------------------------
(* The launcher: run_startup.                                              *)

Ends == {Private[f] : f \in 7 .. 16}

StartupInit ==
  /\ profile \in Profiles
  /\ requested \in {"default", "ignored"}
  /\ pc = "setup"
  /\ held = {}
  /\ control = None
  /\ early = None
  /\ where = [p \in Procs |-> "absent"]
  /\ sending = [p \in Procs |-> Idle]
  /\ sigpipe = [p \in Procs |-> requested]
  /\ fds = <<>>
  /\ captured = None
  /\ wire = <<>>
  /\ got = <<>>
  /\ errors = {}
  /\ report = None
  /\ begun = <<>>
  /\ failed = FALSE

\* The arguments, the files they name, the channels and the result directory.
Setup ==
  /\ pc = "setup"
  /\ \/ Encodable(<<ControlFd>> \o ControlRecord.fds) /\ pc' = "spawn" /\ held' = Ends
     \/ pc' = "refused" /\ UNCHANGED held
  /\ UNCHANGED <<profile, requested, control, got, errors, report, processVars>>

\* Spawn comes back when the child has executed the target.  The loader runs
\* initializers of shared objects before the library's: they may close a stream
\* and change the SIGPIPE action.
SpawnChild ==
  /\ pc = "spawn"
  /\ \/ /\ pc' = "drop"
        /\ early' = EarlyRecord
        /\ \E closed \in {{}, {1}} : fds' = Without(AfterExec(Prepare(Forked)), closed)
        /\ \E action \in Actions : sigpipe' = [sigpipe EXCEPT !["own"] = action]
        /\ where' = [where EXCEPT !["own"] = "control"]
        /\ UNCHANGED errors
     \/ /\ pc' = "drop"
        /\ errors' = {"Spawn"}
        /\ UNCHANGED <<early, fds, sigpipe, where>>
  /\ UNCHANGED <<profile, requested, held, control, got, report, sending, captured, wire, begun, failed>>

\* The same, had the launcher kept its end of the early pipe.
DropAllButEarly ==
  /\ pc = "drop"
  /\ held' = held \cap {"controlW", "outR", "errR", "observerR", "earlyW"}
  /\ pc' = IF errors = {} THEN "collect" ELSE "report"
  /\ UNCHANGED <<profile, requested, control, got, errors, report, processVars>>

DropEnds ==
  /\ pc = "drop"
  /\ held' = held \cap {"controlW", "outR", "errR", "observerR"}
  /\ pc' = IF errors = {} THEN "collect" ELSE "report"
  /\ UNCHANGED <<profile, requested, control, got, errors, report, processVars>>

\* The collection writes the control record and closes its end.  With no reader
\* left that is an error.
WriteControl ==
  /\ pc = "collect"
  /\ "controlW" \in held
  /\ held' = held \ {"controlW"}
  /\ IF \E f \in DOMAIN fds : fds[f].object = "controlR"
       THEN control' = ControlRecord /\ UNCHANGED errors
       ELSE errors' = errors \cup {"Channel"} /\ UNCHANGED control
  /\ UNCHANGED <<profile, requested, pc, got, report, processVars>>

\* The child is reaped, and everything that was sent has been read
\* (ProcessCollect!CompleteOutput).
CollectAll ==
  /\ pc = "collect"
  /\ "controlW" \notin held
  /\ \A p \in Procs : ~Present(p)
  /\ got' = wire
  /\ pc' = "report"
  /\ UNCHANGED <<profile, requested, held, control, errors, report, processVars>>

\* The deadline passes or a channel fails: the child is killed, and what was
\* read until then is what there is.
CollectionFails ==
  /\ pc = "collect"
  /\ \E n \in 0 .. Len(wire) : got' = SubSeq(wire, 1, n)
  /\ errors' = errors \cup {"Timeout"}
  /\ held' = {}
  /\ pc' = "report"
  /\ where' = [where EXCEPT !["own"] = "dead"]
  /\ fds' = <<>>
  /\ sending' = [sending EXCEPT !["own"] = Idle]
  /\ UNCHANGED <<profile, requested, control, report, early, sigpipe, captured, wire, begun, failed>>

\* The artifacts first, the report last; any of the writes may fail.
Report ==
  /\ pc = "report"
  /\ pc' = "done"
  /\ \/ report' = [complete |-> /\ errors = {}
                                /\ Decodes(got, profile)
                                /\ early # None
                                /\ ValidLifecycle(EventsOf(got), "own", requested, profile)]
     \/ UNCHANGED report
  /\ UNCHANGED <<profile, requested, held, control, got, errors, processVars>>

LauncherStep == Setup \/ SpawnChild \/ DropEnds \/ WriteControl \/ CollectAll \/ Report

-----------------------------------------------------------------------------
(* The library in the child: initialize.                                   *)

Goto(p, step) == where' = [where EXCEPT ![p] = step]

ReadControl ==
  /\ where["own"] = "control"
  /\ control # None
  /\ Eof("controlW")
  /\ Goto("own", IF ValidControl(control, ControlFd, profile) THEN "early" ELSE "exit")
  /\ UNCHANGED <<profile, requested, launcherVars, early, sending, sigpipe, fds, captured, wire, begun, failed>>

ReadEarly ==
  /\ where["own"] = "early"
  /\ Eof("earlyW")
  /\ Goto("own", IF ValidEarly(early, profile, Transport) THEN "capture" ELSE "failing")
  /\ UNCHANGED <<profile, requested, launcherVars, early, sending, sigpipe, fds, captured, wire, begun, failed>>

\* capture_standards, the record of it, and the end of the private transport.
Capture ==
  /\ where["own"] = "capture"
  /\ \E limit \in Limits : LET statErrno == IF limit = "unknown" THEN EIO ELSE 0 IN
       captured' = [sigpipe |-> sigpipe["own"], limit |-> limit,
                    standards |-> [r \in Roles |-> Captured(early.roles[r], r, DOMAIN fds, statErrno, profile)]]
  /\ LET kept == Without(fds, {7, 10, 12, 15}) IN
     fds' = [f \in DOMAIN kept |-> IF f \in 3 .. 14 THEN Fd(kept[f].object, TRUE) ELSE kept[f]]
  /\ Goto("own", IF profile = "managed" /\ sigpipe["own"] = "custom" THEN "failing" ELSE "ready")
  /\ UNCHANGED <<profile, requested, launcherVars, early, sending, sigpipe, wire, begun, failed>>

\* An event goes out in parts: its header, then its payload.
Header(kind) == [part |-> "head", kind |-> kind]
Payload(kind, body) == [part |-> "tail", kind |-> kind, body |-> body]

Begin(p, kind, body) ==
  /\ sending[p] = Idle
  /\ Cardinality({i \in DOMAIN wire : wire[i].part = "head"}) < MaxEvents
  /\ sending' = [sending EXCEPT ![p] = [kind |-> kind, body |-> body]]
  /\ wire' = Append(wire, Header(kind))

Complete(p) ==
  /\ sending[p] # Idle
  /\ sending' = [sending EXCEPT ![p] = Idle]
  /\ wire' = Append(wire, Payload(sending[p].kind, sending[p].body))

BeginReady ==
  /\ where["own"] = "ready"
  /\ Begin("own", "ready", Snapshot("own", captured, profile))
  /\ UNCHANGED <<profile, requested, launcherVars, early, where, sigpipe, fds, captured, begun, failed>>

CompleteReady ==
  /\ where["own"] = "ready"
  /\ Complete("own")
  /\ Goto("own", "loaded")
  /\ UNCHANGED <<profile, requested, launcherVars, early, sigpipe, fds, captured, begun, failed>>

\* Any system call of the initialization may fail.
InitializeFails ==
  /\ where["own"] \in {"control", "early", "capture", "ready"}
  /\ Goto("own", IF where["own"] = "control" THEN "exit" ELSE "failing")
  /\ sending' = [sending EXCEPT !["own"] = Idle]
  /\ failed' = TRUE
  /\ UNCHANGED <<profile, requested, launcherVars, early, sigpipe, fds, captured, wire, begun>>

\* fail: the error is sent if the observer is known, then the process exits.
Fail ==
  /\ where["own"] = "failing"
  /\ \/ Begin("own", "bootstrapError", None) /\ UNCHANGED where
     \/ Complete("own") /\ Goto("own", "exit")
  /\ failed' = TRUE
  /\ UNCHANGED <<profile, requested, launcherVars, early, sigpipe, fds, captured, begun>>

-----------------------------------------------------------------------------
(* The runtime and the utility, in the child or in a child of its own.     *)

\* Runtimes and initializers change the SIGPIPE action, and those of a reference
\* program may close a stream.
Meddle ==
  /\ where["own"] = "loaded"
  /\ \/ \E action \in {"default", "custom"} : sigpipe' = [sigpipe EXCEPT !["own"] = action]
        /\ UNCHANGED fds
     \/ /\ profile = "reference"
        /\ fds' = Without(fds, {0})
        /\ UNCHANGED sigpipe
  /\ UNCHANGED <<profile, requested, launcherVars, early, where, sending, captured, wire, begun, failed>>

\* AdoptNativeStartupCapabilities takes the three standards once.
Adopt(p) ==
  /\ profile = "managed"
  /\ where[p] = "loaded"
  /\ Goto(p, "adopted")
  /\ UNCHANGED <<profile, requested, launcherVars, early, sending, sigpipe, fds, captured, wire, begun, failed>>

CanEnter(p) == where[p] = IF profile = "managed" THEN "adopted" ELSE "loaded"

\* dfy_startup_enter_utility restores the captured SIGPIPE action first.
BeginEntry(p) ==
  /\ CanEnter(p)
  /\ sigpipe' = [sigpipe EXCEPT ![p] = IF profile = "managed" THEN captured.sigpipe ELSE @]
  /\ Begin(p, "entered", [pid |-> p, sigpipe |-> sigpipe'[p],
                          standards |-> IF profile = "managed" THEN None ELSE Roles \cap DOMAIN fds])
  /\ UNCHANGED <<profile, requested, launcherVars, early, where, fds, captured, begun, failed>>

CompleteEntry(p) ==
  /\ CanEnter(p)
  /\ sending[p] # Idle /\ sending[p].kind = "entered"
  /\ Complete(p)
  /\ Goto(p, "entered")
  /\ begun' = Append(begun, [by |-> p, sigpipe |-> sigpipe[p]])
  /\ UNCHANGED <<profile, requested, launcherVars, early, sigpipe, fds, captured, failed>>

\* A failing entry may or may not have got as far as restoring the SIGPIPE action.
Restoring(p) ==
  sigpipe' \in {sigpipe} \cup
    (IF profile = "managed" THEN {[sigpipe EXCEPT ![p] = captured.sigpipe]} ELSE {})

\* A reference program is over after a failed entry; a managed runtime may try again.
EntryOver(p) == IF profile = "managed" THEN UNCHANGED where ELSE Goto(p, "exit")

\* A system call of the entry fails, and that is reported as far as possible.
EntryFails(p) ==
  /\ CanEnter(p)
  /\ failed' = TRUE
  /\ \/ Begin(p, "entryError", None) /\ Restoring(p) /\ UNCHANGED where
     \/ /\ sending[p] # Idle /\ sending[p].kind = "entryError"
        /\ Complete(p) /\ EntryOver(p)
        /\ UNCHANGED sigpipe
     \/ /\ sending[p] # Idle
        /\ sending' = [sending EXCEPT ![p] = Idle]
        /\ EntryOver(p)
        /\ UNCHANGED <<wire, sigpipe>>
  /\ UNCHANGED <<profile, requested, launcherVars, early, fds, captured, begun>>

\* The entry fails, or the sending of its event does, and not a byte was sent.
EntryFailsUnsent(p) ==
  /\ CanEnter(p)
  /\ sending[p] = Idle
  /\ Restoring(p) /\ EntryOver(p)
  /\ UNCHANGED <<profile, requested, launcherVars, early, sending, fds, captured, wire, begun, failed>>

\* The child's child is a copy of it, with the library's state.
Fork ==
  /\ where["own"] \in {"loaded", "adopted", "entered"}
  /\ sending["own"] = Idle
  /\ where["heir"] = "absent"
  /\ Goto("heir", where["own"])
  /\ sigpipe' = [sigpipe EXCEPT !["heir"] = sigpipe["own"]]
  /\ UNCHANGED <<profile, requested, launcherVars, early, sending, fds, captured, wire, begun, failed>>

\* A process may end at any time.
End(p) ==
  /\ Present(p)
  /\ Goto(p, "dead")
  /\ sending' = [sending EXCEPT ![p] = Idle]
  /\ fds' = IF p = "own" THEN <<>> ELSE fds
  /\ failed' = (failed \/ sending[p] # Idle)
  /\ UNCHANGED <<profile, requested, launcherVars, early, sigpipe, captured, wire, begun>>

LibraryStep ==
  ReadControl \/ ReadEarly \/ Capture \/ BeginReady \/ CompleteReady \/ Fail

ProgramStep ==
  \/ InitializeFails \/ Fork \/ Meddle
  \/ \E p \in Procs :
       Adopt(p) \/ BeginEntry(p) \/ CompleteEntry(p) \/ EntryFails(p) \/ EntryFailsUnsent(p) \/ End(p)

\* Once the collection is over nobody reads what the processes send.
StartupNext ==
  \/ LauncherStep \/ CollectionFails
  \/ pc \notin {"report", "done"} /\ (LibraryStep \/ ProgramStep)

\* The launcher and the library run; nothing is assumed of the program, nor that
\* the deadline ever comes.
StartupSpec ==
  /\ StartupInit /\ [][StartupNext]_startupVars
  /\ WF_startupVars(LauncherStep) /\ WF_startupVars(LibraryStep)

-----------------------------------------------------------------------------
(* Properties.                                                             *)

\* A startup is reported complete exactly if it was one: the child itself, and no
\* other process, began its utility once, under the action that was asked for when
\* the profile says so, and nothing went wrong on the way (run_startup,
\* validate_lifecycle, and what IOStartup.c writes for them to decode).  An entry
\* that failed before a byte was sent began nothing: the one tried after it counts.
CompleteIsOneEntry ==
  report # None =>
    (report.complete <=>
       /\ errors = {} /\ ~failed
       /\ captured # None
       /\ Len(begun) = 1
       /\ begun[1].by = "own"
       /\ profile = "managed" => captured.sigpipe = requested /\ begun[1].sigpipe = requested)

\* A program that is about to begin its utility has the launcher's own streams, in
\* the reserved descriptors or where they were; the managed runtime has channels of
\* its own; and of the private transport only the observer is left, and no program
\* it executes will get it (EarlyTransfer::prepare, initialize).
StreamsAreTheLaunchers ==
  where["own"] \in {"loaded", "adopted", "entered"} =>
    /\ \A r \in Roles :
         LET standard == captured.standards[r] IN
         standard.errno = 0 /\ (profile = "managed" \/ r \in DOMAIN fds) =>
           fds[standard.fd].object = Standard[r]
    /\ profile = "managed" =>
         \A r \in Roles \cap DOMAIN fds : fds[r].object = Private[RuntimeFd[r]]
    /\ \A f \in DOMAIN fds : f > 2 =>
         fds[f].cloexec /\ (fds[f].object = "observerW" \/ f \in Slots)

\* The library never waits for the deadline: each private pipe it reads to the end
\* does end (the drop of the launcher's ends after the spawn, and the end of the
\* early pipe that the child closes itself).
BootstrapEnds ==
  where["own"] = "control" ~> where["own"] \notin {"control", "early"}

-----------------------------------------------------------------------------
(* The inductive invariant.                                                *)

Standards == [state : {"inherited"}, fd : -1 .. 5, errno : {0, EBADF}, statErrno : {0, EIO, EBADF}]
CapturedRecords == [sigpipe : Actions, limit : Limits, standards : [Roles -> Standards]]
EarlyRecords == [profile : Profiles, roles : [Roles -> [state : {"inherited"}, fd : 0 .. 5, errno : {0}]]]

ASSUME NoneAssumption ==
  None \notin CapturedRecords /\ None \notin EarlyRecords /\ \A open \in SUBSET Roles : None # open

Events == {"ready", "entered", "bootstrapError", "entryError"}
ReadyBodies ==
  [pid : {"own"}, sigpipe : Actions,
   standards : [Roles -> [role : Roles, available : BOOLEAN, fd : -1 .. 5, errno : {0, EBADF},
                          statErrno : {0, EIO, EBADF}, stat : BOOLEAN, state : {"inherited"},
                          binding : Profiles]],
   limit : [errno : {0, EIO}, soft : {0, 1024}, infinite : BOOLEAN]]
EntryBodies == [pid : Procs, sigpipe : Actions, standards : {None} \cup SUBSET Roles]
Bodies == {None} \cup ReadyBodies \cup EntryBodies
Halves == [part : {"head"}, kind : Events] \cup [part : {"tail"}, kind : Events, body : Bodies]

Bootstrapping == {"control", "early", "capture", "ready"}
Loaded == {"loaded", "adopted", "entered"}

StartupTypeOK ==
  /\ profile \in Profiles
  /\ requested \in {"default", "ignored"}
  /\ pc \in {"setup", "refused", "spawn", "drop", "collect", "report", "done"}
  /\ held \subseteq Ends
  /\ control \in {None, ControlRecord}
  /\ early \in {None, EarlyRecord}
  /\ where \in [Procs -> {"absent", "failing", "exit", "dead"} \cup Bootstrapping \cup Loaded]
  /\ sending \in [Procs -> {Idle} \cup [kind : Events, body : Bodies]]
  /\ sigpipe \in [Procs -> Actions]
  /\ captured \in {None} \cup CapturedRecords
  /\ wire \in Seq(Halves)
  /\ begun \in Seq([by : Procs, sigpipe : Actions])
  /\ errors \subseteq {"Spawn", "Channel", "Timeout"}
  /\ failed \in BOOLEAN

\* What a descriptor of the child is open on once the target was executed.
Object(f) ==
  IF f \in Roles THEN IF profile = "managed" THEN Private[RuntimeFd[f]] ELSE Standard[f]
  ELSE IF f \in Slots THEN Standard[f - 3] ELSE Private[f]

Kept == IF profile = "managed" THEN Slots ELSE {}

\* The table before the private transport is closed and after, and what was
\* captured of it.
Table ==
  /\ where["own"] \in Bootstrapping => early = EarlyRecord
  /\ where["own"] \in {"control", "early", "capture"} =>
       Kept \subseteq DOMAIN fds /\ DOMAIN fds \subseteq Roles \cup Kept \cup Transport
  /\ where["own"] \in {"ready"} \cup Loaded \/ where["heir"] # "absent" => captured # None
  /\ where["own"] \in {"ready"} \cup Loaded =>
       /\ Kept \subseteq DOMAIN fds /\ DOMAIN fds \subseteq Roles \cup Kept \cup {14}
       /\ \A f \in DOMAIN fds \ Roles : fds[f].cloexec
  /\ where["own"] \in Bootstrapping \cup Loaded => \A f \in DOMAIN fds : fds[f].object = Object(f)

CapturedRoles ==
  captured # None =>
    \A r \in Roles :
      LET standard == captured.standards[r] IN
      \/ standard.fd = EarlyRecord.roles[r].fd /\ standard.errno = 0 /\ standard.statErrno \in {0, EIO}
      \/ profile = "reference" /\ standard.fd = -1 /\ standard.errno = EBADF /\ standard.statErrno = EBADF

\* The launcher: nothing happens before the spawn or after a spawn that failed, and
\* a collection without errors has read everything there will ever be.
Collection ==
  /\ pc \in {"setup", "refused", "spawn"} => errors = {} /\ where["own"] = "absent"
  /\ pc # "done" => report = None
  /\ pc \in {"report", "done"} /\ errors = {} => got = wire /\ \A p \in Procs : ~Present(p)
  /\ report # None =>
       report.complete = /\ errors = {}
                         /\ Decodes(got, profile)
                         /\ early # None
                         /\ ValidLifecycle(EventsOf(got), "own", requested, profile)

\* Before the "ready" event is complete, and for good if it never was, nobody
\* begins a utility or says so.
Unready ==
  /\ where["heir"] = "absent" /\ sending["heir"] = Idle
  /\ where["own"] \notin Loaded
  /\ begun = <<>>
  /\ \A i \in DOMAIN wire : wire[i].kind # "entered"
  /\ where["own"] \in {"absent", "control", "early", "capture"} =>
       wire = <<>> /\ sending["own"] = Idle /\ ~failed
  /\ where["own"] = "ready" =>
       /\ ~failed
       /\ \/ wire = <<>> /\ sending["own"] = Idle
          \/ /\ wire = <<Header("ready")>>
             /\ sending["own"] = [kind |-> "ready", body |-> Snapshot("own", captured, profile)]
  /\ where["own"] = "failing" => sending["own"].kind \in {"none", "bootstrapError"}
  /\ where["own"] \in {"exit", "dead"} => sending["own"] = Idle

Sent == Len(wire)   \* parts of events that were sent
Entries == Len(begun)
InFlight(p) == IF sending[p] = Idle THEN 0 ELSE 1

\* A process that sends an event of its entry can still enter, and what it says of
\* its SIGPIPE action stays true until it has.
Sending(p) ==
  sending[p] # Idle =>
    /\ CanEnter(p)
    /\ sending[p].kind = "entryError" => failed
    /\ sending[p].kind \in {"entered", "entryError"}
    /\ sending[p].kind = "entered" =>
         /\ sending[p].body.pid = p
         /\ profile = "managed" => sending[p].body.sigpipe = sigpipe[p]
         /\ profile = "managed" <=> sending[p].body.standards = None

\* One entry, whole, and nothing beside it.
Entered ==
  /\ wire[3] = Header("entered") /\ wire[4].part = "tail" /\ wire[4].kind = "entered"
  /\ ~failed
  /\ \A p \in Procs : sending[p] = Idle
  /\ Entries = 1
  /\ begun[1].by = wire[4].body.pid
  /\ profile = "managed" => begun[1].sigpipe = wire[4].body.sigpipe
  /\ profile = "managed" <=> wire[4].body.standards = None

\* After it, what is on the wire tells how many entries there were, unless
\* something failed; and no failure ever leaves what looks like one entry.
Told ==
  /\ early = EarlyRecord /\ captured # None
  /\ Sent >= 2
  /\ wire[1] = Header("ready") /\ wire[2] = Payload("ready", Snapshot("own", captured, profile))

Started ==
  /\ where["own"] \in {"exit", "dead"} \cup Loaded
  /\ where["heir"] \in {"absent", "exit", "dead"} \cup Loaded

EntriesCounted ==
  ~failed => Sent = 2 + 2 * Entries + InFlight("own") + InFlight("heir")

NothingAfter ==
  Sent = 2 => begun = <<>> /\ ~failed /\ \A p \in Procs : sending[p] = Idle

HalfAfter ==
  Sent = 3 =>
    /\ wire[3].part = "head"
    /\ begun = <<>>
    /\ \A p \in Procs :
         sending[p] # Idle =>
           /\ wire[3] = Header(sending[p].kind)
           /\ failed => sending[p].kind = "entryError"
           /\ \A q \in Procs \ {p} : sending[q] = Idle

EventAfter ==
  Sent = 4 =>
    \/ wire[4].part = "head" /\ begun = <<>>
    \/ wire[4].kind # "entered" /\ failed
    \/ Entered

Ready ==
  /\ Told /\ Started /\ \A p \in Procs : Sending(p)
  /\ EntriesCounted /\ NothingAfter /\ HalfAfter /\ EventAfter

Lifecycle == errors = {} => Unready \/ Ready

StartupInv == StartupTypeOK /\ Table /\ CapturedRoles /\ Collection /\ Lifecycle

=============================================================================
