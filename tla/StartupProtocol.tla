----------------------------- MODULE StartupProtocol -----------------------------
(***************************************************************************)
(* The records of a startup capture: how the preloaded library             *)
(* (bench/core/IOStartup.c) fills them and what utils/startup_protocol.rs  *)
(* and validate_lifecycle of fuzz/startup.rs accept.  A record is what its *)
(* fields hold; magic numbers, versions and launch ids are constant over   *)
(* one private socket and left out.                                        *)
(***************************************************************************)
EXTENDS Naturals, Integers, Sequences

CONSTANT None

Profiles == {"managed", "reference"}
Roles == 0 .. 2
Actions == {"default", "ignored", "custom"}
EBADF == 9
EIO == 5

\* One resource limit, the others are alike: it cannot be read, or it is finite.
Limits == {"unknown", "finite", "infinite"}

-----------------------------------------------------------------------------
(* What the library writes.                                                *)

\* StartupControl::encode: the channels a child is told of are told apart.
Encodable(fds) == \A i \in DOMAIN fds : fds[i] >= 3 /\ \A j \in 1 .. i - 1 : fds[j] # fds[i]

\* The checks initialize makes of the control record it reads from a descriptor.
ValidControl(record, fd, profile) ==
  /\ record.profile = profile
  /\ Encodable(<<fd>> \o record.fds)

\* validate_early_record
ValidEarly(early, profile, transport) ==
  /\ early.profile = profile
  /\ \A r \in Roles :
       LET role == early.roles[r] IN
       IF role.state = "inherited"
         THEN /\ role.errno = 0
              /\ IF profile = "managed"
                   THEN /\ role.fd >= 3 /\ role.fd \notin transport
                        /\ \A previous \in 0 .. r - 1 : early.roles[previous].fd # role.fd
                   ELSE role.fd = r
         ELSE role.fd = -1 /\ role.errno = EBADF

\* capture_standards: of one role, from the early record or from the descriptor
\* itself.
Captured(role, r, open, statErrno, profile) ==
  LET closed == [state |-> role.state, fd |-> -1, errno |-> EBADF, statErrno |-> EBADF]
      found(fd) == [state |-> role.state, fd |-> fd, errno |-> 0, statErrno |-> statErrno]
  IN IF profile = "managed"
       THEN IF role.state = "inherited" THEN found(role.fd) ELSE closed
       ELSE IF r \in open THEN found(r) ELSE closed

\* serialize_standard
Serialize(standard, r, profile) ==
  [role |-> r, available |-> standard.errno = 0, fd |-> standard.fd,
   errno |-> standard.errno, statErrno |-> standard.statErrno,
   stat |-> standard.statErrno = 0, state |-> standard.state, binding |-> profile]

\* The "ready" payload.  A limit has an error number, two values and two flags.
Snapshot(pid, captured, profile) ==
  [pid |-> pid, sigpipe |-> captured.sigpipe,
   standards |-> [r \in Roles |-> Serialize(captured.standards[r], r, profile)],
   limit |-> [errno |-> IF captured.limit = "unknown" THEN EIO ELSE 0,
              soft |-> IF captured.limit = "finite" THEN 1024 ELSE 0,
              infinite |-> captured.limit = "infinite"]]

-----------------------------------------------------------------------------
(* What the launcher accepts.                                              *)

\* standard
ValidStandard(s, r, profile) ==
  /\ s.role = r
  /\ s.binding = profile
  /\ profile = "managed" => (s.available <=> s.state = "inherited")
  /\ IF s.available
       THEN s.errno = 0 /\ (IF profile = "managed" THEN s.fd >= 3 ELSE s.fd = r)
       ELSE s.fd = -1 /\ s.errno = EBADF /\ s.statErrno = EBADF /\ ~s.stat
  /\ s.stat <=> s.statErrno = 0

\* resource
ValidLimit(l) ==
  /\ l.errno # 0 => l.soft = 0 /\ ~l.infinite
  /\ l.infinite => l.soft = 0

\* snapshot: no two private streams share a descriptor.
ValidSnapshot(body, profile) ==
  /\ \A r \in Roles : ValidStandard(body.standards[r], r, profile)
  /\ profile = "managed" =>
       \A r, s \in Roles :
         r # s /\ body.standards[r].available /\ body.standards[s].available =>
           body.standards[r].fd # body.standards[s].fd
  /\ ValidLimit(body.limit)

ValidPayload(half, profile) ==
  half.kind = "ready" => ValidSnapshot(half.body, profile)

\* decode_events: whole records, each header followed by a payload of its kind.
Decodes(bytes, profile) ==
  /\ Len(bytes) % 2 = 0
  /\ \A i \in 1 .. Len(bytes) \div 2 :
       LET head == bytes[2 * i - 1]
           tail == bytes[2 * i]
       IN /\ head.part = "head" /\ tail.part = "tail"
          /\ head.kind = tail.kind
          /\ ValidPayload(tail, profile)

EventsOf(bytes) == [i \in 1 .. Len(bytes) \div 2 |-> bytes[2 * i]]

\* validate_lifecycle, had any process been taken for the child.
AnyoneLifecycle(events, pid, requested, profile) ==
  /\ Len(events) = 2
  /\ events[1].kind = "ready" /\ events[2].kind = "entered"
  /\ profile = "managed" =>
       events[1].body.sigpipe = requested /\ events[2].body.sigpipe = requested
  /\ profile = "managed" <=> events[2].body.standards = None

\* That a managed entry has SIGPIPE blocked as "ready" had it is compared too, and
\* cannot fail: an entry restores the captured mask (restore_pipe) before it reads it.
ValidLifecycle(events, pid, requested, profile) ==
  /\ Len(events) = 2
  /\ events[1].kind = "ready" /\ events[2].kind = "entered"
  /\ events[1].body.pid = pid /\ events[2].body.pid = pid
  /\ profile = "managed" =>
       events[1].body.sigpipe = requested /\ events[2].body.sigpipe = requested
  /\ profile = "managed" <=> events[2].body.standards = None

=============================================================================
