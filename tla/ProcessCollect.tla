---------------------------- MODULE ProcessCollect ----------------------------
(***************************************************************************)
(* PreparedProcess::collect and collect_with_channels of utils/process.rs: *)
(* one thread feeds the standard input of a child, drains its outputs and  *)
(* any extra channels, and waits for it, all under one deadline.           *)
(*                                                                         *)
(* Bytes are counted, not named: a pipe is the number of bytes in it.  The *)
(* child's side of a pipe is held by the child, by descendants it left     *)
(* behind ("heir"), by both, or by nobody, and the runner sees end of file *)
(* or a broken pipe only in the last case.                                 *)
(***************************************************************************)
EXTENDS Integers, FiniteSets

CONSTANTS
  Inputs,     \* channels the runner writes; "stdin" is one of them
  Outputs,    \* channels the runner reads
  Capacity,   \* how many bytes a pipe holds
  Chunk,      \* the bound on one transfer (65536 bytes)
  MaxInput,   \* the longest input considered
  Timeout,    \* the deadline, in ticks
  HasPidfd    \* does the kernel give a pidfd for the child?

ASSUME ChannelsAssumption == "stdin" \in Inputs /\ Inputs \cap Outputs = {}
ASSUME SizesAssumption ==
  /\ Capacity \in Nat \ {0}
  /\ Chunk \in Nat \ {0}
  /\ MaxInput \in Nat
  /\ Timeout \in Nat
ASSUME PidfdAssumption == HasPidfd \in BOOLEAN

Channels == Inputs \cup Outputs

VARIABLES
  pc,        \* where the collection loop is
  open,      \* channels whose runner end is still open
  polled,    \* channels the last poll reported and that are not served yet
  pending,   \* input bytes not written yet
  errors,    \* the errors pushed so far
  first,     \* the error collect() returns
  status,    \* the exit status the runner has: its own, or from the kill
  child,     \* the child process
  holders,   \* who holds the child's end of each channel
  fill,      \* bytes in each pipe
  clock      \* ticks since the collection began

runnerVars == <<pc, open, polled, pending, errors, first, status>>
childVars == <<child, holders>>
vars == <<runnerVars, childVars, fill, clock>>

Errors == {"Timeout", "Wait", "Kill", "Channel"}

TypeOK ==
  /\ pc \in {"loop", "poll", "transfer", "cleanup", "returned"}
  /\ open \subseteq Channels
  /\ polled \subseteq open
  /\ pending \in [Inputs -> 0 .. MaxInput]
  /\ errors \subseteq Errors
  /\ first \in Errors \cup {"none"}
  /\ status \in {"none", "own", "killed"}
  /\ child \in {"running", "zombie", "reaped"}
  /\ holders \in [Channels -> SUBSET {"child", "heir"}]
  /\ fill \in [Channels -> 0 .. Capacity]
  /\ clock \in 0 .. Timeout

\* An empty input is closed before the loop starts.
Init ==
  /\ pc = "loop"
  /\ pending \in [Inputs -> 0 .. MaxInput]
  /\ open = Channels \ {c \in Inputs : pending[c] = 0}
  /\ polled = {}
  /\ errors = {}
  /\ first = "none"
  /\ status = "none"
  /\ child = "running"
  /\ holders = [c \in Channels |-> {"child"}]
  /\ fill = [c \in Channels |-> 0]
  /\ clock = 0

Least(S) == CHOOSE n \in S : \A m \in S : n <= m

Push(error) ==
  /\ errors' = errors \cup {error}
  /\ first' = IF first = "none" THEN error ELSE first

-----------------------------------------------------------------------------
(* The loop.                                                               *)

\* The same, had the loop ended with the child's exit.
AllCollectedAtExit == TRUE
AllCollected == open = {}

\* The same, had the deadline ended the loop without an error, or not at all.
LoopTopForgetsTimeout ==
  /\ pc = "loop"
  /\ child' = IF child = "zombie" THEN "reaped" ELSE child
  /\ status' = IF child = "zombie" THEN "own" ELSE status
  /\ pc' = IF (status' # "none" /\ AllCollected) \/ clock >= Timeout THEN "cleanup" ELSE "poll"
  /\ UNCHANGED <<open, polled, pending, errors, first, holders, fill, clock>>

LoopTopNoDeadline ==
  /\ pc = "loop"
  /\ child' = IF child = "zombie" THEN "reaped" ELSE child
  /\ status' = IF child = "zombie" THEN "own" ELSE status
  /\ pc' = IF status' # "none" /\ AllCollected THEN "cleanup" ELSE "poll"
  /\ UNCHANGED <<open, polled, pending, errors, first, holders, fill, clock>>

\* try_wait, the end test and the deadline test.
LoopTop ==
  /\ pc = "loop"
  /\ child' = IF child = "zombie" THEN "reaped" ELSE child
  /\ status' = IF child = "zombie" THEN "own" ELSE status
  /\ \/ /\ status' # "none" /\ AllCollected
        /\ pc' = "cleanup"
        /\ UNCHANGED <<errors, first>>
     \/ /\ ~(status' # "none" /\ AllCollected)
        /\ clock >= Timeout
        /\ pc' = "cleanup"
        /\ Push("Timeout")
     \/ /\ ~(status' # "none" /\ AllCollected)
        /\ clock < Timeout
        /\ pc' = "poll"
        /\ UNCHANGED <<errors, first>>
  /\ UNCHANGED <<open, polled, pending, holders, fill, clock>>

WaitFails ==
  /\ pc = "loop"
  /\ child # "reaped"
  /\ pc' = "cleanup"
  /\ Push("Wait")
  /\ UNCHANGED <<open, polled, pending, status, childVars, fill, clock>>

\* poll reports room, data, or that the other side is gone.
Ready(c) ==
  \/ c \in Inputs /\ (fill[c] < Capacity \/ holders[c] = {})
  \/ c \in Outputs /\ (fill[c] > 0 \/ holders[c] = {})

\* Without a pidfd the wait is cut into short sleeps.
Wakes ==
  \/ \E c \in open : Ready(c)
  \/ child = "zombie" /\ HasPidfd
  \/ child # "reaped" /\ ~HasPidfd
  \/ clock >= Timeout

\* The same, had the outputs been polled only once the inputs were written.
PollInputsFirst ==
  /\ pc = "poll"
  /\ Wakes
  /\ polled' = {c \in open : Ready(c) /\ (c \in Outputs => open \cap Inputs = {})}
  /\ pc' = IF polled' = {} THEN "loop" ELSE "transfer"
  /\ UNCHANGED <<open, pending, errors, first, status, childVars, fill, clock>>

Poll ==
  /\ pc = "poll"
  /\ Wakes
  /\ polled' = {c \in open : Ready(c)}
  /\ pc' = IF polled' = {} THEN "loop" ELSE "transfer"
  /\ UNCHANGED <<open, pending, errors, first, status, childVars, fill, clock>>

PollInterrupted ==
  /\ pc = "poll"
  /\ pc' = "loop"
  /\ UNCHANGED <<open, polled, pending, errors, first, status, childVars, fill, clock>>

PollFails ==
  /\ pc = "poll"
  /\ pc' = "cleanup"
  /\ Push("Wait")
  /\ UNCHANGED <<open, polled, pending, status, childVars, fill, clock>>

Serve(c) ==
  /\ pc = "transfer"
  /\ c \in polled
  /\ polled' = polled \ {c}
  /\ pc' = IF polled' = {} THEN "loop" ELSE "transfer"

\* The same, had an input been closed after its first write.
CloseAfterOneWrite(c, left) == open \ {c}
CloseWhenWritten(c, left) == IF left = 0 THEN open \ {c} ELSE open

\* One bounded write; a pipe that no process reads any more is closed, which is
\* an error for every input but stdin.
TransferIn(c) ==
  /\ Serve(c)
  /\ c \in Inputs
  /\ IF holders[c] = {}
       THEN /\ open' = open \ {c}
            /\ IF c = "stdin" THEN UNCHANGED <<errors, first>> ELSE Push("Channel")
            /\ UNCHANGED <<pending, fill>>
       ELSE LET n == Least({Chunk, pending[c], Capacity - fill[c]})
            IN /\ fill' = [fill EXCEPT ![c] = @ + n]
               /\ pending' = [pending EXCEPT ![c] = @ - n]
               /\ open' = CloseWhenWritten(c, pending[c] - n)
               /\ UNCHANGED <<errors, first>>
  /\ UNCHANGED <<status, childVars, clock>>

\* One bounded read; end of file closes the channel.
TransferOut(c) ==
  /\ Serve(c)
  /\ c \in Outputs
  /\ fill' = [fill EXCEPT ![c] = @ - Least({Chunk, @})]
  /\ open' = IF fill[c] = 0 /\ holders[c] = {} THEN open \ {c} ELSE open
  /\ UNCHANGED <<pending, errors, first, status, childVars, clock>>

\* Any other I/O error closes the channel and the loop goes on.
TransferFails(c) ==
  /\ Serve(c)
  /\ open' = open \ {c}
  /\ Push("Channel")
  /\ UNCHANGED <<pending, status, childVars, fill, clock>>

\* kill_and_reap of a child that is still there, and the drop of all channels.
Cleanup ==
  /\ pc = "cleanup"
  /\ pc' = "returned"
  /\ open' = {}
  /\ polled' = {}
  /\ child' = "reaped"
  /\ holders' = [c \in Channels |-> holders[c] \ {"child"}]
  /\ status' = CASE child = "reaped"  -> status
                 [] child = "zombie"  -> "own"
                 [] child = "running" -> "killed"
  /\ UNCHANGED <<pending, errors, first, fill, clock>>

\* A signal or a wait that fails is an error and never an unbounded wait.
CleanupFails ==
  /\ pc = "cleanup"
  /\ child # "reaped"
  /\ pc' = "returned"
  /\ open' = {}
  /\ polled' = {}
  /\ \E e \in {"Wait", "Kill"} : Push(e)
  /\ UNCHANGED <<pending, status, childVars, fill, clock>>

RunnerStep ==
  \/ LoopTop
  \/ Poll
  \/ \E c \in Channels : TransferIn(c) \/ TransferOut(c)
  \/ Cleanup

SystemCallFails ==
  \/ WaitFails
  \/ PollInterrupted \/ PollFails
  \/ \E c \in Channels : TransferFails(c)
  \/ CleanupFails

-----------------------------------------------------------------------------
(* The child and its descendants: any behaviour at all.                    *)

ChildIO ==
  /\ \/ \E c \in Outputs :
          /\ holders[c] # {} /\ fill[c] < Capacity
          /\ fill' = [fill EXCEPT ![c] = @ + 1]
     \/ \E c \in Inputs :
          /\ holders[c] # {} /\ fill[c] > 0
          /\ fill' = [fill EXCEPT ![c] = @ - 1]
  /\ UNCHANGED <<runnerVars, childVars, clock>>

ChildCloses ==
  /\ \E c \in Channels : \E who \in holders[c] :
       holders' = [holders EXCEPT ![c] = @ \ {who}]
  /\ UNCHANGED <<runnerVars, child, fill, clock>>

ChildForks ==
  /\ child = "running"
  /\ holders' = [c \in Channels |->
                   IF "child" \in holders[c] THEN holders[c] \cup {"heir"} ELSE holders[c]]
  /\ UNCHANGED <<runnerVars, child, fill, clock>>

ChildExits ==
  /\ child = "running"
  /\ child' = "zombie"
  /\ holders' = [c \in Channels |-> holders[c] \ {"child"}]
  /\ UNCHANGED <<runnerVars, fill, clock>>

Tick ==
  /\ pc # "returned"
  /\ clock < Timeout
  /\ clock' = clock + 1
  /\ UNCHANGED <<runnerVars, childVars, fill>>

Stopped ==
  /\ pc = "returned"
  /\ UNCHANGED vars

Next ==
  \/ RunnerStep
  \/ SystemCallFails
  \/ ChildIO \/ ChildCloses \/ ChildForks \/ ChildExits
  \/ Tick
  \/ Stopped

Spec == Init /\ [][Next]_vars

\* The runner runs and time passes; the child owes nothing.
FairSpec == Spec /\ WF_vars(RunnerStep) /\ WF_vars(Tick)

-----------------------------------------------------------------------------
(* Properties.                                                             *)

Succeeded == pc = "returned" /\ first = "none"

\* A successful collection has read every byte that the child and all its
\* descendants wrote, and nobody can write another one.
CompleteOutput ==
  Succeeded => \A c \in Outputs : fill[c] = 0 /\ holders[c] = {}

\* A successful collection reports the child's own exit, never the status of a
\* child that the runner killed.
OwnStatus == Succeeded => status = "own"

\* A successful collection delivered the whole input, unless the child's side
\* stopped reading its standard input.
InputDelivered ==
  Succeeded => \A c \in Inputs : pending[c] = 0 \/ (c = "stdin" /\ holders[c] = {})

\* After the return the child has been waited for, unless the operating system
\* refused to signal it or to wait for it.
NoChildLeft ==
  pc = "returned" /\ errors \cap {"Wait", "Kill"} = {} => child = "reaped"

\* The call returns by its deadline whatever the child does: a child that never
\* stops writing, or descendants that keep the pipes, do not hold it, and it is
\* not left behind.
CollectionReturns == <>(pc = "returned" /\ NoChildLeft)

-----------------------------------------------------------------------------
(* The inductive invariant.                                                *)

\* Why a channel may be closed while nothing went wrong: an output because its
\* end was read, an input because it was written or nobody reads it any more.
IClosed ==
  errors = {} =>
    /\ \A c \in Outputs \ open : fill[c] = 0 /\ holders[c] = {}
    /\ \A c \in Inputs \ open : pending[c] = 0 \/ (c = "stdin" /\ holders[c] = {})

\* The status the runner has before it kills is the one it reaped.
IReaped ==
  /\ pc # "returned" /\ status # "none" => status = "own" /\ child = "reaped"
  /\ pc # "returned" /\ child = "reaped" => status = "own"

\* What the cleanup, and then the caller, may rely on.
IEnd ==
  /\ first = "none" <=> errors = {}
  /\ pc = "cleanup" /\ errors = {} => open = {} /\ status = "own"
  /\ pc = "returned" => open = {}
  /\ pc = "returned" /\ errors = {} => status = "own"

IInv == TypeOK /\ IClosed /\ IReaped /\ IEnd /\ NoChildLeft

=============================================================================
