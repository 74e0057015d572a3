-------------------------- MODULE ProcessCollectProofs --------------------------
(***************************************************************************)
(* Proofs about ProcessCollect, for any channels, pipe capacity, transfer  *)
(* size, input length and timeout: the inductive invariant IInv, and with  *)
(* it what a successful collection means.                                  *)
(***************************************************************************)
EXTENDS ProcessCollect, TLAPS

-----------------------------------------------------------------------------
(* The size of a transfer.                                                 *)

LEMMA LeastOfTwo ==
  ASSUME NEW a \in Nat, NEW b \in Nat
  PROVE  Least({a, b}) \in Nat /\ Least({a, b}) <= a /\ Least({a, b}) <= b
  <1>1. \E n \in {a, b} : \A m \in {a, b} : n <= m
    OBVIOUS
  <1>2. QED
    BY <1>1 DEF Least

LEMMA LeastOfThree ==
  ASSUME NEW a \in Nat, NEW b \in Nat, NEW c \in Nat
  PROVE  /\ Least({a, b, c}) \in Nat
         /\ Least({a, b, c}) <= a /\ Least({a, b, c}) <= b /\ Least({a, b, c}) <= c
  <1>1. \E n \in {a, b, c} : \A m \in {a, b, c} : n <= m
    <2>1. CASE a <= b /\ a <= c
      BY <2>1
    <2>2. CASE b <= a /\ b <= c
      BY <2>2
    <2>3. CASE c <= a /\ c <= b
      BY <2>3
    <2>4. QED
      BY <2>1, <2>2, <2>3
  <1>2. QED
    BY <1>1 DEF Least

-----------------------------------------------------------------------------
(* The inductive invariant.                                                *)

LEMMA InitIInv == Init => IInv
  BY ChannelsAssumption, SizesAssumption
  DEF Init, IInv, TypeOK, IClosed, IReaped, IEnd, NoChildLeft, Channels, Errors

\* The top of the loop: the child is reaped, the end and the deadline tested.
LEMMA LoopTopIInv ==
  ASSUME IInv, LoopTop \/ WaitFails
  PROVE  IInv'
  <1> USE DEF IInv, TypeOK, IClosed, IReaped, IEnd, NoChildLeft, Errors, Push, childVars
  <1>1. CASE LoopTop
    <2>1. /\ pc = "loop" /\ pc' \in {"cleanup", "poll"}
          /\ child' = (IF child = "zombie" THEN "reaped" ELSE child)
          /\ status' = (IF child = "zombie" THEN "own" ELSE status)
          /\ UNCHANGED <<open, polled, pending, holders, fill, clock>>
      BY <1>1 DEF LoopTop
    <2>2. \/ pc' = "cleanup" /\ status' # "none" /\ open = {} /\ UNCHANGED <<errors, first>>
          \/ pc' = "cleanup" /\ Push("Timeout")
          \/ pc' = "poll" /\ UNCHANGED <<errors, first>>
      BY <1>1 DEF LoopTop, AllCollected
    <2>3. TypeOK'
      BY <2>1, <2>2
    <2>4. IClosed' /\ IReaped'
      BY <2>1, <2>2
    <2>5. IEnd' /\ NoChildLeft'
      BY <2>1, <2>2
    <2>6. QED
      BY <2>3, <2>4, <2>5
  <1>2. CASE WaitFails
    BY <1>2 DEF WaitFails
  <1>3. QED
    BY <1>1, <1>2

\* Polling changes nothing but where the loop is and what it serves next.
LEMMA PollIInv ==
  ASSUME IInv, Poll \/ PollInterrupted \/ PollFails
  PROVE  IInv'
  <1> USE DEF IInv, TypeOK, IClosed, IReaped, IEnd, NoChildLeft, Errors, Push, childVars
  <1>1. CASE Poll
    BY <1>1 DEF Poll
  <1>2. CASE PollInterrupted
    BY <1>2 DEF PollInterrupted
  <1>3. CASE PollFails
    BY <1>3 DEF PollFails
  <1>4. QED
    BY <1>1, <1>2, <1>3

\* A write leaves the bytes it moved in the pipe, and closes the channel only
\* when nothing is left or nobody reads.
LEMMA TransferInIInv ==
  ASSUME IInv, NEW c \in Channels, TransferIn(c)
  PROVE  IInv'
  <1> USE DEF IInv, TypeOK, IClosed, IReaped, IEnd, NoChildLeft, Errors, Push, childVars,
              Channels
  <1>1. /\ c \in Inputs /\ c \in open /\ pc = "transfer" /\ pc' \in {"loop", "transfer"}
        /\ polled' = polled \ {c}
        /\ UNCHANGED <<status, child, holders, clock>>
    BY DEF TransferIn, Serve
  <1>2. CASE holders[c] = {}
    <2>1. /\ open' = open \ {c} /\ UNCHANGED <<pending, fill>>
          /\ IF c = "stdin" THEN UNCHANGED <<errors, first>> ELSE Push("Channel")
      BY <1>2 DEF TransferIn
    <2>2. TypeOK'
      BY <1>1, <2>1
    <2>3. CASE c = "stdin"
      <3>1. IClosed'
        BY <1>1, <1>2, <2>1, <2>3, ChannelsAssumption
      <3>2. IReaped' /\ IEnd' /\ NoChildLeft'
        BY <1>1, <2>1, <2>3
      <3>3. QED
        BY <2>2, <3>1, <3>2
    <2>4. CASE c # "stdin"
      <3>1. errors' # {} /\ first' # "none" /\ errors \subseteq errors'
        BY <2>1, <2>4
      <3>2. IClosed' /\ IReaped' /\ IEnd' /\ NoChildLeft'
        BY <1>1, <3>1
      <3>3. QED
        BY <2>2, <3>2
    <2>5. QED
      BY <2>3, <2>4
  <1>3. CASE holders[c] # {}
    <2> DEFINE n == Least({Chunk, pending[c], Capacity - fill[c]})
    <2>1. /\ fill' = [fill EXCEPT ![c] = @ + n] /\ pending' = [pending EXCEPT ![c] = @ - n]
          /\ open' = (IF pending[c] - n = 0 THEN open \ {c} ELSE open)
          /\ UNCHANGED <<errors, first>>
      BY <1>3 DEF TransferIn, CloseWhenWritten
    <2>2. pending[c] \in 0 .. MaxInput /\ fill[c] \in 0 .. Capacity
      BY <1>1
    <2>3. Chunk \in Nat /\ pending[c] \in Nat /\ Capacity - fill[c] \in Nat
      BY <2>2, SizesAssumption
    <2>4. n \in Nat /\ n <= pending[c] /\ n <= Capacity - fill[c]
      BY <2>3, LeastOfThree
    <2> HIDE DEF n
    <2>5. pending[c] - n \in 0 .. MaxInput /\ fill[c] + n \in 0 .. Capacity
      BY <2>2, <2>4, SizesAssumption
    <2>6. pending' \in [Inputs -> 0 .. MaxInput] /\ fill' \in [Channels -> 0 .. Capacity]
      BY <1>1, <2>1, <2>5
    <2>7. TypeOK'
      BY <1>1, <2>1, <2>6
    <2>8. /\ \A d \in Outputs : fill'[d] = fill[d] /\ (d \in open' <=> d \in open)
          /\ \A d \in Inputs \ {c} : pending'[d] = pending[d] /\ (d \in open' <=> d \in open)
          /\ c \notin open' => pending'[c] = 0
      BY <1>1, <2>1, <2>6, ChannelsAssumption
    <2>9. IClosed'
      BY <1>1, <2>1, <2>8
    <2>10. IReaped' /\ IEnd' /\ NoChildLeft'
      BY <1>1, <2>1
    <2>11. QED
      BY <2>7, <2>9, <2>10
  <1>4. QED
    BY <1>2, <1>3

\* A read takes bytes from the pipe, and closes the channel at its end only.
LEMMA TransferOutIInv ==
  ASSUME IInv, NEW c \in Channels, TransferOut(c)
  PROVE  IInv'
  <1> USE DEF IInv, TypeOK, IClosed, IReaped, IEnd, NoChildLeft, Errors, childVars, Channels
  <1> DEFINE n == Least({Chunk, fill[c]})
  <1>1. /\ c \in Outputs /\ c \in open /\ pc = "transfer" /\ pc' \in {"loop", "transfer"}
        /\ polled' = polled \ {c}
        /\ fill' = [fill EXCEPT ![c] = @ - n]
        /\ open' = (IF fill[c] = 0 /\ holders[c] = {} THEN open \ {c} ELSE open)
        /\ UNCHANGED <<pending, errors, first, status, child, holders, clock>>
    BY DEF TransferOut, Serve
  <1>2. fill[c] \in 0 .. Capacity /\ Chunk \in Nat /\ fill[c] \in Nat
    BY <1>1, SizesAssumption
  <1>3. n \in Nat /\ n <= fill[c]
    BY <1>2, LeastOfTwo
  <1> HIDE DEF n
  <1>4. fill[c] - n \in 0 .. Capacity
    BY <1>2, <1>3, SizesAssumption
  <1>5. fill' \in [Channels -> 0 .. Capacity]
    BY <1>1, <1>4
  <1>6. TypeOK'
    BY <1>1, <1>5
  <1>7. /\ \A d \in Inputs : d \in open' <=> d \in open
        /\ \A d \in Outputs \ {c} : fill'[d] = fill[d] /\ (d \in open' <=> d \in open)
        /\ c \notin open' => fill'[c] = 0 /\ holders[c] = {}
    BY <1>1, <1>2, <1>3, ChannelsAssumption
  <1>8. IClosed'
    BY <1>1, <1>7
  <1>9. IReaped' /\ IEnd' /\ NoChildLeft'
    BY <1>1
  <1>10. QED
    BY <1>6, <1>8, <1>9

\* The end of a collection.
LEMMA CleanupIInv ==
  ASSUME IInv, Cleanup \/ CleanupFails
  PROVE  IInv'
  <1> USE DEF IInv, TypeOK, IClosed, IReaped, IEnd, NoChildLeft, Errors, Push, childVars
  <1>1. CASE Cleanup
    <2>1. /\ pc = "cleanup" /\ pc' = "returned" /\ open' = {} /\ polled' = {} /\ child' = "reaped"
          /\ UNCHANGED <<pending, errors, first, fill, clock>>
      BY <1>1 DEF Cleanup
    <2>2. holders' = [d \in Channels |-> holders[d] \ {"child"}]
      BY <1>1 DEF Cleanup
    <2>3. status' \in {"none", "own", "killed"} /\ (child = "reaped" => status' = status)
      BY <1>1 DEF Cleanup
    <2>4. holders' \in [Channels -> SUBSET {"child", "heir"}]
      BY <2>2
    <2>5. TypeOK'
      BY <2>1, <2>3, <2>4
    <2>6. IClosed'
      BY <2>1, <2>2 DEF Channels
    <2>7. IReaped' /\ IEnd' /\ NoChildLeft'
      BY <2>1, <2>3
    <2>8. QED
      BY <2>5, <2>6, <2>7
  <1>2. CASE CleanupFails
    BY <1>2 DEF CleanupFails
  <1>3. QED
    BY <1>1, <1>2

\* Nothing the child and its descendants do reopens a pipe that nobody holds.
LEMMA ChildIInv ==
  ASSUME IInv, ChildIO \/ ChildCloses \/ ChildForks \/ ChildExits
  PROVE  IInv'
  <1>1. /\ UNCHANGED <<runnerVars, clock>>
        /\ child' = child \/ (child = "running" /\ child' = "zombie")
    BY DEF ChildIO, ChildCloses, ChildForks, ChildExits, childVars
  <1>2. /\ holders' \in [Channels -> SUBSET {"child", "heir"}]
        /\ \A d \in Channels : holders[d] = {} => holders'[d] = {}
    BY DEF ChildIO, ChildCloses, ChildForks, ChildExits, childVars, IInv, TypeOK, Channels
  <1>3. /\ fill' \in [Channels -> 0 .. Capacity]
        /\ \A d \in Channels : holders[d] = {} => fill'[d] = fill[d]
    <2> USE SizesAssumption, ChannelsAssumption DEF IInv, TypeOK
    <2>1. CASE ChildIO
      <3>1. PICK d \in Channels : /\ holders[d] # {}
                                  /\ \/ fill[d] < Capacity /\ fill' = [fill EXCEPT ![d] = @ + 1]
                                     \/ fill[d] > 0 /\ fill' = [fill EXCEPT ![d] = @ - 1]
        BY <2>1 DEF ChildIO, Channels
      <3>2. fill[d] \in 0 .. Capacity
        BY <3>1
      <3>3. QED
        BY <3>1, <3>2
    <2>2. CASE ChildCloses \/ ChildForks \/ ChildExits
      BY <2>2 DEF ChildCloses, ChildForks, ChildExits
    <2>3. QED
      BY <2>1, <2>2
  <1> USE DEF IInv, TypeOK, runnerVars
  <1>4. TypeOK'
    BY <1>1, <1>2, <1>3
  <1>5. IClosed'
    BY <1>1, <1>2, <1>3 DEF IClosed, Channels
  <1>6. IReaped' /\ IEnd' /\ NoChildLeft'
    BY <1>1 DEF IReaped, IEnd, NoChildLeft
  <1>7. QED
    BY <1>4, <1>5, <1>6

\* A failed transfer closes its channel and is an error.
LEMMA TransferFailsIInv ==
  ASSUME IInv, NEW c \in Channels, TransferFails(c)
  PROVE  IInv'
  <1> USE DEF IInv, TypeOK, Errors, childVars
  <1>1. /\ c \in open /\ pc = "transfer" /\ pc' \in {"loop", "transfer"}
        /\ polled' = polled \ {c} /\ open' = open \ {c}
        /\ errors' = errors \cup {"Channel"} /\ first' \in Errors
        /\ UNCHANGED <<pending, status, child, holders, fill, clock>>
    BY DEF TransferFails, Serve, Push
  <1>2. TypeOK'
    BY <1>1
  <1>3. IClosed' /\ IReaped'
    BY <1>1 DEF IClosed, IReaped
  <1>4. IEnd' /\ NoChildLeft'
    BY <1>1 DEF IEnd, NoChildLeft
  <1>5. QED
    BY <1>2, <1>3, <1>4

LEMMA NextIInv == IInv /\ [Next]_vars => IInv'
  <1> SUFFICES ASSUME IInv, [Next]_vars PROVE IInv'
    OBVIOUS
  <1>1. CASE UNCHANGED vars
    BY <1>1 DEF vars, runnerVars, childVars, IInv, TypeOK, IClosed, IReaped, IEnd, NoChildLeft
  <1>2. CASE Tick
    <2>1. clock' \in 0 .. Timeout
      BY <1>2, SizesAssumption DEF Tick, IInv, TypeOK
    <2>2. UNCHANGED <<runnerVars, childVars, fill>>
      BY <1>2 DEF Tick
    <2>3. QED
      BY <2>1, <2>2 DEF runnerVars, childVars, IInv, TypeOK, IClosed, IReaped, IEnd, NoChildLeft
  <1>3. CASE RunnerStep \/ SystemCallFails
    BY <1>3, LoopTopIInv, PollIInv, TransferInIInv, TransferOutIInv, TransferFailsIInv,
       CleanupIInv
    DEF RunnerStep, SystemCallFails
  <1>4. QED
    BY <1>1, <1>2, <1>3, ChildIInv DEF Next, Stopped

-----------------------------------------------------------------------------
(* Theorems.                                                               *)

\* The inductive invariant holds of every reachable state, whatever the child
\* does and whichever system call fails.
THEOREM InductiveInvariant == Spec => []IInv
  BY InitIInv, NextIInv, PTL DEF Spec

\* A successful collection has every byte the child and its descendants wrote
\* (utils/process.rs:350).
THEOREM SuccessIsComplete == Spec => []CompleteOutput
  <1>1. IInv => CompleteOutput
    BY DEF IInv, IClosed, IEnd, CompleteOutput, Succeeded
  <1>2. QED
    BY <1>1, InductiveInvariant, PTL

\* A successful collection has the status the child chose
\* (utils/process.rs:339, 408-424).
THEOREM SuccessIsTheChilds == Spec => []OwnStatus
  <1>1. IInv => OwnStatus
    BY DEF IInv, IEnd, OwnStatus, Succeeded
  <1>2. QED
    BY <1>1, InductiveInvariant, PTL

\* A successful collection has delivered its input, unless nobody reads the
\* child's standard input any more (utils/process.rs:216-224).
THEOREM SuccessDelivers == Spec => []InputDelivered
  <1>1. IInv => InputDelivered
    BY DEF IInv, IClosed, IEnd, InputDelivered, Succeeded
  <1>2. QED
    BY <1>1, InductiveInvariant, PTL

\* No child is left behind that could be signalled and waited for
\* (utils/process.rs:408-424, 523-543).
THEOREM ReturnReapsChild == Spec => []NoChildLeft
  BY InductiveInvariant, PTL DEF IInv
=============================================================================
