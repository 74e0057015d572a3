--------------------------- MODULE MCProcessCollect ---------------------------
(***************************************************************************)
(* ProcessCollect against two kinds of children: one that does anything at *)
(* all, and a filter, which copies its input to its outputs, writing more  *)
(* than it reads, blocks whenever a pipe is full or empty, and exits at    *)
(* end of file.  With both pipes smaller than the data, a runner that      *)
(* wrote all its input before reading would deadlock with a filter.        *)
(***************************************************************************)
EXTENDS ProcessCollect

CONSTANTS
  Expansion,   \* bytes the filter writes to each output per byte read
  AnyInput     \* the longest input of a child that does anything

VARIABLES
  filter,      \* is the child a filter?
  copying      \* bytes the filter still has to write, per output

filterVars == <<filter, copying>>
mcVars == <<vars, filterVars>>

MCInit ==
  /\ Init
  /\ filter \in BOOLEAN
  /\ IF filter THEN pending = [c \in Inputs |-> IF c = "stdin" THEN MaxInput ELSE 0]
               ELSE pending \in [Inputs -> 0 .. AnyInput]
  /\ copying = [c \in Outputs |-> 0]

FilterReads ==
  /\ child = "running"
  /\ \A c \in Outputs : copying[c] = 0
  /\ fill["stdin"] > 0
  /\ fill' = [fill EXCEPT !["stdin"] = @ - 1]
  /\ copying' = [c \in Outputs |-> Expansion]
  /\ UNCHANGED <<runnerVars, childVars, clock>>

FilterWrites(c) ==
  /\ child = "running"
  /\ copying[c] > 0
  /\ fill[c] < Capacity
  /\ fill' = [fill EXCEPT ![c] = @ + 1]
  /\ copying' = [copying EXCEPT ![c] = @ - 1]
  /\ UNCHANGED <<runnerVars, childVars, clock>>

FilterExits ==
  /\ fill["stdin"] = 0
  /\ "stdin" \notin open
  /\ \A c \in Outputs : copying[c] = 0
  /\ ChildExits
  /\ UNCHANGED copying

FilterStep ==
  /\ filter
  /\ FilterReads \/ (\E c \in Outputs : FilterWrites(c)) \/ FilterExits
  /\ UNCHANGED filter

\* With a filter no system call fails, and nothing ends by a timeout.
MCNext ==
  \/ ~filter /\ Next /\ UNCHANGED filterVars
  \/ filter /\ (RunnerStep \/ Stopped) /\ UNCHANGED filterVars
  \/ FilterStep

\* The runner runs and time passes, and so does a filter; any other child owes
\* nothing.
MCSpec ==
  /\ MCInit
  /\ [][MCNext]_mcVars
  /\ WF_mcVars(RunnerStep /\ UNCHANGED filterVars)
  /\ WF_mcVars(~filter /\ Tick /\ UNCHANGED filterVars)
  /\ WF_mcVars(FilterStep)

\* The runner and a filter never wait for each other for ever: the collection
\* ends, successfully, with the whole input delivered.
FilterCollected == filter => <>(Succeeded /\ pending["stdin"] = 0)

=============================================================================
