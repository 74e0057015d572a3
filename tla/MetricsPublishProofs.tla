-------------------------- MODULE MetricsPublishProofs --------------------------
(***************************************************************************)
(* Proofs about MetricsPublish, for every set of campaigns and every way   *)
(* the system hands out pids.                                              *)
(***************************************************************************)
EXTENDS MetricsPublish, TLAPS

LEMMA InitIInv == Init => IInv
  BY NobodyAssumption, PidAssumption
  DEF Init, IInv, TypeOK, OwnNames, OwnWork, OnePerPid, OkIsPublished, PublishedIsWhole, Running,
      Between, Ended

\* One step of one campaign.
LEMMA StepIInv == ASSUME IInv, NEW p \in Procs, Step(p) PROVE IInv'
<1> USE NobodyAssumption, PidAssumption DEF Goto, Running, Between, Ended
<1>1. CASE Start(p)
  BY <1>1 DEF Start, IInv, TypeOK, OwnNames, OwnWork, OnePerPid, OkIsPublished, PublishedIsWhole
<1>2. CASE Check(p)
  BY <1>2 DEF Check, IInv, TypeOK, OwnNames, OwnWork, OnePerPid, OkIsPublished, PublishedIsWhole
<1>3. CASE MakeDirs(p)
  BY <1>3 DEF MakeDirs, IInv, TypeOK, OwnNames, OwnWork, OnePerPid, OkIsPublished, PublishedIsWhole
<1>4. CASE Create(p)
  <2> DEFINE d == Pid[p]
             file == IF temp[d] = Nobody THEN p ELSE temp[d]
  <2>1. pc' = [pc EXCEPT ![p] = "write"] /\ pc[p] = "create" /\ out' = out
    BY <1>4 DEF Create
  <2>2. /\ temp' = [temp EXCEPT ![d] = file]
        /\ author' = [author EXCEPT ![file] = p]
        /\ whole' = [whole EXCEPT ![file] = FALSE]
        /\ file \in Procs /\ d \in Pids
    BY <1>4 DEF Create, IInv, TypeOK
  <2>3. out = Nobody \/ out # file
    BY <2>1 DEF IInv, TypeOK, OwnNames, OwnWork
  <2>4. TypeOK'
    BY <1>4, <2>1, <2>2 DEF Create, IInv, TypeOK
  <2>5. OwnNames'
    BY <1>4, <2>1, <2>2, <2>3 DEF Create, IInv, TypeOK, OwnNames
  <2>6. OwnWork'
    BY <1>4, <2>1, <2>2, <2>3 DEF Create, IInv, TypeOK, OwnNames, OwnWork, OnePerPid
  <2>7. OnePerPid'
    BY <1>4, <2>1 DEF Create, IInv, TypeOK, OnePerPid
  <2>8. OkIsPublished'
    BY <1>4, <2>1, <2>2, <2>3 DEF Create, IInv, TypeOK, OkIsPublished
  <2>9. PublishedIsWhole'
    BY <1>4, <2>1, <2>2, <2>3 DEF Create, IInv, TypeOK, PublishedIsWhole
  <2> QED
    BY <2>4, <2>5, <2>6, <2>7, <2>8, <2>9 DEF IInv
<1>5. CASE Write(p)
  <2> DEFINE file == temp[Pid[p]]
  <2>1. /\ pc[p] = "write" /\ out' = out /\ temp' = temp /\ author' = author
        /\ \E step \in {"link", "brokenWrite"} : pc' = [pc EXCEPT ![p] = step]
    BY <1>5 DEF Write
  <2>2. /\ file \in Procs
        /\ \/ whole' = [whole EXCEPT ![file] = TRUE] /\ pc' = [pc EXCEPT ![p] = "link"]
           \/ whole' = whole /\ pc' = [pc EXCEPT ![p] = "brokenWrite"]
    BY <1>5, <2>1 DEF Write, IInv, TypeOK, OwnWork
  <2>3. out = Nobody \/ out # file
    BY <2>1 DEF IInv, OwnWork
  <2>4. TypeOK'
    BY <1>5, <2>1, <2>2 DEF Write, IInv, TypeOK
  <2>5. OwnNames'
    BY <1>5, <2>1, <2>2, <2>3 DEF Write, IInv, TypeOK, OwnNames
  <2>6. OwnWork'
    BY <1>5, <2>1, <2>2, <2>3 DEF Write, IInv, TypeOK, OwnNames, OwnWork, OnePerPid
  <2>7. OnePerPid'
    BY <1>5, <2>1 DEF Write, IInv, TypeOK, OnePerPid
  <2>8. OkIsPublished'
    BY <1>5, <2>1, <2>2, <2>3 DEF Write, IInv, TypeOK, OkIsPublished
  <2>9. PublishedIsWhole'
    BY <1>5, <2>1, <2>2, <2>3 DEF Write, IInv, TypeOK, PublishedIsWhole
  <2> QED
    BY <2>4, <2>5, <2>6, <2>7, <2>8, <2>9 DEF IInv
<1>6. CASE Link(p)
  <2>1. CASE Goto(p, "discard") /\ UNCHANGED out
    BY <1>6, <2>1 DEF Link, IInv, TypeOK, OwnNames, OwnWork, OnePerPid, OkIsPublished, PublishedIsWhole
  <2>2. CASE out = Nobody /\ out' = temp[Pid[p]] /\ Goto(p, "unlink")
    <3>1. /\ pc[p] = "link" /\ temp' = temp /\ author' = author /\ whole' = whole
          /\ temp[Pid[p]] \in Procs /\ whole[temp[Pid[p]]] /\ author[temp[Pid[p]]] = p
      BY <1>6 DEF Link, IInv, TypeOK, OwnWork
    <3>2. \A q \in Procs : q # p /\ pc[q] \in Running => Pid[q] # Pid[p]
      BY <3>1 DEF IInv, OnePerPid
    <3>3. TypeOK'
      BY <2>2, <3>1 DEF IInv, TypeOK
    <3>4. OwnNames'
      BY <2>2, <3>1 DEF IInv, TypeOK, OwnNames
    <3>5. OwnWork'
      BY <2>2, <3>1, <3>2 DEF IInv, TypeOK, OwnNames, OwnWork
    <3>6. OnePerPid'
      BY <2>2, <3>1 DEF IInv, TypeOK, OnePerPid
    <3>7. OkIsPublished' /\ PublishedIsWhole'
      BY <2>2, <3>1 DEF IInv, TypeOK, OkIsPublished, PublishedIsWhole
    <3> QED
      BY <3>3, <3>4, <3>5, <3>6, <3>7 DEF IInv
  <2> QED
    BY <1>6, <2>1, <2>2 DEF Link
<1>7. CASE Unlink(p)
  BY <1>7 DEF Unlink, IInv, TypeOK, OwnNames, OwnWork, OnePerPid, OkIsPublished, PublishedIsWhole
<1>8. CASE Discard(p)
  BY <1>8 DEF Discard, IInv, TypeOK, OwnNames, OwnWork, OnePerPid, OkIsPublished, PublishedIsWhole
<1>9. CASE Crash(p)
  BY <1>9 DEF Crash, IInv, TypeOK, OwnNames, OwnWork, OnePerPid, OkIsPublished, PublishedIsWhole
<1> QED
  BY <1>1, <1>2, <1>3, <1>4, <1>5, <1>6, <1>7, <1>8, <1>9 DEF Step

LEMMA NextIInv == IInv /\ [Next]_vars => IInv'
<1>1. IInv /\ UNCHANGED vars => IInv'
  BY DEF vars, IInv, TypeOK, OwnNames, OwnWork, OnePerPid, OkIsPublished, PublishedIsWhole
<1> QED
  BY <1>1, StepIInv DEF Next

\* The inductive invariant holds in every state.
THEOREM InductiveInvariant == Spec => []IInv
  BY InitIInv, NextIInv, PTL DEF Spec

\* A reader never finds half a metrics file at the path
\* (write_metrics, fuzz/metrics.rs:372-384).
THEOREM PublishedWhole == Spec => []PublishedIsWhole
<1>1. IInv => PublishedIsWhole
  BY DEF IInv
<1> QED
  BY <1>1, InductiveInvariant, PTL

\* What is at the path stays what it is (fuzz/metrics.rs:346).
LEMMA StepKeepsOut ==
  ASSUME IInv, NEW p \in Procs, Step(p), out # Nobody
  PROVE  out' = out /\ author'[out] = author[out] /\ whole'[out] = whole[out]
<1> USE NobodyAssumption, PidAssumption DEF Goto, Running, Between
<1>1. CASE Start(p) \/ Check(p) \/ MakeDirs(p) \/ Unlink(p) \/ Discard(p) \/ Crash(p)
  BY <1>1 DEF Start, Check, MakeDirs, Unlink, Discard, Crash
<1>2. CASE Create(p)
  BY <1>2 DEF Create, IInv, TypeOK, OwnNames, OwnWork
<1>3. CASE Write(p)
  BY <1>3 DEF Write, IInv, TypeOK, OwnWork
<1>4. CASE Link(p)
  BY <1>4 DEF Link
<1> QED
  BY <1>1, <1>2, <1>3, <1>4 DEF Step

\* No campaign changes metrics that are published, not even one that got the
\* pid of a killed one (fuzz/metrics.rs:346).
THEOREM NothingIsOverwritten == Spec => NoOverwrite
<1>1. IInv /\ [Next]_vars =>
        [out # Nobody =>
           out' = out /\ author'[out] = author[out] /\ whole'[out] = whole[out]]_vars
  BY StepKeepsOut DEF Next
<1> QED
  BY <1>1, InductiveInvariant, PTL DEF Spec, NoOverwrite

\* A step moves the step's own process, and clears no other's temporary name.
LEMMA StepKeepsMaker ==
  ASSUME TypeOK, LitterHasMaker, NEW p \in Procs, Step(p) PROVE LitterHasMaker'
<1> DEFINE At == {"write", "link", "unlink", "discard", "crashed", "brokenWrite", "littered"}
<1> SUFFICES ASSUME NEW d \in Pids, temp'[d] # Nobody
             PROVE  \E q \in Procs : Pid[q] = d /\ pc'[q] \in At
  BY DEF LitterHasMaker
<1> USE PidAssumption DEF Goto, Between
<1>1. /\ \A q \in Procs \ {p} : pc'[q] = pc[q]
      /\ pc[p] \notin {"crashed", "brokenWrite", "littered"}
  BY DEF TypeOK, Step, Start, Check, MakeDirs, Create, Write, Link, Unlink, Discard, Crash, Running
<1>2. CASE d = Pid[p] /\ pc[p] \in {"write", "link", "unlink", "discard"}
  <2>1. pc'[p] \in At
    BY <1>2 DEF TypeOK, Step, Start, Check, MakeDirs, Create, Write, Link, Unlink, Discard, Crash
  <2> QED
    BY <1>2, <2>1
<1>3. CASE d = Pid[p] /\ pc[p] = "create"
  <2>1. pc'[p] \in At
    BY <1>3 DEF TypeOK, Step, Start, Check, MakeDirs, Create, Write, Link, Unlink, Discard, Crash
  <2> QED
    BY <1>3, <2>1
<1>4. CASE ~ (d = Pid[p] /\ pc[p] \in {"create", "write", "link", "unlink", "discard"})
  <2>1. temp'[d] = temp[d]
    BY <1>4 DEF TypeOK, Step, Start, Check, MakeDirs, Create, Write, Link, Unlink, Discard, Crash
  <2>2. PICK q \in Procs : Pid[q] = d /\ pc[q] \in At
    BY <2>1 DEF LitterHasMaker
  <2>3. q # p
    BY <1>1, <1>4, <2>2
  <2> QED
    BY <1>1, <2>2, <2>3
<1> QED
  BY <1>2, <1>3, <1>4

\* A temporary file stays only where a process was killed or could not write
\* or remove it (fuzz/metrics.rs:377-391).
THEOREM TemporariesHaveMakers == Spec => []NoLitter
<1>1. Init => LitterHasMaker
  BY DEF Init, LitterHasMaker
<1>2. IInv /\ LitterHasMaker /\ [Next]_vars => LitterHasMaker'
  <2>1. LitterHasMaker /\ UNCHANGED vars => LitterHasMaker'
    BY DEF LitterHasMaker, vars
  <2> QED
    BY <2>1, StepKeepsMaker DEF Next, IInv
<1>3. LitterHasMaker => NoLitter
  BY PidAssumption DEF LitterHasMaker, NoLitter, Running, Between
<1> QED
  BY <1>1, <1>2, <1>3, InductiveInvariant, PTL DEF Spec

\* A step changes the answer of the campaign that takes it alone.
LEMMA AnswerStep ==
  ASSUME TypeOK, NEW p \in Procs, NEW step, Goto(p, step)
  PROVE  /\ Answer' = [Answer EXCEPT ![p] = AnswerOf(step)]
         /\ AnswerOf(step) = AnswerOf(pc[p]) => Answer' = Answer
         /\ Answer[p] = AnswerOf(pc[p])
  BY DEF TypeOK, Goto, Answer

\* A step that ends without success is a refusal, whatever else it does to
\* files no reader sees.
LEMMA RefusalSimulates ==
  ASSUME TypeOK, NEW p \in Procs, NEW step \in {"refused", "brokenWrite", "littered"},
         Goto(p, step), pc[p] \in Running, Value' = Value
  PROVE  Abstract!Refuse(p)
<1>1. AnswerOf(pc[p]) = "pending" /\ AnswerOf(step) = "error"
  BY DEF AnswerOf, Running, Between
<1> QED
  BY <1>1, AnswerStep DEF Abstract!Refuse

\* A step that ends nothing and publishes nothing is not seen.
LEMMA SilenceSimulates ==
  ASSUME TypeOK, NEW p \in Procs, NEW step \in Running \cup {"crashed"},
         Goto(p, step), pc[p] \in Running \cup {"idle"}, Value' = Value
  PROVE  UNCHANGED Abstract!vars
<1>1. AnswerOf(pc[p]) = "pending" /\ AnswerOf(step) = "pending"
  BY DEF AnswerOf, Running, Between
<1> QED
  BY <1>1, AnswerStep DEF Abstract!vars

\* Every step publishes, answers, or does nothing a reader could see.
LEMMA StepSimulation ==
  ASSUME IInv, NEW p \in Procs, Step(p)
  PROVE  [Abstract!Next]_(Abstract!vars)
<1>1. TypeOK
  BY DEF IInv
<1>2. CASE Start(p)
  BY <1>1, <1>2, SilenceSimulates DEF Start, Running, Between, Value
<1>3. CASE Check(p)
  <2>1. Value' = Value /\ (Goto(p, "mkdir") \/ Goto(p, "refused")) /\ pc[p] \in Running
    BY <1>3 DEF Check, Running, Value
  <2> QED
    BY <1>1, <2>1, SilenceSimulates, RefusalSimulates DEF Abstract!Next, Running, Between
<1>4. CASE MakeDirs(p)
  <2>1. Value' = Value /\ (Goto(p, "create") \/ Goto(p, "refused")) /\ pc[p] \in Running
    BY <1>4 DEF MakeDirs, Running, Between, Value
  <2> QED
    BY <1>1, <2>1, SilenceSimulates, RefusalSimulates DEF Abstract!Next, Running, Between
<1>5. CASE Create(p)
  <2>1. Value' = Value
    BY <1>5, StepKeepsOut DEF Step, Create, Value
  <2> QED
    BY <1>1, <1>5, <2>1, SilenceSimulates DEF Create, Running, Between
<1>6. CASE Write(p)
  <2>1. Value' = Value /\ (Goto(p, "link") \/ Goto(p, "brokenWrite")) /\ pc[p] \in Running
    <3>1. out' = out /\ (out # Nobody => author'[out] = author[out] /\ whole'[out] = whole[out])
      BY <1>6, StepKeepsOut DEF Step, Write
    <3> QED
      BY <1>6, <3>1 DEF Write, Running, Between, Value
  <2> QED
    BY <1>1, <2>1, SilenceSimulates, RefusalSimulates DEF Abstract!Next, Running, Between
<1>7. CASE Link(p)
  <2>1. CASE Goto(p, "discard") /\ UNCHANGED out
    <3>1. Value' = Value /\ pc[p] \in Running
      BY <1>7, <2>1 DEF Link, Running, Between, Value
    <3> QED
      BY <1>1, <2>1, <3>1, SilenceSimulates DEF Running
  <2>2. CASE out = Nobody /\ out' = temp[Pid[p]] /\ Goto(p, "unlink")
    <3>1. Value = Nobody /\ Value' = p
      BY <1>7, <2>2, NobodyAssumption DEF Link, Value, IInv, OwnWork, PublishedIsWhole
    <3>2. AnswerOf(pc[p]) = "pending" /\ AnswerOf("unlink") = "pending"
      BY <1>7 DEF Link, AnswerOf
    <3>3. Answer' = Answer /\ Answer[p] = "pending"
      BY <1>1, <2>2, <3>2, AnswerStep
    <3> QED
      BY <3>1, <3>3 DEF Abstract!Publish, Abstract!Next
  <2> QED
    BY <1>7, <2>1, <2>2 DEF Link
<1>8. CASE Unlink(p)
  <2>1. Value' = Value /\ pc[p] = "unlink" /\ pc[p] \in Running
    BY <1>8 DEF Unlink, Running, Value
  <2>2. CASE Goto(p, "littered")
    BY <1>1, <2>1, <2>2, RefusalSimulates DEF Abstract!Next
  <2>3. CASE Goto(p, "ok")
    <3>1. Value = p
      BY <2>1 DEF IInv, OwnWork, PublishedIsWhole, Value
    <3>2. AnswerOf(pc[p]) = "pending" /\ AnswerOf("ok") = "ok"
      BY <2>1 DEF AnswerOf
    <3> QED
      BY <1>1, <2>1, <2>3, <3>1, <3>2, AnswerStep DEF Abstract!Confirm, Abstract!Next
  <2> QED
    BY <1>8, <2>2, <2>3 DEF Unlink
<1>9. CASE Discard(p)
  <2>1. Value' = Value /\ (Goto(p, "littered") \/ Goto(p, "refused")) /\ pc[p] \in Running
    BY <1>9 DEF Discard, Running, Value
  <2> QED
    BY <1>1, <2>1, RefusalSimulates DEF Abstract!Next
<1>10. CASE Crash(p)
  BY <1>1, <1>10, SilenceSimulates DEF Crash, Value
<1> QED
  BY <1>2, <1>3, <1>4, <1>5, <1>6, <1>7, <1>8, <1>9, <1>10 DEF Step

\* Publishing metrics implements a path that is written once
\* (write_metrics, fuzz/metrics.rs:345-393).
THEOREM Refinement == Spec => ImplementsWriteOnce
<1>1. Init => Abstract!Init
  BY DEF Init, Abstract!Init, Value, Answer, AnswerOf
<1>2. IInv /\ [Next]_vars => [Abstract!Next]_(Abstract!vars)
  <2>1. UNCHANGED vars => UNCHANGED Abstract!vars
    BY DEF vars, Abstract!vars, Value, Answer
  <2> QED
    BY <2>1, StepSimulation DEF Next
<1> QED
  BY <1>1, <1>2, InductiveInvariant, PTL DEF Spec, ImplementsWriteOnce, Abstract!Spec
=============================================================================
