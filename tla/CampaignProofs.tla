----------------------------- MODULE CampaignProofs -----------------------------
(***************************************************************************)
(* Proofs about Campaign, for every number of iterations and scenarios and *)
(* for every capacity of the corpus.  One step shows what an action does   *)
(* to the types and counts, one what it does to the verdict.               *)
(***************************************************************************)
EXTENDS Campaign, TLAPS

LEMMA InitIInv == Init => IInv
<1> SUFFICES ASSUME Init PROVE IInv
  OBVIOUS
<1>1. TypeOK
  <2>1. outcomes \in [Verdicts -> Nat]
    BY DEF Init, Verdicts
  <2>2. attempt \in 0 .. requested /\ caseSet \in Nat \cup {Nothing}
    BY IterationsAssumption DEF Init
  <2>3. <<>> \in Seq(Origins) /\ <<>> \in Seq(Verdicts) /\ <<>> \in Seq(Nat)
    OBVIOUS
  <2>4. bundles \subseteq {"mismatch", "input"} \X Nat
    BY DEF Init
  <2> QED
    BY <2>1, <2>2, <2>3, <2>4, Zenon DEF Init, TypeOK
<1>2. CountsBalance
  BY IterationsAssumption DEF Init, CountsBalance, Verdicts
<1>3. IterationCounts /\ PassIsEarned /\ SetIsKept
  BY DEF Init, IterationCounts, PassIsEarned, SetIsKept, AllMatched, Quiet
<1> QED
  BY <1>1, <1>2, <1>3 DEF Init, IInv

\* A completed case is counted under one outcome, and the sum follows.
LEMMA CompleteBalances ==
  ASSUME TypeOK, CountsBalance, NEW v \in Verdicts, Complete(v)
  PROVE  /\ completed' = completed + 1
         /\ submitted' = submitted
         /\ completed' \in Nat
         /\ outcomes' \in [Verdicts -> Nat]
         /\ completed' = outcomes'["match"] + outcomes'["mismatch"] + outcomes'["timeout"]
                           + outcomes'["other"]
<1>1. \A w \in Verdicts : outcomes'[w] = IF w = v THEN outcomes[w] + 1 ELSE outcomes[w]
  BY DEF TypeOK, Complete
<1>2. \A w \in Verdicts : outcomes[w] \in Nat
  BY DEF TypeOK
<1>3. outcomes' \in [Verdicts -> Nat]
  BY DEF TypeOK, Complete
<1>4. completed' = completed + 1 /\ submitted' = submitted /\ completed \in Nat
  BY DEF TypeOK, Complete
<1>5. completed = outcomes["match"] + outcomes["mismatch"] + outcomes["timeout"] + outcomes["other"]
  BY DEF CountsBalance
<1> QED
  BY <1>1, <1>2, <1>3, <1>4, <1>5 DEF Verdicts

\* The corpus is a sequence of iterations whatever is remembered.
LEMMA ObserveType ==
  ASSUME TypeOK, Observe PROVE corpus' \in Seq(Nat) /\ novel' \in Seq(Nat)
<1>1. CASE UNCHANGED <<corpus, novel>>
  BY <1>1 DEF TypeOK
<1>2. CASE corpus' = Remembered /\ novel' = Append(novel, attempt)
  <2>1. attempt \in Nat
    BY IterationsAssumption DEF TypeOK
  <2>2. Len(corpus) >= MaxCases => Tail(corpus) \in Seq(Nat)
    <3>1. corpus \in Seq(Nat)
      BY DEF TypeOK
    <3>2. Len(corpus) >= MaxCases => corpus # <<>>
      BY CapacityAssumption, <3>1
    <3> QED
      BY <3>1, <3>2
  <2>3. corpus \in Seq(Nat) /\ novel \in Seq(Nat)
    BY DEF TypeOK
  <2>4. novel' \in Seq(Nat)
    BY <1>2, <2>1, <2>3
  <2>5. CASE Len(corpus) >= MaxCases
    BY <1>2, <2>1, <2>2, <2>4, <2>5 DEF Remembered
  <2>6. CASE ~ (Len(corpus) >= MaxCases)
    BY <1>2, <2>1, <2>3, <2>4, <2>6 DEF Remembered
  <2> QED
    BY <2>5, <2>6
<1> QED
  BY <1>1, <1>2 DEF Observe

LEMMA SaveType ==
  ASSUME TypeOK, NEW kind \in {"mismatch", "input"}, Save(kind)
  PROVE  bundles' \subseteq {"mismatch", "input"} \X Nat /\ lostWrite' \in BOOLEAN
<1>1. attempt \in Nat
  BY IterationsAssumption DEF TypeOK
<1>2. <<kind, attempt>> \in {"mismatch", "input"} \X Nat
  BY <1>1
<1>3. bundles \subseteq {"mismatch", "input"} \X Nat /\ lostWrite \in BOOLEAN
  BY DEF TypeOK
<1> QED
  BY <1>2, <1>3, Zenon DEF Save

\* The steps that set the campaign up.
LEMMA SetUpIInv == IInv /\ SetUp => IInv'
<1> SUFFICES ASSUME IInv, SetUp PROVE IInv'
  OBVIOUS
<1> USE IterationsAssumption
    DEF IInv, TypeOK, CountsBalance, IterationCounts, PassIsEarned, SetIsKept, AllMatched, Quiet,
        setup, idle, recorder
<1>1. CASE CreateFails
  BY <1>1 DEF CreateFails
<1>2. CASE Create
  BY <1>2 DEF Create
<1>3. CASE Discover
  BY <1>3 DEF Discover
<1>4. CASE DiscoverFails
  BY <1>4 DEF DiscoverFails
<1>5. CASE Load
  BY <1>5 DEF Load, ValidCaseSet
<1>6. CASE LoadFails
  BY <1>6 DEF LoadFails
<1>7. CASE Configure
  BY <1>7 DEF Configure
<1>8. CASE ConfigureFails
  BY <1>8 DEF ConfigureFails, Written
<1> QED
  BY <1>1, <1>2, <1>3, <1>4, <1>5, <1>6, <1>7, <1>8 DEF SetUp

\* A case set that was loaded is the only source.
LEMMA SubmitKeepsSet ==
  ASSUME IInv, Submit
  PROVE  /\ origins' \in Seq(Origins)
         /\ Len(origins') = Len(origins) + 1
         /\ caseSet # Nothing => \A i \in 1 .. Len(origins') : origins'[i] = "explicit"
<1>1. PICK o \in Sources : origins' = Append(origins, o)
  BY DEF Submit
<1>2. o \in Origins
  BY <1>1 DEF Sources, Origins
<1>3. caseSet # Nothing => caseSet = requested /\ attempt < caseSet
  BY DEF IInv, SetIsKept, Submit
<1>4. caseSet # Nothing => o = "explicit"
  BY <1>1, <1>3 DEF Sources
<1>5. caseSet # Nothing => \A i \in 1 .. Len(origins) : origins[i] = "explicit"
  BY DEF IInv, SetIsKept
<1>6. origins \in Seq(Origins)
  BY DEF IInv, TypeOK
<1> QED
  BY <1>1, <1>2, <1>4, <1>5, <1>6

\* The steps of one iteration.
LEMMA IterateIInv == IInv /\ Iterate => IInv'
<1> SUFFICES ASSUME IInv, Iterate PROVE IInv'
  OBVIOUS
<1> USE IterationsAssumption
<1>1. CASE Submit
  BY <1>1, SubmitKeepsSet
  DEF Submit, IInv, TypeOK, CountsBalance, IterationCounts, PassIsEarned, SetIsKept, AllMatched,
      Quiet, setup, recorder
<1>2. CASE EvaluatesToMatch
  <2>1. /\ completed' = completed + 1 /\ submitted' = submitted
        /\ completed' \in Nat /\ outcomes' \in [Verdicts -> Nat]
        /\ completed' = outcomes'["match"] + outcomes'["mismatch"] + outcomes'["timeout"]
                          + outcomes'["other"]
    BY <1>2, CompleteBalances DEF EvaluatesToMatch, IInv, Verdicts
  <2>2. corpus' \in Seq(Nat) /\ novel' \in Seq(Nat)
    BY <1>2, ObserveType DEF EvaluatesToMatch, IInv
  <2>3. found' = Append(found, "match") /\ found \in Seq(Verdicts) /\ found' \in Seq(Verdicts)
    BY <1>2 DEF EvaluatesToMatch, IInv, TypeOK, Verdicts
  <2>4. AllMatched'
    BY <1>2, <2>3 DEF EvaluatesToMatch, IInv, IterationCounts, AllMatched
  <2>5. Len(found') = Len(found) + 1
    BY <2>3
  <2>6. TypeOK'
    BY <1>2, <2>1, <2>2, <2>3, <2>4, <2>5 DEF EvaluatesToMatch, IInv, TypeOK, IterationCounts, setup
  <2>7. attempt \in Nat /\ requested \in Nat /\ attempt < requested
    BY <1>2 DEF EvaluatesToMatch, IInv, TypeOK, IterationCounts
  <2>8. submitted = attempt + 1 /\ completed = attempt /\ Len(found) = attempt
    BY <1>2 DEF EvaluatesToMatch, IInv, IterationCounts
  <2>9. CountsBalance'
    BY <1>2, <2>1, <2>7, <2>8 DEF EvaluatesToMatch, CountsBalance, setup
  <2>10. IterationCounts'
    BY <1>2, <2>1, <2>4, <2>5, <2>7, <2>8 DEF EvaluatesToMatch, IterationCounts, Quiet, setup
  <2>11. PassIsEarned' /\ SetIsKept'
    BY <1>2, <2>1, <2>2, <2>3, <2>4, <2>5 DEF EvaluatesToMatch, IInv, PassIsEarned, SetIsKept, setup
  <2> QED
    BY <1>2, <2>1, <2>2, <2>3, <2>4, <2>5, <2>6, <2>9, <2>10, <2>11 DEF EvaluatesToMatch, IInv
<1>3. CASE EvaluatesToMismatch
  <2>1. corpus' \in Seq(Nat) /\ novel' \in Seq(Nat)
    BY <1>3, ObserveType DEF EvaluatesToMismatch, IInv
  <2>2. found' \in Seq(Verdicts)
    BY <1>3 DEF EvaluatesToMismatch, IInv, TypeOK, Verdicts
  <2> QED
    BY <1>3, <2>1, <2>2
    DEF EvaluatesToMismatch, IInv, TypeOK, CountsBalance, IterationCounts, PassIsEarned, SetIsKept,
        Quiet, setup, recorder
<1>4. CASE EvaluationFails
  <2>1. PICK v \in {"timeout", "other"} : found' = Append(found, v) /\ Complete(v)
    BY <1>4 DEF EvaluationFails
  <2>2. /\ completed' = completed + 1 /\ submitted' = submitted
        /\ completed' \in Nat /\ outcomes' \in [Verdicts -> Nat]
        /\ completed' = outcomes'["match"] + outcomes'["mismatch"] + outcomes'["timeout"]
                          + outcomes'["other"]
    BY <2>1, CompleteBalances DEF IInv, Verdicts
  <2>3. found' \in Seq(Verdicts)
    BY <2>1 DEF IInv, TypeOK, Verdicts
  <2>4. bundles' \subseteq {"mismatch", "input"} \X Nat /\ lostWrite' \in BOOLEAN
    BY <1>4, SaveType DEF EvaluationFails, IInv
  <2>5. TypeOK'
    BY <1>4, <2>2, <2>3, <2>4 DEF EvaluationFails, IInv, TypeOK, IterationCounts, setup
  <2>6. CountsBalance' /\ IterationCounts'
    BY <1>4, <2>2, <2>3, <2>4 DEF EvaluationFails, IInv, TypeOK, CountsBalance, IterationCounts, Quiet, setup
  <2>7. PassIsEarned' /\ SetIsKept'
    BY <1>4, <2>2, <2>3, <2>4 DEF EvaluationFails, IInv, PassIsEarned, SetIsKept, setup
  <2> QED
    BY <1>4, <2>2, <2>3, <2>4, <2>5, <2>6, <2>7 DEF EvaluationFails, IInv
<1>5. CASE Shrink
  BY <1>5 DEF Shrink, IInv, TypeOK, CountsBalance, IterationCounts, PassIsEarned, SetIsKept, Quiet,
      setup, idle, recorder
<1>6. CASE ShrinkFails
  <2>1. /\ completed' = completed + 1 /\ submitted' = submitted
        /\ completed' \in Nat /\ outcomes' \in [Verdicts -> Nat]
        /\ completed' = outcomes'["match"] + outcomes'["mismatch"] + outcomes'["timeout"]
                          + outcomes'["other"]
    BY <1>6, CompleteBalances DEF ShrinkFails, IInv, Verdicts
  <2>2. TypeOK'
    BY <1>6, <2>1 DEF ShrinkFails, IInv, TypeOK, IterationCounts, setup
  <2>3. CountsBalance' /\ IterationCounts'
    BY <1>6, <2>1 DEF ShrinkFails, IInv, TypeOK, CountsBalance, IterationCounts, Quiet, setup
  <2>4. PassIsEarned' /\ SetIsKept'
    BY <1>6, <2>1 DEF ShrinkFails, IInv, PassIsEarned, SetIsKept, setup
  <2> QED
    BY <1>6, <2>1, <2>2, <2>3, <2>4 DEF ShrinkFails, IInv
<1>7. CASE SaveMismatch
  <2>1. /\ completed' = completed + 1 /\ submitted' = submitted
        /\ completed' \in Nat /\ outcomes' \in [Verdicts -> Nat]
        /\ completed' = outcomes'["match"] + outcomes'["mismatch"] + outcomes'["timeout"]
                          + outcomes'["other"]
    BY <1>7, CompleteBalances DEF SaveMismatch, IInv, Verdicts
  <2>2. bundles' \subseteq {"mismatch", "input"} \X Nat /\ lostWrite' \in BOOLEAN
    BY <1>7, SaveType DEF SaveMismatch, IInv
  <2>3. TypeOK'
    BY <1>7, <2>1, <2>2 DEF SaveMismatch, IInv, TypeOK, IterationCounts, setup
  <2>4. CountsBalance' /\ IterationCounts'
    BY <1>7, <2>1, <2>2 DEF SaveMismatch, IInv, TypeOK, CountsBalance, IterationCounts, Quiet, setup
  <2>5. PassIsEarned' /\ SetIsKept'
    BY <1>7, <2>1, <2>2 DEF SaveMismatch, IInv, PassIsEarned, SetIsKept, setup
  <2> QED
    BY <1>7, <2>1, <2>2, <2>3, <2>4, <2>5 DEF SaveMismatch, IInv
<1>8. CASE LoopEnds
  BY <1>8 DEF LoopEnds, IInv, TypeOK, CountsBalance, IterationCounts, PassIsEarned, SetIsKept,
      AllMatched, Quiet, setup, idle, recorder
<1> QED
  BY <1>1, <1>2, <1>3, <1>4, <1>5, <1>6, <1>7, <1>8 DEF Iterate

\* The steps that end the campaign.
LEMMA FinishIInv == IInv /\ (FinishWell \/ FinishBadly \/ Drop) => IInv'
<1> SUFFICES ASSUME IInv, FinishWell \/ FinishBadly \/ Drop PROVE IInv'
  OBVIOUS
<1> USE IterationsAssumption
    DEF IInv, TypeOK, CountsBalance, IterationCounts, PassIsEarned, SetIsKept, AllMatched, Quiet,
        setup, idle, recorder
<1>1. CASE FinishWell
  BY <1>1 DEF FinishWell, Written
<1>2. CASE FinishBadly
  BY <1>2 DEF FinishBadly, Written
<1>3. CASE Drop
  BY <1>3 DEF Drop
<1> QED
  BY <1>1, <1>2, <1>3

LEMMA NextIInv == IInv /\ [Next]_vars => IInv'
<1>1. IInv /\ UNCHANGED vars => IInv'
  BY DEF vars, IInv, TypeOK, CountsBalance, IterationCounts, PassIsEarned, SetIsKept, AllMatched,
     setup, recorder
<1> QED
  BY <1>1, SetUpIInv, IterateIInv, FinishIInv DEF Next

\* The inductive invariant holds in every state of a campaign.
THEOREM InductiveInvariant == Spec => []IInv
  BY InitIInv, NextIInv, PTL DEF Spec

\* PASS is said only of a full set of matches with its metrics saved
\* (finish_campaign, fuzz/campaign.rs:194-221).
THEOREM OnlyMatchesPass == Spec => []PassIsEarned
<1>1. IInv => PassIsEarned
  BY DEF IInv
<1> QED
  BY <1>1, InductiveInvariant, PTL

\* The counts of the recorder add up (render_population_report,
\* fuzz/metrics.rs:240-264).
THEOREM CountsAddUp == Spec => []CountsBalance
<1>1. IInv => CountsBalance
  BY DEF IInv
<1> QED
  BY <1>1, InductiveInvariant, PTL

\* A case set is run as it was given (fuzz/case_source.rs:142-175).
THEOREM CaseSetIsRun == Spec => []CaseSetIsExact
<1>1. IInv => CaseSetIsExact
  BY DEF IInv, SetIsKept, CaseSetIsExact
<1> QED
  BY <1>1, InductiveInvariant, PTL

\* No case is submitted after one that did not match (fuzz/campaign.rs:134).
THEOREM FirstFailureStops == Spec => StopsAtFirstFailure
<1>1. IInv /\ [Next]_vars => [submitted' # submitted => AllMatched]_vars
  <2> SUFFICES ASSUME IInv, [Next]_vars, submitted' # submitted PROVE AllMatched
    OBVIOUS
  <2>1. pc = "loop"
    BY DEF Next, SetUp, Iterate, CreateFails, Create, Discover, DiscoverFails, Load, LoadFails,
       Configure, ConfigureFails, Submit, EvaluatesToMatch, EvaluatesToMismatch, EvaluationFails,
       Shrink, ShrinkFails, SaveMismatch, LoopEnds, FinishWell, FinishBadly, Drop, Complete,
       vars, idle, recorder
  <2> QED
    BY <2>1 DEF IInv, IterationCounts, Quiet
<1> QED
  BY <1>1, InductiveInvariant, PTL DEF Spec, StopsAtFirstFailure

\* The one step that counts a mismatch has just saved it.
LEMMA StepKeepsRepro == ASSUME IInv, ReproInv, [Next]_vars PROVE ReproInv'
<1> USE DEF ReproInv, CountedMismatchHasRepro
<1>1. outcomes \in [Verdicts -> Nat]
  BY DEF IInv, TypeOK
<1>2. CASE SaveMismatch
  <2>1. CASE lostWrite'
    <3>1. outcomes' = [outcomes EXCEPT !["other"] = @ + 1] /\ outcomes["mismatch"] = 0
      BY <1>2, <2>1 DEF SaveMismatch, Complete
    <3>2. outcomes'["mismatch"] = 0
      BY <1>1, <3>1 DEF Verdicts
    <3> QED
      BY <1>2, <3>2 DEF SaveMismatch
  <2>2. CASE ~ lostWrite'
    <3>1. <<"mismatch", attempt>> \in bundles' /\ attempt' = attempt /\ pc' = "finishBadly"
      BY <1>2, <2>2 DEF SaveMismatch, Save
    <3> QED
      BY <3>1
  <2> QED
    BY <2>1, <2>2
<1>3. CASE EvaluatesToMatch \/ EvaluationFails \/ ShrinkFails
  <2>1. PICK v \in Verdicts \ {"mismatch"} : outcomes' = [outcomes EXCEPT ![v] = @ + 1]
    BY <1>3 DEF EvaluatesToMatch, EvaluationFails, ShrinkFails, Complete, Verdicts
  <2>2. outcomes["mismatch"] = 0
    BY <1>3 DEF EvaluatesToMatch, EvaluationFails, ShrinkFails
  <2>3. outcomes'["mismatch"] = 0
    BY <1>1, <2>1, <2>2 DEF Verdicts
  <2> QED
    BY <2>3
<1>4. CASE SetUp \/ Submit \/ EvaluatesToMismatch \/ Shrink \/ LoopEnds \/ UNCHANGED vars
  BY <1>4 DEF SetUp, CreateFails, Create, Discover, DiscoverFails, Load, LoadFails, Configure,
     ConfigureFails, Submit, EvaluatesToMismatch, Shrink, LoopEnds, idle, recorder, vars
<1>5. CASE FinishWell \/ FinishBadly \/ Drop
  BY <1>5 DEF FinishWell, FinishBadly, Drop, idle, recorder
<1> QED
  BY <1>2, <1>3, <1>4, <1>5 DEF Next, Iterate

\* A mismatch in the metrics can be replayed: its bundle was saved before it
\* was counted (fuzz/campaign.rs:383-406).
THEOREM CountedMismatchesAreSaved == Spec => []CountedMismatchHasRepro
<1>1. Init => ReproInv
  BY DEF Init, ReproInv, CountedMismatchHasRepro, Verdicts
<1>2. ReproInv => CountedMismatchHasRepro
  BY DEF ReproInv
<1> QED
  BY <1>1, <1>2, StepKeepsRepro, InductiveInvariant, PTL DEF Spec

\* What is remembered moves the window over the interesting cases by one.
LEMMA RememberedIsLatest ==
  ASSUME TypeOK, CorpusIsLatest, corpus' = Remembered, novel' = Append(novel, attempt)
  PROVE  CorpusIsLatest'
<1> DEFINE c == Len(corpus)
           n == Len(novel)
<1>1. corpus \in Seq(Nat) /\ novel \in Seq(Nat) /\ attempt \in Nat /\ MaxCases \in Nat \ {0}
  BY IterationsAssumption, CapacityAssumption DEF TypeOK
<1>2. c \in Nat /\ n \in Nat /\ c <= MaxCases /\ c <= n /\ (c < MaxCases => c = n)
  BY <1>1 DEF CorpusIsLatest
<1>3. Len(novel') = n + 1 /\ novel'[n + 1] = attempt /\ \A i \in 1 .. n : novel'[i] = novel[i]
  BY <1>1
<1>4. \A i \in 1 .. c : corpus[i] = novel[n - c + i]
  BY DEF CorpusIsLatest
<1>5. CASE c >= MaxCases
  <2>1. corpus # <<>> /\ c = MaxCases
    BY <1>1, <1>2, <1>5
  <2>2. /\ Tail(corpus) \in Seq(Nat) /\ Len(Tail(corpus)) = c - 1
        /\ \A i \in 1 .. c - 1 : Tail(corpus)[i] = corpus[i + 1]
    BY <1>1, <2>1
  <2>3. corpus' = Append(Tail(corpus), attempt)
    BY <1>5 DEF Remembered
  <2>4. /\ Len(corpus') = c /\ corpus'[c] = attempt
        /\ \A i \in 1 .. c - 1 : corpus'[i] = corpus[i + 1]
    BY <1>1, <1>2, <2>1, <2>2, <2>3
  <2>5. ASSUME NEW i \in 1 .. c PROVE corpus'[i] = novel'[n + 1 - c + i]
    <3>1. CASE i = c
      BY <1>2, <1>3, <2>4, <3>1
    <3>2. CASE i < c
      <4>1. i + 1 \in 1 .. c /\ i \in 1 .. c - 1 /\ n - c + (i + 1) \in 1 .. n
        BY <1>2, <3>2
      <4>2. corpus'[i] = novel[n - c + (i + 1)]
        BY <1>4, <2>4, <4>1
      <4>3. novel'[n - c + (i + 1)] = novel[n - c + (i + 1)]
        BY <1>3, <4>1
      <4>4. n - c + (i + 1) = n + 1 - c + i
        BY <1>2
      <4> QED
        BY <4>2, <4>3, <4>4
    <3> QED
      BY <1>2, <3>1, <3>2
  <2>6. Len(novel') - Len(corpus') = n + 1 - c
    BY <1>3, <2>4
  <2>7. \A i \in 1 .. Len(corpus') : corpus'[i] = novel'[Len(novel') - Len(corpus') + i]
    BY <2>4, <2>5, <2>6
  <2>8. Len(corpus') <= MaxCases /\ Len(corpus') <= Len(novel') /\ ~ (Len(corpus') < MaxCases)
    BY <1>1, <1>2, <1>3, <2>1, <2>4
  <2> QED
    BY <2>7, <2>8 DEF CorpusIsLatest
<1>6. CASE c < MaxCases
  <2>1. corpus' = Append(corpus, attempt) /\ c = n
    BY <1>1, <1>2, <1>6 DEF Remembered
  <2>2. /\ Len(corpus') = n + 1 /\ corpus'[n + 1] = attempt
        /\ \A i \in 1 .. n : corpus'[i] = corpus[i]
    BY <1>1, <2>1
  <2>3. ASSUME NEW i \in 1 .. n + 1 PROVE corpus'[i] = novel'[i]
    <3>1. CASE i = n + 1
      BY <1>3, <2>2, <3>1
    <3>2. CASE i \in 1 .. n
      <4>1. corpus[i] = novel[i]
        BY <1>2, <1>4, <2>1, <3>2
      <4> QED
        BY <1>3, <2>2, <3>2, <4>1
    <3> QED
      BY <1>2, <3>1, <3>2
  <2>4. \A i \in 1 .. Len(corpus') : corpus'[i] = novel'[Len(novel') - Len(corpus') + i]
    BY <1>2, <1>3, <2>2, <2>3
  <2> QED
    BY <1>1, <1>2, <1>3, <1>6, <2>1, <2>2, <2>4 DEF CorpusIsLatest
<1> QED
  BY <1>1, <1>2, <1>5, <1>6

\* The corpus holds the latest interesting cases, in their order, and is
\* full before it forgets one (maybe_add, fuzz/corpus.rs:28-36).
THEOREM CorpusKeepsLatest == Spec => []CorpusIsLatest
<1>1. Init => CorpusIsLatest
  BY CapacityAssumption DEF Init, CorpusIsLatest
<1>2. IInv /\ CorpusIsLatest /\ [Next]_vars => CorpusIsLatest'
  <2> SUFFICES ASSUME IInv, CorpusIsLatest, [Next]_vars PROVE CorpusIsLatest'
    OBVIOUS
  <2>1. UNCHANGED <<corpus, novel>> \/ (corpus' = Remembered /\ novel' = Append(novel, attempt))
    BY DEF Next, SetUp, Iterate, CreateFails, Create, Discover, DiscoverFails, Load, LoadFails,
       Configure, ConfigureFails, Submit, EvaluatesToMatch, EvaluatesToMismatch, EvaluationFails,
       Shrink, ShrinkFails, SaveMismatch, LoopEnds, FinishWell, FinishBadly, Drop, Observe,
       vars, idle
  <2>2. CASE UNCHANGED <<corpus, novel>>
    BY <2>2 DEF CorpusIsLatest
  <2> QED
    BY <2>1, <2>2, RememberedIsLatest DEF IInv
<1> QED
  BY <1>1, <1>2, InductiveInvariant, PTL DEF Spec
=============================================================================
