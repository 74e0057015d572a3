---------------------------- MODULE ReplayProofs ----------------------------
(***************************************************************************)
(* Proofs about the store of bundles and about Replay, for any number of   *)
(* campaigns, any programs, cases, paths and inode numbers.  The store's   *)
(* invariant is StoreInv, that of the whole ReplayInv: its main parts are  *)
(* that the handles of the observer stay on the objects they were opened   *)
(* on (Holds), that what they remember is what the first snapshot says     *)
(* (Remembered), and that what was saved is valid evidence of a mismatch   *)
(* (Saved).                                                                *)
(***************************************************************************)
EXTENDS Replay, TLAPS, FiniteSetTheorems, WellFoundedInduction

-----------------------------------------------------------------------------
(* The store of bundles.                                                   *)

\* The place a campaign saves at is one of the places.
LEMMA PlaceType == ASSUME StoreTypeOK, NEW s \in Savers PROVE Place(s) \in Places
  BY DEF StoreTypeOK, Place, Places

\* An empty store.
LEMMA InitInv == StoreInit => StoreInv
<1> SUFFICES ASSUME StoreInit PROVE StoreInv
  OBVIOUS
<1>1. StoreTypeOK
  BY MaxRunsAssumption DEF StoreInit, StoreTypeOK, FileStates
<1>2. Owner
  <2>1. \A d \in Places : \E s \in Savers : creator[d] \subseteq {s}
    BY DEF StoreInit, Places
  <2> QED
    BY <2>1 DEF StoreInit, Owner, Steps
<1>3. ManifestHasInput /\ \A s \in Savers : Progress(s)
  BY DEF StoreInit, ManifestHasInput, Progress
<1> QED
  BY <1>1, <1>2, <1>3 DEF StoreInv

\* The steps that write no file: where the others are stays as it was.
LEMMA QuietInv ==
  ASSUME StoreInv, NEW s \in Savers,
         UNCHANGED <<manifest, files, writers>>,
         \/ \E what \in Kinds : BeginSave(s, what)
         \/ Claim(s)
         \/ SaveStops(s)
  PROVE StoreInv'
<1> USE DEF StoreInv
<1>1. StoreTypeOK'
  <2>1. CASE (\E what \in Kinds : BeginSave(s, what)) \/ SaveStops(s)
    BY <2>1 DEF StoreTypeOK, BeginSave, SaveStops, SaverGoto, Steps, SaverEnds, Places
  <2>2. CASE Claim(s)
    <3>1. attempt' \in [Savers -> 1 .. MaxRuns]
      BY <2>2, MaxRunsAssumption DEF StoreTypeOK, Claim
    <3>2. creator' \in [Places -> SUBSET Savers]
      <4>1. \/ creator' = creator
            \/ creator' = [creator EXCEPT ![Place(s)] = {s}]
        BY <2>2 DEF Claim
      <4> QED
        BY <4>1 DEF StoreTypeOK
    <3>3. saver' \in [Savers -> {"off", "ready"} \cup Steps \cup SaverEnds]
      BY <2>2 DEF StoreTypeOK, Claim, SaverGoto, Steps
    <3> QED
      BY <2>2, <3>1, <3>2, <3>3 DEF StoreTypeOK, Claim, Places
  <2> QED
    BY <2>1, <2>2
<1>2. ManifestHasInput'
  BY DEF ManifestHasInput
<1>3. \A t \in Savers \ {s} : saver'[t] = saver[t] /\ Place(t)' = Place(t)
  BY DEF BeginSave, Claim, SaveStops, SaverGoto, StoreTypeOK, Place
<1>4. CASE creator' = creator /\ saver'[s] \in {"claim", "stopped"}
  <2>1. Owner'
    BY <1>3, <1>4 DEF Owner, Steps
  <2>2. \A t \in Savers : Progress(t)'
    BY <1>3, <1>4 DEF Progress, Place
  <2> QED
    BY <1>1, <1>2, <2>1, <2>2
<1>5. CASE /\ Claim(s) /\ creator[Place(s)] = {}
  <2>1. /\ creator' = [creator EXCEPT ![Place(s)] = {s}] /\ Place(s)' = Place(s)
        /\ saver'[s] = "first" /\ Place(s) \in Places
    BY <1>5, PlaceType DEF Claim, SaverGoto, Place, StoreTypeOK
  <2>2. \A t \in Savers \ {s} :
          saver[t] \in (Steps \ {"claim"}) \cup {"saved"} => Place(t) # Place(s)
    BY <1>5 DEF Owner
  <2>3. \A d \in Places : writers[d] \subseteq creator'[d] /\ \E t \in Savers : creator'[d] \subseteq {t}
    BY <1>5, <2>1 DEF Owner, StoreTypeOK
  <2>4. \A t \in Savers :
          saver'[t] \in (Steps \ {"claim"}) \cup {"saved"} => creator'[Place(t)'] = {t}
    <3> TAKE t \in Savers
    <3> HAVE saver'[t] \in (Steps \ {"claim"}) \cup {"saved"}
    <3>1. CASE t = s
      BY <2>1, <3>1 DEF StoreTypeOK
    <3>2. CASE t # s
      <4>1. saver'[t] = saver[t] /\ Place(t)' = Place(t) /\ Place(t) \in Places
        BY <1>3, <3>2, PlaceType
      <4> QED
        BY <4>1, <2>1, <2>2, <3>2 DEF Owner, StoreTypeOK
    <3> QED
      BY <3>1, <3>2
  <2>5. \A d \in Places : creator'[d] = {} => manifest'[d] = "absent" /\ files'[d] = "absent"
    BY <1>5, <2>1 DEF Owner, StoreTypeOK
  <2>6. Owner'
    BY <2>3, <2>4, <2>5 DEF Owner, Places
  <2>7. \A t \in Savers : Progress(t)'
    <3> TAKE t \in Savers
    <3>1. CASE t = s
      BY <1>5, <2>1, <3>1 DEF Progress, Owner, Claim
    <3>2. CASE t # s
      BY <1>3, <1>5, <3>2 DEF Progress, Claim, Place, StoreTypeOK
    <3> QED
      BY <3>1, <3>2
  <2> QED
    BY <1>1, <1>2, <2>6, <2>7
<1>6. CASE Claim(s) /\ creator[Place(s)] # {}
  <2>1. creator' = creator /\ saver' = saver /\ saver[s] = "claim"
    BY <1>6 DEF Claim
  <2> QED
    BY <1>4, <2>1
<1>7. CASE (\E what \in Kinds : BeginSave(s, what)) \/ SaveStops(s)
  <2>1. creator' = creator /\ saver'[s] \in {"claim", "stopped"}
    BY <1>7 DEF BeginSave, SaveStops, SaverGoto, StoreTypeOK
  <2> QED
    BY <1>4, <2>1
<1> QED
  BY <1>5, <1>6, <1>7

\* A step that writes touches its own campaign's directory only.
LEMMA WriteInv ==
  ASSUME StoreInv, NEW s \in Savers,
         OpenFirst(s) \/ WriteFirst(s) \/ OpenSecond(s) \/ WriteSecond(s)
  PROVE StoreInv'
<1> USE DEF StoreInv
<1> DEFINE d == Place(s)
<1>1. d \in Places /\ creator[d] = {s} /\ saver[s] \in Steps \ {"claim"}
  BY PlaceType DEF OpenFirst, WriteFirst, OpenSecond, WriteSecond, Owner, Steps
<1>2. UNCHANGED <<kind, attempt, creator>> /\ writers' = [writers EXCEPT ![d] = @ \cup {s}]
  BY DEF OpenFirst, WriteFirst, OpenSecond, WriteSecond, Touch
<1>3. \A t \in Savers : Place(t)' = Place(t) /\ Place(t) \in Places
  BY <1>2, PlaceType DEF Place
<1>4. \E state \in FileStates :
        \/ manifest' = [manifest EXCEPT ![d] = state] /\ files' = files
        \/ files' = [files EXCEPT ![d] = state] /\ manifest' = manifest
  BY DEF OpenFirst, WriteFirst, OpenSecond, WriteSecond, SetFirst, SetSecond, SetManifest, SetFiles,
         FileStates
<1>5. /\ saver' = [saver EXCEPT ![s] = saver'[s]]
      /\ saver'[s] \in {"firstWritten", "second", "secondWritten", "saved"}
  BY DEF OpenFirst, WriteFirst, OpenSecond, WriteSecond, SaverGoto, StoreTypeOK
<1>6. StoreTypeOK'
  <2>1. saver' \in [Savers -> {"off", "ready"} \cup Steps \cup SaverEnds]
    BY <1>5 DEF StoreTypeOK, Steps, SaverEnds
  <2>2. manifest' \in [Places -> FileStates] /\ files' \in [Places -> FileStates]
    BY <1>1, <1>4 DEF StoreTypeOK
  <2>3. writers' \in [Places -> SUBSET Savers]
    BY <1>1, <1>2 DEF StoreTypeOK
  <2> QED
    BY <1>2, <2>1, <2>2, <2>3 DEF StoreTypeOK, Places
<1>7. Owner'
  <2>1. \A e \in Places : writers'[e] \subseteq creator'[e] /\ \E t \in Savers : creator'[e] \subseteq {t}
    BY <1>1, <1>2 DEF Owner, StoreTypeOK
  <2>2. \A t \in Savers :
          saver'[t] \in (Steps \ {"claim"}) \cup {"saved"} => creator'[Place(t)'] = {t}
    BY <1>1, <1>2, <1>3, <1>5 DEF Owner, StoreTypeOK
  <2>3. \A e \in Places : creator'[e] = {} => manifest'[e] = "absent" /\ files'[e] = "absent"
    BY <1>1, <1>2, <1>4 DEF Owner, StoreTypeOK
  <2> QED
    BY <2>1, <2>2, <2>3 DEF Owner, Places
<1>8. Progress(s)'
  <2>1. Progress(s) /\ Place(s)' = d /\ kind'[s] = kind[s] /\ kind[s] \in Kinds
    BY <1>2, <1>3 DEF StoreTypeOK
  <2>2. manifest \in [Places -> FileStates] /\ files \in [Places -> FileStates]
    BY DEF StoreTypeOK
  <2>3. CASE OpenFirst(s) \/ WriteFirst(s)
    BY <1>1, <2>1, <2>2, <2>3, <1>5
    DEF OpenFirst, WriteFirst, SaverGoto, SetFirst, SetManifest, SetFiles, Progress, Kinds, StoreTypeOK
  <2>4. CASE OpenSecond(s) \/ WriteSecond(s)
    BY <1>1, <2>1, <2>2, <2>4, <1>5
    DEF OpenSecond, WriteSecond, SaverGoto, SetSecond, SetManifest, SetFiles, Progress, Kinds, StoreTypeOK
  <2> QED
    BY <2>3, <2>4
<1>9. \A t \in Savers \ {s} : Progress(t)'
  <2> TAKE t \in Savers \ {s}
  <2>1. saver'[t] = saver[t] /\ kind'[t] = kind[t] /\ Place(t)' = Place(t)
    BY <1>2, <1>3, <1>5 DEF StoreTypeOK
  <2>2. CASE saver[t] \in (Steps \ {"claim"}) \cup {"saved"}
    <3>1. Place(t) # d
      BY <1>1, <2>2 DEF Owner
    <3>2. manifest'[Place(t)] = manifest[Place(t)] /\ files'[Place(t)] = files[Place(t)]
      BY <1>3, <1>4, <3>1 DEF StoreTypeOK
    <3> QED
      BY <2>1, <3>2 DEF Progress
  <2>3. CASE saver[t] \notin (Steps \ {"claim"}) \cup {"saved"}
    BY <2>1, <2>3 DEF Progress, Steps
  <2> QED
    BY <2>2, <2>3
<1>10. ManifestHasInput'
  <2> SUFFICES ASSUME NEW e \in Places, e[2] = "failure", manifest'[e] # "absent"
               PROVE  files'[e] = "whole"
    BY DEF ManifestHasInput, Places
  <2>1. CASE e # d
    BY <1>4, <2>1 DEF ManifestHasInput, StoreTypeOK
  <2>2. CASE e = d
    <3>1. kind[s] = "failure" /\ Progress(s)
      BY <2>2 DEF Place
    <3>2. manifest \in [Places -> FileStates] /\ files \in [Places -> FileStates]
      BY DEF StoreTypeOK
    <3>3. CASE OpenFirst(s) \/ WriteFirst(s)
      BY <1>1, <2>2, <3>1, <3>2, <3>3 DEF OpenFirst, WriteFirst, SetFirst, SetManifest, SetFiles, Progress
    <3>4. CASE OpenSecond(s) \/ WriteSecond(s)
      BY <1>1, <2>2, <3>1, <3>2, <3>4 DEF OpenSecond, WriteSecond, SetSecond, SetManifest, SetFiles, Progress
    <3> QED
      BY <3>3, <3>4
  <2> QED
    BY <2>1, <2>2
<1> QED
  BY <1>6, <1>7, <1>8, <1>9, <1>10

\* Whatever is done to the store is one of its steps, and keeps its invariant.
LEMMA StoreStays == StoreInv /\ [StoreNext]_storeVars => StoreInv'
<1> SUFFICES ASSUME StoreInv, [StoreNext]_storeVars PROVE StoreInv'
  OBVIOUS
<1>1. ASSUME NEW s \in Savers, NEW what \in Kinds, BeginSave(s, what) PROVE StoreInv'
  <2>1. UNCHANGED <<manifest, files, writers>>
    BY <1>1 DEF BeginSave
  <2> QED
    BY <1>1, <2>1, QuietInv
<1>2. ASSUME NEW s \in Savers, Claim(s) \/ SaveStops(s) PROVE StoreInv'
  <2>1. UNCHANGED <<manifest, files, writers>>
    BY <1>2 DEF Claim, SaveStops
  <2> QED
    BY <1>2, <2>1, QuietInv
<1>3. ASSUME NEW s \in Savers, OpenFirst(s) \/ WriteFirst(s) \/ OpenSecond(s) \/ WriteSecond(s)
      PROVE  StoreInv'
  BY <1>3, WriteInv
<1>4. CASE UNCHANGED storeVars
  BY <1>4 DEF storeVars, StoreInv, StoreTypeOK, Owner, ManifestHasInput, Progress, Place
<1> QED
  BY <1>1, <1>2, <1>3, <1>4 DEF StoreNext, SaveStep

\* The store's invariant is inductive.
THEOREM StoreInvariant == StoreSpec => []StoreInv
  BY InitInv, StoreStays, PTL DEF StoreSpec

\* Every bundle directory has one author (OneAuthor), for any number of campaigns
\* that save under the same names, and whichever of them are killed.
THEOREM OneAuthorHolds == StoreSpec => []OneAuthor
<1>1. StoreInv => OneAuthor
  BY DEF StoreInv, Owner, OneAuthor
<1> QED
  BY <1>1, StoreInvariant, PTL

\* A manifest of a failed evaluation is never there before the whole of its input
\* (ManifestHasInput).
THEOREM ManifestHasInputHolds == StoreSpec => []ManifestHasInput
<1>1. StoreInv => ManifestHasInput
  BY DEF StoreInv
<1> QED
  BY <1>1, StoreInvariant, PTL

\* What was reported as saved is all there, and stays (SavedIsComplete).
THEOREM SavedIsCompleteHolds == StoreSpec => []SavedIsComplete
<1>1. StoreInv => SavedIsComplete
  BY DEF StoreInv, StoreTypeOK, Progress, SavedIsComplete, Kinds
<1> QED
  BY <1>1, StoreInvariant, PTL

-----------------------------------------------------------------------------
(* What a comparison says of itself.                                       *)

\* A comparison that finds a difference has a signature, and its outcomes are those
\* of the evidence.
LEMMA EvidenceTypes ==
  ASSUME NEW c, NEW shared \in BOOLEAN, NEW ordered \in BOOLEAN, NEW obs,
         \A v \in Variants : Consistent(obs[v])
  PROVE  LET e == Evidence(c, shared, ordered, obs) IN
         /\ OutcomesAgree(e)
         /\ \A v \in Variants : ValidTermination(e.outcome[v])
         /\ ~IsMatch(e.comparison) => Manifest(e).signature \in Signatures
<1> DEFINE e == Evidence(c, shared, ordered, obs)
           r == obs["reference"].status
           d == obs["dut"].status
<1>1. PICK b \in Behaviours \cup Changes, h \in Behaviours \cup Changes : r = b.status /\ d = h.status
  BY DEF Consistent, Variants
<1>2. r \in WaitStatuses /\ d \in WaitStatuses
  BY <1>1, BehavioursAssumption
<1>3. /\ e.comparison.process = IF r = d THEN None ELSE <<Termination(r), Termination(d)>>
      /\ e.outcome["reference"] = Termination(r) /\ e.outcome["dut"] = Termination(d)
  BY DEF Evidence, Compare, Variants
<1>4. None # <<Termination(r), Termination(d)>>
  BY <1>1, NoneAssumption
<1>5. Termination(r).raw = r /\ Termination(d).raw = d
  BY DEF Termination
<1>6. OutcomesAgree(e)
  <2> HIDE DEF e, r, d
  <2> QED
    BY <1>3, <1>4, <1>5 DEF OutcomesAgree
<1>7. ASSUME NEW status \in WaitStatuses PROVE ValidTermination(Termination(status))
  <2>1. ASSUME NEW code \in 0 .. 255, status = 256 * code
        PROVE  ValidTermination(Termination(status))
    <3>1. status % 128 = 0 /\ (status \div 256) % 256 = code
      BY <2>1
    <3>2. Termination(status) = [kind |-> "exit", code |-> code, raw |-> status]
      BY <3>1 DEF Termination
    <3> QED
      BY <2>1, <3>2 DEF ValidTermination
  <2>2. ASSUME NEW signal \in 1 .. 126, NEW core \in 0 .. 1, status = signal + 128 * core
        PROVE  ValidTermination(Termination(status))
    <3>1. status % 128 = signal /\ (status \div 128) % 2 = core
      BY <2>2
    <3>2. CASE core = 0
      <4>0. status % 128 # 0 /\ ((status \div 128) % 2 = 1) = FALSE
        BY <3>1, <3>2
      <4>1. Termination(status) = [kind |-> "signal", signal |-> signal, core |-> FALSE, raw |-> status]
        BY <3>1, <4>0, Zenon DEF Termination
      <4> QED
        BY <2>2, <3>2, <4>1 DEF ValidTermination
    <3>3. CASE core = 1
      <4>0. status % 128 # 0 /\ ((status \div 128) % 2 = 1) = TRUE
        BY <3>1, <3>3
      <4>1. Termination(status) = [kind |-> "signal", signal |-> signal, core |-> TRUE, raw |-> status]
        BY <3>1, <4>0, Zenon DEF Termination
      <4> QED
        BY <2>2, <3>3, <4>1 DEF ValidTermination
    <3> QED
      BY <3>2, <3>3
  <2> QED
    BY <2>1, <2>2 DEF WaitStatuses
<1>8. \A v \in Variants : ValidTermination(e.outcome[v])
  BY <1>2, <1>3, <1>7 DEF Variants
<1>9. ~IsMatch(e.comparison) => Manifest(e).signature \in Signatures
  <2> DEFINE k == e.comparison
  <2>1. /\ k.stdout \in BOOLEAN /\ k.stderr \in BOOLEAN
        /\ k = [process |-> k.process, stdout |-> k.stdout, stderr |-> k.stderr, fs |-> k.fs]
    BY DEF Evidence, Compare
  <2>2. Manifest(e).signature = Signature(k, e.identity["reference"], e.identity["dut"])
    BY DEF Manifest
  <2> HIDE DEF k
  <2>3. k.process = None /\ ~k.stdout /\ ~k.stderr /\ k.fs = NoFsDifference => IsMatch(k)
    <3> SUFFICES ASSUME k.process = None, k.stdout = FALSE, k.stderr = FALSE, k.fs = NoFsDifference
                 PROVE  IsMatch(k)
      BY <2>1
    <3> QED
      BY <2>1 DEF IsMatch
  <2> SUFFICES ASSUME ~IsMatch(k) PROVE Manifest(e).signature \in Signatures
    BY DEF k
  <2> HIDE DEF e
  <2> QED
    BY <2>1, <2>2, <2>3 DEF Signature, Signatures
<1> QED
  BY <1>6, <1>8, <1>9

\* What the evidence keeps of a snapshot.
LEMMA EvidenceOf ==
  ASSUME NEW s, NEW pre, NEW isPost \in BOOLEAN
  PROVE  /\ DOMAIN FsEvidence(s, pre, isPost).nodes = DOMAIN s
         /\ FsEvidence(s, pre, isPost).aliases = Aliases(s)
         /\ \A p \in DOMAIN s :
              /\ FsEvidence(s, pre, isPost).nodes[p].seen = Seen(s[p])
              /\ FsEvidence(s, pre, isPost).nodes[p].key = s[p].key
              /\ FsEvidence(s, pre, isPost).nodes[p].time = s[p].time
<1> USE DEF FsEvidence
<1>1. FsEvidence(s, pre, isPost).aliases = Aliases(s)
  OBVIOUS
<1>2. FsEvidence(s, pre, isPost).nodes =
        [p \in DOMAIN s |->
           [seen |-> Seen(s[p]), key |-> s[p].key, time |-> s[p].time,
            changed |-> isPost /\ (p \in DOMAIN pre => pre[p].time # s[p].time)]]
  OBVIOUS
<1> HIDE DEF FsEvidence
<1> QED
  BY <1>1, <1>2

\* Which nodes it says have changed their time.
LEMMA ChangedOf ==
  ASSUME NEW s, NEW pre, NEW isPost \in BOOLEAN, NEW p \in DOMAIN s
  PROVE  FsEvidence(s, pre, isPost).nodes[p].changed =
           (isPost /\ (p \in DOMAIN pre => pre[p].time # s[p].time))
<1> DEFINE moved == isPost /\ (p \in DOMAIN pre => pre[p].time # s[p].time)
<1>1. CASE moved = TRUE
  BY <1>1 DEF FsEvidence
<1>2. CASE moved = FALSE
  BY <1>2 DEF FsEvidence
<1> QED
  BY <1>1, <1>2

\* The pairs of paths with one number can be read off the evidence again.
LEMMA EvidenceKeys ==
  ASSUME NEW s, NEW pre, NEW isPost \in BOOLEAN
  PROVE  LET f == FsEvidence(s, pre, isPost) IN f.aliases = {pair \in SameKey(f, f) : pair[1] # pair[2]}
<1> DEFINE f == FsEvidence(s, pre, isPost)
<1>1. /\ DOMAIN f.nodes = DOMAIN s /\ f.aliases = Aliases(s)
      /\ \A p \in DOMAIN s : f.nodes[p].key = s[p].key
  BY EvidenceOf
<1> HIDE DEF f
<1>2. ASSUME NEW p \in DOMAIN s, NEW q \in DOMAIN s
      PROVE  f.nodes[p].key = f.nodes[q].key <=> s[p].key = s[q].key
  BY <1>1
<1>3. SameKey(f, f) = {pair \in (DOMAIN s) \X (DOMAIN s) : s[pair[1]].key = s[pair[2]].key}
  BY <1>1, <1>2 DEF SameKey
<1> QED
  BY <1>1, <1>3 DEF Aliases, f

\* Evidence made of two consistent observations is valid, whichever tree the second
\* variant had.
LEMMA EvidenceValid ==
  ASSUME NEW c, NEW shared \in BOOLEAN, NEW obs,
         \A v \in Variants : Consistent(obs[v]),
         shared => /\ obs["reference"].pre = obs["dut"].pre
                   /\ obs["reference"].post = obs["dut"].pre
  PROVE  ValidEvidence(Evidence(c, shared, TRUE, obs))
<1> DEFINE e == Evidence(c, shared, TRUE, obs)
           early == FALSE
           late == TRUE
<1>1. /\ e.execution.ordered = TRUE /\ e.execution.sharing = shared
      /\ \A v \in Variants :
           /\ e.identity[v] = obs[v].identity
           /\ e.pre[v] = FsEvidence(obs[v].pre, obs[v].pre, early)
           /\ e.post[v] = FsEvidence(obs[v].post, obs[v].pre, late)
  BY DEF Evidence
<1>0. early \in BOOLEAN /\ late \in BOOLEAN
  OBVIOUS
<1> HIDE DEF e, early, late
<1>2. ASSUME NEW v \in Variants
      PROVE  /\ DOMAIN e.pre[v].nodes = DOMAIN obs[v].pre
             /\ DOMAIN e.post[v].nodes = DOMAIN obs[v].post
             /\ \A p \in DOMAIN obs[v].pre :
                  /\ e.pre[v].nodes[p].key = obs[v].pre[p].key
                  /\ e.pre[v].nodes[p].time = obs[v].pre[p].time
             /\ \A p \in DOMAIN obs[v].post :
                  /\ e.post[v].nodes[p].key = obs[v].post[p].key
                  /\ e.post[v].nodes[p].time = obs[v].post[p].time
  <2>1. /\ e.pre[v] = FsEvidence(obs[v].pre, obs[v].pre, early)
        /\ e.post[v] = FsEvidence(obs[v].post, obs[v].pre, late)
    BY <1>1
  <2>2. /\ DOMAIN e.pre[v].nodes = DOMAIN obs[v].pre
        /\ \A p \in DOMAIN obs[v].pre :
             /\ e.pre[v].nodes[p].key = obs[v].pre[p].key
             /\ e.pre[v].nodes[p].time = obs[v].pre[p].time
    BY <2>1, <1>0, EvidenceOf
  <2>3. /\ DOMAIN e.post[v].nodes = DOMAIN obs[v].post
        /\ \A p \in DOMAIN obs[v].post :
             /\ e.post[v].nodes[p].key = obs[v].post[p].key
             /\ e.post[v].nodes[p].time = obs[v].post[p].time
    BY <2>1, <1>0, EvidenceOf
  <2> QED
    BY <2>2, <2>3
<1>3. IdentityAgrees(e)
  <2> SUFFICES ASSUME NEW v \in Variants
               PROVE  /\ e.identity[v] = SameKey(e.pre[v], e.post[v])
                      /\ e.pre[v].aliases = {pair \in SameKey(e.pre[v], e.pre[v]) : pair[1] # pair[2]}
                      /\ e.post[v].aliases = {pair \in SameKey(e.post[v], e.post[v]) : pair[1] # pair[2]}
    BY DEF IdentityAgrees
  <2>1. e.identity[v] = SameKey(e.pre[v], e.post[v])
    <3>1. obs[v].identity = {pair \in (DOMAIN obs[v].pre) \X (DOMAIN obs[v].post) :
                                obs[v].pre[pair[1]].key = obs[v].post[pair[2]].key}
      BY DEF Consistent
    <3> DEFINE P == e.pre[v].nodes
               Q == e.post[v].nodes
               pre == obs[v].pre
               post == obs[v].post
    <3>2. DOMAIN P = DOMAIN pre /\ DOMAIN Q = DOMAIN post
      BY <1>2
    <3>3. \A p \in DOMAIN P, q \in DOMAIN Q : P[p].key = Q[q].key <=> pre[p].key = post[q].key
      BY <1>2
    <3>4. SameKey(e.pre[v], e.post[v]) = {pair \in (DOMAIN P) \X (DOMAIN Q) : P[pair[1]].key = Q[pair[2]].key}
      BY DEF SameKey
    <3> HIDE DEF P, Q
    <3>5. SameKey(e.pre[v], e.post[v]) = {pair \in (DOMAIN pre) \X (DOMAIN post) : pre[pair[1]].key = post[pair[2]].key}
      BY <3>2, <3>3, <3>4
    <3> QED
      BY <1>1, <3>1, <3>5
  <2>2. /\ e.pre[v] = FsEvidence(obs[v].pre, obs[v].pre, early)
        /\ e.post[v] = FsEvidence(obs[v].post, obs[v].pre, late)
    BY <1>1
  <2>3. e.pre[v].aliases = {pair \in SameKey(e.pre[v], e.pre[v]) : pair[1] # pair[2]}
    BY <2>2, <1>0, EvidenceKeys
  <2>4. e.post[v].aliases = {pair \in SameKey(e.post[v], e.post[v]) : pair[1] # pair[2]}
    BY <2>2, <1>0, EvidenceKeys
  <2> QED
    BY <2>1, <2>3, <2>4
<1>4. TimesAgree(e)
  <2> SUFFICES ASSUME NEW v \in Variants
               PROVE  /\ \A p \in DOMAIN e.pre[v].nodes : ~e.pre[v].nodes[p].changed
                      /\ \A p \in DOMAIN e.post[v].nodes :
                           e.post[v].nodes[p].changed =
                             (p \in DOMAIN e.pre[v].nodes => e.pre[v].nodes[p].time # e.post[v].nodes[p].time)
    BY DEF TimesAgree
  <2>1. ASSUME NEW p \in DOMAIN e.pre[v].nodes PROVE ~e.pre[v].nodes[p].changed
    <3>1. p \in DOMAIN obs[v].pre /\ e.pre[v] = FsEvidence(obs[v].pre, obs[v].pre, early)
      BY <1>1, <1>2
    <3>2. e.pre[v].nodes[p].changed = (early /\ (p \in DOMAIN obs[v].pre => obs[v].pre[p].time # obs[v].pre[p].time))
      BY <3>1, <1>0, ChangedOf
    <3> QED
      BY <3>2 DEF early
  <2>2. ASSUME NEW p \in DOMAIN e.post[v].nodes
        PROVE  e.post[v].nodes[p].changed =
                 (p \in DOMAIN e.pre[v].nodes => e.pre[v].nodes[p].time # e.post[v].nodes[p].time)
    <3>1. p \in DOMAIN obs[v].post /\ e.post[v] = FsEvidence(obs[v].post, obs[v].pre, late)
      BY <1>1, <1>2
    <3>2. e.post[v].nodes[p].changed = (late /\ (p \in DOMAIN obs[v].pre => obs[v].pre[p].time # obs[v].post[p].time))
      BY <3>1, <1>0, ChangedOf
    <3>3. /\ DOMAIN e.pre[v].nodes = DOMAIN obs[v].pre
          /\ p \in DOMAIN obs[v].pre => e.pre[v].nodes[p].time = obs[v].pre[p].time
          /\ e.post[v].nodes[p].time = obs[v].post[p].time
      BY <1>2, <3>1
    <3> QED
      BY <3>2, <3>3 DEF late
  <2> QED
    BY <2>1, <2>2
<1>5. SharingAgrees(e)
  <2> SUFFICES ASSUME shared
               PROVE  e.pre["reference"] = e.post["reference"] /\ e.post["reference"] = e.pre["dut"]
    BY <1>1 DEF SharingAgrees
  <2>1. ASSUME NEW s PROVE FsEvidence(s, s, early) = FsEvidence(s, s, late)
    <3>1. ASSUME NEW p \in DOMAIN s
          PROVE  (early /\ (p \in DOMAIN s => s[p].time # s[p].time)) =
                 (late /\ (p \in DOMAIN s => s[p].time # s[p].time))
      BY DEF early, late
    <3> QED
      BY <3>1, Zenon DEF FsEvidence
  <2> QED
    BY <1>1, <2>1 DEF Variants
<1> QED
  BY <1>1, <1>3, <1>4, <1>5 DEF ValidEvidence, e

-----------------------------------------------------------------------------
(* The file system and the handles on it.                                  *)

\* The lowest number nobody has is a number nobody has.
LEMMA LowestIsFree ==
  ASSUME NEW free \in SUBSET Nat, free # {}
  PROVE  Min(free) \in free /\ \A i \in free : Min(free) <= i
<1> DEFINE below == {0 .. i : i \in free}
<1>1. below \subseteq FiniteSubsetsOf(Nat)
  <2> SUFFICES ASSUME NEW i \in free PROVE 0 .. i \in FiniteSubsetsOf(Nat)
    OBVIOUS
  <2>1. IsFiniteSet(0 .. i)
    BY FS_Interval
  <2> QED
    BY <2>1 DEF FiniteSubsetsOf
<1>2. PICK T \in below : \A U \in below : ~(<<U, T>> \in StrictSubsetOrdering(Nat))
  <2>1. below # {}
    OBVIOUS
  <2> HIDE DEF below
  <2> QED
    BY <1>1, <2>1, FS_StrictSubsetOrderingWellFounded, WFMin
<1>3. PICK i \in free : T = 0 .. i
  OBVIOUS
<1>4. ASSUME NEW j \in free PROVE i <= j
  <2>1. ~(<<0 .. j, 0 .. i>> \in StrictSubsetOrdering(Nat))
    BY <1>2, <1>3
  <2>2. j < i => 0 .. j \subseteq 0 .. i /\ 0 .. j # 0 .. i
    <3> SUFFICES ASSUME j < i PROVE 0 .. j \subseteq 0 .. i /\ i \in 0 .. i /\ i \notin 0 .. j
      OBVIOUS
    <3> QED
      OBVIOUS
  <2>3. 0 .. j \in SUBSET Nat /\ 0 .. i \in SUBSET Nat
    OBVIOUS
  <2> QED
    BY <2>1, <2>2, <2>3 DEF StrictSubsetOrdering
<1>5. Min(free) = CHOOSE m \in free : \A j \in free : m <= j
  BY DEF Min
<1> QED
  BY <1>4, <1>5

\* Inode numbers can be compared.
LEMMA InodesAreNumbers == Inodes \subseteq Nat
  BY InodesAssumption, FS_CardinalityType

\* What is made anew has a number that no path and no handle has.
LEMMA MakeTree ==
  ASSUME NEW fs, Tree(fs), NEW pinned \in SUBSET Inodes, NEW p \in Paths,
         NEW form \in {"file", "symlink"}, NEW data \in Texts, NEW time \in Nat
  PROVE  LET made == Make(fs, pinned, p, form, data, time) IN
         /\ Tree(made)
         /\ Len(fs.body) <= Len(made.body)
         /\ \A o \in 1 .. Len(fs.body) : made.body[o] = fs.body[o]
         /\ \A i \in pinned : made.object[i] = fs.object[i]
<1> DEFINE free == Inodes \ (Named(fs) \cup pinned)
           i == Min(free)
           o == Len(fs.body) + 1
           body == [kind |-> form, data |-> data, time |-> time]
           new == [name |-> [fs.name EXCEPT ![p] = i], object |-> [fs.object EXCEPT ![i] = o],
                   body |-> Append(fs.body, body)]
           made == Make(fs, pinned, p, form, data, time)
<1> SUFFICES /\ Tree(made)
             /\ Len(fs.body) <= Len(made.body)
             /\ \A k \in 1 .. Len(fs.body) : made.body[k] = fs.body[k]
             /\ \A j \in pinned : made.object[j] = fs.object[j]
  OBVIOUS
<1>1. made = IF fs.name[p] # Absent \/ free = {} THEN fs ELSE new
  BY DEF Make
<1>2. CASE fs.name[p] # Absent \/ free = {}
  <2>1. made = fs /\ Len(fs.body) \in Nat
    BY <1>1, <1>2 DEF Tree
  <2> HIDE DEF made
  <2> QED
    BY <2>1
<1>3. CASE ~(fs.name[p] # Absent \/ free = {})
  <2>1. i \in free
    BY <1>3, InodesAreNumbers, LowestIsFree
  <2>2. body \in Objects
    BY DEF Objects
  <2>3. fs.body \in Seq(Objects) /\ fs.name \in [Paths -> Inodes \cup {Absent}] /\ fs.object \in [Inodes -> Nat]
    BY DEF Tree
  <2>4. /\ new.body \in Seq(Objects) /\ Len(new.body) = o /\ Len(fs.body) \in Nat
        /\ \A k \in 1 .. Len(fs.body) : new.body[k] = fs.body[k]
    BY <2>2, <2>3
  <2>5. /\ new.name \in [Paths -> Inodes \cup {Absent}] /\ new.object \in [Inodes -> Nat]
        /\ new.name[p] = i /\ \A q \in Paths \ {p} : new.name[q] = fs.name[q]
        /\ new.object[i] = o /\ \A j \in Inodes \ {i} : new.object[j] = fs.object[j]
    <3>1. i \in Inodes /\ o \in Nat
      BY <2>1, <2>4
    <3>2. new.name = [fs.name EXCEPT ![p] = i] /\ new.object = [fs.object EXCEPT ![i] = o]
      OBVIOUS
    <3> HIDE DEF new, i, o
    <3> QED
      BY <2>3, <3>1, <3>2
  <2>6. new \in [name : [Paths -> Inodes \cup {Absent}], object : [Inodes -> Nat], body : Seq(Objects)]
    BY <2>4, <2>5
  <2>7. made = new
    BY <1>1, <1>3
  <2> HIDE DEF new, made, i, body
  <2>8. Tree(new)
    <3>1. \A j \in Inodes : fs.object[j] <= Len(fs.body) /\ fs.object[j] \in Nat
      BY <2>3 DEF Tree
    <3>2. \A j \in Inodes : new.object[j] <= Len(new.body)
      BY <3>1, <2>4, <2>5
    <3>3. \A j \in Named(new) : new.object[j] # 0
      <4> SUFFICES ASSUME NEW q \in Paths, new.name[q] # Absent PROVE new.object[new.name[q]] # 0
        BY DEF Named, Names
      <4>1. CASE q = p
        BY <4>1, <2>4, <2>5
      <4>2. CASE q # p
        <5>1. fs.name[q] \in Named(fs) /\ fs.name[q] \in Inodes /\ new.name[q] = fs.name[q]
          BY <4>2, <2>3, <2>5 DEF Named, Names
        <5> QED
          BY <5>1, <2>1, <2>5 DEF Tree
      <4> QED
        BY <4>1, <4>2
    <3>4. ASSUME NEW j \in Inodes, NEW k \in Inodes, new.object[j] = new.object[k], new.object[j] # 0 PROVE j = k
      <4>1. CASE j = i \/ k = i
        BY <4>1, <3>1, <3>4, <2>4, <2>5
      <4>2. CASE j # i /\ k # i
        BY <4>2, <3>4, <2>5 DEF Tree
      <4> QED
        BY <4>1, <4>2
    <3> QED
      BY <2>6, <3>2, <3>3, <3>4 DEF Tree
  <2>9. \A j \in pinned : new.object[j] = fs.object[j]
    BY <2>1, <2>5
  <2> QED
    BY <2>4, <2>7, <2>8, <2>9
<1> QED
  BY <1>2, <1>3

\* A change of names only, to names that are in use.
LEMMA NamesTree ==
  ASSUME NEW fs, Tree(fs), NEW name \in [Paths -> Inodes \cup {Absent}],
         \A p \in Paths : name[p] = Absent \/ name[p] \in Named(fs)
  PROVE  Tree([fs EXCEPT !.name = name])
<1> DEFINE new == [fs EXCEPT !.name = name]
<1>1. /\ new \in [name : [Paths -> Inodes \cup {Absent}], object : [Inodes -> Nat], body : Seq(Objects)]
      /\ new.name = name /\ new.object = fs.object /\ new.body = fs.body
  BY DEF Tree
<1> HIDE DEF new
<1>2. Named(new) \subseteq Named(fs)
  BY <1>1 DEF Named, Names
<1>3. Tree(new)
  BY <1>1, <1>2 DEF Tree
<1> QED
  BY <1>3 DEF new

\* A change of the objects that there are.
LEMMA BodyTree ==
  ASSUME NEW fs, Tree(fs), NEW body \in Seq(Objects), Len(body) = Len(fs.body), NEW new,
         new \in [name : [Paths -> Inodes \cup {Absent}], object : [Inodes -> Nat], body : Seq(Objects)],
         new.name = fs.name, new.object = fs.object, new.body = body
  PROVE  Tree(new)
<1>1. Named(new) = Named(fs)
  BY DEF Named, Names
<1> QED
  BY <1>1 DEF Tree

\* A change of the data and the time of one object.
LEMMA ChangedBody ==
  ASSUME NEW old \in Seq(Objects), NEW o \in 1 .. Len(old), NEW data \in Texts, NEW time \in Nat
  PROVE  /\ Change(old, o, data, time) \in Seq(Objects) /\ Len(Change(old, o, data, time)) = Len(old)
         /\ \A k \in 1 .. Len(old) :
              /\ Change(old, o, data, time)[k].kind = old[k].kind
              /\ Change(old, o, data, time)[k].data = IF k = o THEN data ELSE old[k].data
<1> DEFINE body == [old EXCEPT ![o] = [old[o] EXCEPT !.data = data, !.time = time]]
<1>1. old[o] \in Objects
  OBVIOUS
<1>2. [old[o] EXCEPT !.data = data, !.time = time] \in Objects
  BY <1>1 DEF Objects
<1>3. body \in Seq(Objects) /\ Len(body) = Len(old)
  BY <1>2
<1>4. \A k \in 1 .. Len(old) :
        body[k].kind = old[k].kind /\ body[k].data = IF k = o THEN data ELSE old[k].data
  BY <1>1 DEF Objects
<1> QED
  BY <1>3, <1>4 DEF Change

\* A system call leaves a tree, and leaves every object that a handle is on under
\* the number it has, of the kind it is; a symbolic link cannot be changed.
LEMMA DoTree ==
  ASSUME NEW fs, Tree(fs), NEW pinned \in SUBSET Inodes, NEW op \in SystemCalls, NEW time \in Nat
  PROVE  LET done == Do(fs, pinned, op, time) IN
         /\ Tree(done)
         /\ Len(fs.body) <= Len(done.body)
         /\ \A o \in 1 .. Len(fs.body) :
              /\ done.body[o].kind = fs.body[o].kind
              /\ fs.body[o].kind = "symlink" => done.body[o].data = fs.body[o].data
         /\ \A i \in pinned : done.object[i] = fs.object[i]
<1> DEFINE done == Do(fs, pinned, op, time)
           p == op.path
           Kept(new) == /\ Tree(new) /\ Len(fs.body) <= Len(new.body)
                        /\ \A o \in 1 .. Len(fs.body) :
                             /\ new.body[o].kind = fs.body[o].kind
                             /\ fs.body[o].kind = "symlink" => new.body[o].data = fs.body[o].data
                        /\ \A i \in pinned : new.object[i] = fs.object[i]
<1> SUFFICES Kept(done)
  OBVIOUS
<1>1. /\ fs \in [name : [Paths -> Inodes \cup {Absent}], object : [Inodes -> Nat], body : Seq(Objects)]
      /\ Len(fs.body) \in Nat
  BY DEF Tree
<1>2. p \in Paths
  BY DEF SystemCalls
<1>3. CASE done = fs
  BY <1>1, <1>3
<1>4. ASSUME NEW form \in {"file", "symlink"}, op.to \in Texts, done = Make(fs, pinned, p, form, op.to, time)
      PROVE  Kept(done)
  <2> HIDE DEF p, done
  <2>1. /\ Tree(done) /\ Len(fs.body) <= Len(done.body)
        /\ \A o \in 1 .. Len(fs.body) : done.body[o] = fs.body[o]
        /\ \A i \in pinned : done.object[i] = fs.object[i]
    BY <1>2, <1>4, MakeTree
  <2> QED
    BY <2>1
<1>5. ASSUME NEW name \in [Paths -> Inodes \cup {Absent}],
             \A q \in Paths : name[q] = Absent \/ name[q] \in Named(fs),
             done = [fs EXCEPT !.name = name]
      PROVE  Kept(done)
  <2>1. Tree([fs EXCEPT !.name = name])
    BY <1>5, NamesTree
  <2>2. done.object = fs.object /\ done.body = fs.body
    BY <1>1, <1>5
  <2> HIDE DEF done
  <2> QED
    BY <1>1, <1>5, <2>1, <2>2
<1>6. \A q \in Paths : fs.name[q] # Absent => fs.name[q] \in Named(fs)
  BY DEF Named, Names
<1>7. ASSUME fs.name[p] # Absent PROVE fs.object[fs.name[p]] \in 1 .. Len(fs.body)
  <2>1. fs.name[p] \in Inodes /\ fs.name[p] \in Named(fs)
    BY <1>1, <1>2, <1>6, <1>7
  <2> QED
    BY <1>1, <2>1 DEF Tree
<1>8. CASE op.do \in {"create", "symlink"}
  <2>1. op.to \in Texts
    BY <1>8 DEF SystemCalls
  <2>2. PICK form \in {"file", "symlink"} : done = Make(fs, pinned, p, form, op.to, time)
    BY <1>8 DEF Do
  <2> HIDE DEF done, p
  <2> QED
    BY <1>4, <2>1, <2>2
<1>9. CASE op.do \notin {"create", "symlink"} /\ fs.name[p] = Absent
  <2>1. done = fs
    BY <1>9 DEF Do
  <2> QED
    BY <1>3, <2>1
<1>10. CASE op.do \in {"unlink", "link", "rename"} /\ fs.name[p] # Absent
  <2>1. op.to \in Paths
    BY <1>10 DEF SystemCalls
  <2>2. CASE op.do = "unlink"
    <3>1. done = [fs EXCEPT !.name[p] = Absent]
      BY <1>10, <2>2 DEF Do
    <3> DEFINE name == [fs.name EXCEPT ![p] = Absent]
    <3>2. done = [fs EXCEPT !.name = name]
      BY <3>1
    <3>3. name \in [Paths -> Inodes \cup {Absent}] /\ \A q \in Paths : name[q] = Absent \/ name[q] \in Named(fs)
      BY <1>1, <1>2, <1>6
    <3> HIDE DEF name, done
    <3> QED
      BY <1>5, <3>2, <3>3
  <2>3. CASE op.do = "link"
    <3> DEFINE name == [fs.name EXCEPT ![op.to] = fs.name[p]]
    <3>1. done = fs \/ done = [fs EXCEPT !.name = name]
      BY <1>10, <2>3 DEF Do
    <3>2. name \in [Paths -> Inodes \cup {Absent}] /\ \A q \in Paths : name[q] = Absent \/ name[q] \in Named(fs)
      BY <1>1, <1>2, <1>6, <2>1
    <3> HIDE DEF name, done
    <3> QED
      BY <1>3, <1>5, <3>1, <3>2
  <2>4. CASE op.do = "rename"
    <3> DEFINE name == [fs.name EXCEPT ![op.to] = fs.name[p], ![p] = Absent]
    <3>1. done = fs \/ done = [fs EXCEPT !.name[op.to] = fs.name[p], !.name[p] = Absent]
      BY <1>10, <2>4 DEF Do, Rename
    <3>2. [fs EXCEPT !.name[op.to] = fs.name[p], !.name[p] = Absent] = [fs EXCEPT !.name = name]
      BY <1>1, <1>2, <2>1
    <3>3. name \in [Paths -> Inodes \cup {Absent}] /\ \A q \in Paths : name[q] = Absent \/ name[q] \in Named(fs)
      BY <1>1, <1>2, <1>6, <2>1
    <3> HIDE DEF name, done
    <3> QED
      BY <1>3, <1>5, <3>1, <3>2, <3>3
  <2> QED
    BY <1>10, <2>2, <2>3, <2>4
<1>11. CASE op.do \in {"write", "stamp"} /\ fs.name[p] # Absent
  <2> DEFINE o == fs.object[fs.name[p]]
  <2>1. o \in 1 .. Len(fs.body)
    BY <1>7, <1>11
  <2>2. fs.body[o] \in Objects
    BY <1>1, <2>1
  <2>3. fs.body[o].data \in Texts
    BY <2>2 DEF Objects
  <2>4. ASSUME NEW data \in Texts, fs.body[o].kind = "symlink" => data = fs.body[o].data,
               done = [fs EXCEPT !.body = Change(fs.body, o, data, time)]
        PROVE  Kept(done)
    <3> DEFINE body == Change(fs.body, o, data, time)
    <3>1. /\ body \in Seq(Objects) /\ Len(body) = Len(fs.body)
          /\ \A k \in 1 .. Len(fs.body) :
               body[k].kind = fs.body[k].kind /\ body[k].data = IF k = o THEN data ELSE fs.body[k].data
      BY <1>1, <2>1, ChangedBody
    <3>2. done = [fs EXCEPT !.body = body]
      BY <2>4
    <3>5. fs.body[o].kind = "symlink" => data = fs.body[o].data
      BY <2>4
    <3> HIDE DEF body, done, o
    <3>3. /\ done \in [name : [Paths -> Inodes \cup {Absent}], object : [Inodes -> Nat], body : Seq(Objects)]
          /\ done.name = fs.name /\ done.object = fs.object /\ done.body = body
      BY <1>1, <3>1, <3>2
    <3>4. Tree(done)
      BY <3>1, <3>3, BodyTree
    <3> QED
      BY <1>1, <3>1, <3>3, <3>4, <3>5
  <2>5. CASE op.do = "write"
    <3>1. done = IF fs.body[o].kind # "file" THEN fs
                 ELSE [fs EXCEPT !.body = Change(fs.body, o, Written, time)]
      BY <1>11, <2>5 DEF Do
    <3> HIDE DEF done, o, Kept
    <3> QED
      BY <1>3, <2>4, <3>1, TextsAssumption
  <2>6. CASE op.do = "stamp"
    <3>1. done = [fs EXCEPT !.body = Change(fs.body, o, fs.body[o].data, time)]
      BY <1>11, <2>6 DEF Do
    <3> HIDE DEF done, o, Kept
    <3> QED
      BY <2>3, <2>4, <3>1
  <2> QED
    BY <1>11, <2>5, <2>6
<1> QED
  BY <1>8, <1>9, <1>10, <1>11 DEF SystemCalls

\* The handles stay on their objects whatever a program does.
LEMMA HoldsStep ==
  ASSUME NEW fs, NEW o, NEW fixture, Tree(fs), Holds(fs, o, fixture),
         NEW op \in SystemCalls, NEW time \in Nat
  PROVE  Tree(Do(fs, Pinned(o), op, time)) /\ Holds(Do(fs, Pinned(o), op, time), o, fixture)
<1> DEFINE new == Do(fs, Pinned(o), op, time)
<1>1. Pinned(o) \in SUBSET Inodes /\ DOMAIN o.identities \subseteq Pinned(o)
  BY DEF Holds, Pinned
<1>2. /\ Tree(new)
      /\ \A k \in 1 .. Len(fs.body) :
           /\ new.body[k].kind = fs.body[k].kind
           /\ fs.body[k].kind = "symlink" => new.body[k].data = fs.body[k].data
      /\ \A i \in Pinned(o) : new.object[i] = fs.object[i]
  BY <1>1, DoTree
<1>3. \A i \in DOMAIN o.identities : fs.object[i] \in 1 .. Len(fs.body)
  BY DEF Holds, Tree
<1> HIDE DEF new
<1>4. Holds(new, o, fixture)
  BY <1>1, <1>2, <1>3 DEF Holds
<1> QED
  BY <1>2, <1>4 DEF new

\* A snapshot says of every path which number it names.
LEMMA SnapshotOf ==
  ASSUME NEW fs, NEW o
  PROVE  /\ DOMAIN Snapshot(fs, o) = Names(fs)
         /\ \A p \in Names(fs) : /\ Snapshot(fs, o)[p].key = fs.name[p]
                                 /\ Snapshot(fs, o)[p].data = Contents(fs, o, p)
  BY DEF Snapshot

\* The handles of the first snapshot remember what it says.
LEMMA ObserverRemembers ==
  ASSUME NEW fs, Tree(fs)
  PROVE  Remembered(Observer(fs), Snapshot(fs, Observer(fs)))
<1> DEFINE o == Observer(fs)
           pre == Snapshot(fs, o)
<1>1. o.identities = [i \in Named(fs) |-> {p \in Names(fs) : fs.name[p] = i}]
  BY DEF Observer
<1>2. DOMAIN pre = Names(fs) /\ \A p \in Names(fs) : pre[p].key = fs.name[p]
  BY SnapshotOf
<1>3. Names(fs) \subseteq Paths /\ \A p \in Names(fs) : fs.name[p] \in Inodes
  BY DEF Names, Tree
<1> HIDE DEF o, pre
<1>4. Remembered(o, pre)
  BY <1>1, <1>2, <1>3 DEF Remembered, Named
<1> QED
  BY <1>4 DEF o, pre

\* A staged tree is a tree, and the handles opened on it are on the fixture's objects.
LEMMA StagedTree ==
  ASSUME NEW c \in Cases, NEW numbers \in Numberings(c.fixture)
  PROVE  LET fs == Staged(c.fixture, numbers) IN Tree(fs) /\ Holds(fs, Observer(fs), c.fixture)
<1> DEFINE fixture == c.fixture
           fs == Staged(fixture, numbers)
           o == Observer(fs)
<1> SUFFICES Tree(fs) /\ Holds(fs, o, fixture)
  OBVIOUS
<1>1. /\ fixture.body \in Seq(Objects) /\ Len(fixture.body) <= Cardinality(Inodes)
      /\ fixture.object \in [Paths -> 0 .. Len(fixture.body)]
      /\ Len(fixture.body) \in Nat /\ DOMAIN fixture.body = 1 .. Len(fixture.body)
  BY CasesAssumption
<1>2. Cardinality(Inodes) \in Nat /\ Inodes = 1 .. Cardinality(Inodes)
  BY InodesAssumption, FS_CardinalityType
<1>3. PICK k \in {0, Cardinality(Inodes) - Len(fixture.body)} : numbers = [x \in DOMAIN fixture.body |-> x + k]
  BY DEF Numberings
<1>4. k \in Nat /\ k + Len(fixture.body) <= Cardinality(Inodes)
  BY <1>1, <1>2
<1> DEFINE n == Len(fixture.body)
<1>5. /\ DOMAIN numbers = 1 .. n /\ \A x \in 1 .. n : numbers[x] \in Inodes
      /\ \A x, y \in 1 .. n : numbers[x] = numbers[y] => x = y
  <2>1. DOMAIN numbers = 1 .. n /\ \A x \in 1 .. n : numbers[x] = x + k
    BY <1>1, <1>3
  <2> HIDE DEF n
  <2>2. \A x \in 1 .. n : x + k \in 1 .. Cardinality(Inodes)
    BY <1>1, <1>2, <1>4 DEF n
  <2> QED
    BY <1>1, <1>2, <1>4, <2>1, <2>2 DEF n
<1>6. /\ fs.name = [p \in Paths |-> IF fixture.object[p] = 0 THEN Absent ELSE numbers[fixture.object[p]]]
      /\ fs.object = [i \in Inodes |->
                        IF \E x \in DOMAIN numbers : numbers[x] = i
                          THEN CHOOSE x \in DOMAIN numbers : numbers[x] = i ELSE 0]
      /\ fs.body = fixture.body
      /\ fs = [name |-> fs.name, object |-> fs.object, body |-> fs.body]
  BY DEF Staged
<1>7. \A x \in 1 .. n : fs.object[numbers[x]] = x
  <2> SUFFICES ASSUME NEW x \in 1 .. n PROVE fs.object[numbers[x]] = x
    OBVIOUS
  <2>1. fs.object[numbers[x]] = CHOOSE y \in 1 .. n : numbers[y] = numbers[x]
    BY <1>5, <1>6
  <2> QED
    BY <1>5, <2>1
<1>8. \A i \in Inodes : \/ fs.object[i] = 0
                        \/ fs.object[i] \in 1 .. n /\ numbers[fs.object[i]] = i
  BY <1>5, <1>6
<1>9. \A p \in Paths : /\ fs.name[p] = IF fixture.object[p] = 0 THEN Absent ELSE numbers[fixture.object[p]]
                       /\ fixture.object[p] \in 0 .. n
  BY <1>1, <1>6
<1>10. /\ Names(fs) = {p \in Paths : fixture.object[p] # 0}
       /\ \A p \in Names(fs) : fs.object[fs.name[p]] = fixture.object[p] /\ fs.name[p] \in Inodes
  <2> HIDE DEF fs, n
  <2> QED
    BY <1>1, <1>5, <1>7, <1>9, AbsentAssumption DEF Names, n
<1>11. o.identities = [i \in Named(fs) |-> {p \in Names(fs) : fs.name[p] = i}]
  BY DEF Observer
<1>12. /\ o.files = [i \in Of(fs, {"file"}) |-> fs.object[i]]
       /\ o.symlinks = [i \in Of(fs, {"symlink"}) |-> fs.body[fs.object[i]].data]
  BY DEF Observer, OpenFiles
<1>13. \A i \in Inodes : fs.object[i] \in Nat /\ fs.object[i] <= n
  BY <1>1, <1>8
<1>14. Tree(fs)
  <2>1. fs.name \in [Paths -> Inodes \cup {Absent}]
    <3> HIDE DEF n
    <3> QED
      BY <1>1, <1>5, <1>6, <1>9 DEF n
  <2>2. fs.object \in [Inodes -> Nat]
    BY <1>6, <1>13
  <2>3. \A i \in Named(fs) : fs.object[i] # 0
    BY <1>10 DEF Named
  <2>4. \A i, j \in Inodes : fs.object[i] = fs.object[j] /\ fs.object[i] # 0 => i = j
    BY <1>8
  <2> HIDE DEF fs, fixture
  <2> QED
    BY <1>1, <1>6, <1>13, <2>1, <2>2, <2>3, <2>4 DEF Tree
<1> HIDE DEF o, fs, fixture
<1>15. Holds(fs, o, fixture)
  <2>1. DOMAIN o.identities = Named(fs) /\ Named(fs) \subseteq Inodes
    BY <1>10, <1>11 DEF Named
  <2>2. DOMAIN o.files \cup DOMAIN o.symlinks \subseteq Named(fs)
    BY <1>12 DEF Of
  <2>3. \A i \in DOMAIN o.files : o.files[i] = fs.object[i]
    BY <1>12
  <2>4. \A i \in DOMAIN o.symlinks :
          LET body == fs.body[fs.object[i]] IN body.kind = "symlink" /\ body.data = o.symlinks[i]
    BY <1>12 DEF Of
  <2>5. ASSUME NEW i \in DOMAIN o.identities
        PROVE  fs.object[i] # 0 /\ o.identities[i] = {p \in Paths : fixture.object[p] = fs.object[i]}
    <3>1. PICK q \in Names(fs) : fs.name[q] = i
      BY <1>11 DEF Named
    <3>2. fs.object[i] = fixture.object[q] /\ fixture.object[q] # 0
      BY <1>10, <3>1
    <3>3. \A p \in Names(fs) : fs.name[p] = i <=> fixture.object[p] = fs.object[i]
      BY <1>9, <1>10, <3>1, <3>2
    <3> QED
      BY <1>10, <1>11, <3>2, <3>3
  <2>6. \A p \in Paths : fixture.object[p] # 0 => \E i \in DOMAIN o.identities : fixture.object[p] = fs.object[i]
    BY <1>10, <1>11 DEF Named
  <2> QED
    BY <2>1, <2>2, <2>3, <2>4, <2>5, <2>6 DEF Holds
<1> QED
  BY <1>14, <1>15

-----------------------------------------------------------------------------
(* What the observer says.                                                 *)

\* The content read of a path is the content that is there.
LEMMA ContentsTrue ==
  ASSUME NEW fs, NEW o, NEW fixture, Tree(fs), Holds(fs, o, fixture), NEW p \in Names(fs)
  PROVE  Contents(fs, o, p) = fs.body[fs.object[fs.name[p]]].data
<1> DEFINE i == fs.name[p]
<1>1. i \in DOMAIN o.symlinks =>
        fs.body[fs.object[i]].kind = "symlink" /\ fs.body[fs.object[i]].data = o.symlinks[i]
  BY DEF Holds
<1>2. i \in DOMAIN o.files => o.files[i] = fs.object[i]
  BY DEF Holds
<1> QED
  BY <1>1, <1>2 DEF Contents, At

\* The transitions are those of the objects.
LEMMA TransitionsTrue ==
  ASSUME NEW fs, NEW o, NEW fixture, Tree(fs), Holds(fs, o, fixture)
  PROVE  Transitions(o, Snapshot(fs, o)) =
           {pair \in Paths \X Names(fs) : fixture.object[pair[1]] = fs.object[fs.name[pair[2]]]}
<1> DEFINE post == Snapshot(fs, o)
<1>1. DOMAIN post = Names(fs) /\ \A p \in Names(fs) : post[p].key = fs.name[p]
  BY SnapshotOf
<1>2. \A q \in Names(fs) : fs.name[q] \in Inodes /\ fs.object[fs.name[q]] # 0
  BY DEF Tree, Named, Names
<1>3. ASSUME NEW p \in Paths, NEW q \in Names(fs)
      PROVE  (/\ fs.name[q] \in DOMAIN o.identities /\ p \in o.identities[fs.name[q]])
               <=> fixture.object[p] = fs.object[fs.name[q]]
  <2>1. ASSUME fs.name[q] \in DOMAIN o.identities
        PROVE  p \in o.identities[fs.name[q]] <=> fixture.object[p] = fs.object[fs.name[q]]
    BY <2>1 DEF Holds
  <2>2. ASSUME fixture.object[p] = fs.object[fs.name[q]] PROVE fs.name[q] \in DOMAIN o.identities
    <3>1. PICK i \in DOMAIN o.identities : fixture.object[p] = fs.object[i]
      BY <1>2, <2>2 DEF Holds
    <3>2. i \in Inodes
      BY DEF Holds
    <3>3. i = fs.name[q]
      BY <1>2, <2>2, <3>1, <3>2 DEF Tree
    <3> QED
      BY <3>3
  <2> QED
    BY <2>1, <2>2
<1> HIDE DEF post
<1>4. Transitions(o, post) =
        {pair \in Paths \X Names(fs) :
           fs.name[pair[2]] \in DOMAIN o.identities /\ pair[1] \in o.identities[fs.name[pair[2]]]}
  BY <1>1 DEF Transitions
<1>5. Transitions(o, post) = {pair \in Paths \X Names(fs) : fixture.object[pair[1]] = fs.object[fs.name[pair[2]]]}
  BY <1>3, <1>4
<1> QED
  BY <1>5 DEF post

\* The transitions are also those of the numbers in the two snapshots.
LEMMA TransitionsOfNumbers ==
  ASSUME NEW o, NEW pre, NEW post, Remembered(o, pre)
  PROVE  Transitions(o, post) =
           {pair \in (DOMAIN pre) \X (DOMAIN post) : pre[pair[1]].key = post[pair[2]].key}
<1>1. ASSUME NEW p \in Paths, NEW q \in DOMAIN post
      PROVE  (post[q].key \in DOMAIN o.identities /\ p \in o.identities[post[q].key])
               <=> (p \in DOMAIN pre /\ pre[p].key = post[q].key)
  BY DEF Remembered
<1>2. Transitions(o, post) =
        {pair \in Paths \X (DOMAIN post) :
           post[pair[2]].key \in DOMAIN o.identities /\ pair[1] \in o.identities[post[pair[2]].key]}
  BY DEF Transitions
<1>3. Transitions(o, post) =
        {pair \in Paths \X (DOMAIN post) : pair[1] \in DOMAIN pre /\ pre[pair[1]].key = post[pair[2]].key}
  BY <1>1, <1>2
<1>4. DOMAIN pre \subseteq Paths
  BY DEF Remembered
<1> QED
  BY <1>3, <1>4

-----------------------------------------------------------------------------
(* Runs that differ in their numbers and clocks only.                      *)

\* Two ways of numbering the same things with numbers of a finite set, if they agree
\* on which are the same, differ by a renumbering of the set.
LEMMA Renumbering ==
  ASSUME NEW S, IsFiniteSet(S), NEW K, NEW f \in [K -> S], NEW g \in [K -> S],
         \A x, y \in K : f[x] = f[y] <=> g[x] = g[y]
  PROVE  \E n \in Bijection(S, S) : \A x \in K : n[f[x]] = g[x]
<1> DEFINE F == {f[x] : x \in K}
           G == {g[x] : x \in K}
           h == [i \in F |-> g[CHOOSE x \in K : f[x] = i]]
<1>1. \A x \in K : f[x] \in F /\ h[f[x]] = g[x]
  OBVIOUS
<1>2. /\ \A i \in F : h[i] \in G
      /\ \A i, j \in F : h[i] = h[j] => i = j
      /\ \A k \in G : \E i \in F : h[i] = k
  <2> HIDE DEF h
  <2> QED
    BY <1>1
<1>3. F \subseteq S /\ G \subseteq S
  OBVIOUS
<1>4. h \in [F -> G]
  <2>1. h = [i \in F |-> h[i]]
    OBVIOUS
  <2> HIDE DEF h, F, G
  <2> QED
    BY <1>2, <2>1
<1> HIDE DEF F, G, h
<1>5. h \in Bijection(F, G)
  BY <1>2, <1>4 DEF Bijection, Injection, Surjection, IsInjective
<1>6. IsFiniteSet(F) /\ IsFiniteSet(G)
  BY <1>3, FS_Subset
<1>7. Cardinality(F) = Cardinality(G)
  BY <1>5, <1>6, FS_Bijection DEF ExistsBijection
<1>8. /\ IsFiniteSet(S \ F) /\ Cardinality(S \ F) = Cardinality(S) - Cardinality(S \cap F)
      /\ IsFiniteSet(S \ G) /\ Cardinality(S \ G) = Cardinality(S) - Cardinality(S \cap G)
  BY FS_Difference
<1>9. S \cap F = F /\ S \cap G = G
  BY <1>3
<1>10. PICK r \in Bijection(S \ F, S \ G) : TRUE
  BY <1>7, <1>8, <1>9, FS_SameCardinalityBij DEF ExistsBijection
<1>11. /\ r \in [S \ F -> S \ G] /\ \A i, j \in S \ F : r[i] = r[j] => i = j
       /\ \A k \in S \ G : \E i \in S \ F : r[i] = k
  BY <1>10 DEF Bijection, Injection, Surjection, IsInjective
<1> DEFINE n == [i \in S |-> IF i \in F THEN h[i] ELSE r[i]]
<1>12. (\A i \in F : n[i] = h[i]) /\ (\A i \in S \ F : n[i] = r[i])
  BY <1>3
<1>13. n \in [S -> S]
  BY <1>2, <1>3, <1>11
<1> HIDE DEF n
<1>14. \A i, j \in S : n[i] = n[j] => i = j
  <2> SUFFICES ASSUME NEW i \in S, NEW j \in S, n[i] = n[j] PROVE i = j
    OBVIOUS
  <2>1. CASE i \in F /\ j \in F
    BY <2>1, <1>2, <1>12
  <2>2. CASE i \notin F /\ j \notin F
    BY <2>2, <1>11, <1>12
  <2>3. \A k \in F, l \in S \ F : n[k] \in G /\ n[l] \notin G
    BY <1>2, <1>11, <1>12
  <2> QED
    BY <2>1, <2>2, <2>3
<1>15. \A k \in S : \E i \in S : n[i] = k
  <2> SUFFICES ASSUME NEW k \in S PROVE \E i \in S : n[i] = k
    OBVIOUS
  <2>1. CASE k \in G
    BY <2>1, <1>2, <1>3, <1>12
  <2>2. CASE k \notin G
    BY <2>2, <1>11, <1>12
  <2> QED
    BY <2>1, <2>2
<1>16. n \in Bijection(S, S)
  BY <1>13, <1>14, <1>15 DEF Bijection, Injection, Surjection, IsInjective
<1>17. \A x \in K : n[f[x]] = g[x]
  BY <1>1, <1>12
<1> QED
  BY <1>16, <1>17

\* The two snapshots of an observation.
Halves == {"pre", "post"}

\* Two observations agree on which paths name the same object, before and after.
KeysAgree(one, other) ==
  \A s, t \in Halves : \A p \in DOMAIN one[s], q \in DOMAIN one[t] :
    one[s][p].key = one[t][q].key <=> other[s][p].key = other[t][q].key

\* What the verdict keeps of an observation.
Agree(one, other) ==
  /\ one.status = other.status
  /\ case.ignoreStderr \/ one.stderr = other.stderr
  /\ Canonical(case, one.stdout) = Canonical(case, other.stdout)
  /\ one.identity = other.identity
  /\ \A s \in Halves :
       /\ DOMAIN one[s] = DOMAIN other[s] /\ Aliases(one[s]) = Aliases(other[s])
       /\ \A p \in DOMAIN one[s] : Seen(one[s][p]) = Seen(other[s][p])

\* Aliases are the pairs of paths with one number.
LEMMA AliasesOf ==
  ASSUME NEW s, NEW p \in DOMAIN s, NEW q \in DOMAIN s
  PROVE  <<p, q>> \in Aliases(s) <=> p # q /\ s[p].key = s[q].key
  BY DEF Aliases

\* The aliases and the transitions say exactly that.
LEMMA AgreeOnKeys ==
  ASSUME NEW one, NEW other, Consistent(one), Consistent(other),
         \A s \in Halves : DOMAIN one[s] = DOMAIN other[s]
  PROVE  KeysAgree(one, other) <=>
           /\ one.identity = other.identity
           /\ \A s \in Halves : Aliases(one[s]) = Aliases(other[s])
<1>1. /\ one.identity = {pair \in (DOMAIN one["pre"]) \X (DOMAIN one["post"]) :
                           one["pre"][pair[1]].key = one["post"][pair[2]].key}
      /\ other.identity = {pair \in (DOMAIN other["pre"]) \X (DOMAIN other["post"]) :
                             other["pre"][pair[1]].key = other["post"][pair[2]].key}
  BY DEF Consistent
<1>2. ASSUME KeysAgree(one, other)
      PROVE  one.identity = other.identity /\ \A s \in Halves : Aliases(one[s]) = Aliases(other[s])
  <2>1. one.identity = other.identity
    <3>1. \A p \in DOMAIN one["pre"], q \in DOMAIN one["post"] :
            one["pre"][p].key = one["post"][q].key <=> other["pre"][p].key = other["post"][q].key
      BY <1>2 DEF KeysAgree, Halves
    <3>2. DOMAIN one["pre"] = DOMAIN other["pre"] /\ DOMAIN one["post"] = DOMAIN other["post"]
      BY DEF Halves
    <3> QED
      BY <1>1, <3>1, <3>2
  <2>2. ASSUME NEW s \in Halves PROVE Aliases(one[s]) = Aliases(other[s])
    <3>1. \A p, q \in DOMAIN one[s] : one[s][p].key = one[s][q].key <=> other[s][p].key = other[s][q].key
      BY <1>2 DEF KeysAgree
    <3> QED
      BY <3>1 DEF Aliases
  <2> QED
    BY <2>1, <2>2
<1>3. ASSUME one.identity = other.identity, \A s \in Halves : Aliases(one[s]) = Aliases(other[s])
      PROVE  KeysAgree(one, other)
  <2> SUFFICES ASSUME NEW s \in Halves, NEW t \in Halves, NEW p \in DOMAIN one[s], NEW q \in DOMAIN one[t]
               PROVE  one[s][p].key = one[t][q].key <=> other[s][p].key = other[t][q].key
    BY DEF KeysAgree
  <2>1. CASE s = t
    <3>1. <<p, q>> \in Aliases(one[s]) <=> p # q /\ one[s][p].key = one[s][q].key
      BY <2>1, AliasesOf
    <3>2. <<p, q>> \in Aliases(other[s]) <=> p # q /\ other[s][p].key = other[s][q].key
      BY <2>1, AliasesOf
    <3> QED
      BY <1>3, <2>1, <3>1, <3>2
  <2>2. ASSUME NEW x \in DOMAIN one["pre"], NEW y \in DOMAIN one["post"]
        PROVE  one["pre"][x].key = one["post"][y].key <=> other["pre"][x].key = other["post"][y].key
    <3>1. <<x, y>> \in one.identity <=> one["pre"][x].key = one["post"][y].key
      BY <1>1
    <3>2. x \in DOMAIN other["pre"] /\ y \in DOMAIN other["post"]
      BY DEF Halves
    <3>3. <<x, y>> \in other.identity <=> other["pre"][x].key = other["post"][y].key
      BY <1>1, <3>2
    <3> QED
      BY <1>3, <3>1, <3>3
  <2>3. CASE s = "pre" /\ t = "post"
    BY <2>2, <2>3
  <2>4. CASE s = "post" /\ t = "pre"
    BY <2>2, <2>4
  <2> QED
    BY <2>1, <2>3, <2>4 DEF Halves
<1> QED
  BY <1>2, <1>3

\* The same run under other numbers is what the verdict keeps of it.
LEMMA AlikeIsAgree ==
  ASSUME NEW one, NEW other, Consistent(one), Consistent(other)
  PROVE  Alike(one, other) <=> Agree(one, other)
<1>1. \A s \in Halves : \A p \in DOMAIN one[s] : one[s][p].key \in Inodes
  BY DEF Consistent, Halves
<1>2. \A s \in Halves : \A p \in DOMAIN other[s] : other[s][p].key \in Inodes
  BY DEF Consistent, Halves
<1>3. ASSUME Alike(one, other) PROVE Agree(one, other)
  <2>1. PICK numbers \in Bijection(Inodes, Inodes) :
          \A s \in Halves :
            /\ DOMAIN one[s] = DOMAIN other[s]
            /\ \A p \in DOMAIN one[s] :
                 Seen(one[s][p]) = Seen(other[s][p]) /\ numbers[one[s][p].key] = other[s][p].key
    BY <1>3 DEF Alike, Halves
  <2>2. \A i, j \in Inodes : numbers[i] = numbers[j] => i = j
    BY DEF Bijection, Injection, IsInjective
  <2>3. KeysAgree(one, other)
    BY <1>1, <2>1, <2>2 DEF KeysAgree
  <2>4. one.identity = other.identity /\ \A s \in Halves : Aliases(one[s]) = Aliases(other[s])
    BY <2>1, <2>3, AgreeOnKeys
  <2>5. one["status"] = other["status"] /\ (case.ignoreStderr \/ one["stderr"] = other["stderr"])
    BY <1>3 DEF Alike
  <2>6. Canonical(case, one.stdout) = Canonical(case, other.stdout)
    BY <1>3 DEF Alike
  <2> QED
    BY <2>1, <2>4, <2>5, <2>6 DEF Agree
<1>4. ASSUME Agree(one, other) PROVE Alike(one, other)
  <2>1. \A s \in Halves : DOMAIN one[s] = DOMAIN other[s]
    BY <1>4 DEF Agree
  <2>2. KeysAgree(one, other)
    BY <1>4, <2>1, AgreeOnKeys DEF Agree
  <2> DEFINE K == UNION {{s} \X (DOMAIN one[s]) : s \in Halves}
             f == [x \in K |-> one[x[1]][x[2]].key]
             g == [x \in K |-> other[x[1]][x[2]].key]
  <2>3. \A x \in K : x[1] \in Halves /\ x[2] \in DOMAIN one[x[1]]
    OBVIOUS
  <2>4. \A s \in Halves : \A p \in DOMAIN one[s] : <<s, p>> \in K
    OBVIOUS
  <2>5. f \in [K -> Inodes] /\ g \in [K -> Inodes]
    <3> HIDE DEF K
    <3> QED
      BY <1>1, <1>2, <2>1, <2>3
  <2>6. \A x, y \in K : f[x] = f[y] <=> g[x] = g[y]
    <3> HIDE DEF K
    <3> QED
      BY <2>2, <2>3 DEF KeysAgree
  <2>7. \A s \in Halves : \A p \in DOMAIN one[s] : f[<<s, p>>] = one[s][p].key /\ g[<<s, p>>] = other[s][p].key
    <3> HIDE DEF K
    <3> QED
      BY <2>4
  <2> HIDE DEF f, g, K
  <2>8. PICK numbers \in Bijection(Inodes, Inodes) : \A x \in K : numbers[f[x]] = g[x]
    BY <2>5, <2>6, InodesAssumption, Renumbering
  <2>9. \A s \in Halves :
          /\ DOMAIN one[s] = DOMAIN other[s]
          /\ \A p \in DOMAIN one[s] : Seen(one[s][p]) = Seen(other[s][p]) /\ numbers[one[s][p].key] = other[s][p].key
    BY <1>4, <2>1, <2>4, <2>7, <2>8 DEF Agree
  <2>10. one["status"] = other["status"] /\ (case.ignoreStderr \/ one["stderr"] = other["stderr"])
    BY <1>4 DEF Agree
  <2> QED
    BY <1>4, <2>9, <2>10 DEF Alike, Agree, Halves
<1> QED
  BY <1>3, <1>4

\* What replay compares of the evidence, field by field.
LEMMA ReplayableOf ==
  ASSUME NEW c, NEW shared, NEW ordered, NEW obs
  PROVE  LET e == Evidence(c, shared, ordered, obs)
             abstract(s) == [nodes |-> [p \in DOMAIN s.nodes |-> s.nodes[p].seen], aliases |-> s.aliases]
         IN  Replayable(e) =
               [execution |-> [sharing |-> shared], comparison |-> e.comparison, outcome |-> e.outcome,
                stdout |-> e.stdout, stderr |-> e.stderr, identity |-> e.identity,
                pre |-> [v \in Variants |-> abstract(e.pre[v])],
                post |-> [v \in Variants |-> abstract(e.post[v])]]
<1> DEFINE e == Evidence(c, shared, ordered, obs)
<1>1. /\ e = [execution |-> e.execution, comparison |-> e.comparison, outcome |-> e.outcome,
              stdout |-> e.stdout, stderr |-> e.stderr, identity |-> e.identity, pre |-> e.pre, post |-> e.post]
      /\ e.execution.sharing = shared
  BY DEF Evidence
<1> HIDE DEF e
<1> DEFINE abstract(s) == [nodes |-> [p \in DOMAIN s.nodes |-> s.nodes[p].seen], aliases |-> s.aliases]
           pre == [v \in Variants |-> abstract(e.pre[v])]
           post == [v \in Variants |-> abstract(e.post[v])]
<1>2. Replayable(e) = [e EXCEPT !.execution = [sharing |-> e.execution.sharing], !.pre = pre, !.post = post]
  BY Zenon DEF Replayable
<1> HIDE DEF pre, post
<1>3. Replayable(e) =
        [execution |-> [sharing |-> shared], comparison |-> e.comparison, outcome |-> e.outcome,
         stdout |-> e.stdout, stderr |-> e.stderr, identity |-> e.identity, pre |-> pre, post |-> post]
  BY <1>1, <1>2
<1> QED
  BY <1>3, Zenon DEF e, pre, post

\* An outcome keeps the status it was made of.
LEMMA RawOf == ASSUME NEW raw PROVE Termination(raw).raw = raw
  BY DEF Termination

\* A snapshot's evidence without numbers and times.
LEMMA AbstractOf ==
  ASSUME NEW s, NEW pre, NEW isPost \in BOOLEAN, NEW t, NEW base
  PROVE  LET abstract(f) == [nodes |-> [p \in DOMAIN f.nodes |-> f.nodes[p].seen], aliases |-> f.aliases] IN
         abstract(FsEvidence(s, pre, isPost)) = abstract(FsEvidence(t, base, isPost)) <=>
           /\ DOMAIN s = DOMAIN t /\ Aliases(s) = Aliases(t)
           /\ \A p \in DOMAIN s : Seen(s[p]) = Seen(t[p])
<1> DEFINE abstract(f) == [nodes |-> [p \in DOMAIN f.nodes |-> f.nodes[p].seen], aliases |-> f.aliases]
<1>1. abstract(FsEvidence(s, pre, isPost)) = [nodes |-> [p \in DOMAIN s |-> Seen(s[p])], aliases |-> Aliases(s)]
  BY EvidenceOf
<1>2. abstract(FsEvidence(t, base, isPost)) = [nodes |-> [p \in DOMAIN t |-> Seen(t[p])], aliases |-> Aliases(t)]
  BY EvidenceOf
<1> DEFINE x == [p \in DOMAIN s |-> Seen(s[p])]
           y == [p \in DOMAIN t |-> Seen(t[p])]
<1>3. x = y <=> DOMAIN s = DOMAIN t /\ \A p \in DOMAIN s : Seen(s[p]) = Seen(t[p])
  <2>1. DOMAIN x = DOMAIN s /\ \A p \in DOMAIN s : x[p] = Seen(s[p])
    OBVIOUS
  <2>2. DOMAIN y = DOMAIN t /\ \A p \in DOMAIN t : y[p] = Seen(t[p])
    OBVIOUS
  <2> QED
    BY <2>1, <2>2
<1> SUFFICES abstract(FsEvidence(s, pre, isPost)) = abstract(FsEvidence(t, base, isPost)) <=>
               x = y /\ Aliases(s) = Aliases(t)
  BY <1>3
<1> HIDE DEF abstract, x, y
<1>4. [nodes |-> x, aliases |-> Aliases(s)] = [nodes |-> y, aliases |-> Aliases(t)] <=>
        x = y /\ Aliases(s) = Aliases(t)
  OBVIOUS
<1> QED
  BY <1>1, <1>2, <1>4 DEF x, y

\* What a comparison says depends on what the verdict keeps of the two observations.
LEMMA AgreeCompare ==
  ASSUME NEW old, NEW new, \A v \in Variants : Agree(old[v], new[v]), case.ignoreStderr \in BOOLEAN
  PROVE  Compare(case, new["reference"], new["dut"]) = Compare(case, old["reference"], old["dut"])
<1> DEFINE a == old["reference"]
           b == old["dut"]
           x == new["reference"]
           y == new["dut"]
<1>1. Agree(a, x) /\ Agree(b, y)
  BY DEF Variants
<1> HIDE DEF a, b, x, y
<1>2. /\ a.status = x.status /\ b.status = y.status
      /\ Canonical(case, a.stdout) = Canonical(case, x.stdout)
      /\ Canonical(case, b.stdout) = Canonical(case, y.stdout)
      /\ case.ignoreStderr \/ (a.stderr = x.stderr /\ b.stderr = y.stderr)
      /\ a.identity = x.identity /\ b.identity = y.identity
  BY <1>1 DEF Agree
<1>3. /\ DOMAIN a.post = DOMAIN x.post /\ DOMAIN b.post = DOMAIN y.post
      /\ Aliases(a.post) = Aliases(x.post) /\ Aliases(b.post) = Aliases(y.post)
      /\ \A p \in DOMAIN a.post : Seen(a.post[p]) = Seen(x.post[p])
      /\ \A p \in DOMAIN b.post : Seen(b.post[p]) = Seen(y.post[p])
  BY <1>1 DEF Agree, Halves
<1> DEFINE process(l, r) == IF l.status = r.status THEN None ELSE <<Termination(l.status), Termination(r.status)>>
           stdout(l, r) == Canonical(case, l.stdout) # Canonical(case, r.stdout)
           stderr(l, r) == ~case.ignoreStderr /\ l.stderr # r.stderr
           changed(l, r) == {p \in DOMAIN l.post \cap DOMAIN r.post : Seen(l.post[p]) # Seen(r.post[p])}
           aliases(l, r) == Aliases(l.post) # Aliases(r.post)
           identity(l, r) == l.identity # r.identity
<1>4. ASSUME NEW l, NEW r
      PROVE  Compare(case, l, r) =
               [process |-> process(l, r), stdout |-> stdout(l, r), stderr |-> stderr(l, r),
                fs |-> [added |-> DOMAIN r.post \ DOMAIN l.post, removed |-> DOMAIN l.post \ DOMAIN r.post,
                        changed |-> changed(l, r), aliases |-> aliases(l, r), identity |-> identity(l, r)]]
  BY Zenon DEF Compare, FsDifferences
<1>5. process(a, b) = process(x, y)
  BY <1>2
<1>6. stdout(a, b) = stdout(x, y)
  BY <1>2
<1>7. stderr(a, b) = stderr(x, y)
  BY <1>2
<1>8. changed(a, b) = changed(x, y)
  BY <1>3
<1>9. aliases(a, b) = aliases(x, y)
  BY <1>3
<1>10. identity(a, b) = identity(x, y)
  BY <1>2
<1> HIDE DEF process, stdout, stderr, changed, aliases, identity
<1>11. Compare(case, x, y) = Compare(case, a, b)
  BY <1>3, <1>4, <1>5, <1>6, <1>7, <1>8, <1>9, <1>10
<1> QED
  BY <1>11 DEF a, b, x, y

\* Two evaluations have the same evidence in a replay's eyes exactly if they shared a
\* tree alike and the verdict keeps the same of both variants.
LEMMA ReplayableIsAgree ==
  ASSUME NEW old, NEW new, NEW was, NEW is, NEW ordered \in BOOLEAN, NEW inOrder \in BOOLEAN,
         case.ignoreStderr \in BOOLEAN,
         \A v \in Variants : Consistent(old[v]) /\ Consistent(new[v])
  PROVE  Replayable(Evidence(case, is, ordered, new)) = Replayable(Evidence(case, was, inOrder, old)) <=>
           is = was /\ \A v \in Variants : Agree(old[v], new[v])
<1> DEFINE e == Evidence(case, was, inOrder, old)
           f == Evidence(case, is, ordered, new)
           abstract(s) == [nodes |-> [p \in DOMAIN s.nodes |-> s.nodes[p].seen], aliases |-> s.aliases]
           pre(x) == [v \in Variants |-> abstract(x.pre[v])]
           post(x) == [v \in Variants |-> abstract(x.post[v])]
           early == FALSE
           late == TRUE
<1>1. /\ Replayable(e) =
           [execution |-> [sharing |-> was], comparison |-> e.comparison, outcome |-> e.outcome,
            stdout |-> e.stdout, stderr |-> e.stderr, identity |-> e.identity, pre |-> pre(e), post |-> post(e)]
      /\ Replayable(f) =
           [execution |-> [sharing |-> is], comparison |-> f.comparison, outcome |-> f.outcome,
            stdout |-> f.stdout, stderr |-> f.stderr, identity |-> f.identity, pre |-> pre(f), post |-> post(f)]
  BY ReplayableOf
<1>2. ASSUME NEW v \in Variants
      PROVE  /\ e.outcome[v] = Termination(old[v].status) /\ f.outcome[v] = Termination(new[v].status)
             /\ e.stdout[v] = Canonical(case, old[v].stdout) /\ f.stdout[v] = Canonical(case, new[v].stdout)
             /\ e.stderr[v] = IF case.ignoreStderr THEN "ignored" ELSE old[v].stderr
             /\ f.stderr[v] = IF case.ignoreStderr THEN "ignored" ELSE new[v].stderr
             /\ e.identity[v] = old[v].identity /\ f.identity[v] = new[v].identity
  BY DEF Evidence
<1>3. ASSUME NEW v \in Variants
      PROVE  /\ e.pre[v] = FsEvidence(old[v].pre, old[v].pre, early)
             /\ f.pre[v] = FsEvidence(new[v].pre, new[v].pre, early)
             /\ e.post[v] = FsEvidence(old[v].post, old[v].pre, late)
             /\ f.post[v] = FsEvidence(new[v].post, new[v].pre, late)
  BY DEF Evidence
<1>4. /\ e.comparison = Compare(case, old["reference"], old["dut"])
      /\ f.comparison = Compare(case, new["reference"], new["dut"])
  BY DEF Evidence
<1>5. /\ e.outcome = [v \in Variants |-> e.outcome[v]] /\ f.outcome = [v \in Variants |-> f.outcome[v]]
      /\ e.stdout = [v \in Variants |-> e.stdout[v]] /\ f.stdout = [v \in Variants |-> f.stdout[v]]
      /\ e.stderr = [v \in Variants |-> e.stderr[v]] /\ f.stderr = [v \in Variants |-> f.stderr[v]]
      /\ e.identity = [v \in Variants |-> e.identity[v]] /\ f.identity = [v \in Variants |-> f.identity[v]]
  BY DEF Evidence
<1>6. early \in BOOLEAN /\ late \in BOOLEAN
  OBVIOUS
<1> HIDE DEF e, f, early, late
<1>7. ASSUME NEW v \in Variants
      PROVE  /\ pre(e)[v] = pre(f)[v] <=>
                  /\ DOMAIN old[v].pre = DOMAIN new[v].pre /\ Aliases(old[v].pre) = Aliases(new[v].pre)
                  /\ \A p \in DOMAIN old[v].pre : Seen(old[v].pre[p]) = Seen(new[v].pre[p])
             /\ post(e)[v] = post(f)[v] <=>
                  /\ DOMAIN old[v].post = DOMAIN new[v].post /\ Aliases(old[v].post) = Aliases(new[v].post)
                  /\ \A p \in DOMAIN old[v].post : Seen(old[v].post[p]) = Seen(new[v].post[p])
  <2>1. pre(e)[v] = abstract(e.pre[v]) /\ pre(f)[v] = abstract(f.pre[v])
    OBVIOUS
  <2>2. post(e)[v] = abstract(e.post[v]) /\ post(f)[v] = abstract(f.post[v])
    OBVIOUS
  <2>3. abstract(e.pre[v]) = abstract(f.pre[v]) <=>
          /\ DOMAIN old[v].pre = DOMAIN new[v].pre /\ Aliases(old[v].pre) = Aliases(new[v].pre)
          /\ \A p \in DOMAIN old[v].pre : Seen(old[v].pre[p]) = Seen(new[v].pre[p])
    BY <1>3, <1>6, AbstractOf
  <2>4. abstract(e.post[v]) = abstract(f.post[v]) <=>
          /\ DOMAIN old[v].post = DOMAIN new[v].post /\ Aliases(old[v].post) = Aliases(new[v].post)
          /\ \A p \in DOMAIN old[v].post : Seen(old[v].post[p]) = Seen(new[v].post[p])
    BY <1>3, <1>6, AbstractOf
  <2> HIDE DEF abstract
  <2> QED
    BY <2>1, <2>2, <2>3, <2>4
<1>8. pre(e) = [v \in Variants |-> pre(e)[v]] /\ pre(f) = [v \in Variants |-> pre(f)[v]]
  OBVIOUS
<1>9. post(e) = [v \in Variants |-> post(e)[v]] /\ post(f) = [v \in Variants |-> post(f)[v]]
  OBVIOUS
<1> HIDE DEF pre, post
<1>10. ASSUME Replayable(f) = Replayable(e) PROVE is = was /\ \A v \in Variants : Agree(old[v], new[v])
  <2>1. /\ is = was /\ e.outcome = f.outcome /\ e.stdout = f.stdout /\ e.stderr = f.stderr
        /\ e.identity = f.identity /\ pre(e) = pre(f) /\ post(e) = post(f)
    <3>1. /\ Replayable(e).execution.sharing = was /\ Replayable(f).execution.sharing = is
          /\ Replayable(e).outcome = e.outcome /\ Replayable(f).outcome = f.outcome
          /\ Replayable(e).stdout = e.stdout /\ Replayable(f).stdout = f.stdout
          /\ Replayable(e).stderr = e.stderr /\ Replayable(f).stderr = f.stderr
          /\ Replayable(e).identity = e.identity /\ Replayable(f).identity = f.identity
          /\ Replayable(e).pre = pre(e) /\ Replayable(f).pre = pre(f)
          /\ Replayable(e).post = post(e) /\ Replayable(f).post = post(f)
      BY <1>1
    <3> QED
      BY <1>10, <3>1
  <2> SUFFICES ASSUME NEW v \in Variants PROVE Agree(old[v], new[v])
    BY <2>1
  <2>2. old[v].status = new[v].status
    <3>1. Termination(old[v].status) = Termination(new[v].status)
      BY <1>2, <2>1
    <3> QED
      BY <3>1, RawOf
  <2>3. case.ignoreStderr \/ old[v].stderr = new[v].stderr
    BY <1>2, <2>1
  <2>4. Canonical(case, old[v].stdout) = Canonical(case, new[v].stdout) /\ old[v].identity = new[v].identity
    BY <1>2, <2>1
  <2>5. \A s \in Halves : /\ DOMAIN old[v][s] = DOMAIN new[v][s] /\ Aliases(old[v][s]) = Aliases(new[v][s])
                          /\ \A p \in DOMAIN old[v][s] : Seen(old[v][s][p]) = Seen(new[v][s][p])
    BY <1>7, <2>1 DEF Halves
  <2> QED
    BY <2>2, <2>3, <2>4, <2>5 DEF Agree
<1>11. ASSUME is = was, \A v \in Variants : Agree(old[v], new[v]) PROVE Replayable(f) = Replayable(e)
  <2>1. e.comparison = f.comparison
    BY <1>4, <1>11, AgreeCompare
  <2>2. ASSUME NEW v \in Variants
        PROVE  /\ e.outcome[v] = f.outcome[v] /\ e.stdout[v] = f.stdout[v]
               /\ e.stderr[v] = f.stderr[v] /\ e.identity[v] = f.identity[v]
    BY <1>2, <1>11 DEF Agree
  <2>3. ASSUME NEW v \in Variants PROVE pre(e)[v] = pre(f)[v] /\ post(e)[v] = post(f)[v]
    BY <1>7, <1>11 DEF Agree, Halves
  <2>4. /\ e.outcome = f.outcome /\ e.stdout = f.stdout /\ e.stderr = f.stderr /\ e.identity = f.identity
    BY <1>5, <2>2
  <2>5. pre(e) = pre(f) /\ post(e) = post(f)
    BY <1>8, <1>9, <2>3
  <2> QED
    BY <1>1, <1>11, <2>1, <2>4, <2>5
<1>12. Replayable(f) = Replayable(e) <=> is = was /\ \A v \in Variants : Agree(old[v], new[v])
  BY <1>10, <1>11
<1> QED
  BY <1>12 DEF e, f

\* A replay's judgement on a saved mismatch.
LEMMA JudgeIsAgree ==
  ASSUME NEW old, NEW was \in BOOLEAN, NEW ordered \in BOOLEAN, case.ignoreStderr \in BOOLEAN,
         \A v \in Variants : Consistent(old[v]) /\ Consistent(seen[v]),
         content = Manifest(Evidence(case, was, TRUE, old)),
         ~IsMatch(Evidence(case, was, TRUE, old).comparison)
  PROVE  LET e == Evidence(case, sharing, ordered, seen) IN
         ~IsMatch(e.comparison) /\ Judge(e) <=>
           /\ sharing = content.evidence.execution.sharing
           /\ \A v \in Variants : Alike(old[v], seen[v])
<1> DEFINE e == Evidence(case, sharing, ordered, seen)
           f == Evidence(case, was, TRUE, old)
           late == TRUE
<1>1. /\ content.evidence = f
      /\ content.signature = Signature(f.comparison, f.identity["reference"], f.identity["dut"])
      /\ Manifest(e).signature = Signature(e.comparison, e.identity["reference"], e.identity["dut"])
  BY DEF Manifest
<1>2. /\ e.comparison = Compare(case, seen["reference"], seen["dut"])
      /\ f.comparison = Compare(case, old["reference"], old["dut"])
      /\ f.execution.sharing = was
      /\ \A v \in Variants : e.identity[v] = seen[v].identity /\ f.identity[v] = old[v].identity
  BY DEF Evidence
<1>3. Replayable(e) = Replayable(f) <=> sharing = was /\ \A v \in Variants : Agree(old[v], seen[v])
  <2>1. late \in BOOLEAN
    OBVIOUS
  <2>2. f = Evidence(case, was, late, old)
    OBVIOUS
  <2> HIDE DEF late, f
  <2> QED
    BY <2>1, <2>2, ReplayableIsAgree
<1>4. \A v \in Variants : Alike(old[v], seen[v]) <=> Agree(old[v], seen[v])
  BY AlikeIsAgree
<1>5. ~IsMatch(f.comparison)
  OBVIOUS
<1> HIDE DEF e, f
<1>6. ASSUME \A v \in Variants : Agree(old[v], seen[v])
      PROVE  e.comparison = f.comparison /\ Manifest(e).signature = content.signature
  <2>1. e.comparison = f.comparison
    BY <1>2, <1>6, AgreeCompare
  <2>2. e.identity["reference"] = f.identity["reference"] /\ e.identity["dut"] = f.identity["dut"]
    BY <1>2, <1>6 DEF Agree, Variants
  <2> QED
    BY <1>1, <2>1, <2>2
<1>7. ~IsMatch(e.comparison) /\ Judge(e) <=> sharing = was /\ \A v \in Variants : Agree(old[v], seen[v])
  BY <1>1, <1>3, <1>5, <1>6 DEF Judge, Reproduces
<1>8. ~IsMatch(e.comparison) /\ Judge(e) <=>
        /\ sharing = content.evidence.execution.sharing
        /\ \A v \in Variants : Alike(old[v], seen[v])
  BY <1>1, <1>2, <1>4, <1>7
<1> QED
  BY <1>8 DEF e

-----------------------------------------------------------------------------
(* The printed difference.  Both tables of diff_lines are filled from the  *)
(* ends of the texts backward, so that what is said of a cell follows from *)
(* what is said of those where fewer lines are left.                       *)

\* The principle of induction, for the set of numbers with a property.
LEMMA Induction ==
  ASSUME NEW holds \in SUBSET Nat, 0 \in holds, \A n \in holds : n + 1 \in holds
  PROVE  holds = Nat
<1> SUFFICES ASSUME Nat \ holds # {} PROVE FALSE
  OBVIOUS
<1> DEFINE others == Nat \ holds
<1>1. PICK m \in others : \A i \in others : m <= i
  <2>1. others \in SUBSET Nat /\ others # {}
    OBVIOUS
  <2> HIDE DEF others
  <2> QED
    BY <2>1, LowestIsFree
<1>2. m - 1 \in Nat /\ (m - 1) + 1 = m
  BY <1>1
<1>3. m - 1 \in holds
  BY <1>1, <1>2
<1> QED
  BY <1>1, <1>2, <1>3

\* How many lines are left of two texts at a cell of the table.
Left(left, right, c) == (Len(left) - c[1]) + (Len(right) - c[2]) + 2

\* The neighbours of a cell at which there are lines of both texts, or of one.
LEMMA CellsOf ==
  ASSUME NEW left, NEW right, Len(left) \in Nat, Len(right) \in Nat, NEW c \in Cells(left, right)
  PROVE  /\ c[1] \in 1 .. Len(left) + 1 /\ c[2] \in 1 .. Len(right) + 1 /\ c = <<c[1], c[2]>>
         /\ Left(left, right, c) \in 0 .. Len(left) + Len(right)
         /\ c[1] <= Len(left) =>
              Below(c) \in Cells(left, right) /\ Left(left, right, Below(c)) < Left(left, right, c)
         /\ c[2] <= Len(right) =>
              Beside(c) \in Cells(left, right) /\ Left(left, right, Beside(c)) < Left(left, right, c)
         /\ c[1] <= Len(left) /\ c[2] <= Len(right) =>
              Across(c) \in Cells(left, right) /\ Left(left, right, Across(c)) < Left(left, right, c)
<1>1. c[1] \in 1 .. Len(left) + 1 /\ c[2] \in 1 .. Len(right) + 1 /\ c = <<c[1], c[2]>>
  BY DEF Cells
<1>2. \A i \in 1 .. Len(left) + 1, j \in 1 .. Len(right) + 1 : <<i, j>> \in Cells(left, right)
  BY DEF Cells
<1>3. Left(left, right, c) \in 0 .. Len(left) + Len(right)
  BY <1>1 DEF Left
<1>4. c[1] <= Len(left) =>
        Below(c) \in Cells(left, right) /\ Left(left, right, Below(c)) < Left(left, right, c)
  <2> SUFFICES ASSUME c[1] <= Len(left)
               PROVE  Below(c) \in Cells(left, right) /\ Left(left, right, Below(c)) < Left(left, right, c)
    OBVIOUS
  <2>1. c[1] + 1 \in 1 .. Len(left) + 1 /\ Below(c)[1] = c[1] + 1 /\ Below(c)[2] = c[2]
    BY <1>1 DEF Below
  <2>2. Below(c) \in Cells(left, right)
    BY <1>1, <1>2, <2>1 DEF Below
  <2>3. Left(left, right, Below(c)) = (Len(left) - (c[1] + 1)) + (Len(right) - c[2]) + 2
    BY <2>1 DEF Left
  <2>4. Left(left, right, c) = (Len(left) - c[1]) + (Len(right) - c[2]) + 2
    BY DEF Left
  <2> QED
    BY <1>1, <2>2, <2>3, <2>4
<1>5. c[2] <= Len(right) =>
        Beside(c) \in Cells(left, right) /\ Left(left, right, Beside(c)) < Left(left, right, c)
  <2> SUFFICES ASSUME c[2] <= Len(right)
               PROVE  Beside(c) \in Cells(left, right) /\ Left(left, right, Beside(c)) < Left(left, right, c)
    OBVIOUS
  <2>1. c[2] + 1 \in 1 .. Len(right) + 1 /\ Beside(c)[1] = c[1] /\ Beside(c)[2] = c[2] + 1
    BY <1>1 DEF Beside
  <2>2. Beside(c) \in Cells(left, right)
    BY <1>1, <1>2, <2>1 DEF Beside
  <2>3. Left(left, right, Beside(c)) = (Len(left) - c[1]) + (Len(right) - (c[2] + 1)) + 2
    BY <2>1 DEF Left
  <2>4. Left(left, right, c) = (Len(left) - c[1]) + (Len(right) - c[2]) + 2
    BY DEF Left
  <2> QED
    BY <1>1, <2>2, <2>3, <2>4
<1>6. c[1] <= Len(left) /\ c[2] <= Len(right) =>
        Across(c) \in Cells(left, right) /\ Left(left, right, Across(c)) < Left(left, right, c)
  <2> SUFFICES ASSUME c[1] <= Len(left), c[2] <= Len(right)
               PROVE  Across(c) \in Cells(left, right) /\ Left(left, right, Across(c)) < Left(left, right, c)
    OBVIOUS
  <2>1. /\ c[1] + 1 \in 1 .. Len(left) + 1 /\ c[2] + 1 \in 1 .. Len(right) + 1
        /\ Across(c)[1] = c[1] + 1 /\ Across(c)[2] = c[2] + 1
    BY <1>1 DEF Across
  <2>2. Across(c) \in Cells(left, right)
    BY <1>1, <1>2, <2>1 DEF Across
  <2>3. Left(left, right, Across(c)) = (Len(left) - (c[1] + 1)) + (Len(right) - (c[2] + 1)) + 2
    BY <2>1 DEF Left
  <2>4. Left(left, right, c) = (Len(left) - c[1]) + (Len(right) - c[2]) + 2
    BY DEF Left
  <2> QED
    BY <1>1, <2>2, <2>3, <2>4
<1> QED
  BY <1>1, <1>3, <1>4, <1>5, <1>6

\* What holds of a cell when it holds of all where fewer lines are left holds
\* of every cell.
LEMMA CellInduction ==
  ASSUME NEW left, NEW right, Len(left) \in Nat, Len(right) \in Nat,
         NEW holds \in SUBSET Cells(left, right),
         \A c \in Cells(left, right) :
           (\A d \in Cells(left, right) : Left(left, right, d) < Left(left, right, c) => d \in holds)
             => c \in holds
  PROVE  holds = Cells(left, right)
<1> SUFFICES ASSUME Cells(left, right) \ holds # {} PROVE FALSE
  OBVIOUS
<1> DEFINE others == {Left(left, right, c) : c \in Cells(left, right) \ holds}
<1>1. ASSUME NEW c \in Cells(left, right) PROVE Left(left, right, c) \in Nat
  <2>1. Left(left, right, c) \in 0 .. Len(left) + Len(right)
    BY CellsOf
  <2> QED
    BY <2>1
<1>2. others \in SUBSET Nat /\ others # {}
  BY <1>1
<1>3. PICK c \in Cells(left, right) \ holds :
        \A d \in Cells(left, right) \ holds : Left(left, right, c) <= Left(left, right, d)
  <2>1. Min(others) \in others /\ \A i \in others : Min(others) <= i
    <3> HIDE DEF others
    <3> QED
      BY <1>2, LowestIsFree
  <2>2. PICK c \in Cells(left, right) \ holds : Min(others) = Left(left, right, c)
    BY <2>1
  <2>3. \A d \in Cells(left, right) \ holds : Left(left, right, d) \in others
    OBVIOUS
  <2> HIDE DEF others
  <2> QED
    BY <2>1, <2>2, <2>3
<1>4. \A d \in Cells(left, right) : Left(left, right, d) < Left(left, right, c) => d \in holds
  <2> SUFFICES ASSUME NEW d \in Cells(left, right) \ holds PROVE ~(Left(left, right, d) < Left(left, right, c))
    OBVIOUS
  <2> QED
    BY <1>1, <1>3
<1> QED
  BY <1>4

\* The tables of these entries, and the rules by which one is filled from another.
Tables(left, right, V) == [Cells(left, right) -> V]
Rules(left, right, V) == [Tables(left, right, V) \X Cells(left, right) -> V]

\* A rule needs no cells but those where fewer lines are left.
Backward(left, right, V, step) ==
  \A f, g \in Tables(left, right, V), d \in Cells(left, right) :
    (\A x \in Cells(left, right) : Left(left, right, x) < Left(left, right, d) => f[x] = g[x])
      => step[<<f, d>>] = step[<<g, d>>]

\* A table in which every cell holds what the rule says.
Follows(f, left, right, step) == \A d \in Cells(left, right) : f[d] = step[<<f, d>>]

\* Some table follows such a rule everywhere.
LEMMA TableExists ==
  ASSUME NEW left, NEW right, Len(left) \in Nat, Len(right) \in Nat, NEW V, V # {},
         NEW step \in Rules(left, right, V), Backward(left, right, V, step)
  PROVE  \E f \in Tables(left, right, V) : Follows(f, left, right, step)
<1> USE DEF Tables, Rules
<1> DEFINE tables == Tables(left, right, V)
           filled(k) == {d \in Cells(left, right) : Left(left, right, d) < k}
           holds == {k \in Nat : \E f \in tables : \A d \in filled(k) : f[d] = step[<<f, d>>]}
           next(f) == [d \in Cells(left, right) |-> step[<<f, d>>]]
<1>1. ASSUME NEW d \in Cells(left, right) PROVE Left(left, right, d) \in 0 .. Len(left) + Len(right)
  BY CellsOf
<1>2. \A f \in tables : next(f) \in tables
  OBVIOUS
<1>3. ASSUME NEW k \in Nat, NEW f \in tables, \A d \in filled(k) : f[d] = step[<<f, d>>]
      PROVE  \A d \in filled(k + 1) : next(f)[d] = step[<<next(f), d>>]
  <2> SUFFICES ASSUME NEW d \in filled(k + 1) PROVE next(f)[d] = step[<<next(f), d>>]
    OBVIOUS
  <2>1. d \in Cells(left, right) /\ Left(left, right, d) <= k
    BY <1>1
  <2>2. ASSUME NEW x \in Cells(left, right), Left(left, right, x) < Left(left, right, d) PROVE f[x] = next(f)[x]
    <3>1. x \in filled(k)
      BY <1>1, <2>1, <2>2
    <3> QED
      BY <1>3, <3>1
  <2>3. next(f)[d] = step[<<f, d>>]
    BY <2>1
  <2>4. next(f) \in tables
    BY <1>2
  <2> HIDE DEF next
  <2> QED
    BY <2>1, <2>2, <2>3, <2>4 DEF Backward
<1>4. holds = Nat
  <2>1. 0 \in holds
    <3>1. filled(0) = {}
      BY <1>1
    <3>2. \E f \in tables : TRUE
      <4>1. PICK v \in V : TRUE
        OBVIOUS
      <4>2. [d \in Cells(left, right) |-> v] \in tables
        OBVIOUS
      <4> QED
        BY <4>2
    <3> QED
      BY <3>1, <3>2
  <2>2. ASSUME NEW k \in holds PROVE k + 1 \in holds
    <3>1. k \in Nat /\ k + 1 \in Nat
      OBVIOUS
    <3>2. PICK f \in tables : \A d \in filled(k) : f[d] = step[<<f, d>>]
      OBVIOUS
    <3>3. next(f) \in tables /\ \A d \in filled(k + 1) : next(f)[d] = step[<<next(f), d>>]
      <4> HIDE DEF filled, next, tables
      <4> QED
        BY <1>2, <1>3, <3>1, <3>2
    <3> HIDE DEF next, filled, tables
    <3> QED
      BY <3>1, <3>3
  <2>3. holds \in SUBSET Nat
    OBVIOUS
  <2> HIDE DEF holds
  <2> QED
    BY <2>1, <2>2, <2>3, Induction
<1>5. Len(left) + Len(right) + 1 \in holds
  <2>1. Len(left) + Len(right) + 1 \in Nat
    OBVIOUS
  <2> HIDE DEF holds
  <2> QED
    BY <1>4, <2>1
<1>6. \A d \in Cells(left, right) : d \in filled(Len(left) + Len(right) + 1)
  <2> SUFFICES ASSUME NEW d \in Cells(left, right) PROVE Left(left, right, d) < Len(left) + Len(right) + 1
    OBVIOUS
  <2> QED
    BY <1>1
<1> QED
  BY <1>5, <1>6 DEF Follows

\* The cells of the table of common subsequences hold what the loops of diff_lines
\* put into them.
LEMMA CommonIs ==
  ASSUME NEW left, NEW right, Len(left) \in Nat, Len(right) \in Nat, NEW c \in Cells(left, right)
  PROVE  LET lcs == Common(left, right) IN
         /\ lcs[c] \in Nat
         /\ lcs[c] = IF c[1] > Len(left) \/ c[2] > Len(right) THEN 0
                     ELSE IF left[c[1]] = right[c[2]] THEN lcs[Across(c)] + 1
                     ELSE IF lcs[Below(c)] >= lcs[Beside(c)] THEN lcs[Below(c)] ELSE lcs[Beside(c)]
<1> DEFINE entry(f, d) ==
             IF d[1] > Len(left) \/ d[2] > Len(right) THEN 0
             ELSE IF left[d[1]] = right[d[2]] THEN f[Across(d)] + 1
             ELSE IF f[Below(d)] >= f[Beside(d)] THEN f[Below(d)] ELSE f[Beside(d)]
           lcs == CHOOSE f : f = [d \in Cells(left, right) |-> entry(f, d)]
           step == [x \in Tables(left, right, Nat) \X Cells(left, right) |-> entry(x[1], x[2])]
<1>1. Common(left, right) = lcs
  BY DEF Common
<1>2. ASSUME NEW f, NEW d \in Cells(left, right), ~(d[1] > Len(left) \/ d[2] > Len(right))
      PROVE  \A x \in {Across(d), Below(d), Beside(d)} :
               x \in Cells(left, right) /\ Left(left, right, x) < Left(left, right, d)
  <2>1. d[1] \in Nat /\ d[2] \in Nat
    BY CellsOf
  <2> QED
    <3>1. d[1] <= Len(left) /\ d[2] <= Len(right)
      BY <1>2, <2>1
    <3> QED
      BY <3>1, CellsOf
<1>3. ASSUME NEW f \in [Cells(left, right) -> Nat], NEW d \in Cells(left, right) PROVE entry(f, d) \in Nat
  BY <1>2
<1>4. ASSUME NEW f, NEW g, NEW d \in Cells(left, right),
             \A x \in Cells(left, right) : Left(left, right, x) < Left(left, right, d) => f[x] = g[x]
      PROVE  entry(f, d) = entry(g, d)
  <2>1. ~(d[1] > Len(left) \/ d[2] > Len(right)) =>
          f[Across(d)] = g[Across(d)] /\ f[Below(d)] = g[Below(d)] /\ f[Beside(d)] = g[Beside(d)]
    BY <1>2, <1>4
  <2> QED
    BY <2>1
<1> HIDE DEF entry
<1>5. step \in Rules(left, right, Nat)
  BY <1>3 DEF Tables, Rules
<1>6. \A f \in Tables(left, right, Nat), d \in Cells(left, right) : step[<<f, d>>] = entry(f, d)
  OBVIOUS
<1> HIDE DEF step
<1>7. PICK f \in Tables(left, right, Nat) : Follows(f, left, right, step)
  <2>1. Backward(left, right, Nat, step)
    BY <1>4, <1>6 DEF Backward
  <2>2. Nat # {}
    OBVIOUS
  <2> QED
    BY <1>5, <2>1, <2>2, TableExists
<1>8. f = [d \in Cells(left, right) |-> entry(f, d)]
  BY <1>6, <1>7 DEF Follows, Tables
<1>9. lcs = [d \in Cells(left, right) |-> entry(lcs, d)]
  BY <1>8
<1> HIDE DEF lcs
<1>10. \A d \in Cells(left, right) : lcs[d] = entry(lcs, d)
  BY <1>9
<1>11. lcs[c] = f[c]
  <2> DEFINE holds == {d \in Cells(left, right) : lcs[d] = f[d]}
  <2>1. ASSUME NEW d \in Cells(left, right),
               \A x \in Cells(left, right) : Left(left, right, x) < Left(left, right, d) => x \in holds
        PROVE  d \in holds
    <3>1. lcs[d] = entry(lcs, d) /\ f[d] = entry(f, d)
      BY <1>6, <1>7, <1>10 DEF Follows
    <3>2. entry(lcs, d) = entry(f, d)
      BY <1>4, <2>1
    <3> QED
      BY <3>1, <3>2
  <2>2. holds \in SUBSET Cells(left, right)
    OBVIOUS
  <2>3. holds = Cells(left, right)
    <3> HIDE DEF holds
    <3> QED
      BY <2>1, <2>2, CellInduction
  <2> QED
    BY <2>3
<1>12. f[c] \in Nat
  BY <1>7 DEF Tables
<1> QED
  BY <1>1, <1>10, <1>11, <1>12 DEF entry

\* The lines of a difference.
Edits(S) == [op : {"equal", "remove", "add"}, line : S]

\* The difference is read off a table too, which has what is printed from each
\* cell on.
LEMMA DiffIs ==
  ASSUME NEW S, NEW left \in Seq(S), NEW right \in Seq(S)
  PROVE  \E from \in Tables(left, right, Seq(Edits(S))) :
           /\ DiffLines(left, right) = from[<<1, 1>>]
           /\ \A c \in Cells(left, right) :
                LET lcs == Common(left, right) IN
                from[c] =
                  IF c[1] > Len(left) /\ c[2] > Len(right) THEN <<>>
                  ELSE IF c[1] > Len(left) THEN Mark("add", right[c[2]]) \o from[Beside(c)]
                  ELSE IF c[2] > Len(right) THEN Mark("remove", left[c[1]]) \o from[Below(c)]
                  ELSE IF left[c[1]] = right[c[2]] THEN Mark("equal", left[c[1]]) \o from[Across(c)]
                  ELSE IF lcs[Below(c)] >= lcs[Beside(c)] THEN Mark("remove", left[c[1]]) \o from[Below(c)]
                  ELSE Mark("add", right[c[2]]) \o from[Beside(c)]
<1> DEFINE lcs == Common(left, right)
           entry(f, d) ==
             IF d[1] > Len(left) /\ d[2] > Len(right) THEN <<>>
             ELSE IF d[1] > Len(left) THEN Mark("add", right[d[2]]) \o f[Beside(d)]
             ELSE IF d[2] > Len(right) THEN Mark("remove", left[d[1]]) \o f[Below(d)]
             ELSE IF left[d[1]] = right[d[2]] THEN Mark("equal", left[d[1]]) \o f[Across(d)]
             ELSE IF lcs[Below(d)] >= lcs[Beside(d)] THEN Mark("remove", left[d[1]]) \o f[Below(d)]
             ELSE Mark("add", right[d[2]]) \o f[Beside(d)]
           from == CHOOSE f : f = [d \in Cells(left, right) |-> entry(f, d)]
           V == Seq(Edits(S))
           step == [x \in Tables(left, right, V) \X Cells(left, right) |-> entry(x[1], x[2])]
<1>1. DiffLines(left, right) = from[<<1, 1>>]
  BY DEF DiffLines
<1>2. Len(left) \in Nat /\ Len(right) \in Nat
  OBVIOUS
<1>3. ASSUME NEW d \in Cells(left, right)
      PROVE  /\ d[1] \in 1 .. Len(left) + 1 /\ d[2] \in 1 .. Len(right) + 1
             /\ ~(d[1] > Len(left)) =>
                  Below(d) \in Cells(left, right) /\ Left(left, right, Below(d)) < Left(left, right, d)
             /\ ~(d[2] > Len(right)) =>
                  Beside(d) \in Cells(left, right) /\ Left(left, right, Beside(d)) < Left(left, right, d)
             /\ ~(d[1] > Len(left)) /\ ~(d[2] > Len(right)) =>
                  Across(d) \in Cells(left, right) /\ Left(left, right, Across(d)) < Left(left, right, d)
  <2>1. d[1] \in 1 .. Len(left) + 1 /\ d[2] \in 1 .. Len(right) + 1
    BY <1>2, CellsOf
  <2>2. (~(d[1] > Len(left)) => d[1] <= Len(left)) /\ (~(d[2] > Len(right)) => d[2] <= Len(right))
    BY <1>2, <2>1
  <2> QED
    BY <1>2, <2>1, <2>2, CellsOf
<1>4. ASSUME NEW f \in Tables(left, right, V), NEW d \in Cells(left, right) PROVE entry(f, d) \in V
  <2>1. /\ ~(d[1] > Len(left)) => left[d[1]] \in S
        /\ ~(d[2] > Len(right)) => right[d[2]] \in S
    BY <1>2, <1>3
  <2>2. \A op \in {"equal", "remove", "add"}, line \in S, t \in V : Mark(op, line) \o t \in V
    BY DEF Mark, Edits
  <2>3. <<>> \in V
    OBVIOUS
  <2> HIDE DEF V, lcs
  <2> QED
    BY <1>3, <2>1, <2>2, <2>3 DEF Tables
<1>5. ASSUME NEW f, NEW g, NEW d \in Cells(left, right),
             \A x \in Cells(left, right) : Left(left, right, x) < Left(left, right, d) => f[x] = g[x]
      PROVE  entry(f, d) = entry(g, d)
  <2>1. /\ ~(d[1] > Len(left)) => f[Below(d)] = g[Below(d)]
        /\ ~(d[2] > Len(right)) => f[Beside(d)] = g[Beside(d)]
        /\ ~(d[1] > Len(left)) /\ ~(d[2] > Len(right)) => f[Across(d)] = g[Across(d)]
    BY <1>3, <1>5
  <2> HIDE DEF lcs
  <2> QED
    BY <2>1
<1> HIDE DEF entry, V
<1>6. step \in Rules(left, right, V)
  BY <1>4 DEF Tables, Rules
<1>7. \A f \in Tables(left, right, V), d \in Cells(left, right) : step[<<f, d>>] = entry(f, d)
  OBVIOUS
<1> HIDE DEF step
<1>8. PICK f \in Tables(left, right, V) : Follows(f, left, right, step)
  <2>1. Backward(left, right, V, step)
    BY <1>5, <1>7 DEF Backward
  <2>2. <<>> \in V
    BY DEF V
  <2>3. V # {}
    BY <2>2
  <2> QED
    BY <1>2, <1>6, <2>1, <2>3, TableExists
<1>9. f = [d \in Cells(left, right) |-> entry(f, d)]
  BY <1>7, <1>8 DEF Follows, Tables
<1>10. from = [d \in Cells(left, right) |-> entry(from, d)]
  BY <1>9
<1> HIDE DEF from
<1>11. \A d \in Cells(left, right) : from[d] = entry(from, d)
  BY <1>10
<1>12. from \in Tables(left, right, V)
  <2> DEFINE holds == {d \in Cells(left, right) : from[d] = f[d]}
  <2>1. ASSUME NEW d \in Cells(left, right),
               \A x \in Cells(left, right) : Left(left, right, x) < Left(left, right, d) => x \in holds
        PROVE  d \in holds
    <3>1. from[d] = entry(from, d) /\ f[d] = entry(f, d)
      BY <1>7, <1>8, <1>11 DEF Follows
    <3>2. entry(from, d) = entry(f, d)
      BY <1>5, <2>1
    <3> QED
      BY <3>1, <3>2
  <2>2. holds \in SUBSET Cells(left, right)
    OBVIOUS
  <2>3. holds = Cells(left, right)
    <3> HIDE DEF holds
    <3> QED
      BY <1>2, <2>1, <2>2, CellInduction
  <2>4. \A d \in Cells(left, right) : from[d] \in V
    BY <1>8, <2>3 DEF Tables
  <2> QED
    BY <1>10, <2>4 DEF Tables
<1> QED
  BY <1>1, <1>11, <1>12 DEF entry, V

\* Numbers moved on by one are as many as before.
LEMMA MovedOn ==
  ASSUME NEW A \in SUBSET Nat, IsFiniteSet(A)
  PROVE  /\ IsFiniteSet({a + 1 : a \in A})
         /\ Cardinality({a + 1 : a \in A}) = Cardinality(A)
<1> DEFINE B == {a + 1 : a \in A}
           move == [a \in A |-> a + 1]
<1>1. move \in Bijection(A, B)
  <2>1. move \in [A -> B]
    OBVIOUS
  <2>2. \A x, y \in A : move[x] = move[y] => x = y
    OBVIOUS
  <2>3. \A y \in B : \E x \in A : move[x] = y
    OBVIOUS
  <2> HIDE DEF move, B
  <2> QED
    BY <2>1, <2>2, <2>3 DEF Bijection, Injection, Surjection, IsInjective
<1> HIDE DEF move, B
<1>2. IsFiniteSet(B) /\ Cardinality(B) = Cardinality(A)
  BY <1>1, FS_Bijection DEF ExistsBijection
<1> QED
  BY <1>2 DEF B

\* The marked lines of a difference can be counted, up to any of its places.
Countable(diff, ops) ==
  /\ Len(diff) \in Nat
  /\ Marked(diff, ops) \subseteq 1 .. Len(diff)
  /\ IsFiniteSet(Marked(diff, ops)) /\ Cardinality(Marked(diff, ops)) \in Nat
  /\ \A k \in Nat : /\ IsFiniteSet(Marked(diff, ops) \cap 1 .. k)
                    /\ Cardinality(Marked(diff, ops) \cap 1 .. k) \in Nat

\* They can in every sequence of lines.
LEMMA MarkedOf == ASSUME NEW E, NEW diff \in Seq(E), NEW ops PROVE Countable(diff, ops)
<1>1. Marked(diff, ops) \subseteq 1 .. Len(diff)
  BY DEF Marked
<1>2. IsFiniteSet(Marked(diff, ops))
  <2>1. IsFiniteSet(1 .. Len(diff))
    BY FS_Interval
  <2> QED
    BY <1>1, <2>1, FS_Subset
<1>3. ASSUME NEW k \in Nat
      PROVE  IsFiniteSet(Marked(diff, ops) \cap 1 .. k) /\ Cardinality(Marked(diff, ops) \cap 1 .. k) \in Nat
  <2>1. IsFiniteSet(Marked(diff, ops) \cap 1 .. k)
    BY <1>2, FS_Intersection
  <2> QED
    BY <2>1, FS_CardinalityType
<1>4. Len(diff) \in Nat /\ Cardinality(Marked(diff, ops)) \in Nat
  BY <1>2, FS_CardinalityType
<1> QED
  BY <1>1, <1>2, <1>3, <1>4 DEF Countable

\* What one more line in front does to the marked lines of a difference.
Prepended(d, diff, ops) ==
  LET marked == Marked(diff, ops)
      more == Marked(<<d>> \o diff, ops)
      one == IF d.op \in ops THEN 1 ELSE 0
  IN /\ more = (IF d.op \in ops THEN {1} ELSE {}) \cup {k + 1 : k \in marked}
     /\ Cardinality(more) = Cardinality(marked) + one
     /\ \A k \in marked :
          /\ (<<d>> \o diff)[k + 1] = diff[k]
          /\ Cardinality(more \cap 1 .. k + 1) = Cardinality(marked \cap 1 .. k) + one
     /\ d.op \in ops => (<<d>> \o diff)[1] = d /\ Cardinality(more \cap 1 .. 1) = 1

\* It does in every sequence of lines.
LEMMA MarkedPrepend ==
  ASSUME NEW E, NEW diff \in Seq(E), NEW ops, NEW d \in E
  PROVE  Prepended(d, diff, ops)
<1> DEFINE marked == Marked(diff, ops)
           more == Marked(<<d>> \o diff, ops)
           one == IF d.op \in ops THEN 1 ELSE 0
           new == IF d.op \in ops THEN {1} ELSE {}
<1>1. /\ Len(<<d>> \o diff) = Len(diff) + 1 /\ DOMAIN (<<d>> \o diff) = 1 .. Len(diff) + 1
      /\ DOMAIN diff = 1 .. Len(diff) /\ Len(diff) \in Nat
      /\ (<<d>> \o diff)[1] = d /\ \A k \in 1 .. Len(diff) : (<<d>> \o diff)[k + 1] = diff[k]
  OBVIOUS
<1>2. marked \subseteq 1 .. Len(diff) /\ IsFiniteSet(marked) /\ \A k \in Nat : IsFiniteSet(marked \cap 1 .. k)
  BY MarkedOf DEF Countable
<1>3. more = new \cup {k + 1 : k \in marked}
  <2>1. ASSUME NEW k \in more PROVE k \in new \cup {x + 1 : x \in marked}
    <3>1. k \in 1 .. Len(diff) + 1 /\ (<<d>> \o diff)[k].op \in ops
      BY <1>1 DEF Marked
    <3>2. CASE k = 1
      BY <1>1, <3>1, <3>2
    <3>3. CASE k # 1
      <4>1. k - 1 \in 1 .. Len(diff) /\ (k - 1) + 1 = k
        BY <3>1, <3>3
      <4>2. k - 1 \in marked
        BY <1>1, <3>1, <4>1 DEF Marked
      <4> QED
        BY <4>1, <4>2
    <3> QED
      BY <3>2, <3>3
  <2>2. new \subseteq more
    BY <1>1 DEF Marked
  <2>3. ASSUME NEW k \in marked PROVE k + 1 \in more
    BY <1>1 DEF Marked
  <2> HIDE DEF new, more, marked
  <2> QED
    BY <2>1, <2>2, <2>3
<1>4. ASSUME NEW A \in SUBSET marked PROVE Cardinality(new \cup {k + 1 : k \in A}) = Cardinality(A) + one
  <2> DEFINE B == {k + 1 : k \in A}
  <2>1. A \subseteq Nat /\ IsFiniteSet(A)
    BY <1>2, FS_Subset
  <2>2. IsFiniteSet(B) /\ Cardinality(B) = Cardinality(A) /\ Cardinality(A) \in Nat
    BY <2>1, MovedOn, FS_CardinalityType
  <2>3. 1 \notin B
    BY <1>2
  <2>4. ASSUME d.op \in ops PROVE Cardinality(new \cup B) = Cardinality(A) + one
    <3> HIDE DEF B
    <3>1. new \cup B = B \cup {1} /\ one = 1
      BY <2>4
    <3> HIDE DEF new, one
    <3> QED
      BY <2>2, <2>3, <3>1, FS_AddElement
  <2>5. ASSUME d.op \notin ops PROVE Cardinality(new \cup B) = Cardinality(A) + one
    <3> HIDE DEF B
    <3>1. new \cup B = B /\ one = 0
      BY <2>5
    <3>2. Cardinality(B) = Cardinality(A) /\ Cardinality(A) \in Nat
      BY <2>2
    <3> HIDE DEF new, one
    <3>3. Cardinality(new \cup B) = Cardinality(B)
      BY <3>1, Zenon
    <3> QED
      BY <3>1, <3>2, <3>3
  <2> QED
    BY <2>4, <2>5
<1>5. Cardinality(more) = Cardinality(marked) + one
  <2> HIDE DEF new, more, marked, one
  <2> QED
    BY <1>3, <1>4
<1>6. ASSUME NEW k \in marked
      PROVE  Cardinality(more \cap 1 .. k + 1) = Cardinality(marked \cap 1 .. k) + one
  <2>1. k \in Nat /\ \A x \in marked : x \in Nat /\ x >= 1
    BY <1>2
  <2>2. more \cap 1 .. k + 1 = new \cup {x + 1 : x \in marked \cap 1 .. k}
    <3>1. new \subseteq 1 .. k + 1
      BY <2>1
    <3>2. \A x \in marked : x + 1 \in 1 .. k + 1 <=> x \in 1 .. k
      BY <2>1
    <3> HIDE DEF new, more, marked
    <3> QED
      BY <1>3, <3>1, <3>2
  <2> HIDE DEF new, more, marked, one
  <2> QED
    BY <1>4, <2>2
<1>7. ASSUME d.op \in ops PROVE Cardinality(more \cap 1 .. 1) = 1
  <2>1. more \cap 1 .. 1 = {1}
    <3>1. \A k \in marked : k + 1 \notin 1 .. 1
      BY <1>2
    <3> QED
      BY <1>3, <1>7, <3>1
  <2> QED
    BY <2>1, FS_Singleton
<1> QED
  BY <1>1, <1>2, <1>3, <1>5, <1>6, <1>7 DEF Prepended

\* A difference ends with these lines of a text, in order, under these marks.
Ending(diff, ops, text, i) ==
  /\ Cardinality(Marked(diff, ops)) = Len(text) + 1 - i
  /\ \A k \in Marked(diff, ops) :
       diff[k].line = text[(i - 1) + Cardinality(Marked(diff, ops) \cap 1 .. k)]

\* Nothing printed ends with nothing of a text.
LEMMA EndingEmpty == ASSUME NEW text, Len(text) \in Nat, NEW ops PROVE Ending(<<>>, ops, text, Len(text) + 1)
<1>1. Marked(<<>>, ops) = {}
  BY DEF Marked
<1> QED
  BY <1>1, FS_EmptySet DEF Ending

\* A line under another mark changes nothing for these.
LEMMA EndingKept ==
  ASSUME NEW E, NEW diff \in Seq(E), NEW ops, NEW d \in E, d.op \notin ops,
         NEW text, Len(text) \in Nat, NEW i \in Nat, Ending(diff, ops, text, i)
  PROVE  Ending(<<d>> \o diff, ops, text, i)
<1> DEFINE marked == Marked(diff, ops)
           more == Marked(<<d>> \o diff, ops)
<1> DEFINE place(k) == Cardinality(marked \cap 1 .. k)
           later(k) == Cardinality(more \cap 1 .. k)
<1>1. /\ Cardinality(marked) \in Nat /\ \A k \in marked : k \in Nat /\ place(k) \in Nat
  <2>1. Countable(diff, ops)
    BY MarkedOf
  <2>2. \A k \in marked : k \in Nat
    BY <2>1 DEF Countable
  <2> QED
    BY <2>1, <2>2 DEF Countable
<1>2. Prepended(d, diff, ops)
  BY MarkedPrepend
<1>3. more = {k + 1 : k \in marked} /\ Cardinality(more) = Cardinality(marked)
  <2>1. more = {} \cup {k + 1 : k \in marked} /\ Cardinality(more) = Cardinality(marked) + 0
    BY <1>2, Zenon DEF Prepended
  <2> QED
    BY <1>1, <2>1
<1>4. \A k \in marked : (<<d>> \o diff)[k + 1] = diff[k] /\ later(k + 1) = place(k)
  <2> SUFFICES ASSUME NEW k \in marked PROVE (<<d>> \o diff)[k + 1] = diff[k] /\ later(k + 1) = place(k)
    OBVIOUS
  <2>1. (<<d>> \o diff)[k + 1] = diff[k] /\ later(k + 1) = place(k) + 0
    BY <1>2, Zenon DEF Prepended
  <2>2. place(k) \in Nat
    BY <1>1
  <2>3. k \in marked => place(k) + 0 = place(k)
    BY <2>2
  <2> QED
    BY <2>1, <2>3, Zenon
<1>5. \A k \in marked : diff[k].line = text[(i - 1) + place(k)]
  BY DEF Ending
<1>6. \A k \in more : (<<d>> \o diff)[k].line = text[(i - 1) + later(k)]
  <2> SUFFICES ASSUME NEW x \in more PROVE (<<d>> \o diff)[x].line = text[(i - 1) + later(x)]
    OBVIOUS
  <2>1. PICK k \in marked : x = k + 1
    <3> HIDE DEF more, marked
    <3> QED
      BY <1>3
  <2>2. /\ (<<d>> \o diff)[k + 1] = diff[k] /\ later(k + 1) = place(k)
        /\ diff[k].line = text[(i - 1) + place(k)]
    BY <1>4, <1>5, <2>1, Zenon
  <2> HIDE DEF place, later, marked, more
  <2> QED
    BY <2>1, <2>2, Zenon
<1> QED
  BY <1>3, <1>6 DEF Ending

\* A line of the text under one of the marks is the one before the ending.
LEMMA EndingTaken ==
  ASSUME NEW E, NEW diff \in Seq(E), NEW ops, NEW d \in E, d.op \in ops,
         NEW text, NEW i \in Nat, i >= 1, i <= Len(text), Len(text) \in Nat, d.line = text[i],
         Ending(diff, ops, text, i + 1)
  PROVE  Ending(<<d>> \o diff, ops, text, i)
<1> DEFINE marked == Marked(diff, ops)
           more == Marked(<<d>> \o diff, ops)
<1> DEFINE place(k) == Cardinality(marked \cap 1 .. k)
           later(k) == Cardinality(more \cap 1 .. k)
<1>1. /\ Cardinality(marked) \in Nat /\ \A k \in marked : k \in Nat /\ place(k) \in Nat
  <2>1. Countable(diff, ops)
    BY MarkedOf
  <2>2. \A k \in marked : k \in Nat
    BY <2>1 DEF Countable
  <2> QED
    BY <2>1, <2>2 DEF Countable
<1>2. Prepended(d, diff, ops)
  BY MarkedPrepend
<1>3. more = {1} \cup {k + 1 : k \in marked} /\ Cardinality(more) = Cardinality(marked) + 1
  BY <1>1, <1>2 DEF Prepended
<1>4. \A k \in marked : (<<d>> \o diff)[k + 1] = diff[k] /\ later(k + 1) = place(k) + 1
  BY <1>1, <1>2 DEF Prepended
<1>5. (<<d>> \o diff)[1] = d /\ later(1) = 1
  BY <1>2 DEF Prepended
<1>6. Cardinality(marked) = Len(text) + 1 - (i + 1) /\ \A k \in marked : diff[k].line = text[((i + 1) - 1) + place(k)]
  BY Zenon DEF Ending
<1>7. \A k \in more : (<<d>> \o diff)[k].line = text[(i - 1) + later(k)]
  <2> HIDE DEF place, later, marked, more
  <2>1. (<<d>> \o diff)[1].line = text[(i - 1) + later(1)]
    BY <1>5
  <2>2. ASSUME NEW k \in marked PROVE (<<d>> \o diff)[k + 1].line = text[(i - 1) + later(k + 1)]
    <3>1. (i - 1) + later(k + 1) = ((i + 1) - 1) + place(k)
      BY <1>1, <1>4
    <3> QED
      BY <1>4, <1>6, <3>1
  <2> QED
    BY <1>3, <2>1, <2>2
<1>8. Cardinality(more) = Len(text) + 1 - i
  BY <1>1, <1>3, <1>6
<1> QED
  BY <1>7, <1>8 DEF Ending

\* A difference that ends with the whole of a text rebuilds it.
LEMMA EndingWhole ==
  ASSUME NEW E, NEW diff \in Seq(E), NEW ops, NEW text, Len(text) \in Nat, Ending(diff, ops, text, 1)
  PROVE  Rebuilds(diff, ops, text)
<1> DEFINE marked == Marked(diff, ops)
           place(k) == Cardinality(marked \cap 1 .. k)
<1>1. marked \cap 1 .. Len(diff) = marked
  BY MarkedOf DEF Countable
<1>2. Cardinality(marked) \in Nat /\ \A k \in marked : place(k) \in Nat
  <2>1. Countable(diff, ops)
    BY MarkedOf
  <2>2. \A k \in marked : k \in Nat
    BY <2>1 DEF Countable
  <2> QED
    BY <2>1, <2>2 DEF Countable
<1>3. Cardinality(marked) = Len(text) + 1 - 1 /\ \A k \in marked : diff[k].line = text[(1 - 1) + place(k)]
  BY DEF Ending
<1>4. Cardinality(marked) = Len(text) /\ \A k \in marked : diff[k].line = text[place(k)]
  <2> HIDE DEF marked, place
  <2>1. \A k \in marked : (1 - 1) + place(k) = place(k)
    BY <1>2
  <2> QED
    BY <1>3, <2>1
<1> QED
  BY <1>1, <1>4 DEF Rebuilds

\* What is printed of both texts from these places on, and how much they share.
Printed(diff, left, i, right, j, n) ==
  /\ Ending(diff, {"equal", "remove"}, left, i)
  /\ Ending(diff, {"equal", "add"}, right, j)
  /\ Cardinality(Marked(diff, {"equal"})) = n

\* A line of the first text is removed.
LEMMA PrintRemove ==
  ASSUME NEW S, NEW left \in Seq(S), NEW right, Len(right) \in Nat, NEW diff \in Seq(Edits(S)),
         NEW i \in 1 .. Len(left), NEW j \in Nat, NEW n \in Nat,
         Printed(diff, left, i + 1, right, j, n)
  PROVE  Printed(Mark("remove", left[i]) \o diff, left, i, right, j, n)
<1> DEFINE E == Edits(S)
           e == [op |-> "remove", line |-> left[i]]
<1>1. /\ e \in E /\ e.op \in {"equal", "remove"} /\ e.op \notin {"equal", "add"} /\ e.op \notin {"equal"}
      /\ e.line = left[i] /\ diff \in Seq(E)
  BY DEF Edits
<1>2. Mark("remove", left[i]) = <<e>>
  BY DEF Mark
<1>3. /\ Ending(diff, {"equal", "remove"}, left, i + 1)
      /\ Ending(diff, {"equal", "add"}, right, j)
      /\ Cardinality(Marked(diff, {"equal"})) = n
  BY DEF Printed
<1>4. Len(left) \in Nat /\ i \in Nat /\ i >= 1 /\ i <= Len(left)
  OBVIOUS
<1> HIDE DEF E, e
<1>5. Ending(<<e>> \o diff, {"equal", "remove"}, left, i)
  BY <1>1, <1>3, <1>4, EndingTaken
<1>6. Ending(<<e>> \o diff, {"equal", "add"}, right, j)
  BY <1>1, <1>3, EndingKept
<1>7. Cardinality(Marked(<<e>> \o diff, {"equal"})) = n
  <2>1. Prepended(e, diff, {"equal"})
    BY <1>1, MarkedPrepend
  <2>2. Cardinality(Marked(<<e>> \o diff, {"equal"})) = Cardinality(Marked(diff, {"equal"})) + 0
    BY <1>1, <2>1, Zenon DEF Prepended
  <2> QED
    BY <1>3, <2>2
<1> QED
  BY <1>2, <1>5, <1>6, <1>7, Zenon DEF Printed

\* A line of the second text is added.
LEMMA PrintAdd ==
  ASSUME NEW S, NEW left, Len(left) \in Nat, NEW right \in Seq(S), NEW diff \in Seq(Edits(S)),
         NEW i \in Nat, NEW j \in 1 .. Len(right), NEW n \in Nat,
         Printed(diff, left, i, right, j + 1, n)
  PROVE  Printed(Mark("add", right[j]) \o diff, left, i, right, j, n)
<1> DEFINE E == Edits(S)
           e == [op |-> "add", line |-> right[j]]
<1>1. /\ e \in E /\ e.op \in {"equal", "add"} /\ e.op \notin {"equal", "remove"} /\ e.op \notin {"equal"}
      /\ e.line = right[j] /\ diff \in Seq(E)
  BY DEF Edits
<1>2. Mark("add", right[j]) = <<e>>
  BY DEF Mark
<1>3. /\ Ending(diff, {"equal", "remove"}, left, i)
      /\ Ending(diff, {"equal", "add"}, right, j + 1)
      /\ Cardinality(Marked(diff, {"equal"})) = n
  BY DEF Printed
<1>4. Len(right) \in Nat /\ j \in Nat /\ j >= 1 /\ j <= Len(right)
  OBVIOUS
<1> HIDE DEF E, e
<1>5. Ending(<<e>> \o diff, {"equal", "remove"}, left, i)
  BY <1>1, <1>3, EndingKept
<1>6. Ending(<<e>> \o diff, {"equal", "add"}, right, j)
  BY <1>1, <1>3, <1>4, EndingTaken
<1>7. Cardinality(Marked(<<e>> \o diff, {"equal"})) = n
  <2>1. Prepended(e, diff, {"equal"})
    BY <1>1, MarkedPrepend
  <2>2. Cardinality(Marked(<<e>> \o diff, {"equal"})) = Cardinality(Marked(diff, {"equal"})) + 0
    BY <1>1, <2>1, Zenon DEF Prepended
  <2> QED
    BY <1>3, <2>2
<1> QED
  BY <1>2, <1>5, <1>6, <1>7, Zenon DEF Printed

\* A line of both texts is kept.
LEMMA PrintEqual ==
  ASSUME NEW S, NEW left \in Seq(S), NEW right \in Seq(S), NEW diff \in Seq(Edits(S)),
         NEW i \in 1 .. Len(left), NEW j \in 1 .. Len(right), NEW n \in Nat, left[i] = right[j],
         Printed(diff, left, i + 1, right, j + 1, n)
  PROVE  Printed(Mark("equal", left[i]) \o diff, left, i, right, j, n + 1)
<1> DEFINE E == Edits(S)
           e == [op |-> "equal", line |-> left[i]]
<1>1. /\ e \in E /\ e.op \in {"equal", "add"} /\ e.op \in {"equal", "remove"} /\ e.op \in {"equal"}
      /\ e.line = left[i] /\ e.line = right[j] /\ diff \in Seq(E)
  BY DEF Edits
<1>2. Mark("equal", left[i]) = <<e>>
  BY DEF Mark
<1>3. /\ Ending(diff, {"equal", "remove"}, left, i + 1)
      /\ Ending(diff, {"equal", "add"}, right, j + 1)
      /\ Cardinality(Marked(diff, {"equal"})) = n
  BY DEF Printed
<1>4. /\ Len(right) \in Nat /\ j \in Nat /\ j >= 1 /\ j <= Len(right)
      /\ Len(left) \in Nat /\ i \in Nat /\ i >= 1 /\ i <= Len(left)
  OBVIOUS
<1> HIDE DEF E, e
<1>5. Ending(<<e>> \o diff, {"equal", "remove"}, left, i)
  BY <1>1, <1>3, <1>4, EndingTaken
<1>6. Ending(<<e>> \o diff, {"equal", "add"}, right, j)
  BY <1>1, <1>3, <1>4, EndingTaken
<1>7. Cardinality(Marked(<<e>> \o diff, {"equal"})) = n + 1
  <2>1. Prepended(e, diff, {"equal"})
    BY <1>1, MarkedPrepend
  <2>2. Cardinality(Marked(<<e>> \o diff, {"equal"})) = Cardinality(Marked(diff, {"equal"})) + 1
    BY <1>1, <2>1, Zenon DEF Prepended
  <2> QED
    BY <1>3, <2>2
<1> QED
  BY <1>2, <1>5, <1>6, <1>7, Zenon DEF Printed

\* What is printed from a cell on, of both texts and of what they share.
LEMMA DiffEnds ==
  ASSUME NEW S, NEW left \in Seq(S), NEW right \in Seq(S),
         NEW from \in Tables(left, right, Seq(Edits(S))),
         NEW c \in Cells(left, right),
         LET lcs == Common(left, right) IN
         \A d \in Cells(left, right) :
                from[d] =
                  IF d[1] > Len(left) /\ d[2] > Len(right) THEN <<>>
                  ELSE IF d[1] > Len(left) THEN Mark("add", right[d[2]]) \o from[Beside(d)]
                  ELSE IF d[2] > Len(right) THEN Mark("remove", left[d[1]]) \o from[Below(d)]
                  ELSE IF left[d[1]] = right[d[2]] THEN Mark("equal", left[d[1]]) \o from[Across(d)]
                  ELSE IF lcs[Below(d)] >= lcs[Beside(d)] THEN Mark("remove", left[d[1]]) \o from[Below(d)]
                  ELSE Mark("add", right[d[2]]) \o from[Beside(d)]
  PROVE  Printed(from[c], left, c[1], right, c[2], Common(left, right)[c])
<1> DEFINE lcs == Common(left, right)
           printed(d) == Printed(from[d], left, d[1], right, d[2], lcs[d])
           holds == {d \in Cells(left, right) : printed(d)}
<1>1. Len(left) \in Nat /\ Len(right) \in Nat
  OBVIOUS
<1>2. \A d \in Cells(left, right) : from[d] \in Seq(Edits(S))
  BY DEF Tables
<1>3. ASSUME NEW d \in Cells(left, right),
             \A x \in Cells(left, right) : Left(left, right, x) < Left(left, right, d) => printed(x)
      PROVE  printed(d)
  <2> DEFINE i == d[1]
             j == d[2]
  <2>1. i \in 1 .. Len(left) + 1 /\ j \in 1 .. Len(right) + 1
    BY <1>1, CellsOf
  <2>2. /\ Below(d)[1] = i + 1 /\ Below(d)[2] = j /\ Beside(d)[1] = i /\ Beside(d)[2] = j + 1
        /\ Across(d)[1] = i + 1 /\ Across(d)[2] = j + 1
    BY DEF Below, Beside, Across
  <2>3. lcs[d] = IF i > Len(left) \/ j > Len(right) THEN 0
                 ELSE IF left[i] = right[j] THEN lcs[Across(d)] + 1
                 ELSE IF lcs[Below(d)] >= lcs[Beside(d)] THEN lcs[Below(d)] ELSE lcs[Beside(d)]
    BY <1>1, CommonIs
  <2>4. from[d] =
          IF i > Len(left) /\ j > Len(right) THEN <<>>
          ELSE IF i > Len(left) THEN Mark("add", right[j]) \o from[Beside(d)]
          ELSE IF j > Len(right) THEN Mark("remove", left[i]) \o from[Below(d)]
          ELSE IF left[i] = right[j] THEN Mark("equal", left[i]) \o from[Across(d)]
          ELSE IF lcs[Below(d)] >= lcs[Beside(d)] THEN Mark("remove", left[i]) \o from[Below(d)]
          ELSE Mark("add", right[j]) \o from[Beside(d)]
    OBVIOUS
  <2> HIDE DEF lcs, i, j
  <2>5. CASE i > Len(left) /\ j > Len(right)
    <3>1. from[d] = <<>> /\ lcs[d] = 0 /\ i = Len(left) + 1 /\ j = Len(right) + 1
      BY <1>1, <2>1, <2>3, <2>4, <2>5
    <3>2. Marked(<<>>, {"equal"}) = {}
      BY DEF Marked
    <3>3. Ending(<<>>, {"equal", "remove"}, left, i) /\ Ending(<<>>, {"equal", "add"}, right, j)
      BY <1>1, <3>1, EndingEmpty
    <3>4. Cardinality(Marked(<<>>, {"equal"})) = 0
      BY <3>2, FS_EmptySet
    <3> QED
      BY <3>1, <3>3, <3>4, Zenon DEF Printed, i, j
  <2>6. ASSUME i <= Len(left), from[d] = Mark("remove", left[i]) \o from[Below(d)], lcs[d] = lcs[Below(d)]
        PROVE  printed(d)
    <3>1. Below(d) \in Cells(left, right) /\ printed(Below(d)) /\ lcs[Below(d)] \in Nat
      BY <1>1, <1>3, <2>6, CellsOf, CommonIs DEF i, lcs
    <3>2. Printed(from[Below(d)], left, i + 1, right, j, lcs[d]) /\ from[Below(d)] \in Seq(Edits(S))
      BY <1>2, <2>2, <2>6, <3>1
    <3>3. i \in 1 .. Len(left) /\ j \in Nat /\ lcs[d] \in Nat
      BY <1>1, <2>1, <2>6, <3>1
    <3>4. Printed(from[d], left, i, right, j, lcs[d])
      BY <1>1, <2>6, <3>2, <3>3, PrintRemove
    <3> QED
      BY <3>4 DEF i, j
  <2>7. ASSUME j <= Len(right), from[d] = Mark("add", right[j]) \o from[Beside(d)], lcs[d] = lcs[Beside(d)]
        PROVE  printed(d)
    <3>1. Beside(d) \in Cells(left, right) /\ printed(Beside(d)) /\ lcs[Beside(d)] \in Nat
      BY <1>1, <1>3, <2>7, CellsOf, CommonIs DEF j, lcs
    <3>2. Printed(from[Beside(d)], left, i, right, j + 1, lcs[d]) /\ from[Beside(d)] \in Seq(Edits(S))
      BY <1>2, <2>2, <2>7, <3>1
    <3>3. i \in Nat /\ j \in 1 .. Len(right) /\ lcs[d] \in Nat
      BY <1>1, <2>1, <2>7, <3>1
    <3>4. Printed(from[d], left, i, right, j, lcs[d])
      BY <1>1, <2>7, <3>2, <3>3, PrintAdd
    <3> QED
      BY <3>4 DEF i, j
  <2>8. ASSUME i <= Len(left), j <= Len(right), left[i] = right[j]
        PROVE  printed(d)
    <3>1. Across(d) \in Cells(left, right) /\ printed(Across(d)) /\ lcs[Across(d)] \in Nat
      BY <1>1, <1>3, <2>8, CellsOf, CommonIs DEF i, j, lcs
    <3>2. Printed(from[Across(d)], left, i + 1, right, j + 1, lcs[Across(d)]) /\ from[Across(d)] \in Seq(Edits(S))
      BY <1>2, <2>2, <3>1
    <3>3. i \in 1 .. Len(left) /\ j \in 1 .. Len(right)
      BY <1>1, <2>1, <2>8
    <3>4. ~(i > Len(left)) /\ ~(j > Len(right))
      BY <1>1, <3>3
    <3>5. from[d] = Mark("equal", left[i]) \o from[Across(d)] /\ lcs[d] = lcs[Across(d)] + 1
      BY <2>3, <2>4, <2>8, <3>4, Zenon
    <3>6. Printed(Mark("equal", left[i]) \o from[Across(d)], left, i, right, j, lcs[Across(d)] + 1)
      BY <1>1, <2>8, <3>1, <3>2, <3>3, PrintEqual
    <3>7. Printed(from[d], left, i, right, j, lcs[d])
      BY <3>5, <3>6, Zenon
    <3> QED
      BY <3>7 DEF i, j
  \* Past the end of one text nothing is shared.
  <2>9. ASSUME i <= Len(left), j > Len(right) PROVE lcs[Below(d)] = 0
    <3>1. Below(d) \in Cells(left, right)
      BY <1>1, <2>9, CellsOf DEF i
    <3> QED
      BY <1>1, <2>2, <2>9, <3>1, CommonIs DEF lcs
  <2>10. ASSUME i > Len(left), j <= Len(right) PROVE lcs[Beside(d)] = 0
    <3>1. Beside(d) \in Cells(left, right)
      BY <1>1, <2>10, CellsOf DEF j
    <3> QED
      BY <1>1, <2>2, <2>10, <3>1, CommonIs DEF lcs
  <2> HIDE DEF printed
  <2>11. CASE i > Len(left) /\ ~(j > Len(right))
    <3>1. j <= Len(right)
      BY <1>1, <2>1, <2>11
    <3>2. lcs[d] = lcs[Beside(d)] /\ from[d] = Mark("add", right[j]) \o from[Beside(d)]
      BY <2>3, <2>4, <2>10, <2>11, <3>1, Zenon
    <3> QED
      BY <2>7, <3>1, <3>2
  <2>12. CASE ~(i > Len(left)) /\ j > Len(right)
    <3>1. i <= Len(left)
      BY <1>1, <2>1, <2>12
    <3>2. lcs[d] = lcs[Below(d)] /\ from[d] = Mark("remove", left[i]) \o from[Below(d)]
      BY <2>3, <2>4, <2>9, <2>12, <3>1, Zenon
    <3> QED
      BY <2>6, <3>1, <3>2
  <2>13. CASE ~(i > Len(left)) /\ ~(j > Len(right)) /\ left[i] # right[j]
    <3>1. i <= Len(left) /\ j <= Len(right)
      BY <1>1, <2>1, <2>13
    <3>2. CASE lcs[Below(d)] >= lcs[Beside(d)]
      <4>1. lcs[d] = lcs[Below(d)] /\ from[d] = Mark("remove", left[i]) \o from[Below(d)]
        BY <2>3, <2>4, <2>13, <3>2, Zenon
      <4> QED
        BY <2>6, <3>1, <4>1
    <3>3. CASE ~(lcs[Below(d)] >= lcs[Beside(d)])
      <4>1. lcs[d] = lcs[Beside(d)] /\ from[d] = Mark("add", right[j]) \o from[Beside(d)]
        BY <2>3, <2>4, <2>13, <3>3, Zenon
      <4> QED
        BY <2>7, <3>1, <4>1
    <3> QED
      BY <3>2, <3>3
  <2>14. CASE ~(i > Len(left)) /\ ~(j > Len(right)) /\ left[i] = right[j]
    <3>1. i <= Len(left) /\ j <= Len(right)
      BY <1>1, <2>1, <2>14
    <3> QED
      BY <2>8, <2>14, <3>1
  <2> QED
    BY <2>5, <2>11, <2>12, <2>13, <2>14
<1>4. holds \in SUBSET Cells(left, right)
  OBVIOUS
<1>5. \A d \in Cells(left, right) :
        (\A x \in Cells(left, right) : Left(left, right, x) < Left(left, right, d) => x \in holds) => d \in holds
  <2> HIDE DEF printed
  <2> QED
    BY <1>3
<1>6. holds = Cells(left, right)
  <2> HIDE DEF holds
  <2> QED
    BY <1>1, <1>4, <1>5, CellInduction
<1> QED
  BY <1>6
\* The pairs of an alignment that lie in what is left at a cell.
Within(pairs, c) == \A d \in pairs : c[1] <= d[1] /\ c[2] <= d[2]

\* An alignment of two texts, in full: its pairs are of equal lines, and no two
\* share a line or cross.
LEMMA Aligned ==
  ASSUME NEW left, NEW right, Len(left) \in Nat, Len(right) \in Nat,
         DOMAIN left = 1 .. Len(left), DOMAIN right = 1 .. Len(right),
         NEW pairs \in Alignments(left, right)
  PROVE  /\ IsFiniteSet(pairs) /\ Cardinality(pairs) \in Nat
         /\ \A d \in pairs : /\ d[1] \in 1 .. Len(left) /\ d[2] \in 1 .. Len(right)
                             /\ left[d[1]] = right[d[2]] /\ d = <<d[1], d[2]>>
         /\ \A d, e \in pairs : d[1] < e[1] <=> d[2] < e[2]
         /\ \A fewer \in SUBSET pairs : fewer \in Alignments(left, right)
<1>1. pairs \subseteq (1 .. Len(left)) \X (1 .. Len(right))
  BY DEF Alignments
<1>2. IsFiniteSet((1 .. Len(left)) \X (1 .. Len(right)))
  <2>1. IsFiniteSet(1 .. Len(left)) /\ IsFiniteSet(1 .. Len(right))
    BY FS_Interval
  <2> QED
    BY <2>1, FS_Product, Zenon
<1>3. IsFiniteSet(pairs) /\ Cardinality(pairs) \in Nat
  BY <1>1, <1>2, FS_Subset, FS_CardinalityType
<1>4. \A d \in pairs : /\ d[1] \in 1 .. Len(left) /\ d[2] \in 1 .. Len(right)
                      /\ left[d[1]] = right[d[2]] /\ d = <<d[1], d[2]>>
  BY <1>1 DEF Alignments
<1>5. \A d, e \in pairs : d[1] < e[1] <=> d[2] < e[2]
  BY DEF Alignments
<1>6. \A fewer \in SUBSET pairs : fewer \in Alignments(left, right)
  BY DEF Alignments
<1> QED
  BY <1>3, <1>4, <1>5, <1>6

\* No alignment of what is left at a cell has more pairs than the table says.
LEMMA Optimal ==
  ASSUME NEW left, NEW right, Len(left) \in Nat, Len(right) \in Nat,
         DOMAIN left = 1 .. Len(left), DOMAIN right = 1 .. Len(right),
         NEW c \in Cells(left, right), NEW pairs \in Alignments(left, right), Within(pairs, c)
  PROVE  Cardinality(pairs) <= Common(left, right)[c]
<1> DEFINE lcs == Common(left, right)
           best(d) == \A M \in Alignments(left, right) : Within(M, d) => Cardinality(M) <= lcs[d]
           holds == {d \in Cells(left, right) : best(d)}
<1>1. ASSUME NEW d \in Cells(left, right),
             \A x \in Cells(left, right) : Left(left, right, x) < Left(left, right, d) => best(x)
      PROVE  best(d)
  <2> DEFINE i == d[1]
             j == d[2]
  <2>1. i \in 1 .. Len(left) + 1 /\ j \in 1 .. Len(right) + 1
    BY CellsOf
  <2>2. /\ Below(d)[1] = i + 1 /\ Below(d)[2] = j /\ Beside(d)[1] = i /\ Beside(d)[2] = j + 1
        /\ Across(d)[1] = i + 1 /\ Across(d)[2] = j + 1
    BY DEF Below, Beside, Across
  <2>3. lcs[d] = IF i > Len(left) \/ j > Len(right) THEN 0
                 ELSE IF left[i] = right[j] THEN lcs[Across(d)] + 1
                 ELSE IF lcs[Below(d)] >= lcs[Beside(d)] THEN lcs[Below(d)] ELSE lcs[Beside(d)]
    BY CommonIs
  <2>4. ~(i > Len(left)) =>
          Below(d) \in Cells(left, right) /\ best(Below(d)) /\ lcs[Below(d)] \in Nat
    BY <1>1, <2>1, CellsOf, CommonIs
  <2>5. ~(j > Len(right)) =>
          Beside(d) \in Cells(left, right) /\ best(Beside(d)) /\ lcs[Beside(d)] \in Nat
    BY <1>1, <2>1, CellsOf, CommonIs
  <2>6. ~(i > Len(left)) /\ ~(j > Len(right)) =>
          Across(d) \in Cells(left, right) /\ best(Across(d)) /\ lcs[Across(d)] \in Nat
    BY <1>1, <2>1, CellsOf, CommonIs
  <2> SUFFICES ASSUME NEW M \in Alignments(left, right), Within(M, d) PROVE Cardinality(M) <= lcs[d]
    OBVIOUS
  <2>7. IsFiniteSet(M) /\ Cardinality(M) \in Nat
    BY Aligned
  <2>8. \A e \in M : /\ e[1] \in i .. Len(left) /\ e[2] \in j .. Len(right)
                    /\ left[e[1]] = right[e[2]] /\ e = <<e[1], e[2]>>
    <3>1. \A e \in M : /\ e[1] \in 1 .. Len(left) /\ e[2] \in 1 .. Len(right)
                      /\ left[e[1]] = right[e[2]] /\ e = <<e[1], e[2]>>
      BY Aligned
    <3>2. \A e \in M : i <= e[1] /\ j <= e[2]
      BY DEF Within
    <3> QED
      BY <2>1, <3>1, <3>2
  <2>9. \A e, f \in M : e[1] < f[1] <=> e[2] < f[2]
    BY Aligned
  <2>10. \A fewer \in SUBSET M : fewer \in Alignments(left, right)
    BY Aligned
  <2> HIDE DEF lcs, i, j
  <2>11. CASE i > Len(left) \/ j > Len(right)
    <3>1. M = {}
      BY <2>1, <2>8, <2>11
    <3>2. Cardinality(M) = 0
      BY <3>1, FS_EmptySet
    <3> QED
      BY <2>3, <2>11, <3>2
  <2>12. CASE ~(i > Len(left)) /\ ~(j > Len(right)) /\ left[i] = right[j]
    <3> DEFINE edge == {e \in M : e[1] = i \/ e[2] = j}
               rest == M \ edge
    <3>1. rest \in Alignments(left, right) /\ Within(rest, Across(d))
      <4>1. \A e \in rest : i + 1 <= e[1] /\ j + 1 <= e[2]
        BY <2>1, <2>8
      <4> QED
        BY <2>2, <2>10, <4>1 DEF Within
    <3>2. Cardinality(rest) <= lcs[Across(d)] /\ lcs[Across(d)] \in Nat
      <4> HIDE DEF rest
      <4> QED
        BY <2>6, <2>12, <3>1
    <3>3. Cardinality(M) <= Cardinality(rest) + 1 /\ Cardinality(rest) \in Nat
      <4>1. CASE edge = {}
        <5>1. rest = M
          BY <4>1
        <5> HIDE DEF rest
        <5> QED
          BY <2>7, <5>1
      <4>2. CASE edge # {}
        <5>1. PICK e \in edge : TRUE
          BY <4>2
        \* Another pair on the edge would cross this one or share its line.
        <5>2. ASSUME NEW f \in edge PROVE f = e
          <6>1. f \in M /\ e \in M /\ (e[1] = i \/ e[2] = j) /\ (f[1] = i \/ f[2] = j)
            OBVIOUS
          <6>2. e[1] \in i .. Len(left) /\ e[2] \in j .. Len(right) /\ e = <<e[1], e[2]>>
            BY <2>8, <6>1
          <6>3. f[1] \in i .. Len(left) /\ f[2] \in j .. Len(right) /\ f = <<f[1], f[2]>>
            BY <2>8, <6>1
          <6>4. (e[1] < f[1] <=> e[2] < f[2]) /\ (f[1] < e[1] <=> f[2] < e[2])
            BY <2>9, <6>1
          <6>5. e[1] = f[1] /\ e[2] = f[2]
            BY <2>1, <6>1, <6>2, <6>3, <6>4
          <6> QED
            BY <6>2, <6>3, <6>5, Zenon
        <5>3. rest = M \ {e} /\ e \in M
          BY <5>1, <5>2
        <5>4. IsFiniteSet(M \ {e}) /\ Cardinality(M \ {e}) = Cardinality(M) - 1
          BY <2>7, <5>3, FS_RemoveElement, Zenon
        <5>5. Cardinality(M \ {e}) \in Nat
          BY <5>4, FS_CardinalityType, Zenon
        <5>6. Cardinality(rest) = Cardinality(M \ {e})
          BY <5>3, Zenon
        <5> HIDE DEF rest
        <5> QED
          BY <2>7, <5>4, <5>5, <5>6
      <4> QED
        BY <4>1, <4>2
    <3>4. lcs[d] = lcs[Across(d)] + 1
      BY <2>3, <2>12
    <3> HIDE DEF rest
    <3> QED
      BY <2>7, <3>2, <3>3, <3>4
  <2>13. CASE ~(i > Len(left)) /\ ~(j > Len(right)) /\ left[i] # right[j]
    \* The two lines differ, so that one of them is in no pair.
    <3>1. Within(M, Below(d)) \/ Within(M, Beside(d))
      <4> SUFFICES ASSUME ~Within(M, Below(d)), ~Within(M, Beside(d)) PROVE FALSE
        OBVIOUS
      <4>1. PICK e \in M : ~(i + 1 <= e[1] /\ j <= e[2])
        BY <2>2 DEF Within
      <4>2. PICK f \in M : ~(i <= f[1] /\ j + 1 <= f[2])
        BY <2>2 DEF Within
      <4>3. e[1] = i /\ f[2] = j /\ e[2] \in j .. Len(right) /\ f[1] \in i .. Len(left)
        BY <2>1, <2>8, <4>1, <4>2
      <4>4. left[e[1]] = right[e[2]] /\ left[f[1]] = right[f[2]]
        BY <2>8
      <4>5. e[2] # j /\ f[1] # i
        BY <2>13, <4>3, <4>4
      <4>6. e[1] < f[1] <=> e[2] < f[2]
        BY <2>9
      <4> QED
        BY <2>1, <4>3, <4>5, <4>6
    <3>2. CASE Within(M, Below(d))
      BY <2>3, <2>4, <2>5, <2>7, <2>13, <3>2
    <3>3. CASE Within(M, Beside(d))
      BY <2>3, <2>4, <2>5, <2>7, <2>13, <3>3
    <3> QED
      BY <3>1, <3>2, <3>3
  <2> QED
    BY <2>11, <2>12, <2>13
<1>2. holds \in SUBSET Cells(left, right)
  OBVIOUS
<1>3. \A d \in Cells(left, right) :
        (\A x \in Cells(left, right) : Left(left, right, x) < Left(left, right, d) => x \in holds) => d \in holds
  <2> HIDE DEF best
  <2> QED
    BY <1>1
<1>4. holds = Cells(left, right)
  <2> HIDE DEF holds
  <2> QED
    BY <1>2, <1>3, CellInduction
<1> QED
  BY <1>4

\* A difference rebuilds both texts, and no alignment of them has more pairs than
\* the difference has lines of both (diff_lines), for sequences of any entries.
THEOREM DiffIsRight ==
  ASSUME NEW S, NEW left \in Seq(S), NEW right \in Seq(S)
  PROVE  LET diff == DiffLines(left, right)
         IN /\ Rebuilds(diff, {"equal", "remove"}, left)
            /\ Rebuilds(diff, {"equal", "add"}, right)
            /\ \A pairs \in Alignments(left, right) :
                 Cardinality(pairs) <= Cardinality(Marked(diff, {"equal"}))
<1> DEFINE lcs == Common(left, right)
           diff == DiffLines(left, right)
           one == <<1, 1>>
<1>1. /\ Len(left) \in Nat /\ Len(right) \in Nat
      /\ DOMAIN left = 1 .. Len(left) /\ DOMAIN right = 1 .. Len(right)
  OBVIOUS
<1>2. one \in Cells(left, right) /\ one[1] = 1 /\ one[2] = 1
  BY <1>1 DEF Cells
<1>3. Printed(diff, left, 1, right, 1, lcs[one]) /\ diff \in Seq(Edits(S))
  <2>1. PICK from \in Tables(left, right, Seq(Edits(S))) :
          /\ diff = from[one]
          /\ \A c \in Cells(left, right) :
               from[c] =
                 IF c[1] > Len(left) /\ c[2] > Len(right) THEN <<>>
                 ELSE IF c[1] > Len(left) THEN Mark("add", right[c[2]]) \o from[Beside(c)]
                 ELSE IF c[2] > Len(right) THEN Mark("remove", left[c[1]]) \o from[Below(c)]
                 ELSE IF left[c[1]] = right[c[2]] THEN Mark("equal", left[c[1]]) \o from[Across(c)]
                 ELSE IF lcs[Below(c)] >= lcs[Beside(c)] THEN Mark("remove", left[c[1]]) \o from[Below(c)]
                 ELSE Mark("add", right[c[2]]) \o from[Beside(c)]
    BY DiffIs
  <2>2. Printed(from[one], left, one[1], right, one[2], lcs[one])
    BY <1>2, <2>1, DiffEnds
  <2>3. from[one] \in Seq(Edits(S))
    BY <1>2, <2>1 DEF Tables
  <2> QED
    BY <1>2, <2>1, <2>2, <2>3, Zenon
<1>4. Rebuilds(diff, {"equal", "remove"}, left) /\ Rebuilds(diff, {"equal", "add"}, right)
  BY <1>1, <1>3, EndingWhole DEF Printed
<1>5. ASSUME NEW pairs \in Alignments(left, right)
      PROVE  Cardinality(pairs) <= Cardinality(Marked(diff, {"equal"}))
  <2>1. Within(pairs, one)
    BY <1>1, <1>2, Aligned DEF Within
  <2>2. Cardinality(pairs) <= lcs[one]
    BY <1>1, <1>2, <2>1, Optimal
  <2>3. Cardinality(Marked(diff, {"equal"})) = lcs[one]
    BY <1>3 DEF Printed
  <2> QED
    BY <2>2, <2>3, Zenon
<1> QED
  BY <1>4, <1>5

-----------------------------------------------------------------------------
(* The evaluation and the replay.                                          *)

\* The part of the invariant that says nothing of the store.
EvalInv == ReplayTypeOK /\ Disk /\ Records /\ Saved /\ phase # "refused" /\ ReproducedMeansSame

\* At the start nothing was staged, observed or saved.
LEMMA ReplayInit == Init => ReplayInv
<1> SUFFICES ASSUME Init PROVE ReplayInv
  OBVIOUS
<1>1. StoreInv
  BY InitInv DEF Init
<1>2. ReplayTypeOK
  BY DEF Init, ReplayTypeOK, Staging, Rounds, Nothing
<1>3. Disk /\ Records /\ Saved /\ Rejected /\ phase # "refused" /\ ReproducedMeansSame
  BY DEF Init, Disk, Records, Saved, Rejected, ReproducedMeansSame, Runs
<1> QED
  BY <1>1, <1>2, <1>3 DEF ReplayInv

\* What was saved stays true while nothing of it is changed.
LEMMA SavedStays ==
  ASSUME Saved, UNCHANGED <<case, content, first>>,
         phase' \in {"saving", "rejected", "reproduced", "notReproduced"} \/ round' = "replay" =>
           phase \in {"saving", "rejected", "reproduced", "notReproduced"} \/ round = "replay"
  PROVE  Saved'
  BY DEF Saved, Manifest, Consistent

\* The reference gets a new tree, and new handles on it.
LEMMA BeginReferenceStep ==
  ASSUME ReplayInv, BeginReference
  PROVE  EvalInv' /\ Rejected'
<1>1. PICK numbers \in Numberings(case.fixture) :
        Begin(Staged(case.fixture, numbers), Observer(Staged(case.fixture, numbers)), 0 .. 1)
  BY DEF BeginReference
<1> DEFINE fs == Staged(case.fixture, numbers)
<1>2. /\ disk' = fs /\ observer' = Observer(fs) /\ before' = Snapshot(fs, Observer(fs)) /\ tick' \in 0 .. 1
  BY <1>1 DEF Begin
<1>3. Tree(fs) /\ Holds(fs, Observer(fs), case.fixture) /\ Remembered(Observer(fs), Snapshot(fs, Observer(fs)))
  BY StagedTree, ObserverRemembers DEF ReplayInv, ReplayTypeOK
<1> HIDE DEF fs
<1>4. /\ phase = "reference" /\ phase' = "referenceRuns"
      /\ UNCHANGED <<round, case, program, seen, sharing, content, first, storeVars>>
  BY DEF BeginReference
<1>5. ReplayTypeOK'
  BY <1>2, <1>4 DEF ReplayInv, ReplayTypeOK, Runs
<1>6. Disk'
  BY <1>2, <1>3, <1>4 DEF Disk
<1>7. Records'
  BY <1>2, <1>3, <1>4 DEF Records
<1>8. Saved'
  BY <1>4, SavedStays DEF ReplayInv
<1> QED
  BY <1>4, <1>5, <1>6, <1>7, <1>8 DEF EvalInv, ReproducedMeansSame, Rejected

\* The DUT gets the tree the reference left alone, whose last snapshot is the first one
\* of it, or a new one.
LEMMA BeginDutStep ==
  ASSUME ReplayInv, BeginDut
  PROVE  EvalInv' /\ Rejected'
<1>1. /\ phase = "dut" /\ phase' = "dutRuns" /\ sharing' = (seen["reference"].pre = seen["reference"].post)
      /\ UNCHANGED <<round, case, program, seen, content, first, storeVars>>
  BY DEF BeginDut
<1>2. /\ Tree(disk) /\ Holds(disk, observer, case.fixture) /\ Consistent(seen["reference"])
      /\ Latest(seen["reference"]) /\ Remembered(observer, seen["reference"].pre)
  BY <1>1 DEF ReplayInv, Disk, Records
<1>3. /\ Tree(disk') /\ Holds(disk', observer', case.fixture) /\ Remembered(observer', before') /\ tick' = 1
      /\ sharing' => seen["reference"].pre = before' /\ seen["reference"].post = before'
  <2>1. CASE sharing'
    <3>1. Begin(disk, observer, {1})
      BY <2>1 DEF BeginDut
    <3>2. seen["reference"].pre = seen["reference"].post /\ seen["reference"].post = Snapshot(disk, observer)
      BY <1>1, <1>2, <2>1 DEF Latest
    <3> QED
      BY <1>2, <3>1, <3>2 DEF Begin
  <2>2. CASE ~sharing'
    <3>1. PICK numbers \in Numberings(case.fixture) :
            Begin(Staged(case.fixture, numbers), Observer(Staged(case.fixture, numbers)), {1})
      BY <2>2 DEF BeginDut
    <3> DEFINE fs == Staged(case.fixture, numbers)
    <3>2. Tree(fs) /\ Holds(fs, Observer(fs), case.fixture) /\ Remembered(Observer(fs), Snapshot(fs, Observer(fs)))
      BY StagedTree, ObserverRemembers DEF ReplayInv, ReplayTypeOK
    <3> QED
      BY <2>2, <3>1, <3>2 DEF Begin
  <2> QED
    BY <2>1, <2>2
<1>4. ReplayTypeOK'
  BY <1>1, <1>3 DEF ReplayInv, ReplayTypeOK, Runs
<1>5. Disk'
  BY <1>1, <1>3 DEF Disk
<1>6. Records'
  <2>1. Consistent(seen["reference"])'
    BY <1>1, <1>2 DEF Consistent
  <2> QED
    BY <1>1, <1>3, <2>1 DEF Records, Alone
<1>7. Saved'
  BY <1>1, SavedStays DEF ReplayInv
<1> QED
  BY <1>1, <1>4, <1>5, <1>6, <1>7 DEF EvalInv, ReproducedMeansSame, Rejected

\* A system call moves no object away from under a handle.
LEMMA CallStep ==
  ASSUME ReplayInv, NEW v \in Variants, Call(v)
  PROVE  EvalInv' /\ Rejected'
<1>1. /\ phase \in Runs /\ phase' = phase /\ calls' \in DOMAIN program[v].ops
      /\ disk' = Do(disk, Pinned(observer), program[v].ops[calls'], tick)
      /\ UNCHANGED <<round, case, program, observer, before, tick, seen, sharing, content, first, storeVars>>
  BY DEF Call, Running, Runs
<1>2. program[v].ops[calls'] \in SystemCalls
  BY <1>1, BehavioursAssumption DEF ReplayInv, ReplayTypeOK
<1>3. Tree(disk) /\ Holds(disk, observer, case.fixture) /\ tick \in Nat
  BY <1>1 DEF ReplayInv, Disk, ReplayTypeOK
<1>4. Tree(disk') /\ Holds(disk', observer, case.fixture)
  BY <1>1, <1>2, <1>3, HoldsStep
<1>5. ReplayTypeOK'
  BY <1>1 DEF ReplayInv, ReplayTypeOK
<1>6. Disk'
  BY <1>1, <1>4 DEF Disk
<1>7. Records'
  <2>1. phase = "dutRuns" => Consistent(seen["reference"])'
    BY <1>1 DEF ReplayInv, Records, Consistent
  <2> QED
    BY <1>1, <2>1 DEF ReplayInv, Records, Alone, Runs
<1>8. Saved'
  BY <1>1, SavedStays DEF ReplayInv
<1> QED
  BY <1>1, <1>5, <1>6, <1>7, <1>8 DEF EvalInv, ReproducedMeansSame, Rejected, Runs

\* What is observed agrees with itself and with what is there.
LEMMA ObserveStep ==
  ASSUME ReplayInv, NEW v \in Variants, Observe(v)
  PROVE  EvalInv' /\ Rejected'
<1> DEFINE post == Snapshot(disk, observer)
           obs == [pre |-> before, post |-> post, identity |-> Transitions(observer, post),
                   status |-> program[v].status, stdout |-> program[v].stdout, stderr |-> program[v].stderr]
<1>1. /\ phase = IF v = "reference" THEN "referenceRuns" ELSE "dutRuns"
      /\ phase' = IF v = "reference" THEN "dut" ELSE "compare"
      /\ seen' = [seen EXCEPT ![v] = obs] /\ v \in {"reference", "dut"}
      /\ UNCHANGED <<round, case, program, disk, observer, calls, tick, sharing, content, first, storeVars>>
  BY DEF Observe, Running, Variants
<1>2. DOMAIN seen = Variants /\ seen'[v] = obs /\ \A u \in Variants \ {v} : seen'[u] = seen[u]
  BY <1>1 DEF ReplayInv, ReplayTypeOK
<1>3. Tree(disk) /\ Holds(disk, observer, case.fixture) /\ Remembered(observer, before)
  BY <1>1 DEF ReplayInv, Disk, Records, Runs
<1>4. DOMAIN post \subseteq Paths /\ \A p \in DOMAIN post : post[p].key \in Inodes
  <2>1. DOMAIN post = Names(disk) /\ \A p \in Names(disk) : post[p].key = disk.name[p]
    BY SnapshotOf
  <2> HIDE DEF post
  <2> QED
    BY <1>3, <2>1 DEF Names, Tree
<1>5. Transitions(observer, post) =
        {pair \in (DOMAIN before) \X (DOMAIN post) : before[pair[1]].key = post[pair[2]].key}
  BY <1>3, TransitionsOfNumbers
<1>6. /\ program[v].status \in {b.status : b \in Behaviours \cup Changes}
      /\ program[v].stdout \in {b.stdout : b \in Behaviours \cup Changes}
  BY DEF ReplayInv, ReplayTypeOK
<1> HIDE DEF post
<1>7. Consistent(obs)
  BY <1>3, <1>4, <1>5, <1>6 DEF Consistent, Remembered
<1>8. /\ obs.pre = before /\ obs.post = Snapshot(disk, observer)
      /\ obs.identity = Transitions(observer, Snapshot(disk, observer))
  BY DEF post
<1> HIDE DEF obs
<1>9. ReplayTypeOK'
  BY <1>1 DEF ReplayInv, ReplayTypeOK, Staging
<1>10. Disk'
  BY <1>1, <1>3 DEF Disk
<1>11. Records'
  <2>1. CASE v = "reference"
    <3>1. seen'["reference"] = obs /\ phase' = "dut"
      BY <1>1, <1>2, <2>1
    <3>2. Consistent(seen["reference"])'
      BY <1>7, <3>1 DEF Consistent
    <3> QED
      BY <1>1, <1>3, <1>8, <3>1, <3>2 DEF Records, Latest, Runs
  <2>2. CASE v = "dut"
    <3>1. seen'["dut"] = obs /\ phase' = "compare" /\ seen'["reference"] = seen["reference"] /\ phase = "dutRuns"
      BY <1>1, <1>2, <2>2 DEF Variants
    <3>2. Consistent(seen["reference"])' /\ Consistent(seen["dut"])'
      BY <1>7, <3>1 DEF Consistent, ReplayInv, Records
    <3>3. sharing => seen["reference"].pre = before /\ seen["reference"].post = before
      BY <3>1 DEF ReplayInv, Records, Alone
    <3> QED
      BY <1>1, <1>3, <1>8, <3>1, <3>2, <3>3 DEF Records, Latest, Runs, Alone
  <2> QED
    BY <1>1, <2>1, <2>2
<1>12. Saved'
  BY <1>1, SavedStays DEF ReplayInv
<1> QED
  BY <1>1, <1>9, <1>10, <1>11, <1>12 DEF EvalInv, ReproducedMeansSame, Rejected

\* What is saved is valid evidence of a mismatch, and has a signature.
LEMMA CompareOriginalStep ==
  ASSUME ReplayInv, CompareOriginal
  PROVE  EvalInv' /\ Rejected'
<1>1. /\ phase = "compare" /\ round = "original"
      /\ UNCHANGED <<round, case, program, runVars, seen, sharing>>
  BY DEF CompareOriginal
<1>2. PICK ordered \in BOOLEAN : Finish(ordered)
  BY DEF CompareOriginal
<1> DEFINE e == Evidence(case, sharing, ordered, seen)
<1>3. sharing \in BOOLEAN /\ \A v \in Variants : Consistent(seen[v])
  BY <1>1 DEF ReplayInv, ReplayTypeOK, Records, Variants
<1>4. OutcomesAgree(e) /\ (~IsMatch(e.comparison) => Manifest(e).signature \in Signatures)
  BY <1>3, EvidenceTypes
<1>5. e.execution.ordered = ordered
  BY DEF Evidence
<1>6. \/ phase' \in {"failed", "match"}
      \/ /\ phase' = "saving" /\ content' = Manifest(e) /\ first' = seen
         /\ ValidEvidence(e) /\ ~IsMatch(e.comparison)
  <2> HIDE DEF e
  <2>1. Finish(ordered) =>
          \/ phase' \in {"failed", "match"}
          \/ ValidEvidence(e) /\ ~IsMatch(e.comparison) /\ (~OutcomesAgree(e) \/ Manifest(e).signature = None)
          \/ /\ phase' = "saving" /\ content' = Manifest(e) /\ first' = seen
             /\ ValidEvidence(e) /\ ~IsMatch(e.comparison)
    BY DEF Finish, e
  <2> QED
    BY <1>2, <1>4, <2>1, NoneAssumption
<1>7. Saved'
  <2>1. CASE phase' \in {"failed", "match"}
    BY <1>1, <2>1 DEF Saved
  <2>2. CASE phase' = "saving"
    <3>1. ValidEvidence(e) /\ ~IsMatch(e.comparison) /\ content' = Manifest(e) /\ first' = seen
      BY <1>6, <2>2
    <3>2. e = Evidence(case, sharing, TRUE, seen)
      <4>1. ordered = TRUE
        BY <1>5, <3>1 DEF ValidEvidence
      <4> QED
        BY <4>1
    <3>3. e = Evidence(case, sharing, TRUE, first)'
      BY <1>1, <3>1, <3>2 DEF Evidence, Compare, FsDifferences, runVars
    <3> QED
      BY <1>1, <1>3, <3>1, <3>2, <3>3 DEF Saved, Manifest, Consistent
  <2> QED
    BY <1>6, <2>1, <2>2
<1>8. ReplayTypeOK'
  BY <1>1, <1>6 DEF ReplayInv, ReplayTypeOK, Ends, runVars
<1>9. Disk' /\ Records' /\ Rejected' /\ ReproducedMeansSame' /\ phase' # "refused"
  BY <1>6 DEF Disk, Records, Rejected, ReproducedMeansSame, Runs
<1> QED
  BY <1>7, <1>8, <1>9 DEF EvalInv

\* A replay refuses nothing but a manifest that is cut short.
LEMMA StartReplayStep ==
  ASSUME ReplayInv, StartReplay
  PROVE  EvalInv' /\ Rejected'
<1>1. /\ phase = "saving" /\ saver[Evaluating] \in SaverEnds /\ Evaluating \in creator[Place(Evaluating)]
      /\ phase' \in {"reference", "rejected"} /\ round' \in {round, "replay"} /\ seen' = Nothing /\ sharing' = FALSE
      /\ phase' = "reference" => round' = "replay"
      /\ UNCHANGED <<before, calls, tick, case, content, first, storeVars>>
  BY DEF StartReplay
<1>2. PICK b \in Changes \cup {program[v] : v \in Variants} : program' = [program EXCEPT !["dut"] = b]
  BY DEF StartReplay
<1>3. ReplayTypeOK'
  <2>1. program' \in [Variants -> Behaviours \cup Changes]
    BY <1>2 DEF ReplayInv, ReplayTypeOK, Variants
  <2>2. DOMAIN seen' = Variants
    BY <1>1 DEF Nothing
  <2> QED
    BY <1>1, <2>1, <2>2 DEF ReplayInv, ReplayTypeOK, Rounds, Staging, Ends
<1>4. Saved'
  BY <1>1, SavedStays DEF ReplayInv
<1>5. PICK shared \in BOOLEAN :
        LET e == Evidence(case, shared, TRUE, first) IN
        /\ content = Manifest(e) /\ ValidEvidence(e) /\ ~IsMatch(e.comparison)
        /\ \A v \in Variants : Consistent(first[v])
  BY <1>1 DEF ReplayInv, Saved
<1>6. Decodable(content) /\ Acceptable(content)
  <2> DEFINE e == Evidence(case, shared, TRUE, first)
             late == TRUE
  <2>1. OutcomesAgree(e) /\ \A v \in Variants : ValidTermination(e.outcome[v])
    <3>1. late \in BOOLEAN /\ e = Evidence(case, shared, late, first)
      OBVIOUS
    <3> HIDE DEF late, e
    <3> QED
      BY <1>5, <3>1, EvidenceTypes
  <2>2. /\ content.evidence = e
        /\ content.signature = Signature(e.comparison, e.identity["reference"], e.identity["dut"])
    BY <1>5 DEF Manifest
  <2>3. ValidEvidence(e) /\ ~IsMatch(e.comparison)
    BY <1>5
  <2> HIDE DEF e
  <2> QED
    BY <2>1, <2>2, <2>3 DEF Decodable, Acceptable
<1>7. phase' = "rejected" => manifest[Place(Evaluating)] # "whole"
  BY <1>6 DEF StartReplay
<1>8. Disk' /\ Records' /\ ReproducedMeansSame' /\ phase' # "refused"
  BY <1>1 DEF Disk, Records, ReproducedMeansSame, Runs
<1>9. Rejected'
  BY <1>1, <1>7 DEF Rejected, storeVars, Place
<1> QED
  BY <1>3, <1>4, <1>8, <1>9 DEF EvalInv

\* A replay tells the same runs from others.
LEMMA CompareReplayStep ==
  ASSUME ReplayInv, CompareReplay
  PROVE  EvalInv' /\ Rejected'
<1>1. /\ phase = "compare" /\ round = "replay" /\ phase' \in {"failed", "reproduced", "notReproduced"}
      /\ UNCHANGED <<round, case, program, runVars, seen, sharing, content, first, storeVars>>
  BY DEF CompareReplay
<1>2. PICK ordered \in BOOLEAN :
        LET e == Evidence(case, sharing, ordered, seen) IN
        phase' = IF ~ValidEvidence(e) THEN "failed"
                 ELSE IF ~IsMatch(e.comparison) /\ Judge(e) THEN "reproduced" ELSE "notReproduced"
  BY DEF CompareReplay
<1>3. PICK was \in BOOLEAN :
        LET e == Evidence(case, was, TRUE, first) IN
        content = Manifest(e) /\ ~IsMatch(e.comparison) /\ \A v \in Variants : Consistent(first[v])
  BY <1>1 DEF ReplayInv, Saved
<1>4. case.ignoreStderr \in BOOLEAN /\ \A v \in Variants : Consistent(seen[v])
  BY <1>1, CasesAssumption DEF ReplayInv, ReplayTypeOK, Records, Variants
<1> DEFINE e == Evidence(case, sharing, ordered, seen)
           same == /\ sharing = content.evidence.execution.sharing
                   /\ \A v \in Variants : Alike(first[v], seen[v])
<1>5. ~IsMatch(e.comparison) /\ Judge(e) <=> same
  BY <1>3, <1>4, JudgeIsAgree
<1> HIDE DEF e
<1>6. phase' \in {"reproduced", "notReproduced"} => (phase' = "reproduced" <=> same)
  BY <1>2, <1>5 DEF e
<1>7. same' <=> same
  BY <1>1 DEF Alike
<1> HIDE DEF same
<1>8. ReproducedMeansSame'
  BY <1>6, <1>7 DEF ReproducedMeansSame, same
<1>9. ReplayTypeOK'
  BY <1>1 DEF ReplayInv, ReplayTypeOK, Ends, runVars
<1>10. Saved'
  BY <1>1, SavedStays DEF ReplayInv
<1>11. Disk' /\ Records' /\ Rejected' /\ phase' # "refused"
  BY <1>1 DEF Disk, Records, Rejected, Runs
<1> QED
  BY <1>8, <1>9, <1>10, <1>11 DEF EvalInv

\* A step of the evaluation that leaves the store alone, or of the store that leaves
\* the evaluation alone, changes none of the other's.
LEMMA EvalStays ==
  ASSUME ReplayInv, UNCHANGED evalVars
  PROVE  EvalInv'
<1>1. UNCHANGED <<phase, round, case, program, disk, observer, before, calls, tick, seen, sharing, content, first>>
  BY DEF evalVars, runVars
<1>2. ReplayTypeOK' /\ Disk' /\ phase' # "refused"
  BY <1>1 DEF ReplayInv, ReplayTypeOK, Disk
<1>3. Records'
  BY <1>1 DEF ReplayInv, Records, Consistent, Latest, Alone
<1>4. Saved'
  BY <1>1, SavedStays DEF ReplayInv
<1>5. ReproducedMeansSame'
  BY <1>1 DEF ReplayInv, ReproducedMeansSame, Alike
<1> QED
  BY <1>2, <1>3, <1>4, <1>5 DEF EvalInv

\* Nobody else writes to the directory of a campaign that is through with it.
LEMMA OthersStayAway ==
  ASSUME ReplayInv, NEW s \in Savers, RivalSaves(s) \/ StoreStep(s)
  PROVE  Rejected'
<1> SUFFICES ASSUME phase = "rejected" PROVE Rejected'
  BY DEF RivalSaves, StoreStep, evalVars, Rejected
<1>1. /\ saver[Evaluating] \in SaverEnds /\ Evaluating \in creator[Place(Evaluating)]
      /\ manifest[Place(Evaluating)] # "whole" /\ StoreInv /\ Evaluating \in Savers
  BY EvaluatingAssumption DEF ReplayInv, Rejected
<1>2. saver[s] = "ready" \/ saver[s] \in Steps
  BY DEF RivalSaves, StoreStep, SaveStep, BeginSave, Claim, OpenFirst, WriteFirst, OpenSecond, WriteSecond,
         SaveStops, Steps
<1>3. s # Evaluating
  BY <1>1, <1>2 DEF SaverEnds, Steps
<1>4. saver'[Evaluating] = saver[Evaluating] /\ Place(Evaluating)' = Place(Evaluating)
  BY <1>1, <1>3 DEF RivalSaves, StoreStep, SaveStep, BeginSave, Claim, OpenFirst, WriteFirst, OpenSecond,
       WriteSecond, SaveStops, SaverGoto, Touch, Place, StoreInv, StoreTypeOK
<1> DEFINE d == Place(Evaluating)
<1>5. d \in Places /\ Place(s) \in Places
  BY <1>1, PlaceType DEF StoreInv
<1>6. creator'[d] = creator[d] /\ manifest'[d] = manifest[d]
  <2>1. CASE UNCHANGED <<creator, manifest>>
    BY <2>1
  <2>2. CASE Claim(s) /\ creator[Place(s)] = {}
    <3>1. Place(s) # d
      BY <1>1, <2>2
    <3> QED
      BY <1>1, <1>5, <2>2, <3>1 DEF Claim, StoreInv, StoreTypeOK
  <2>3. CASE OpenFirst(s) \/ WriteFirst(s) \/ OpenSecond(s) \/ WriteSecond(s)
    <3>1. creator[Place(s)] = {s}
      BY <1>1, <2>3 DEF OpenFirst, WriteFirst, OpenSecond, WriteSecond, StoreInv, Owner, Steps
    <3>2. Place(s) # d
      BY <1>1, <1>3, <3>1
    <3>3. creator' = creator
      BY <2>3 DEF OpenFirst, WriteFirst, OpenSecond, WriteSecond, Touch
    <3>4. \/ manifest' = manifest
          \/ \E state \in FileStates : manifest' = [manifest EXCEPT ![Place(s)] = state]
      BY <2>3 DEF OpenFirst, WriteFirst, OpenSecond, WriteSecond, SetFirst, SetSecond, SetManifest, SetFiles,
                  FileStates
    <3>5. manifest'[d] = manifest[d]
      BY <1>1, <1>5, <3>2, <3>4 DEF StoreInv, StoreTypeOK
    <3> QED
      BY <3>3, <3>5
  <2> QED
    BY <2>1, <2>2, <2>3 DEF RivalSaves, StoreStep, SaveStep, BeginSave, Claim, SaveStops
<1> QED
  BY <1>1, <1>4, <1>6 DEF Rejected

\* Every step of the evaluation and the replay is one of the store's, or leaves it alone.
LEMMA StepsOfTheStore == [Next]_vars => [StoreNext]_storeVars
<1> SUFFICES ASSUME [Next]_vars PROVE [StoreNext]_storeVars
  OBVIOUS
<1>1. CASE BeginReference \/ BeginDut \/ StartReplay \/ CompareReplay \/ \E v \in Variants : Call(v) \/ Observe(v)
  BY <1>1 DEF BeginReference, BeginDut, StartReplay, CompareReplay, Call, Observe
<1>2. CASE CompareOriginal
  <2>1. UNCHANGED storeVars \/ \E what \in Kinds : BeginSave(Evaluating, what)
    BY <1>2 DEF CompareOriginal, Finish, Kinds
  <2> QED
    BY <2>1, EvaluatingAssumption DEF StoreNext
<1>3. CASE \E s \in Savers : RivalSaves(s) \/ StoreStep(s)
  BY <1>3 DEF RivalSaves, StoreStep, StoreNext
<1>4. CASE UNCHANGED vars
  BY <1>4 DEF vars
<1> QED
  BY <1>1, <1>2, <1>3, <1>4 DEF Next

\* Every step keeps the invariant.
LEMMA ReplayStep == ReplayInv /\ [Next]_vars => ReplayInv'
<1> SUFFICES ASSUME ReplayInv, [Next]_vars PROVE ReplayInv'
  OBVIOUS
<1>1. StoreInv'
  BY StepsOfTheStore, StoreStays DEF ReplayInv
<1> SUFFICES EvalInv' /\ Rejected'
  BY <1>1 DEF EvalInv, ReplayInv
<1>2. CASE BeginReference
  BY <1>2, BeginReferenceStep
<1>3. CASE BeginDut
  BY <1>3, BeginDutStep
<1>4. CASE \E v \in Variants : Call(v) \/ Observe(v)
  BY <1>4, CallStep, ObserveStep
<1>5. CASE CompareOriginal
  BY <1>5, CompareOriginalStep
<1>6. CASE StartReplay
  BY <1>6, StartReplayStep
<1>7. CASE CompareReplay
  BY <1>7, CompareReplayStep
<1>8. CASE \E s \in Savers : RivalSaves(s) \/ StoreStep(s)
  <2>1. UNCHANGED evalVars
    BY <1>8 DEF RivalSaves, StoreStep
  <2> QED
    BY <1>8, <2>1, EvalStays, OthersStayAway
<1>9. CASE UNCHANGED vars
  BY <1>9, EvalStays DEF vars, storeVars, evalVars, Rejected, Place, ReplayInv
<1> QED
  BY <1>2, <1>3, <1>4, <1>5, <1>6, <1>7, <1>8, <1>9 DEF Next

\* The invariant of the evaluation, the store and the replay is inductive.
THEOREM ReplayInvariant == Spec => []ReplayInv
  BY ReplayInit, ReplayStep, PTL DEF Spec

\* Whatever a campaign and the replay of its bundle do to the store is what the store
\* allows (StoreSpec), so that the theorems about the store are about them too.
THEOREM ReplayKeepsTheStore == Spec => StoreSpec
<1>1. Init => StoreInit
  BY DEF Init
<1> QED
  BY <1>1, StepsOfTheStore, PTL DEF Spec, StoreSpec

\* What the observer says of objects and contents is true of the file system
\* (ObservationIsTrue), however often numbers are given out again while a program runs.
THEOREM ObservationIsTrueHolds == Spec => []ObservationIsTrue
<1>1. ReplayInv => ObservationIsTrue
  <2> SUFFICES ASSUME ReplayInv, phase \in {"dut", "compare"} PROVE ObservationIsTrue
    BY DEF ObservationIsTrue
  <2> DEFINE observed == seen[IF phase = "dut" THEN "reference" ELSE "dut"]
  <2>1. Tree(disk) /\ Holds(disk, observer, case.fixture)
    BY DEF ReplayInv, Disk
  <2>2. Latest(observed)
    BY DEF ReplayInv, Records
  <2> HIDE DEF observed
  <2>3. DOMAIN observed.post = Names(disk) /\ \A p \in Names(disk) : observed.post[p].data = Contents(disk, observer, p)
    BY <2>2, SnapshotOf DEF Latest
  <2>4. \A p \in Names(disk) : observed.post[p].data = disk.body[disk.object[disk.name[p]]].data
    BY <2>1, <2>3, ContentsTrue
  <2>5. observed.identity =
          {pair \in Paths \X Names(disk) : case.fixture.object[pair[1]] = disk.object[disk.name[pair[2]]]}
    BY <2>1, <2>2, TransitionsTrue DEF Latest
  <2> QED
    BY <2>3, <2>4, <2>5 DEF ObservationIsTrue, observed
<1> QED
  BY <1>1, ReplayInvariant, PTL

\* Evidence is valid whatever the programs did, unless the clock was set back
\* (EvidenceIsValid).
THEOREM EvidenceIsValidHolds == Spec => []EvidenceIsValid
<1>1. ReplayInv => EvidenceIsValid
  <2> SUFFICES ASSUME ReplayInv, phase = "compare" PROVE ValidEvidence(Evidence(case, sharing, TRUE, seen))
    BY DEF EvidenceIsValid
  <2>1. /\ sharing \in BOOLEAN /\ \A v \in Variants : Consistent(seen[v])
        /\ sharing => seen["reference"].pre = seen["dut"].pre /\ seen["reference"].post = seen["dut"].pre
    BY DEF ReplayInv, ReplayTypeOK, Records, Alone, Variants
  <2> QED
    BY <2>1, EvidenceValid
<1> QED
  BY <1>1, ReplayInvariant, PTL

\* No mismatch is lost for want of a signature, and what was saved passes every check of
\* the replay unless its manifest was cut short (SavedReplays).
THEOREM SavedReplaysHolds == Spec => []SavedReplays
<1>1. ReplayInv => SavedReplays
  BY DEF ReplayInv, Rejected, SavedReplays
<1> QED
  BY <1>1, ReplayInvariant, PTL

\* A replay reports the saved mismatch exactly if both programs did again what they had
\* done, up to a renumbering of the inodes (ReproducedMeansSame).
THEOREM ReproducedMeansSameHolds == Spec => []ReproducedMeansSame
<1>1. ReplayInv => ReproducedMeansSame
  BY DEF ReplayInv
<1> QED
  BY <1>1, ReplayInvariant, PTL

\* The difference printed with a mismatch rebuilds both outputs and keeps as many
\* lines of one in the other as possible (DiffRebuilds).
THEOREM DiffRebuildsHolds == Spec => []DiffRebuilds
<1>1. ReplayInv => DiffRebuilds
  <2> SUFFICES ASSUME ReplayInv, phase = "compare" PROVE DiffRebuilds
    BY DEF DiffRebuilds
  <2> DEFINE left == seen["reference"].stdout
             right == seen["dut"].stdout
  <2>1. Consistent(seen["reference"]) /\ Consistent(seen["dut"])
    BY DEF ReplayInv, Records
  <2>2. left \in Seq(STRING) /\ right \in Seq(STRING)
    BY <2>1, BehavioursAssumption DEF Consistent
  <2> HIDE DEF left, right
  <2>3. LET diff == DiffLines(left, right)
        IN /\ Rebuilds(diff, {"equal", "remove"}, left)
           /\ Rebuilds(diff, {"equal", "add"}, right)
           /\ \A pairs \in Alignments(left, right) :
                Cardinality(pairs) <= Cardinality(Marked(diff, {"equal"}))
    BY <2>2, DiffIsRight
  <2> QED
    BY <2>3 DEF DiffRebuilds, left, right
<1> QED
  BY <1>1, ReplayInvariant, PTL

=============================================================================
