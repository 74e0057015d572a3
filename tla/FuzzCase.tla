-------------------------------- MODULE FuzzCase --------------------------------
(***************************************************************************)
(* One case from its making (CaseGeneration) to its minimisation (Shrink): *)
(* process_case of fuzz/campaign.rs hands a case that mismatched on.       *)
(***************************************************************************)
EXTENDS Shrink, CaseGeneration

fuzzVars == <<vars, caseVars>>

FuzzInit ==
  /\ CaseInit
  /\ pc = "making"
  /\ programs = "any"
  /\ original = [case |-> NoCase, signature |-> NoSignature]
  /\ best = original
  /\ next = 1
  /\ attempts = 0
  /\ used = {}
  /\ refused = {}

Make == pc = "making" /\ CaseNext /\ UNCHANGED vars

\* Any case may mismatch, under any programs; those of Originals are followed
\* further.
HandOver ==
  /\ pc = "making"
  /\ origin \notin {"none", "again"}
  /\ case.argv # Panic
  /\ case \in Originals
  /\ programs' \in Programs
  /\ \E s \in Outcomes(programs', case) : original' = [case |-> case, signature |-> s]
  /\ best' = original'
  /\ pc' = "begin"
  /\ UNCHANGED <<next, attempts, used, refused, caseVars>>

FuzzNext == Make \/ HandOver \/ (pc # "making" /\ Next /\ UNCHANGED caseVars)

FuzzSpec == FuzzInit /\ [][FuzzNext]_fuzzVars

-----------------------------------------------------------------------------

\* No generated case, mutation of one, scenario or mutation of a scenario, and
\* no case the reducer tries on the way down from any case, has a fixture that
\* cannot be put on disk or a working directory that is not in it (the test at
\* fuzz/shrink.rs:783 and random_cwd of fuzz/input/system_state.rs): a run
\* that cannot start would be counted as a failure of the tools.
CasesLaunch ==
  /\ origin # "explicit" => ValidFixture(case.fixture) /\ Launchable(case)
  /\ CandidatesLaunch
=============================================================================
