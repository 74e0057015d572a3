------------------------------- MODULE MCCampaign -------------------------------
(* An instance of Campaign whose scenarios and corpus both run out.         *)
EXTENDS Campaign

MCMaxIterations == 5
MCScenarios == 1
MCMaxCases == 2
=============================================================================
