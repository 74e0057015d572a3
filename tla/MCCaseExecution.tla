---------------------------- MODULE MCCaseExecution ----------------------------
(* CaseExecution with enough ticks that each of staging, reference and DUT    *)
(* can fall into the same tick as its neighbour or into a later one.          *)
EXTENDS CaseExecution
================================================================================
