-------------------------- MODULE MCAgentExecutor --------------------------
(* Instances of AgentExecutor for TLC.                                     *)
EXTENDS AgentExecutor

MCUpper == [n \in Names |-> IF n = "oops" THEN "oops" ELSE "Search"]

(* Two tools whose names differ in case only.                              *)
TwoTools == <<"Search", "search">>
=============================================================================
