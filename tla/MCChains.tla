------------------------------ MODULE MCChains ------------------------------
(* Instances of Chains for TLC. *)
EXTENDS Chains

MCTokens == [r \in {"human", "ai"} |-> IF r = "human" THEN 1 ELSE 2]
=============================================================================
