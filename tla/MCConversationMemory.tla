------------------------ MODULE MCConversationMemory ------------------------
(* Instances of ConversationMemory for TLC.                                *)
EXTENDS ConversationMemory

MCTokens == [r \in {"human", "ai"} |-> IF r = "human" THEN 1 ELSE 2]
=============================================================================
