--------------------------- MODULE SequentialChain ---------------------------
(***************************************************************************)
(* chains/sequential.go: chains are checked against each other when they   *)
(* are put in a sequence, and each hands its outputs to the next when the  *)
(* sequence is called.  The check adds up every key it has met, the call   *)
(* passes on the outputs of one chain only.                                *)
(*                                                                         *)
(* A map of values is the set of its keys; a chain is what it declares     *)
(* (input keys, output keys) and the keys its own memory supplies.         *)
(***************************************************************************)
EXTENDS Integers, Sequences, FiniteSets

CONSTANTS
    Keys,           \* the keys in use
    Kinds,          \* of "sequential" and "simple", the sequences made
    MaxChains       \* bound on the chains in a sequence

VARIABLES
    kind,           \* SequentialChain or SimpleSequentialChain
    keys,           \* the input, output and memory keys of the sequence
    chains,         \* the chains checked so far
    knownKeys,      \* the keys the check knows of
    pc,             \* "check", "rejected", "made", "call" or "returned"
    at,             \* the chain that is called next
    inputs,         \* the values that chain is called with
    outcome         \* how the call of the sequence ended

vars == <<kind, keys, chains, knownKeys, pc, at, inputs, outcome>>

Chain == [in : SUBSET Keys, out : SUBSET Keys, memory : SUBSET Keys]

Outcomes == {"none", "ok", "missingInput", "wrongInputs", "missingOutput", "chainError"}

TypeOK ==
    /\ kind \in Kinds
    /\ keys \in Chain
    /\ chains \in Seq(Chain) /\ Len(chains) <= MaxChains
    /\ knownKeys \subseteq Keys
    /\ pc \in {"check", "rejected", "made", "call", "returned"}
    /\ at \in 1..(MaxChains + 1)
    /\ inputs \subseteq Keys
    /\ outcome \in Outcomes
-----------------------------------------------------------------------------
(* validateSeqChain and validateSimpleSeq.                                 *)

(* Input and memory keys may not overlap; both are known from the start.   *)
Init ==
    /\ kind \in Kinds
    /\ keys \in {k \in Chain : k.in \cap k.memory = {}}
    /\ chains = <<>>
    /\ knownKeys = keys.in \cup keys.memory
    /\ pc = "check"
    /\ at = 1
    /\ inputs = {}
    /\ outcome = "none"

Reject ==
    /\ pc' = "rejected"
    /\ UNCHANGED <<kind, keys, chains, knownKeys, at, inputs, outcome>>

(* Deviation: only the outputs of the latest chain are remembered.         *)
AcceptsForgetful(c) ==
    /\ c.in \subseteq knownKeys
    /\ Len(chains) > 0 => c.out \cap chains[Len(chains)].out = {}

(* Deviation: nobody checks that the inputs are known.                     *)
AcceptsAnyInput(c) == c.out \cap knownKeys = {}

(* Deviation: a simple chain may have any number of inputs.                *)
AcceptsWide(c) ==
    IF kind = "simple"
    THEN Cardinality(c.out) = 1
    ELSE c.in \subseteq knownKeys /\ c.out \cap knownKeys = {}

(* What the check asks of chain c after the chains before it.              *)
Accepts(c) ==
    IF kind = "simple"
    THEN Cardinality(c.in) = 1 /\ Cardinality(c.out) = 1
    ELSE c.in \subseteq knownKeys /\ c.out \cap knownKeys = {}

CheckChain ==
    /\ pc = "check"
    /\ Len(chains) < MaxChains
    /\ \E c \in {d \in Chain : d.memory \subseteq d.in} :
          \/ /\ Accepts(c)
             /\ chains' = Append(chains, c)
             /\ knownKeys' = IF kind = "simple" THEN knownKeys
                                               ELSE knownKeys \cup c.out
             /\ UNCHANGED <<kind, keys, pc, at, inputs, outcome>>
          \/ ~Accepts(c) /\ Reject

(* All chains are checked; the output keys have to be known as well.       *)
CheckOutputKeys ==
    /\ pc = "check"
    /\ \/ /\ kind = "simple" \/ keys.out \subseteq knownKeys
          /\ pc' = "made"
          /\ UNCHANGED <<kind, keys, chains, knownKeys, at, inputs, outcome>>
       \/ /\ kind = "sequential" /\ ~(keys.out \subseteq knownKeys)
          /\ Reject
-----------------------------------------------------------------------------
(* Call of the sequence, by way of chains.Call.                            *)

Return(o) ==
    /\ pc' = "returned"
    /\ outcome' = o

(* The caller supplies all input keys, perhaps more, and the memory its    *)
(* own; both reach the first chain.                                        *)
Call ==
    /\ pc = "made"
    /\ \E given \in SUBSET Keys :
          /\ keys.in \subseteq given
          /\ inputs' = given \cup keys.memory
    /\ pc' = "call"
    /\ UNCHANGED <<kind, keys, chains, knownKeys, at, outcome>>

(* chains.Run finds out which input the value is for; chains.Call looks    *)
(* for the declared inputs in the values and in the memory of the chain.   *)
WrongInputs ==
    /\ pc = "call" /\ at <= Len(chains)
    /\ kind = "simple"
    /\ Cardinality(chains[at].in \ chains[at].memory) # 1
    /\ Return("wrongInputs")
    /\ UNCHANGED <<kind, keys, chains, knownKeys, at, inputs>>

MissingInput ==
    /\ pc = "call" /\ at <= Len(chains)
    /\ kind = "sequential"
    /\ ~(chains[at].in \subseteq inputs \cup chains[at].memory)
    /\ Return("missingInput")
    /\ UNCHANGED <<kind, keys, chains, knownKeys, at, inputs>>

Ready ==
    /\ pc = "call" /\ at <= Len(chains)
    /\ IF kind = "simple"
       THEN Cardinality(chains[at].in \ chains[at].memory) = 1
       ELSE chains[at].in \subseteq inputs \cup chains[at].memory

(* The chain fails, or does not return the outputs it declares.            *)
ChainFails ==
    /\ Ready
    /\ Return("chainError")
    /\ UNCHANGED <<kind, keys, chains, knownKeys, at, inputs>>

(* The outputs, and nothing else, are the inputs of the next chain.        *)
ChainReturns ==
    /\ Ready
    /\ \E produced \in SUBSET Keys :
          /\ chains[at].out \subseteq produced
          /\ inputs' = produced
    /\ at' = at + 1
    /\ UNCHANGED <<kind, keys, chains, knownKeys, pc, outcome>>

(* The outputs of the last chain are those of the sequence.                *)
Finish ==
    /\ pc = "call" /\ at > Len(chains)
    /\ LET outputs == IF chains = <<>> THEN {} ELSE inputs IN
          Return(IF kind = "simple" \/ keys.out \subseteq outputs
                 THEN "ok" ELSE "missingOutput")
    /\ UNCHANGED <<kind, keys, chains, knownKeys, at, inputs>>
-----------------------------------------------------------------------------
Next ==
    \/ CheckChain \/ CheckOutputKeys
    \/ Call \/ WrongInputs \/ MissingInput \/ ChainFails \/ ChainReturns \/ Finish

Spec == Init /\ [][Next]_vars
-----------------------------------------------------------------------------
(***************************************************************************)
(* Properties.                                                             *)
(***************************************************************************)

Sequential == kind = "sequential" /\ pc # "rejected"

(* Who supplies a key when the i-th chain is called.                       *)
SuppliedBefore(i) ==
    keys.in \cup keys.memory \cup UNION {chains[j].out : j \in 1..(i - 1)}

(* In a sequence that passed the check every key has one source: no chain  *)
(* declares an output that an input, the memory or another chain has too,  *)
(* so that no value can silently replace another of the same name.         *)
KeysHaveOneSource ==
    Sequential => \A i \in DOMAIN chains :
                      chains[i].out \cap SuppliedBefore(i) = {}

(* A call of a checked sequence misses a key only because the key was      *)
(* supplied too early: by the inputs, the memory or a chain further up,    *)
(* and not by the chain just before.  The first chain misses nothing.      *)
MissingWasSuppliedEarlier ==
    /\ outcome = "missingInput" =>
          /\ at > 1
          /\ \E k \in chains[at].in :
                k \in SuppliedBefore(at) \ chains[at - 1].out
    /\ outcome = "missingOutput" =>
          \E k \in keys.out :
             /\ k \in SuppliedBefore(Len(chains) + 1)
             /\ chains # <<>> => k \notin chains[Len(chains)].out

(* A pipeline: each chain is content with the outputs of the one before.   *)
Pipeline ==
    IF kind = "simple"
    THEN \A i \in DOMAIN chains : chains[i].memory = {}
    ELSE /\ \A i \in 2..Len(chains) :
               chains[i].in \subseteq chains[i - 1].out \cup chains[i].memory
         /\ chains = <<>> => keys.out = {}
         /\ chains # <<>> => keys.out \subseteq chains[Len(chains)].out

(* A pipeline that passed the check runs to its end unless a chain fails,  *)
(* and so does a simple sequence of chains without memory.                 *)
PipelineRuns ==
    Pipeline => outcome \notin {"missingInput", "wrongInputs", "missingOutput"}

(* "Check that chain has input keys that are in knownKeys"                 *)
(* (sequential.go:64): what the check accepts has its inputs when called.  *)
CheckedChainsHaveInputs == outcome # "missingInput"
-----------------------------------------------------------------------------
(***************************************************************************)
(* The inductive invariant: what the check has added up, what it has found *)
(* out about every chain, and what the next chain is sure to be given.     *)
(***************************************************************************)

Checked(i) ==
    IF kind = "simple"
    THEN Cardinality(chains[i].in) = 1
    ELSE /\ chains[i].in \subseteq SuppliedBefore(i)
         /\ chains[i].out \cap SuppliedBefore(i) = {}

Known ==
    /\ \A i \in DOMAIN chains : Checked(i)
    /\ kind = "sequential" => knownKeys = SuppliedBefore(Len(chains) + 1)
    /\ kind = "sequential" /\ pc \in {"made", "call", "returned"} =>
          keys.out \subseteq knownKeys

Given ==
    /\ pc \in {"check", "made"} => at = 1
    /\ pc \in {"call", "returned"} =>
          /\ at \in 1..(Len(chains) + 1)
          /\ at = 1 => keys.in \cup keys.memory \subseteq inputs
          /\ at > 1 => chains[at - 1].out \subseteq inputs
    /\ outcome # "none" => pc = "returned"
    /\ outcome = "missingInput" =>
          /\ kind = "sequential" /\ at \in DOMAIN chains
          /\ ~(chains[at].in \subseteq inputs \cup chains[at].memory)
    /\ outcome = "wrongInputs" =>
          /\ kind = "simple" /\ at \in DOMAIN chains
          /\ Cardinality(chains[at].in \ chains[at].memory) # 1
    /\ outcome = "missingOutput" =>
          /\ kind = "sequential" /\ at = Len(chains) + 1
          /\ ~(keys.out \subseteq (IF chains = <<>> THEN {} ELSE inputs))

IInv == TypeOK /\ Known /\ Given
=============================================================================
