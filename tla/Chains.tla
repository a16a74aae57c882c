------------------------------- MODULE Chains -------------------------------
(* How chains are called: all inputs of one chain by a pool of workers         *)
(* (ChainApply), one chain after the other (SequentialChain), and one memory   *)
(* by several goroutines (ConversationMemory). They share one state space:     *)
(* `part` says which of the three a behaviour is about. A variable that is not *)
(* of the part stays None.                                                     *)
EXTENDS Naturals, Integers, FiniteSets, Sequences

CONSTANTS N, maxWorkers, CanCancel, CanFail,        \* of ChainApply
          Keys, SequenceKinds, MaxChains,              \* of SequentialChain, its Kinds
          Callers, MaxCalls, Kinds, windowSize, MaxTokenLimit, Tokens,
          Stores, Overwrite, FaultyStore, BadValues \* of ConversationMemory

ASSUME ApplyAssumption == N \in Nat /\ maxWorkers \in Int
ASSUME SequenceAssumption == SequenceKinds \subseteq {"sequential", "simple"} /\ MaxChains \in Nat
ASSUME MemoryAssumption ==
    /\ IsFiniteSet(Callers)
    /\ Kinds \subseteq {"simple", "buffer", "window", "token"}
    /\ Stores \subseteq {"memory", "script", "batch", "stepwise"}
    /\ MaxCalls \in Nat /\ windowSize \in Int /\ MaxTokenLimit \in Int
    /\ Tokens \in [{"human", "ai"} -> Nat]
ASSUME FaultsAssumption ==
    {CanCancel, CanFail, Overwrite, FaultyStore, BadValues} \subseteq BOOLEAN

VARIABLES part, pc, calls, kind, outcome,
          sent, taken, worker, resultsChan, closed, got, results, err, canceled,
          keys, chains, knownKeys, at, inputs,
          store, call, history, open, loaded, fetched, events, written, cleared

ofApply == <<sent, taken, worker, resultsChan, closed, got, results, err, canceled>>
ofSequence == <<keys, chains, knownKeys, at, inputs>>
ofMemory == <<store, call, history, open, loaded, fetched, events, written, cleared>>
vars == <<part, pc, calls, kind, outcome, ofApply, ofSequence, ofMemory>>

Applying == INSTANCE ChainApply
Sequencing == INSTANCE SequentialChain WITH Kinds <- SequenceKinds
Sharing == INSTANCE ConversationMemory_proofs

----------------------------------------------------------------------------
None == "none"

NoApply == /\ sent = None /\ taken = None /\ worker = None /\ resultsChan = None
           /\ closed = None /\ got = None /\ results = None /\ err = None
           /\ canceled = None
NoSequence == /\ keys = None /\ chains = None /\ knownKeys = None /\ at = None
              /\ inputs = None
NoMemory == /\ store = None /\ call = None /\ history = None /\ open = None
            /\ loaded = None /\ fetched = None /\ events = None /\ written = None
            /\ cleared = None

Init ==
    \/ /\ part = "apply" /\ Applying!Init /\ kind = None /\ outcome = None
       /\ NoSequence /\ NoMemory
    \/ part = "sequence" /\ Sequencing!Init /\ calls = None /\ NoApply /\ NoMemory
    \/ part = "memory" /\ Sharing!Init /\ NoApply /\ NoSequence

Apply == part = "apply" /\ UNCHANGED <<part, kind, outcome, ofSequence, ofMemory>>

Cancel == Apply /\ Applying!Cancel
Caller == Apply /\ Applying!Caller
CloseResults == Apply /\ Applying!CloseResults
Worker(w) == Apply /\ Applying!Worker(w)

Sequence == /\ part = "sequence" /\ Sequencing!Next
            /\ UNCHANGED <<part, calls, ofApply, ofMemory>>
Remember == part = "memory" /\ Sharing!Next /\ UNCHANGED <<part, ofApply, ofSequence>>

Next == \/ Cancel \/ Caller \/ CloseResults \/ \E w \in Applying!Workers : Worker(w)
        \/ Sequence \/ Remember

\* The goroutines of Apply are scheduled, and every call of the chain returns.
Spec == /\ Init /\ [][Next]_vars
        /\ WF_vars(Caller) /\ WF_vars(CloseResults)
        /\ \A w \in Applying!Workers : WF_vars(Worker(w))

----------------------------------------------------------------------------
(* The state of each part keeps its types. *)
TypeOK == /\ part = "apply" => Applying!TypeOK
          /\ part = "sequence" => Sequencing!TypeOK
          /\ part = "memory" => Sharing!TypeOK

(* Apply "executes the chain for each of the inputs" (chains.go:167): a success
   under a live context has the answer of each input at its index, whatever the
   order in which the workers answered. *)
ResultsComplete == part = "apply" /\ ~canceled => Applying!ResultsComplete

(* No input is given to the chain twice, also when the caller leaves early, and a
   success under a live context means that each was given to it: an input repeated or
   lost repeats or loses the effects of a call (its memory, its callbacks). *)
EachInputOnce ==
    part = "apply" =>
        /\ \A i \in Applying!Indices : calls[i] <= 1
        /\ ~canceled => Applying!EachInputOnce

(* When Apply reports success nothing of it is still at work on an input, although
   the context may have been cancelled at any time. *)
QuietAfterSuccess == part = "apply" => Applying!QuietAfterSuccess

(* A worker always finds room for its answer, also when the caller has returned. *)
SendNeverBlocks == part = "apply" => Applying!SendNeverBlocks

(* Apply returns, whatever fails. *)
ApplyReturns == <>(part = "apply" => Applying!Returned)

(* The workers and the closer of Apply end, also when the caller has left early. *)
NoWorkerLeft == <>(part = "apply" => Applying!NoneLeft)

(* In a sequence that passed the check no value can replace another of its name. *)
KeysHaveOneSource == part = "sequence" => Sequencing!KeysHaveOneSource

(* A checked sequence misses a key only because it was supplied too early. *)
MissingWasSuppliedEarlier == part = "sequence" => Sequencing!MissingWasSuppliedEarlier

(* A checked pipeline runs to its end unless a chain fails. *)
PipelineRuns == part = "sequence" => Sequencing!PipelineRuns

(* Goroutines that share a memory may lose messages by a stale replacement and bring
   pruned ones back, but none is repeated or reordered. *)
HistoryInOrder == part = "memory" => Sharing!HistoryInOrder
=============================================================================
