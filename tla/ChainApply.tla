----------------------------- MODULE ChainApply -----------------------------
(***************************************************************************)
(* chains/chains.go, Apply: a chain is called for every input by a pool of *)
(* workers.  The caller puts all jobs into a buffered channel and closes   *)
(* it, then collects one answer per input from a second buffered channel,  *)
(* which a closer goroutine closes when the last worker is gone.  Workers  *)
(* and caller leave early when the context is cancelled, the caller also   *)
(* at the first error.                                                     *)
(*                                                                         *)
(* Inputs are their indices; the answer to input i is Answer(i), and Nil   *)
(* stands for a nil map.  The job channel always holds the indices that    *)
(* were sent and not taken yet, in order, so two counters stand for it.    *)
(***************************************************************************)
EXTENDS Integers, Sequences, FiniteSets

CONSTANTS
    N,              \* len(inputValues)
    maxWorkers,     \* the argument of Apply, any integer
    CanCancel,      \* may the context be cancelled?
    CanFail         \* may a call of the chain fail?

VARIABLES
    pc,             \* caller: "send", "collect" or "returned"
    sent,           \* jobs put into inputJobs
    taken,          \* jobs taken from inputJobs
    worker,         \* the state of each worker and the job it holds
    resultsChan,    \* answers waiting for the caller
    closed,         \* resultsChan is closed
    got,            \* answers received by the caller
    results,        \* the answer stored for each input
    err,            \* the error Apply returns: "nil", "call" or "canceled"
    canceled,       \* the context is cancelled
    calls           \* how often the chain was called for each input

vars == <<pc, sent, taken, worker, resultsChan, closed, got, results, err,
          canceled, calls>>
-----------------------------------------------------------------------------
_defaultApplyMaxNumberWorkers == 5

Workers == 1..(IF maxWorkers <= 0 THEN _defaultApplyMaxNumberWorkers ELSE maxWorkers)

Indices == 0..(N - 1)

Nil == 0
Answer(i) == i + 1

(* What a worker sends, and what a receive on the closed channel yields.   *)
applyResult == [result : {Nil} \cup {Answer(i) : i \in Indices},
                err : {"nil", "call"}, i : Indices]
ZeroResult == [result |-> Nil, err |-> "nil", i |-> 0]

(* Deviation: resultsChan is made without a buffer for every input.        *)
CapacityOne == 1

(* cap(resultsChan)                                                        *)
Capacity == N

TypeOK ==
    /\ pc \in {"send", "collect", "returned"}
    /\ sent \in 0..N /\ taken \in 0..sent
    /\ worker \in [Workers -> [state : {"select", "calling", "sending", "done"},
                               job : Indices \cup {-1},
                               err : {"nil", "call"}]]
    /\ resultsChan \in Seq(applyResult)
    /\ closed \in BOOLEAN
    /\ got \in 0..N
    /\ results \in [Indices -> {Nil} \cup {Answer(i) : i \in Indices}]
    /\ err \in {"nil", "call", "canceled"}
    /\ canceled \in BOOLEAN
    /\ calls \in [Indices -> Nat]

Idle == [state |-> "select", job |-> -1, err |-> "nil"]

Init ==
    /\ pc = "send"
    /\ sent = 0
    /\ taken = 0
    /\ worker = [w \in Workers |-> Idle]
    /\ resultsChan = <<>>
    /\ closed = FALSE
    /\ got = 0
    /\ results = [i \in Indices |-> Nil]
    /\ err = "nil"
    /\ canceled = FALSE
    /\ calls = [i \in Indices |-> 0]
-----------------------------------------------------------------------------
(* The context of the caller is cancelled at any time.                     *)
Cancel ==
    /\ CanCancel
    /\ ~canceled
    /\ canceled' = TRUE
    /\ UNCHANGED <<pc, sent, taken, worker, resultsChan, closed, got, results,
                   err, calls>>

(* Deviation: one job too many is sent.                                    *)
SendJobOnceMore ==
    /\ pc = "send"
    /\ sent <= N
    /\ sent' = sent + 1
    /\ UNCHANGED <<pc, taken, worker, resultsChan, closed, got, results, err,
                   canceled, calls>>

(* sendApplyInputJobs: the buffer takes every job without blocking.        *)
SendJob ==
    /\ pc = "send"
    /\ sent < N
    /\ sent' = sent + 1
    /\ UNCHANGED <<pc, taken, worker, resultsChan, closed, got, results, err,
                   canceled, calls>>

CloseJobs ==
    /\ pc = "send"
    /\ sent = N
    /\ pc' = "collect"
    /\ UNCHANGED <<sent, taken, worker, resultsChan, closed, got, results, err,
                   canceled, calls>>
-----------------------------------------------------------------------------
(* Worker w.  Its select picks any case that is ready.                     *)

Leave(w) ==
    /\ worker[w].state = "select"
    /\ \/ canceled
       \/ pc # "send" /\ taken = sent      \* closed and drained
    /\ worker' = [worker EXCEPT ![w].state = "done"]
    /\ UNCHANGED <<pc, sent, taken, resultsChan, closed, got, results, err,
                   canceled, calls>>

TakeJob(w) ==
    /\ worker[w].state = "select"
    /\ taken < sent
    /\ taken' = taken + 1
    /\ worker' = [worker EXCEPT ![w] =
                     [state |-> "calling", job |-> taken, err |-> "nil"]]
    /\ calls' = [calls EXCEPT ![taken] = @ + 1]
    /\ UNCHANGED <<pc, sent, resultsChan, closed, got, results, err, canceled>>

(* Deviation: a worker calls the chain again after an error.               *)
CallRetries(w) ==
    /\ worker[w].state = "calling"
    /\ \/ /\ worker' = [worker EXCEPT ![w].state = "sending"]
          /\ UNCHANGED calls
       \/ /\ CanFail
          /\ worker' = [worker EXCEPT ![w].state = "sending", ![w].err = "call"]
          /\ calls' = [calls EXCEPT ![worker[w].job] = @ + 1]
    /\ UNCHANGED <<pc, sent, taken, resultsChan, closed, got, results, err,
                   canceled>>

(* Call returns, with or without an error.                                 *)
CallReturns(w) ==
    /\ worker[w].state = "calling"
    /\ \/ worker' = [worker EXCEPT ![w].state = "sending"]
       \/ /\ CanFail
          /\ worker' = [worker EXCEPT ![w].state = "sending", ![w].err = "call"]
    /\ UNCHANGED <<pc, sent, taken, resultsChan, closed, got, results, err,
                   canceled, calls>>

(* The answer of worker w, tagged with the index of its input.             *)
Tagged(w) ==
    [result |-> IF worker[w].err = "nil" THEN Answer(worker[w].job) ELSE Nil,
     err |-> worker[w].err,
     i |-> worker[w].job]

SendResult(w) ==
    /\ worker[w].state = "sending"
    /\ Len(resultsChan) < Capacity
    /\ resultsChan' = Append(resultsChan, Tagged(w))
    /\ worker' = [worker EXCEPT ![w] = Idle]
    /\ UNCHANGED <<pc, sent, taken, closed, got, results, err, canceled, calls>>
-----------------------------------------------------------------------------
(* The closer: wg.Wait(), close(resultsChan).                              *)
CloseResults ==
    /\ ~closed
    /\ \A w \in Workers : worker[w].state = "done"
    /\ closed' = TRUE
    /\ UNCHANGED <<pc, sent, taken, worker, resultsChan, got, results, err,
                   canceled, calls>>
-----------------------------------------------------------------------------
(* getApplyResults: the select of the caller picks any case that is ready. *)

Collecting == pc = "collect" /\ got < N

Return(e) ==
    /\ pc' = "returned"
    /\ err' = e

SeeCancel ==
    /\ Collecting
    /\ canceled
    /\ Return("canceled")
    /\ UNCHANGED <<sent, taken, worker, resultsChan, closed, got, results,
                   canceled, calls>>

(* Deviation: answers are stored in the order in which they arrive.        *)
StoreInOrder(r) ==
    \/ /\ r.err = "nil"
       /\ results' = [results EXCEPT ![got] = r.result]
       /\ got' = got + 1
       /\ UNCHANGED <<pc, err>>
    \/ /\ r.err # "nil"
       /\ Return(r.err)
       /\ UNCHANGED <<results, got>>

(* Deviation: nil answers are skipped and do not count.                    *)
StoreSkippingNil(r) ==
    \/ /\ r.result # Nil
       /\ results' = [results EXCEPT ![r.i] = r.result]
       /\ got' = got + 1
       /\ UNCHANGED <<pc, err>>
    \/ /\ r.result = Nil
       /\ UNCHANGED <<pc, err, results, got>>

(* An answer is stored under its index, an error ends the collection.      *)
Store(r) ==
    \/ /\ r.err = "nil"
       /\ results' = [results EXCEPT ![r.i] = r.result]
       /\ got' = got + 1
       /\ UNCHANGED <<pc, err>>
    \/ /\ r.err # "nil"
       /\ Return(r.err)
       /\ UNCHANGED <<results, got>>

Receive ==
    /\ Collecting
    /\ resultsChan # <<>>
    /\ Store(Head(resultsChan))
    /\ resultsChan' = Tail(resultsChan)
    /\ UNCHANGED <<sent, taken, worker, closed, canceled, calls>>

(* A receive on a closed and empty channel is ready at once.               *)
ReceiveZero ==
    /\ Collecting
    /\ closed /\ resultsChan = <<>>
    /\ Store(ZeroResult)
    /\ UNCHANGED <<sent, taken, worker, resultsChan, closed, canceled, calls>>

(* Deviation: Apply returns as soon as all jobs are taken.                 *)
ReturnEarly ==
    /\ pc = "collect"
    /\ taken = N
    /\ Return("nil")
    /\ UNCHANGED <<sent, taken, worker, resultsChan, closed, got, results,
                   canceled, calls>>

ReturnResults ==
    /\ pc = "collect"
    /\ got = N
    /\ Return("nil")
    /\ UNCHANGED <<sent, taken, worker, resultsChan, closed, got, results,
                   canceled, calls>>
-----------------------------------------------------------------------------
Caller == SendJob \/ CloseJobs \/ SeeCancel \/ Receive \/ ReceiveZero \/ ReturnResults

Worker(w) == Leave(w) \/ TakeJob(w) \/ CallReturns(w) \/ SendResult(w)

Next == Cancel \/ Caller \/ CloseResults \/ \E w \in Workers : Worker(w)

Spec == Init /\ [][Next]_vars
-----------------------------------------------------------------------------
(***************************************************************************)
(* Properties.                                                             *)
(***************************************************************************)

(* Apply "executes the chain for each of the inputs" (chains.go:167): when *)
(* it reports success, each input has its own answer at its own index,     *)
(* whatever the order in which the workers answered.                       *)
ResultsComplete ==
    pc = "returned" /\ err = "nil" => \A i \in Indices : results[i] = Answer(i)

(* No input is given to the chain twice, and a success means that each was *)
(* given to it: a retried or dropped input would repeat or lose the        *)
(* effects of a chain call (its memory, its callbacks, its model calls).   *)
EachInputOnce ==
    /\ \A i \in Indices : calls[i] <= 1
    /\ pc = "returned" /\ err = "nil" => \A i \in Indices : calls[i] = 1

(* When Apply reports success nothing of it is still at work on an input.  *)
(* (After an error or a cancellation the workers go on without a reader.)  *)
QuietAfterSuccess ==
    pc = "returned" /\ err = "nil" =>
        \A w \in Workers : worker[w].state \notin {"calling", "sending"}

(* A worker always finds room for its answer, also when the caller has     *)
(* returned and nobody reads the answers any more.                         *)
SendNeverBlocks ==
    \A w \in Workers : worker[w].state = "sending" => Len(resultsChan) < Capacity

Returned == pc = "returned"

(* The workers and the closer have ended.                                  *)
NoneLeft == closed /\ \A w \in Workers : worker[w].state = "done"
-----------------------------------------------------------------------------
(***************************************************************************)
(* The inductive invariant behind the safety properties: an input is in    *)
(* one place at a time (not taken, with a worker, in the channel, stored,  *)
(* or dropped), and only a worker that saw the cancellation leaves inputs  *)
(* behind.                                                                 *)
(***************************************************************************)

Busy(w) == worker[w].state \in {"calling", "sending"}

Stored == {i \in Indices : results[i] # Nil}

InChan(i) == \E k \in DOMAIN resultsChan : resultsChan[k].i = i

(* Jobs are taken in order and given to the chain once.                    *)
JobsInv ==
    /\ pc # "send" => sent = N
    /\ \A i \in Indices : calls[i] = IF i < taken THEN 1 ELSE 0

(* A busy worker has a job of its own.                                     *)
WorkerInv ==
    /\ \A w \in Workers : Busy(w) =>
          /\ worker[w].job \in 0..(taken - 1)
          /\ ~InChan(worker[w].job)
          /\ worker[w].job \notin Stored
    /\ \A v, w \in Workers :
          Busy(v) /\ Busy(w) /\ worker[v].job = worker[w].job => v = w

(* The answers in the channel are to different inputs, none stored yet.    *)
ChanInv ==
    /\ \A k \in DOMAIN resultsChan :
          LET r == resultsChan[k] IN
             /\ r.i < taken
             /\ r.i \notin Stored
             /\ r.err = "nil" => r.result = Answer(r.i)
    /\ \A k, l \in DOMAIN resultsChan :
          resultsChan[k].i = resultsChan[l].i => k = l

(* Stored answers belong to their inputs, and are counted.                 *)
StoredInv ==
    /\ \A i \in Stored : i < taken /\ results[i] = Answer(i)
    /\ ~closed \/ ~canceled => got = Cardinality(Stored)
    /\ err # "nil" => pc = "returned"
    /\ pc = "returned" /\ err = "nil" => got = N

(* Workers leave when the work is done, or when they are told to.          *)
LeaveInv ==
    /\ closed => \A w \in Workers : worker[w].state = "done"
    /\ ~canceled /\ (\E w \in Workers : worker[w].state = "done") =>
          pc # "send" /\ taken = N
    /\ ~canceled /\ err = "nil" =>
          \A i \in 0..(taken - 1) :
             \/ i \in Stored
             \/ InChan(i)
             \/ \E w \in Workers : Busy(w) /\ worker[w].job = i

IInv == TypeOK /\ JobsInv /\ WorkerInv /\ ChanInv /\ StoredInv /\ LeaveInv
=============================================================================
