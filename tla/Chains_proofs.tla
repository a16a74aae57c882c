--------------------------- MODULE Chains_proofs ---------------------------
(***************************************************************************)
(* Theorems about Chains: about Apply for any number of inputs and workers, *)
(* about sequences for any keys and any number of chains, and about a       *)
(* shared memory for any callers and any number of calls. The invariants    *)
(* of ChainApply and SequentialChain are proved here, step by step; those   *)
(* of the memory come from ConversationMemory_proofs. Then the three are    *)
(* put together: a step is one of a part and leaves the others alone.       *)
(***************************************************************************)
EXTENDS Chains, FiniteSetTheorems, TLAPS

USE ApplyAssumption

(* Cardinality is the same wherever it is instantiated.                    *)
LEMMA SameCount == \A S : Applying!Cardinality(S) = Cardinality(S)
BY DEF Applying!Cardinality, Cardinality

(* There are n numbers up to n.                                            *)
LEMMA CountTo == \A n \in Nat : Cardinality(1..n) = n
<1> TAKE n \in Nat
<1>1. 1 \in Int /\ n \in Int
  OBVIOUS
<1> QED
  BY <1>1, FS_Interval

-----------------------------------------------------------------------------
(* Apply.                                                                  *)

(* There is at least one worker.                                           *)
LEMMA SomeWorker == 1 \in Applying!Workers /\ Applying!Workers \subseteq Nat
  BY DEF Applying!Workers, Applying!_defaultApplyMaxNumberWorkers

(* What is in the channel are answers to inputs.                           *)
LEMMA ChanType ==
    ASSUME Applying!TypeOK
    PROVE  \A k \in DOMAIN resultsChan :
              /\ resultsChan[k] \in Applying!applyResult
              /\ resultsChan[k].i \in Applying!Indices
<1>1. resultsChan \in Seq(Applying!applyResult)
  BY DEF Applying!TypeOK
<1>2. \A k \in DOMAIN resultsChan : resultsChan[k] \in Applying!applyResult
  <2> HIDE DEF Applying!applyResult
  <2> QED
    BY <1>1
<1> QED
  BY <1>2 DEF Applying!applyResult

(* The inputs are finitely many, and all are stored when N are.            *)
LEMMA StoredCount ==
    ASSUME Applying!TypeOK
    PROVE  /\ IsFiniteSet(Applying!Stored)
           /\ Cardinality(Applying!Stored) \in 0..N
           /\ Cardinality(Applying!Stored) = N => Applying!Stored = Applying!Indices
<1>1. IsFiniteSet(Applying!Indices) /\ Cardinality(Applying!Indices) = N
  <2>1. 0 \in Int /\ N - 1 \in Int
    OBVIOUS
  <2> QED
    BY <2>1, FS_Interval DEF Applying!Indices
<1>2. Applying!Stored \in SUBSET Applying!Indices
  BY DEF Applying!Stored
<1>3. /\ IsFiniteSet(Applying!Stored)
      /\ Cardinality(Applying!Stored) <= Cardinality(Applying!Indices)
      /\ Cardinality(Applying!Indices) = Cardinality(Applying!Stored) => Applying!Indices = Applying!Stored
  BY <1>1, <1>2, FS_Subset
<1>4. Cardinality(Applying!Stored) \in Nat
  BY <1>3, FS_CardinalityType
<1> QED
  BY <1>1, <1>3, <1>4

(* Nothing is taken, answered or stored at first.                          *)
LEMMA ApplyInit == Applying!Init => Applying!IInv
<1> SUFFICES ASSUME Applying!Init PROVE Applying!IInv
  OBVIOUS
<1>0. /\ worker \in [Applying!Workers -> [state : {"select", "calling", "sending", "done"},
                                  job : Applying!Indices \cup {-1}, err : {"nil", "call"}]]
      /\ results \in [Applying!Indices -> {Applying!Nil} \cup {Applying!Answer(i) : i \in Applying!Indices}]
      /\ calls \in [Applying!Indices -> Nat]
      /\ resultsChan \in Seq(Applying!applyResult)
  BY DEF Applying!Init, Applying!Idle
<1>a. sent \in 0..N /\ taken \in 0..sent /\ got \in 0..N
  BY DEF Applying!Init
<1>1. Applying!TypeOK
  BY <1>0, <1>a, Zenon DEF Applying!Init, Applying!TypeOK
<1>2. Applying!Stored = {}
  BY DEF Applying!Init, Applying!Stored
<1>3. Cardinality(Applying!Stored) = 0
  BY <1>2, FS_EmptySet
<1>4. Applying!StoredInv
  BY <1>2, <1>3, SameCount DEF Applying!Init, Applying!StoredInv
<1>5. Applying!JobsInv /\ Applying!WorkerInv /\ Applying!ChanInv /\ Applying!LeaveInv
  BY DEF Applying!Init, Applying!JobsInv, Applying!WorkerInv, Applying!ChanInv,
     Applying!LeaveInv, Applying!Busy, Applying!Idle, Applying!Indices, Applying!InChan
<1> QED
  BY <1>1, <1>4, <1>5 DEF Applying!IInv
-----------------------------------------------------------------------------
(* The cancellation changes nothing but what workers may do next.          *)
LEMMA CancelStep == ASSUME Applying!IInv, Applying!Cancel PROVE Applying!IInv'
<1>1. Applying!TypeOK'
  BY DEF Applying!IInv, Applying!TypeOK, Applying!Cancel
<1>2. Applying!Stored' = Applying!Stored /\ \A i : Applying!InChan(i)' = Applying!InChan(i)
  BY DEF Applying!Cancel, Applying!Stored, Applying!InChan
<1>3. \A w : Applying!Busy(w)' = Applying!Busy(w)
  BY DEF Applying!Cancel, Applying!Busy
<1>4. Applying!StoredInv'
  BY <1>2 DEF Applying!IInv, Applying!StoredInv, Applying!Cancel
<1>5. Applying!JobsInv' /\ Applying!ChanInv' /\ Applying!LeaveInv'
  BY <1>2 DEF Applying!IInv, Applying!JobsInv, Applying!ChanInv, Applying!LeaveInv, Applying!Cancel
<1>6. Applying!WorkerInv'
  BY <1>2, <1>3 DEF Applying!IInv, Applying!WorkerInv, Applying!Cancel
<1> QED
  BY <1>1, <1>4, <1>5, <1>6 DEF Applying!IInv

(* Sending the jobs and closing their channel leaves all else alone.       *)
LEMMA SendStep ==
    ASSUME Applying!IInv, Applying!SendJob \/ Applying!CloseJobs
    PROVE  Applying!IInv'
<1> USE DEF Applying!SendJob, Applying!CloseJobs
<1>1. Applying!TypeOK'
  BY DEF Applying!IInv, Applying!TypeOK
<1>2. Applying!Stored' = Applying!Stored /\ \A i : Applying!InChan(i)' = Applying!InChan(i)
  BY DEF Applying!Stored, Applying!InChan
<1>3. \A w : Applying!Busy(w)' = Applying!Busy(w)
  BY DEF Applying!Busy
<1>4. Applying!StoredInv'
  BY <1>2 DEF Applying!IInv, Applying!StoredInv
<1>5. Applying!JobsInv' /\ Applying!ChanInv'
  BY <1>2 DEF Applying!IInv, Applying!JobsInv, Applying!ChanInv
<1>6. Applying!WorkerInv'
  BY <1>2, <1>3 DEF Applying!IInv, Applying!WorkerInv
<1>7. Applying!LeaveInv'
  BY <1>2, <1>3 DEF Applying!IInv, Applying!LeaveInv
<1> QED
  BY <1>1, <1>4, <1>5, <1>6, <1>7 DEF Applying!IInv

(* A worker leaves when there is nothing left to take, or is told to.      *)
LEMMA LeaveStep ==
    ASSUME Applying!IInv, NEW v \in Applying!Workers, Applying!Leave(v)
    PROVE  Applying!IInv'
<1> USE DEF Applying!Leave
<1>1. Applying!TypeOK'
  BY DEF Applying!IInv, Applying!TypeOK
<1>2. Applying!Stored' = Applying!Stored /\ \A i : Applying!InChan(i)' = Applying!InChan(i)
  BY DEF Applying!Stored, Applying!InChan
<1>3. /\ \A w \in Applying!Workers : Applying!Busy(w)' = Applying!Busy(w)
      /\ \A w \in Applying!Workers : worker'[w].job = worker[w].job
  BY DEF Applying!Busy, Applying!IInv, Applying!TypeOK
<1>4. Applying!StoredInv'
  BY <1>2 DEF Applying!IInv, Applying!StoredInv
<1>5. Applying!JobsInv' /\ Applying!ChanInv'
  BY <1>2 DEF Applying!IInv, Applying!JobsInv, Applying!ChanInv
<1>6. Applying!WorkerInv'
  BY <1>2, <1>3 DEF Applying!IInv, Applying!WorkerInv
<1>7. Applying!LeaveInv'
  <2>1. closed' => \A w \in Applying!Workers : worker'[w].state = "done"
    BY DEF Applying!IInv, Applying!TypeOK, Applying!LeaveInv
  <2>2. ~canceled => pc # "send" /\ taken = N
    BY DEF Applying!IInv, Applying!JobsInv
  <2> QED
    BY <1>2, <1>3, <2>1, <2>2 DEF Applying!IInv, Applying!LeaveInv
<1> QED
  BY <1>1, <1>4, <1>5, <1>6, <1>7 DEF Applying!IInv

(* The job that is taken is new, and is given to the chain once.           *)
LEMMA TakeJobStep ==
    ASSUME Applying!IInv, NEW v \in Applying!Workers, Applying!TakeJob(v)
    PROVE  Applying!IInv'
<1> USE DEF Applying!TakeJob
<1>a. Applying!TypeOK
  BY DEF Applying!IInv
<1>0. taken \in Applying!Indices /\ taken \in Nat /\ N \in Nat /\ sent \in 0..N /\ taken < sent
  BY <1>a DEF Applying!TypeOK, Applying!Indices
<1>1. Applying!TypeOK'
  <2>1. worker' \in [Applying!Workers -> [state : {"select", "calling", "sending", "done"},
                                 job : Applying!Indices \cup {-1}, err : {"nil", "call"}]]
    BY <1>a, <1>0 DEF Applying!TypeOK
  <2>2. calls' \in [Applying!Indices -> Nat]
    BY <1>a, <1>0 DEF Applying!TypeOK
  <2> QED
    BY <1>a, <1>0, <2>1, <2>2 DEF Applying!TypeOK
<1>2. Applying!Stored' = Applying!Stored /\ \A i : Applying!InChan(i)' = Applying!InChan(i)
  BY DEF Applying!Stored, Applying!InChan
<1>3. /\ Applying!Busy(v)' /\ worker'[v].job = taken /\ ~Applying!Busy(v)
      /\ \A w \in Applying!Workers \ {v} : worker'[w] = worker[w] /\ Applying!Busy(w)' = Applying!Busy(w)
  BY <1>a DEF Applying!Busy, Applying!TypeOK
<1>4. ~Applying!InChan(taken) /\ taken \notin Applying!Stored
  BY <1>0 DEF Applying!IInv, Applying!ChanInv, Applying!StoredInv, Applying!InChan
<1>5. Applying!StoredInv'
  BY <1>0, <1>2 DEF Applying!IInv, Applying!StoredInv, Applying!Stored, Applying!Indices
<1>6. Applying!JobsInv'
  BY <1>a, <1>0 DEF Applying!IInv, Applying!JobsInv, Applying!TypeOK, Applying!Indices
<1>7. Applying!ChanInv'
  <2>1. \A k \in DOMAIN resultsChan : resultsChan[k].i \in Int
    BY <1>a, ChanType DEF Applying!Indices
  <2> QED
    BY <1>0, <1>2, <2>1 DEF Applying!IInv, Applying!ChanInv
<1>8. Applying!WorkerInv'
  BY <1>0, <1>2, <1>3, <1>4 DEF Applying!IInv, Applying!WorkerInv
<1>9. Applying!LeaveInv'
  <2>1. ~closed /\ ~closed'
    BY DEF Applying!IInv, Applying!LeaveInv
  <2>2. ~canceled => \A w \in Applying!Workers : worker[w].state # "done"
    BY <1>0 DEF Applying!IInv, Applying!LeaveInv
  <2>3. ~canceled => \A w \in Applying!Workers : worker'[w].state # "done"
    BY <2>2, <1>3 DEF Applying!Busy
  <2>4. ASSUME ~canceled, err = "nil", NEW i \in 0..(taken' - 1)
        PROVE  \/ i \in Applying!Stored
               \/ Applying!InChan(i)
               \/ \E w \in Applying!Workers : Applying!Busy(w)' /\ worker'[w].job = i
    <3>1. CASE i = taken
      BY <1>3, <3>1
    <3>2. CASE i # taken
      <4>1. i \in 0..(taken - 1)
        BY <1>0, <3>2
      <4> QED
        BY <1>3, <2>4, <4>1 DEF Applying!IInv, Applying!LeaveInv
    <3> QED
      BY <3>1, <3>2
  <2> QED
    BY <1>2, <2>1, <2>3, <2>4 DEF Applying!LeaveInv
<1> QED
  BY <1>1, <1>5, <1>6, <1>7, <1>8, <1>9 DEF Applying!IInv

(* The chain's answer or error stays with the worker.                      *)
LEMMA CallReturnsStep ==
    ASSUME Applying!IInv, NEW v \in Applying!Workers, Applying!CallReturns(v)
    PROVE  Applying!IInv'
<1> USE DEF Applying!CallReturns
<1>a. Applying!TypeOK
  BY DEF Applying!IInv
<1> DEFINE W == [state : {"select", "calling", "sending", "done"},
                 job : Applying!Indices \cup {-1}, err : {"nil", "call"}]
<1>b. worker' \in [Applying!Workers -> W]
  <2>1. worker \in [Applying!Workers -> W] /\ worker[v] \in W
    BY <1>a DEF Applying!TypeOK
  <2>2. PICK e \in {"nil", "call"} :
           worker' = [worker EXCEPT ![v] = [state |-> "sending",
                                            job |-> worker[v].job, err |-> e]]
    <3>1. worker[v] = [state |-> worker[v].state, job |-> worker[v].job,
                       err |-> worker[v].err]
          /\ worker[v].err \in {"nil", "call"}
      BY <2>1
    <3> QED
      BY <2>1, <3>1
  <2>3. [state |-> "sending", job |-> worker[v].job, err |-> e] \in W
    BY <2>1
  <2> HIDE DEF W
  <2> QED
    BY <2>1, <2>2, <2>3
<1>1. Applying!TypeOK'
  BY <1>a, <1>b DEF Applying!TypeOK
<1>2. Applying!Stored' = Applying!Stored /\ \A i : Applying!InChan(i)' = Applying!InChan(i)
  BY DEF Applying!Stored, Applying!InChan
<1>3. \A w \in Applying!Workers :
         /\ Applying!Busy(w)' = Applying!Busy(w)
         /\ worker'[w].job = worker[w].job
         /\ worker'[w].state = "done" <=> worker[w].state = "done"
  <2>1. worker[v].state \in {"calling", "sending"} /\ worker[v].state # "done"
        /\ worker'[v].state \in {"calling", "sending"} /\ worker'[v].state # "done"
        /\ worker'[v].job = worker[v].job
    BY DEF Applying!IInv, Applying!TypeOK
  <2>2. \A w \in Applying!Workers \ {v} : worker'[w] = worker[w]
    BY DEF Applying!IInv, Applying!TypeOK
  <2> QED
    BY <2>1, <2>2 DEF Applying!Busy
<1>4. Applying!StoredInv'
  BY <1>2 DEF Applying!IInv, Applying!StoredInv
<1>5. Applying!JobsInv' /\ Applying!ChanInv'
  BY <1>2 DEF Applying!IInv, Applying!JobsInv, Applying!ChanInv
<1>6. Applying!WorkerInv'
  BY <1>2, <1>3 DEF Applying!IInv, Applying!WorkerInv
<1>7. Applying!LeaveInv'
  BY <1>2, <1>3 DEF Applying!IInv, Applying!LeaveInv
<1> QED
  BY <1>1, <1>4, <1>5, <1>6, <1>7 DEF Applying!IInv

(* The answer that is sent is the only one to its input.                   *)
LEMMA SendResultStep ==
    ASSUME Applying!IInv, NEW v \in Applying!Workers, Applying!SendResult(v)
    PROVE  Applying!IInv'
<1> USE DEF Applying!SendResult
<1>a. Applying!TypeOK /\ Applying!WorkerInv /\ Applying!ChanInv
  BY DEF Applying!IInv
<1> DEFINE j == worker[v].job
<1>b. Applying!Busy(v) /\ j \in 0..(taken - 1) /\ ~Applying!InChan(j) /\ j \notin Applying!Stored
  BY <1>a DEF Applying!Busy, Applying!WorkerInv
<1>c. taken \in Nat /\ taken <= N /\ N \in Nat /\ j \in Applying!Indices
  BY <1>a, <1>b DEF Applying!TypeOK, Applying!Indices
<1>d. Applying!Tagged(v) \in Applying!applyResult /\ Applying!Tagged(v).i = j
  BY <1>a, <1>c DEF Applying!Tagged, Applying!applyResult, Applying!TypeOK
<1>e. Applying!Tagged(v).err = "nil" => Applying!Tagged(v).result = Applying!Answer(j)
  BY DEF Applying!Tagged
<1>f. /\ Len(resultsChan) \in Nat
      /\ DOMAIN resultsChan = 1..Len(resultsChan)
      /\ DOMAIN resultsChan' = 1..(Len(resultsChan) + 1)
      /\ \A k \in DOMAIN resultsChan : resultsChan'[k] = resultsChan[k]
      /\ resultsChan'[Len(resultsChan) + 1] = Applying!Tagged(v)
      /\ resultsChan' \in Seq(Applying!applyResult)
  <2> HIDE DEF Applying!applyResult
  <2> QED
    BY <1>a, <1>d DEF Applying!TypeOK
<1>1. Applying!TypeOK'
  <2>1. worker' \in [Applying!Workers -> [state : {"select", "calling", "sending", "done"},
                                 job : Applying!Indices \cup {-1}, err : {"nil", "call"}]]
    BY <1>a DEF Applying!TypeOK, Applying!Idle
  <2> QED
    BY <1>a, <1>f, <2>1 DEF Applying!TypeOK
<1>2. Applying!Stored' = Applying!Stored /\ \A i : Applying!InChan(i)' <=> Applying!InChan(i) \/ i = j
  BY <1>d, <1>f DEF Applying!Stored, Applying!InChan
<1>3. /\ ~Applying!Busy(v)' /\ worker'[v].state = "select"
      /\ \A w \in Applying!Workers \ {v} : worker'[w] = worker[w] /\ Applying!Busy(w)' = Applying!Busy(w)
  BY <1>a DEF Applying!Busy, Applying!TypeOK, Applying!Idle
<1>4. Applying!StoredInv'
  BY <1>2 DEF Applying!IInv, Applying!StoredInv
<1>5. Applying!JobsInv'
  BY DEF Applying!IInv, Applying!JobsInv
<1>6. Applying!ChanInv'
  <2>1. \A k \in DOMAIN resultsChan' :
           /\ resultsChan'[k].i < taken
           /\ resultsChan'[k].i \notin Applying!Stored
           /\ resultsChan'[k].err = "nil" =>
                 resultsChan'[k].result = Applying!Answer(resultsChan'[k].i)
    BY <1>a, <1>b, <1>c, <1>d, <1>e, <1>f DEF Applying!ChanInv
  <2>2. \A k \in DOMAIN resultsChan : resultsChan[k].i # j
    BY <1>b DEF Applying!InChan
  <2>3. \A k, l \in DOMAIN resultsChan' :
           resultsChan'[k].i = resultsChan'[l].i => k = l
    BY <1>a, <1>d, <1>f, <2>2 DEF Applying!ChanInv
  <2> QED
    BY <1>2, <2>1, <2>3 DEF Applying!ChanInv
<1>7. Applying!WorkerInv'
  BY <1>a, <1>b, <1>2, <1>3 DEF Applying!WorkerInv
<1>8. Applying!LeaveInv'
  <2>1. ~closed
    BY <1>b DEF Applying!IInv, Applying!LeaveInv, Applying!Busy
  <2>2. ~canceled /\ (\E w \in Applying!Workers : worker'[w].state = "done") =>
          pc # "send" /\ taken = N
    BY <1>3 DEF Applying!IInv, Applying!LeaveInv
  <2>3. ASSUME ~canceled, err = "nil", NEW i \in 0..(taken - 1)
        PROVE  \/ i \in Applying!Stored'
               \/ Applying!InChan(i)'
               \/ \E w \in Applying!Workers : Applying!Busy(w)' /\ worker'[w].job = i
    <3>1. \/ i \in Applying!Stored
          \/ Applying!InChan(i)
          \/ \E w \in Applying!Workers : Applying!Busy(w) /\ worker[w].job = i
      BY <2>3 DEF Applying!IInv, Applying!LeaveInv
    <3>2. i = j => Applying!InChan(i)'
      BY <1>2
    <3>3. ASSUME NEW w \in Applying!Workers, Applying!Busy(w), worker[w].job = i, i # j
          PROVE  Applying!Busy(w)' /\ worker'[w].job = i
      BY <1>3, <3>3
    <3> QED
      BY <1>2, <3>1, <3>2, <3>3
  <2> HIDE DEF Applying!SendResult
  <2>4. UNCHANGED <<closed, canceled, err, taken, pc>>
    BY DEF Applying!SendResult
  <2> QED
    BY <2>1, <2>2, <2>3, <2>4 DEF Applying!LeaveInv
<1> QED
  BY <1>1, <1>4, <1>5, <1>6, <1>7, <1>8 DEF Applying!IInv

(* The closer runs when all workers are gone.                              *)
LEMMA CloseResultsStep == ASSUME Applying!IInv, Applying!CloseResults PROVE Applying!IInv'
<1> USE DEF Applying!CloseResults
<1>1. Applying!TypeOK'
  BY DEF Applying!IInv, Applying!TypeOK
<1>2. Applying!Stored' = Applying!Stored /\ \A i : Applying!InChan(i)' = Applying!InChan(i)
  BY DEF Applying!Stored, Applying!InChan
<1>3. \A w : Applying!Busy(w)' = Applying!Busy(w)
  BY DEF Applying!Busy
<1>4. Applying!StoredInv'
  BY <1>2 DEF Applying!IInv, Applying!StoredInv
<1>5. Applying!JobsInv' /\ Applying!ChanInv'
  BY <1>2 DEF Applying!IInv, Applying!JobsInv, Applying!ChanInv
<1>6. Applying!WorkerInv'
  BY <1>2, <1>3 DEF Applying!IInv, Applying!WorkerInv
<1>7. Applying!LeaveInv'
  BY <1>2, <1>3 DEF Applying!IInv, Applying!LeaveInv
<1> QED
  BY <1>1, <1>4, <1>5, <1>6, <1>7 DEF Applying!IInv
-----------------------------------------------------------------------------
(* The caller stops: the context is cancelled or all answers are in.       *)
LEMMA ApplyStops ==
    ASSUME Applying!IInv, Applying!SeeCancel \/ Applying!ReturnResults
    PROVE  Applying!IInv'
<1> USE DEF Applying!SeeCancel, Applying!ReturnResults, Applying!Return, Applying!Collecting
<1>1. Applying!TypeOK'
  BY DEF Applying!IInv, Applying!TypeOK
<1>2. Applying!Stored' = Applying!Stored /\ \A i : Applying!InChan(i)' = Applying!InChan(i)
  BY DEF Applying!Stored, Applying!InChan
<1>3. \A w : Applying!Busy(w)' = Applying!Busy(w)
  BY DEF Applying!Busy
<1>4. Applying!StoredInv'
  BY <1>2 DEF Applying!IInv, Applying!StoredInv
<1>5. Applying!JobsInv' /\ Applying!ChanInv'
  BY <1>2 DEF Applying!IInv, Applying!JobsInv, Applying!ChanInv
<1>6. Applying!WorkerInv'
  BY <1>2, <1>3 DEF Applying!IInv, Applying!WorkerInv
<1>7. Applying!LeaveInv'
  BY <1>2, <1>3 DEF Applying!IInv, Applying!LeaveInv, Applying!StoredInv
<1> QED
  BY <1>1, <1>4, <1>5, <1>6, <1>7 DEF Applying!IInv

(* The caller takes the answer at the head of the channel.                 *)
LEMMA ReceiveStep == ASSUME Applying!IInv, Applying!Receive PROVE Applying!IInv'
<1> USE DEF Applying!Receive
<1>a. Applying!TypeOK /\ Applying!WorkerInv /\ Applying!ChanInv /\ Applying!StoredInv /\ Applying!LeaveInv
  BY DEF Applying!IInv
<1> DEFINE r == Head(resultsChan)
<1>0. PICK j : j = r.i
  OBVIOUS
<1>b. /\ Len(resultsChan) \in Nat \ {0}
      /\ DOMAIN resultsChan = 1..Len(resultsChan)
      /\ DOMAIN resultsChan' = 1..(Len(resultsChan) - 1)
      /\ r = resultsChan[1]
      /\ \A k \in DOMAIN resultsChan' : resultsChan'[k] = resultsChan[k + 1]
      /\ resultsChan' \in Seq(Applying!applyResult)
  <2> HIDE DEF Applying!applyResult
  <2> QED
    BY <1>a DEF Applying!TypeOK
<1>c. /\ r \in Applying!applyResult /\ j \in Applying!Indices
      /\ j < taken /\ j \notin Applying!Stored
      /\ r.err = "nil" => r.result = Applying!Answer(j)
  BY <1>a, <1>b, <1>0, ChanType DEF Applying!ChanInv
<1>d. taken \in Nat /\ taken <= N /\ N \in Nat /\ got \in 0..(N - 1) /\ got < N
  BY <1>a DEF Applying!TypeOK, Applying!Collecting
<1>e. \A i : Applying!InChan(i)' => Applying!InChan(i)
  BY <1>b DEF Applying!InChan
<1>f. \A i : Applying!InChan(i) => Applying!InChan(i)' \/ i = j
  <2> SUFFICES ASSUME NEW k \in DOMAIN resultsChan, resultsChan[k].i # j
               PROVE  \E l \in DOMAIN resultsChan' : resultsChan'[l].i = resultsChan[k].i
    BY DEF Applying!InChan
  <2>1. k # 1 /\ k - 1 \in DOMAIN resultsChan'
    BY <1>0, <1>b
  <2> QED
    BY <1>b, <2>1
<1>g. ~Applying!InChan(j)'
  <2> SUFFICES ASSUME NEW k \in DOMAIN resultsChan', resultsChan'[k].i = j
               PROVE  FALSE
    BY DEF Applying!InChan
  <2>1. k + 1 \in DOMAIN resultsChan /\ resultsChan[k + 1].i = resultsChan[1].i
    BY <1>0, <1>b
  <2>2. 1 \in DOMAIN resultsChan /\ k + 1 # 1
    BY <1>b
  <2> QED
    BY <1>a, <2>1, <2>2 DEF Applying!ChanInv
<1>h. Applying!InChan(j)
  BY <1>0, <1>b DEF Applying!InChan
<1>1. ASSUME r.err = "nil"
      PROVE  /\ Applying!Stored' = Applying!Stored \cup {j}
             /\ results'[j] = Applying!Answer(j) /\ got' = got + 1
             /\ results' \in [Applying!Indices -> {Applying!Nil} \cup {Applying!Answer(i) : i \in Applying!Indices}]
             /\ \A i \in Applying!Indices \ {j} : results'[i] = results[i]
             /\ UNCHANGED <<pc, err>>
  <2>1. results' = [results EXCEPT ![j] = Applying!Answer(j)] /\ got' = got + 1
    BY <1>0, <1>1, <1>c DEF Applying!Store
  <2>2. Applying!Answer(j) # Applying!Nil
    BY <1>c DEF Applying!Answer, Applying!Nil, Applying!Indices
  <2>3. UNCHANGED <<pc, err>>
    BY <1>1 DEF Applying!Store
  <2> QED
    BY <1>a, <1>c, <2>1, <2>2, <2>3 DEF Applying!TypeOK, Applying!Stored
<1>2. ASSUME r.err # "nil"
      PROVE  /\ UNCHANGED <<results, got>> /\ Applying!Stored' = Applying!Stored
             /\ pc' = "returned" /\ err' = r.err
             /\ err' \in {"nil", "call", "canceled"}
  BY <1>2, <1>c DEF Applying!Store, Applying!Return, Applying!applyResult, Applying!Stored
<1>3. Applying!TypeOK'
  <2>1. got' \in 0..N /\ pc' \in {"send", "collect", "returned"}
        /\ err' \in {"nil", "call", "canceled"}
        /\ results' \in [Applying!Indices -> {Applying!Nil} \cup {Applying!Answer(i) : i \in Applying!Indices}]
    BY <1>1, <1>2, <1>d, <1>a DEF Applying!TypeOK
  <2> QED
    BY <1>a, <1>b, <2>1 DEF Applying!TypeOK
<1>4. Applying!JobsInv'
  BY <1>1, <1>2 DEF Applying!IInv, Applying!JobsInv, Applying!Collecting
<1>5. ~canceled \/ ~closed => got = Cardinality(Applying!Stored)
  BY <1>a, SameCount DEF Applying!StoredInv
<1>6. Applying!StoredInv'
  <2>1. CASE r.err = "nil"
    <3>1. Cardinality(Applying!Stored') = Cardinality(Applying!Stored) + 1
      BY <1>1, <1>a, <1>c, <2>1, StoredCount, FS_AddElement
    <3>2. \A i \in Applying!Stored' : i < taken /\ results'[i] = Applying!Answer(i)
      BY <1>1, <1>a, <1>c, <2>1 DEF Applying!StoredInv, Applying!Stored
    <3>3. pc' = "collect"
      BY <1>1, <2>1 DEF Applying!Collecting
    <3>4. err' # "nil" => pc' = "returned"
      BY <1>1, <1>a, <2>1 DEF Applying!StoredInv
    <3> QED
      BY <1>1, <1>5, <2>1, <3>1, <3>2, <3>3, <3>4, SameCount DEF Applying!StoredInv
  <2>2. CASE r.err # "nil"
    BY <1>2, <1>a, <2>2 DEF Applying!StoredInv
  <2> QED
    BY <2>1, <2>2
<1>7. Applying!Stored' \in {Applying!Stored, Applying!Stored \cup {j}}
  BY <1>1, <1>2
<1>8. Applying!ChanInv'
  <2>1. ASSUME NEW k \in DOMAIN resultsChan'
        PROVE  /\ resultsChan'[k].i < taken
               /\ resultsChan'[k].i \notin Applying!Stored'
               /\ resultsChan'[k].err = "nil" =>
                     resultsChan'[k].result = Applying!Answer(resultsChan'[k].i)
    <3>1. k + 1 \in DOMAIN resultsChan /\ resultsChan'[k] = resultsChan[k + 1]
      BY <1>b
    <3>2. resultsChan'[k].i # j
      BY <1>g DEF Applying!InChan
    <3> QED
      BY <1>7, <1>a, <3>1, <3>2 DEF Applying!ChanInv
  <2>2. ASSUME NEW k \in DOMAIN resultsChan', NEW l \in DOMAIN resultsChan',
               resultsChan'[k].i = resultsChan'[l].i
        PROVE  k = l
    <3>1. k + 1 \in DOMAIN resultsChan /\ l + 1 \in DOMAIN resultsChan
          /\ resultsChan[k + 1].i = resultsChan[l + 1].i
      BY <1>b, <2>2
    <3>2. k + 1 = l + 1
      BY <1>a, <3>1 DEF Applying!ChanInv
    <3> QED
      BY <1>b, <3>2
  <2> QED
    BY <2>1, <2>2 DEF Applying!ChanInv
<1>9. \A w : Applying!Busy(w)' = Applying!Busy(w) /\ worker'[w] = worker[w]
  BY DEF Applying!Busy
<1>10. Applying!WorkerInv'
  <2>1. \A w \in Applying!Workers : Applying!Busy(w) => worker[w].job # j
    BY <1>a, <1>h DEF Applying!WorkerInv
  <2> QED
    BY <1>a, <1>e, <1>7, <1>9, <2>1 DEF Applying!WorkerInv
<1>11. Applying!LeaveInv'
  <2>1. CASE r.err = "nil"
    BY <1>a, <1>f, <1>9, <1>1, <2>1 DEF Applying!LeaveInv
  <2>2. CASE r.err # "nil"
    BY <1>a, <1>9, <1>2, <2>2 DEF Applying!LeaveInv
  <2> QED
    BY <2>1, <2>2
<1> QED
  BY <1>3, <1>4, <1>6, <1>8, <1>10, <1>11 DEF Applying!IInv

(* A receive on the closed channel needs a cancellation: otherwise all     *)
(* answers have been received by then.                                     *)
LEMMA ReceiveZeroStep == ASSUME Applying!IInv, Applying!ReceiveZero PROVE Applying!IInv'
<1> USE DEF Applying!ReceiveZero
<1>a. Applying!TypeOK /\ Applying!WorkerInv /\ Applying!StoredInv /\ Applying!LeaveInv
  BY DEF Applying!IInv
<1>b. N \in Nat /\ got \in 0..(N - 1) /\ 0 \in Applying!Indices /\ got < N
  BY <1>a DEF Applying!TypeOK, Applying!Collecting, Applying!Indices
<1>c. \A i : ~Applying!InChan(i)
  BY DEF Applying!InChan
<1>d. \A w \in Applying!Workers : worker[w].state = "done" /\ ~Applying!Busy(w)
  BY <1>a DEF Applying!LeaveInv, Applying!Busy
<1>1. canceled
  <2> SUFFICES ASSUME ~canceled PROVE FALSE
    OBVIOUS
  <2>1. taken = N
    BY <1>a, <1>d, SomeWorker DEF Applying!LeaveInv
  <2>2. err = "nil"
    BY <1>a DEF Applying!StoredInv, Applying!Collecting
  <2>3. \A i \in 0..(taken - 1) : i \in Applying!Stored
    BY <1>a, <1>c, <1>d, <2>2 DEF Applying!LeaveInv
  <2>4. Applying!Stored = Applying!Indices
    BY <2>1, <2>3 DEF Applying!Stored, Applying!Indices
  <2>5. Cardinality(Applying!Indices) = N
    <3>1. 0 \in Int /\ N - 1 \in Int
      OBVIOUS
    <3> QED
      BY <3>1, FS_Interval DEF Applying!Indices
  <2>6. got = Cardinality(Applying!Stored)
    BY <1>a, SameCount DEF Applying!StoredInv
  <2> QED
    BY <1>b, <2>4, <2>5, <2>6
<1>2. /\ results' = [results EXCEPT ![0] = Applying!Nil]
      /\ got' = got + 1
      /\ UNCHANGED <<pc, err>>
  BY DEF Applying!Store, Applying!ZeroResult
<1>3. Applying!TypeOK'
  <2>1. got' \in 0..N
        /\ results' \in [Applying!Indices -> {Applying!Nil} \cup {Applying!Answer(i) : i \in Applying!Indices}]
    BY <1>a, <1>b, <1>2 DEF Applying!TypeOK
  <2> QED
    BY <1>a, <1>2, <2>1 DEF Applying!TypeOK
<1>4. \A i \in Applying!Stored' : i \in Applying!Stored /\ results'[i] = results[i]
  BY <1>a, <1>b, <1>2 DEF Applying!Stored, Applying!TypeOK
<1>5. Applying!StoredInv'
  BY <1>a, <1>1, <1>2, <1>4 DEF Applying!StoredInv, Applying!Collecting
<1>6. Applying!JobsInv'
  BY <1>2 DEF Applying!IInv, Applying!JobsInv
<1>7. Applying!ChanInv'
  BY DEF Applying!ChanInv
<1>8. Applying!WorkerInv'
  BY <1>d DEF Applying!WorkerInv, Applying!Busy
<1>9. Applying!LeaveInv'
  BY <1>d, <1>1 DEF Applying!LeaveInv
<1> QED
  BY <1>3, <1>5, <1>6, <1>7, <1>8, <1>9 DEF Applying!IInv

(* Every step of Apply keeps the invariant.                                *)
LEMMA ApplyStep ==
    Applying!IInv /\ [Applying!Next]_(Applying!vars) => Applying!IInv'
<1> SUFFICES ASSUME Applying!IInv, [Applying!Next]_(Applying!vars) PROVE Applying!IInv'
  OBVIOUS
<1>1. CASE Applying!Cancel
  BY <1>1, CancelStep
<1>2. CASE Applying!SendJob \/ Applying!CloseJobs
  BY <1>2, SendStep
<1>3. CASE Applying!SeeCancel \/ Applying!ReturnResults
  BY <1>3, ApplyStops
<1>4. CASE Applying!Receive
  BY <1>4, ReceiveStep
<1>5. CASE Applying!ReceiveZero
  BY <1>5, ReceiveZeroStep
<1>6. CASE Applying!CloseResults
  BY <1>6, CloseResultsStep
<1>7. ASSUME NEW w \in Applying!Workers, Applying!Worker(w) PROVE Applying!IInv'
  BY <1>7, LeaveStep, TakeJobStep, CallReturnsStep, SendResultStep DEF Applying!Worker
<1>8. CASE UNCHANGED Applying!vars
  BY <1>8 DEF Applying!IInv, Applying!TypeOK, Applying!JobsInv, Applying!WorkerInv,
     Applying!ChanInv, Applying!StoredInv, Applying!LeaveInv,
              Applying!Busy, Applying!Stored, Applying!InChan, Applying!vars
<1> QED
  BY <1>1, <1>2, <1>3, <1>4, <1>5, <1>6, <1>7, <1>8 DEF Applying!Next, Applying!Caller

(* Apply is a map: unless the context was cancelled, success means that    *)
(* every input has its own answer, for any numbers of inputs and workers.  *)
LEMMA CompleteUnlessCanceled == Applying!IInv => canceled \/ Applying!ResultsComplete
BY StoredCount, SameCount DEF Applying!IInv, Applying!StoredInv, Applying!ResultsComplete,
   Applying!Indices

(* No input is given to the chain twice, and none is skipped.              *)
LEMMA OnceUnlessCanceled == Applying!IInv => canceled \/ Applying!EachInputOnce
<1> SUFFICES ASSUME Applying!IInv, ~canceled PROVE Applying!EachInputOnce
  OBVIOUS
<1>1. \A i \in Applying!Indices : calls[i] = IF i < taken THEN 1 ELSE 0
  BY DEF Applying!IInv, Applying!JobsInv
<1>2. pc = "returned" /\ err = "nil" => \A i \in Applying!Indices : i < taken
  BY StoredCount, SameCount DEF Applying!IInv, Applying!StoredInv
<1> QED
  BY <1>1, <1>2 DEF Applying!EachInputOnce

(* A successful Apply leaves nothing at work, cancelled or not.            *)
LEMMA QuietOnSuccess == Applying!IInv => Applying!QuietAfterSuccess
<1> SUFFICES ASSUME Applying!IInv, pc = "returned", err = "nil", NEW w \in Applying!Workers
             PROVE  ~Applying!Busy(w)
  BY DEF Applying!QuietAfterSuccess, Applying!Busy
<1>1. CASE closed
  BY <1>1 DEF Applying!IInv, Applying!LeaveInv, Applying!Busy
<1>2. CASE ~closed
  <2>1. Applying!Stored = Applying!Indices
    BY <1>2, StoredCount, SameCount DEF Applying!IInv, Applying!StoredInv
  <2>2. Applying!Busy(w) => worker[w].job \in Applying!Indices /\ worker[w].job \notin Applying!Stored
    BY DEF Applying!IInv, Applying!WorkerInv, Applying!TypeOK, Applying!Indices
  <2> QED
    BY <2>1, <2>2
<1> QED
  BY <1>1, <1>2

(* The channel has room for every answer: the answers in it and the one a  *)
(* worker holds belong to different inputs.                                *)
LEMMA RoomForAnswers == Applying!IInv => Applying!SendNeverBlocks
<1> SUFFICES ASSUME Applying!IInv, NEW w \in Applying!Workers, worker[w].state = "sending"
             PROVE  Len(resultsChan) < N
  BY DEF Applying!SendNeverBlocks, Applying!Capacity
<1> DEFINE j == worker[w].job
           Others == Applying!Indices \ {j}
           f == [k \in 1..Len(resultsChan) |-> resultsChan[k].i]
<1>1. j \in Applying!Indices /\ ~Applying!InChan(j)
  BY DEF Applying!IInv, Applying!WorkerInv, Applying!TypeOK, Applying!Busy, Applying!Indices
<1>2. IsFiniteSet(Applying!Indices) /\ Cardinality(Applying!Indices) = N
  <2>1. 0 \in Int /\ N - 1 \in Int
    OBVIOUS
  <2> QED
    BY <2>1, FS_Interval DEF Applying!Indices
<1>3. IsFiniteSet(Others) /\ Cardinality(Others) = N - 1
  BY <1>1, <1>2, FS_RemoveElement
<1>4. Len(resultsChan) \in Nat /\ DOMAIN resultsChan = 1..Len(resultsChan)
  <2>1. resultsChan \in Seq(Applying!applyResult)
    BY DEF Applying!IInv, Applying!TypeOK
  <2> HIDE DEF Applying!applyResult
  <2> QED
    BY <2>1
<1>5. f \in Injection(1..Len(resultsChan), Others)
  <2>1. \A k \in 1..Len(resultsChan) : resultsChan[k].i \in Others
    BY <1>1, <1>4, ChanType DEF Applying!IInv, Applying!InChan
  <2>2. \A k, l \in 1..Len(resultsChan) :
           resultsChan[k].i = resultsChan[l].i => k = l
    BY <1>4 DEF Applying!IInv, Applying!ChanInv
  <2> QED
    BY <2>1, <2>2 DEF Injection, IsInjective
<1>6. Cardinality(1..Len(resultsChan)) <= Cardinality(Others)
  <2> HIDE DEF f, Others
  <2> QED
    BY <1>3, <1>5, FS_Injection
<1>7. Cardinality(1..Len(resultsChan)) = Len(resultsChan)
  <2>1. 1 \in Int /\ Len(resultsChan) \in Int
    BY <1>4
  <2> QED
    BY <1>4, CountTo
<1> QED
  BY <1>3, <1>4, <1>6, <1>7

(* Every variable has its type: no counter of Apply leaves its range.      *)
LEMMA ApplyTypes == Applying!IInv => Applying!TypeOK
BY DEF Applying!IInv

-----------------------------------------------------------------------------
(* Sequences.                                                              *)

USE SequenceAssumption

(* Nothing is checked or called yet.                                       *)
LEMMA SequenceInit == Sequencing!Init => Sequencing!IInv
<1> SUFFICES ASSUME Sequencing!Init PROVE Sequencing!IInv
  OBVIOUS
<1>1. keys \in Sequencing!Chain
  BY DEF Sequencing!Init
<1>2. Sequencing!TypeOK
  BY <1>1 DEF Sequencing!Init, Sequencing!TypeOK, Sequencing!Chain, Sequencing!Outcomes
<1>3. knownKeys = Sequencing!SuppliedBefore(Len(chains) + 1)
  BY DEF Sequencing!Init, Sequencing!SuppliedBefore
<1>4. Sequencing!Known
  BY <1>3 DEF Sequencing!Init, Sequencing!Known
<1>5. Sequencing!Given
  BY DEF Sequencing!Init, Sequencing!Given
<1> QED
  BY <1>2, <1>4, <1>5 DEF Sequencing!IInv

(* The last chain checked adds its outputs to what is supplied.            *)
LEMMA SuppliedStep ==
    ASSUME chains \in Seq(Sequencing!Chain), NEW c \in Sequencing!Chain,
           chains' = Append(chains, c), keys' = keys
    PROVE  /\ Len(chains) \in Nat /\ Len(chains') = Len(chains) + 1
           /\ DOMAIN chains = 1..Len(chains) /\ DOMAIN chains' = 1..Len(chains')
           /\ chains' \in Seq(Sequencing!Chain)
           /\ chains'[Len(chains) + 1] = c
           /\ \A i \in DOMAIN chains : chains'[i] = chains[i]
           /\ \A i \in 1..(Len(chains) + 1) : Sequencing!SuppliedBefore(i)' = Sequencing!SuppliedBefore(i)
           /\ Sequencing!SuppliedBefore(Len(chains) + 1)' =
                 Sequencing!SuppliedBefore(Len(chains) + 1) \cup c.out
<1>1. /\ Len(chains) \in Nat /\ Len(chains') = Len(chains) + 1
      /\ DOMAIN chains = 1..Len(chains) /\ DOMAIN chains' = 1..Len(chains')
      /\ chains' \in Seq(Sequencing!Chain)
      /\ chains'[Len(chains) + 1] = c
      /\ \A i \in DOMAIN chains : chains'[i] = chains[i]
  <2> HIDE DEF Sequencing!Chain
  <2> QED
    OBVIOUS
<1>2. \A i \in 1..(Len(chains) + 1) : \A j \in 1..(i - 1) : chains'[j] = chains[j]
  BY <1>1
<1>3. \A i \in 1..(Len(chains) + 1) : Sequencing!SuppliedBefore(i)' = Sequencing!SuppliedBefore(i)
  <2> TAKE i \in 1..(Len(chains) + 1)
  <2>1. UNION {chains'[j].out : j \in 1..(i - 1)} = UNION {chains[j].out : j \in 1..(i - 1)}
    BY <1>2
  <2> QED
    BY <2>1 DEF Sequencing!SuppliedBefore
<1>4. UNION {chains'[j].out : j \in 1..((Len(chains) + 2) - 1)} =
          (UNION {chains[j].out : j \in 1..((Len(chains) + 1) - 1)}) \cup c.out
  <2>1. 1..((Len(chains) + 2) - 1) = 1..((Len(chains) + 1) - 1) \cup {Len(chains) + 1}
    BY <1>1
  <2>2. \A j \in 1..((Len(chains) + 1) - 1) : chains'[j].out = chains[j].out
    BY <1>1
  <2> QED
    BY <1>1, <2>1, <2>2
<1>5. Sequencing!SuppliedBefore(Len(chains) + 1)' = Sequencing!SuppliedBefore(Len(chains) + 1) \cup c.out
  <2>1. Len(chains') + 1 = Len(chains) + 2
    BY <1>1
  <2> QED
    BY <1>4, <2>1 DEF Sequencing!SuppliedBefore
<1> QED
  BY <1>1, <1>3, <1>5

(* Steps that leave the sequence and what is known of it alone.            *)
LEMMA KnownFrame ==
    ASSUME Sequencing!IInv, UNCHANGED <<kind, keys, chains, knownKeys>>,
           pc' \in {"made", "call", "returned"} =>
               \/ pc \in {"made", "call", "returned"}
               \/ kind = "sequential" => keys.out \subseteq knownKeys
    PROVE  Sequencing!Known'
<1>1. \A i : Sequencing!SuppliedBefore(i)' = Sequencing!SuppliedBefore(i)
  BY DEF Sequencing!SuppliedBefore
<1>2. \A i : Sequencing!Checked(i)' = Sequencing!Checked(i)
  BY <1>1 DEF Sequencing!Checked
<1> QED
  BY <1>1, <1>2 DEF Sequencing!IInv, Sequencing!Known

(* A chain is accepted when what it needs is known and what it adds is not. *)
LEMMA CheckChainStep ==
    ASSUME Sequencing!IInv, Sequencing!CheckChain
    PROVE  Sequencing!IInv'
<1>a. Sequencing!TypeOK /\ Sequencing!Known /\ Sequencing!Given /\ pc = "check"
  BY DEF Sequencing!IInv, Sequencing!CheckChain
<1>1. PICK c \in {d \in Sequencing!Chain : d.memory \subseteq d.in} :
         \/ /\ Sequencing!Accepts(c)
            /\ chains' = Append(chains, c)
            /\ knownKeys' = IF kind = "simple" THEN knownKeys
                                              ELSE knownKeys \cup c.out
            /\ UNCHANGED <<kind, keys, pc, at, inputs, outcome>>
         \/ ~Sequencing!Accepts(c) /\ Sequencing!Reject
  BY DEF Sequencing!CheckChain
<1>2. c \in Sequencing!Chain /\ c.out \subseteq Keys
  BY DEF Sequencing!Chain
<1>3. CASE ~Sequencing!Accepts(c) /\ Sequencing!Reject
  <2>1. Sequencing!TypeOK'
    BY <1>a, <1>3 DEF Sequencing!TypeOK, Sequencing!Reject
  <2>2. Sequencing!Known'
    BY <1>3, KnownFrame DEF Sequencing!Reject
  <2>3. Sequencing!Given'
    BY <1>a, <1>3 DEF Sequencing!Given, Sequencing!Reject
  <2> QED
    BY <2>1, <2>2, <2>3 DEF Sequencing!IInv
<1>4. CASE /\ Sequencing!Accepts(c)
           /\ chains' = Append(chains, c)
           /\ knownKeys' = IF kind = "simple" THEN knownKeys
                                             ELSE knownKeys \cup c.out
           /\ UNCHANGED <<kind, keys, pc, at, inputs, outcome>>
  <2>1. chains \in Seq(Sequencing!Chain) /\ kind \in {"simple", "sequential"}
    BY <1>a DEF Sequencing!TypeOK
  <2>2. /\ Len(chains) \in Nat /\ Len(chains') = Len(chains) + 1
        /\ DOMAIN chains = 1..Len(chains) /\ DOMAIN chains' = 1..Len(chains')
        /\ chains' \in Seq(Sequencing!Chain)
        /\ chains'[Len(chains) + 1] = c
        /\ \A i \in DOMAIN chains : chains'[i] = chains[i]
        /\ \A i \in 1..(Len(chains) + 1) : Sequencing!SuppliedBefore(i)' = Sequencing!SuppliedBefore(i)
        /\ Sequencing!SuppliedBefore(Len(chains) + 1)' =
              Sequencing!SuppliedBefore(Len(chains) + 1) \cup c.out
    BY <1>2, <1>4, <2>1, SuppliedStep
  <2>3. Len(chains') <= MaxChains
    BY <2>2 DEF Sequencing!CheckChain
  <2>4. Sequencing!TypeOK'
    BY <1>a, <1>2, <1>4, <2>2, <2>3 DEF Sequencing!TypeOK
  <2>5. ASSUME NEW i \in DOMAIN chains'
        PROVE  Sequencing!Checked(i)'
    <3>1. CASE i \in DOMAIN chains
      <4>1. Sequencing!Checked(i) /\ chains'[i] = chains[i] /\ Sequencing!SuppliedBefore(i)' = Sequencing!SuppliedBefore(i)
        BY <1>a, <2>2, <3>1 DEF Sequencing!Known
      <4> QED
        BY <1>4, <4>1 DEF Sequencing!Checked
    <3>2. CASE i \notin DOMAIN chains
      <4>1. i = Len(chains) + 1
        BY <2>2, <3>2
      <4>2. chains'[i] = c /\ Sequencing!SuppliedBefore(i)' = Sequencing!SuppliedBefore(Len(chains) + 1)
        BY <2>2, <4>1
      <4>3. CASE kind = "simple"
        BY <1>4, <4>2, <4>3 DEF Sequencing!Checked, Sequencing!Accepts
      <4>4. CASE kind = "sequential"
        <5>1. c.in \subseteq knownKeys /\ c.out \cap knownKeys = {}
          BY <1>4, <4>4 DEF Sequencing!Accepts
        <5>2. knownKeys = Sequencing!SuppliedBefore(Len(chains) + 1)
          BY <1>a, <4>4 DEF Sequencing!Known
        <5> QED
          BY <1>4, <4>2, <4>4, <5>1, <5>2 DEF Sequencing!Checked
      <4> QED
        BY <2>1, <4>3, <4>4
    <3> QED
      BY <3>1, <3>2
  <2>6. Sequencing!Known'
    <3>1. kind' = "sequential" => knownKeys' = Sequencing!SuppliedBefore(Len(chains) + 1)'
      BY <1>a, <1>4, <2>2 DEF Sequencing!Known
    <3>2. pc' = "check"
      BY <1>a, <1>4
    <3> QED
      BY <2>5, <3>1, <3>2 DEF Sequencing!Known
  <2>7. Sequencing!Given'
    BY <1>a, <1>4 DEF Sequencing!Given
  <2> QED
    BY <2>4, <2>6, <2>7 DEF Sequencing!IInv
<1> QED
  BY <1>1, <1>3, <1>4

(* The sequence is made when its own outputs are known.                    *)
LEMMA CheckOutputKeysStep ==
    ASSUME Sequencing!IInv, Sequencing!CheckOutputKeys
    PROVE  Sequencing!IInv'
<1>a. Sequencing!TypeOK /\ Sequencing!Known /\ Sequencing!Given
  BY DEF Sequencing!IInv
<1>1. Sequencing!TypeOK'
  BY <1>a DEF Sequencing!TypeOK, Sequencing!CheckOutputKeys, Sequencing!Reject
<1>2. Sequencing!Known'
  <2>1. UNCHANGED <<kind, keys, chains, knownKeys>>
    BY DEF Sequencing!CheckOutputKeys, Sequencing!Reject
  <2>2. pc' = "rejected" \/ kind = "simple" \/ keys.out \subseteq knownKeys
    BY DEF Sequencing!CheckOutputKeys, Sequencing!Reject
  <2> QED
    BY <2>1, <2>2, KnownFrame
<1>3. Sequencing!Given'
  BY <1>a DEF Sequencing!Given, Sequencing!CheckOutputKeys, Sequencing!Reject
<1> QED
  BY <1>1, <1>2, <1>3 DEF Sequencing!IInv

(* The first chain is given at least the inputs and the memory.            *)
LEMMA CallStep == ASSUME Sequencing!IInv, Sequencing!Call PROVE Sequencing!IInv'
<1>a. Sequencing!TypeOK /\ Sequencing!Given
  BY DEF Sequencing!IInv
<1>b. keys.memory \subseteq Keys /\ Len(chains) \in Nat
  BY <1>a DEF Sequencing!TypeOK, Sequencing!Chain
<1>1. Sequencing!TypeOK'
  BY <1>a, <1>b DEF Sequencing!TypeOK, Sequencing!Call
<1>2. Sequencing!Known'
  BY KnownFrame DEF Sequencing!Call
<1>3. Sequencing!Given'
  BY <1>a, <1>b DEF Sequencing!Given, Sequencing!Call
<1> QED
  BY <1>1, <1>2, <1>3 DEF Sequencing!IInv

(* The call ends at a chain, for the reason that is recorded.              *)
LEMMA SequenceStops ==
    ASSUME Sequencing!IInv, Sequencing!WrongInputs \/ Sequencing!MissingInput \/ Sequencing!ChainFails
    PROVE  Sequencing!IInv'
<1> USE DEF Sequencing!WrongInputs, Sequencing!MissingInput, Sequencing!ChainFails, Sequencing!Return
<1>a. Sequencing!TypeOK /\ Sequencing!Given
  BY DEF Sequencing!IInv
<1>b. Len(chains) \in Nat /\ DOMAIN chains = 1..Len(chains)
  <2> HIDE DEF Sequencing!WrongInputs, Sequencing!MissingInput, Sequencing!ChainFails
  <2>1. chains \in Seq(Sequencing!Chain)
    BY <1>a DEF Sequencing!TypeOK
  <2> HIDE DEF Sequencing!Chain
  <2> QED
    BY <2>1
<1>c. pc = "call" /\ at <= Len(chains)
  BY DEF Sequencing!Ready
<1>d. at \in DOMAIN chains
  BY <1>a, <1>b, <1>c DEF Sequencing!Given
<1>1. Sequencing!TypeOK'
  BY <1>a DEF Sequencing!TypeOK, Sequencing!Outcomes
<1>2. Sequencing!Known'
  BY <1>c, KnownFrame
<1>3. Sequencing!Given'
  BY <1>a, <1>c, <1>d DEF Sequencing!Given
<1> QED
  BY <1>1, <1>2, <1>3 DEF Sequencing!IInv

(* The next chain is given what this one declares, if not more.            *)
LEMMA ChainReturnsStep ==
    ASSUME Sequencing!IInv, Sequencing!ChainReturns
    PROVE  Sequencing!IInv'
<1> USE DEF Sequencing!ChainReturns
<1>a. Sequencing!TypeOK /\ Sequencing!Given
  BY DEF Sequencing!IInv
<1>b. Len(chains) \in Nat /\ Len(chains) <= MaxChains
  BY <1>a DEF Sequencing!TypeOK
<1>c. pc = "call" /\ at \in 1..Len(chains)
  BY <1>a, <1>b DEF Sequencing!Ready, Sequencing!Given
<1>1. Sequencing!TypeOK'
  BY <1>a, <1>b, <1>c DEF Sequencing!TypeOK
<1>2. Sequencing!Known'
  BY <1>c, KnownFrame
<1>3. /\ at' \in 1..(Len(chains) + 1) /\ at' # 1
      /\ chains[at' - 1].out \subseteq inputs'
  BY <1>b, <1>c
<1>4. outcome' = "none" /\ pc' = "call" /\ chains' = chains
  BY <1>a, <1>c DEF Sequencing!Given
<1>5. Sequencing!Given'
  BY <1>3, <1>4 DEF Sequencing!Given
<1> QED
  BY <1>1, <1>2, <1>5 DEF Sequencing!IInv

(* The call ends after the last chain.                                     *)
LEMMA FinishStep == ASSUME Sequencing!IInv, Sequencing!Finish PROVE Sequencing!IInv'
<1> USE DEF Sequencing!Finish, Sequencing!Return
<1>a. Sequencing!TypeOK /\ Sequencing!Given
  BY DEF Sequencing!IInv
<1>b. Len(chains) \in Nat /\ at = Len(chains) + 1 /\ pc = "call"
  BY <1>a DEF Sequencing!TypeOK, Sequencing!Given
<1>c. /\ pc' = "returned" /\ outcome' \in {"ok", "missingOutput"}
      /\ UNCHANGED <<kind, keys, chains, knownKeys, at, inputs>>
  OBVIOUS
<1>d. outcome' = "missingOutput" =>
            /\ kind # "simple"
            /\ ~(keys.out \subseteq (IF chains = <<>> THEN {} ELSE inputs))
  OBVIOUS
<1> HIDE DEF Sequencing!Finish
<1>1. Sequencing!TypeOK'
  BY <1>a, <1>c DEF Sequencing!TypeOK, Sequencing!Outcomes
<1>2. Sequencing!Known'
  BY <1>b, <1>c, KnownFrame
<1>3. kind \in {"simple", "sequential"}
  BY <1>a DEF Sequencing!TypeOK
<1>4. Sequencing!Given'
  BY <1>a, <1>b, <1>c, <1>d, <1>3 DEF Sequencing!Given
<1> QED
  BY <1>1, <1>2, <1>4 DEF Sequencing!IInv

(* Every step of a sequence keeps the invariant.                           *)
LEMMA SequenceStep ==
    Sequencing!IInv /\ [Sequencing!Next]_(Sequencing!vars) => Sequencing!IInv'
<1> SUFFICES ASSUME Sequencing!IInv, [Sequencing!Next]_(Sequencing!vars) PROVE Sequencing!IInv'
  OBVIOUS
<1>1. CASE UNCHANGED Sequencing!vars
  <2>1. Sequencing!TypeOK'
    BY <1>1 DEF Sequencing!IInv, Sequencing!TypeOK, Sequencing!vars
  <2>2. Sequencing!Known'
    BY <1>1, KnownFrame DEF Sequencing!vars
  <2>3. Sequencing!Given'
    BY <1>1 DEF Sequencing!IInv, Sequencing!Given, Sequencing!vars
  <2> QED
    BY <2>1, <2>2, <2>3 DEF Sequencing!IInv
<1> QED
  BY <1>1, CheckChainStep, CheckOutputKeysStep, CallStep, SequenceStops,
     ChainReturnsStep, FinishStep DEF Sequencing!Next

(* Every variable has its type.                                            *)
LEMMA SequenceTypes == Sequencing!IInv => Sequencing!TypeOK
BY DEF Sequencing!IInv

(* In a sequence of any length every key comes from one place.             *)
LEMMA OneSource == Sequencing!IInv => Sequencing!KeysHaveOneSource
BY DEF Sequencing!IInv, Sequencing!Known, Sequencing!Checked, Sequencing!KeysHaveOneSource,
   Sequencing!Sequential

(* A key a chain misses was supplied, but too early for it.                *)
LEMMA MissingSuppliedEarlier == Sequencing!IInv => Sequencing!MissingWasSuppliedEarlier
<1> SUFFICES ASSUME Sequencing!IInv PROVE Sequencing!MissingWasSuppliedEarlier
  OBVIOUS
<1>a. Sequencing!TypeOK /\ Sequencing!Known /\ Sequencing!Given
  BY DEF Sequencing!IInv
<1>b. Len(chains) \in Nat /\ DOMAIN chains = 1..Len(chains)
  <2>1. chains \in Seq(Sequencing!Chain)
    BY <1>a DEF Sequencing!TypeOK
  <2> HIDE DEF Sequencing!Chain
  <2> QED
    BY <2>1
<1>1. ASSUME outcome = "missingInput"
      PROVE  /\ at > 1
             /\ \E k \in chains[at].in :
                   k \in Sequencing!SuppliedBefore(at) \ chains[at - 1].out
  <2>1. /\ kind = "sequential" /\ at \in DOMAIN chains /\ pc = "returned"
        /\ ~(chains[at].in \subseteq inputs \cup chains[at].memory)
    BY <1>a, <1>1 DEF Sequencing!Given
  <2>2. chains[at].in \subseteq Sequencing!SuppliedBefore(at)
    BY <1>a, <2>1 DEF Sequencing!Known, Sequencing!Checked
  <2>3. at = 1 => Sequencing!SuppliedBefore(at) = keys.in \cup keys.memory
    BY DEF Sequencing!SuppliedBefore
  <2>4. at > 1
    BY <1>a, <1>b, <2>1, <2>2, <2>3 DEF Sequencing!Given
  <2>5. chains[at - 1].out \subseteq inputs
    BY <1>a, <2>1, <2>4 DEF Sequencing!Given
  <2> QED
    BY <2>1, <2>2, <2>4, <2>5
<1>2. ASSUME outcome = "missingOutput"
      PROVE  \E k \in keys.out :
                /\ k \in Sequencing!SuppliedBefore(Len(chains) + 1)
                /\ chains # <<>> => k \notin chains[Len(chains)].out
  <2>1. /\ kind = "sequential" /\ at = Len(chains) + 1 /\ pc = "returned"
        /\ ~(keys.out \subseteq (IF chains = <<>> THEN {} ELSE inputs))
    BY <1>a, <1>2 DEF Sequencing!Given
  <2>2. keys.out \subseteq Sequencing!SuppliedBefore(Len(chains) + 1)
    BY <1>a, <2>1 DEF Sequencing!Known
  <2>3. chains # <<>> => at > 1 /\ at - 1 = Len(chains)
    BY <1>a, <1>b, <2>1 DEF Sequencing!TypeOK
  <2>4. chains # <<>> => chains[Len(chains)].out \subseteq inputs
    BY <1>a, <2>1, <2>3 DEF Sequencing!Given
  <2> QED
    BY <2>1, <2>2, <2>4
<1> QED
  BY <1>1, <1>2 DEF Sequencing!MissingWasSuppliedEarlier

(* A pipeline of any length that passed the check is never stopped by keys *)
(* that are missing or too many: only the failure of a chain stops it.     *)
LEMMA PipelinesRun == Sequencing!IInv => Sequencing!PipelineRuns
<1> SUFFICES ASSUME Sequencing!IInv, Sequencing!Pipeline
             PROVE  outcome \notin {"missingInput", "wrongInputs", "missingOutput"}
  BY DEF Sequencing!PipelineRuns
<1>a. Sequencing!TypeOK /\ Sequencing!Known /\ Sequencing!Given
  BY DEF Sequencing!IInv
<1>b. Len(chains) \in Nat /\ DOMAIN chains = 1..Len(chains) /\ at \in Int
      /\ (chains # <<>> => Len(chains) > 0)
  <2>1. chains \in Seq(Sequencing!Chain) /\ at \in Int
    BY <1>a DEF Sequencing!TypeOK
  <2> HIDE DEF Sequencing!Chain
  <2> QED
    BY <2>1
<1>1. outcome # "missingInput"
  <2> SUFFICES ASSUME outcome = "missingInput" PROVE FALSE
    OBVIOUS
  <2>1. /\ kind = "sequential" /\ at \in DOMAIN chains /\ pc = "returned"
        /\ ~(chains[at].in \subseteq inputs \cup chains[at].memory)
    BY <1>a DEF Sequencing!Given
  <2>2. CASE at = 1
    <3>1. chains[1].in \subseteq keys.in \cup keys.memory
      BY <1>a, <2>1, <2>2 DEF Sequencing!Known, Sequencing!Checked, Sequencing!SuppliedBefore
    <3> QED
      BY <1>a, <2>1, <2>2, <3>1 DEF Sequencing!Given
  <2>3. CASE at # 1
    <3>1. at \in 2..Len(chains) /\ at > 1
      BY <1>b, <2>1, <2>3
    <3>2. chains[at].in \subseteq chains[at - 1].out \cup chains[at].memory
      BY <2>1, <3>1 DEF Sequencing!Pipeline
    <3>3. chains[at - 1].out \subseteq inputs
      BY <1>a, <2>1, <3>1 DEF Sequencing!Given
    <3> QED
      BY <2>1, <3>2, <3>3
  <2> QED
    BY <2>2, <2>3
<1>2. outcome # "wrongInputs"
  <2> SUFFICES ASSUME outcome = "wrongInputs" PROVE FALSE
    OBVIOUS
  <2>1. /\ kind = "simple" /\ at \in DOMAIN chains
        /\ Sequencing!Cardinality(chains[at].in \ chains[at].memory) # 1
    BY <1>a DEF Sequencing!Given
  <2>2. chains[at].memory = {} /\ Sequencing!Cardinality(chains[at].in) = 1
    BY <1>a, <2>1 DEF Sequencing!Pipeline, Sequencing!Known, Sequencing!Checked
  <2>3. chains[at].in \ {} = chains[at].in
    OBVIOUS
  <2> QED
    BY <2>1, <2>2, <2>3
<1>3. outcome # "missingOutput"
  <2> SUFFICES ASSUME outcome = "missingOutput" PROVE FALSE
    OBVIOUS
  <2>1. /\ kind = "sequential" /\ at = Len(chains) + 1 /\ pc = "returned"
        /\ ~(keys.out \subseteq (IF chains = <<>> THEN {} ELSE inputs))
    BY <1>a DEF Sequencing!Given
  <2>2. chains # <<>> /\ keys.out \subseteq chains[Len(chains)].out
    BY <2>1 DEF Sequencing!Pipeline
  <2>3. at > 1 /\ at - 1 = Len(chains)
    BY <1>b, <2>1, <2>2
  <2>4. chains[Len(chains)].out \subseteq inputs
    BY <1>a, <2>1, <2>3 DEF Sequencing!Given
  <2> QED
    BY <2>1, <2>2, <2>4
<1> QED
  BY <1>1, <1>2, <1>3

-----------------------------------------------------------------------------
(* The parts together.                                                     *)

(* What the memory assumes of its constants.                               *)
LEMMA MemoryAssumed ==
    /\ Sharing!IsFiniteSet(Callers)
    /\ Kinds \subseteq {"simple", "buffer", "window", "token"}
    /\ Stores \subseteq {"memory", "script", "batch", "stepwise"}
    /\ MaxCalls \in Nat /\ windowSize \in Int /\ MaxTokenLimit \in Int
    /\ Tokens \in [{"human", "ai"} -> Nat]
    /\ {Overwrite, FaultyStore, BadValues} \subseteq BOOLEAN
<1>1. Sharing!IsFiniteSet(Callers)
  BY MemoryAssumption DEF Sharing!IsFiniteSet, IsFiniteSet
<1> QED
  BY <1>1, MemoryAssumption, FaultsAssumption

(* The invariant of the memory, from ConversationMemory_proofs.            *)
LEMMA MemoryKept ==
    /\ Sharing!Init => Sharing!IInv
    /\ Sharing!IInv /\ [Sharing!Next]_(Sharing!vars) => Sharing!IInv'
    /\ Sharing!IInv => Sharing!HistoryInOrder
<1>1. Sharing!Init => Sharing!IInv
  BY MemoryAssumed, Sharing!InitIInv
<1>2. Sharing!IInv /\ [Sharing!Next]_(Sharing!vars) => Sharing!IInv'
  BY MemoryAssumed, Sharing!Induction
<1>3. Sharing!IInv => Sharing!HistoryInOrder
  BY MemoryAssumed, Sharing!OrderKept
<1> QED
  BY <1>1, <1>2, <1>3

IInv == /\ part \in {"apply", "sequence", "memory"}
        /\ part = "apply" => Applying!IInv
        /\ part = "sequence" => Sequencing!IInv
        /\ part = "memory" => Sharing!IInv

(* Each part starts in its own invariant.                                  *)
LEMMA InitIInv == Init => IInv
BY ApplyInit, SequenceInit, MemoryKept DEF Init, IInv

(* A step is one of a part, and keeps its invariant.                       *)
LEMMA Induction == IInv /\ [Next]_vars => IInv'
<1> SUFFICES ASSUME IInv, [Next]_vars PROVE IInv'
  OBVIOUS
<1>1. CASE part = "apply"
  <2>1. part' = "apply" /\ [Applying!Next]_(Applying!vars)
    BY <1>1 DEF Next, vars, ofApply, ofSequence, ofMemory, Applying!Next, Applying!vars,
       Apply, Cancel, Caller, CloseResults, Worker, Sequence, Remember
  <2> QED
    BY <1>1, <2>1, ApplyStep DEF IInv
<1>2. CASE part = "sequence"
  <2>1. part' = "sequence" /\ [Sequencing!Next]_(Sequencing!vars)
    BY <1>2 DEF Next, vars, ofApply, ofSequence, ofMemory, Sequencing!vars,
       Apply, Cancel, Caller, CloseResults, Worker, Sequence, Remember
  <2> QED
    BY <1>2, <2>1, SequenceStep DEF IInv
<1>3. CASE part = "memory"
  <2>1. part' = "memory" /\ [Sharing!Next]_(Sharing!vars)
    BY <1>3 DEF Next, vars, ofApply, ofSequence, ofMemory, Sharing!vars,
       Apply, Cancel, Caller, CloseResults, Worker, Sequence, Remember
  <2> QED
    BY <1>3, <2>1, MemoryKept DEF IInv
<1> QED
  BY <1>1, <1>2, <1>3 DEF IInv

(* The inductive invariant of the three parts.                             *)
THEOREM Invariance == Spec => []IInv
BY InitIInv, Induction, PTL DEF Spec

(* Every variable of each part has its type, whatever the numbers of inputs, *)
(* workers, chains, callers and calls.                                     *)
THEOREM TypeCorrect == Spec => []TypeOK
<1>1. IInv => TypeOK
  BY ApplyTypes, SequenceTypes DEF IInv, TypeOK, Sharing!IInv
<1> QED
  BY <1>1, Invariance, PTL

(* Apply is a map: unless the context was cancelled, success means that    *)
(* every input has its own answer, for any numbers of inputs and workers.  *)
THEOREM ApplyIsComplete == Spec => []ResultsComplete
<1>1. IInv => ResultsComplete
  BY CompleteUnlessCanceled DEF IInv, ResultsComplete
<1> QED
  BY <1>1, Invariance, PTL

(* No input is given to the chain twice, cancelled or not, and none is     *)
(* skipped by a success under a live context.                              *)
THEOREM ApplyCallsOnce == Spec => []EachInputOnce
<1>1. IInv => EachInputOnce
  <2> SUFFICES ASSUME IInv, part = "apply" PROVE EachInputOnce
    BY DEF EachInputOnce
  <2>1. \A i \in Applying!Indices : calls[i] <= 1
    BY DEF IInv, Applying!IInv, Applying!JobsInv
  <2>2. ~canceled => Applying!EachInputOnce
    BY OnceUnlessCanceled DEF IInv
  <2> QED
    BY <2>1, <2>2 DEF EachInputOnce
<1> QED
  BY <1>1, Invariance, PTL

(* A successful Apply leaves nothing at work, cancelled or not.            *)
THEOREM ApplyIsQuiet == Spec => []QuietAfterSuccess
<1>1. IInv => QuietAfterSuccess
  BY QuietOnSuccess DEF IInv, QuietAfterSuccess
<1> QED
  BY <1>1, Invariance, PTL

(* A worker never waits for room, also when nobody reads the answers.      *)
THEOREM ApplyHasRoom == Spec => []SendNeverBlocks
<1>1. IInv => SendNeverBlocks
  BY RoomForAnswers DEF IInv, SendNeverBlocks
<1> QED
  BY <1>1, Invariance, PTL

(* In a sequence of any length every key comes from one place.             *)
THEOREM SequenceKeysHaveOneSource == Spec => []KeysHaveOneSource
<1>1. IInv => KeysHaveOneSource
  BY OneSource DEF IInv, KeysHaveOneSource
<1> QED
  BY <1>1, Invariance, PTL

(* A key a chain misses was supplied, but too early for it.                *)
THEOREM SequenceMissesEarlier == Spec => []MissingWasSuppliedEarlier
<1>1. IInv => MissingWasSuppliedEarlier
  BY MissingSuppliedEarlier DEF IInv, MissingWasSuppliedEarlier
<1> QED
  BY <1>1, Invariance, PTL

(* A pipeline of any length that passed the check is never stopped by keys *)
(* that are missing or too many: only the failure of a chain stops it.     *)
THEOREM SequenceRuns == Spec => []PipelineRuns
<1>1. IInv => PipelineRuns
  BY PipelinesRun DEF IInv, PipelineRuns
<1> QED
  BY <1>1, Invariance, PTL

(* Goroutines that share a memory never repeat or reorder a message, when  *)
(* its store replaces messages in one step: any number of them.            *)
THEOREM SharedInOrder == Spec => []HistoryInOrder
<1>1. IInv => HistoryInOrder
  BY MemoryKept DEF IInv, HistoryInOrder
<1> QED
  BY <1>1, Invariance, PTL
=============================================================================
