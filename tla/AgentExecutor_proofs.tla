------------------------ MODULE AgentExecutor_proofs ------------------------
(* Theorems about AgentExecutor, for every value of its constants.         *)
EXTENDS AgentExecutor, SequenceTheorems, WellFoundedInduction, TLAPS

USE DEF Place

(* Functions over 1..n are the sequences of length n.                      *)
LEMMA TupleIsSeq ==
    ASSUME NEW S, NEW n \in Nat, NEW f \in [1..n -> S]
    PROVE  f \in Seq(S) /\ Len(f) = n /\ DOMAIN f = 1..n
  OBVIOUS

(* Every action of a plan gets one goroutine, which has its place.         *)
LEMMA StartedType ==
    ASSUME NEW p \in Proposals, NEW n \in Nat
    PROVE  /\ Started(p, n) \in Seq(Goroutine)
           /\ Len(Started(p, n)) \in Nat \ {0}
           /\ DOMAIN Started(p, n) = 1..Len(Started(p, n))
           /\ \A i \in DOMAIN Started(p, n) :
                 /\ Started(p, n)[i].state = "spawned"
                 /\ Started(p, n)[i].action.at = <<n, i>>
                 /\ Started(p, n)[i].action.tool \in Names
<1>1. PICK m \in 1..MaxActions : p \in [1..m -> [tool : Names, input : Inputs]]
  BY DEF Proposals
<1>2. m \in Nat \ {0} /\ DOMAIN p = 1..m
  BY <1>1, BoundsAssumption
<1> DEFINE s == Started(p, n)
<1>3. ASSUME NEW i \in 1..m
      PROVE  /\ s[i] \in Goroutine
             /\ s[i].state = "spawned"
             /\ s[i].action.at = <<n, i>>
             /\ s[i].action.tool \in Names
  <2>1. p[i].tool \in Names /\ p[i].input \in Nat
    BY <1>1, InputsAssumption
  <2>2. s[i] = [state |-> "spawned", action |-> Located(p, n, i),
                observation |-> Nothing(Located(p, n, i))]
    BY <1>2 DEF Started
  <2>3. i \in Nat
    BY <1>2
  <2> QED
    BY <2>1, <2>2, <2>3
       DEF Located, Goroutine, Action, Observation, Nothing, Observed
<1>4. s \in [1..m -> Goroutine]
  BY <1>2, <1>3 DEF Started
<1> HIDE DEF s
<1>5. s \in Seq(Goroutine) /\ Len(s) = m /\ DOMAIN s = 1..m
  BY <1>2, <1>4, TupleIsSeq
<1> QED
  BY <1>2, <1>3, <1>5 DEF s

(* The tool an upper case name stands for has that name.                   *)
LEMMA NameToTool ==
    ASSUME NEW name
    PROVE  /\ name \in DOMAIN nameToTool =>
                  /\ nameToTool[name] \in DOMAIN Tools
                  /\ nameToTool[name] \in Nat
                  /\ Upper[Tools[nameToTool[name]]] = name
           /\ name \notin DOMAIN nameToTool =>
                  \A t \in DOMAIN Tools : Upper[Tools[t]] # name
<1> DEFINE Named == {t \in DOMAIN Tools : Upper[Tools[t]] = name}
<1>1. DOMAIN Tools = 1..Len(Tools) /\ Len(Tools) \in Nat
  BY NamesAssumption
<1>2. ASSUME Named # {}
      PROVE  \E t \in Named : \A u \in Named : u <= t
  <2> DEFINE Below == {Len(Tools) - t : t \in Named}
  <2>1. Below \subseteq Nat /\ Below # {}
    BY <1>1, <1>2
  <2>2. PICK x \in Below : \A y \in Below : ~ (<<y, x>> \in OpToRel(<, Nat))
    <3> HIDE DEF Below
    <3> QED
      BY <2>1, NatLessThanWellFounded, WFMin, Zenon
  <2>3. ASSUME NEW y \in Below
        PROVE  x <= y
    <3>1. x \in Nat /\ y \in Nat
      BY <2>1
    <3>2. y < x => <<y, x>> \in OpToRel(<, Nat)
      BY <3>1, Zenon DEF OpToRel
    <3>3. ~ (y < x)
      BY <2>2, <3>2, Zenon
    <3> QED
      BY <3>1, <3>3
  <2>4. PICK t \in Named : x = Len(Tools) - t
    OBVIOUS
  <2>5. ASSUME NEW u \in Named
        PROVE  u <= t
    <3>1. Len(Tools) - u \in Below
      OBVIOUS
    <3>2. x <= Len(Tools) - u
      BY <2>3, <3>1, Zenon
    <3>3. u \in Nat /\ t \in Nat
      BY <1>1
    <3> QED
      BY <1>1, <2>4, <3>2, <3>3
  <2> QED
    BY <2>5
<1> DEFINE last == CHOOSE t \in DOMAIN Tools :
                      /\ Upper[Tools[t]] = name
                      /\ \A u \in DOMAIN Tools : Upper[Tools[u]] = name => u <= t
<1>3. ASSUME name \in DOMAIN nameToTool
      PROVE  /\ nameToTool[name] \in DOMAIN Tools
             /\ nameToTool[name] \in Nat
             /\ Upper[Tools[nameToTool[name]]] = name
  <2>1. Named # {}
    BY <1>3 DEF nameToTool
  <2>2. \E t \in DOMAIN Tools :
           /\ Upper[Tools[t]] = name
           /\ \A u \in DOMAIN Tools : Upper[Tools[u]] = name => u <= t
    BY <1>2, <2>1
  <2>3. last \in DOMAIN Tools /\ Upper[Tools[last]] = name
    BY <2>2
  <2>4. nameToTool[name] = last
    BY <1>3 DEF nameToTool
  <2> QED
    BY <1>1, <2>3, <2>4
<1>4. ASSUME name \notin DOMAIN nameToTool, NEW t \in DOMAIN Tools
      PROVE  Upper[Tools[t]] # name
  BY <1>4 DEF nameToTool
<1> QED
  BY <1>3, <1>4
-----------------------------------------------------------------------------
(* The invariant holds before the first plan.                              *)
LEMMA InitIInv == Init => IInv
  BY BoundsAssumption
     DEF Init, IInv, TypeOK, ReadInv, LatestStep, StepsInPlanOrder, AgreeOnInput,
         ErrorIsFirstFailure, FinishReported, Running, Outcomes

(* The main goroutine stops or gives up: nothing but its own state changes. *)
LEMMA StopStep ==
    ASSUME IInv, PlanFails \/ PlanEmpty \/ PlanFinishes \/ GiveUp
    PROVE  IInv'
<1> DEFINE Stop == /\ pc = "plan"
                   /\ pc' = "returned"
                   /\ plans' \in {plans, plans + 1}
                   /\ messages' \in Seq(Nat)
                   /\ result'.outcome \in {"planError", "noReturn", "finish", "notFinished"}
                   /\ result' \in [outcome : Outcomes, steps : Seq(Step)]
                   /\ UNCHANGED <<steps, doing, next, notified, invoked>>
                   /\ finishes' \in Seq(Outcomes)
                   /\ FinishReported'
<1>a. TypeOK /\ ReadInv /\ FinishReported
  BY DEF IInv
<1>b. /\ <<>> \in Seq(Step) /\ steps \in Seq(Step)
      /\ plans + 1 \in Nat
      /\ Append(messages, plans + 1) \in Seq(Nat)
      /\ \A o \in Outcomes : Append(finishes, o) \in Seq(Outcomes)
      /\ finishes \in Seq(Outcomes)
  BY <1>a DEF TypeOK
<1>c. pc = "plan" /\ HasCallbacks => finishes = <<>>
  BY <1>a DEF FinishReported, ReadInv
<1>d. \A o : Append(<<>>, o) = <<o>>
  OBVIOUS
<1>e. ASSUME NEW o \in {"finish", "notFinished"},
             pc = "plan", HandleAgentFinish(o), result' = getReturn(o)
      PROVE  /\ finishes' \in Seq(Outcomes)
             /\ FinishReported'
             /\ result' \in [outcome : Outcomes, steps : Seq(Step)]
             /\ result'.outcome = o
  <2>1. o \in Outcomes
    BY DEF Outcomes
  <2>2. result' \in [outcome : Outcomes, steps : Seq(Step)] /\ result'.outcome = o
    BY <1>b, <1>e, <2>1 DEF getReturn
  <2>3. finishes' \in Seq(Outcomes)
    BY <1>b, <1>e, <2>1 DEF HandleAgentFinish
  <2>4. HasCallbacks => finishes' = <<o>>
    BY <1>c, <1>d, <1>e DEF HandleAgentFinish
  <2> QED
    BY <2>2, <2>3, <2>4 DEF FinishReported
<1>1. Stop
  <2>1. CASE PlanFails
    BY <2>1, <1>a, <1>b, <1>c
       DEF TypeOK, PlanFails, CallPlan, ReturnError, FinishReported, Outcomes
  <2>2. CASE PlanEmpty
    BY <2>2, <1>a, <1>b, <1>c
       DEF TypeOK, PlanEmpty, CallPlan, ReturnError, FinishReported, Outcomes
  <2>3. CASE PlanFinishes
    BY <2>3, <1>a, <1>b, <1>e DEF TypeOK, PlanFinishes, CallPlan
  <2>4. CASE GiveUp
    BY <2>4, <1>a, <1>b, <1>e DEF TypeOK, GiveUp
  <2> QED
    BY <2>1, <2>2, <2>3, <2>4
<1>4. TypeOK'
  BY <1>1 DEF IInv, TypeOK
<1>5. \A i \in DOMAIN doing' : GoroutineInv(i)'
  BY <1>1 DEF IInv, GoroutineInv, Answered
<1>6. ReadInv'
  BY <1>1 DEF IInv, ReadInv, TypeOK
<1>8. LatestStep' /\ StepsInPlanOrder' /\ AgreeOnInput' /\ ErrorIsFirstFailure'
  BY <1>1
     DEF IInv, TypeOK, LatestStep, StepsInPlanOrder, AgreeOnInput, Agrees, Follows,
         ErrorIsFirstFailure
<1> QED
  BY <1>1, <1>4, <1>5, <1>6, <1>8 DEF IInv

(* Appending a step at the next place keeps the steps in order.            *)
LEMMA AppendStep ==
    ASSUME NEW s \in Step,
           steps \in Seq(Step),
           steps' = Append(steps, s)
    PROVE  /\ steps' \in Seq(Step)
           /\ steps' # <<>>
           /\ Len(steps') = Len(steps) + 1
           /\ steps'[Len(steps')] = s
           /\ \A j \in 1..Len(steps) : steps'[j] = steps[j]
  OBVIOUS

(* A step recorded in place keeps everything the invariant says of steps.   *)
LEMMA StepTaken ==
    ASSUME NEW s \in Step,
           steps \in Seq(Step),
           steps' = Append(steps, s),
           UNCHANGED <<notified, invoked>>,
           AgreeOnInput, Agrees(s),
           \A j \in 1..(Len(steps) - 1) :
               Follows(steps[j].action.at, steps[j + 1].action.at),
           steps # <<>> => Follows(steps[Len(steps)].action.at, s.action.at)
    PROVE  /\ AgreeOnInput'
           /\ \A j \in 1..(Len(steps') - 1) :
                 Follows(steps'[j].action.at, steps'[j + 1].action.at)
<1>1. /\ Len(steps') = Len(steps) + 1
      /\ steps'[Len(steps')] = s
      /\ \A j \in 1..Len(steps) : steps'[j] = steps[j]
  BY AppendStep
<1>2. Len(steps) \in Nat /\ (steps # <<>> <=> Len(steps) > 0)
  OBVIOUS
<1>3. ASSUME NEW j \in 1..(Len(steps') - 1)
      PROVE  Follows(steps'[j].action.at, steps'[j + 1].action.at)
  <2>1. CASE j = Len(steps)
    BY <1>1, <1>2, <2>1
  <2>2. CASE j # Len(steps)
    <3>1. j \in 1..(Len(steps) - 1) /\ j + 1 \in 1..Len(steps)
      BY <1>1, <1>2, <2>2
    <3> QED
      BY <1>1, <1>2, <3>1
  <2> QED
    BY <2>1, <2>2
<1>4. \A j \in 1..Len(steps') : Agrees(steps'[j])
  BY <1>1, <1>2 DEF AgreeOnInput
<1>5. AgreeOnInput'
  BY <1>4 DEF AgreeOnInput, Agrees
<1> QED
  BY <1>3, <1>5

(* Calling the agent counts one plan and may keep one message of it.       *)
LEMMA CallPlanType ==
    ASSUME TypeOK, CallPlan
    PROVE  /\ pc = "plan" /\ plans \in Nat /\ plans' = plans + 1
           /\ messages' \in Seq(Nat)
           /\ UNCHANGED <<notified, invoked>>
<1>1. plans + 1 \in Nat /\ Append(messages, plans + 1) \in Seq(Nat)
  BY DEF TypeOK
<1> QED
  BY <1>1 DEF TypeOK, CallPlan

(* The step that reports an unreadable plan is the only step of its plan.  *)
LEMMA UnparsableStep ==
    ASSUME IInv, PlanUnparsable
    PROVE  IInv'
<1> DEFINE z == ZeroAction(plans + 1)
           s == [action |-> z, observation |-> Observed("unparsable", z, 0)]
<1>1. /\ pc = "plan" /\ pc' = "plan" /\ plans \in Nat /\ plans' = plans + 1
      /\ messages' \in Seq(Nat)
      /\ steps' = Append(steps, s)
      /\ UNCHANGED <<doing, next, notified, invoked, finishes, result>>
      /\ steps \in Seq(Step)
  BY CallPlanType DEF IInv, TypeOK, PlanUnparsable
<1>2. /\ s \in Step /\ s.action.at = <<plans + 1, 0>>
      /\ s.action.at[1] = plans + 1 /\ s.action.at[2] = 0
      /\ Agrees(s)
  <2>1. z = [at |-> <<plans + 1, 0>>, tool |-> NoName, input |-> 0]
    BY DEF ZeroAction
  <2>2. Observed("unparsable", z, 0) =
            [kind |-> "unparsable", of |-> <<plans + 1, 0>>, tool |-> 0, input |-> 0]
    BY <2>1 DEF Observed
  <2>3. plans + 1 \in Nat
    BY <1>1
  <2> HIDE DEF z
  <2> QED
    BY <2>1, <2>2, <2>3 DEF Step, Observation, Agrees
<1>4. steps # <<>> => Follows(steps[Len(steps)].action.at, s.action.at)
  BY <1>1, <1>2 DEF IInv, LatestStep, StepsInPlanOrder, Follows
<1> HIDE DEF s
<1>5. /\ steps' \in Seq(Step) /\ steps' # <<>>
      /\ steps'[Len(steps')] = s
  BY <1>1, <1>2, AppendStep
<1>6. /\ AgreeOnInput'
      /\ \A j \in 1..(Len(steps') - 1) :
            Follows(steps'[j].action.at, steps'[j + 1].action.at)
  BY <1>1, <1>2, <1>4, StepTaken DEF IInv, StepsInPlanOrder
<1>7. TypeOK'
  BY <1>1, <1>5 DEF IInv, TypeOK
<1>8. \A i \in DOMAIN doing' : GoroutineInv(i)'
  BY <1>1 DEF IInv, GoroutineInv, Answered
<1>9. ReadInv'
  BY <1>1 DEF IInv, ReadInv
<1>10. LatestStep' /\ StepsInPlanOrder'
  <2>1. plans' # 0 /\ pc' = "plan"
    BY <1>1
  <2>2. steps'[Len(steps')].action.at = <<plans', 0>>
    BY <1>1, <1>2, <1>5
  <2>3. LatestStep'
    BY <1>5, <2>1, <2>2 DEF LatestStep
  <2>4. StepsInPlanOrder'
    BY <1>5, <1>6, <2>1, <2>2 DEF StepsInPlanOrder
  <2> QED
    BY <2>3, <2>4
<1>11. ErrorIsFirstFailure' /\ FinishReported'
  BY <1>1 DEF IInv, ErrorIsFirstFailure, FinishReported
<1> QED
  BY <1>6, <1>7, <1>8, <1>9, <1>10, <1>11 DEF IInv

(* A plan with actions starts one goroutine for each and reads from the    *)
(* first.                                                                  *)
LEMMA ActsStep ==
    ASSUME IInv, PlanActs
    PROVE  IInv'
<1>1. PICK p \in Proposals : doing' = Started(p, plans + 1)
  BY DEF PlanActs
<1>2. /\ pc = "plan" /\ pc' = "read" /\ plans \in Nat /\ plans' = plans + 1
      /\ next' = 1
      /\ messages' \in Seq(Nat)
      /\ UNCHANGED <<steps, notified, invoked, finishes, result>>
  BY CallPlanType DEF IInv, PlanActs
<1>3. /\ doing' \in Seq(Goroutine) /\ Len(doing') \in Nat \ {0}
      /\ DOMAIN doing' = 1..Len(doing')
      /\ \A i \in DOMAIN doing' :
            /\ doing'[i].state = "spawned"
            /\ doing'[i].action.at = <<plans', i>>
            /\ doing'[i].action.tool \in Names
  BY <1>1, <1>2, StartedType
<1>4. TypeOK'
  BY <1>2, <1>3 DEF IInv, TypeOK
<1>5. \A i \in DOMAIN doing' : GoroutineInv(i)'
  BY <1>2, <1>3 DEF GoroutineInv, Answered
<1>6. ReadInv'
  BY <1>2, <1>3 DEF IInv, ReadInv
<1>7. LatestStep'
  <2>1. plans = 0 \/ (steps # <<>> /\ steps[Len(steps)].action.at[1] = plans)
    BY <1>2 DEF IInv, StepsInPlanOrder, TypeOK
  <2> QED
    BY <1>2, <2>1 DEF IInv, LatestStep
<1>8. StepsInPlanOrder' /\ AgreeOnInput' /\ ErrorIsFirstFailure' /\ FinishReported'
  BY <1>2 DEF IInv, ReadInv, StepsInPlanOrder, AgreeOnInput, Agrees,
              ErrorIsFirstFailure, FinishReported
<1> QED
  BY <1>4, <1>5, <1>6, <1>7, <1>8 DEF IInv

(* A step of goroutine i that keeps its own invariant keeps the others'    *)
(* and everything the main goroutine knows.                                *)
LEMMA GoroutineFrame ==
    ASSUME IInv, NEW i \in DOMAIN doing,
           NEW g \in Goroutine,
           doing' = [doing EXCEPT ![i] = g],
           UNCHANGED mainVars,
           notified' \in SUBSET Action, notified \subseteq notified',
           invoked' \in SUBSET [at : Place, tool : Nat, input : Nat],
           invoked \subseteq invoked',
           doing[i].state # "done", g.state # "done",
           GoroutineInv(i)',
           HasCallbacks => \A r \in invoked' :
               \E a \in notified' : a.at = r.at /\ a.input = r.input
    PROVE  IInv'
<1>1. /\ doing \in Seq(Goroutine) /\ doing' \in Seq(Goroutine)
      /\ DOMAIN doing' = DOMAIN doing /\ Len(doing') = Len(doing)
      /\ DOMAIN doing = 1..Len(doing)
      /\ doing'[i] = g
      /\ \A k \in DOMAIN doing : k # i => doing'[k] = doing[k]
  BY DEF IInv, TypeOK
<1>2. TypeOK'
  BY <1>1 DEF IInv, TypeOK, mainVars
<1>3. \A k \in DOMAIN doing' : GoroutineInv(k)'
  <2>1. ASSUME NEW k \in DOMAIN doing', k # i
        PROVE  GoroutineInv(k)'
    <3>1. GoroutineInv(k) /\ doing'[k] = doing[k]
      BY <1>1, <2>1 DEF IInv
    <3> QED
      BY <3>1 DEF GoroutineInv, Answered, mainVars
  <2> QED
    BY <2>1
<1>4. ReadInv'
  BY <1>1 DEF IInv, ReadInv, TypeOK, mainVars
<1>5. LatestStep' /\ StepsInPlanOrder'
  BY <1>1 DEF IInv, LatestStep, StepsInPlanOrder, mainVars
<1>6. AgreeOnInput'
  <2>1. \A j \in 1..Len(steps) : Agrees(steps[j])'
    BY DEF IInv, AgreeOnInput, Agrees, mainVars
  <2> QED
    BY <2>1 DEF AgreeOnInput, Agrees, mainVars
<1>7. ErrorIsFirstFailure' /\ FinishReported'
  BY <1>1 DEF IInv, ErrorIsFirstFailure, FinishReported, mainVars, TypeOK
<1> QED
  BY <1>2, <1>3, <1>4, <1>5, <1>6, <1>7 DEF IInv

(* Trimming the input before the callback keeps the two in agreement.      *)
LEMMA NotifyStep ==
    ASSUME IInv, NEW i \in DOMAIN doing, Notify(i)
    PROVE  IInv'
<1> DEFINE a == Trimmed(doing[i].action)
           g == [doing[i] EXCEPT !.state = "notified", !.action = a]
<1>1. /\ doing[i] \in Goroutine /\ GoroutineInv(i)
      /\ doing[i].state = "spawned"
  BY DEF IInv, TypeOK, Notify
<1>2. /\ a \in Action /\ a.at = doing[i].action.at /\ a.tool = doing[i].action.tool
      /\ g \in Goroutine
      /\ g.state = "notified" /\ g.action = a
  <2>1. doing[i].action \in Action
    BY <1>1 DEF Goroutine
  <2>2. trimHallucinatedObservation(doing[i].action.input) \in Nat
    BY <2>1 DEF Action, trimHallucinatedObservation
  <2>3. a \in Action /\ a.at = doing[i].action.at /\ a.tool = doing[i].action.tool
    BY <2>1, <2>2 DEF Action, Trimmed
  <2> QED
    BY <1>1, <2>3 DEF Goroutine
<1>3. doing' = [doing EXCEPT ![i] = g]
  BY <1>1 DEF IInv, TypeOK, Notify, Goroutine
<1>4. /\ UNCHANGED mainVars /\ UNCHANGED invoked
      /\ notified' = IF HasCallbacks THEN notified \cup {a} ELSE notified
      /\ notified \in SUBSET Action
      /\ invoked \in SUBSET [at : Place, tool : Nat, input : Nat]
  BY DEF Notify, IInv, TypeOK
<1>5. doing'[i] = g
  BY <1>3 DEF IInv, TypeOK
<1> HIDE DEF g, a
<1>6. GoroutineInv(i)'
  BY <1>1, <1>2, <1>4, <1>5 DEF GoroutineInv, Answered, mainVars
<1>7. HasCallbacks => \A r \in invoked' :
          \E b \in notified' : b.at = r.at /\ b.input = r.input
  BY <1>4 DEF IInv, AgreeOnInput
<1> QED
  BY <1>1, <1>2, <1>3, <1>4, <1>6, <1>7, GoroutineFrame

(* The tool that is called, or its absence, fits the name in the action.   *)
LEMMA InvokeStep ==
    ASSUME IInv, NEW i \in DOMAIN doing, Invoke(i)
    PROVE  IInv'
<1> DEFINE a == doing[i].action
           name == Upper[a.tool]
           r == [at |-> a.at, tool |-> nameToTool[name], input |-> a.input]
<1>1. /\ doing \in Seq(Goroutine)
      /\ doing[i] \in Goroutine /\ GoroutineInv(i)
      /\ doing[i].state = "notified"
      /\ UNCHANGED mainVars /\ UNCHANGED notified
      /\ notified \in SUBSET Action
      /\ invoked \in SUBSET [at : Place, tool : Nat, input : Nat]
      /\ HasCallbacks => \A q \in invoked :
            \E b \in notified : b.at = q.at /\ b.input = q.input
  BY DEF IInv, TypeOK, Invoke, AgreeOnInput
<1>2. CASE name \in DOMAIN nameToTool
  <2> DEFINE g == [doing[i] EXCEPT !.state = "calling"]
  <2>1. /\ doing' = [doing EXCEPT ![i] = g]
        /\ invoked' = invoked \cup {r}
    BY <1>1, <1>2 DEF Invoke, Goroutine
  <2>2. /\ g \in Goroutine /\ g.state = "calling" /\ g.action = a
    BY <1>1 DEF Goroutine
  <2>3. r \in [at : Place, tool : Nat, input : Nat]
    BY <1>1, <1>2, NameToTool DEF Goroutine, Action
  <2>4. doing'[i] = g
    BY <1>1, <2>1
  <2>5. GoroutineInv(i)'
    <3> HIDE DEF g
    <3> QED
      BY <1>1, <1>2, <2>1, <2>2, <2>4 DEF GoroutineInv, Answered, mainVars
  <2>6. HasCallbacks => \A q \in invoked' :
            \E b \in notified' : b.at = q.at /\ b.input = q.input
    BY <1>1, <2>1 DEF GoroutineInv
  <2> HIDE DEF g, r
  <2> QED
    BY <1>1, <2>1, <2>2, <2>3, <2>5, <2>6, GoroutineFrame
<1>3. CASE name \notin DOMAIN nameToTool
  <2> DEFINE o == Observed("invalidTool", a, 0)
             g == [doing[i] EXCEPT !.state = "sending", !.observation = o]
  <2>1. /\ doing' = [doing EXCEPT ![i] = g]
        /\ UNCHANGED invoked
    BY <1>1, <1>3 DEF Invoke, Goroutine
  <2>2. /\ g \in Goroutine /\ g.state = "sending" /\ g.action = a
        /\ g.observation = o
        /\ o.kind = "invalidTool" /\ o.of = a.at /\ o.input = a.input /\ o.tool = 0
    BY <1>1 DEF Goroutine, Action, Observation, Observed
  <2>3. doing'[i] = g
    BY <1>1, <2>1
  <2>4. GoroutineInv(i)'
    <3> HIDE DEF g, o
    <3> QED
      BY <1>1, <1>3, <2>1, <2>2, <2>3 DEF GoroutineInv, Answered, mainVars
  <2> HIDE DEF g
  <2> QED
    BY <1>1, <2>1, <2>2, <2>4, GoroutineFrame
<1> QED
  BY <1>2, <1>3

(* The answer of a tool is tagged with the action it was called for.       *)
LEMMA ToolReturnsStep ==
    ASSUME IInv, NEW i \in DOMAIN doing, ToolReturns(i)
    PROVE  IInv'
<1> DEFINE a == doing[i].action
           name == Upper[a.tool]
<1>1. /\ doing \in Seq(Goroutine)
      /\ doing[i] \in Goroutine /\ GoroutineInv(i)
      /\ doing[i].state = "calling"
      /\ UNCHANGED mainVars /\ UNCHANGED <<notified, invoked>>
      /\ notified \in SUBSET Action
      /\ invoked \in SUBSET [at : Place, tool : Nat, input : Nat]
      /\ HasCallbacks => \A q \in invoked :
            \E b \in notified : b.at = q.at /\ b.input = q.input
  BY DEF IInv, TypeOK, ToolReturns, AgreeOnInput
<1>2. name \in DOMAIN nameToTool /\ nameToTool[name] \in Nat
  BY <1>1, NameToTool DEF GoroutineInv
<1>3. PICK kind \in {"toolResult", "toolError"} :
         doing' = [doing EXCEPT ![i].state = "sending",
                      ![i].observation = Observed(kind, a, nameToTool[name])]
  BY DEF ToolReturns
<1> DEFINE o == Observed(kind, a, nameToTool[name])
           g == [doing[i] EXCEPT !.state = "sending", !.observation = o]
<1>4. doing' = [doing EXCEPT ![i] = g]
  BY <1>1, <1>3 DEF Goroutine
<1>5. /\ g \in Goroutine /\ g.state = "sending" /\ g.action = a
      /\ g.observation = o
      /\ o.kind = kind /\ o.of = a.at /\ o.input = a.input
      /\ o.tool = nameToTool[name]
  BY <1>1, <1>2 DEF Goroutine, Action, Observation, Observed
<1>6. doing'[i] = g
  BY <1>1, <1>4
<1>7. GoroutineInv(i)'
  <2> HIDE DEF g, o
  <2> QED
    BY <1>1, <1>2, <1>5, <1>6 DEF GoroutineInv, Answered, mainVars
<1> HIDE DEF g
<1> QED
  BY <1>1, <1>4, <1>5, <1>7, GoroutineFrame

(* What the main goroutine receives is what goroutine next left.           *)
LEMMA Received ==
    ASSUME IInv, Delivered
    PROVE  /\ pc = "read"
           /\ next \in DOMAIN doing /\ DOMAIN doing = 1..Len(doing)
           /\ next \in 1..Len(doing) /\ Len(doing) \in Nat
           /\ doing \in Seq(Goroutine)
           /\ doing[next] \in Goroutine
           /\ doing[next].state = "sending"
           /\ GoroutineInv(next)
           /\ doing' \in Seq(Goroutine)
           /\ DOMAIN doing' = DOMAIN doing /\ Len(doing') = Len(doing)
           /\ doing'[next] = [doing[next] EXCEPT !.state = "done"]
           /\ doing'[next].state = "done"
           /\ doing'[next].action = doing[next].action
           /\ doing'[next].observation = doing[next].observation
           /\ \A k \in DOMAIN doing : k # next => doing'[k] = doing[k]
           /\ UNCHANGED <<plans, messages, notified, invoked, finishes>>
<1>1. /\ pc = "read" /\ next \in DOMAIN doing
      /\ doing \in Seq(Goroutine)
      /\ doing' = [doing EXCEPT ![next].state = "done"]
      /\ doing[next].state = "sending"
      /\ UNCHANGED <<plans, messages, notified, invoked, finishes>>
  BY DEF IInv, TypeOK, ReadInv, Delivered
<1>2. doing[next] \in Goroutine /\ GoroutineInv(next)
  BY <1>1 DEF IInv
<1>3. [doing[next] EXCEPT !.state = "done"] \in Goroutine
  BY <1>2 DEF Goroutine
<1>4. doing' = [doing EXCEPT ![next] = [doing[next] EXCEPT !.state = "done"]]
  BY <1>1
<1> QED
  BY <1>1, <1>2, <1>3, <1>4 DEF Goroutine

(* Receiving leaves every goroutine what it was but for the send.          *)
LEMMA ReceivedInv ==
    ASSUME IInv, Delivered, pc' \in {"plan", "read", "returned"}
    PROVE  \A k \in DOMAIN doing' : GoroutineInv(k)'
<1> SUFFICES ASSUME NEW k \in DOMAIN doing'
             PROVE  GoroutineInv(k)'
  OBVIOUS
<1>1. /\ GoroutineInv(k)
      /\ doing'[k].action = doing[k].action
      /\ doing'[k].observation = doing[k].observation
      /\ doing'[k].state = doing[k].state
            \/ (k = next /\ doing'[k].state = "done" /\ doing[k].state = "sending")
      /\ UNCHANGED <<plans, notified, invoked>> /\ pc = "read"
  BY Received DEF IInv
<1> QED
  BY <1>1 DEF GoroutineInv, Answered

(* The step received is the next one in plan order.                        *)
LEMMA ReceiveStepStep ==
    ASSUME IInv, ReceiveStep
    PROVE  IInv'
<1> DEFINE g == doing[next]
           s == [action |-> g.action, observation |-> g.observation]
<1>1. /\ Delivered
      /\ g.observation.kind # "toolError"
      /\ steps' = Append(steps, s)
      /\ pc' = IF next = Len(doing) THEN "plan" ELSE "read"
      /\ next' = next + 1
      /\ UNCHANGED result
      /\ steps \in Seq(Step)
      /\ pc' \in {"plan", "read", "returned"}
  BY DEF ReceiveStep, IInv, TypeOK
<1>2. /\ g \in Goroutine /\ g.state = "sending" /\ GoroutineInv(next)
      /\ pc = "read" /\ plans' = plans /\ next \in Nat \ {0}
  BY <1>1, Received DEF IInv, TypeOK
<1>3. /\ s \in Step /\ s.action = g.action /\ s.observation = g.observation
      /\ s.action.at[1] = plans /\ s.action.at[2] = next
      /\ s.action.at = <<plans, next>>
  BY <1>2 DEF Goroutine, Action, Step, GoroutineInv
<1>4. Agrees(s)
  <2>1. g.action.tool \in Names
    BY <1>2 DEF GoroutineInv
  <2> HIDE DEF s
  <2> QED
    BY <1>1, <1>2, <1>3, <2>1, NameToTool DEF GoroutineInv, Agrees, Answered
<1>5. steps # <<>> => Follows(steps[Len(steps)].action.at, s.action.at)
  <2>1. next > 1 =>
            steps # <<>> /\ steps[Len(steps)].action.at[1] = plans
                         /\ steps[Len(steps)].action.at[2] = next - 1
    BY <1>2 DEF IInv, LatestStep
  <2>2. next = 1 => steps = <<>> \/ steps[Len(steps)].action.at[1] = plans - 1
    BY <1>2 DEF IInv, LatestStep
  <2>3. plans \in Nat
    BY DEF IInv, TypeOK
  <2> HIDE DEF s
  <2> QED
    BY <1>2, <1>3, <2>1, <2>2, <2>3 DEF Follows
<1> HIDE DEF s
<1>6. /\ steps' \in Seq(Step) /\ steps' # <<>>
      /\ steps'[Len(steps')] = s
  BY <1>1, <1>3, AppendStep
<1>7. /\ AgreeOnInput'
      /\ \A j \in 1..(Len(steps') - 1) :
            Follows(steps'[j].action.at, steps'[j + 1].action.at)
  BY <1>1, <1>3, <1>4, <1>5, Received, StepTaken DEF IInv, StepsInPlanOrder
<1>8. TypeOK'
  BY <1>1, <1>2, <1>6, Received DEF IInv, TypeOK
<1>9. \A i \in DOMAIN doing' : GoroutineInv(i)'
  BY <1>1, ReceivedInv
<1>10. ReadInv'
  <2>1. /\ next' \in 1..(Len(doing') + 1)
        /\ pc' = "read" => next' \in DOMAIN doing'
        /\ pc' = "plan" => next' = Len(doing') + 1
    BY <1>1, <1>2, Received
  <2>2. \A i \in 1..(next' - 1) :
           doing'[i].state = "done" /\ doing'[i].observation.kind # "toolError"
    BY <1>1, <1>2, Received DEF IInv, ReadInv
  <2>3. pc' = "read" => \A i \in next'..Len(doing') : doing'[i].state # "done"
    BY <1>1, <1>2, Received DEF IInv, ReadInv
  <2>4. result.outcome = "running"
    BY <1>2 DEF IInv, ReadInv
  <2> QED
    BY <1>1, <2>1, <2>2, <2>3, <2>4 DEF ReadInv
<1>11. LatestStep' /\ StepsInPlanOrder'
  <2>1. plans # 0
    BY <1>2 DEF IInv, LatestStep
  <2>2. steps'[Len(steps')].action.at = <<plans', next>>
    BY <1>2, <1>3, <1>6
  <2>3. pc' = "plan" => next = Len(doing')
    BY <1>1, Received
  <2>4. LatestStep'
    BY <1>1, <1>2, <1>6, <2>1, <2>2, <2>3 DEF LatestStep
  <2>5. StepsInPlanOrder'
    BY <1>1, <1>6, <1>7, <2>2, <2>3 DEF StepsInPlanOrder
  <2> QED
    BY <2>4, <2>5
<1>12. ErrorIsFirstFailure' /\ FinishReported'
  <2>1. result'.outcome = "running" /\ finishes' = finishes
    BY <1>1, <1>2, Received DEF IInv, ReadInv
  <2> QED
    BY <1>1, <1>2, <2>1 DEF IInv, ReadInv, ErrorIsFirstFailure, FinishReported
<1> QED
  BY <1>7, <1>8, <1>9, <1>10, <1>11, <1>12 DEF IInv

(* The error received is the first in plan order.                          *)
LEMMA ReceiveErrorStep ==
    ASSUME IInv, ReceiveError
    PROVE  IInv'
<1>1. /\ Delivered
      /\ doing[next].observation.kind = "toolError"
      /\ pc' = "returned"
      /\ result' = [outcome |-> "toolError", steps |-> <<>>]
      /\ UNCHANGED <<steps, next>>
      /\ pc' \in {"plan", "read", "returned"}
  BY DEF ReceiveError, ReturnError
<1>2. result'.outcome = "toolError" /\ result.outcome = "running"
  BY <1>1, Received DEF IInv, ReadInv
<1>3. TypeOK'
  BY <1>1, Received DEF IInv, TypeOK, Outcomes
<1>4. \A i \in DOMAIN doing' : GoroutineInv(i)'
  BY <1>1, ReceivedInv
<1>5. ReadInv'
  <2>1. next' = next /\ next \in 1..(Len(doing') + 1) /\ next \in Nat
    BY <1>1, Received
  <2>2. \A i \in 1..(next - 1) :
           doing'[i].state = "done" /\ doing'[i].observation.kind # "toolError"
    BY <1>1, Received DEF IInv, ReadInv
  <2> QED
    BY <1>1, <1>2, <2>1, <2>2 DEF ReadInv
<1>6. LatestStep' /\ StepsInPlanOrder' /\ AgreeOnInput'
  BY <1>1, Received DEF IInv, LatestStep, StepsInPlanOrder, AgreeOnInput, Agrees
<1>7. ErrorIsFirstFailure'
  BY <1>1, <1>2, <1>5, Received DEF ErrorIsFirstFailure, ReadInv
<1>8. FinishReported'
  BY <1>1, <1>2, Received DEF IInv, FinishReported
<1> QED
  BY <1>3, <1>4, <1>5, <1>6, <1>7, <1>8 DEF IInv
-----------------------------------------------------------------------------
(* Every state of every run of the executor satisfies the inductive        *)
(* invariant: one step per action of the executor and of its goroutines.   *)
THEOREM Invariance == Spec => []IInv
<1>1. Init => IInv
  BY InitIInv
<1>2. ASSUME IInv, [Next]_vars
      PROVE  IInv'
  <2>1. CASE PlanUnparsable
    BY <1>2, <2>1, UnparsableStep
  <2>2. CASE PlanFails \/ PlanEmpty \/ PlanFinishes \/ GiveUp
    BY <1>2, <2>2, StopStep
  <2>3. CASE PlanActs
    BY <1>2, <2>3, ActsStep
  <2>4. CASE ReceiveStep
    BY <1>2, <2>4, ReceiveStepStep
  <2>5. CASE ReceiveError
    BY <1>2, <2>5, ReceiveErrorStep
  <2>6. CASE \E i \in DOMAIN doing : doAction(i)
    <3>1. PICK i \in DOMAIN doing : doAction(i)
      BY <2>6
    <3> QED
      BY <1>2, <3>1, NotifyStep, InvokeStep, ToolReturnsStep DEF doAction
  <2>7. CASE UNCHANGED vars
    BY <1>2, <2>7
       DEF vars, IInv, TypeOK, GoroutineInv, Answered, ReadInv, LatestStep,
           StepsInPlanOrder, AgreeOnInput, Agrees, ErrorIsFirstFailure, FinishReported
  <2> QED
    BY <1>2, <2>1, <2>2, <2>3, <2>4, <2>5, <2>6, <2>7 DEF Next, Main
<1> QED
  BY <1>1, <1>2, PTL DEF Spec

(* Whatever the agent and the tools answer, and however the goroutines are *)
(* scheduled, the recorded steps follow the plans.                         *)
THEOREM StepsStayInPlanOrder == Spec => []StepsInPlanOrder
<1>1. IInv => StepsInPlanOrder
  BY DEF IInv
<1> QED
  BY <1>1, Invariance, PTL

(* Callback, tool and recorded step agree on the input that was used.      *)
THEOREM InputsAgree == Spec => []AgreeOnInput
<1>1. IInv => AgreeOnInput
  BY DEF IInv
<1> QED
  BY <1>1, Invariance, PTL

(* The error returned does not depend on the timing of the tools.          *)
THEOREM FirstFailureReturned == Spec => []ErrorIsFirstFailure
<1>1. IInv => ErrorIsFirstFailure
  BY DEF IInv
<1> QED
  BY <1>1, Invariance, PTL

(* Goroutines outlive the reading of their plan only after a tool error.   *)
THEOREM NoStrayGoroutine == Spec => []NothingInFlight
<1>1. IInv => NothingInFlight
  BY DEF IInv, TypeOK, ReadInv, NothingInFlight
<1> QED
  BY <1>1, Invariance, PTL

(* The callbacks hear of the end of a call exactly when it ends without a  *)
(* failure.                                                                *)
THEOREM FinishIsReported == Spec => []FinishReported
<1>1. IInv => FinishReported
  BY DEF IInv
<1> QED
  BY <1>1, Invariance, PTL

(* Every variable has its type.                                            *)
THEOREM TypeCorrect == Spec => []TypeOK
<1>1. IInv => TypeOK
  BY DEF IInv
<1> QED
  BY <1>1, Invariance, PTL
-----------------------------------------------------------------------------
(***************************************************************************)
(* The executor implements the sequential loop.                            *)
(***************************************************************************)

(* What is left to read is a sequence of actions.                          *)
LEMMA RestType ==
    ASSUME NEW d \in Seq(Goroutine), NEW n \in 1..(Len(d) + 1)
    PROVE  /\ Rest(d, n) \in Seq(Action)
           /\ Len(Rest(d, n)) = Len(d) - n + 1
           /\ n = Len(d) + 1 => Rest(d, n) = <<>>
           /\ n <= Len(d) => /\ Rest(d, n) # <<>>
                             /\ Head(Rest(d, n)) = Intended(d[n])
<1>1. Len(d) \in Nat /\ DOMAIN d = 1..Len(d) /\ n \in Nat \ {0}
  OBVIOUS
<1>2. ASSUME NEW g \in Goroutine
      PROVE  Intended(g) \in Action
  <2>1. g.action \in Action
    BY DEF Goroutine
  <2>2. trimHallucinatedObservation(g.action.input) \in Nat
    BY <2>1 DEF Action, trimHallucinatedObservation
  <2> QED
    BY <2>1, <2>2 DEF Intended, Trimmed, Action
<1>3. ASSUME NEW i \in 1..(Len(d) - n + 1)
      PROVE  Intended(d[i + n - 1]) \in Action
  BY <1>1, <1>2
<1>4. Len(d) - n + 1 \in Nat
  BY <1>1
<1>5. Rest(d, n) \in [1..(Len(d) - n + 1) -> Action]
  BY <1>3 DEF Rest
<1>6. Rest(d, n) \in Seq(Action) /\ Len(Rest(d, n)) = Len(d) - n + 1
  BY <1>4, <1>5, TupleIsSeq
<1>7. ASSUME n <= Len(d)
      PROVE  Rest(d, n)[1] = Intended(d[n])
  <2>1. 1 \in 1..(Len(d) - n + 1) /\ 1 + n - 1 = n
    BY <1>1, <1>7
  <2> QED
    BY <2>1 DEF Rest
<1> QED
  BY <1>1, <1>6, <1>7

(* Reading one stream leaves the rest of the outstanding actions.          *)
LEMMA RestTail ==
    ASSUME NEW d \in Seq(Goroutine), NEW n \in 1..Len(d)
    PROVE  Tail(Rest(d, n)) = Rest(d, n + 1)
<1>1. Len(d) \in Nat /\ n \in Nat \ {0} /\ n + 1 \in 1..(Len(d) + 1)
  OBVIOUS
<1>2. /\ Rest(d, n) \in Seq(Action) /\ Len(Rest(d, n)) = Len(d) - n + 1
      /\ Rest(d, n) # <<>>
      /\ Rest(d, n + 1) \in Seq(Action) /\ Len(Rest(d, n + 1)) = Len(d) - n
  BY <1>1, RestType
<1>3. /\ Tail(Rest(d, n)) \in Seq(Action)
      /\ Len(Tail(Rest(d, n))) = Len(d) - n
      /\ \A i \in 1..(Len(d) - n) : Tail(Rest(d, n))[i] = Rest(d, n)[i + 1]
  BY <1>1, <1>2
<1>4. ASSUME NEW i \in 1..(Len(d) - n)
      PROVE  Rest(d, n)[i + 1] = Rest(d, n + 1)[i]
  <2>1. /\ i + 1 \in 1..(Len(d) - n + 1) /\ (i + 1) + n - 1 = i + n
        /\ i \in 1..(Len(d) - (n + 1) + 1) /\ i + (n + 1) - 1 = i + n
    BY <1>1
  <2> QED
    BY <2>1 DEF Rest
<1> QED
  BY <1>2, <1>3, <1>4, SeqEqual

(* A goroutine that keeps its intended action leaves the rest as it was.   *)
LEMMA RestSame ==
    ASSUME NEW d \in Seq(Goroutine), NEW e \in Seq(Goroutine), Len(e) = Len(d),
           NEW n \in Nat \ {0},
           \A k \in n..Len(d) : Intended(e[k]) = Intended(d[k])
    PROVE  Rest(e, n) = Rest(d, n)
<1>1. \A i \in 1..(Len(d) - n + 1) : Intended(e[i + n - 1]) = Intended(d[i + n - 1])
  OBVIOUS
<1> QED
  BY <1>1 DEF Rest

(* The plan ends the call, or the budget does.                             *)
LEMMA LoopStop ==
    ASSUME IInv, PlanFails \/ PlanEmpty \/ PlanFinishes \/ GiveUp
    PROVE  Loop!Next
<1>1. /\ pc = "plan" /\ next = Len(doing) + 1 /\ Outstanding = <<>>
      /\ result.outcome = "running"
  BY RestType
     DEF IInv, TypeOK, ReadInv, PlanFails, PlanEmpty, PlanFinishes, GiveUp,
         CallPlan, Outstanding
<1>2. UNCHANGED <<steps, doing, next>>
  BY DEF PlanFails, PlanEmpty, PlanFinishes, GiveUp, CallPlan
<1>3. Outstanding' = Outstanding
  BY <1>2 DEF Outstanding, Rest, Intended
<1>4. CASE PlanFails \/ PlanEmpty \/ PlanFinishes
  <2>1. /\ plans < MaxIterations /\ plans' = plans + 1
        /\ result'.outcome \in {"finish", "noReturn", "planError"}
    BY <1>4 DEF PlanFails, PlanEmpty, PlanFinishes, CallPlan, ReturnError, getReturn
  <2> QED
    BY <1>1, <1>2, <1>3, <2>1 DEF Loop!Next, Loop!PlanEnds, Loop!Deliberating
<1>5. CASE GiveUp
  <2>1. plans >= MaxIterations /\ plans' = plans /\ result'.outcome = "notFinished"
    BY <1>5 DEF GiveUp, getReturn
  <2> QED
    BY <1>1, <1>2, <1>3, <2>1 DEF Loop!Next, Loop!GiveUp, Loop!Deliberating
<1> QED
  BY <1>4, <1>5

(* The plan adds work, or a step that says the plan was unreadable.        *)
LEMMA LoopPlan ==
    ASSUME IInv, PlanUnparsable \/ PlanActs
    PROVE  Loop!Next
<1>1. /\ pc = "plan" /\ next = Len(doing) + 1 /\ Outstanding = <<>>
      /\ result.outcome = "running" /\ result' = result
      /\ plans < MaxIterations /\ plans' = plans + 1 /\ plans \in Nat
  BY RestType
     DEF IInv, TypeOK, ReadInv, PlanUnparsable, PlanActs, CallPlan, Outstanding
<1>2. CASE PlanUnparsable
  <2>1. UNCHANGED <<doing, next>>
    BY <1>2 DEF PlanUnparsable
  <2>2. Outstanding' = Outstanding
    BY <2>1 DEF Outstanding, Rest, Intended
  <2>3. HasErrorHandler /\ steps' = Append(steps, Slip(plans + 1))
    BY <1>2 DEF PlanUnparsable, Slip
  <2> QED
    BY <1>1, <2>2, <2>3 DEF Loop!Next, Loop!PlanSlips, Loop!Deliberating
<1>3. CASE PlanActs
  <2>1. doing' \in Seq(Goroutine) /\ next' = 1 /\ next' \in DOMAIN doing'
    BY <1>3, ActsStep DEF IInv, TypeOK, ReadInv, PlanActs
  <2>2. Rest(doing', next') \in Seq(Action) \ {<<>>}
    BY <2>1, RestType
  <2>3. Outstanding' = Rest(doing', next')
    BY DEF Outstanding, Rest, Intended, Trimmed
  <2>4. steps' = steps
    BY <1>3 DEF PlanActs
  <2> QED
    BY <1>1, <2>2, <2>3, <2>4 DEF Loop!Next, Loop!PlanActions, Loop!Deliberating
<1> QED
  BY <1>2, <1>3

(* What is received is the first outstanding action.                       *)
LEMMA LoopReceive ==
    ASSUME IInv, ReceiveStep \/ ReceiveError
    PROVE  Loop!Next
<1>1. Delivered
  BY DEF ReceiveStep, ReceiveError
<1>2. /\ next \in 1..Len(doing) /\ Len(doing) \in Nat
      /\ doing \in Seq(Goroutine) /\ doing' \in Seq(Goroutine)
      /\ Len(doing') = Len(doing)
      /\ doing[next].state = "sending" /\ pc = "read"
      /\ GoroutineInv(next)
      /\ \A k \in 1..Len(doing) : k # next => doing'[k] = doing[k]
      /\ doing'[next].state = "done"
      /\ doing'[next].action = doing[next].action
      /\ plans' = plans
  BY <1>1, Received
<1>3. /\ Outstanding # <<>>
      /\ Head(Outstanding) = doing[next].action
      /\ result.outcome = "running"
  <2>1. Intended(doing[next]) = doing[next].action
    BY <1>2 DEF Intended
  <2> QED
    BY <1>2, <2>1, RestType DEF Outstanding, IInv, ReadInv
<1>4. Outstanding' = Rest(doing', next')
  BY DEF Outstanding, Rest, Intended, Trimmed
<1>5. CASE ReceiveStep
  <2>1. /\ next' = next + 1 /\ result' = result
        /\ doing[next].observation.kind # "toolError"
        /\ steps' = Append(steps, [action |-> doing[next].action,
                                   observation |-> doing[next].observation])
    BY <1>5 DEF ReceiveStep
  <2>2. Outstanding' = Tail(Outstanding)
    <3>1. \A k \in (next + 1)..Len(doing) : Intended(doing'[k]) = Intended(doing[k])
      BY <1>2
    <3>2. Rest(doing', next + 1) = Rest(doing, next + 1)
      BY <1>2, <3>1, RestSame
    <3> QED
      BY <1>2, <1>4, <2>1, <3>2, RestTail DEF Outstanding
  <2>3. doing[next].observation \in Answers(doing[next].action)
    <3> DEFINE o == doing[next].observation
               a == doing[next].action
    <3>1. /\ o \in Observation
          /\ o.of = a.at /\ o.input = a.input
          /\ \/ o.kind = "invalidTool" /\ o.tool = 0
             \/ /\ o.kind = "toolResult"
                /\ o.tool \in DOMAIN Tools
                /\ Upper[Tools[o.tool]] = Upper[a.tool]
      <4>1. o \in Observation
        BY <1>1, Received DEF Goroutine
      <4>2. /\ o.of = a.at /\ o.input = a.input
            /\ \/ o.kind = "invalidTool" /\ o.tool = 0
               \/ /\ o.kind = "toolResult"
                  /\ Upper[a.tool] \in DOMAIN nameToTool
                  /\ o.tool = nameToTool[Upper[a.tool]]
        BY <1>2, <2>1 DEF GoroutineInv, Answered
      <4> HIDE DEF o, a
      <4> QED
        BY <4>1, <4>2, NameToTool
    <3>2. o = [kind |-> o.kind, of |-> a.at, tool |-> o.tool, input |-> a.input]
      BY <3>1 DEF Observation
    <3> QED
      BY <3>1, <3>2 DEF Answers, Observed
  <2> QED
    BY <1>2, <1>3, <2>1, <2>2, <2>3 DEF Loop!Next, Loop!Perform
<1>6. CASE ReceiveError
  <2>1. next' = next /\ result'.outcome = "toolError" /\ steps' = steps
    BY <1>6 DEF ReceiveError, ReturnError
  <2>2. \A k \in next..Len(doing) : Intended(doing'[k]) = Intended(doing[k])
    BY <1>2 DEF Intended
  <2>3. Outstanding' = Outstanding
    BY <1>2, <1>4, <2>1, <2>2, RestSame DEF Outstanding
  <2> QED
    BY <1>2, <1>3, <2>1, <2>3 DEF Loop!Next, Loop!Fail
<1> QED
  BY <1>5, <1>6

(* The loop does not see what the goroutines do before they send.          *)
LEMMA LoopGoroutine ==
    ASSUME IInv, NEW i \in DOMAIN doing, doAction(i)
    PROVE  UNCHANGED <<plans, steps, Outstanding, result.outcome>>
<1>1. /\ doing \in Seq(Goroutine) /\ doing[i] \in Goroutine
      /\ next \in Nat \ {0}
      /\ UNCHANGED <<plans, steps, next, result>>
  BY DEF IInv, TypeOK, doAction, Notify, Invoke, ToolReturns, mainVars
<1>2. doing' \in Seq(Goroutine)
  BY NotifyStep, InvokeStep, ToolReturnsStep DEF doAction, IInv, TypeOK
<1>3. /\ Len(doing') = Len(doing)
      /\ \A k \in 1..Len(doing) : k # i => doing'[k] = doing[k]
      /\ Intended(doing'[i]) = Intended(doing[i])
  <2>1. CASE Notify(i)
    <3> DEFINE a == Trimmed(doing[i].action)
               g == [doing[i] EXCEPT !.state = "notified", !.action = a]
    <3>1. doing' = [doing EXCEPT ![i] = g] /\ doing[i].state = "spawned"
      BY <1>1, <2>1 DEF Notify, Goroutine
    <3>2. g.state = "notified" /\ g.action = a
      BY <1>1 DEF Goroutine
    <3>3. Intended(g) = Intended(doing[i])
      BY <3>1, <3>2 DEF Intended
    <3> HIDE DEF g
    <3> QED
      BY <1>1, <3>1, <3>3
  <2>2. CASE Invoke(i)
    BY <1>1, <2>2 DEF Invoke, Intended, Goroutine
  <2>3. CASE ToolReturns(i)
    BY <1>1, <2>3 DEF ToolReturns, Intended, Goroutine
  <2> QED
    BY <2>1, <2>2, <2>3 DEF doAction
<1>4. Rest(doing', next) = Rest(doing, next)
  <2>1. \A k \in next..Len(doing) : Intended(doing'[k]) = Intended(doing[k])
    BY <1>1, <1>3
  <2> QED
    BY <1>1, <1>2, <1>3, <2>1, RestSame
<1>5. Outstanding' = Rest(doing', next')
  BY DEF Outstanding, Rest, Intended, Trimmed
<1> QED
  BY <1>1, <1>4, <1>5 DEF Outstanding

(* Every run of the concurrent executor is a run of the sequential loop:   *)
(* goroutines and channels change the timing and nothing else.             *)
THEOREM Refinement == Spec => ImplementsLoop
<1>1. Init => Loop!Init
  <2>1. <<>> \in Seq(Goroutine) /\ Len(<<>>) = 0 /\ 1 \in 1..(0 + 1)
    OBVIOUS
  <2>2. Rest(<<>>, 1) = <<>>
    <3> DEFINE d == <<>>
    <3>1. d \in Seq(Goroutine) /\ 1 \in 1..(Len(d) + 1) /\ 1 = Len(d) + 1
      BY <2>1
    <3> HIDE DEF d
    <3>2. Rest(d, 1) = <<>>
      BY <3>1, RestType
    <3> QED
      BY <3>2 DEF d
  <2> QED
    BY <2>2 DEF Init, Loop!Init, Outstanding, Running
<1>2. ASSUME IInv, [Next]_vars
      PROVE  [Loop!Next]_(Loop!loopVars)
  <2>1. CASE PlanFails \/ PlanEmpty \/ PlanFinishes \/ GiveUp
    BY <1>2, <2>1, LoopStop
  <2>2. CASE PlanUnparsable \/ PlanActs
    BY <1>2, <2>2, LoopPlan
  <2>3. CASE ReceiveStep \/ ReceiveError
    BY <1>2, <2>3, LoopReceive
  <2>4. CASE \E i \in DOMAIN doing : doAction(i)
    BY <1>2, <2>4, LoopGoroutine DEF Loop!loopVars
  <2>5. CASE UNCHANGED vars
    BY <2>5 DEF vars, Loop!loopVars, Outstanding, Rest, Intended
  <2> QED
    BY <1>2, <2>1, <2>2, <2>3, <2>4, <2>5 DEF Next, Main
<1> QED
  BY <1>1, <1>2, Invariance, PTL DEF Spec, ImplementsLoop, Loop!Spec
=============================================================================
