--------------------------- MODULE AgentExecutor ---------------------------
(***************************************************************************)
(* agents/executor.go: one run of Executor.Call.                           *)
(*                                                                         *)
(* The main goroutine asks the agent for a plan, starts one doAction       *)
(* goroutine for every action of the plan, each with an unbuffered channel *)
(* of its own, and then receives from the channels in the order of the     *)
(* plan.  The first error it receives ends the call at once, whatever the  *)
(* other goroutines are doing.                                             *)
(*                                                                         *)
(* The agent (Agent.Plan) and the tools (Tool.Call) are the environment:   *)
(* they may answer anything.  The text of an input is abstracted to the    *)
(* number of "Observation:" lines the model left at its end, and the text  *)
(* of an observation to where it comes from.                               *)
(***************************************************************************)
EXTENDS Integers, Sequences, FiniteSets

CONSTANTS
    Names,              \* tool names as a model may spell them
    Upper,              \* Upper[n]: n in upper case
    Tools,              \* Agent.GetTools(): the names of the tools, in order
    Inputs,             \* "Observation:" lines at the end of an input
    MaxActions,         \* bound on the actions in one plan
    MaxIterations,      \* Executor.MaxIterations
    HasErrorHandler,    \* Executor.ErrorHandler # nil
    HasCallbacks,       \* Executor.CallbacksHandler # nil
    ReturnIntermediateSteps,
    NoName              \* the Tool field of the zero AgentAction

ASSUME NamesAssumption ==
    /\ NoName \notin Names
    /\ Upper \in [Names -> Names]
    /\ Tools \in Seq(Names)
ASSUME InputsAssumption == Inputs \subseteq Nat
ASSUME BoundsAssumption == MaxActions \in Nat /\ MaxIterations \in Int
ASSUME OptionsAssumption ==
    {HasErrorHandler, HasCallbacks, ReturnIntermediateSteps} \subseteq BOOLEAN

VARIABLES
    pc,         \* main goroutine: "plan", "read" or "returned"
    plans,      \* calls of Agent.Plan made so far
    steps,      \* the recorded steps
    messages,   \* intermediateMessages: the plans that contributed one
    doing,      \* the doAction goroutines of the latest plan, in plan order
    next,       \* index of the stream the main goroutine reads
    notified,   \* actions given to HandleAgentAction
    invoked,    \* Tool.Call calls made: which tool, for which action
    finishes,   \* outcomes given to HandleAgentFinish
    result      \* what Call returns

mainVars == <<pc, plans, steps, messages, next, finishes, result>>
vars == <<pc, plans, steps, messages, doing, next, notified, invoked,
          finishes, result>>
-----------------------------------------------------------------------------
(* Data.  An action carries its place in the conversation, so that two     *)
(* actions with the same tool and the same input can be told apart.        *)

Place == Nat \X Nat
Action == [at : Place, tool : Names, input : Nat]

(* The zero AgentAction of a step that only tells the agent that its       *)
(* answer was unreadable.                                                  *)
ZeroAction(n) == [at |-> <<n, 0>>, tool |-> NoName, input |-> 0]

Observation ==
    [kind : {"none", "unparsable", "invalidTool", "toolResult", "toolError"},
     of   : Place,      \* the action that was carried out
     tool : Nat,        \* the tool that answered, 0 for none
     input : Nat]       \* the input it was given

Observed(kind, a, t) ==
    [kind |-> kind, of |-> a.at, tool |-> t, input |-> a.input]

Step == [action : [at : Place, tool : Names \cup {NoName}, input : Nat],
         observation : Observation]

(* getNameToTool: the last tool wins when two names differ in case only.   *)
nameToTool ==
    [n \in {Upper[Tools[t]] : t \in DOMAIN Tools} |->
        CHOOSE t \in DOMAIN Tools :
            /\ Upper[Tools[t]] = n
            /\ \A u \in DOMAIN Tools : Upper[Tools[u]] = n => u <= t]

(* Deviation: a line is cut whether or not there is one.                   *)
TrimUnconditionally(input) == input - 1

(* One trailing "Observation:" line is cut, the others stay.               *)
trimHallucinatedObservation(input) == IF input > 0 THEN input - 1 ELSE input

Trimmed(a) == [a EXCEPT !.input = trimHallucinatedObservation(a.input)]

(* The plans an agent may return: a tool name and an input for each action. *)
Proposals == UNION {[1..n -> [tool : Names, input : Inputs]] : n \in 1..MaxActions}

Goroutine == [state : {"spawned", "notified", "calling", "sending", "done"},
              action : Action,
              observation : Observation]

Nothing(a) == Observed("none", a, 0)

(* The goroutines of the n-th plan, one for each action, in plan order.    *)
Located(p, n, i) == [at |-> <<n, i>>, tool |-> p[i].tool, input |-> p[i].input]

Started(p, n) ==
    [i \in DOMAIN p |->
        [state |-> "spawned",
         action |-> Located(p, n, i),
         observation |-> Nothing(Located(p, n, i))]]

Running == [outcome |-> "running", steps |-> <<>>]

Outcomes == {"running", "finish", "notFinished", "noReturn", "planError", "toolError"}

TypeOK ==
    /\ pc \in {"plan", "read", "returned"}
    /\ plans \in Nat
    /\ steps \in Seq(Step)
    /\ messages \in Seq(Nat)
    /\ doing \in Seq(Goroutine)
    /\ next \in Nat \ {0}
    /\ notified \subseteq Action
    /\ invoked \subseteq [at : Place, tool : Nat, input : Nat]
    /\ finishes \in Seq(Outcomes)
    /\ result \in [outcome : Outcomes, steps : Seq(Step)]
-----------------------------------------------------------------------------
Init ==
    /\ pc = "plan"
    /\ plans = 0
    /\ steps = <<>>
    /\ messages = <<>>
    /\ doing = <<>>
    /\ next = 1
    /\ notified = {}
    /\ invoked = {}
    /\ finishes = <<>>
    /\ result = Running

(* getReturn: the recorded steps are part of the return values on request. *)
getReturn(outcome) ==
    [outcome |-> outcome,
     steps |-> IF ReturnIntermediateSteps THEN steps ELSE <<>>]

(* Call returns a nil map and an error.                                    *)
ReturnError(outcome) ==
    /\ pc' = "returned"
    /\ result' = [outcome |-> outcome, steps |-> <<>>]

(* Deviation: one Plan call more than MaxIterations.                       *)
CallPlanOnceMore ==
    /\ pc = "plan"
    /\ plans <= MaxIterations
    /\ plans' = plans + 1
    /\ messages' \in {messages, Append(messages, plans + 1)}
    /\ UNCHANGED <<notified, invoked>>

(* Agent.Plan is called and its new messages, if any, are kept whatever    *)
(* else it returns.                                                        *)
CallPlan ==
    /\ pc = "plan"
    /\ plans < MaxIterations
    /\ plans' = plans + 1
    /\ messages' \in {messages, Append(messages, plans + 1)}
    /\ UNCHANGED <<notified, invoked>>

(* ErrUnableToParseOutput with an error handler: the agent is told.        *)
PlanUnparsable ==
    /\ CallPlan
    /\ HasErrorHandler
    /\ steps' = Append(steps,
                       [action |-> ZeroAction(plans + 1),
                        observation |-> Observed("unparsable", ZeroAction(plans + 1), 0)])
    /\ UNCHANGED <<pc, doing, next, finishes, result>>

(* Any other error of Plan, or ErrUnableToParseOutput with no handler.     *)
PlanFails ==
    /\ CallPlan
    /\ ReturnError("planError")
    /\ UNCHANGED <<steps, doing, next, finishes>>

(* Neither actions nor a finish: ErrAgentNoReturn.                         *)
PlanEmpty ==
    /\ CallPlan
    /\ ReturnError("noReturn")
    /\ UNCHANGED <<steps, doing, next, finishes>>

HandleAgentFinish(outcome) ==
    finishes' = IF HasCallbacks THEN Append(finishes, outcome) ELSE finishes

PlanFinishes ==
    /\ CallPlan
    /\ HandleAgentFinish("finish")
    /\ pc' = "returned"
    /\ result' = getReturn("finish")
    /\ UNCHANGED <<steps, doing, next>>

(* Actions: all their goroutines are started before any stream is read.    *)
PlanActs ==
    /\ CallPlan
    /\ \E p \in Proposals : doing' = Started(p, plans + 1)
    /\ pc' = "read"
    /\ next' = 1
    /\ UNCHANGED <<steps, finishes, result>>

(* Deviation: exhaustion is not reported to the callbacks.                 *)
GiveUpSilently ==
    /\ pc = "plan"
    /\ plans >= MaxIterations
    /\ pc' = "returned"
    /\ result' = getReturn("notFinished")
    /\ UNCHANGED <<plans, steps, messages, doing, next, notified, invoked, finishes>>

(* The budget of plans is used up: ErrNotFinished, with return values.     *)
GiveUp ==
    /\ pc = "plan"
    /\ plans >= MaxIterations
    /\ HandleAgentFinish("notFinished")
    /\ pc' = "returned"
    /\ result' = getReturn("notFinished")
    /\ UNCHANGED <<plans, steps, messages, doing, next, notified, invoked>>
-----------------------------------------------------------------------------
(* doAction: goroutine i.                                                  *)

(* Deviation: the callback sees the input as the model wrote it.           *)
NotifyBeforeTrim(i) ==
    /\ doing[i].state = "spawned"
    /\ doing' = [doing EXCEPT ![i].state = "notified",
                              ![i].action = Trimmed(doing[i].action)]
    /\ notified' = IF HasCallbacks THEN notified \cup {doing[i].action}
                                   ELSE notified
    /\ UNCHANGED <<mainVars, invoked>>

Notify(i) ==
    /\ doing[i].state = "spawned"
    /\ doing' = [doing EXCEPT ![i].state = "notified",
                              ![i].action = Trimmed(doing[i].action)]
    /\ notified' = IF HasCallbacks THEN notified \cup {Trimmed(doing[i].action)}
                                   ELSE notified
    /\ UNCHANGED <<mainVars, invoked>>

(* Deviation: nothing is sent for a tool that does not exist, and the      *)
(* channel stays open.                                                     *)
InvokeIgnoresUnknown(i) ==
    LET a == doing[i].action
        name == Upper[a.tool]
    IN
    /\ doing[i].state = "notified"
    /\ \/ /\ name \in DOMAIN nameToTool
          /\ doing' = [doing EXCEPT ![i].state = "calling"]
          /\ invoked' = invoked \cup
                 {[at |-> a.at, tool |-> nameToTool[name], input |-> a.input]}
       \/ /\ name \notin DOMAIN nameToTool
          /\ doing' = [doing EXCEPT ![i].state = "done"]
          /\ UNCHANGED invoked
    /\ UNCHANGED <<mainVars, notified>>

(* The tool is looked up and called, or the agent is told there is none.   *)
Invoke(i) ==
    LET a == doing[i].action
        name == Upper[a.tool]
    IN
    /\ doing[i].state = "notified"
    /\ \/ /\ name \in DOMAIN nameToTool
          /\ doing' = [doing EXCEPT ![i].state = "calling"]
          /\ invoked' = invoked \cup
                 {[at |-> a.at, tool |-> nameToTool[name], input |-> a.input]}
       \/ /\ name \notin DOMAIN nameToTool
          /\ doing' = [doing EXCEPT ![i].state = "sending",
                                    ![i].observation = Observed("invalidTool", a, 0)]
          /\ UNCHANGED invoked
    /\ UNCHANGED <<mainVars, notified>>

(* Deviation: a goroutine whose call is over drops its answer and ends, as *)
(* it would with a buffered channel.                                       *)
ToolReturnsBuffered(i) ==
    LET a == doing[i].action IN
    /\ doing[i].state = "calling"
    /\ \E kind \in {"toolResult", "toolError"} :
          doing' = [doing EXCEPT
                       ![i].state = IF pc = "returned" THEN "done" ELSE "sending",
                       ![i].observation = Observed(kind, a, nameToTool[Upper[a.tool]])]
    /\ UNCHANGED <<mainVars, notified, invoked>>

(* The tool answers or fails.                                              *)
ToolReturns(i) ==
    LET a == doing[i].action IN
    /\ doing[i].state = "calling"
    /\ \E kind \in {"toolResult", "toolError"} :
          doing' = [doing EXCEPT ![i].state = "sending",
                       ![i].observation = Observed(kind, a, nameToTool[Upper[a.tool]])]
    /\ UNCHANGED <<mainVars, notified, invoked>>

(* The unbuffered send of goroutine next meets the receive of the main     *)
(* goroutine.                                                              *)
Delivered ==
    /\ pc = "read"
    /\ doing[next].state = "sending"
    /\ doing' = [doing EXCEPT ![next].state = "done"]
    /\ UNCHANGED <<plans, messages, notified, invoked, finishes>>

(* Deviation: steps are recorded in the order the tools finish.            *)
ReceiveFirstReady ==
    \E i \in DOMAIN doing :
        /\ pc = "read"
        /\ doing[i].state = "sending"
        /\ doing[i].observation.kind # "toolError"
        /\ doing' = [doing EXCEPT ![i].state = "done"]
        /\ steps' = Append(steps, [action |-> doing[i].action,
                                   observation |-> doing[i].observation])
        /\ pc' = IF next = Len(doing) THEN "plan" ELSE "read"
        /\ next' = next + 1
        /\ UNCHANGED <<plans, messages, notified, invoked, finishes, result>>

(* Deviation: the last stream of a plan is not read.                       *)
ReceiveButLast ==
    /\ Delivered
    /\ doing[next].observation.kind # "toolError"
    /\ steps' = Append(steps, [action |-> doing[next].action,
                               observation |-> doing[next].observation])
    /\ pc' = IF next + 1 >= Len(doing) THEN "plan" ELSE "read"
    /\ next' = next + 1
    /\ UNCHANGED result

ReceiveStep ==
    /\ Delivered
    /\ doing[next].observation.kind # "toolError"
    /\ steps' = Append(steps, [action |-> doing[next].action,
                               observation |-> doing[next].observation])
    /\ pc' = IF next = Len(doing) THEN "plan" ELSE "read"
    /\ next' = next + 1
    /\ UNCHANGED result

(* Deviation: the first tool to fail in time ends the call.                *)
ReceiveAnyError ==
    \E i \in DOMAIN doing :
        /\ pc = "read"
        /\ doing[i].state = "sending"
        /\ doing[i].observation.kind = "toolError"
        /\ doing' = [doing EXCEPT ![i].state = "done"]
        /\ ReturnError("toolError")
        /\ UNCHANGED <<plans, steps, messages, next, notified, invoked, finishes>>

ReceiveError ==
    /\ Delivered
    /\ doing[next].observation.kind = "toolError"
    /\ ReturnError("toolError")
    /\ UNCHANGED <<steps, next>>
-----------------------------------------------------------------------------
Main == \/ PlanUnparsable \/ PlanFails \/ PlanEmpty \/ PlanFinishes \/ PlanActs
        \/ GiveUp \/ ReceiveStep \/ ReceiveError

doAction(i) == Notify(i) \/ Invoke(i) \/ ToolReturns(i)

(* After the call returned only abandoned goroutines are left; when they   *)
(* are all done or blocked in their sends nothing happens any more.        *)
Next == Main \/ \E i \in DOMAIN doing : doAction(i)

Spec == Init /\ [][Next]_vars

(* Every goroutine is scheduled, Plan and Tool.Call return.                *)
Fairness ==
    /\ WF_vars(Main)
    /\ \A i \in 1..MaxActions : WF_vars(i \in DOMAIN doing /\ doAction(i))

FairSpec == Spec /\ Fairness
-----------------------------------------------------------------------------
(***************************************************************************)
(* Properties.                                                             *)
(***************************************************************************)

Follows(p, q) ==
    \/ q[1] = p[1] /\ q[2] = p[2] + 1
    \/ q[1] = p[1] + 1 /\ q[2] \in {0, 1}

(* The steps the agent plans from are in the order of its plans, with none *)
(* missing or repeated, although the goroutines that produce them finish   *)
(* in any order; and when the agent is asked again every action of its     *)
(* latest plan has its step (doIteration reads stream after stream).       *)
StepsInPlanOrder ==
    /\ \A j \in 1..(Len(steps) - 1) :
          Follows(steps[j].action.at, steps[j + 1].action.at)
    /\ pc = "plan" /\ plans > 0 =>
          /\ steps # <<>>
          /\ LET last == steps[Len(steps)].action.at IN
                /\ last[1] = plans
                /\ last[2] # 0 => last[2] = Len(doing)

Agrees(s) ==
    LET a == s.action
        o == s.observation
    IN
    /\ o.of = a.at /\ o.input = a.input
    /\ a.tool # NoName /\ HasCallbacks => a \in notified
    /\ o.kind = "toolResult" =>
          /\ [at |-> a.at, tool |-> o.tool, input |-> a.input] \in invoked
          /\ o.tool \in DOMAIN Tools /\ Upper[Tools[o.tool]] = Upper[a.tool]
    /\ o.kind = "invalidTool" =>
          \A t \in DOMAIN Tools : Upper[Tools[t]] # Upper[a.tool]

(* "The callback, the recorded AgentStep, and the tool call all agree on   *)
(* what input was actually used" (executor.go, doAction), the observation  *)
(* of a step comes from its own action, and the tool that answered is the  *)
(* one the action names up to case.                                        *)
AgreeOnInput ==
    /\ \A j \in 1..Len(steps) : Agrees(steps[j])
    /\ HasCallbacks => \A r \in invoked :
          \E a \in notified : a.at = r.at /\ a.input = r.input

(* The error Call returns is that of the first failing action in plan      *)
(* order, whichever tool fails first in time; all earlier actions have     *)
(* their steps.                                                            *)
ErrorIsFirstFailure ==
    result.outcome = "toolError" =>
        /\ next \in DOMAIN doing
        /\ doing[next].state = "done"
        /\ doing[next].observation.kind = "toolError"
        /\ \A i \in 1..(next - 1) :
              doing[i].state = "done" /\ doing[i].observation.kind # "toolError"

(* A goroutine outlives the reading of its plan only when a tool failed:   *)
(* Plan is never called, and Call never returns without a tool error,      *)
(* while an earlier action is still being carried out.                     *)
NothingInFlight ==
    pc # "read" /\ result.outcome # "toolError" =>
        \A i \in DOMAIN doing : doing[i].state = "done"

(* HandleAgentFinish is called exactly once for a call that ends with a    *)
(* finish or with ErrNotFinished, and never for one that fails.            *)
FinishReported ==
    HasCallbacks =>
        finishes = IF result.outcome \in {"finish", "notFinished"}
                   THEN <<result.outcome>> ELSE <<>>

(* Call returns: the plan budget bounds the loop, even when every answer   *)
(* is unreadable, and no receive waits for a goroutine that will not send. *)
CallReturns == <>(pc = "returned")

(* The goroutines a tool error leaves behind never end: each runs its tool *)
(* and is then blocked for good in its send, which nobody receives.        *)
AbandonedBlock ==
    \A i \in 1..MaxActions :
        (pc = "returned" /\ i \in DOMAIN doing /\ doing[i].state # "done")
            ~> [](i \in DOMAIN doing /\ doing[i].state = "sending")

-----------------------------------------------------------------------------
(***************************************************************************)
(* The inductive invariant behind the safety properties: where the main    *)
(* goroutine is fixes which goroutines may still run and what the latest   *)
(* step is, and each goroutine has left its traces before it sends.        *)
(***************************************************************************)

Answered(g) == g.state \in {"sending", "done"}

(* What goroutine i has done so far.                                       *)
GoroutineInv(i) ==
    LET g == doing[i]
        a == g.action
        o == g.observation
        name == Upper[a.tool]
    IN
    /\ a.at[2] = i
    /\ a.tool \in Names
    /\ pc = "read" => a.at[1] = plans
    /\ HasCallbacks /\ g.state # "spawned" => a \in notified
    /\ g.state = "calling" =>
          /\ name \in DOMAIN nameToTool
          /\ [at |-> a.at, tool |-> nameToTool[name], input |-> a.input] \in invoked
    /\ Answered(g) =>
          /\ o.of = a.at
          /\ o.input = a.input
          /\ \/ /\ o.kind = "invalidTool"
                /\ o.tool = 0
                /\ name \notin DOMAIN nameToTool
             \/ /\ o.kind \in {"toolResult", "toolError"}
                /\ name \in DOMAIN nameToTool
                /\ o.tool = nameToTool[name]
                /\ [at |-> a.at, tool |-> o.tool, input |-> a.input] \in invoked

(* What the main goroutine has read.                                       *)
ReadInv ==
    /\ next \in 1..(Len(doing) + 1)
    /\ pc = "read" => next \in DOMAIN doing
    /\ \A i \in 1..(next - 1) :
          doing[i].state = "done" /\ doing[i].observation.kind # "toolError"
    /\ pc = "read" => \A i \in next..Len(doing) : doing[i].state # "done"
    /\ pc = "plan" => next = Len(doing) + 1
    /\ pc = "returned" /\ result.outcome # "toolError" => next = Len(doing) + 1
    /\ result.outcome = "running" <=> pc # "returned"

(* The place of the latest step.                                           *)
LatestStep ==
    /\ plans = 0 => pc # "read" /\ steps = <<>>
    /\ pc = "plan" /\ plans > 0 =>
          /\ steps # <<>>
          /\ steps[Len(steps)].action.at \in {<<plans, 0>>, <<plans, Len(doing)>>}
    /\ pc = "read" /\ next = 1 =>
          \/ steps = <<>> /\ plans = 1
          \/ steps # <<>> /\ steps[Len(steps)].action.at[1] = plans - 1
    /\ pc = "read" /\ next > 1 =>
          steps # <<>> /\ steps[Len(steps)].action.at = <<plans, next - 1>>

IInv ==
    /\ TypeOK
    /\ \A i \in DOMAIN doing : GoroutineInv(i)
    /\ ReadInv
    /\ LatestStep
    /\ StepsInPlanOrder
    /\ AgreeOnInput
    /\ ErrorIsFirstFailure
    /\ FinishReported
-----------------------------------------------------------------------------
(* The step an action or an unreadable plan leads to, as the sequential    *)
(* loop sees it.                                                           *)
Answers(a) ==
    {Observed("toolResult", a, t) :
        t \in {u \in DOMAIN Tools : Upper[Tools[u]] = Upper[a.tool]}}
    \cup {Observed("invalidTool", a, 0)}

Slip(n) == [action |-> ZeroAction(n),
            observation |-> Observed("unparsable", ZeroAction(n), 0)]

(* The action of a goroutine as it will be carried out.                    *)
Intended(g) == IF g.state = "spawned" THEN Trimmed(g.action) ELSE g.action

(* What is left to read of the goroutines d from the n-th on.              *)
Rest(d, n) == [i \in 1..(Len(d) - n + 1) |-> Intended(d[i + n - 1])]

Outstanding == Rest(doing, next)

Loop == INSTANCE AgentLoop WITH todo <- Outstanding, outcome <- result.outcome

(* The concurrent executor implements the sequential loop of AgentLoop.    *)
ImplementsLoop == Loop!Spec
=============================================================================
