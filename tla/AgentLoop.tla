----------------------------- MODULE AgentLoop -----------------------------
(***************************************************************************)
(* What an agent executor promises, without goroutines: a sequential loop  *)
(* that asks the agent for a plan, executes the actions of the plan one at *)
(* a time in the order of the plan, records one step for each, and stops   *)
(* at the first failure, at a finish, or when the plan budget is used up.  *)
(* AgentExecutor implements this module.                                   *)
(***************************************************************************)
EXTENDS Integers, Sequences

CONSTANTS
    MaxIterations,      \* number of Plan calls the executor may make
    HasErrorHandler,    \* Executor.ErrorHandler # nil
    Action,             \* the actions a plan may consist of
    Observation,        \* what a step may record
    Answers(_),         \* Answers(a): observations a tool may give for a
    Slip(_)             \* Slip(n): the step recorded for an unreadable n-th plan

VARIABLES
    plans,      \* number of Plan calls made
    steps,      \* the recorded steps
    todo,       \* actions of the current plan that have no step yet
    outcome     \* "running", or why the loop stopped

loopVars == <<plans, steps, todo, outcome>>

Init ==
    /\ plans = 0
    /\ steps = <<>>
    /\ todo = <<>>
    /\ outcome = "running"

Deliberating == outcome = "running" /\ todo = <<>>

(* The agent returns actions: they become what is left to do.             *)
PlanActions ==
    /\ Deliberating
    /\ plans < MaxIterations
    /\ plans' = plans + 1
    /\ todo' \in Seq(Action) \ {<<>>}
    /\ UNCHANGED <<steps, outcome>>

(* The answer of the model cannot be read and the agent is told so.        *)
PlanSlips ==
    /\ Deliberating
    /\ plans < MaxIterations
    /\ HasErrorHandler
    /\ plans' = plans + 1
    /\ steps' = Append(steps, Slip(plans + 1))
    /\ UNCHANGED <<todo, outcome>>

(* The agent finishes or fails.                                            *)
PlanEnds ==
    /\ Deliberating
    /\ plans < MaxIterations
    /\ plans' = plans + 1
    /\ outcome' \in {"finish", "noReturn", "planError"}
    /\ UNCHANGED <<steps, todo>>

(* The first outstanding action is carried out and its step recorded.      *)
Perform ==
    /\ outcome = "running"
    /\ todo # <<>>
    /\ \E o \in Answers(Head(todo)) :
          steps' = Append(steps, [action |-> Head(todo), observation |-> o])
    /\ todo' = Tail(todo)
    /\ UNCHANGED <<plans, outcome>>

(* The first outstanding action fails, and the loop with it.               *)
Fail ==
    /\ outcome = "running"
    /\ todo # <<>>
    /\ outcome' = "toolError"
    /\ UNCHANGED <<plans, steps, todo>>

(* The budget is used up.                                                  *)
GiveUp ==
    /\ Deliberating
    /\ plans >= MaxIterations
    /\ outcome' = "notFinished"
    /\ UNCHANGED <<plans, steps, todo>>

Next == PlanActions \/ PlanSlips \/ PlanEnds \/ Perform \/ Fail \/ GiveUp

Spec == Init /\ [][Next]_loopVars
=============================================================================
