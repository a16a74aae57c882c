\* Two plans of at most two actions, with an error handler and callbacks.
SPECIFICATION FairSpec
CONSTANTS
    Names = {"Search", "search", "oops"}
    Upper <- MCUpper
    Tools <- TwoTools
    NoName = ""
    Inputs = {0, 1}
    MaxActions = 2
    MaxIterations = 2
    HasErrorHandler = TRUE
    HasCallbacks = TRUE
    ReturnIntermediateSteps = TRUE
INVARIANTS TypeOK StepsInPlanOrder AgreeOnInput NothingInFlight FinishReported ErrorIsFirstFailure
PROPERTIES CallReturns ImplementsLoop AbandonedBlock
CHECK_DEADLOCK FALSE
