SPECIFICATION FairSpec
CONSTANTS
    d1 = d1
    d2 = d2
    d3 = d3
    w1 = w1
    w2 = w2
    None = None
    Dispatches <- MCDispatches
    Budgeted <- MCBudgeted
    Workers <- MCWorkers
    StartsWithinGrace = TRUE
INVARIANTS
    TypeOK
    RunningHoldsOneSlot
    RefusedNeverRuns
    DiscardOnlyPastDeadline
PROPERTIES
    ImplementsContract
    BudgetedAnswered
    EveryDispatchAnswered
    SlotsReturn
CHECK_DEADLOCK FALSE
