\* A subscription that was never paid for: a trial, and the same plan again.
SPECIFICATION Spec
CONSTANTS
    Workspaces = {w1}
    Handlers = {h1}
    Free = Free
    Pro = Pro
    Business = Business
    Plans <- ThreePlans
    Recurs <- OnlyPro
    Granted <- OnlyPro
    Tier <- InOrder
    Price <- InOrder
    TrialDays <- BusinessTrial
    Period = 2
    Grace = 1
    None = None
    MaxInputs = 3
INVARIANT ActiveWasPaid
CHECK_DEADLOCK FALSE
