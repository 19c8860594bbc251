\* One owner of two workspaces: any three requests, charges, ticks and failures, two handlers at a time.
SPECIFICATION Spec
CONSTANTS
    Workspaces = {w1, w2}
    Handlers = {h1, h2}
    Free = Free
    Pro = Pro
    Business = Business
    Plans <- ThreePlans
    Tier <- InOrder
    Price <- InOrder
    TrialDays <- BusinessTrial
    Recurs <- OnlyPro
    Granted <- OnlyPro
    Period = 2
    Grace = 1
    None = None
    MaxInputs = 3
SYMMETRY Symmetric
INVARIANTS
    GraceFromFirstFailure
    OneTrial
    RoleFollowsPlans
PROPERTY AssignedRoleSticks
CHECK_DEADLOCK FALSE
