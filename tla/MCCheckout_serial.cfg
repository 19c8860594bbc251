SPECIFICATION Spec
CONSTANTS
    i1 = i1
    i2 = i2
    r1 = r1
    r2 = r2
    q1 = q1
    q2 = q2
    w1 = w1
    Offers <- TwoPlans
    FreeOffer <- Free
    Invoices = {i1, i2}
    NoInvoice = NoInvoice
    Refs = {r1, r2}
    NoRef = NoRef
    Requests = {q1, q2}
    Workers = {w1}
    MaxFaults = 0
    MaxInFlight = 1
INVARIANTS
    AppliedOnce
    OnePendingPerPlan
    RoleFollowsPlan
PROPERTIES
    TerminalInvoices
    UpgradesArePaid
SYMMETRY Symmetric
