SPECIFICATION FairSpec
CONSTANTS
    i1 = i1
    i2 = i2
    r1 = r1
    r2 = r2
    q1 = q1
    q2 = q2
    w1 = w1
    Offers <- TwoPrices
    FreeOffer <- Free
    Invoices = {i1, i2}
    NoInvoice = NoInvoice
    Refs = {r1}
    NoRef = NoRef
    Requests = {q1}
    Workers = {w1}
    MaxFaults = 2
    MaxInFlight = 2
INVARIANTS
    PaidInOneCurrency
    ActivatesWhatWasCharged
    IInv
PROPERTIES
    ChargeResolves
