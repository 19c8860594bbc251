\* One link, one custom domain; an entry outlives one tick, a negative one does not.
SPECIFICATION Spec
CONSTANTS
    Codes = {c1}
    Hosts = {h1}
    Dests = {d1}
    None = None
    Missing = Missing
    Requests = {r1}
    Editors = {e1, e2}
    PositiveTTL = 2
    NegativeTTL = 1
    Patience = 1
    MaxWrites = 2
    MaxFaults = 1
SYMMETRY Symmetric
INVARIANTS
    TypeOK
    CacheFresh
    AnswersAreRecent
    StaleOnlyIfExcused
CHECK_DEADLOCK FALSE
