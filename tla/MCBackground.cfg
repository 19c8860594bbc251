SPECIFICATION Spec
CONSTANTS
    Clients = {a1, a2}
    Requests = {b1, b2}
    NoClient = NoClient
    MaxTokens = 4
    MaxMails = 1
    MaxInputs = 5
    Clicks = {k1, k2, k3}
    ClickWorkers = {a1, a2}
    NoClick = NoClick
    NativeUpsert = FALSE
    ClickAttempts = 2
    MaxClickFaults = 2
    Tickers = {t1, t2}
    Mailers = {b1, b2}
    Hours = 3
    HoursPerDay = 2
    SendAttempts = 2
    MaxReportFaults = 1
SYMMETRY Symmetric
INVARIANTS
    OldSessionsEnd
    AlarmExplained
    ClicksCountedOnce
    
CHECK_DEADLOCK FALSE
