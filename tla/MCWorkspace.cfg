\* Three requests, two at a time, on a workspace with two members, two domains, a QR code
\* and a campaign.
SPECIFICATION Spec
CONSTANTS
    Users = {u1, u2, u3, u4}
    Founder = u1
    Partner = u2
    Names = {n1, n2, n3}
    Home = n1
    Spare = n2
    Colours = {black, white}
    Black = black
    White = white
    None = None
    Dates <- TwoDays
    Limit <- OneMore
    Requests = {r1, r2}
    MaxOps = 3
SYMMETRY Symmetric
INVARIANTS
    TypeOK
    OwnerRemains
    OnePrimary
    ServedNameWasProven
    MergedRowsValid
    LimitsHold
PROPERTY ArchivedIsFinal
CHECK_DEADLOCK FALSE
