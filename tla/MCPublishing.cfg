SPECIFICATION Spec
CONSTANTS
    Users = {p1, p2}
    Devices = {d1}
    NoUser = NoUser
    MaxAsked = 2
    MaxMoves = 2
    Senders = {s1, s2}
    NoRequest = NoRequest
    NoRun = NoRun
SYMMETRY Symmetry
INVARIANTS
    TypeOK
    SentOncePerAsking
    EverybodyReached
    PushesAccounted
PROPERTIES
    PushedToOwner
CHECK_DEADLOCK FALSE
