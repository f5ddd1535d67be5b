SPECIFICATION Spec
CONSTANTS
    applied = applied
    payment = payment
    NoStage = NoStage
    NoKey = NoKey
    NoRequest = NoRequest
    Apps = {a1}
    Workers = {w1, w2}
    Keys <- MCKeys
    Roles <- MCRoles
    NewRoles <- MCNewRoles
    Defaults <- MCDefaults
SYMMETRY MCSymmetry
INVARIANTS
    TypeOK
    SingletonRoles
    ApplicationsStand
PROPERTIES
    StepsAllowed
CHECK_DEADLOCK FALSE
