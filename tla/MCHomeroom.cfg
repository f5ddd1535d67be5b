SPECIFICATION Spec
CONSTANTS
    Rows = {r1, r2}
    Classes = {k7, k8}
    Teachers = {ani, budi}
    Years = {y26, y27}
    NoRow = NoRow
    NoUser = NoUser
    Workers = {w1, w2}
    NoRequest = NoRequest
SYMMETRY MCSymmetry
INVARIANTS
    TypeOK
    HomeroomCoherent
CHECK_DEADLOCK FALSE
