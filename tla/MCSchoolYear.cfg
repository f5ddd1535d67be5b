SPECIFICATION Spec
CONSTANTS
    Terms = {y25, y26, y27}
    Classes = {k7, k8}
    Students = {dewi}
    Lessons = {math}
    Homeroom = Homeroom
    Workers = {w1, w2}
    NoRequest = NoRequest
SYMMETRY MCSymmetry
INVARIANTS
    TypeOK
    OneActiveTerm
    OneClassPerStudent
    OneMark
CHECK_DEADLOCK FALSE
