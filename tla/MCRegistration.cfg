SPECIFICATION RegistrationSpec
CONSTANTS
    Apps = {a1, a2, a3}
    InvoiceIds = {i1, i2}
    Years = {y1, y2}
    StartOf <- MCStartAlike
    AccessCodes = {c1}
    NoNumber = NoNumber
    NoRequest = NoRequest
    Workers = {w1, w2}
SYMMETRY MCSymmetry
INVARIANTS
    RegistrationTypeOK
    NumbersGivenOnce
CHECK_DEADLOCK FALSE
