SPECIFICATION RegistrationSpec
CONSTANTS
    Apps = {a1, a2, a3}
    InvoiceIds = {}
    Years = {y26, y27}
    StartOf <- MCStartApart
    AccessCodes = {c1, c2}
    NoNumber = NoNumber
    NoRequest = NoRequest
    Workers = {w1}
SYMMETRY MCSymmetry
INVARIANTS
    LookupResolves
CHECK_DEADLOCK FALSE
