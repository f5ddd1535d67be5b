SPECIFICATION Spec
CONSTANTS
    sk = sk
    principal = principal
    yayasan = yayasan
    guru = guru
    NoUser = NoUser
    NoRequest = NoRequest
    Workers = {w1, w2}
    Documents <- MCDocuments
    Users <- MCUsers
    Role <- MCRole
    Delegates <- MCDelegates
    CategoryRole <- MCCategoryRole
    OwnRoles <- MCFoundationRoles
    EffectWrites <- MCEffectWrites
    Recipient <- MCRecipient
    CreateStatuses = {"draft", "pending_signature", "approved"}
INVARIANT NotifiedMayApprove
CHECK_DEADLOCK FALSE
