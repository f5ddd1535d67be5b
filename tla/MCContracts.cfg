SPECIFICATION FairSpec
CONSTANTS
    sk = sk
    principal = principal
    yayasan = yayasan
    guru = guru
    NoUser = NoUser
    NoRequest = NoRequest
    Workers = {w1, w2}
    Documents <- MCDocuments
    Users <- MCUsers
    Role <- MCRole
    Delegates <- MCDelegates
    CategoryRole <- MCCategoryRole
    OwnRoles <- MCOwnRoles
    EffectWrites <- MCEffectWrites
    Recipient <- MCRecipient
    CreateStatuses = {"draft", "pending_signature", "approved"}
INVARIANTS
    TypeOK
    DecisionsAuthorised
    CleanRecordCoherent
    EffectsMatchSignature
PROPERTIES
    FollowsLifecycle
    SignatureTakesEffect
CHECK_DEADLOCK FALSE
