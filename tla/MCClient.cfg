SPECIFICATION Spec
CONSTANTS
    Callers <- AllCallers
    Addresses = {"Ann", "ann", "bob"}
    Canonical <- Lowercase
    Passwords = {p1}
    Registered = {"bob"}
    OtherAddresses = {"ann"}
    None = None
    MaxTokens = 2
    Disturbances = 1
    MaxUserActions = 2
INVARIANTS
    RegistrationsStand
    ShownUserOwnsToken
    AnonymousHoldsNoToken
    SessionInv
PROPERTIES
    SessionDecides
    PageCatchesUp
    ActionIsShown
CHECK_DEADLOCK FALSE
