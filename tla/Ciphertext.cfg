CONSTANTS
    dns = dns
    obj = obj
    otomi = otomi
    Ids <- MCIds
    Otomi = otomi
    SecretIds <- MCSecretIds
    Legacy <- MCLegacy
    Sealed0 <- MCSealed0
    Wizard = obj
    Requests = {q1}
    Others = {}
    Initial = Initial
    None = None
SPECIFICATION Spec
INVARIANT
    CiphertextStaysOut
CHECK_DEADLOCK FALSE
