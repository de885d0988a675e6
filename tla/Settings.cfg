CONSTANTS
    dns = dns
    obj = obj
    otomi = otomi
    Ids <- MCIds
    Otomi = otomi
    SecretIds <- MCSecretIds
    Legacy <- MCLegacy
    Sealed0 <- MCSealed0
    Wizard = obj
    Requests = {q1, q2}
    Others = {o1}
    Initial = Initial
    None = None
SPECIFICATION Spec
SYMMETRY Symmetry
INVARIANTS
    TypeOK
    PlaintextStaysOut
    

    
CHECK_DEADLOCK FALSE
