SPECIFICATION Spec
CONSTANTS
    Tab = {t1, t2}
    Setups <- GinWithOnError
    NoToken = NoToken
    MaxIssued = 2
INVARIANTS
    OnlyVerifiedHandled
