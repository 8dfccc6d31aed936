SPECIFICATION Spec
CONSTANTS
    Instance = {i1, i2}
    max = 2
    window = 1
    Nil = Nil
    Never = Never
    MaxTime = 3
    MaxOutages = 2
    MaxCount = 3
INVARIANTS
    QuotaKept
PROPERTIES
    RefusalsRecent
