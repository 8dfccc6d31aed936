SPECIFICATION Spec
CONSTANTS
    Instance = {i1, i2}
    max = 2
    window = 1
    Nil = Nil
    Never = Never
    MaxTime = 3
    MaxOutages = 0
    MaxCount = 3
INVARIANTS
    SharedLimit
