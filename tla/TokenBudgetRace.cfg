SPECIFICATION Spec
CONSTANTS
    Key = {k1}
    Proc = {p1, p2}
    Closer = {}
    EntryId = {e1, e2, e3}
    Nil = Nil
    Cost = {0, 1, 2}
    MaxTokens = 2
    MaxRequestTokens = 0
    Window = 1
    MaxTime = 3
    MaxSpent = 4
INVARIANTS
    SpendingCapped
