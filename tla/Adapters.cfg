SPECIFICATION AdaptersSpec
CONSTANTS
    r1 = r1
    r2 = r2
    Requests <- MCRequests
    Shapes <- MCShapes
    Deployments <- MCDeployments
    Max = 1
    InnerKey = {"a", "__Proto__", "wide proto", "wide sibling", "$where", "$elemMatch", "is_Admin", "password", "username"}
    OuterKey = {"a", "username"}
    Leaf = {"plain", "script", "filter", "two lines", "act as", "ignore instructions", "http://127.0.0.1", "a@b.co"}
    Absent = Absent
SYMMETRY Symmetry
CHECK_DEADLOCK FALSE
INVARIANTS
    HandledIsClean
    DryRunObserves
    OneEventPerRequest
    QuotaForScreened
    HandlerHasInput

    
