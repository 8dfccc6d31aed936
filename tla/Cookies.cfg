SPECIFICATION AdaptersSpec
CONSTANTS
    r1 = r1
    r2 = r2
    Requests <- MCRequests
    Shapes <- MCShapes
    Deployments <- MCDeployments
    Max = 1
    InnerKey = {"a", "__Proto__", "$where", "is_Admin", "password", "username"}
    OuterKey = {"a", "username"}
    Leaf = {"plain", "script", "two lines", "act as", "ignore instructions", "http://127.0.0.1", "a@b.co"}
    Absent = Absent
SYMMETRY Symmetry
CHECK_DEADLOCK FALSE
INVARIANTS
    CookiesSecured
