SPECIFICATION SharedSpec
CONSTANTS
    Key = {k1}
    Proc = {p1, p2}
    Closer = {c1}
    EntryId = {e1, e2, e3}
    Nil = Nil
    Cost = {1, 2}
    MaxTokens = 2
    MaxRequestTokens = 0
    Window = 1
    MaxTime = 3
    MaxSpent = 4
    IP = {i1, i2, i3}
    Kind <- LoginAndTransfer
    NoValue = NoValue
    RacePair <- LoginTransferRace
    windowSeconds = 2
    raceWindow = 1
    maxIps = 2
    maxEventsPerIp = 3
    scannerDistinct = 2
    scannerMinRequests = 2
    credStuffDistinct = 1
    MaxWindowTime = 5
    MaxSkew = 1
    MaxRecords = 4
    Agent = {"x", "y", "z"}
    Suspicious = {"z"}
    Bundled <- TwoBots
    Feeds <- ThreeFeeds
    Fetcher = {f1, f2}
    Visitor = {r1}
    Allow = {"SOCIAL"}
    Deny = {"AUTOMATED"}
    DefaultAction = "allow"
    MaxArrays = 4
SYMMETRY Symmetry
CHECK_DEADLOCK FALSE
INVARIANTS
    NeverOvercharged
    EvidenceKept
    RaceScanExact
    OneCorpusDecides
PROPERTIES
    AlarmLasts
    WholeMerges
