SPECIFICATION StandaloneSpec
CONSTANTS
    Key = {k1, k2}
    max = 2
    window = 2
    NoEntry = NoEntry
    MaxTime = 7
    MaxCount = 3
    slidingMax = 2
    slidingWindow = 4
    SlidingSecond = 2
    SlidingMaxTime = 12
    BucketParts = 2
    Capacity = 3
    Cost = 2
    Refill = 1
    BucketSecond = 3
    BucketMaxTime = 15
    GuardKey = {k1}
    Job = {j1, j2}
    Tokens <- OneOrNegative
    GuardMax = 1
    GuardWindow = 1
    MaxTokens = 1
    TokenWindow = 2
    MaxRequestTokens = 0
    GuardMaxTime = 3
    GuardMaxCount = 2
    Fragment = {f1, f2, f3}
    Braces <- FourBraces
    MaxDepth = 1
    MaxBatch = 2
    Tab = {t1, t2}
    Setups <- SoundSetups
    NoToken = NoToken
    MaxIssued = 2
    Origin = {"a", "b"}
    Policies <- OneAndNull
    MaxOps = 3
    Param = {"p", "l"}
    Listed = {"l"}
    Attack = "attack"
    Client = {"c4", "c6"}
    Proxies <- TwoProxies
    Written = {"", "word", "long"}
    Blank = ""
    MaxWritten = 3
    sanitizeIP <- CutLong
    extractIP <- Bracketed
    Bot = {"monitor", "scraper"}
    Human = "human"
    Domain = {"partner", "rival", "throwaway", "home"}
    disposableDomains = {"throwaway", "partner"}
    Missing = "missing"
    Malformed = "malformed"
    ApiOrigin = {"ours", "theirs"}
    NoOrigin = "none"
    Protections <- EightProtections
    LoginMax = 1
    LoginWindow = 1
    LoginMaxTime = 3
    LoginMaxCount = 2
    Length = 5
    Overlapping = FALSE
    Character = {"a", ".", "_", " ", "/", "newline", "<", "php", "jpg"}
    MaxLength = 4
    Absent = Absent
CHECK_DEADLOCK FALSE
INVARIANTS
    WeightedQuota
    BurstBounded
    VerdictExact
    OnlyVerifiedHandled
    SettledPageAccepted
    AnswersKept
    InputJudged
    Redacted
    ClientIsPeer
    StoredSafely
PROPERTIES
    IsQuota
    RetryHonoured
    RefusedStaysOut
    OnlyScreenedCharged
