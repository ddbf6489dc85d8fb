SPECIFICATION Spec
CONSTANTS
    Facts <- MCFacts
    Workers = {w1, w2}
    MaxAttempts = 2
    MaxMishaps = 1
    Together = 1
    Clients = {ca, cb}
    Proxies = {proxy}
    MaxHits = 2
    Window = 2
    Capacities = {1, 2}
    LastTick = 4
    Stages = {ka, kb}
    PoolSize = 1
    MaxTracked = 1
    MaxRestarts = 1
    Links = {l1, l2}
    SessionIds = {i1, i2}
    MaxFailures = 2
    Declarations = {1, 2}
    Terms = {2, 3}
    Filings <- MCFilings
    MaxOvertaken = 1
    RateBase = 10
    MAX_INSTALLMENTS = 3
    MaxDocSize = 2
    MaxTotalSize = 3
    Volumes <- MCVolumes
    Readings <- MCReadings
    Corrections <- MCCorrections
    Percents = {10, 120}
    Drafts <- MCDrafts
    MonthlyOf <- MCMonthlyOf
    MaxRounds = 2
    LockedDocuments = {"d1", "d2"}
    Admitted = {"d1"}
    LockedChunks = {"c1", "c2"}
    RuntimeChunks = {"c1", "c2", "c3"}
    DocumentOf <- MCDocumentOf
    Rules <- MCRules
    Decisions <- MCDecisions
    Agreements <- MCAgreements
    Models <- MCModels
    VendorOf <- MCVendorOf
    Providers = {"openrouter", "openai"}
    Rankings <- MCRankings
    SettingsTried <- MCSettings
    SHORTLIST_SIZE = 2
    Writers = {sa, sb}
    MaxEvents = 4
CHECK_DEADLOCK FALSE
INVARIANTS NoticesInv LimiterInv JobsInv AccountsInv PactInv  VerdictSound FamiliesApart AuditInv
PROPERTIES ErasedUnclaimed NoticesSettle
