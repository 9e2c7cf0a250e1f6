CONSTANTS
    MaxRetries = 2
    Accounts = {adm, usr}
    Admins = {adm}
    ReviewTools = {t1}
    MaxLoads = 2
    MaxTurns = 2
    Users = {u1, u2}
    Runs = {j1}
    MaxSteps = 4
    Owners = {o1, o2}
    Keys = {k1, k2}
    MaxKeyCalls = 3
    People = {p1, p2}
    MaxReloads = 2
    Repos = {r1, r2}
    MaxAnalyses = 2
    MaxSubmits = 2
    MaxPolls = 2
    MaxNews = 3
    TopResults = 2
    FallbackSize = 2
    Stock <- SmallStock
    Queries <- Searches
    Filters = {"all", "nlp"}
    Fallback = TRUE
    MaxAsks = 2
    SessionLimit = 2
    MaxVisits = 2
    MaxReads = 1
    MaxFiles = 3
    MaxTour = 3
    Errors = 3
    MaxCount = 2
    MaxReadings = 2
SPECIFICATION WebSpec
CHECK_DEADLOCK FALSE
INVARIANTS
    WriteOnce GateIsGuarded  UsersAreCurrent KeysAreCurrent
    OwnDataOnly SubmittedAsReviewed DemosAreSound ShowsWhatWasAsked

    
