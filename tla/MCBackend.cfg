SPECIFICATION MCSpec
CONSTANTS
    Requests = {r1, r2, r3}
    Browsers = {b1}
    Identities = {google, github}
    Emails = {ana, bia}
    Names = {stem}
    Suffixes = 1
    ProviderOf <- MCProviderOf
    EmailOf <- MCEmailOf
    LoginOf <- MCLoginOf
    StemOf <- MCStemOf
    Old = {old}
    None = None
    google = google
    github = github
    ana = ana
    bia = bia
    stem = stem
    old = old
    Links = {l1, l2}
    Statuses = {"saved", "applied"}
    Staff = {s1, s2}
    Levels = {2, 3}
    Rules = {"users.block", "users.change_role", "users.delete", "permissions.manage"}
    MaxAsked = 2
    Jobs = {1, 2, 3, 4}
    Matching = {1, 3, 4}
    Tagged = {1, 2, 4}
    Preferred = {3}
    Limit = 2
    Batch = 2
    MaxWindows = 2
    MaxPage = 2
    MaxVersion = 1
    Docs = {"d1", "d2"}
    Sets = {"s1", "s2"}
    Namespace = {"n1", "n2"}
    Keys = {k1}
    Allowed = 1
    Window = 2
    MaxClock = 4
    Places = {"remote", "canada", "porto", "alegre"}
    Words = {"nodejs", "json", "html", "hybrid"}
    Skills <- MCSkills
    Preferences <- MCPreferences
    RawFamilies = {"dados", "product_design"}
    Modes = {"", "remoto"}
    Years = {3}
    MaxWords = 2
    MaxSkills = 2
    People = {p1, p2}
    Typed = {"ana", "Ana", "bia", "demo"}
    NormalOf <- MCNormalOf
    Texts = {"t1", "t2"}
    SeedEmail = "demo"
    SeedText = "t1"
    MaxDeploys = 3
    MaxWrites = 2
    Chosen = {"scrapers_read", "users_read"}
    Newcomers = {u1}
    Attempts = 2
    MaxStalled = 1
    MaxFaults = 3
    Marks = {"/", "."}
    Searchers = {v1, v2}
    Searches = {"k1", "k2"}
    Ttl = 1
    Cadence = 2
    MaxTime = 2
    MaxErrors = 1
INVARIANTS TypesHold EveryUserCanSignIn WelcomedOnceOnly HistoryExplainsStatus PagesContinue OnlySoMany ServedIsProtected
PROPERTIES OnlyWhatWasChosen ActiveIsSpared MatchingIsSound
SYMMETRY MCSymmetry
CHECK_DEADLOCK FALSE
