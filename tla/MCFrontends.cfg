SPECIFICATION MCSpec
CONSTANTS
    None = None
    Users = {u1, u2}
    Watching = {p1, p2}
    MaxGen = 2
    Models = {"Todos", "Remoto"}
    AnyModel = "Todos"
    Texts = {"", "go"}
    Families = {{}, {"data"}}
    Pages = {1, 2}
    MaxRequests = 3
    Links = {"j1", "j2"}
    Statuses = {"saved", "applied"}
    MaxTasks = 3
    Digits = {5, 9}
    MaxForeign = 3
    Actions = {"users.block", "audit.read"}
    Limit = 1
    MaxRows = 2
    MaxLoads = 2
    Places = {"sp"}
    Items = {"i1"}
    Techs = {"react", "React"}
    Folded <- MCFolded
    Sample = "sp"
    MaxEdits = 2
    MaxSaves = 3
    Fields = {"email", "telefone"}
    MaxAttempts = 2
    Posts = {q1, q2}
    MaxAsks = 2
    MaxOpens = 2
    MaxVisits = 2
    MaxTicks = 2
    Sources <- MCSources
    Providers = {"gupy", "lever"}
    MaxJobs = 1
    Ranges = {"15m", "1h"}
    DefaultRange = "15m"
    Samples <- MCSamples
    Top = 1
    NaN = NaN
    MaxChanges = 1
    MaxPoints = 2
    Areas = {"data"}
    Strangers = {"xyz"}
    Ad <- MCAd
    Profiles = {{}, {"go", "figma"}}
    Vocabulary = {"figma"}
    PageSizes = {1, 2}
    PagerSize = 3
    MaxEvents = 3
    Ids = {"v1", "v2", "v3"}
    First = {"v1", "v2"}
    Roles = {"admin", "user"}
    NewRole = "user"
    Filters = {"blocked"}
    Searches <- MCSearches
    FetchLimit = 1
    PerPage = 1
    MaxElse = 1
    Overviews <- MCOverviews
    ListMost = 2
    StackMost = 2
INVARIANTS TypesHold ReadingIsHonest NoticeOnce EnteredIsKept 
PROPERTIES SearchedAsChosen
CHECK_DEADLOCK FALSE
