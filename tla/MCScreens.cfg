SPECIFICATION ScreensSpec
CONSTANTS
    None = None
    Lists = {"tasks", "policies", "clients"}
    Searches = {"", "x"}
    Sizes = {25, 50}
    MaxPage = 2
    MaxAsked = 2
    Notices = {n1}
    MaxLoads = 2
    Tasks = {t1, t2}
    MaxPosts = 2
    Texts = {"", "x"}
    MaxCreates = 2
    Clients = {c1, c2}
    Companies = {k1, k2}
    MaxPolicyPosts = 1
    Cards = {c1, c2}
    CardPages = 2
    Policies = {p1, p2}
    MaxEdits = 2
    Persons = {c1, c2}
    MaxSaves = 2
    Insurers = {k1, k2}
    Accounts = {u1, u2}
    MaxUserPosts = 3
    Roles = {"SUPER_MANAGER", "MANAGER"}
    FirstRole = "MANAGER"
    Keys = {r1}
    MaxChanges = 2
    MaxRequests = 2
INVARIANTS
    TypeOK
    RowsAnswerQuery
    OneToastEach
    NothingLeftOver
    ProductsFit
    CardFits
    RightsFit
    ListFresh
PROPERTY
    ToastsGo
CHECK_DEADLOCK FALSE
