SPECIFICATION Spec
CONSTANTS
    w1 = w1
    w2 = w2
    i1 = i1
    i2 = i2
    i3 = i3
    p1 = p1
    p2 = p2
    Workers = {w1, w2}
    NoRequest = NoRequest
    Slugs = {s1}
    Tenants = {p1, p2}
    NoTenant = NoTenant
    Keep = Keep
    Schemas = {i1, i2, i3}
    ClientIds = {c1, c2, c3}
    NoClient = NoClient
    MaxClients = 2
    MaxTime = 2
    SessionIds = {s1, s2}
    Tokens = {i1, i2}
    Schools = {"sma"}
    Networks = {"n1"}
    Nobody = Nobody
    MaxCodes = 2
    MaxAttempts = 2
    RecordIds = {i1, i2, i3}
    Keys = {"a", "b"}
    NoRecord = NoRecord
    ImportFiles <- MCImportFiles
    GuardianIds = {i1, i2, i3}
    Students = {p1, p2}
    NoGuardian = NoGuardian
    Owners = {p1, p2}
    Files = {i1, i2, i3}
    NoFile = NoFile
    Pupils = {p1, p2}
    Classes = {"c1", "c2"}
    GradeLevels = {10, 11}
    TermDates <- MCTermDates
    MonthStarts <- MCMonthStarts
    Lessons = {"l1"}
    TimetableOf <- MCTimetableOf
    Subjects = {"s1"}
    Weekdays = {1, 2}
    StartClasses <- MCStartClasses
    StartTimetables <- MCStartTimetables
    StartLessons <- MCStartLessons
    MarkDays = {1, 2}
    Marked = {"late", "absent"}
    Unscheduled = Unscheduled
    MaxMarks = 2
    MaxAltered = 2
    BranchIds = {b1}
    NetworkIds = {p1, p2}
    PolicyIds = {l1}
    NoNetwork = NoNetwork
    StartFigures <- MCStartFigures
    MaxFigure = 2
    MaxChanges = 1
    RowIds = {i1, i2, i3}
    NoRow = NoRow
    SeedClasses = {"x1", "x2"}
    FixtureClass = "x1"
    SchoolsClasses = {"x2"}
    Readers = {p1, p2}
    Proofs = {p1, p2}
    NoProof = NoProof
SYMMETRY MCSymmetry
INVARIANTS
    TypeOK
    TenantsKept
    ClientsBounded
    SessionsSound
    CodesUsedOnce
    RecordsAnswered
    StudentsKept
    FilesKept
    NetworkChangesScoped
    SeedsSettle
    FiguresAgree
CHECK_DEADLOCK FALSE
