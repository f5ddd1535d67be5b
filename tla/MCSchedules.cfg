SPECIFICATION Spec
CONSTANTS
    kelas7 = kelas7
    kelas8 = kelas8
    ani = ani
    budi = budi
    citra = citra
    lab = lab
    aula = aula
    mon1 = mon1
    Tray = Tray
    NoBlock = NoBlock
    NoRequest = NoRequest
    Entries = {e1, e2}
    Workers = {w1, w2}
    Slots = {mon1}
    Schedules <- MCSchedules
    Teachers <- MCTeachers
    Rooms <- MCRooms
    Authorised <- MCAuthorised
    NewBlocks <- MCNewBlocks
    Changes <- MCChanges
SYMMETRY MCSymmetry
INVARIANTS
    TypeOK
    TimetableSound
CHECK_DEADLOCK FALSE
