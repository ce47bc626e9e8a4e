SPECIFICATION Spec
CONSTANTS
    t1 = t1
    t2 = t2
    home = home
    tmp = tmp
    f = f
    g = g
    link = link
    Threads = {t1, t2}
    Dirs = {home, tmp}
    Locs = {"/home", "/tmp", "/old"}
    Names = {"x", "big"}
    Nodes = {f, g}
    Links = {}
    LinkTo = g
    AtStart <- Places
    LongLocs = {}
    BigNames = {"big"}
    OpenFlags <- AllFlags
    TempFlags <- TemporaryFlags
    TmpDir = tmp
    Nowhere = Nowhere
    MaxFd = 4
    AppFds = {0, 3}
    MaxCalls = 2
    MaxWorld = 2
INVARIANTS TypeOK OpenedIsGated AccessIsGated LostKnown
PROPERTIES ChangesAreGated OwnedOnly
CHECK_DEADLOCK FALSE
SYMMETRY Symmetry
