SPECIFICATION Spec
CONSTANTS
    t1 = t1
    t2 = t2
    home = home
    tmp = tmp
    f = f
    g = g
    link = link
    Threads = {t1, t2}
    Dirs = {home, tmp}
    Locs = {"/home", "/tmp", "/old"}
    Names = {"x", "big"}
    Nodes = {f, g}
    Links = {}
    LinkTo = g
    AtStart <- Places
    LongLocs = {"/home"}
    BigNames = {"big"}
    OpenFlags <- UsualFlags
    TempFlags <- TemporaryFlags
    TmpDir = tmp
    Nowhere = Nowhere
    MaxFd = 4
    AppFds = {1, 3}
    MaxCalls = 1
    MaxWorld = 1
INVARIANT CanonicalPath
CHECK_DEADLOCK FALSE
SYMMETRY Symmetry
