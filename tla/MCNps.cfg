SPECIFICATION Spec
CONSTANTS
    c1 = c1
    c2 = c2
    d1 = d1
    Web = {c1, c2}
    TaskIds = {1, 2}
    TaskPorts = {1}
    TakenPorts = {2}
    Modes = {"tcp", "secret"}
    MaxServers = 2
    MaxTaskOps = 3
    MaxCrashes = 1
    Conns = {c1, c2}
    Owners = {"a", "b"}
    MaxConn <- OneLimit
    MaxResets = 1
    MaxAccepts = 3
    Editors = {c1, c2}
    Sizes = {1, 2}
    Limits = {1}
    MaxRates = 2
    Addrs = {"a", "b"}
    Procs = {c1, c2, d1}
    UdpMaxConn = 2
    MaxDatagrams = 4
    PortConns = {c1}
    MaxHead = 3
    MaxBytes = 4
    Buffers = {1, 2, 4}
    MuxConns = {c1}
    MaxPackets = 1
    Logins = {c1, c2, d1}
    MaxFails = 2
    MaxRecords = 1
    MaxCompared = 5
    MaxTicks = 1
    Targets <- TwoTargets
    Sharers = {"t", "u"}
    TargetStr <- TwoStrings
    Within <- WithinBoth
    Checkers = {c1, c2}
    MaxFail = 2
    MaxResults = 7
    MaxSessions = 2
    FlowLimit = 1
    PunchPorts = {c1, c2}
    MaxAttempts = 2
    HostIds = {1, 2}
    Certs = {"a", "b"}
    Bad = {"b"}
    MaxListeners = 3
    MaxHostOps = 3
    Scripts <- TaskScripts
    MaxConfigs = 2
SYMMETRY Alike
INVARIANTS
    
    StaysDown
    
    
    
    
    CloseSound
    LoginSound
    
    LinkSound
    
    HttpsSound
    ConfigSound
CHECK_DEADLOCK FALSE
