CONSTANTS
    None = None
    Null = Null
    Config = Config
    Hello = Hello
    m1 = m1
    m2 = m2
    x1 = x1
    x2 = x2
    d1 = d1
    Threads = {th1, th2}
    Modules <- TwoModules
    Methods <- TwoMethods
    ModuleOf <- TwoModuleOf
    InNamespace <- TwoMethods
    Bridge = {}
    Body <- AllPlain
    Faults = {"config"}
    Pids = {p1}
    Tokens = {1, 2}
    Domains <- OneDomain
    MaxIncarnations = 1
    MaxQueue = 2
    MayFail = {Config}
    Target = p1
    DomainOf <- AllInOneDomain
    OperandValues = 4
SPECIFICATION SystemSpec
INVARIANTS TokensUnique ServedBeforeHooked AllPlainHooked ListEnds
PROPERTIES KeepsContract
CHECK_DEADLOCK FALSE
