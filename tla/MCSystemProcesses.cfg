CONSTANTS
    None = None
    Null = Null
    Config = Config
    Hello = Hello
    m1 = m1
    m2 = m2
    x1 = x1
    x2 = x2
    d1 = d1
    Threads = {th1}
    Modules <- OneModule
    Methods <- OneMethod
    ModuleOf <- OneModuleOf
    InNamespace <- OneMethod
    Bridge = {}
    Body <- AllPlain
    Faults = {"config", "register"}
    Pids = {p1, p2}
    Tokens = {1}
    Domains <- OneDomain
    MaxIncarnations = 1
    MaxQueue = 2
    MayFail = {}
    Target = p1
    DomainOf <- AllInOneDomain
    OperandValues = 4
SPECIFICATION SystemSpec
INVARIANTS Inductive Attribution
PROPERTIES KeepsContract
CHECK_DEADLOCK FALSE
