CONSTANTS
    Threads = {th1, th2}
    Modules <- MCModules
    Methods <- MCMethods
    ModuleOf <- MCModuleOf
    InNamespace <- MCInNamespace
    Bridge <- MCBridge
    Body <- MixedBodies
    Faults = {"register", "com"}
    Null = Null
    mA = mA
    mB = mB
    mC = mC
    a1 = a1
    a2 = a2
    aOther = aOther
    b1 = b1
    aBridge = aBridge
    bBridge = bBridge
SPECIFICATION HostFairSpec
INVARIANTS HostInductive HookedNeedsBridge HookedOnlyInNamespace RegisteredOnce
PROPERTIES CallbacksReturn
CHECK_DEADLOCK FALSE
