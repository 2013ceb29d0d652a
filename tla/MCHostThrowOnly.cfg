CONSTANTS
    Threads = {th1}
    Modules <- MCModules
    Methods <- MCMethods
    ModuleOf <- MCModuleOf
    InNamespace <- MCInNamespace
    Bridge <- MCBridge
    Body <- MixedBodies
    Faults = {}
    Null = Null
    mA = mA
    mB = mB
    mC = mC
    a1 = a1
    a2 = a2
    aOther = aOther
    b1 = b1
    aBridge = aBridge
    bBridge = bBridge
SPECIFICATION HostSpec
INVARIANTS AllMethodsHooked
CHECK_DEADLOCK FALSE
