CONSTANTS
    m1 = m1
    m2 = m2
    d1 = d1
    Threads = {th1, th2}
    Modules <- MCModules
    Domains = {d1}
    DomainOf <- OneDomain
    Faults = {}
    File = File
    None = None
SPECIFICATION Spec
INVARIANTS HooksWork
CHECK_DEADLOCK FALSE
