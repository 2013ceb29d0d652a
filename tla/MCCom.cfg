CONSTANTS
    c1 = c1
    c2 = c2
    th1 = th1
    th2 = th2
    Clients = {c1, c2}
    Threads = {th1, th2}
    Factories = {f1}
    Profilers = {p1}
    MaxHeld = 2
    None = None
SPECIFICATION Spec
SYMMETRY ClientsAndThreads
INVARIANTS LifetimeInductive LivesWhileHeld InfoBalanced CrashOnlyInShutdown
CHECK_DEADLOCK FALSE
