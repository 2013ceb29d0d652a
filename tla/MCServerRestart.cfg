CONSTANTS
    Pids = {p1}
    Tokens = {t1}
    Domains = {d1}
    MaxIncarnations = 2
    MaxQueue = 1
    MayFail = {t1}
    Config = Config
    Hello = Hello
    None = None
SPECIFICATION RestartSpec
INVARIANTS AckedHereResolves UnknownOnlyIfLost SenderKnown
CHECK_DEADLOCK FALSE
