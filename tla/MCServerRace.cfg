CONSTANTS
    Pids = {p1}
    Tokens = {t1, t2}
    Domains = {d1}
    MaxIncarnations = 1
    MaxQueue = 2
    MayFail = {Config, t1}
    Config = Config
    Hello = Hello
    None = None
SPECIFICATION FairSpec
INVARIANTS NoSplitSession UnknownOnlyIfUnacked
PROPERTIES SessionStable CallsReturn EventsPrinted StopTerminates
CHECK_DEADLOCK FALSE
