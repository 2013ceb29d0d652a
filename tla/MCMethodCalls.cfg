CONSTANTS
    Inputs <- MCInputs
    BlockSize = 122
    BlockPushes = 40
    PushTails <- MCPushTails
    Faults = {"com"}
    HooksMayThrow = TRUE
SPECIFICATION FairRunSpec
INVARIANTS RewriteInductive BranchesLand ClausesKept StackSuffices ProbesOnEveryPath
PROPERTIES OnlyGrows RewritingEnds KeepsPromise SameRun
CHECK_DEADLOCK FALSE
