SPECIFICATION FairSpec
CONSTANTS
    NoCall = NoCall
    Calls = {execve, exit_group, read}
    Exec = execve
    Exit = exit_group
    JunkReturns <- MCJunkReturns
INVARIANTS
    IInv
    StoppedCallsNeverRun
    AnswersAreTrue
    InSync
    ReportedOnceBeforeRun
    NothingLeftBehind
    ResultIsTrue
PROPERTIES
    HandsOff
    GateSafety
    BlockedEnds
    GateSpec
