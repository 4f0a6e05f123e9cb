SPECIFICATION CallboxFairSpec
CONSTANTS
    MaxArgs = 4
    Blocks = {b1, b2, b3, b4}
    NoText = NoText
    NoBlock = NoBlock
    NoCall = NoCall
    NoData = NoData
    ExecCall = "execve(x)"
    ExitCall = "exit_group"
    IntSize = 8
    Calls <- MCCalls
    RequestOf <- MCRequestOf
    JunkReturns <- MCJunkReturns
    Syscalls <- MCSyscalls
    NotFound <- MCNotFound
    Texts <- MCTexts
    NumberOf <- MCNumberOf
    ArgTypes <- MCArgTypes
    Readable <- MCReadable
    Ranges = {}
    ArgNumber <- MCArgNumber
    NotArg <- MCNotArg
    BadNumber <- MCBadNumber
    BytesOf = {}
    Number <- MCNumber
    Low <- MCNumber
    High <- MCNumber
    WordAt <- MCWordAt
    DataAt <- MCDataAt
    Matches <- MCMatches
    ArrayOf <- MCArrayOf
    Files <- MCFiles
INVARIANTS
    DescribedNeverRun
    OnlyAskedForStopped
    RunsOnlyPrepared
PROPERTIES
    WorkflowKept
    DeniedEnds
    NoInputEnds
