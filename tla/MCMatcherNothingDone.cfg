SPECIFICATION Spec
CONSTANTS
    MaxArgs = 6
    IntSize = 8
    Blocks <- MCBlocks
    NoText = NoText
    NoBlock = NoBlock
    NoData = NoData
    Syscalls <- MCSyscalls
    NotFound <- MCNotFound
    Texts <- MCTexts
    NumberOf <- MCNumberOf
    ArgTypes <- MCArgTypes
    Readable <- MCReadable
    Ranges <- MCRanges
    Number <- MCNumber
    Low <- MCLow
    High <- MCHigh
    WordAt <- MCWordAt
    DataAt <- MCDataAt
    Matches <- MCMatches
    ArrayOf <- MCArrayOf
    CaseOf <- MCCaseOf
    Lines <- MCLines
    Requests <- MCRequests
INVARIANTS
    NothingDoneOnlyOnMismatch
