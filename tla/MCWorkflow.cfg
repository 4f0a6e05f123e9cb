SPECIFICATION FairSpec
CONSTANTS
    MaxLines = 2
    MaxTokens = 4
    MaxArgs = 3
    Blocks = {b1, b2, b3, b4, b5, b6, b7}
    NoText = NoText
    NoBlock = NoBlock
    Syscalls <- MCSyscalls
    NotFound <- MCNotFound
    Texts <- MCTexts
    NumberOf <- MCNumberOf
    ArgTypes <- MCArgTypes
    Readable <- MCReadable
    Ranges <- MCRanges
    ArgNumber <- MCArgNumber
    NotArg <- MCNotArg
    BadNumber <- MCBadNumber
    BytesOf <- MCBytesOf
    Files <- MCFiles
INVARIANTS
    RecordedOnce
    OneOwner
    LoadedAsWritten
    NoHalfRuleEnforced
    HeapBalances
PROPERTIES
    FirstRuleStays
    Terminates
