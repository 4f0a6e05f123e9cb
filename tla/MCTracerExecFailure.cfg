SPECIFICATION Spec
CONSTANTS
    NoCall = NoCall
    Calls = {execve, exit_group, read}
    Exec = execve
    Exit = exit_group
    JunkReturns <- MCJunkReturns
INVARIANT
    ExecFailureReported
