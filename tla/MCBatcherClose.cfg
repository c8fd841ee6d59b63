\* One entry, Close, and an insert that fails: the record about the failed
\* insert is sent to the channel that Close has closed.
SPECIFICATION Safety
CONSTANTS
    BatchSize = 2
    MaxRetries = 2
    MaxCalls = 1
    MaxFailures = 1
INVARIANT CloseFlushesEverything
