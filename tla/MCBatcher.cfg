\* Channel of 8, batches of 2: eleven calls fill channel and batch while the loop
\* is held in a retry, so that appends wait and log records, the loop's own among
\* them, are discarded; two failed inserts give up a batch.
SPECIFICATION Spec
CONSTANTS
    BatchSize = 2
    MaxRetries = 2
    MaxCalls = 11
    MaxFailures = 2
INVARIANTS TypeOK Fifo NoSilentLoss BoundedCopies PanicOnlyAfterClose
PROPERTIES StoredInOrder RefinesLedger EveryEntrySettles CloseReturns
