\* One plugin of each kind and five faults: the fourth wait of a plugin that keeps
\* failing is the first one that backoffMax cuts short.
SPECIFICATION Spec
CONSTANTS
    Sources = {source}
    Pipes = {pipe}
    BackoffMin = 1
    BackoffMax = 5
    MaxFaults = 5
INVARIANTS NoStrayProcess BackoffExact
PROPERTIES CrashedSourceRestarts HostCloseReturns
