\* Three entries, two groups at most and one failed write or restart: entries
\* meet a full group map, an eviction, a flush in progress and its warning.
SPECIFICATION Spec
CONSTANTS
    a = a
    b = b
    t1 = t1
    t2 = t2
    Apps = {a, b, self}
    Self = self
    Ids = {t1, t2}
    None = none
    Entries <- MCEntries
    MaxGroups = 2
    GroupTTL = 1
    MaxTime = 3
    MaxEntries = 3
    MaxFailures = 1
INVARIANTS TypeOK AggregatesAccounted
PROPERTIES StoreAdvances EveryAggregateFlushes
