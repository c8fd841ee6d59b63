SPECIFICATION MCSpec
CONSTANTS
    Subs = {"s1", "s2"}
    Appenders = {"a1", "a2"}
    Tags = {"x", "y"}
    Plan <- MCPlan
    SubscriberBuffer = 1
    MaxTailed = 2
    PyRecords <- MCRecords
    Byte = 4
    MaxLong = 8
    Sources = {"a", "b", "c"}
    Journal <- MCJournal
    SizeBytes = 2
    MaxJournalBuf = 7
    MaxJournalSources = 2
    MaxDatagram = 3
    MaxLostDatagrams = 1
    SyslogStreams <- MCStreams
    MaxSyslogFrame = 20
    MaxDigits = 2
    Configurations <- MCConfigurations
    PipeEntries <- MCEntries
    Captures <- MCCaptures
    Decode <- MCDecode
    NoMatch = NoMatch
    MaxJSONFields = 4
INVARIANTS
    IngestTypeOK
    TailExact
    PickleRoundTrip
    JournalExact
    FramesExact
    PipelineExact
PROPERTIES
    IngestNeverWaits
CHECK_DEADLOCK FALSE
