CONSTANTS
    Tokens <- TokensOf
    Null = Null
    Unset = Unset
    Malformed = Malformed
    Settings <- SettingsOf
    Property <- PropertyOf
    Least <- LeastOf
    Documented <- DocumentedOf
    Namespaces <- NamespacesOf
    Roots <- RootsOf
    SeedChildren <- ChildrenOf
    Tables <- TablesOf
    SeedTables <- SeedTablesOf
    Configs <- ConfigsOf
    Facts <- FactsOf
    Schemas <- SchemasOf
    Tuples <- TuplesOf
    Paths <- PathsOf
    Concurrency = 2
    Groups <- GroupsOf
    Studied <- StudiedOf
    ColumnOf <- ColumnsOf
    DeleteFile <- DeleteFileOf
    Absent = Absent
    PerFile = 2
    Refused = Refused
    NoDecision = NoDecision
SPECIFICATION Spec
CHECK_DEADLOCK FALSE
INVARIANTS FoundExactlyOnce RejectedRulesAreDead LiteralRulesNameOneTable PropertiesAreHeeded PartitionsAreUnmistakable CleanupSparesLive RewriteIsTheScan
PROPERTIES WalkEnds
