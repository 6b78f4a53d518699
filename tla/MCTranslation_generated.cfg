CONSTANTS
    None = None
    NoAnswer = NoAnswer
    NoReason = NoReason
    MaxSchemaRetries = 2
    Vertices <- MCVertices
    Edges <- MCEdges
    From <- MCFrom
    To <- MCTo
    Properties <- MCProperties
    IdProperty <- MCIdProperty
    Numeric <- MCNumeric
    Metrics <- MCMetrics
    MetricAliases <- MCMetricAliases
    AliasOrder <- MCAliasOrder
    ValidDimensions <- MCValidDimensions
    PathPatterns <- MCPathPatterns
    Parameters <- MCParameters
    PatternOutputs <- MCPatternOutputs
    SnakeCase <- MCSnakeCase
    Says <- MCSays
    NumberIn <- MCNumberIn
    Within <- MCWithin
    Surface <- MCSurface
    NamedBy <- MCNamedBy
    Mentioned <- MCMentioned
    Coordinated = {"services and tunnels"}
    Compound <- MCCompound
    Suits <- MCSuits
    VariableBase <- MCVariableBase
    Reserved = {"match"}
    NonIdentifiers = {"hop count"}
    Placeholders = {"$x"}
    Ordered <- MCNumeric
    Textual <- MCTextual
    Alphabetical <- MCAlphabetical
    Mentions <- MCMentions
    WordsIn <- MCWordsIn
    EdgesOf <- MCEdgesOf
    DomainWords = {"tunnel"}
    GenericWords = {"end"}
    NamesAt <- MCNamesAt
    IdLike = {"tun-1", "svc-1"}
    IdPrefix <- MCIdPrefix
    IdHints = {"number"}
    HintsAt <- MCHintsAt
    OperatorOf <- MCOperatorOf
    ValidValues <- MCValidValues
    SynonymOf <- MCSynonymOf
    Displays <- MCDisplays
    ValueIndex <- MCValueIndex
    Similarity <- MCSimilarity
    Numeral <- MCNumeral
    Period <- MCPeriod
    Questions <- MCQuestions
    Understandings <- MCUnderstandings
SPECIFICATION Spec
INVARIANTS
    RequirementsReachQuery
    QuerySaysWhatIsBound
    NothingAskedIsLost
    AssembledIsCompiled
    AssembledPathIsMeant
    OnlyKnownGapsBreak
PROPERTY ImplementsPipeline
