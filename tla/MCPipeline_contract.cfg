\* The default of two retries of an answer that is against the schema.
CONSTANTS
    NoAnswer = NoAnswer
    NoReason = NoReason
    MaxSchemaRetries = 2
SPECIFICATION Spec
INVARIANTS
    OutputIsAccepted
    GeneratedIsSound
    ProviderFailureIsReported
PROPERTY GenerationSpec
\* The run returns its output.
CHECK_DEADLOCK FALSE
