\* The default of two retries of an answer that is against the schema.
CONSTANTS
    NoAnswer = NoAnswer
    NoReason = NoReason
    MaxSchemaRetries = 2
SPECIFICATION Spec
INVARIANT DecidedIsNoServiceFailure
\* The run returns its output.
CHECK_DEADLOCK FALSE
