SPECIFICATION Spec
CONSTANTS
    Encodings <- MCEncodings
    Patterns <- MCPatterns
    Statements <- MCStatements
    Lost <- MCLost
    DataWords <- MCDataWords
INVARIANTS RoundTrip AssembledRuns OneArm WidthsAgree RejectedForCause
CHECK_DEADLOCK FALSE
