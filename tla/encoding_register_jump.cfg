SPECIFICATION Spec
CONSTANTS
    Encodings <- MCEncodings
    Patterns <- MCPatterns
    Statements <- MCStatements
    Lost <- MCLost
    DataWords <- MCDataWords
INVARIANT RegisterJumpsAssemble
CHECK_DEADLOCK FALSE
