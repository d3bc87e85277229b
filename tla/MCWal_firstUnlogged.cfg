\* README.md:488: every mutating operation is logged before execution.
SPECIFICATION Spec
CONSTANTS
    a = a  b = b  spaced = spaced  comma = comma  bad = bad  huge = huge  far = far
    Letters = {"SELECT", "INSERT", "DELETE", "FROM", "WHERE", "INTO", "VALUES", "CREATE", "TABLE", "INT", "STRING", "DROP", "UPDATE", "SET", "USE", "DATABASE", "FLOAT", "BOOL", "t", "x"}
    Row <- PlainRows
    Invalid = {}
    Oversize = {}
    Unindexable = {}
    Unparsable = Unparsable
    Replay <- PlainReplay
    Statements <- PlainStatements
    NoStatement = NoStatement
    PageRows = 2
    MaxStatements = 2
    MaxCrashes = 1
    Hazards = {}
    PowerLoss = FALSE
    InProcessUse = TRUE
CHECK_DEADLOCK FALSE
INVARIANTS WriteAhead
