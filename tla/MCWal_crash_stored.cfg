\* README.md:490: "a crash at any point leaves the engine able to recover".
SPECIFICATION Spec
CONSTANTS
    a = a  b = b  spaced = spaced  comma = comma  bad = bad  huge = huge  far = far
    Letters = {"SELECT", "INSERT", "DELETE", "FROM", "WHERE", "INTO", "VALUES", "CREATE", "TABLE", "INT", "STRING", "DROP", "UPDATE", "SET", "USE", "DATABASE", "FLOAT", "BOOL", "t", "x"}
    Row <- PlainRows
    Invalid = {}
    Oversize = {}
    Unindexable = {}
    Unparsable = Unparsable
    Replay <- PlainReplay
    Statements <- PlainStatements
    NoStatement = NoStatement
    PageRows = 2
    MaxStatements = 4
    MaxCrashes = 3
    Hazards = {"stored"}
    PowerLoss = FALSE
    InProcessUse = TRUE
CHECK_DEADLOCK FALSE
PROPERTIES Atomic
