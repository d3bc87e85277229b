\* Crashes outside the unsafe windows, also during recovery; or rows that fail,
\* that no page holds, or that do not read back as they were, with crashes of the
\* process and of the machine at any point.
SPECIFICATION SpecBoth
CONSTANTS
    a = a  b = b  spaced = spaced  comma = comma  bad = bad  huge = huge  far = far
    Letters = {"SELECT", "INSERT", "DELETE", "FROM", "WHERE", "INTO", "VALUES", "CREATE", "TABLE", "INT", "STRING", "DROP", "UPDATE", "SET", "USE", "DATABASE", "FLOAT", "BOOL", "t", "x"}
    Row <- AllRows
    Invalid = {bad}
    Oversize = {huge}
    Unindexable = {far}
    Unparsable = Unparsable
    Replay <- AllReplay
    Statements <- MCStatements
    NoStatement = NoStatement
    PageRows = 2
    MaxStatements = 4
    MaxHostile = 3
    MaxCrashes = 3
    Hazards = {"partialLog", "unlogged", "stored", "relogged"}
    PowerLoss = TRUE
    InProcessUse = TRUE
CHECK_DEADLOCK FALSE
INVARIANTS TypeOK WriteAheadWhenLogging ReopenChangesNothing
PROPERTIES AtomicWhenCalm UpWhenCalm
