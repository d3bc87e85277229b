\* README.md:478: "multiple concurrent readers".  Two threads that only read.
SPECIFICATION Spec
CONSTANTS
    t = t  u = u  v = v  r = r  s = s  big = big
    Row = {r}
    Oversize = {}
    MaxPages = 3
    RowsPerPage = 2
    MaxTableId = 1
    Inserter = {}
    Reader = {t, u}
    Clearer = {}
    TableId = 1
    Capacity = 2
    Joined = FALSE
    MaxCalls = 6
INVARIANTS NoDataRaces
