\* Three threads insert, and one of them reads and clears when the others are
\* through; a cache of two pages over three.
SPECIFICATION Spec
CONSTANTS
    t = t  u = u  v = v  r = r  s = s  big = big
    Row <- MCRow
    Oversize <- MCOversize
    MaxPages = 3
    RowsPerPage = 2
    MaxTableId = 1
    Inserter = {t, u, v}
    Reader = {t}
    Clearer = {t}
    TableId = 1
    Capacity = 2
    Joined = TRUE
    MaxCalls = 6
SYMMETRY Symmetry
INVARIANTS TypeOK AckedStays CacheIsFile ReadsAcked
PROPERTIES NewLocation
