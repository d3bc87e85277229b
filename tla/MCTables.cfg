\* Two threads of the server's pool, or one of them and the GUI's thread.
SPECIFICATION Spec
CONSTANTS
    t = t  u = u  net1 = net1  net2 = net2  row = row  big = big
    Name <- MCName
    Thread = {net1, net2}
    Outsiders <- AtMostOne
    TornSave = FALSE
    Row <- MCRow
    Oversize <- MCOversize
    MaxPages = 3
    RowsPerPage = 2
    MaxTableId = 3
SYMMETRY Symmetry
INVARIANTS TypeOK FreePagesKnown DistinctIds NoOrphanPage
PROPERTIES FreshTableEmpty SerializedOwnPages OnlyDropRemoves
CONSTRAINT OutsiderBound
