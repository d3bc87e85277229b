\* Two databases, one with two spellings, and up to two files that fail.
SPECIFICATION Spec
CONSTANTS
    mydb = mydb  MyDB = MyDB  other = other  mydbPath = mydbPath  otherPath = otherPath  t = t  u = u
    Name <- MCName
    File <- MCFile
    FileOf <- MCFileOf
    Lower <- MCLower
    Table = {t}
    None = None
    MaxTableId = 2
    MaxFaults = 2
INVARIANTS TypeOK OneDatabase OpenFilesStay PagesHaveTables
PROPERTIES Droppable
