------------------------------ MODULE MCDatabases ------------------------------
(* Instances of Databases for TLC. *)
EXTENDS Databases

CONSTANTS mydb, MyDB, other,    \* two spellings of one name, and another name
          mydbPath, otherPath,  \* their files on Windows
          t, u

MCName == {mydb, MyDB, other}
MCFile == {mydbPath, otherPath}
MCFileOf == [n \in MCName |-> IF n = other THEN otherPath ELSE mydbPath]
MCLower == [n \in MCName |-> IF n = MyDB THEN mydb ELSE n]

================================================================================
