\* README.md:134: recovery "can always restore the correct final state", and the
\* log is to "safely handle any delimiter characters inside stored data".
SPECIFICATION Spec
CONSTANTS
    Letter <- MCLetter
    Upper <- MCUpper
    Refused = Refused
    MaxInt = 60
    Statements <- Delimited
    Retyped <- Sample
    Typos <- MCTypos
    MaxTypos = 1
    Tables <- MCTables
CHECK_DEADLOCK FALSE
INVARIANTS Recovered
