\* Statements of every kind, with values of one and two characters, and typos.
SPECIFICATION Spec
CONSTANTS
    Letter <- MCLetter
    Upper <- MCUpper
    Refused = Refused
    MaxInt = 60
    Statements <- MCStatements
    Retyped <- Sample
    Typos <- MCTypos
    MaxTypos = 1
    Tables <- MCTables
CHECK_DEADLOCK FALSE
INVARIANTS UnderstoodAsWritten NothingIgnored KeptAsSent RecoveredWhenPlain
INVARIANTS SelectShowsWhatDeleteRemoves RewrittenRowsFit
