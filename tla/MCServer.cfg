\* Two remote clients of one address pipeline, fail the challenge, leave and return, or
\* the GUI executes statements; the server is stopped once.
SPECIFICATION SpecBoth
CHECK_DEADLOCK FALSE
CONSTANTS
    c1 = c1
    c2 = c2
    here = here
    there = there
    Client = {c1, c2}
    Ip = {here, there}
    IpOf <- BothThere
    Local = {here}
    Thread = {t1, t2}
    Main = t1
    MaxFailures = 1
    AutoPort = FALSE
    Pipelining = TRUE
    Leaving = TRUE
    GuiQueries = TRUE
    MaxRequests = 2
    MaxStops = 1
    Nobody = Nobody
    Gui = Gui
INVARIANTS
    TypeOK
    AnswersInOrder
    OwnAnswer
    AtMostMaxFailures
SYMMETRY ClientSymmetry
