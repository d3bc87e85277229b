\* A local client, and a remote one that need not answer the challenge.
SPECIFICATION FairSpec
CHECK_DEADLOCK FALSE
CONSTANTS
    c1 = c1
    c2 = c2
    here = here
    there = there
    Client = {c1, c2}
    Ip = {here, there}
    IpOf <- OneOfEach
    Local = {here}
    Thread = {t1, t2}
    Main = t1
    MaxFailures = 2
    AutoPort = FALSE
    Pipelining = FALSE
    Leaving = FALSE
    GuiQueries = FALSE
    MaxRequests = 0
    MaxStops = 0
    Nobody = Nobody
    Gui = Gui
PROPERTIES Attended
