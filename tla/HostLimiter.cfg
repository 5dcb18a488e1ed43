SPECIFICATION FairSpec
CONSTANTS
    Callers = {c1, c2, c3}
    Permits = 2
    Reserve = 5
    Interval = 2
VIEW View
PROPERTIES
    LanesKept
    Paced
    Served
