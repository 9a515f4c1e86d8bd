SPECIFICATION FairSpec
CONSTANTS
    c1 = c1  c2 = c2
    MAX_WORKERS_CAP = 2
    Clients = {c1, c2}
    Loads <- MixedLoads
    None = None
CHECK_DEADLOCK FALSE
 
PROPERTIES ClientsAnswered StopEnds
