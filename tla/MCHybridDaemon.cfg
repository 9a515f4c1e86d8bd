CONSTANTS
    Junk = Junk
    None = None
    c1 = c1
    c2 = c2
    Workers = {w1, w2}
    Clients = {c1, c2}
    Slack = 1
    Slots = 2
    FileSize <- MCFileSize
    Others <- MCOthers
    Loads <- MCLoads
SPECIFICATION FairSpec
INVARIANTS SplitRequestsRight
 
CHECK_DEADLOCK FALSE
