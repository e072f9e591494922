SPECIFICATION FairSpec
CONSTANTS
    w1 = w1
    w2 = w2
    w3 = w3
    w4 = w4
    w5 = w5
    LastBlock = 3
    MinBlock = 1
    MaxBlock = 2
    Worker = {w1, w2, w3, w4}
    Duty <- EachOnce
    SettleLimit = 2
    Outcomes = {"request"}
    Faults = {"stop", "loss"}
INVARIANTS TypeOK NoSnosGap
 
