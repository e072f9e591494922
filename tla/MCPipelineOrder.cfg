SPECIFICATION Spec
CONSTANTS
    w1 = w1
    w2 = w2
    w3 = w3
    w4 = w4
    w5 = w5
    LastBlock = 3
    MinBlock = 1
    MaxBlock = 3
    Worker = {w1, w2, w3, w4, w5}
    Duty <- TwoSettling
    SettleLimit = 2
    Outcomes = {"reject", "halt", "retry"}
    Faults = {"call", "stop"}
INVARIANTS StageOrder SettledInOrder SettlementsTile
