CONSTANTS
    m1 = m1
    a1 = a1
    a2 = a2
    Messages <- MCOneMessage
    Attempts <- MCAttempts
    MaxRounds = 3
    GasBudget = 3
    TransferCost = 2
    PayerStart = 0
    LockSpan = "fund"
    Bt2PayloadSlot = 0
    Bt2TokenManagerFrom = "HandlerAccounts"
SPECIFICATION Spec
INVARIANTS
    PayerCoversRequest
