SPECIFICATION LiveSpec
CONSTANTS
    Oracles = {o1}
    Invoices = {i1, i2}
    Amount <- MCAmount
    Stakes <- MCOne
    SlashBps <- MCNone
    Configs <- MCSingle
    TierLists <- MCNone
    BPS = 10000
    MaxBalance = 1
    MaxTaken = 0
    MaxTime = 4
PROPERTIES
    NeverBricked
