SPECIFICATION Spec
CONSTANTS
    Oracles = {o1, o2}
    Invoices = {i1}
    Amount <- MCAmount
    Stakes <- MCTwo
    SlashBps <- MCHalf
    Configs <- MCConfigs
    TierLists <- MCTierLists
    BPS = 10000
    MaxBalance = 4
    MaxTaken = 1
    MaxTime = 4
INVARIANTS
    TypeOK
    StakeAccounted
    OpenRoundsExact
    VotersStayRegistered
    DecisionReachesInvoice
    ApprovalHasSupport
PROPERTIES
    DecisionIsFinal
SYMMETRY MCSymmetry
