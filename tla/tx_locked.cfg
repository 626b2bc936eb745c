CONSTANTS
    c1 = c1
    c2 = c2
    p1 = p1
    p2 = p2
    Contracts = {c1, c2}
    Loans = {c1}
    None = None
    Clients = {p1, p2}
    Batch = {}
    Handlers = {"register", "renegotiate", "cancel"}
    Offers <- TwoInstallments
    Terms <- OneInstallment
    RateScale = 1000
    InterestRate = 20
    LateFeeRate = 20
    LateInterestRate = 10
    MonthDays = 10
    Seeds = {}
    PayAmounts = {3000}
    Backdating = {0}
    DaySteps = {45}
    MaxDay = 45
    CasesOverlap = FALSE
SPECIFICATION TxSpec
INVARIANTS
    TxTypeOK
PROPERTIES
    ImplementsLedger
CHECK_DEADLOCK FALSE
