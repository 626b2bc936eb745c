CONSTANTS
    c1 = c1
    p1 = p1
    Contracts = {c1}
    Loans = {c1}
    None = None
    Clients = {p1}
    b1 = b1
    Batch = {b1}
    Handlers = {"register"}
    Offers <- TwoInstallments
    Terms <- OneInstallment
    RateScale = 1000
    InterestRate = 20
    LateFeeRate = 20
    LateInterestRate = 10
    MonthDays = 30
    Seeds = {}
    PayAmounts = {}
    Backdating = {0}
    DaySteps = {31}
    MaxDay = 31
    CasesOverlap = TRUE
SPECIFICATION TxSpec
PROPERTIES
    ClosedStaysClosed
CHECK_DEADLOCK FALSE
