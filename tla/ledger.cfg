CONSTANTS
    c1 = c1
    c2 = c2
    Contracts = {c1, c2}
    Loans = {c1}
    None = None
    Offers <- TwoInstallments
    Terms <- OneInstallment
    RateScale = 1000
    InterestRate = 20
    LateFeeRate = 20
    LateInterestRate = 10
    MonthDays = 30
    Seeds <- DemoDatabases
    PayAmounts = {3000}
    Backdating = {0, 20}
    DaySteps = {31}
    MaxDay = 62
    ExportRowCap = 1
SPECIFICATION FairSpec
INVARIANTS
    TypeOK
    LedgerBalanced
    ChargesWithinContract
    StatusMatchesInstallments
    DefaultMatchesArrears
    DebtOwedOnce
    ReportsReconcile
PROPERTIES
    ClosedStaysClosed
    PaymentsReduceDebt
    ArrearsReachCollections
    IdleCasesResolve
CHECK_DEADLOCK FALSE
