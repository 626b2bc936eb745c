CONSTANTS
    c1 = c1
    c2 = c2
    Contracts = {c1, c2}
    Loans = {c1}
    None = None
    Offers <- OneInstallment
    Terms <- OneTerm
    RateScale = 1000
    InterestRate = 20
    LateFeeRate = 20
    LateInterestRate = 10
    MonthDays = 30
    Seeds = {}
    PayAmounts = {3333}
    Backdating = {0}
    DaySteps = {20}
    MaxDay = 20
    k1 = k1
    k2 = k2
    Keys = {k1, k2}
    NoKey = NoKey
    clerk1 = clerk1
    Clerks = {clerk1}
    q1 = q1
    q2 = q2
    Posts = {q1, q2}
    MaxLosses = 1
    UtcAhead = 1
SPECIFICATION PaymentSpec
INVARIANTS
    RetriesAreReplayed
CHECK_DEADLOCK FALSE
