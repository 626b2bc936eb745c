CONSTANTS
    c1 = c1
    c2 = c2
    Contracts = {c1, c2}
    Loans = {c1}
    None = None
    Offers <- TwoInstallments
    Terms <- OneTerm
    RateScale = 1000
    InterestRate = 20
    LateFeeRate = 20
    LateInterestRate = 10
    MonthDays = 30
    Seeds = {}
    PayAmounts = {}
    Backdating = {0}
    DaySteps = {4}
    MaxDay = 12
    cron = cron
    post = post
    Jobs = {cron, post}
    Instance <- OneInstance
    pr1 = pr1
    Promises = {pr1}
    PromiseAmounts = {5000}
    PromiseDays = {4}
    StaffStatuses = {"RESOLVED", "WRITTEN_OFF"}
    StaffDecisions = {"CANCELLED"}
    MaxDeciding = 1
    MaxPaid = 1
    MaxFailures = 1
    MaxActions = 1
SPECIFICATION FairCollSpec
INVARIANTS
    CollTypeOK
PROPERTIES
    EscalatesOnce
    ResolvingRestartsLadder
    LadderCatchesUp
    PaidLaterIsNotBroken
    PromisesAreDecided
CHECK_DEADLOCK FALSE
