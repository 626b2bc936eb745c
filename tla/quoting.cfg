CONSTANTS
    RateGrid = 8
    Inputs <- FewLoans
    p1 = p1
    Proposals = {p1}
    None = None
    Incomes = {0, 300, 2500}
    Scores = {430, 640, 720}
    Approvals = {1, 40, 103, 200}
    MaxChanges = 1
    MaxEdits = 2
SPECIFICATION QuotingSpec
INVARIANTS
    QuotingTypeOK
    QuoteIsKept
    LoansAmortize
    BetterCustomerIsNoWorse
CHECK_DEADLOCK FALSE
