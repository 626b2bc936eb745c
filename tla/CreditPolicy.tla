---------------------------- MODULE CreditPolicy ----------------------------
(***************************************************************************)
(* The rules of domain/finance/credit-policy.ts, under DEFAULT_POLICY.     *)
(* Amounts are cents; the shares of income that the code compares as       *)
(* quotients are compared as products here.                                *)
(***************************************************************************)
EXTENDS Integers

RiskBand == {"A", "B", "C", "D", "E"}
limitIncomeFactor == [A |-> 12, B |-> 8, C |-> 5, D |-> 3, E |-> 1]
minScoreApprove == 680
minScoreReject == 420

bandForScore(score) ==
    IF score >= 800 THEN "A" ELSE IF score >= 680 THEN "B"
    ELSE IF score >= 560 THEN "C" ELSE IF score >= 420 THEN "D" ELSE "E"

Clamp(score) == IF score < 0 THEN 0 ELSE IF score > 1000 THEN 1000 ELSE score

\* Wrong on purpose: nothing is committed of an income that is not there.
CommitsAtMostNothing(installment, income, percent) ==
    100 * installment <= percent * income \/ income = 0

\* The installment takes at most this share of the income; of no income, all of it.
CommitsAtMost(installment, income, percent) ==
    income > 0 /\ 100 * installment <= percent * income

\* The score the rules look at: the internal score and its adjustments.
AdjustedScore(c, installment, delinquent) ==
    Clamp(Clamp(c.internalScore)
          + (IF CommitsAtMost(installment, c.monthlyIncome, 15) THEN 40
             ELSE IF CommitsAtMost(installment, c.monthlyIncome, 30) THEN 0 ELSE -80)
          + (IF c.minor THEN -30 ELSE 0)
          + (IF c.monthlyIncome = 0 THEN -150 ELSE 0)
          + (IF delinquent THEN -200 ELSE 0))

\* Math.round of the reais: the limit is in whole reais.
SuggestedLimit(income, band) ==
    100 * ((2 * income * limitIncomeFactor[band] + 100) \div 200)

evaluateCredit(c, requested, installment, delinquent) ==
    LET score == AdjustedScore(c, installment, delinquent)
        band == bandForScore(score)
        limit == SuggestedLimit(c.monthlyIncome, band)
        decision ==
            IF \/ delinquent
               \/ score < minScoreReject
               \/ ~CommitsAtMost(installment, c.monthlyIncome, 45)
            THEN "REJECTED"
            ELSE IF /\ score >= minScoreApprove
                    /\ CommitsAtMost(installment, c.monthlyIncome, 30)
                    /\ requested <= limit
            THEN "APPROVED"
            ELSE "MANUAL_REVIEW"
    IN [decision |-> decision, score |-> score, riskBand |-> band, suggestedLimit |-> limit,
        approvedAmount |-> IF decision = "APPROVED" THEN requested ELSE 0]
=============================================================================
