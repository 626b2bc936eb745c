--------------------------- MODULE QuotingProofs ---------------------------
(***************************************************************************)
(* What holds of Quoting for any inputs, customers and grid of rates.      *)
(*                                                                         *)
(* The credit policy is monotone (PolicyMonotone).  QuoteInv says which    *)
(* inputs each figure was computed from; from it, there is one price       *)
(* (OnePrice).  LoanInv adds who was lent what: an approval is of an       *)
(* amount that was asked for, and a contract the acceptable costing of     *)
(* one.  That such a costing is repaid by its installments, at the rate    *)
(* it states (CostingIsSound), is about the schedules alone: each is a     *)
(* running total from nothing to the amount financed (EverySchedule),      *)
(* which the guard keeps from falling (AcceptedAmortizes); the doublings   *)
(* bracket the rate (UpperBoundBrackets), and halving finds it             *)
(* (BisectFinds).                                                          *)
(***************************************************************************)
EXTENDS Quoting, SequenceTheorems, WellFoundedInduction, TLAPS

\* What evaluateCredit reads of a customer.
Applicant(c) ==
    c.monthlyIncome \in Nat /\ c.internalScore \in Int /\ c.minor \in BOOLEAN

\* b is at least as good a customer as a.
AtLeast(b, a) ==
    /\ b.monthlyIncome >= a.monthlyIncome /\ b.internalScore >= a.internalScore
    /\ b.minor => a.minor

-----------------------------------------------------------------------------
\* A share that an income affords, a higher one affords.
LEMMA ShareMonotone ==
    ASSUME NEW q \in Nat, NEW x \in Nat, NEW y \in Nat, NEW percent \in Nat,
           x <= y, CommitsAtMost(q, x, percent)
    PROVE  CommitsAtMost(q, y, percent)
  <1>1. percent * x <= percent * y  OBVIOUS
  <1> QED  BY <1>1 DEF CommitsAtMost

\* What fits in a smaller share fits in a larger one.
LEMMA ShareWidens ==
    ASSUME NEW q \in Nat, NEW x \in Nat, CommitsAtMost(q, x, 15)
    PROVE  CommitsAtMost(q, x, 30)
  BY DEF CommitsAtMost

\* A score is a number, and a better customer, or one without arrears, has no lower
\* a score.
LEMMA ScoreMonotone ==
    ASSUME NEW a, NEW b, Applicant(a), Applicant(b), AtLeast(b, a), NEW q \in Nat,
           NEW d \in BOOLEAN, NEW e \in BOOLEAN, e => d
    PROVE  /\ AdjustedScore(a, q, d) \in Nat /\ AdjustedScore(b, q, e) \in Nat
           /\ AdjustedScore(a, q, d) <= AdjustedScore(b, q, e)
  <1> DEFINE share(c) == IF CommitsAtMost(q, c.monthlyIncome, 15) THEN 40
                         ELSE IF CommitsAtMost(q, c.monthlyIncome, 30) THEN 0 ELSE -80
             young(c) == IF c.minor THEN -30 ELSE 0
             poor(c) == IF c.monthlyIncome = 0 THEN -150 ELSE 0
             late(f) == IF f THEN -200 ELSE 0
  <1>1. /\ a.monthlyIncome \in Nat /\ b.monthlyIncome \in Nat
        /\ a.internalScore \in Int /\ b.internalScore \in Int
        /\ a.minor \in BOOLEAN /\ b.minor \in BOOLEAN
    BY DEF Applicant
  <1>2. /\ a.monthlyIncome <= b.monthlyIncome /\ a.internalScore <= b.internalScore
        /\ b.minor => a.minor
    BY <1>1 DEF AtLeast
  <1>3. /\ CommitsAtMost(q, a.monthlyIncome, 15) => CommitsAtMost(q, b.monthlyIncome, 15)
        /\ CommitsAtMost(q, a.monthlyIncome, 30) => CommitsAtMost(q, b.monthlyIncome, 30)
        /\ CommitsAtMost(q, b.monthlyIncome, 15) => CommitsAtMost(q, b.monthlyIncome, 30)
        /\ CommitsAtMost(q, a.monthlyIncome, 15) => CommitsAtMost(q, a.monthlyIncome, 30)
    BY <1>1, <1>2, ShareMonotone, ShareWidens
  <1>4. share(a) \in Int /\ share(b) \in Int /\ share(a) <= share(b)  BY <1>3
  <1>5. young(a) \in Int /\ young(b) \in Int /\ young(a) <= young(b)  BY <1>1, <1>2
  <1>6. poor(a) \in Int /\ poor(b) \in Int /\ poor(a) <= poor(b)  BY <1>1, <1>2
  <1>7. late(d) \in Int /\ late(e) \in Int /\ late(d) <= late(e)  OBVIOUS
  <1>8. /\ Clamp(a.internalScore) \in Int /\ Clamp(b.internalScore) \in Int
        /\ Clamp(a.internalScore) <= Clamp(b.internalScore)
    BY <1>1, <1>2 DEF Clamp
  <1>9. /\ AdjustedScore(a, q, d) =
              Clamp(Clamp(a.internalScore) + share(a) + young(a) + poor(a) + late(d))
        /\ AdjustedScore(b, q, e) =
              Clamp(Clamp(b.internalScore) + share(b) + young(b) + poor(b) + late(e))
    BY DEF AdjustedScore
  <1> HIDE DEF share, young, poor, late
  <1>10. \A x, y \in Int :
            /\ Clamp(x) \in Nat /\ Clamp(y) \in Nat
            /\ x <= y => Clamp(x) <= Clamp(y)
    BY DEF Clamp
  <1>11. Clamp(a.internalScore) + share(a) + young(a) + poor(a) + late(d)
            <= Clamp(b.internalScore) + share(b) + young(b) + poor(b) + late(e)
    BY <1>4, <1>5, <1>6, <1>7, <1>8
  <1> QED  BY <1>4, <1>5, <1>6, <1>7, <1>8, <1>9, <1>10, <1>11

\* The limit grows with the income and with the score.
LEMMA LimitMonotone ==
    ASSUME NEW x \in Nat, NEW y \in Nat, x <= y,
           NEW s \in Nat, NEW t \in Nat, s <= t
    PROVE  SuggestedLimit(x, bandForScore(s)) <= SuggestedLimit(y, bandForScore(t))
  <1> DEFINE f == limitIncomeFactor[bandForScore(s)]
             g == limitIncomeFactor[bandForScore(t)]
  <1>1. f \in {1, 3, 5, 8, 12} /\ g \in {1, 3, 5, 8, 12} /\ f <= g
    BY DEF limitIncomeFactor, bandForScore
  <1>2. SuggestedLimit(x, bandForScore(s)) = 100 * ((2 * x * f + 100) \div 200)
    BY DEF SuggestedLimit
  <1>3. SuggestedLimit(y, bandForScore(t)) = 100 * ((2 * y * g + 100) \div 200)
    BY DEF SuggestedLimit
  <1> HIDE DEF f, g
  <1>4. x * f <= y * g /\ x * f \in Nat /\ y * g \in Nat  BY <1>1
  <1>5. \A u, v \in Nat : u <= v => (2 * u + 100) \div 200 <= (2 * v + 100) \div 200
    OBVIOUS
  <1>6. 2 * x * f = 2 * (x * f) /\ 2 * y * g = 2 * (y * g)  BY <1>1
  <1>7. /\ (2 * (x * f) + 100) \div 200 \in Int /\ (2 * (y * g) + 100) \div 200 \in Int
        /\ (2 * (x * f) + 100) \div 200 <= (2 * (y * g) + 100) \div 200
    BY <1>4, <1>5
  <1> QED  BY <1>2, <1>3, <1>6, <1>7

-----------------------------------------------------------------------------
\* A better customer is never treated worse: more income, a higher score, more age or
\* no arrears never turn an approval into a review or a review into a rejection, and
\* never lower the limit (evaluateCredit, credit-policy.ts:59).
THEOREM PolicyMonotone ==
    ASSUME NEW a, NEW b, Applicant(a), Applicant(b), AtLeast(b, a),
           NEW requested \in Nat, NEW installment \in Nat,
           NEW d \in BOOLEAN, NEW e \in BOOLEAN, e => d
    PROVE  LET worse == evaluateCredit(a, requested, installment, d)
               better == evaluateCredit(b, requested, installment, e)
           IN /\ Favour[worse.decision] <= Favour[better.decision]
              /\ worse.suggestedLimit <= better.suggestedLimit
  <1> DEFINE s == AdjustedScore(a, installment, d)
             t == AdjustedScore(b, installment, e)
             low == SuggestedLimit(a.monthlyIncome, bandForScore(s))
             high == SuggestedLimit(b.monthlyIncome, bandForScore(t))
             worse == evaluateCredit(a, requested, installment, d)
             better == evaluateCredit(b, requested, installment, e)
  <1>1. a.monthlyIncome \in Nat /\ b.monthlyIncome \in Nat /\ a.monthlyIncome <= b.monthlyIncome
    BY DEF Applicant, AtLeast
  <1>2. s \in Nat /\ t \in Nat /\ s <= t  BY ScoreMonotone
  <1>3. low <= high
    <2> DEFINE x == a.monthlyIncome
               y == b.monthlyIncome
    <2> HIDE DEF s, t
    <2>1. /\ x \in Nat /\ y \in Nat /\ x <= y
          /\ s \in Nat /\ t \in Nat /\ s <= t
      BY <1>1, <1>2
    <2> HIDE DEF x, y
    <2>2. SuggestedLimit(x, bandForScore(s)) <= SuggestedLimit(y, bandForScore(t))
      BY <2>1, LimitMonotone
    <2> QED  BY <2>2 DEF x, y
  <1>4. low \in Int /\ high \in Int
    BY <1>1, <1>2 DEF SuggestedLimit, bandForScore, limitIncomeFactor
  <1>5. \A percent \in {30, 45} :
           CommitsAtMost(installment, a.monthlyIncome, percent)
              => CommitsAtMost(installment, b.monthlyIncome, percent)
    BY <1>1, ShareMonotone
  <1>6. worse.suggestedLimit = low /\ better.suggestedLimit = high
    BY DEF evaluateCredit
  <1>7. worse.decision =
           IF d \/ s < 420 \/ ~CommitsAtMost(installment, a.monthlyIncome, 45) THEN "REJECTED"
           ELSE IF s >= 680 /\ CommitsAtMost(installment, a.monthlyIncome, 30)
                   /\ requested <= low
           THEN "APPROVED" ELSE "MANUAL_REVIEW"
    BY DEF evaluateCredit, minScoreApprove, minScoreReject
  <1>8. better.decision =
           IF e \/ t < 420 \/ ~CommitsAtMost(installment, b.monthlyIncome, 45) THEN "REJECTED"
           ELSE IF t >= 680 /\ CommitsAtMost(installment, b.monthlyIncome, 30)
                   /\ requested <= high
           THEN "APPROVED" ELSE "MANUAL_REVIEW"
    BY DEF evaluateCredit, minScoreApprove, minScoreReject
  <1> HIDE DEF s, t, low, high, worse, better
  <1>9. Favour[worse.decision] <= Favour[better.decision]
    <2>1. Favour["REJECTED"] = 0 /\ Favour["MANUAL_REVIEW"] = 1 /\ Favour["APPROVED"] = 2
      BY DEF Favour
    <2>2. better.decision \in {"REJECTED", "MANUAL_REVIEW", "APPROVED"}  BY <1>8
    <2>3. Favour[better.decision] \in {0, 1, 2}  BY <2>1, <2>2
    <2>4. CASE worse.decision = "REJECTED"  BY <2>1, <2>3, <2>4
    <2>5. CASE worse.decision = "MANUAL_REVIEW"
      <3>1. better.decision # "REJECTED"  BY <2>5, <1>2, <1>5, <1>7, <1>8
      <3>2. Favour[better.decision] \in {1, 2}  BY <2>1, <2>2, <3>1
      <3> QED  BY <2>1, <2>5, <3>2
    <2>6. CASE worse.decision = "APPROVED"
      <3>1. better.decision = "APPROVED"  BY <2>6, <1>2, <1>3, <1>4, <1>5, <1>7, <1>8
      <3> QED  BY <2>1, <2>6, <3>1
    <2> QED  BY <2>4, <2>5, <2>6, <1>7
  <1> QED  BY <1>3, <1>6, <1>9 DEF worse, better

\* In every typed state, however the proposal and the customer came to be what they are
\* (the rules that AnalysisService.analyze applies, analysis.service.ts:59).
THEOREM TypedCustomersAreTreatedNoWorse ==
    ASSUME QuotingTypeOK
    PROVE  BetterCustomerIsNoWorse
  <1> SUFFICES ASSUME NEW p \in Proposals, Exists(p), NEW income \in Incomes,
                      NEW score \in Scores, NEW late \in BOOLEAN, late => delinquent,
                      income >= customer.monthlyIncome, score >= customer.internalScore
               PROVE  LET better == [customer EXCEPT !.monthlyIncome = income,
                                                     !.internalScore = score]
                          row == proposal[p]
                          is == evaluateCredit(customer, row.terms.requested,
                                               row.installment, delinquent)
                          be == evaluateCredit(better, row.terms.requested,
                                               row.installment, late)
                      IN /\ Favour[be.decision] >= Favour[is.decision]
                         /\ be.suggestedLimit >= is.suggestedLimit
    BY DEF BetterCustomerIsNoWorse
  <1> DEFINE better == [customer EXCEPT !.monthlyIncome = income, !.internalScore = score]
             requested == proposal[p].terms.requested
             installment == proposal[p].installment
             is == evaluateCredit(customer, requested, installment, delinquent)
             be == evaluateCredit(better, requested, installment, late)
  <1>1. income \in Nat /\ score \in Int  BY QuotingAssumption DEF QuotingAssumption
  <1>2. requested \in Nat /\ installment \in Nat
    BY QuotingAssumption DEF QuotingTypeOK, QuotingAssumption
  <1>3. /\ customer.monthlyIncome \in Nat /\ customer.internalScore \in Int
        /\ customer.minor \in BOOLEAN
    BY DEF QuotingTypeOK
  <1>4. /\ better.monthlyIncome = income /\ better.internalScore = score
        /\ better.minor = customer.minor
    <2>1. customer \in [monthlyIncome : Nat, internalScore : 0..1000, minor : BOOLEAN,
                        status : {"PROSPECT", "ACTIVE", "BLOCKED"}]
      BY DEF QuotingTypeOK
    <2>2. \A c \in [monthlyIncome : Nat, internalScore : 0..1000, minor : BOOLEAN,
                     status : {"PROSPECT", "ACTIVE", "BLOCKED"}], x \in Nat, y \in Int :
             LET b == [c EXCEPT !.monthlyIncome = x, !.internalScore = y] IN
             b.monthlyIncome = x /\ b.internalScore = y /\ b.minor = c.minor
      OBVIOUS
    <2> QED  BY ONLY <1>1, <2>1, <2>2
  <1>5. AtLeast(better, customer)  BY <1>4 DEF AtLeast
  <1>6. delinquent \in BOOLEAN  BY DEF QuotingTypeOK
  <1> HIDE DEF better, requested, installment
  <1>7. /\ Favour[is.decision] <= Favour[be.decision]
        /\ is.suggestedLimit <= be.suggestedLimit
    BY <1>1, <1>2, <1>3, <1>4, <1>5, <1>6, PolicyMonotone DEF Applicant
  <1>8. \A x \in {is.decision, be.decision} : Favour[x] \in Nat
    BY DEF evaluateCredit, Favour
  <1> QED  BY <1>7, <1>8 DEF better, requested, installment

-----------------------------------------------------------------------------
(* The quote that is shown, stored and contracted.  Nothing is said of what *)
(* a schedule is: only which inputs each figure was computed from.          *)

\* What the page has of inputs i is the server's answer for them, or none.
PageOK ==
    /\ page \in [open : BOOLEAN, form : Inputs, settled : Inputs, sending : Inputs \cup {None},
                 tries : [Inputs -> 0..2],
                 answer : [Inputs -> {NoQuote, Refused} \cup {compute[i] : i \in Inputs}]]
    /\ \A i \in Inputs : page.answer[i] \in {NoQuote, Refused, compute[i]}

\* A proposal of inputs i, whatever has become of it.
RowOf(i, row) ==
    /\ compute[i] # Refused
    /\ \E status : row = [Row(i, compute[i]) EXCEPT !.status = status]

\* The costing of some amount at the terms and charges of a proposal.
CostingOf(row, cost) ==
    \E approved : cost = computeContractCosting(approved, row.terms.requested,
                                               row.iof, row.tac, row.terms)

\* Proposals are rows of a quote, contracts are costings of a proposal.
QuoteInv ==
    /\ PageOK
    /\ proposal = [p \in Proposals |-> proposal[p]]
    /\ contract = [p \in Proposals |-> contract[p]]
    /\ \A p \in Proposals :
          /\ Exists(p) => \E i \in Inputs : RowOf(i, proposal[p])
          /\ contract[p] # NoContract => Exists(p) /\ CostingOf(proposal[p], contract[p])

\* What a row of a quote has in its columns.
LEMMA RowColumns ==
    ASSUME NEW i, NEW row, RowOf(i, row)
    PROVE  /\ row # NoProposal /\ row.terms = i
           /\ row.iof = compute[i].iof /\ row.tac = compute[i].tac
           /\ row.financed = compute[i].financed
           /\ row.installment = compute[i].schedule[1].amount
  <1> DEFINE q == compute[i]
  <1>1. PICK status : row = [Row(i, q) EXCEPT !.status = status]  BY DEF RowOf
  <1> HIDE DEF q
  <1>2. /\ row.terms = i /\ row.iof = q.iof /\ row.tac = q.tac /\ row.financed = q.financed
        /\ row.installment = q.schedule[1].amount
    BY <1>1 DEF Row
  <1>3. row # NoProposal
    <2>1. "iof" \in DOMAIN row  BY <1>1 DEF Row
    <2>2. "iof" \notin DOMAIN NoProposal  BY DEF NoProposal
    <2> QED  BY <2>1, <2>2
  <1> QED  BY <1>2, <1>3 DEF q

\* A change of status leaves it the row it was, and its costings.
LEMMA RowChanges ==
    ASSUME NEW i, NEW row, RowOf(i, row), NEW status
    PROVE  LET changed == [row EXCEPT !.status = status] IN
           /\ RowOf(i, changed)
           /\ \A cost : CostingOf(row, cost) => CostingOf(changed, cost)
  <1> DEFINE q == compute[i]
             changed == [row EXCEPT !.status = status]
  <1>1. PICK s : row = [Row(i, q) EXCEPT !.status = s]  BY DEF RowOf
  <1>2. compute[i] # Refused  BY DEF RowOf
  <1> HIDE DEF q
  <1>3. changed = [Row(i, q) EXCEPT !.status = status]  BY <1>1 DEF Row
  <1> HIDE DEF changed
  <1>4. RowOf(i, changed)  BY <1>2, <1>3 DEF RowOf, q
  <1>5. /\ changed.terms = row.terms /\ changed.iof = row.iof /\ changed.tac = row.tac
    BY <1>4, RowColumns
  <1>6. \A cost : CostingOf(row, cost) => CostingOf(changed, cost)  BY <1>5 DEF CostingOf
  <1> QED  BY <1>4, <1>6 DEF changed

\* The quote of inputs that are not refused.
LEMMA QuoteOfInputs ==
    ASSUME NEW i \in Inputs, compute[i] # Refused
    PROVE  LET q == compute[i] IN
           /\ q = Costing(i.requested, q.iof, q.tac, i)
           /\ q.cash = i.requested
           /\ q.schedule = simulate(q.financed, i.rate, i.termMonths, i.amortization)
  <1> DEFINE iof == IF i.autoIof THEN estimateIofCents(i.requested, i.termMonths) ELSE 0
  <1>1. compute[i] = Costing(i.requested, iof, i.tac, i)  BY DEF compute
  <1> HIDE DEF iof
  <1>2. /\ compute[i].iof = iof /\ compute[i].tac = i.tac /\ compute[i].cash = i.requested
        /\ compute[i].financed = i.requested + iof + i.tac
        /\ compute[i].schedule = simulate(i.requested + iof + i.tac, i.rate, i.termMonths,
                                          i.amortization)
    BY <1>1 DEF Costing
  <1> QED  BY <1>1, <1>2

\* A costing of a proposal at the amount of its quote is the quote.
LEMMA EqualAmountsReproduce ==
    ASSUME NEW i \in Inputs, NEW row, RowOf(i, row), NEW cost, CostingOf(row, cost),
           cost.cash = compute[i].cash
    PROVE  cost = compute[i]
  <1>1. PICK approved : cost = computeContractCosting(approved, row.terms.requested,
                                                     row.iof, row.tac, row.terms)
    BY DEF CostingOf
  <1>2. row.terms = i /\ row.iof = compute[i].iof /\ row.tac = compute[i].tac
    BY RowColumns
  <1>3. /\ compute[i] = Costing(i.requested, compute[i].iof, compute[i].tac, i)
        /\ compute[i].cash = i.requested
    BY QuoteOfInputs DEF RowOf
  <1>4. cost.cash = approved  BY <1>1 DEF computeContractCosting, Costing
  <1>5. approved = i.requested  BY <1>3, <1>4
  <1> QED  BY <1>1, <1>2, <1>3, <1>5 DEF computeContractCosting

-----------------------------------------------------------------------------
\* Steps that touch neither a proposal nor a contract.
LEMMA RowsStill ==
    ASSUME QuoteInv, PageOK', UNCHANGED <<proposal, contract>>
    PROVE  QuoteInv'
  BY DEF QuoteInv, Exists

\* Steps that change the status of proposals that exist, and no contract.
LEMMA StatusChanges ==
    ASSUME QuoteInv, NEW p, NEW from, NEW to, changeStatus(p, from, to), "NONE" \notin from,
           UNCHANGED <<page, contract>>
    PROVE  QuoteInv'
  <1>1. \A q \in Proposals : \/ proposal'[q] = proposal[q]
                             \/ /\ proposal'[q] = [proposal[q] EXCEPT !.status = to]
                                /\ Exists(q)
    BY DEF changeStatus, QuoteInv, Exists, NoProposal
  <1>2. proposal' = [q \in Proposals |-> proposal'[q]]  BY DEF changeStatus, QuoteInv
  <1>3. ASSUME NEW q \in Proposals
        PROVE  /\ (Exists(q))' => \E i \in Inputs : RowOf(i, proposal'[q])
               /\ contract'[q] # NoContract =>
                     (Exists(q))' /\ CostingOf(proposal'[q], contract'[q])
    <2>1. CASE proposal'[q] = proposal[q]  BY <2>1 DEF QuoteInv, Exists
    <2>2. CASE proposal'[q] = [proposal[q] EXCEPT !.status = to] /\ Exists(q)
      <3>1. PICK i \in Inputs : RowOf(i, proposal[q])  BY <2>2 DEF QuoteInv
      <3>2. /\ RowOf(i, proposal'[q])
            /\ \A cost : CostingOf(proposal[q], cost) => CostingOf(proposal'[q], cost)
        BY <2>2, <3>1, RowChanges
      <3>3. proposal'[q] # NoProposal  BY <3>2, RowColumns
      <3> QED  BY <3>2, <3>3 DEF QuoteInv, Exists
    <2> QED  BY <1>1, <2>1, <2>2
  <1>4. PageOK'  BY DEF QuoteInv, PageOK, compute
  <1>5. \A q \in Proposals :
          /\ (Exists(q))' => \E i \in Inputs : RowOf(i, proposal[q])'
          /\ (contract[q] # NoContract)' => (Exists(q))' /\ CostingOf(proposal[q], contract[q])'
    BY <1>3 DEF RowOf, CostingOf
  <1>6. (contract = [q \in Proposals |-> contract[q]])'  BY DEF QuoteInv
  <1> QED  BY <1>2, <1>4, <1>5, <1>6 DEF QuoteInv

\* The page keeps what it knows of inputs, whatever is typed, asked, answered or lost.
LEMMA PageSteps ==
    ASSUME PageOK,
           \/ \E i \in Inputs : edit(i) \/ answer(i) \/ noAnswer(i)
           \/ debounce \/ ask \/ handleCreate \/ createFails
    PROVE  PageOK'
  <1> DEFINE Answers == {NoQuote, Refused} \cup {compute[i] : i \in Inputs}
             Pages == [open : BOOLEAN, form : Inputs, settled : Inputs,
                       sending : Inputs \cup {None}, tries : [Inputs -> 0..2],
                       answer : [Inputs -> Answers]]
             Knows(g) == \A i \in Inputs : g.answer[i] \in {NoQuote, Refused, compute[i]}
  <1>1. page \in Pages /\ Knows(page)  BY DEF PageOK
  <1>2. \A i \in Inputs : compute[i] \in Answers  OBVIOUS
  <1>3. NoQuote \in Answers /\ Refused \in Answers  OBVIOUS
  <1> SUFFICES page' \in Pages /\ Knows(page')  BY DEF PageOK
  <1> HIDE DEF Answers
  <1>4. ASSUME NEW i \in Inputs, edit(i) PROVE page' \in Pages /\ Knows(page')
    BY <1>1, <1>4 DEF edit
  <1>5. ASSUME NEW i \in Inputs, NEW n \in 0..2, NEW a \in {NoQuote, Refused, compute[i]},
               page' = [page EXCEPT !.tries[i] = n, !.answer[i] = a]
        PROVE  page' \in Pages /\ Knows(page')
    <2>1. a \in Answers  BY <1>2, <1>3
    <2>2. [page.tries EXCEPT ![i] = n] \in [Inputs -> 0..2]  BY <1>1
    <2>3. /\ [page.answer EXCEPT ![i] = a] \in [Inputs -> Answers]
          /\ \A j \in Inputs : [page.answer EXCEPT ![i] = a][j] \in {NoQuote, Refused, compute[j]}
      BY <1>1, <2>1
    <2>4. page' = [page EXCEPT !.tries = [page.tries EXCEPT ![i] = n],
                               !.answer = [page.answer EXCEPT ![i] = a]]
      BY <1>1, <1>5
    <2>5. page' \in Pages /\ page'.answer = [page.answer EXCEPT ![i] = a]
      BY <1>1, <2>2, <2>3, <2>4
    <2> QED  BY <2>3, <2>5
  <1>6. ASSUME NEW i \in Inputs, answer(i) PROVE page' \in Pages /\ Knows(page')
    <2> DEFINE n == 0
               a == compute[i]
    <2>1. page' = [page EXCEPT !.tries[i] = n, !.answer[i] = a]  BY <1>6 DEF answer
    <2>2. n \in 0..2 /\ a \in {NoQuote, Refused, compute[i]}  OBVIOUS
    <2> HIDE DEF n, a
    <2> QED  BY <1>5, <2>1, <2>2
  <1>7. ASSUME NEW i \in Inputs, noAnswer(i) PROVE page' \in Pages /\ Knows(page')
    <2> DEFINE n == page.tries[i] - 1
               a == IF page.tries[i] = 1 THEN Refused ELSE page.answer[i]
    <2>1. page.tries[i] > 0 /\ page.tries[i] \in 0..2 /\ page.answer[i] \in {NoQuote, Refused, compute[i]}
      BY <1>1, <1>7 DEF noAnswer
    <2>2. page' = [page EXCEPT !.tries[i] = n, !.answer[i] = a]
      BY <1>1, <1>7 DEF noAnswer
    <2>3. n \in 0..2 /\ a \in {NoQuote, Refused, compute[i]}  BY <2>1
    <2> HIDE DEF n, a
    <2> QED  BY <1>5, <2>2, <2>3
  <1>8. CASE debounce  BY <1>1, <1>8 DEF debounce
  <1>9. CASE ask
    <2>1. [page.tries EXCEPT ![page.settled] = 2] \in [Inputs -> 0..2]  BY <1>1
    <2>2. page' = [page EXCEPT !.tries = [page.tries EXCEPT ![page.settled] = 2]]
      BY <1>1, <1>9 DEF ask
    <2> QED  BY <1>1, <2>1, <2>2
  <1>10. CASE handleCreate  BY <1>1, <1>10 DEF handleCreate
  <1>11. CASE createFails  BY <1>1, <1>11 DEF createFails
  <1> QED  BY <1>4, <1>6, <1>7, <1>8, <1>9, <1>10, <1>11

\* A page that opens or is left knows nothing.
LEMMA NewPageOK ==
    ASSUME NEW i \in Inputs
    PROVE  /\ page' = NewPage(i) => PageOK'
           /\ page' = [NewPage(i) EXCEPT !.open = FALSE] => PageOK'
           /\ page = NewPage(i) => PageOK
  <1> DEFINE Pages == [open : BOOLEAN, form : Inputs, settled : Inputs,
                       sending : Inputs \cup {None}, tries : [Inputs -> 0..2],
                       answer : [Inputs -> {NoQuote, Refused} \cup {compute[j] : j \in Inputs}]]
             left == [NewPage(i) EXCEPT !.open = FALSE]
  <1>1. [j \in Inputs |-> 0] \in [Inputs -> 0..2]  OBVIOUS
  <1>2. [j \in Inputs |-> NoQuote]
           \in [Inputs -> {NoQuote, Refused} \cup {compute[j] : j \in Inputs}]
    OBVIOUS
  <1>3. /\ NewPage(i) \in Pages /\ left \in Pages
        /\ NewPage(i).answer = [j \in Inputs |-> NoQuote]
        /\ left.answer = [j \in Inputs |-> NoQuote]
    BY <1>1, <1>2 DEF NewPage
  <1> HIDE DEF left
  <1>4. ASSUME NEW g \in {NewPage(i), left}
        PROVE  g \in Pages /\ \A j \in Inputs : g.answer[j] \in {NoQuote, Refused, compute[j]}
    BY <1>3
  <1>5. page = NewPage(i) => PageOK  BY <1>4 DEF PageOK
  <1>6. page' \in {NewPage(i), left} => PageOK'  BY <1>4 DEF PageOK, compute
  <1> QED  BY <1>5, <1>6 DEF left

\* The row of a new proposal is that of a quote.
LEMMA CreateStep ==
    ASSUME QuoteInv, NEW p \in Proposals, create(p)
    PROVE  QuoteInv'
  <1> DEFINE i == page.sending
  <1>1. /\ i # None /\ compute[i] # Refused /\ proposal[p] = NoProposal
        /\ proposal' = [proposal EXCEPT ![p] = Row(i, compute[i])]
        /\ page' = [NewPage(i) EXCEPT !.open = FALSE] /\ contract' = contract
    BY DEF create, Decision
  <1>2. i \in Inputs  BY <1>1 DEF QuoteInv, PageOK
  <1> HIDE DEF i
  <1>3. RowOf(i, Row(i, compute[i]))
    <2>1. Row(i, compute[i]) = [Row(i, compute[i]) EXCEPT !.status = "DRAFT"]  BY DEF Row
    <2> QED  BY <1>1, <2>1 DEF RowOf
  <1>4. /\ proposal' = [q \in Proposals |-> proposal'[q]]
        /\ proposal'[p] = Row(i, compute[i])
        /\ \A q \in Proposals \ {p} : proposal'[q] = proposal[q]
    BY <1>1 DEF QuoteInv
  <1>5. contract[p] = NoContract  BY <1>1 DEF QuoteInv, Exists
  <1>6. ASSUME NEW q \in Proposals
        PROVE  /\ (Exists(q))' => \E j \in Inputs : RowOf(j, proposal'[q])
               /\ contract'[q] # NoContract =>
                     (Exists(q))' /\ CostingOf(proposal'[q], contract'[q])
    <2>1. CASE q = p  BY <1>1, <1>2, <1>3, <1>4, <1>5, <2>1
    <2>2. CASE q # p  BY <1>1, <1>4, <2>2 DEF QuoteInv, Exists
    <2> QED  BY <2>1, <2>2
  <1>7. PageOK'  BY <1>1, <1>2, NewPageOK
  <1>8. \A q \in Proposals :
          /\ (Exists(q))' => \E j \in Inputs : RowOf(j, proposal[q])'
          /\ (contract[q] # NoContract)' => (Exists(q))' /\ CostingOf(proposal[q], contract[q])'
    BY <1>6 DEF RowOf, CostingOf
  <1>9. (contract = [q \in Proposals |-> contract[q]])'  BY <1>1 DEF QuoteInv
  <1> QED  BY <1>4, <1>7, <1>8, <1>9 DEF QuoteInv

\* The contract of a proposal is a costing of it.
LEMMA ContractStep ==
    ASSUME QuoteInv, NEW p \in Proposals, createFromProposal(p)
    PROVE  QuoteInv'
  <1> DEFINE row == proposal[p]
             cost == computeContractCosting(analysis[p].approvedAmount, row.terms.requested,
                                            row.iof, row.tac, row.terms)
             row1 == [row EXCEPT !.status = "CONTRACTED"]
  <1>1. /\ row.status = "APPROVED" /\ contract' = [contract EXCEPT ![p] = cost]
        /\ proposal' = [proposal EXCEPT ![p].status = "CONTRACTED"]
        /\ page' = page
    BY DEF createFromProposal, changeStatus
  <1>2. Exists(p)  BY <1>1 DEF Exists, NoProposal
  <1>3. PICK i \in Inputs : RowOf(i, row)  BY <1>2 DEF QuoteInv
  <1>4. CostingOf(row, cost)  BY DEF CostingOf
  <1> HIDE DEF cost
  <1>5. RowOf(i, row1) /\ CostingOf(row1, cost) /\ row1 # NoProposal
    BY <1>3, <1>4, RowChanges, RowColumns
  <1>6. /\ proposal' = [q \in Proposals |-> proposal'[q]] /\ proposal'[p] = row1
        /\ contract' = [q \in Proposals |-> contract'[q]] /\ contract'[p] = cost
        /\ \A q \in Proposals \ {p} : proposal'[q] = proposal[q] /\ contract'[q] = contract[q]
    BY <1>1 DEF QuoteInv
  <1> HIDE DEF row1
  <1>7. ASSUME NEW q \in Proposals
        PROVE  /\ (Exists(q))' => \E j \in Inputs : RowOf(j, proposal'[q])
               /\ contract'[q] # NoContract =>
                     (Exists(q))' /\ CostingOf(proposal'[q], contract'[q])
    <2>1. CASE q = p  BY <1>5, <1>6, <2>1 DEF Exists
    <2>2. CASE q # p  BY <1>6, <2>2 DEF QuoteInv, Exists
    <2> QED  BY <2>1, <2>2
  <1>8. PageOK'  BY <1>1 DEF QuoteInv, PageOK, compute
  <1>9. \A q \in Proposals :
          /\ (Exists(q))' => \E j \in Inputs : RowOf(j, proposal[q])'
          /\ (contract[q] # NoContract)' => (Exists(q))' /\ CostingOf(proposal[q], contract[q])'
    BY <1>7 DEF RowOf, CostingOf
  <1> QED  BY <1>6, <1>8, <1>9 DEF QuoteInv

\* The commit of an analysis changes a status at most.
LEMMA RecordStep ==
    ASSUME QuoteInv, NEW outcome, NEW automatic, record(outcome, automatic)
    PROVE  QuoteInv'
  <1>1. UNCHANGED <<page, contract>>  BY DEF record
  <1>2. CASE outcome.decision = "MANUAL_REVIEW"
    <2>1. PageOK' /\ proposal' = proposal
      BY <1>1, <1>2 DEF record, QuoteInv, PageOK, compute
    <2> QED  BY <1>1, <2>1, RowsStill
  <1>3. CASE outcome.decision # "MANUAL_REVIEW"
    <2>1. changeStatus(req.p, {"UNDER_REVIEW"}, outcome.decision)  BY <1>3 DEF record
    <2> QED  BY <1>1, <2>1, StatusChanges
  <1> QED  BY <1>2, <1>3

-----------------------------------------------------------------------------
\* Whatever is typed, asked, lost, decided and edited, in whatever order: a proposal is
\* the row of the quote of its own inputs, and a contract a costing of its proposal.
THEOREM QuoteInvariant == QuotingSpec => []QuoteInv
  <1>1. QuotingInit => QuoteInv
    <2> SUFFICES ASSUME QuotingInit PROVE QuoteInv  OBVIOUS
    <2>1. PICK i \in Inputs : page = NewPage(i)  BY DEF QuotingInit
    <2>2. PageOK  BY <2>1, NewPageOK
    <2> QED  BY <2>2 DEF QuotingInit, QuoteInv, Exists
  <1>2. QuoteInv /\ [QuotingNext]_quotingVars => QuoteInv'
    <2> SUFFICES ASSUME QuoteInv, [QuotingNext]_quotingVars PROVE QuoteInv'  OBVIOUS
    <2>1. CASE \/ \E i \in Inputs : edit(i) \/ answer(i) \/ noAnswer(i)
               \/ debounce \/ ask \/ handleCreate \/ createFails
      <3>1. PageOK'  BY <2>1, PageSteps DEF QuoteInv
      <3>2. UNCHANGED <<proposal, contract>>
        BY <2>1 DEF edit, answer, noAnswer, debounce, ask, handleCreate, createFails, Server
      <3> QED  BY <3>1, <3>2, RowsStill
    <2>2. ASSUME NEW p \in Proposals, create(p) PROVE QuoteInv'  BY <2>2, CreateStep
    <2>3. ASSUME NEW p \in Proposals, submit(p) \/ cancel(p) PROVE QuoteInv'
      BY <2>3, StatusChanges DEF submit, cancel
    <2>4. ASSUME NEW p \in Proposals, createFromProposal(p) PROVE QuoteInv'
      BY <2>4, ContractStep
    <2>5. CASE analyzeCommits \/ decideCommits
      BY <2>5, RecordStep DEF analyzeCommits, decideCommits
    <2>6. CASE \/ \E p \in Proposals : \/ analyze(p) \/ decide(p, "REJECTED", 0)
                                       \/ \E amount \in Approvals : decide(p, "APPROVED", amount)
               \/ analysisFails \/ arrearsChange
               \/ \E income \in Incomes : update(income)
               \/ \E score \in Scores : updateScore(score)
               \/ \E status \in {"ACTIVE", "BLOCKED"} : updateStatus(status)
               \/ UNCHANGED quotingVars
      <3>1. UNCHANGED <<page, proposal, contract>>
        BY <2>6 DEF analyze, decide, read, analysisFails, arrearsChange, update, updateScore,
           updateStatus, Change, quotingVars
      <3>2. PageOK'  BY <3>1 DEF QuoteInv, PageOK, compute
      <3> QED  BY <3>1, <3>2, RowsStill
    <2> QED  BY <2>1, <2>2, <2>3, <2>4, <2>5, <2>6 DEF QuotingNext
  <1> QED  BY <1>1, <1>2, PTL DEF QuotingSpec

\* A customer is shown one price: what a page at rest shows is what creating the proposal
\* stores, the detail page computes the same schedule from the row, and "equal amounts
\* reproduce the proposal" (contracts.service.ts:54), whatever the schedules are.
THEOREM OnePrice == QuotingSpec => []QuoteIsKept
  <1>1. QuoteInv => QuoteIsKept
    <2> SUFFICES ASSUME QuoteInv PROVE QuoteIsKept  OBVIOUS
    <2>1. page.form = page.settled /\ Shown \notin {NoQuote, Refused} => Shown = compute[page.form]
      BY DEF QuoteInv, PageOK, Shown
    <2>2. ASSUME NEW p \in Proposals, Exists(p)
          PROVE  LET quote == compute[proposal[p].terms] IN
                 /\ proposal[p].installment = quote.schedule[1].amount
                 /\ findOneSchedule(proposal[p]) = quote.schedule
                 /\ contract[p] # NoContract /\ contract[p].cash = quote.cash
                      => contract[p] = quote
      <3>1. PICK i \in Inputs : RowOf(i, proposal[p])  BY <2>2 DEF QuoteInv
      <3>2. /\ proposal[p].terms = i /\ proposal[p].financed = compute[i].financed
            /\ proposal[p].installment = compute[i].schedule[1].amount
        BY <3>1, RowColumns
      <3>3. compute[i].schedule
               = simulate(compute[i].financed, i.rate, i.termMonths, i.amortization)
        BY <3>1, QuoteOfInputs DEF RowOf
      <3>4. findOneSchedule(proposal[p]) = compute[i].schedule
        BY <3>2, <3>3 DEF findOneSchedule
      <3>5. contract[p] # NoContract /\ contract[p].cash = compute[i].cash
               => contract[p] = compute[i]
        BY <3>1, EqualAmountsReproduce DEF QuoteInv
      <3> QED  BY <3>2, <3>4, <3>5
    <2> QED  BY <2>1, <2>2 DEF QuoteIsKept
  <1> QED  BY <1>1, QuoteInvariant, PTL

-----------------------------------------------------------------------------
(* Recursive functions *)

\* A non-empty set of naturals has a least element.
LEMMA LeastNatural ==
  ASSUME NEW T \in SUBSET Nat, T # {}
  PROVE  \E t \in T : \A u \in T : t <= u
<1>1. PICK t \in T : \A u \in T : ~(<<u, t>> \in OpToRel(<, Nat))
  BY NatLessThanWellFounded, WFMin
<1>2. \A u \in T : ~(u < t)
  BY <1>1 DEF OpToRel
<1>3. \A u \in T : t <= u
  BY <1>2
<1> QED BY <1>3

\* Induction over 0..n.
LEMMA UpTo ==
  ASSUME NEW n \in Nat, NEW P, 0 \in P, \A k \in 1..n : k - 1 \in P => k \in P
  PROVE  \A k \in 0..n : k \in P
<1> SUFFICES ASSUME NEW m \in 0..n, m \notin P PROVE FALSE
  OBVIOUS
<1> DEFINE T == {k \in 0..n : k \notin P}
<1>1. T \in SUBSET Nat /\ T # {}
  OBVIOUS
<1>2. PICK t \in T : \A u \in T : t <= u
  <2> HIDE DEF T
  <2> QED BY <1>1, LeastNatural
<1>3. t \in 1..n
  BY <1>2
<1>4. t - 1 \in P
  BY <1>2, <1>3
<1> QED BY <1>2, <1>3, <1>4

\* f takes k to the k-th value of the recursion from v0 by step.
Unfolds(f, n, V, v0, step) ==
    /\ f \in [0..n -> V] /\ f[0] = v0
    /\ \A k \in 1..n : f[k] = step[<<k, f[k-1]>>]

\* A recursion over 0..n defines a function.
LEMMA RecursionExists ==
  ASSUME NEW n \in Nat, NEW V, NEW v0 \in V, NEW step \in [(1..n) \X V -> V]
  PROVE  \E f : Unfolds(f, n, V, v0, step)
<1> DEFINE P == {m \in 0..n : \E f : Unfolds(f, m, V, v0, step)}
<1>1. 0 \in P
  <2>1. Unfolds([k \in 0..0 |-> v0], 0, V, v0, step)
    BY DEF Unfolds
  <2> QED BY <2>1
<1>2. ASSUME NEW m \in 1..n, m - 1 \in P
      PROVE  m \in P
  <2>1. PICK f : Unfolds(f, m - 1, V, v0, step)
    BY <1>2
  <2> DEFINE g == [k \in 0..m |-> IF k = m THEN step[<<m, f[m-1]>>] ELSE f[k]]
  <2>2. f \in [0..(m-1) -> V] /\ f[0] = v0
        /\ \A k \in 1..(m-1) : f[k] = step[<<k, f[k-1]>>]
    BY <2>1 DEF Unfolds
  <2>3. step[<<m, f[m-1]>>] \in V
    BY <2>2
  <2>4. g \in [0..m -> V] /\ g[0] = v0
    BY <2>2, <2>3
  <2>5. ASSUME NEW k \in 1..m
        PROVE  g[k] = step[<<k, g[k-1]>>]
    <3>1. g[k-1] = f[k-1]
      OBVIOUS
    <3>2. CASE k = m
      <4>1. g[m] = step[<<m, f[m-1]>>]
        OBVIOUS
      <4> HIDE DEF g
      <4> QED BY <3>1, <3>2, <4>1
    <3>3. CASE k # m
      <4>1. k \in 1..(m-1) /\ g[k] = f[k]
        BY <3>3
      <4>2. f[k] = step[<<k, f[k-1]>>]
        BY <2>2, <4>1
      <4> HIDE DEF g
      <4> QED BY <3>1, <4>1, <4>2
    <3> QED BY <3>2, <3>3
  <2>6. Unfolds(g, m, V, v0, step)
    <3> HIDE DEF g
    <3> QED BY <2>4, <2>5 DEF Unfolds
  <2> QED BY <2>6
<1> HIDE DEF P
<1>3. \A k \in 0..n : k \in P
  BY <1>1, <1>2, UpTo
<1> QED BY <1>3 DEF P

-----------------------------------------------------------------------------
(* Sums *)

\* acc has the running totals of the first n values.
RunningSum(acc, values, n) ==
    /\ acc \in [0..n -> Int] /\ acc[0] = 0
    /\ \A k \in 1..n : acc[k] = acc[k-1] + values[k]

\* A function on 1..n is a sequence of length n.
LEMMA LenOfArray ==
  ASSUME NEW S, NEW n \in Nat, NEW f \in [1..n -> S]
  PROVE  f \in Seq(S) /\ Len(f) = n
<1>1. f \in Seq(S)
  BY SeqDef
<1>2. 1..Len(f) = 1..n /\ Len(f) \in Nat
  BY <1>1, LenProperties
<1> QED
  BY <1>1, <1>2

\* sum is the last of the running totals.
LEMMA SumRuns ==
  ASSUME NEW n \in Nat, NEW values \in [1..n -> Int]
  PROVE  \E acc : RunningSum(acc, values, n) /\ sum(values) = acc[n]
<1> DEFINE step == [x \in (1..n) \X Int |-> x[2] + values[x[1]]]
           Rule(f) == f = [k \in 0..n |-> IF k = 0 THEN 0 ELSE f[k-1] + values[k]]
           acc == CHOOSE f : Rule(f)
<1>1. step \in [(1..n) \X Int -> Int] /\ 0 \in Int
  OBVIOUS
<1>2. \E f : Rule(f)
  <2> HIDE DEF step
  <2>1. PICK f : Unfolds(f, n, Int, 0, step)
    BY <1>1, RecursionExists
  <2>2. f \in [0..n -> Int] /\ f[0] = 0
    BY <2>1 DEF Unfolds
  <2>3. \A k \in 1..n : f[k] = f[k-1] + values[k]
    <3>1. \A k \in 1..n : f[k-1] \in Int /\ f[k] = step[<<k, f[k-1]>>]
      BY <2>1, <2>2 DEF Unfolds
    <3> QED BY <3>1 DEF step
  <2>4. f = [k \in 0..n |-> f[k]]
    BY <2>2
  <2>5. \A k \in 0..n : f[k] = IF k = 0 THEN 0 ELSE f[k-1] + values[k]
    BY <2>2, <2>3
  <2>6. Rule(f)
    BY <2>4, <2>5
  <2> QED BY <2>6
<1>3. Rule(acc)
  <2> HIDE DEF Rule
  <2> QED BY <1>2, Zenon
<1>4. Len(values) = n
  BY LenOfArray
<1>5. sum(values) = acc[n]
  BY <1>4 DEF sum
<1> HIDE DEF acc
<1>6. acc[0] = 0 /\ \A k \in 1..n : acc[k] = acc[k-1] + values[k]
  BY <1>3
<1>7. \A k \in 0..n : acc[k] \in Int
  <2> DEFINE P == {k \in 0..n : acc[k] \in Int}
  <2>1. 0 \in P
    BY <1>6
  <2>2. \A k \in 1..n : k - 1 \in P => k \in P
    BY <1>6
  <2> HIDE DEF P
  <2>3. \A k \in 0..n : k \in P
    BY <2>1, <2>2, UpTo
  <2> QED BY <2>3 DEF P
<1>8. acc \in [0..n -> Int]
  BY <1>3, <1>7
<1> QED BY <1>5, <1>6, <1>8 DEF RunningSum

\* Differences add up to the difference of the ends.
LEMMA SumTelescopes ==
  ASSUME NEW n \in Nat, NEW values \in [1..n -> Int], NEW r \in [0..n -> Int],
         \A k \in 1..n : values[k] = r[k] - r[k-1]
  PROVE  sum(values) = r[n] - r[0]
<1>1. PICK acc : RunningSum(acc, values, n) /\ sum(values) = acc[n]
  BY SumRuns
<1>2. acc \in [0..n -> Int] /\ acc[0] = 0 /\ \A k \in 1..n : acc[k] = acc[k-1] + values[k]
  BY <1>1 DEF RunningSum
<1> DEFINE P == {k \in 0..n : acc[k] = r[k] - r[0]}
<1>3. 0 \in P
  BY <1>2
<1>4. \A k \in 1..n : k - 1 \in P => k \in P
  BY <1>2
<1> HIDE DEF P
<1>5. \A k \in 0..n : k \in P
  BY <1>3, <1>4, UpTo
<1> QED BY <1>1, <1>5 DEF P

\* Two sums add up.
LEMMA SumOfPairs ==
  ASSUME NEW n \in Nat, NEW f \in [1..n -> Int], NEW g \in [1..n -> Int], NEW h \in [1..n -> Int],
         \A k \in 1..n : h[k] = f[k] + g[k]
  PROVE  sum(h) = sum(f) + sum(g)
<1>1. PICK a : RunningSum(a, f, n) /\ sum(f) = a[n]
  BY SumRuns
<1>2. PICK b : RunningSum(b, g, n) /\ sum(g) = b[n]
  BY SumRuns
<1>3. PICK c : RunningSum(c, h, n) /\ sum(h) = c[n]
  BY SumRuns
<1>4. /\ a \in [0..n -> Int] /\ a[0] = 0 /\ \A k \in 1..n : a[k] = a[k-1] + f[k]
      /\ b \in [0..n -> Int] /\ b[0] = 0 /\ \A k \in 1..n : b[k] = b[k-1] + g[k]
      /\ c \in [0..n -> Int] /\ c[0] = 0 /\ \A k \in 1..n : c[k] = c[k-1] + h[k]
  BY <1>1, <1>2, <1>3 DEF RunningSum
<1> DEFINE P == {k \in 0..n : c[k] = a[k] + b[k]}
<1>5. 0 \in P
  BY <1>4
<1>6. \A k \in 1..n : k - 1 \in P => k \in P
  <2> SUFFICES ASSUME NEW k \in 1..n, c[k-1] = a[k-1] + b[k-1] PROVE c[k] = a[k] + b[k]
    OBVIOUS
  <2>1. k - 1 \in 0..n /\ a[k-1] \in Int /\ b[k-1] \in Int
    BY <1>4
  <2>2. f[k] \in Int /\ g[k] \in Int
    OBVIOUS
  <2>3. c[k] = c[k-1] + h[k] /\ a[k] = a[k-1] + f[k] /\ b[k] = b[k-1] + g[k]
    BY <1>4
  <2> QED BY <2>1, <2>2, <2>3
<1> HIDE DEF P
<1>7. \A k \in 0..n : k \in P
  BY <1>5, <1>6, UpTo
<1> QED BY <1>1, <1>2, <1>3, <1>7 DEF P

\* No values less than nothing, and none more than some amount.
LEMMA SumBounded ==
  ASSUME NEW n \in Nat, NEW values \in [1..n -> Int], NEW most \in Nat,
         \A k \in 1..n : 0 <= values[k] /\ values[k] <= most
  PROVE  sum(values) \in Nat /\ sum(values) <= n * most
<1>1. PICK acc : RunningSum(acc, values, n) /\ sum(values) = acc[n]
  BY SumRuns
<1>2. acc \in [0..n -> Int] /\ acc[0] = 0 /\ \A k \in 1..n : acc[k] = acc[k-1] + values[k]
  BY <1>1 DEF RunningSum
<1> DEFINE P == {k \in 0..n : 0 <= acc[k] /\ acc[k] <= k * most}
<1>3. 0 \in P
  BY <1>2
<1>4. \A k \in 1..n : k - 1 \in P => k \in P
  <2> SUFFICES ASSUME NEW k \in 1..n, 0 <= acc[k-1] /\ acc[k-1] <= (k-1) * most
               PROVE  0 <= acc[k] /\ acc[k] <= k * most
    OBVIOUS
  <2>1. acc[k-1] \in Int /\ values[k] \in Int /\ acc[k] = acc[k-1] + values[k]
    BY <1>2
  <2>2. (k-1) * most = k * most - most /\ k * most \in Int
    OBVIOUS
  <2> QED BY <2>1, <2>2
<1> HIDE DEF P
<1>5. \A k \in 0..n : k \in P
  BY <1>3, <1>4, UpTo
<1> QED BY <1>1, <1>2, <1>5 DEF P

-----------------------------------------------------------------------------
(* Powers *)

\* p has the powers of b up to the n-th.
RunningProduct(p, b, n) ==
    /\ p \in [0..n -> Int] /\ p[0] = 1
    /\ \A k \in 1..n : p[k] = b * p[k-1]

\* pow is the last of the running products.
LEMMA PowRuns ==
  ASSUME NEW n \in Nat, NEW b \in Int
  PROVE  \E p : RunningProduct(p, b, n) /\ pow(b, n) = p[n]
<1> DEFINE step == [x \in (1..n) \X Int |-> b * x[2]]
           Rule(f) == f = [k \in 0..n |-> IF k = 0 THEN 1 ELSE b * f[k-1]]
           p == CHOOSE f : Rule(f)
<1>1. step \in [(1..n) \X Int -> Int] /\ 1 \in Int
  OBVIOUS
<1>2. \E f : Rule(f)
  <2> HIDE DEF step
  <2>1. PICK f : Unfolds(f, n, Int, 1, step)
    BY <1>1, RecursionExists
  <2>2. f \in [0..n -> Int] /\ f[0] = 1
    BY <2>1 DEF Unfolds
  <2>3. \A k \in 1..n : f[k] = b * f[k-1]
    <3>1. \A k \in 1..n : f[k-1] \in Int /\ f[k] = step[<<k, f[k-1]>>]
      BY <2>1, <2>2 DEF Unfolds
    <3> QED BY <3>1 DEF step
  <2>4. f = [k \in 0..n |-> f[k]]
    BY <2>2
  <2>5. \A k \in 0..n : f[k] = IF k = 0 THEN 1 ELSE b * f[k-1]
    BY <2>2, <2>3
  <2>6. Rule(f)
    BY <2>4, <2>5
  <2> QED BY <2>6
<1>3. Rule(p)
  <2> HIDE DEF Rule
  <2> QED BY <1>2, Zenon
<1>4. pow(b, n) = p[n]
  BY DEF pow
<1> HIDE DEF p
<1>5. p[0] = 1 /\ \A k \in 1..n : p[k] = b * p[k-1]
  BY <1>3
<1>6. \A k \in 0..n : p[k] \in Int
  <2> DEFINE P == {k \in 0..n : p[k] \in Int}
  <2>1. 0 \in P
    BY <1>5
  <2>2. \A k \in 1..n : k - 1 \in P => k \in P
    BY <1>5
  <2> HIDE DEF P
  <2>3. \A k \in 0..n : k \in P
    BY <2>1, <2>2, UpTo
  <2> QED BY <2>3 DEF P
<1>7. p \in [0..n -> Int]
  BY <1>3, <1>6
<1> QED BY <1>4, <1>5, <1>7 DEF RunningProduct

\* A power is a whole number, and the next one is another factor.
LEMMA PowUnfolds ==
  ASSUME NEW n \in Nat, NEW b \in Int
  PROVE  /\ pow(b, n) \in Int /\ pow(b, 0) = 1
         /\ pow(b, n + 1) = b * pow(b, n)
<1>1. PICK p : RunningProduct(p, b, n) /\ pow(b, n) = p[n]
  BY PowRuns
<1>2. PICK q : RunningProduct(q, b, n + 1) /\ pow(b, n + 1) = q[n+1]
  BY PowRuns
<1>3. PICK z : RunningProduct(z, b, 0) /\ pow(b, 0) = z[0]
  BY PowRuns
<1>4. /\ p \in [0..n -> Int] /\ p[0] = 1 /\ \A k \in 1..n : p[k] = b * p[k-1]
      /\ q \in [0..(n+1) -> Int] /\ q[0] = 1 /\ \A k \in 1..(n+1) : q[k] = b * q[k-1]
  BY <1>1, <1>2 DEF RunningProduct
<1> DEFINE P == {k \in 0..n : p[k] = q[k]}
<1>5. 0 \in P
  BY <1>4
<1>6. \A k \in 1..n : k - 1 \in P => k \in P
  BY <1>4
<1> HIDE DEF P
<1>7. \A k \in 0..n : k \in P
  BY <1>5, <1>6, UpTo
<1>8. q[n+1] = b * q[n] /\ p[n] \in Int
  BY <1>4
<1> QED BY <1>1, <1>2, <1>3, <1>7, <1>8 DEF P, RunningProduct

\* A greater base has no lower powers, and higher ones of the exponents from 1.
LEMMA PowMonotone ==
  ASSUME NEW n \in Nat, NEW a \in Nat, NEW b \in Nat, 1 <= a, a < b
  PROVE  1 <= pow(a, n) /\ pow(a, n) <= pow(b, n) /\ (n > 0 => pow(a, n) < pow(b, n))
<1> DEFINE P == {k \in 0..n : 1 <= pow(a, k) /\ pow(a, k) <= pow(b, k)
                              /\ (k > 0 => pow(a, k) < pow(b, k))}
<1>1. 0 \in P
  <2>1. pow(a, 0) = 1 /\ pow(b, 0) = 1
    BY PowUnfolds
  <2> QED BY <2>1
<1>2. ASSUME NEW k \in 1..n, k - 1 \in P
      PROVE  k \in P
  <2> DEFINE x == pow(a, k - 1)
             y == pow(b, k - 1)
  <2>1. 1 <= x /\ x <= y
    BY <1>2
  <2>2. /\ x \in Int /\ y \in Int
        /\ pow(a, (k - 1) + 1) = a * x /\ pow(b, (k - 1) + 1) = b * y
    <3> DEFINE j == k - 1
    <3>1. j \in Nat /\ a \in Int /\ b \in Int
      OBVIOUS
    <3> HIDE DEF j
    <3>2. /\ pow(a, j) \in Int /\ pow(b, j) \in Int
          /\ pow(a, j + 1) = a * pow(a, j) /\ pow(b, j + 1) = b * pow(b, j)
      BY <3>1, PowUnfolds
    <3> QED BY <3>2 DEF j
  <2>3. (k - 1) + 1 = k
    OBVIOUS
  <2>4. pow(a, k) = a * x /\ pow(b, k) = b * y
    BY <2>2, <2>3
  <2> HIDE DEF x, y
  <2>5. 1 <= a * x /\ a * x < b * x /\ b * x <= b * y
    <3>1. b = a + (b - a) /\ y = x + (y - x) /\ b - a \in Nat /\ y - x \in Nat
      BY <2>1, <2>2
    <3>2. b * x = a * x + (b - a) * x /\ b * y = b * x + b * (y - x)
      BY <2>2
    <3>3. \A u, v \in Nat : u >= 1 /\ v >= 1 => u * v >= 1
      OBVIOUS
    <3>4. a * x >= 1 /\ (b - a) * x >= 1
      BY <2>1, <2>2, <3>1, <3>3
    <3>5. b * (y - x) \in Nat
      BY <3>1
    <3> QED BY <2>2, <3>2, <3>4, <3>5
  <2>6. a * x \in Int /\ b * x \in Int /\ b * y \in Int
    BY <2>2
  <2>7. 1 <= pow(a, k) /\ pow(a, k) <= pow(b, k) /\ pow(a, k) < pow(b, k)
    BY <2>4, <2>5, <2>6
  <2> QED BY <2>7
<1> HIDE DEF P
<1>3. \A k \in 0..n : k \in P
  BY <1>1, <1>2, UpTo
<1> QED BY <1>3 DEF P

\* The factor that the bound of the search has grown by at the end.
LEMMA TwentyDoublings == pow(2, 20) = 1048576
<1>1. \A k \in Nat : pow(2, k + 1) = 2 * pow(2, k)
  BY PowUnfolds
<1>2. pow(2, 0) = 1
  BY PowUnfolds
<1>3. pow(2, 1) = 2 /\ pow(2, 2) = 4 /\ pow(2, 3) = 8 /\ pow(2, 4) = 16 /\ pow(2, 5) = 32
  BY <1>1, <1>2
<1>4. pow(2, 6) = 64 /\ pow(2, 7) = 128 /\ pow(2, 8) = 256 /\ pow(2, 9) = 512
      /\ pow(2, 10) = 1024
  BY <1>1, <1>3
<1>5. pow(2, 11) = 2048 /\ pow(2, 12) = 4096 /\ pow(2, 13) = 8192 /\ pow(2, 14) = 16384
      /\ pow(2, 15) = 32768
  BY <1>1, <1>4
<1>6. pow(2, 16) = 65536 /\ pow(2, 17) = 131072 /\ pow(2, 18) = 262144
      /\ pow(2, 19) = 524288 /\ pow(2, 20) = 1048576
  BY <1>1, <1>5
<1> QED BY <1>6

-----------------------------------------------------------------------------
(* The effective rate *)

\* The installments of a schedule pay these amounts.
Pays(entries, n, amounts) ==
    /\ n \in Nat \ {0} /\ Len(entries) = n
    /\ amounts \in [1..n -> Nat] /\ \A k \in 1..n : entries[k].amount = amounts[k]

\* The values of the first installments, over the powers of RateGrid.
RunningValue(scale, value, released, amounts, n, x) ==
    /\ scale \in [0..n -> Int] /\ value \in [0..n -> Int]
    /\ scale[0] = 1 /\ value[0] = -released
    /\ \A k \in 1..n :
          /\ scale[k] = RateGrid * scale[k-1]
          /\ value[k] = (RateGrid + x) * value[k-1] + scale[k] * amounts[k]

\* Npv is the last of the values that Horner's rule runs through.
LEMMA NpvRuns ==
  ASSUME NEW entries, NEW n, NEW amounts, Pays(entries, n, amounts), NEW released \in Int, NEW x \in Int
  PROVE  \E scale, value : /\ RunningValue(scale, value, released, amounts, n, x)
                           /\ Npv(released, entries, x) = value[n]
<1>0. /\ n \in Nat /\ Len(entries) = n
      /\ amounts \in [1..n -> Nat] /\ \A k \in 1..n : entries[k].amount = amounts[k]
      /\ RateGrid \in Int
  BY GridAssumption DEF Pays, GridAssumption
<1> DEFINE V == [scale : Int, value : Int]
           first == [scale |-> 1, value |-> -released]
           after(k, v) == [scale |-> RateGrid * v.scale,
                           value |-> (RateGrid + x) * v.value + (RateGrid * v.scale) * entries[k].amount]
           step == [y \in (1..n) \X V |-> after(y[1], y[2])]
           Rule(f) == f = [k \in 0..n |-> IF k = 0 THEN first ELSE after(k, f[k-1])]
           f == CHOOSE g : Rule(g)
<1>1. \A k \in 1..n, v \in V : after(k, v) \in V
  BY <1>0
<1>2. step \in [(1..n) \X V -> V] /\ first \in V
  <2> HIDE DEF after
  <2> QED BY <1>1
<1>3. \E g : Rule(g)
  <2> HIDE DEF step, V, first, after
  <2>1. PICK g : Unfolds(g, n, V, first, step)
    BY <1>0, <1>2, RecursionExists
  <2>2. g \in [0..n -> V] /\ g[0] = first
    BY <2>1 DEF Unfolds
  <2>3. \A k \in 1..n : g[k] = after(k, g[k-1])
    <3>1. \A k \in 1..n : g[k-1] \in V /\ g[k] = step[<<k, g[k-1]>>]
      BY <1>0, <2>1, <2>2 DEF Unfolds
    <3> QED BY <3>1 DEF step
  <2>4. g = [k \in 0..n |-> g[k]]
    BY <2>2
  <2>5. \A k \in 0..n : g[k] = IF k = 0 THEN first ELSE after(k, g[k-1])
    BY <1>0, <2>2, <2>3
  <2>6. Rule(g)
    BY <2>4, <2>5
  <2> QED BY <2>6
<1>4. Rule(f)
  <2> HIDE DEF Rule
  <2> QED BY <1>3, Zenon
<1>5. Npv(released, entries, x) = f[n].value
  BY <1>0 DEF Npv
<1> HIDE DEF f
<1>6. f[0] = first /\ \A k \in 1..n : f[k] = after(k, f[k-1])
  <2> HIDE DEF after, first
  <2> QED BY <1>0, <1>4
<1>7. \A k \in 0..n : f[k] \in V
  <2> DEFINE P == {k \in 0..n : f[k] \in V}
  <2> HIDE DEF V, first, after
  <2>1. 0 \in P
    BY <1>0, <1>2, <1>6
  <2>2. \A k \in 1..n : k - 1 \in P => k \in P
    BY <1>1, <1>6
  <2> HIDE DEF P
  <2>3. \A k \in 0..n : k \in P
    BY <1>0, <2>1, <2>2, UpTo
  <2> QED BY <2>3 DEF P
<1> DEFINE scale == [k \in 0..n |-> f[k].scale]
           value == [k \in 0..n |-> f[k].value]
<1>8. scale \in [0..n -> Int] /\ value \in [0..n -> Int]
  BY <1>7
<1>9. scale[0] = 1 /\ value[0] = -released
  <2>1. f[0].scale = 1 /\ f[0].value = -released
    <3>1. f[0] = first
      <4> HIDE DEF first, after
      <4> QED BY <1>6
    <3> QED BY <3>1
  <2>2. scale[0] = f[0].scale /\ value[0] = f[0].value
    BY <1>0
  <2> HIDE DEF scale, value
  <2> QED BY <2>1, <2>2
<1>10. ASSUME NEW k \in 1..n
       PROVE  /\ scale[k] = RateGrid * scale[k-1]
              /\ value[k] = (RateGrid + x) * value[k-1] + scale[k] * amounts[k]
  <2>1. /\ scale[k] = f[k].scale /\ value[k] = f[k].value
        /\ scale[k-1] = f[k-1].scale /\ value[k-1] = f[k-1].value
    BY <1>0
  <2>2. f[k] = after(k, f[k-1])
    BY <1>6
  <2>3. /\ f[k].scale = RateGrid * f[k-1].scale
        /\ f[k].value = (RateGrid + x) * f[k-1].value + (RateGrid * f[k-1].scale) * entries[k].amount
    BY <2>2
  <2> HIDE DEF scale, value
  <2> QED BY <1>0, <2>1, <2>3
<1>11. Npv(released, entries, x) = value[n]
  BY <1>0, <1>5
<1> HIDE DEF scale, value
<1>12. RunningValue(scale, value, released, amounts, n, x)
  BY <1>8, <1>9, <1>10 DEF RunningValue
<1> QED BY <1>11, <1>12

\* A product of numbers from 1.
LEMMA ProductSigns ==
  /\ \A a, b \in Int : a >= 1 /\ b >= 1 => a * b \in Int /\ a * b >= 1
  /\ \A a, b \in Int : a >= 1 /\ b <= 0 => a * b \in Int /\ a * b <= 0
  /\ \A a, b \in Int : a >= 0 /\ b >= 0 => a * b \in Int /\ a * b >= 0
OBVIOUS

\* At no interest, what counts is whether the installments pay more than was released.
LEMMA NpvAtNothing ==
  ASSUME NEW entries, NEW n, NEW amounts, Pays(entries, n, amounts), NEW released \in Int
  PROVE  /\ Npv(released, entries, 0) \in Int
         /\ Npv(released, entries, 0) <= 0 => sum(amounts) <= released
         /\ sum(amounts) >= released => Npv(released, entries, 0) >= 0
<1>0. n \in Nat /\ amounts \in [1..n -> Nat] /\ amounts \in [1..n -> Int]
      /\ RateGrid \in Int /\ RateGrid >= 1
  BY GridAssumption DEF Pays, GridAssumption
<1>1. PICK scale, value : /\ RunningValue(scale, value, released, amounts, n, 0)
                          /\ Npv(released, entries, 0) = value[n]
  BY NpvRuns
<1>2. /\ scale \in [0..n -> Int] /\ value \in [0..n -> Int]
      /\ scale[0] = 1 /\ value[0] = -released
      /\ \A k \in 1..n : /\ scale[k] = RateGrid * scale[k-1]
                         /\ value[k] = (RateGrid + 0) * value[k-1] + scale[k] * amounts[k]
  BY <1>1 DEF RunningValue
<1>3. PICK acc : RunningSum(acc, amounts, n) /\ sum(amounts) = acc[n]
  BY <1>0, SumRuns
<1>4. acc \in [0..n -> Int] /\ acc[0] = 0 /\ \A k \in 1..n : acc[k] = acc[k-1] + amounts[k]
  BY <1>3 DEF RunningSum
<1> DEFINE P == {k \in 0..n : scale[k] >= 1 /\ value[k] = scale[k] * (acc[k] - released)}
<1>5. 0 \in P
  BY <1>0, <1>2, <1>4
<1>6. ASSUME NEW k \in 1..n, k - 1 \in P
      PROVE  k \in P
  <2> DEFINE s == scale[k-1]
             v == value[k-1]
             t == acc[k-1]
             a == amounts[k]
  <2>1. s \in Int /\ v \in Int /\ t \in Int /\ a \in Int /\ s >= 1 /\ v = s * (t - released)
    BY <1>0, <1>2, <1>4, <1>6
  <2>2. scale[k] = RateGrid * s /\ value[k] = (RateGrid + 0) * v + scale[k] * a /\ acc[k] = t + a
    BY <1>2, <1>4
  <2> HIDE DEF s, v, t, a
  <2>3. scale[k] \in Int /\ scale[k] >= 1
    BY <1>0, <2>1, <2>2, ProductSigns
  <2>4. value[k] = scale[k] * (acc[k] - released)
    <3>1. RateGrid * v = (RateGrid * s) * (t - released)
      BY <1>0, <2>1
    <3>2. (RateGrid * s) * (t - released) + (RateGrid * s) * a = (RateGrid * s) * (t + a - released)
      BY <1>0, <2>1
    <3> QED BY <1>0, <2>1, <2>2, <3>1, <3>2
  <2> QED BY <2>3, <2>4
<1> HIDE DEF P
<1>7. \A k \in 0..n : k \in P
  BY <1>0, <1>5, <1>6, UpTo
<1>8. /\ scale[n] \in Int /\ scale[n] >= 1 /\ acc[n] - released \in Int
      /\ value[n] = scale[n] * (acc[n] - released)
  BY <1>0, <1>2, <1>4, <1>7 DEF P
<1>9. /\ acc[n] - released >= 0 => value[n] >= 0
      /\ acc[n] - released >= 1 => value[n] >= 1
  BY <1>8, ProductSigns
<1>10. value[n] \in Int /\ acc[n] \in Int
  BY <1>0, <1>2, <1>4
<1> QED BY <1>1, <1>3, <1>9, <1>10

\* At a rate at which the cash released earns what the installments pay in all, they are
\* worth no more than it.
LEMMA NpvAtMuch ==
  ASSUME NEW entries, NEW n, NEW amounts, Pays(entries, n, amounts), NEW released \in Int,
         NEW x \in Nat, sum(amounts) * RateGrid <= released * (RateGrid + x)
  PROVE  Npv(released, entries, x) \in Int /\ Npv(released, entries, x) <= 0
<1> DEFINE up == RateGrid + x
<1>0. n \in Nat /\ n >= 1 /\ amounts \in [1..n -> Nat] /\ amounts \in [1..n -> Int]
      /\ RateGrid \in Int /\ RateGrid >= 1 /\ up \in Int /\ up >= RateGrid
  BY GridAssumption DEF Pays, GridAssumption
<1>1. PICK scale, value : /\ RunningValue(scale, value, released, amounts, n, x)
                          /\ Npv(released, entries, x) = value[n]
  BY NpvRuns
<1>2. /\ scale \in [0..n -> Int] /\ value \in [0..n -> Int]
      /\ scale[0] = 1 /\ value[0] = -released
      /\ \A k \in 1..n : /\ scale[k] = RateGrid * scale[k-1]
                         /\ value[k] = up * value[k-1] + scale[k] * amounts[k]
  BY <1>1 DEF RunningValue
<1>3. PICK acc : RunningSum(acc, amounts, n) /\ sum(amounts) = acc[n]
  BY <1>0, SumRuns
<1>4. acc \in [0..n -> Int] /\ acc[0] = 0 /\ \A k \in 1..n : acc[k] = acc[k-1] + amounts[k]
  BY <1>3 DEF RunningSum
<1> HIDE DEF up
\* What is still to be paid at each installment makes up the shortfall.
<1> DEFINE left(k) == released * up - acc[k] * RateGrid
           Later == {k \in 0..n : left(n - k) >= 0}
           P == {k \in 0..n : /\ scale[k] >= 1
                              /\ k >= 1 => value[k] * RateGrid <= -(scale[k] * left(k))}
<1>5. \A k \in 0..n : left(k) \in Int
  BY <1>0, <1>4
<1>6. \A k \in 1..n : left(k) = left(k-1) - amounts[k] * RateGrid
  <2> SUFFICES ASSUME NEW k \in 1..n PROVE left(k) = left(k-1) - amounts[k] * RateGrid
    OBVIOUS
  <2> DEFINE t == acc[k-1]
             a == amounts[k]
             e == acc[k]
             z == released * up
  <2>1. t \in Int /\ a \in Int /\ e = t + a /\ z \in Int
    BY <1>0, <1>4
  <2> HIDE DEF t, a, e, z
  <2>2. e * RateGrid = t * RateGrid + a * RateGrid /\ t * RateGrid \in Int /\ a * RateGrid \in Int
    BY <1>0, <2>1
  <2>3. z - e * RateGrid = z - t * RateGrid - a * RateGrid
    BY <2>1, <2>2
  <2> QED BY <2>3 DEF t, a, e, z
<1>7. \A k \in 0..n : left(k) >= 0
  <2> HIDE DEF left
  <2>1. 0 \in Later
    <3>1. left(n) >= 0
      <4> DEFINE paid == sum(amounts) * RateGrid
                 most == released * up
      <4>1. paid <= most
        BY DEF up
      <4>2. left(n) = most - paid
        BY <1>3 DEF left
      <4>3. sum(amounts) \in Int
        BY <1>0, <1>3, <1>4
      <4>4. paid \in Int /\ most \in Int
        BY <1>0, <4>3
      <4> HIDE DEF paid, most
      <4> QED BY <4>1, <4>2, <4>4
    <3>2. n - 0 = n
      BY <1>0
    <3> QED BY <1>0, <3>1, <3>2
  <2>2. ASSUME NEW k \in 1..n, k - 1 \in Later
        PROVE  k \in Later
    <3> DEFINE j == n - (k - 1)
    <3>1. j \in 1..n /\ left(j) >= 0 /\ j - 1 = n - k
      BY <1>0, <2>2
    <3>2. left(j) = left(j-1) - amounts[j] * RateGrid /\ left(j-1) \in Int
      BY <1>0, <1>5, <1>6, <3>1
    <3>3. amounts[j] * RateGrid \in Nat
      BY <1>0, <3>1
    <3>4. left(j-1) >= 0
      BY <3>1, <3>2, <3>3
    <3> QED BY <3>1, <3>4
  <2> HIDE DEF Later
  <2>3. \A k \in 0..n : k \in Later
    BY <1>0, <2>1, <2>2, UpTo
  <2>4. ASSUME NEW k \in 0..n PROVE left(k) >= 0
    <3>1. n - k \in 0..n /\ n - (n - k) = k
      BY <1>0
    <3> QED BY <2>3, <3>1 DEF Later
  <2> QED BY <2>4
<1> HIDE DEF left
<1>8. 0 \in P
  BY <1>0, <1>2
<1>9. ASSUME NEW k \in 1..n, k - 1 \in P
      PROVE  k \in P
  <2> DEFINE s == scale[k-1]
             v == value[k-1]
             a == amounts[k]
             r == left(k-1)
             q == left(k)
  <2>1. /\ s \in Int /\ v \in Int /\ a \in Int /\ a >= 0 /\ r \in Int /\ q \in Int /\ s >= 1
        /\ r >= 0
    <3>1. k - 1 \in 0..n /\ k \in 0..n
      BY <1>0
    <3>2. s \in Int /\ v \in Int /\ a \in Nat /\ s >= 1
      BY <1>0, <1>2, <1>9, <3>1
    <3>3. r \in Int /\ q \in Int /\ r >= 0
      BY <1>5, <1>7, <3>1
    <3> QED BY <3>2, <3>3
  <2>2. /\ scale[k] = RateGrid * s /\ value[k] = up * v + scale[k] * a
        /\ q = r - a * RateGrid
    BY <1>2, <1>6
  <2>3. k > 1 => v * RateGrid <= -(s * r)
    BY <1>9
  <2>4. k = 1 => s = 1 /\ v = -released /\ r = released * up
    <3>1. k = 1 => k - 1 = 0
      OBVIOUS
    <3> QED BY <1>0, <1>2, <1>4, <3>1 DEF left
  <2> HIDE DEF s, v, a, r, q
  <2>5. scale[k] \in Int /\ scale[k] >= 1
    BY <1>0, <2>1, <2>2, ProductSigns
  <2>6. up * v * RateGrid <= -(scale[k] * r)
    <3>1. CASE k = 1
      <4>1. up * v * RateGrid = -(RateGrid * (released * up))
        BY <1>0, <2>1, <2>4, <3>1
      <4>2. scale[k] * r = RateGrid * (released * up)
        BY <1>0, <2>2, <2>4, <3>1
      <4>3. RateGrid * (released * up) \in Int
        BY <1>0
      <4> QED BY <4>1, <4>2, <4>3
    <3>2. CASE k > 1
      <4> DEFINE w == v * RateGrid
                 m == s * r
      <4>1. w \in Int /\ m \in Int /\ m >= 0 /\ w <= -m
        BY <1>0, <2>1, <2>3, <3>2, ProductSigns
      <4>2. up * v * RateGrid = up * w /\ scale[k] * r = RateGrid * m
        BY <1>0, <2>1, <2>2
      <4> HIDE DEF w, m
      <4>3. up * w <= -(up * m)
        <5>1. up * (w + m) <= 0 /\ up * (w + m) = up * w + up * m
          BY <1>0, <4>1, ProductSigns
        <5>2. up * w \in Int /\ up * m \in Int
          BY <1>0, <4>1
        <5> QED BY <5>1, <5>2
      <4>4. RateGrid * m <= up * m
        <5>1. (up - RateGrid) * m >= 0 /\ (up - RateGrid) * m = up * m - RateGrid * m
          BY <1>0, <4>1, ProductSigns
        <5>2. up * m \in Int /\ RateGrid * m \in Int
          BY <1>0, <4>1
        <5> QED BY <5>1, <5>2
      <4>5. up * w \in Int /\ up * m \in Int /\ RateGrid * m \in Int
        BY <1>0, <4>1
      <4> QED BY <4>2, <4>3, <4>4, <4>5
    <3> QED BY <3>1, <3>2
  <2>7. value[k] * RateGrid <= -(scale[k] * q)
    <3> DEFINE c == scale[k]
    <3>1. c \in Int /\ c * r \in Int /\ c * a * RateGrid \in Int /\ up * v * RateGrid \in Int
      BY <1>0, <2>1, <2>5
    <3>2. value[k] = up * v + c * a /\ up * v * RateGrid <= -(c * r)
      BY <2>2, <2>6
    <3> HIDE DEF c
    <3>3. (up * v + c * a) * RateGrid = up * v * RateGrid + c * a * RateGrid
      BY <1>0, <2>1, <3>1
    <3>4. c * (r - a * RateGrid) = c * r - c * a * RateGrid
      BY <1>0, <2>1, <3>1
    <3>5. value[k] * RateGrid <= -(c * q)
      BY <2>2, <3>1, <3>2, <3>3, <3>4
    <3> QED BY <3>5 DEF c
  <2> QED BY <2>5, <2>7 DEF q
<1> HIDE DEF P
<1>10. \A k \in 0..n : k \in P
  BY <1>0, <1>8, <1>9, UpTo
<1>11. /\ scale[n] \in Int /\ scale[n] >= 1 /\ left(n) \in Int /\ left(n) >= 0 /\ value[n] \in Int
       /\ value[n] * RateGrid <= -(scale[n] * left(n))
  BY <1>0, <1>2, <1>5, <1>7, <1>10 DEF P
<1>12. value[n] <= 0
  <2>1. value[n] * RateGrid <= 0
    <3>1. scale[n] * left(n) \in Int /\ scale[n] * left(n) >= 0 /\ value[n] * RateGrid \in Int
      BY <1>0, <1>11, ProductSigns
    <3> QED BY <1>11, <3>1
  <2>2. value[n] >= 1 => value[n] * RateGrid >= 1
    BY <1>0, <1>11, ProductSigns
  <2>3. value[n] * RateGrid \in Int
    BY <1>0, <1>11
  <2> QED BY <1>11, <2>1, <2>2, <2>3
<1> QED BY <1>1, <1>11, <1>12

\* The most that the bracketing lets a loan pay, per cent released.
MostGrowth == pow(2, 20) + 1

\* The bound that is searched up to is one at which the installments are worth no more than
\* what was released, if they pay no more in all than it earns at the twentieth doubling.
LEMMA UpperBoundBrackets ==
  ASSUME NEW entries, NEW n, NEW amounts, Pays(entries, n, amounts), NEW released \in Int,
         sum(amounts) <= released * MostGrowth
  PROVE  LET high == UpperBound(released, entries) IN
         high \in Nat /\ high >= 1 /\ Npv(released, entries, high) <= 0
<1> DEFINE bound(m) == RateGrid * pow(2, m)
           worth(m) == Npv(released, entries, bound(m))
           Found(m) == /\ \A j \in 0..(m-1) : worth(j) > 0
                       /\ m = Doublings \/ worth(m) <= 0
           T == {m \in 0..20 : worth(m) <= 0}
<1>1. RateGrid \in Nat /\ RateGrid >= 1
  BY GridAssumption DEF GridAssumption
<1>2. ASSUME NEW m \in Nat
      PROVE  bound(m) \in Nat /\ bound(m) >= 1 /\ worth(m) \in Int
  <2>1. pow(2, m) \in Int /\ pow(2, m) >= 1
    <3>1. 1 <= pow(2, m)
      BY PowMonotone
    <3> QED BY <3>1, PowUnfolds
  <2>2. bound(m) \in Int /\ bound(m) >= 1
    BY <1>1, <2>1, ProductSigns
  <2> HIDE DEF bound
  <2>3. PICK scale, value : /\ RunningValue(scale, value, released, amounts, n, bound(m))
                            /\ Npv(released, entries, bound(m)) = value[n]
    BY <2>2, NpvRuns
  <2>4. value[n] \in Int
    BY <2>3 DEF RunningValue, Pays
  <2> QED BY <2>2, <2>3, <2>4
<1>3. worth(20) <= 0
  <2> DEFINE x == bound(20)
             paid == sum(amounts)
  <2>0. MostGrowth \in Nat
    BY TwentyDoublings, SMT DEF MostGrowth
  <2>1. x = RateGrid * (MostGrowth - 1) /\ x \in Nat
    <3>1. pow(2, 20) \in Nat
      BY TwentyDoublings, SMT
    <3> QED BY <1>1, <1>2, <3>1 DEF MostGrowth
  <2>2. paid \in Int
    <3>1. n \in Nat /\ amounts \in [1..n -> Int]
      BY DEF Pays
    <3>2. PICK acc : RunningSum(acc, amounts, n) /\ sum(amounts) = acc[n]
      BY <3>1, SumRuns
    <3> QED BY <3>1, <3>2 DEF RunningSum
  <2> HIDE DEF paid, x
  <2>3. paid * RateGrid <= released * (RateGrid + x)
    <3> DEFINE w == released * MostGrowth - paid
    <3>1. w \in Int /\ w >= 0
      BY <2>0, <2>2 DEF paid
    <3>2. w * RateGrid \in Int /\ w * RateGrid >= 0
      BY <1>1, <3>1, ProductSigns
    <3>3. released * (RateGrid + x) = (released * MostGrowth) * RateGrid
      BY <1>1, <2>0, <2>1
    <3>4. w * RateGrid = (released * MostGrowth) * RateGrid - paid * RateGrid
      BY <1>1, <2>0, <2>2
    <3>5. paid * RateGrid \in Int /\ (released * MostGrowth) * RateGrid \in Int
      BY <1>1, <2>0, <2>2
    <3> HIDE DEF w
    <3> QED BY <3>2, <3>3, <3>4, <3>5
  <2>4. Npv(released, entries, x) <= 0
    <3>1. x \in Nat /\ sum(amounts) * RateGrid <= released * (RateGrid + x)
      BY <2>1, <2>3 DEF paid
    <3> QED BY <3>1, NpvAtMuch
  <2> QED BY <2>4 DEF x
<1> HIDE DEF bound, worth
<1>4. \E m \in 0..Doublings : Found(m)
  <2>1. T \in SUBSET Nat /\ T # {}
    BY <1>3
  <2>2. PICK t \in T : \A u \in T : t <= u
    <3> HIDE DEF T
    <3> QED BY <2>1, LeastNatural
  <2>3. ASSUME NEW j \in 0..(t-1) PROVE worth(j) > 0
    <3>1. j \notin T /\ j \in 0..20 /\ worth(j) \in Int
      BY <1>2, <2>2
    <3> QED BY <3>1
  <2>4. t \in 0..Doublings /\ Found(t)
    BY <2>2, <2>3 DEF Doublings
  <2> QED BY <2>4
<1> DEFINE m == CHOOSE k \in 0..Doublings : Found(k)
<1>5. m \in 0..Doublings /\ Found(m)
  <2> HIDE DEF Found
  <2> QED BY <1>4, Zenon
<1>6. UpperBound(released, entries) = bound(m)
  BY DEF UpperBound, bound, worth
<1> HIDE DEF m
<1>7. worth(m) <= 0 /\ m \in Nat
  BY <1>3, <1>5 DEF Doublings
<1> QED BY <1>2, <1>6, <1>7 DEF worth

\* Halving the bracket ends at two neighbours of the grid, on either side of the root.
LEMMA BisectFinds ==
  ASSUME NEW entries, NEW n, NEW amounts, Pays(entries, n, amounts), NEW released \in Int,
         NEW high \in Nat, high >= 1,
         Npv(released, entries, 0) > 0, Npv(released, entries, high) <= 0
  PROVE  LET low == bisect(released, entries, high) IN
         /\ low \in Nat /\ Npv(released, entries, low) >= 0
         /\ Npv(released, entries, low + 1) <= 0
<1> DEFINE V == [low : Nat, high : Nat]
           first == [low |-> 0, high |-> high]
           worth(x) == Npv(released, entries, x)
           half(b) == (b.low + b.high) \div 2
           after(b) == IF b.high - b.low <= 1 THEN b
                       ELSE IF worth(half(b)) > 0 THEN [b EXCEPT !.low = half(b)]
                       ELSE [b EXCEPT !.high = half(b)]
           step == [y \in (1..high) \X V |-> after(y[2])]
           Rule(f) == f = [k \in 0..high |-> IF k = 0 THEN first ELSE after(f[k-1])]
           f == CHOOSE g : Rule(g)
<1>0. ASSUME NEW x \in Nat PROVE worth(x) \in Int
  <2>1. PICK scale, value : /\ RunningValue(scale, value, released, amounts, n, x)
                            /\ Npv(released, entries, x) = value[n]
    BY NpvRuns
  <2> QED BY <2>1 DEF RunningValue, Pays
<1> HIDE DEF worth
<1>1. ASSUME NEW b \in V PROVE after(b) \in V
  <2>1. half(b) \in Nat /\ b.low \in Nat /\ b.high \in Nat
    BY SMT
  <2> HIDE DEF half
  <2>2. [b EXCEPT !.low = half(b)] \in V /\ [b EXCEPT !.high = half(b)] \in V
    BY <2>1
  <2> QED BY <2>2
<1> HIDE DEF after
<1>2. step \in [(1..high) \X V -> V] /\ first \in V
  BY <1>1
<1>3. \E g : Rule(g)
  <2> HIDE DEF step, V, first
  <2>1. PICK g : Unfolds(g, high, V, first, step)
    BY <1>2, RecursionExists
  <2>2. g \in [0..high -> V] /\ g[0] = first
    BY <2>1 DEF Unfolds
  <2>3. \A k \in 1..high : g[k] = after(g[k-1])
    <3>1. \A k \in 1..high : g[k-1] \in V /\ g[k] = step[<<k, g[k-1]>>]
      BY <2>1, <2>2 DEF Unfolds
    <3> QED BY <3>1 DEF step
  <2>4. g = [k \in 0..high |-> g[k]]
    BY <2>2
  <2>5. \A k \in 0..high : g[k] = IF k = 0 THEN first ELSE after(g[k-1])
    BY <2>2, <2>3
  <2>6. Rule(g)
    BY <2>4, <2>5
  <2> QED BY <2>6
<1>4. Rule(f)
  <2> HIDE DEF Rule
  <2> QED BY <1>3, Zenon
<1>5. bisect(released, entries, high) = f[high].low
  BY DEF bisect, after, worth, half
<1> HIDE DEF f
<1>6. f[0] = first /\ \A k \in 1..high : f[k] = after(f[k-1])
  <2> HIDE DEF first
  <2> QED BY <1>4
<1> DEFINE Bracket(b) == /\ b \in V /\ b.low < b.high
                         /\ worth(b.low) > 0 /\ worth(b.high) <= 0
           P == {k \in 0..high : Bracket(f[k]) /\ \/ f[k].high - f[k].low <= 1
                                                  \/ f[k].high - f[k].low <= high - k}
<1>7. 0 \in P
  <2>1. f[0] \in V /\ f[0].low = 0 /\ f[0].high = high
    BY <1>2, <1>6
  <2>2. worth(0) > 0 /\ worth(high) <= 0
    BY DEF worth
  <2> HIDE DEF V
  <2> QED BY <2>1, <2>2
<1>8. ASSUME NEW k \in 1..high, k - 1 \in P
      PROVE  k \in P
  <2> DEFINE b == f[k-1]
             c == f[k]
             mid == half(b)
  <2>1. /\ b \in V /\ b.low < b.high /\ worth(b.low) > 0 /\ worth(b.high) <= 0
        /\ b.high - b.low <= 1 \/ b.high - b.low <= high - (k - 1)
    BY <1>8
  <2>2. c = after(b)
    BY <1>6
  <2> HIDE DEF b, c
  <2>3. b.low \in Nat /\ b.high \in Nat
    BY <2>1
  <2>4. CASE b.high - b.low <= 1
    <3>1. c = b
      BY <2>2, <2>4 DEF after
    <3> QED BY <2>1, <2>4, <3>1 DEF c
  <2>5. CASE b.high - b.low > 1
    <3>1. mid \in Nat /\ b.low < mid /\ mid < b.high
      BY <2>3, <2>5
    <3> HIDE DEF mid
    <3>2. worth(mid) \in Int
      BY <1>0, <3>1
    <3>3. CASE worth(mid) > 0
      <4>1. c = [b EXCEPT !.low = mid]
        BY <2>2, <2>3, <2>5, <3>3 DEF after, mid
      <4>2. c \in V /\ c.low = mid /\ c.high = b.high
        BY <2>1, <3>1, <4>1
      <4>3. c.high - c.low <= high - k
        BY <2>1, <2>3, <2>5, <3>1, <4>2
      <4> HIDE DEF V
      <4> QED BY <2>1, <3>1, <3>3, <4>2, <4>3 DEF c
    <3>4. CASE worth(mid) <= 0
      <4>1. c = [b EXCEPT !.high = mid]
        BY <2>2, <2>3, <2>5, <3>2, <3>4 DEF after, mid
      <4>2. c \in V /\ c.low = b.low /\ c.high = mid
        BY <2>1, <3>1, <4>1
      <4>3. c.high - c.low <= high - k
        BY <2>1, <2>3, <2>5, <3>1, <4>2
      <4> HIDE DEF V
      <4> QED BY <2>1, <3>1, <3>4, <4>2, <4>3 DEF c
    <3> QED BY <3>2, <3>3, <3>4
  <2> QED BY <2>3, <2>4, <2>5
<1> HIDE DEF P
<1>9. \A k \in 0..high : k \in P
  BY <1>7, <1>8, UpTo
<1> DEFINE low == f[high].low
           top == f[high].high
<1>10. /\ low \in Nat /\ top \in Nat /\ low < top /\ worth(low) > 0 /\ worth(top) <= 0
       /\ top - low <= 1 \/ top - low <= high - high
  BY <1>9 DEF P
<1> HIDE DEF low, top
<1>11. top = low + 1
  BY <1>10
<1>12. worth(low) >= 0 /\ worth(low + 1) <= 0
  BY <1>0, <1>10, <1>11
<1> QED BY <1>5, <1>10, <1>12 DEF low, worth

\* The effective rate is that at which the installments are worth what was released, to
\* one step of the grid, if they pay no less in all.
LEMMA EffectiveRate ==
  ASSUME NEW entries, NEW n, NEW amounts, Pays(entries, n, amounts), NEW released \in Int,
         released <= sum(amounts), sum(amounts) <= released * MostGrowth
  PROVE  LET rate == computeMonthlyIrr(released, entries) IN
         /\ rate \in Nat /\ Npv(released, entries, rate) >= 0
         /\ Npv(released, entries, rate + 1) <= 0
<1>1. /\ Npv(released, entries, 0) \in Int
      /\ Npv(released, entries, 0) <= 0 => sum(amounts) <= released
      /\ sum(amounts) >= released => Npv(released, entries, 0) >= 0
  BY NpvAtNothing
<1>2. CASE Npv(released, entries, 0) <= 0
  <2>1. computeMonthlyIrr(released, entries) = 0
    BY <1>2 DEF computeMonthlyIrr
  <2>2. sum(amounts) \in Int
    <3>1. n \in Nat /\ amounts \in [1..n -> Int]
      BY DEF Pays
    <3>2. PICK acc : RunningSum(acc, amounts, n) /\ sum(amounts) = acc[n]
      BY <3>1, SumRuns
    <3> QED BY <3>1, <3>2 DEF RunningSum
  <2>3. sum(amounts) = released
    BY <1>1, <1>2, <2>2
  <2>4. RateGrid \in Nat /\ 1 \in Nat /\ 0 + 1 = 1
    BY GridAssumption DEF GridAssumption
  <2>5. sum(amounts) * RateGrid <= released * (RateGrid + 1)
    <3>1. released >= 0
      <4>1. \A z \in Int : z <= z * MostGrowth => z >= 0
        BY TwentyDoublings, SMT DEF MostGrowth
      <4> QED BY <2>3, <4>1
    <3>2. released * (RateGrid + 1) = released * RateGrid + released /\ released * RateGrid \in Int
      BY <2>4
    <3> QED BY <2>3, <3>1, <3>2
  <2>6. Npv(released, entries, 1) <= 0
    BY <2>4, <2>5, NpvAtMuch
  <2> QED BY <1>1, <2>1, <2>2, <2>3, <2>4, <2>6
<1>3. CASE Npv(released, entries, 0) > 0
  <2> DEFINE high == UpperBound(released, entries)
  <2>1. high \in Nat /\ high >= 1 /\ Npv(released, entries, high) <= 0
    BY UpperBoundBrackets
  <2>2. computeMonthlyIrr(released, entries) = bisect(released, entries, high)
    BY <1>1, <1>3 DEF computeMonthlyIrr
  <2> HIDE DEF high
  <2> DEFINE low == bisect(released, entries, high)
  <2>3. /\ low \in Nat /\ Npv(released, entries, low) >= 0
        /\ Npv(released, entries, low + 1) <= 0
    BY <1>3, <2>1, BisectFinds
  <2> QED BY <2>2, <2>3
<1> QED BY <1>1, <1>2, <1>3

-----------------------------------------------------------------------------
(* The schedules *)

\* What is lent, at a monthly rate and in a number of installments.
Loan(P, i, n) ==
    P \in Nat \ {0} /\ n \in Nat \ {0} /\ i \in [num : Nat, den : Nat \ {0}]

\* A running total of principal, from nothing to all of it.
Repays(repaid, P, n) == repaid \in [0..n -> Int] /\ repaid[0] = 0 /\ repaid[n] = P

\* Rounding keeps to the whole numbers that bound what is rounded.
LEMMA Rounding ==
  ASSUME NEW a \in Int, NEW d \in Nat \ {0}
  PROVE  /\ roundCents(a, d) \in Int
         /\ \A q \in Int : a >= q * d => roundCents(a, d) >= q
         /\ \A q \in Int : a <= q * d => roundCents(a, d) <= q
<1> DEFINE r == (2 * a + d) \div (2 * d)
           D == 2 * d
           N == 2 * a + d
<1>1. D \in Int /\ D > 0 /\ N \in Int
  OBVIOUS
<1>2. r \in Int /\ D * r <= N /\ N < D * (r + 1)
  <2> DEFINE Q(x, y) == x \div y
  <2>1. r = N \div D
    OBVIOUS
  <2> HIDE DEF N, D, r
  <2>2. N \div D \in Int /\ D * (N \div D) <= N /\ N < D * ((N \div D) + 1)
    BY <1>1
  <2> QED BY <2>1, <2>2
<1>3. roundCents(a, d) = r
  BY DEF roundCents
<1> HIDE DEF r
<1>4. d * r \in Int /\ 2 * (d * r) <= 2 * a + d /\ 2 * a + d < 2 * (d * r) + 2 * d
  BY <1>2
<1>5. ASSUME NEW q \in Int, a >= q * d PROVE r >= q
  <2> SUFFICES ASSUME r < q PROVE FALSE
    BY <1>2
  <2> DEFINE w == q - r - 1
  <2>1. w \in Int /\ w >= 0
    BY <1>2
  <2>2. d * w = q * d - d * r - d /\ q * d \in Int
    BY <1>2
  <2>3. d * w \in Int /\ d * w >= 0
    BY <2>1, ProductSigns
  <2> HIDE DEF w
  <2> QED BY <1>4, <1>5, <2>2, <2>3
<1>6. ASSUME NEW q \in Int, a <= q * d PROVE r <= q
  <2> SUFFICES ASSUME r > q PROVE FALSE
    BY <1>2
  <2> DEFINE w == r - q - 1
  <2>1. w \in Int /\ w >= 0
    BY <1>2
  <2>2. d * w = d * r - q * d - d /\ q * d \in Int
    BY <1>2
  <2>3. d * w \in Int /\ d * w >= 0
    BY <2>1, ProductSigns
  <2> HIDE DEF w
  <2> QED BY <1>4, <1>6, <2>2, <2>3
<1> QED BY <1>2, <1>3, <1>5, <1>6

\* The first part of PowUnfolds.
LEMMA PowIsWhole ==
  ASSUME NEW n \in Nat, NEW b \in Int
  PROVE  pow(b, n) \in Int
BY PowUnfolds

\* The theoretical balance is a whole number of cents once rounded.
LEMMA PriceTargets ==
  ASSUME NEW P, NEW i, NEW n, Loan(P, i, n)
  PROVE  pricePaymentCents(P, i, n) \in Int
<1>1. P \in Nat /\ n \in Nat /\ n > 0 /\ i.num \in Nat /\ i.den \in Nat /\ i.den >= 1
  BY DEF Loan
<1> DEFINE up == i.num + i.den
<1>2. CASE i.num = 0
  <2>1. pricePaymentCents(P, i, n) = roundCents(P, n)
    BY <1>2 DEF pricePaymentCents
  <2>2. P \in Int /\ n \in Nat \ {0}
    BY <1>1
  <2> QED BY <2>1, <2>2, Rounding
<1>3. CASE i.num # 0
  <2> DEFINE above == pow(up, n)
             below == pow(i.den, n)
             a == P * i.num * above
             d == i.den * (above - below)
  <2>1. above \in Int /\ below \in Int /\ above - below >= 1
    <3>1. up \in Nat /\ i.den < up
      BY <1>1, <1>3
    <3> HIDE DEF up
    <3>2. 1 <= below /\ below <= above /\ (n > 0 => below < above)
      BY <1>1, <3>1, PowMonotone
    <3>3. above \in Int /\ below \in Int
      <4>1. up \in Int /\ i.den \in Int
        BY <1>1, <3>1
      <4> QED BY <1>1, <4>1, PowIsWhole
    <3> QED BY <1>1, <3>2, <3>3
  <2>2. pricePaymentCents(P, i, n) = roundCents(a, d)
    BY <1>3 DEF pricePaymentCents
  <2> HIDE DEF above, below
  <2>3. a \in Int
    BY <1>1, <2>1
  <2>4. d \in Int /\ d >= 1
    BY <1>1, <2>1, ProductSigns
  <2>5. d \in Nat \ {0}
    BY <2>4
  <2> HIDE DEF a, d
  <2> QED BY <2>2, <2>3, <2>5, Rounding
<1> QED BY <1>2, <1>3

\* A PRICE schedule repays all.
LEMMA PriceRepays ==
  ASSUME NEW P, NEW i, NEW n, Loan(P, i, n)
  PROVE  Repays(RepaidByPrice(P, i, n), P, n)
<1> DEFINE pmt == pricePaymentCents(P, i, n)
           grown(k) == pow(i.num + i.den, k)
           owedNum(k) == IF i.num = 0 THEN P * (n - k)
                         ELSE P * i.num * grown(k) - pmt * i.den * (grown(k) - pow(i.den, k))
           owedDen(k) == IF i.num = 0 THEN n ELSE i.num * pow(i.den, k)
           target(k) == roundCents(P * owedDen(k) - Greater(0, owedNum(k)), owedDen(k))
           next(k, before) == IF k = n THEN P
                              ELSE before + Lesser(Greater(target(k) - before, 0), P - before)
           step == [y \in (1..n) \X Int |-> next(y[1], y[2])]
           Rule(f) == f = [k \in 0..n |->
                             IF k = 0 THEN 0 ELSE IF k = n THEN P
                             ELSE f[k-1] + Lesser(Greater(target(k) - f[k-1], 0), P - f[k-1])]
           f == CHOOSE g : Rule(g)
<1>0. P \in Nat /\ n \in Nat /\ n > 0 /\ i.num \in Nat /\ i.den \in Nat /\ i.den >= 1
  BY DEF Loan
<1>1. ASSUME NEW k \in 1..n PROVE target(k) \in Int
  <2>1. k \in Nat /\ i.den \in Int /\ i.num + i.den \in Int
    BY <1>0
  <2>2. pmt \in Int /\ grown(k) \in Int /\ pow(i.den, k) \in Int
    BY <2>1, PriceTargets, PowIsWhole
  <2> HIDE DEF pmt, grown
  <2> DEFINE below == pow(i.den, k)
  <2>3. owedNum(k) \in Int
    <3>1. below \in Int
      BY <2>2
    <3>2. owedNum(k) = IF i.num = 0 THEN P * (n - k)
                       ELSE P * i.num * grown(k) - pmt * i.den * (grown(k) - below)
      OBVIOUS
    <3> HIDE DEF owedNum, below
    <3>3. P * (n - k) \in Int
      BY <1>0
    <3>4. P * i.num * grown(k) \in Int /\ pmt * i.den * (grown(k) - below) \in Int
      BY <1>0, <2>2, <3>1
    <3> QED BY <3>2, <3>3, <3>4
  <2>4. owedDen(k) \in Nat \ {0}
    <3>1. i.num # 0 => i.num * pow(i.den, k) \in Int /\ i.num * pow(i.den, k) >= 1
      <4>1. pow(i.den, k) >= 1
        <5>1. i.den \in Nat /\ i.den + 1 \in Nat /\ 1 <= i.den /\ i.den < i.den + 1
          BY <1>0
        <5> QED BY <2>1, <5>1, PowMonotone
      <4>2. i.num # 0 => i.num \in Int /\ i.num >= 1
        BY <1>0
      <4> QED BY <2>2, <4>1, <4>2, ProductSigns
    <3> QED BY <1>0, <3>1
  <2> HIDE DEF owedNum, owedDen
  <2>5. P * owedDen(k) - Greater(0, owedNum(k)) \in Int
    BY <1>0, <2>3, <2>4 DEF Greater
  <2> QED BY <2>4, <2>5, Rounding
<1> HIDE DEF target
<1>2. ASSUME NEW k \in 1..n, NEW before \in Int PROVE next(k, before) \in Int
  BY <1>0, <1>1 DEF Lesser, Greater
<1>3. \A k, before : next(k, before) =
         IF k = n THEN P ELSE before + Lesser(Greater(target(k) - before, 0), P - before)
  OBVIOUS
<1> HIDE DEF next
<1>4. step \in [(1..n) \X Int -> Int] /\ 0 \in Int
  BY <1>2
<1>5. PICK g : Unfolds(g, n, Int, 0, step)
  <2> HIDE DEF step
  <2> QED BY <1>0, <1>4, RecursionExists
<1>6. g \in [0..n -> Int] /\ g[0] = 0 /\ \A k \in 1..n : g[k] = next(k, g[k-1])
  <2>1. g \in [0..n -> Int] /\ g[0] = 0
    BY <1>5 DEF Unfolds
  <2>2. \A k \in 1..n : g[k] = step[<<k, g[k-1]>>]
    <3> HIDE DEF step
    <3> QED BY <1>5 DEF Unfolds
  <2>3. \A k \in 1..n : g[k-1] \in Int
    BY <1>0, <2>1
  <2> QED BY <2>1, <2>2, <2>3
<1>7. Rule(g)
  <2>1. g = [k \in 0..n |-> g[k]]
    BY <1>6
  <2>2. \A k \in 0..n : g[k] =
           IF k = 0 THEN 0 ELSE IF k = n THEN P
           ELSE g[k-1] + Lesser(Greater(target(k) - g[k-1], 0), P - g[k-1])
    BY <1>0, <1>3, <1>6
  <2> QED BY <2>1, <2>2
<1>8. Rule(f)
  <2> HIDE DEF Rule
  <2> QED BY <1>7, Zenon
<1>9. RepaidByPrice(P, i, n) = f
  BY DEF RepaidByPrice, target
<1> HIDE DEF f
<1>10. DOMAIN f = 0..n /\ \A k \in 0..n : f[k] =
           IF k = 0 THEN 0 ELSE IF k = n THEN P
           ELSE f[k-1] + Lesser(Greater(target(k) - f[k-1], 0), P - f[k-1])
  <2> HIDE DEF target
  <2> QED BY <1>8
<1>11. f[0] = 0 /\ f[n] = P
  BY <1>0, <1>10
<1> DEFINE T == {k \in 0..n : f[k] \in Int}
<1>12. 0 \in T
  BY <1>0, <1>11
<1>13. \A k \in 1..n : k - 1 \in T => k \in T
  BY <1>0, <1>1, <1>10 DEF Lesser, Greater
<1>14. \A k \in 0..n : k \in T
  <2> HIDE DEF T
  <2> QED BY <1>0, <1>12, <1>13, UpTo
<1>15. f \in [0..n -> Int]
  <2>1. f = [k \in 0..n |-> f[k]]
    <3> HIDE DEF target
    <3> QED BY <1>8, <1>10
  <2> QED BY <1>14, <2>1
<1> QED BY <1>9, <1>11, <1>15 DEF Repays

\* Interest in whole cents; at a rate the service accepts, and if no more is repaid than is
\* owed, no installment has more of it than twice the loan for every month.
Charges(interest, repaid, P, i, n) ==
    /\ interest \in [1..n -> Int]
    /\ i.num <= 2 * i.den /\ (\A k \in 0..n : 0 <= repaid[k] /\ repaid[k] <= P) =>
          \A k \in 1..n : interest[k] <= 2 * P * n

\* A schedule is the entries of a repayment.
IsSchedule(entries, P, i, n) ==
    \E repaid, interest : /\ Repays(repaid, P, n) /\ Charges(interest, repaid, P, i, n)
                          /\ entries = Entries(P, n, repaid, interest)

\* The interest on what is still owed (PRICE, SAC).
LEMMA InterestOnBalance ==
  ASSUME NEW P, NEW i, NEW n, Loan(P, i, n), NEW repaid, Repays(repaid, P, n)
  PROVE  Charges(OnBalance(P, i, n, repaid), repaid, P, i, n)
<1>0. P \in Nat /\ n \in Nat /\ n > 0 /\ i.num \in Nat /\ i.den \in Nat \ {0}
  BY DEF Loan
<1> DEFINE owed(k) == (P - repaid[k-1]) * i.num
<1>1. ASSUME NEW k \in 1..n
      PROVE  /\ k - 1 \in 0..n /\ repaid[k-1] \in Int /\ owed(k) \in Int
             /\ roundCents(owed(k), i.den) \in Int
  <2>1. k - 1 \in 0..n /\ repaid[k-1] \in Int
    BY <1>0 DEF Repays
  <2>2. owed(k) \in Int
    BY <1>0, <2>1
  <2> HIDE DEF owed
  <2>3. roundCents(owed(k), i.den) \in Int
    BY <1>0, <2>2, Rounding
  <2> QED BY <2>1, <2>2, <2>3
<1>2. OnBalance(P, i, n, repaid) = [k \in 1..n |-> roundCents(owed(k), i.den)]
  BY DEF OnBalance
<1>3. ASSUME i.num <= 2 * i.den, \A k \in 0..n : 0 <= repaid[k] /\ repaid[k] <= P,
             NEW k \in 1..n
      PROVE  roundCents(owed(k), i.den) <= 2 * P * n
  <2>1. P - repaid[k-1] \in Int /\ P - repaid[k-1] >= 0 /\ P - repaid[k-1] <= P
    BY <1>0, <1>1, <1>3
  <2>2. owed(k) <= (2 * P) * i.den
    <3> DEFINE b == P - repaid[k-1]
    <3>1. b * (2 * i.den - i.num) \in Int /\ b * (2 * i.den - i.num) >= 0
      <4>1. 2 * i.den - i.num \in Int /\ 2 * i.den - i.num >= 0
        BY <1>0, <1>3
      <4> QED BY <2>1, <4>1, ProductSigns
    <3>2. (P - b) * i.den \in Int /\ (P - b) * i.den >= 0
      <4>1. P - b \in Int /\ P - b >= 0 /\ i.den \in Int /\ i.den >= 0
        BY <1>0, <1>1, <1>3
      <4> QED BY <4>1, ProductSigns
    <3>3. b \in Int /\ owed(k) = b * i.num
      BY <2>1
    <3> HIDE DEF b
    <3>4. b * (2 * i.den - i.num) = 2 * (b * i.den) - b * i.num
      BY <1>0, <3>3
    <3>5. (P - b) * i.den = P * i.den - b * i.den
      BY <1>0, <3>3
    <3>6. (2 * P) * i.den = 2 * (P * i.den) /\ P * i.den \in Int /\ b * i.den \in Int
          /\ b * i.num \in Int
      BY <1>0, <3>3
    <3> QED BY <3>1, <3>2, <3>3, <3>4, <3>5, <3>6
  <2>3. roundCents(owed(k), i.den) <= 2 * P
    <3>1. 2 * P \in Int
      BY <1>0
    <3> HIDE DEF owed
    <3> QED BY <1>0, <1>1, <2>2, <3>1, Rounding
  <2>4. 2 * P <= 2 * P * n
    <3>1. P * (n - 1) \in Int /\ P * (n - 1) >= 0
      BY <1>0, ProductSigns
    <3>2. 2 * P * n = 2 * P + 2 * (P * (n - 1))
      BY <1>0
    <3> QED BY <1>0, <3>1, <3>2
  <2>5. 2 * P * n \in Int
    BY <1>0
  <2> HIDE DEF owed
  <2> QED BY <1>0, <1>1, <2>3, <2>4, <2>5
<1> HIDE DEF owed
<1>4. OnBalance(P, i, n, repaid) \in [1..n -> Int]
  BY <1>1, <1>2
<1> QED BY <1>2, <1>3, <1>4 DEF Charges

\* A PRICE schedule is one.
LEMMA PriceSchedules ==
  ASSUME NEW P, NEW i, NEW n, Loan(P, i, n)
  PROVE  IsSchedule(buildPriceSchedule(P, i, n), P, i, n)
BY PriceRepays, InterestOnBalance DEF buildPriceSchedule, IsSchedule

\* A SAC schedule is one: equal shares, and the residue with the last.
LEMMA SacSchedules ==
  ASSUME NEW P, NEW i, NEW n, Loan(P, i, n)
  PROVE  IsSchedule(buildSacSchedule(P, i, n), P, i, n)
<1> DEFINE share == P \div n
           repaid == [k \in 0..n |-> IF k < n THEN k * share ELSE P]
<1>1. P \in Nat /\ n \in Nat /\ n > 0
  BY DEF Loan
<1>2. share \in Int
  BY <1>1
<1>3. buildSacSchedule(P, i, n) = Entries(P, n, repaid, OnBalance(P, i, n, repaid))
  BY DEF buildSacSchedule
<1> HIDE DEF share
<1>4. Repays(repaid, P, n)
  <2>1. \A k \in 0..n : (IF k < n THEN k * share ELSE P) \in Int
    BY <1>1, <1>2
  <2>2. 0 * share = 0
    BY <1>2
  <2> QED BY <1>1, <2>1, <2>2 DEF Repays
<1> HIDE DEF repaid
<1>5. Charges(OnBalance(P, i, n, repaid), repaid, P, i, n)
  BY <1>4, InterestOnBalance
<1> QED BY <1>3, <1>4, <1>5 DEF IsSchedule

\* A SIMPLE schedule is one: differences of totals that are rounded to what is due.
LEMMA SimpleSchedules ==
  ASSUME NEW P, NEW i, NEW n, Loan(P, i, n)
  PROVE  IsSchedule(buildSimpleSchedule(P, i, n), P, i, n)
<1> DEFINE all == roundCents(P * i.num * n, i.den)
           repaid == [k \in 0..n |-> roundCents(P * k, n)]
           charged == [k \in 0..n |-> roundCents(all * k, n)]
           interest == [k \in 1..n |-> charged[k] - charged[k-1]]
<1>0. P \in Nat /\ n \in Nat \ {0} /\ i.num \in Nat /\ i.den \in Nat \ {0}
  BY DEF Loan
<1>1. all \in Int /\ all >= 0 /\ (i.num <= 2 * i.den => all <= 2 * P * n)
  <2> DEFINE a == P * i.num * n
  <2>1. a \in Int /\ a >= 0
    <3>1. P * i.num \in Int /\ P * i.num >= 0
      BY <1>0, ProductSigns
    <3> DEFINE b == P * i.num
    <3> HIDE DEF b
    <3>2. b * n \in Int /\ b * n >= 0
      BY <1>0, <3>1, ProductSigns DEF b
    <3> QED BY <3>2 DEF b
  <2>2. i.num <= 2 * i.den => a <= (2 * P * n) * i.den
    <3> SUFFICES ASSUME i.num <= 2 * i.den PROVE a <= (2 * P * n) * i.den
      OBVIOUS
    <3> DEFINE b == P * n
    <3>1. b \in Int /\ b >= 0
      BY <1>0, ProductSigns
    <3>2. a = b * i.num /\ (2 * P * n) * i.den = 2 * (b * i.den)
      BY <1>0
    <3> HIDE DEF b, a
    <3>3. 2 * i.den - i.num \in Int /\ 2 * i.den - i.num >= 0
      BY <1>0
    <3>4. b * (2 * i.den - i.num) >= 0
      BY <3>1, <3>3, ProductSigns
    <3>5. b * (2 * i.den - i.num) = 2 * (b * i.den) - b * i.num
      BY <1>0, <3>1
    <3>6. b * i.den \in Int /\ b * i.num \in Int
      BY <1>0, <3>1
    <3> QED BY <3>2, <3>4, <3>5, <3>6
  <2>3. 2 * P * n \in Int /\ 0 * i.den = 0
    BY <1>0
  <2>4. roundCents(a, i.den) \in Int /\ roundCents(a, i.den) >= 0
        /\ (a <= (2 * P * n) * i.den => roundCents(a, i.den) <= 2 * P * n)
    <3> DEFINE q == 2 * P * n
               d == i.den
    <3>1. q \in Int /\ d \in Nat \ {0} /\ a \in Int /\ a >= 0 * d
      BY <1>0, <2>1, <2>3
    <3> HIDE DEF a, q, d
    <3>2. roundCents(a, d) \in Int /\ roundCents(a, d) >= 0
          /\ (a <= q * d => roundCents(a, d) <= q)
      BY <3>1, Rounding
    <3> QED BY <3>2 DEF q, d
  <2> QED BY <2>2, <2>4
<1>2. ASSUME NEW v \in Nat, NEW k \in 0..n
      PROVE  /\ roundCents(v * k, n) \in Int /\ 0 <= roundCents(v * k, n)
             /\ roundCents(v * k, n) <= v
             /\ k = 0 => roundCents(v * k, n) = 0
             /\ k = n => roundCents(v * k, n) = v
  <2> DEFINE a == v * k
  <2>1. a \in Int /\ a >= 0 * n /\ a <= v * n /\ (k = 0 => a <= 0 * n) /\ (k = n => a >= v * n)
    <3>1. v * (n - k) \in Int /\ v * (n - k) >= 0 /\ v * k >= 0
      BY <1>0, ProductSigns
    <3>2. v * (n - k) = v * n - v * k /\ v * k \in Int /\ v * n \in Int /\ 0 * n = 0
      BY <1>0
    <3>3. (k = 0 => v * k = 0) /\ (k = n => v * k = v * n)
      BY <1>0
    <3> QED BY <3>1, <3>2, <3>3
  <2> HIDE DEF a
  <2>2. /\ roundCents(a, n) \in Int /\ 0 <= roundCents(a, n) /\ roundCents(a, n) <= v
        /\ k = 0 => roundCents(a, n) <= 0
        /\ k = n => roundCents(a, n) >= v
    BY <1>0, <2>1, Rounding
  <2> QED BY <2>2 DEF a
<1>3. buildSimpleSchedule(P, i, n) = Entries(P, n, repaid, interest)
  BY DEF buildSimpleSchedule
<1> HIDE DEF all
<1>4. Repays(repaid, P, n)
  <2>1. \A k \in 0..n : roundCents(P * k, n) \in Int
    BY <1>0, <1>2
  <2>2. 0 \in 0..n /\ n \in 0..n
    BY <1>0
  <2>3. roundCents(P * 0, n) = 0 /\ roundCents(P * n, n) = P
    BY <1>0, <1>2, <2>2
  <2> QED BY <2>1, <2>2, <2>3 DEF Repays
<1>5. charged \in [0..n -> Int] /\ \A k \in 0..n : 0 <= charged[k] /\ charged[k] <= all
  BY <1>1, <1>2
<1> HIDE DEF charged, repaid
<1>6. interest \in [1..n -> Int] /\ \A k \in 1..n : interest[k] <= all
  BY <1>0, <1>1, <1>5
<1> HIDE DEF interest
<1>7. Charges(interest, repaid, P, i, n)
  <2>1. 2 * P * n \in Int
    BY <1>0
  <2>2. \A k \in 1..n : interest[k] \in Int
    BY <1>6
  <2> QED BY <1>1, <1>6, <2>1, <2>2 DEF Charges
<1> QED BY <1>3, <1>4, <1>7 DEF IsSchedule

\* Whatever the amortization.
LEMMA EverySchedule ==
  ASSUME NEW P, NEW i, NEW n, Loan(P, i, n), NEW amortization \in AmortizationType
  PROVE  IsSchedule(simulate(P, i, n, amortization), P, i, n)
<1>1. CASE amortization = "PRICE"
  BY <1>1, PriceSchedules DEF simulate
<1>2. CASE amortization = "SAC"
  BY <1>2, SacSchedules DEF simulate
<1>3. CASE amortization = "SIMPLE"
  BY <1>3, SimpleSchedules DEF simulate
<1> QED BY <1>1, <1>2, <1>3 DEF AmortizationType

\* What a schedule that the service accepts is.
Amortizes(entries, P, n) ==
    /\ Len(entries) = n /\ DOMAIN entries = 1..n
    /\ \A k \in 1..n :
          /\ entries[k].amount \in Int /\ entries[k].amount > 0
          /\ entries[k].principal >= 0 /\ entries[k].interest >= 0
          /\ entries[k].balance = (IF k = 1 THEN P ELSE entries[k-1].balance) - entries[k].principal
    /\ entries[n].balance = 0
    /\ TotalPrincipal(entries) = P
    /\ TotalInterest(entries) \in Nat /\ TotalAmount(entries) = P + TotalInterest(entries)

\* A running total that never falls stays between its ends.
LEMMA NeverFalls ==
  ASSUME NEW n \in Nat, NEW r \in [0..n -> Int], \A k \in 1..n : r[k-1] <= r[k]
  PROVE  \A k \in 0..n : r[0] <= r[k] /\ r[k] <= r[n]
<1> DEFINE Up == {k \in 0..n : r[0] <= r[k]}
           Down == {k \in 0..n : r[n-k] <= r[n]}
<1>1. \A k \in 0..n : k \in Up
  <2>1. 0 \in Up
    OBVIOUS
  <2>2. \A k \in 1..n : k - 1 \in Up => k \in Up
    OBVIOUS
  <2> HIDE DEF Up
  <2> QED BY <2>1, <2>2, UpTo
<1>2. \A k \in 0..n : k \in Down
  <2>1. 0 \in Down
    OBVIOUS
  <2>2. ASSUME NEW k \in 1..n, k - 1 \in Down PROVE k \in Down
    <3> DEFINE j == n - k + 1
    <3>1. j \in 1..n /\ j - 1 = n - k /\ j = n - (k - 1)
      OBVIOUS
    <3>2. r[j-1] <= r[j] /\ r[j] <= r[n]
      <4> HIDE DEF j
      <4> QED BY <2>2, <3>1
    <3>3. r[n-k] <= r[j] /\ r[n-k] \in Int /\ r[j] \in Int /\ r[n] \in Int
      <4> HIDE DEF j
      <4> QED BY <3>1, <3>2
    <3> HIDE DEF j
    <3> QED BY <3>2, <3>3
  <2> HIDE DEF Down
  <2> QED BY <2>1, <2>2, UpTo
<1>3. ASSUME NEW k \in 0..n PROVE r[k] <= r[n]
  <2> DEFINE j == n - k
  <2>1. j \in 0..n /\ n - j = k
    OBVIOUS
  <2> HIDE DEF j
  <2> QED BY <1>2, <2>1
<1> QED BY <1>1, <1>3

\* The columns of a schedule.
LEMMA Columns ==
  ASSUME NEW P \in Nat, NEW n \in Nat \ {0}, NEW repaid, Repays(repaid, P, n),
         NEW interest \in [1..n -> Int], NEW entries, entries = Entries(P, n, repaid, interest)
  PROVE  /\ Len(entries) = n /\ DOMAIN entries = 1..n
         /\ \A k \in 1..n :
               /\ k - 1 \in 0..n /\ repaid[k] \in Int /\ repaid[k-1] \in Int
               /\ interest[k] \in Int
               /\ entries[k].principal = repaid[k] - repaid[k-1]
               /\ entries[k].interest = interest[k]
               /\ entries[k].amount = repaid[k] - repaid[k-1] + interest[k]
               /\ entries[k].balance = Greater(P - repaid[k], 0)
<1> DEFINE S == {entries[k] : k \in 1..n}
<1>1. entries = [k \in 1..n |-> [principal |-> repaid[k] - repaid[k-1], interest |-> interest[k],
                                 amount |-> repaid[k] - repaid[k-1] + interest[k],
                                 balance |-> Greater(P - repaid[k], 0)]]
  BY DEF Entries
<1>2. DOMAIN entries = 1..n /\ entries \in [1..n -> S]
  BY <1>1
<1>3. Len(entries) = n
  <2> HIDE DEF S
  <2> QED BY <1>2, LenOfArray
<1>4. ASSUME NEW k \in 1..n
      PROVE  k - 1 \in 0..n /\ repaid[k] \in Int /\ repaid[k-1] \in Int /\ interest[k] \in Int
  BY DEF Repays
<1> QED BY <1>1, <1>2, <1>3, <1>4

\* A repayment that the guard lets through amortizes: no part of it is negative, so no
\* more is repaid than is owed, and the clamp of the balance at zero never acts.
LEMMA AcceptedAmortizes ==
  ASSUME NEW P \in Nat, NEW n \in Nat \ {0}, NEW repaid, Repays(repaid, P, n),
         NEW interest \in [1..n -> Int], NEW entries, entries = Entries(P, n, repaid, interest),
         ~isNonAmortizing(entries)
  PROVE  /\ Amortizes(entries, P, n)
         /\ \A k \in 0..n : 0 <= repaid[k] /\ repaid[k] <= P
         /\ TotalInterest(entries) = sum(interest)
<1>1. /\ Len(entries) = n /\ DOMAIN entries = 1..n
      /\ \A k \in 1..n :
            /\ k - 1 \in 0..n /\ repaid[k] \in Int /\ repaid[k-1] \in Int
            /\ interest[k] \in Int
            /\ entries[k].principal = repaid[k] - repaid[k-1]
            /\ entries[k].interest = interest[k]
            /\ entries[k].amount = repaid[k] - repaid[k-1] + interest[k]
            /\ entries[k].balance = Greater(P - repaid[k], 0)
  BY Columns
<1>2. \A k \in 1..n :
         ~(entries[k].amount <= 0 \/ entries[k].principal < 0 \/ entries[k].interest < 0)
  BY <1>1 DEF isNonAmortizing
<1>3. \A k \in 1..n : /\ entries[k].amount \in Int /\ entries[k].amount > 0
                      /\ entries[k].principal >= 0 /\ entries[k].interest >= 0
                      /\ repaid[k-1] <= repaid[k] /\ interest[k] >= 0
  <2> SUFFICES ASSUME NEW k \in 1..n
               PROVE  /\ entries[k].amount \in Int /\ entries[k].amount > 0
                      /\ entries[k].principal >= 0 /\ entries[k].interest >= 0
                      /\ repaid[k-1] <= repaid[k] /\ interest[k] >= 0
    OBVIOUS
  <2> DEFINE e == entries[k]
             a == repaid[k-1]
             b == repaid[k]
             c == interest[k]
  <2>1. a \in Int /\ b \in Int /\ c \in Int /\ e.principal = b - a /\ e.interest = c
        /\ e.amount = b - a + c
    BY <1>1
  <2>2. ~(e.amount <= 0 \/ e.principal < 0 \/ e.interest < 0)
    BY <1>2
  <2> HIDE DEF e, a, b, c
  <2>3. e.amount \in Int /\ e.amount > 0 /\ e.principal >= 0 /\ e.interest >= 0 /\ a <= b /\ c >= 0
    BY <2>1, <2>2
  <2> QED BY <2>3 DEF e, a, b, c
<1>4. repaid \in [0..n -> Int] /\ repaid[0] = 0 /\ repaid[n] = P /\ n \in Nat
  BY DEF Repays
<1>5. \A k \in 0..n : 0 <= repaid[k] /\ repaid[k] <= P
  <2>1. \A k \in 1..n : repaid[k-1] <= repaid[k]
    BY <1>3
  <2>2. \A k \in 0..n : repaid[0] <= repaid[k] /\ repaid[k] <= repaid[n]
    BY <1>4, <2>1, NeverFalls
  <2> QED BY <1>4, <2>2
<1>6. ASSUME NEW k \in 0..n PROVE Greater(P - repaid[k], 0) = P - repaid[k]
  <2>1. repaid[k] \in Int /\ repaid[k] <= P
    BY <1>4, <1>5
  <2> QED BY <2>1 DEF Greater
<1>7. \A k \in 1..n : entries[k].balance = P - repaid[k]
  BY <1>1, <1>6
<1>8. ASSUME NEW k \in 1..n
      PROVE  entries[k].balance = (IF k = 1 THEN P ELSE entries[k-1].balance) - entries[k].principal
  <2> DEFINE j == k - 1
  <2>1. CASE k = 1
    <3>1. repaid[k-1] = 0
      BY <1>4, <2>1
    <3> QED BY <1>1, <1>7, <2>1, <3>1
  <2>2. CASE k # 1
    <3>1. j \in 1..n
      BY <2>2
    <3> HIDE DEF j
    <3>2. entries[j].balance = P - repaid[j]
      BY <1>7, <3>1
    <3>3. entries[k-1].balance = P - repaid[k-1]
      BY <3>2 DEF j
    <3>4. entries[k].balance = P - repaid[k] /\ entries[k].principal = repaid[k] - repaid[k-1]
          /\ repaid[k] \in Int /\ repaid[k-1] \in Int
      BY <1>1, <1>7
    <3> QED BY <2>2, <3>3, <3>4
  <2> QED BY <2>1, <2>2
<1>9. entries[n].balance = 0
  BY <1>4, <1>7
<1> DEFINE principals == [k \in DOMAIN entries |-> entries[k].principal]
           charged == [k \in DOMAIN entries |-> entries[k].interest]
           amounts == [k \in DOMAIN entries |-> entries[k].amount]
<1>10. /\ principals \in [1..n -> Int] /\ amounts \in [1..n -> Int] /\ charged = interest
       /\ \A k \in 1..n : /\ principals[k] = repaid[k] - repaid[k-1]
                          /\ amounts[k] = principals[k] + charged[k]
  <2>1. principals = [k \in 1..n |-> repaid[k] - repaid[k-1]]
    BY <1>1
  <2>2. amounts = [k \in 1..n |-> repaid[k] - repaid[k-1] + interest[k]]
    BY <1>1
  <2>3. charged = interest
    BY <1>1
  <2>4. \A k \in 1..n : repaid[k] - repaid[k-1] \in Int /\ repaid[k] - repaid[k-1] + interest[k] \in Int
    BY <1>1
  <2> HIDE DEF principals, charged, amounts
  <2> QED BY <2>1, <2>2, <2>3, <2>4
<1>11. TotalPrincipal(entries) = sum(principals) /\ TotalInterest(entries) = sum(charged)
       /\ TotalAmount(entries) = sum(amounts)
  BY DEF TotalPrincipal, TotalInterest, TotalAmount
<1> HIDE DEF principals, charged, amounts
<1>12. sum(principals) = P
  <2>1. \A k \in 1..n : principals[k] = repaid[k] - repaid[k-1]
    BY <1>10
  <2>2. sum(principals) = repaid[n] - repaid[0]
    BY <1>4, <1>10, <2>1, SumTelescopes
  <2> QED BY <1>4, <2>2
<1>13. sum(amounts) = sum(principals) + sum(charged)
  BY <1>4, <1>10, SumOfPairs
<1>14. sum(interest) \in Nat
  <2>1. PICK most \in Nat : \A k \in 1..n : interest[k] <= most
    <3> DEFINE T == {m \in 0..n : \E most \in Nat : \A k \in 1..m : interest[k] <= most}
    <3>1. 0 \in T
      OBVIOUS
    <3>2. ASSUME NEW m \in 1..n, m - 1 \in T PROVE m \in T
      <4>1. PICK most \in Nat : \A k \in 1..(m-1) : interest[k] <= most
        BY <3>2
      <4> DEFINE c == interest[m]
      <4>2. c \in Int
        OBVIOUS
      <4>3. PICK more \in Nat : most <= more /\ c <= more
        <5> HIDE DEF c
        <5>1. most <= c => c \in Nat
          BY <4>2
        <5> QED BY <4>2, <5>1
      <4>4. \A k \in 1..m : interest[k] <= more
        <5> SUFFICES ASSUME NEW k \in 1..m PROVE interest[k] <= more
          OBVIOUS
        <5>1. interest[k] \in Int
          OBVIOUS
        <5>2. CASE k = m
          BY <4>3, <5>2
        <5>3. CASE k # m
          BY <4>1, <4>3, <5>1, <5>3
        <5> QED BY <5>2, <5>3
      <4> QED BY <4>4
    <3> HIDE DEF T
    <3>3. n \in T
      <4>1. \A k \in 0..n : k \in T
        BY <3>1, <3>2, UpTo
      <4> QED BY <4>1
    <3> QED BY <3>3 DEF T
  <2>2. \A k \in 1..n : 0 <= interest[k] /\ interest[k] <= most
    BY <1>3, <2>1
  <2> QED BY <2>2, SumBounded
<1>15. Amortizes(entries, P, n)
  <2>1. /\ TotalPrincipal(entries) = P
        /\ TotalInterest(entries) \in Nat /\ TotalAmount(entries) = P + TotalInterest(entries)
    BY <1>10, <1>11, <1>12, <1>13, <1>14
  <2> QED BY <1>1, <1>3, <1>8, <1>9, <2>1 DEF Amortizes
<1> QED BY <1>5, <1>10, <1>11, <1>15

\* The most interest on a cent lent, at 200% for 420 months.
MostInterest == 2 * (420 * 420)

\* Interest of no more than twice the loan for every month, with each installment.
Modest(interest, P, n) ==
    /\ interest \in [1..n -> Int]
    /\ \A k \in 1..n : 0 <= interest[k] /\ interest[k] <= 2 * P * n

\* The interest in all, if no installment has more than twice the loan for every month.
LEMMA ModestInterest ==
  ASSUME NEW P \in Nat \ {0}, NEW n \in 1..420, NEW interest, Modest(interest, P, n)
  PROVE  sum(interest) \in Nat /\ sum(interest) <= MostInterest * P
<1> DEFINE most == 2 * P * n
<1>1. most \in Nat
  BY ProductSigns
<1>2. sum(interest) \in Nat /\ sum(interest) <= n * most
  <2> HIDE DEF most
  <2>1. \A k \in 1..n : 0 <= interest[k] /\ interest[k] <= most
    BY DEF most, Modest
  <2>2. interest \in [1..n -> Int] /\ n \in Nat
    BY DEF Modest
  <2> QED BY <1>1, <2>1, <2>2, SumBounded
<1>3. n * most <= MostInterest * P
  <2> DEFINE s == 176400 - n * n
  <2>0. MostInterest = 2 * 176400
    BY SMT DEF MostInterest
  <2>1. s \in Int /\ s >= 0
    <3>1. n * (420 - n) \in Int /\ n * (420 - n) >= 0
      BY ProductSigns
    <3>2. n * (420 - n) = 420 * n - n * n /\ n * n \in Int
      OBVIOUS
    <3> QED BY <3>1, <3>2, SMT
  <2>2. P * s \in Int /\ P * s >= 0
    <3> HIDE DEF s
    <3> QED BY <2>1, ProductSigns
  <2>3. P * s = 176400 * P - P * (n * n) /\ n * most = 2 * (P * (n * n)) /\ P * (n * n) \in Int
    BY SMT
  <2> QED BY <2>0, <2>2, <2>3, SMT
<1> HIDE DEF most
<1>4. n * most \in Int
  BY <1>1
<1>5. MostInterest * P \in Int
  BY SMT DEF MostInterest
<1> QED BY <1>2, <1>3, <1>4, <1>5

\* A loan that the service accepts: what LoansAmortize says of its contract.
Sound(c, n) ==
    /\ c.cash + c.iof + c.tac = c.financed /\ c.iof + c.tac < c.cash
    /\ n = Len(c.schedule)
    /\ TotalPrincipal(c.schedule) = c.financed /\ c.schedule[n].balance = 0
    /\ c.total = c.financed + c.interest
    /\ \A k \in 1..n : LET e == c.schedule[k] IN
          /\ e.amount \in Int /\ e.amount > 0 /\ e.principal >= 0 /\ e.interest >= 0
          /\ e.balance = (IF k = 1 THEN c.financed ELSE c.schedule[k-1].balance) - e.principal
    /\ c.cet \in Nat /\ Npv(c.cash, c.schedule, c.cet) >= 0
    /\ Npv(c.cash, c.schedule, c.cet + 1) <= 0

\* The terms that the service accepts.
TermsOK(t) ==
    /\ t.amortization \in AmortizationType
    /\ t.requested \in Nat \ {0} /\ t.termMonths \in Nat \ {0}
    /\ t.rate \in [num : Nat, den : Nat \ {0}] /\ t.tac \in Nat
    /\ Valid(t)

\* The schedules of terms that the service accepts, if the guard lets them through.
LEMMA ScheduleAmortizes ==
  ASSUME NEW t, TermsOK(t), NEW P \in Nat \ {0}, NEW entries,
         entries = simulate(P, t.rate, t.termMonths, t.amortization),
         ~isNonAmortizing(entries)
  PROVE  /\ Amortizes(entries, P, t.termMonths)
         /\ TotalInterest(entries) <= MostInterest * P
<1> DEFINE n == t.termMonths
           i == t.rate
<1>1. Loan(P, i, n) /\ t.amortization \in AmortizationType /\ n \in 1..420
      /\ i.num <= 2 * i.den
  BY DEF TermsOK, Loan, Valid
<1> HIDE DEF n, i
<1>2. IsSchedule(entries, P, i, n)
  <2>1. entries = simulate(P, i, n, t.amortization)
    BY DEF n, i
  <2> QED BY <1>1, <2>1, EverySchedule
<1>3. PICK repaid, interest : /\ Repays(repaid, P, n) /\ Charges(interest, repaid, P, i, n)
                              /\ entries = Entries(P, n, repaid, interest)
  BY <1>2 DEF IsSchedule
<1>4. interest \in [1..n -> Int] /\ P \in Nat /\ n \in Nat \ {0}
  BY <1>1, <1>3 DEF Charges
<1>5. /\ Amortizes(entries, P, n)
      /\ \A k \in 0..n : 0 <= repaid[k] /\ repaid[k] <= P
      /\ TotalInterest(entries) = sum(interest)
  BY <1>3, <1>4, AcceptedAmortizes
<1>6. \A k \in 1..n : interest[k] <= 2 * P * n
  BY <1>1, <1>3, <1>5 DEF Charges
<1>7. \A k \in 1..n : 0 <= interest[k]
  <2>1. \A k \in 1..n : entries[k].interest = interest[k]
    BY <1>3 DEF Entries
  <2>2. \A k \in 1..n : entries[k].interest >= 0 /\ interest[k] \in Int
    BY <1>4, <1>5 DEF Amortizes
  <2> QED BY <2>1, <2>2
<1>8. sum(interest) <= MostInterest * P
  <2>1. Modest(interest, P, n)
    BY <1>4, <1>6, <1>7 DEF Modest
  <2> QED BY <1>1, <2>1, ModestInterest
<1> QED BY <1>5, <1>8 DEF n

\* A costing that is accepted: its installments pay the cash at least, and less than a
\* million times it, so its effective rate is found.
LEMMA CostingIsSound ==
  ASSUME NEW cash \in Nat \ {0}, NEW iof \in Nat, NEW tac \in Nat, NEW t, TermsOK(t),
         NEW c, c = Costing(cash, iof, tac, t), Acceptable(c)
  PROVE  Sound(c, t.termMonths)
<1> DEFINE P == cash + iof + tac
           n == t.termMonths
           entries == simulate(P, t.rate, t.termMonths, t.amortization)
           amounts == [k \in DOMAIN entries |-> entries[k].amount]
<1>1. /\ c.cash = cash /\ c.iof = iof /\ c.tac = tac /\ c.financed = P
      /\ c.schedule = entries /\ c.total = TotalAmount(entries)
      /\ c.interest = TotalInterest(entries)
      /\ c.cet = IF isNonAmortizing(entries) THEN 0 ELSE computeMonthlyIrr(cash, entries)
  BY DEF Costing
<1>2. iof + tac < cash /\ ~isNonAmortizing(entries)
  <2> HIDE DEF entries
  <2> QED BY <1>1 DEF Acceptable
<1>3. P \in Nat \ {0} /\ cash <= P /\ P < 2 * cash
  BY <1>2
<1> HIDE DEF P
<1>4. Amortizes(entries, P, n) /\ TotalInterest(entries) <= MostInterest * P
  BY <1>2, <1>3, ScheduleAmortizes
<1> HIDE DEF entries, n
<1>5. sum(amounts) = TotalAmount(entries)
  BY DEF TotalAmount
<1>6. Pays(entries, n, amounts)
  <2>1. n \in Nat \ {0}
    BY DEF TermsOK, n
  <2>2. Len(entries) = n /\ DOMAIN entries = 1..n
        /\ \A k \in 1..n : entries[k].amount \in Int /\ entries[k].amount > 0
    BY <1>4 DEF Amortizes
  <2>3. amounts = [k \in 1..n |-> entries[k].amount]
    BY <2>2
  <2> HIDE DEF amounts
  <2>4. amounts \in [1..n -> Nat] /\ \A k \in 1..n : entries[k].amount = amounts[k]
    BY <2>2, <2>3
  <2> QED BY <2>1, <2>2, <2>4 DEF Pays
<1>7. sum(amounts) \in Int /\ cash <= sum(amounts) /\ sum(amounts) <= cash * MostGrowth
  <2>1. TotalInterest(entries) \in Nat /\ sum(amounts) = P + TotalInterest(entries)
    BY <1>4, <1>5 DEF Amortizes
  <2> DEFINE s == sum(amounts)
             w == TotalInterest(entries)
  <2>2. w \in Nat /\ s = P + w /\ w <= MostInterest * P
    BY <1>4, <2>1
  <2> HIDE DEF s, w
  <2>3. MostGrowth = 1048577
    BY TwentyDoublings, SMT DEF MostGrowth
  <2>4. MostInterest = 352800
    BY SMT DEF MostInterest
  <2>5. s \in Int /\ cash <= s /\ s <= cash * MostGrowth
    BY <1>3, <2>2, <2>3, <2>4, SMT
  <2> QED BY <2>5 DEF s
<1> HIDE DEF amounts
<1>8. LET rate == computeMonthlyIrr(cash, entries) IN
      /\ rate \in Nat /\ Npv(cash, entries, rate) >= 0 /\ Npv(cash, entries, rate + 1) <= 0
  BY <1>6, <1>7, EffectiveRate
<1>9. c.cet \in Nat /\ Npv(c.cash, c.schedule, c.cet) >= 0 /\ Npv(c.cash, c.schedule, c.cet + 1) <= 0
  BY <1>1, <1>2, <1>8
<1>10. c.cash + c.iof + c.tac = c.financed /\ c.iof + c.tac < c.cash
  BY <1>1, <1>2 DEF P
<1>11. /\ n = Len(c.schedule) /\ TotalPrincipal(c.schedule) = c.financed
       /\ c.schedule[n].balance = 0 /\ c.total = c.financed + c.interest
       /\ \A k \in 1..n : LET e == c.schedule[k] IN
             /\ e.amount \in Int /\ e.amount > 0 /\ e.principal >= 0 /\ e.interest >= 0
             /\ e.balance = (IF k = 1 THEN c.financed ELSE c.schedule[k-1].balance) - e.principal
  BY <1>1, <1>4 DEF Amortizes
<1> QED BY <1>9, <1>10, <1>11 DEF Sound, n

\* The IOF is a number of cents.
LEMMA IofIsCents ==
  ASSUME NEW requested \in Nat, NEW months \in Nat
  PROVE  estimateIofCents(requested, months) \in Nat
<1> DEFINE rate == 3800 + 82 * Lesser(months * 30, 365)
           d == 1000000
<1>1. rate \in Nat /\ d \in Nat \ {0}
  BY SMT DEF Lesser
<1>2. estimateIofCents(requested, months) = roundCents(requested * rate, d)
  BY DEF estimateIofCents
<1> HIDE DEF rate, d
<1> DEFINE a == requested * rate
<1>3. a \in Int /\ a >= 0 * d /\ 0 \in Int
  BY <1>1, ProductSigns
<1> HIDE DEF a
<1>4. roundCents(a, d) \in Int /\ roundCents(a, d) >= 0
  BY <1>1, <1>3, Rounding
<1> QED BY <1>2, <1>4 DEF a

\* Every quote of the server is a loan that its installments repay.
LEMMA QuoteIsSound ==
  ASSUME NEW i \in Inputs, compute[i] # Refused
  PROVE  /\ TermsOK(i) /\ compute[i].iof \in Nat /\ compute[i].tac \in Nat
         /\ Sound(compute[i], i.termMonths)
<1> DEFINE iof == IF i.autoIof THEN estimateIofCents(i.requested, i.termMonths) ELSE 0
           q == compute[i]
<1>1. /\ i.amortization \in AmortizationType
      /\ i.requested \in Nat \ {0} /\ i.termMonths \in Nat \ {0}
      /\ i.rate \in [num : Nat, den : Nat \ {0}] /\ i.tac \in Nat
  BY QuotingAssumption DEF QuotingAssumption
<1>2. q = Costing(i.requested, iof, i.tac, i) /\ Valid(i) /\ Acceptable(q)
  <2> DEFINE quote == Costing(i.requested, iof, i.tac, i)
  <2>1. q = IF Valid(i) /\ Acceptable(quote) /\ quote.interest <= quote.financed * 100
            THEN quote ELSE Refused
    BY DEF compute
  <2> HIDE DEF quote, q
  <2>2. q = quote /\ Valid(i) /\ Acceptable(quote)
    BY <2>1 DEF q
  <2> QED BY <2>2 DEF quote
<1>3. iof \in Nat
  BY <1>1, IofIsCents
<1> HIDE DEF iof, q
<1>4. TermsOK(i)
  BY <1>1, <1>2 DEF TermsOK
<1>5. q.iof = iof /\ q.tac = i.tac
  BY <1>2 DEF Costing
<1>6. Sound(q, i.termMonths)
  BY <1>1, <1>2, <1>3, <1>4, CostingIsSound
<1> QED BY <1>1, <1>3, <1>4, <1>5, <1>6 DEF q

\* Every contract, of part of the amount or all of it, is too.
LEMMA ContractIsSound ==
  ASSUME NEW i \in Inputs, NEW row, RowOf(i, row), NEW approved \in 1..i.requested, NEW cost,
         cost = computeContractCosting(approved, row.terms.requested, row.iof, row.tac, row.terms),
         Acceptable(cost)
  PROVE  Sound(cost, i.termMonths) /\ cost.cash = approved
<1>1. /\ row.terms = i /\ row.iof = compute[i].iof /\ row.tac = compute[i].tac
  BY RowColumns
<1>2. TermsOK(i) /\ row.iof \in Nat /\ row.tac \in Nat
  BY <1>1, QuoteIsSound DEF RowOf
<1> DEFINE iof == IF approved = i.requested THEN row.iof
                  ELSE roundCents(row.iof * approved, i.requested)
<1>3. approved \in Nat \ {0} /\ i.requested \in Nat \ {0}
  BY <1>2 DEF TermsOK
<1>4. iof \in Nat
  <2> DEFINE a == row.iof * approved
             d == i.requested
  <2>1. a \in Int /\ a >= 0 * d /\ 0 \in Int /\ d \in Nat \ {0}
    BY <1>2, <1>3, ProductSigns
  <2>2. iof = IF approved = i.requested THEN row.iof ELSE roundCents(a, d)
    OBVIOUS
  <2> HIDE DEF a, d, iof
  <2>3. roundCents(a, d) \in Int /\ roundCents(a, d) >= 0
    BY <2>1, Rounding
  <2> QED BY <1>2, <2>2, <2>3
<1>5. cost = Costing(approved, iof, row.tac, i)
  BY <1>1 DEF computeContractCosting
<1> HIDE DEF iof
<1>6. Sound(cost, i.termMonths)
  BY <1>2, <1>3, <1>4, <1>5, CostingIsSound
<1>7. cost.cash = approved
  BY <1>5 DEF Costing
<1> QED BY <1>6, <1>7

-----------------------------------------------------------------------------
(* Who was lent what *)

\* An approval is of an amount that was asked for; a rule's, of all of it and within the
\* limit.
Decided(a, row) ==
    /\ {"decision", "approvedAmount"} \subseteq DOMAIN a
    /\ a.decision = "APPROVED" =>
          /\ row # NoProposal /\ a.approvedAmount \in 1..row.terms.requested
          /\ a.automatic => /\ a.approvedAmount = row.terms.requested
                            /\ a.approvedAmount <= a.suggestedLimit

\* A contract is the costing of an amount that was asked for, and was acceptable.
Contracted(c, row) ==
    /\ c # NoContract <=> row.status = "CONTRACTED"
    /\ c # NoContract =>
          \E approved \in 1..row.terms.requested :
             /\ c = computeContractCosting(approved, row.terms.requested,
                                           row.iof, row.tac, row.terms)
             /\ Acceptable(c)

\* A request approves no more than was asked for.
Asked(r, row) ==
    /\ row # NoProposal /\ r.op \in {"analyze", "decide"}
    /\ r.op = "decide" => /\ r.decision \in {"APPROVED", "REJECTED"}
                          /\ r.decision = "APPROVED" => r.amount \in 1..row.terms.requested

CountersOK ==
    /\ customer \in [monthlyIncome : Nat, internalScore : 0..1000, minor : BOOLEAN,
                     status : {"PROSPECT", "ACTIVE", "BLOCKED"}]
    /\ delinquent \in BOOLEAN
    /\ changes \in 0..MaxChanges /\ edits \in 0..MaxEdits

LoanInv ==
    /\ CountersOK
    /\ analysis = [p \in Proposals |-> analysis[p]]
    /\ \A p \in Proposals :
          Decided(analysis[p], proposal[p]) /\ Contracted(contract[p], proposal[p])
    /\ req # Serving => req.p \in Proposals /\ Asked(req, proposal[req.p])

\* A change of status takes nothing from what was decided and asked, nor makes a contract.
LEMMA StatusOnly ==
  ASSUME NEW i, NEW row, RowOf(i, row), NEW status
  PROVE  LET changed == [row EXCEPT !.status = status] IN
         /\ changed # NoProposal /\ changed.status = status /\ changed.terms = row.terms
         /\ changed.iof = row.iof /\ changed.tac = row.tac
         /\ \A a : Decided(a, row) => Decided(a, changed)
         /\ \A r : Asked(r, row) => Asked(r, changed)
         /\ \A c : Contracted(c, row) /\ row.status # "CONTRACTED" /\ status # "CONTRACTED"
                      => Contracted(c, changed)
<1> DEFINE changed == [row EXCEPT !.status = status]
<1>1. RowOf(i, changed)
  BY RowChanges
<1>2. changed.status = status
  <2> DEFINE q == compute[i]
  <2>1. PICK s : row = [Row(i, q) EXCEPT !.status = s]
    BY DEF RowOf
  <2> QED BY <2>1 DEF Row
<1> HIDE DEF changed
<1>3. /\ changed # NoProposal /\ row # NoProposal /\ changed.terms = row.terms
      /\ changed.iof = row.iof /\ changed.tac = row.tac
  BY <1>1, RowColumns
<1>4. \A a : Decided(a, row) => Decided(a, changed)
  BY <1>3 DEF Decided
<1>5. \A r : Asked(r, row) => Asked(r, changed)
  BY <1>3 DEF Asked
<1>6. \A c : Contracted(c, row) /\ row.status # "CONTRACTED" /\ status # "CONTRACTED"
                => Contracted(c, changed)
  BY <1>2 DEF Contracted
<1> QED BY <1>2, <1>3, <1>4, <1>5, <1>6 DEF changed

\* What is decided of and asked about proposals that are left as they are.
LEMMA LoansStill ==
  ASSUME LoanInv, CountersOK', UNCHANGED <<proposal, analysis, contract, req>>
  PROVE  LoanInv'
BY DEF LoanInv, Decided, Contracted, Asked

\* Nothing is lent at first.
LEMMA InitialLoans ==
  ASSUME QuotingInit
  PROVE  LoanInv
<1>1. CountersOK
  <2>1. /\ Incomes \subseteq Nat /\ Scores \subseteq 0..1000
        /\ MaxChanges \in Nat /\ MaxEdits \in Nat
    BY QuotingAssumption DEF QuotingAssumption
  <2>2. customer \in NewCustomers /\ delinquent = FALSE /\ changes = 0 /\ edits = 0
    BY DEF QuotingInit
  <2> DEFINE Rows == [monthlyIncome : Nat, internalScore : 0..1000, minor : BOOLEAN,
                      status : {"PROSPECT", "ACTIVE", "BLOCKED"}]
             x == customer.monthlyIncome
             y == customer.internalScore
             m == customer.minor
             s == customer.status
  <2>3. /\ x \in Incomes /\ y \in Scores /\ m \in BOOLEAN /\ s = "PROSPECT"
        /\ customer = [monthlyIncome |-> x, internalScore |-> y, minor |-> m, status |-> s]
    BY <2>2 DEF NewCustomers
  <2> HIDE DEF x, y, m, s
  <2>4. x \in Nat /\ y \in 0..1000
    BY <2>1, <2>3
  <2>5. customer \in Rows
    BY <2>3, <2>4
  <2>6. delinquent \in BOOLEAN
    BY <2>2
  <2>7. changes \in 0..MaxChanges /\ edits \in 0..MaxEdits
    BY <2>1, <2>2
  <2> HIDE DEF Rows
  <2> QED BY <2>5, <2>6, <2>7 DEF CountersOK, Rows
<1>2. ASSUME NEW p \in Proposals
      PROVE  Decided(analysis[p], proposal[p]) /\ Contracted(contract[p], proposal[p])
  BY DEF QuotingInit, NoAnalysis, NoProposal, Decided, Contracted
<1> QED BY <1>1, <1>2 DEF QuotingInit, LoanInv

\* The customer and the counters, whoever writes them.
LEMMA CountersStay ==
  ASSUME LoanInv, [QuotingNext]_quotingVars
  PROVE  CountersOK'
<1> DEFINE Rows == [monthlyIncome : Nat, internalScore : 0..1000, minor : BOOLEAN,
                    status : {"PROSPECT", "ACTIVE", "BLOCKED"}]
<1>1. /\ customer \in Rows /\ delinquent \in BOOLEAN
      /\ changes \in 0..MaxChanges /\ edits \in 0..MaxEdits
  BY DEF LoanInv, CountersOK
<1>2. /\ Incomes \subseteq Nat /\ Scores \subseteq 0..1000
      /\ MaxChanges \in Nat /\ MaxEdits \in Nat
  BY QuotingAssumption DEF QuotingAssumption
<1>3. ASSUME NEW row, Change(row), row \in Rows PROVE CountersOK'
  <2>1. customer' = row /\ edits' = edits + 1 /\ edits < MaxEdits
        /\ UNCHANGED <<changes, delinquent>>
    BY <1>3 DEF Change
  <2> QED BY <1>1, <1>2, <1>3, <2>1 DEF CountersOK
<1>4. ASSUME NEW i \in Inputs, edit(i) PROVE CountersOK'
  <2>1. changes' = changes + 1 /\ changes < MaxChanges /\ UNCHANGED <<customer, delinquent, edits>>
    BY <1>4 DEF edit, Server
  <2> QED BY <1>1, <1>2, <2>1 DEF CountersOK
<1>5. CASE arrearsChange
  <2>1. /\ delinquent' = ~delinquent /\ edits' = edits + 1 /\ edits < MaxEdits
        /\ UNCHANGED <<customer, changes>>
    BY <1>5 DEF arrearsChange
  <2>2. (~delinquent) \in BOOLEAN
    BY <1>1
  <2> QED BY <1>1, <1>2, <2>1, <2>2 DEF CountersOK
<1>6. ASSUME NEW p \in Proposals, createFromProposal(p) PROVE CountersOK'
  <2> DEFINE s == IF customer.status = "PROSPECT" THEN "ACTIVE" ELSE customer.status
  <2>1. /\ customer' = [customer EXCEPT !.status = s]
        /\ UNCHANGED <<changes, delinquent, edits>>
    BY <1>6 DEF createFromProposal
  <2>2. s \in {"PROSPECT", "ACTIVE", "BLOCKED"}
    BY <1>1
  <2> HIDE DEF s
  <2>3. customer' \in Rows
    BY <1>1, <2>1, <2>2
  <2> QED BY <1>1, <2>1, <2>3 DEF CountersOK
<1>7. ASSUME NEW income \in Incomes, update(income) PROVE CountersOK'
  <2>1. [customer EXCEPT !.monthlyIncome = income] \in Rows
    BY <1>1, <1>2
  <2> HIDE DEF Rows
  <2> QED BY <1>3, <1>7, <2>1 DEF update
<1>8. ASSUME NEW score \in Scores, updateScore(score) PROVE CountersOK'
  <2>1. [customer EXCEPT !.internalScore = score] \in Rows
    BY <1>1, <1>2
  <2> HIDE DEF Rows
  <2> QED BY <1>3, <1>8, <2>1 DEF updateScore
<1>9. ASSUME NEW status \in {"ACTIVE", "BLOCKED"}, updateStatus(status) PROVE CountersOK'
  <2>1. [customer EXCEPT !.status = status] \in Rows
    BY <1>1
  <2> HIDE DEF Rows
  <2> QED BY <1>3, <1>9, <2>1 DEF updateStatus
<1>10. ASSUME UNCHANGED <<customer, delinquent, changes, edits>> PROVE CountersOK'
  BY <1>1, <1>10 DEF CountersOK
<1>11. CASE \/ \E i \in Inputs : answer(i) \/ noAnswer(i)
            \/ debounce \/ ask \/ handleCreate \/ createFails
            \/ \E p \in Proposals : \/ create(p) \/ submit(p) \/ cancel(p) \/ analyze(p)
                                    \/ \E amount \in Approvals : decide(p, "APPROVED", amount)
                                    \/ decide(p, "REJECTED", 0)
            \/ analyzeCommits \/ decideCommits \/ analysisFails \/ UNCHANGED quotingVars
  <2> DEFINE Still == UNCHANGED <<customer, delinquent, changes, edits>>
  <2> SUFFICES Still
    BY <1>10
  <2>1. ASSUME \/ \E i \in Inputs : answer(i) \/ noAnswer(i)
               \/ debounce \/ ask \/ handleCreate \/ createFails
        PROVE  Still
    <3>1. ASSUME NEW i \in Inputs, answer(i) \/ noAnswer(i) PROVE UNCHANGED Server /\ UNCHANGED changes
      BY ONLY <3>1 DEF answer, noAnswer
    <3>2. ASSUME debounce \/ ask \/ handleCreate \/ createFails
          PROVE  UNCHANGED Server /\ UNCHANGED changes
      BY <3>2 DEF debounce, ask, handleCreate, createFails
    <3> QED BY <2>1, <3>1, <3>2 DEF Server
  <2>2. ASSUME NEW p \in Proposals, create(p) PROVE Still
    BY <2>2 DEF create, Decision
  <2>3. ASSUME NEW p \in Proposals, submit(p) \/ cancel(p) PROVE Still
    BY <2>3 DEF submit, cancel
  <2>4. ASSUME NEW p \in Proposals, NEW op, NEW decision, NEW amount, read(p, op, decision, amount)
        PROVE  Still
    BY <2>4 DEF read
  <2>5. ASSUME NEW outcome, NEW automatic, record(outcome, automatic) PROVE Still
    BY <2>5 DEF record
  <2>6. CASE analysisFails \/ UNCHANGED quotingVars
    BY <2>6 DEF analysisFails, quotingVars
  <2>7. CASE analyzeCommits \/ decideCommits
    <3> HIDE DEF Still
    <3> QED BY <2>5, <2>7 DEF analyzeCommits, decideCommits
  <2>8. ASSUME NEW p \in Proposals,
               \/ analyze(p) \/ decide(p, "REJECTED", 0)
               \/ \E amount \in Approvals : decide(p, "APPROVED", amount)
        PROVE  Still
    <3> HIDE DEF Still
    <3> QED BY <2>4, <2>8 DEF analyze, decide
  <2> HIDE DEF Still
  <2> QED BY <1>11, <2>1, <2>2, <2>3, <2>6, <2>7, <2>8
<1> QED BY <1>4, <1>5, <1>6, <1>7, <1>8, <1>9, <1>11 DEF QuotingNext

\* The invariant after a step, from what is said of the new rows.
LEMMA LoansAfter ==
  ASSUME CountersOK', (analysis = [p \in Proposals |-> analysis[p]])',
         \A p \in Proposals : Decided(analysis'[p], proposal'[p]) /\ Contracted(contract'[p], proposal'[p]),
         req' # Serving => req'.p \in Proposals /\ Asked(req', proposal'[req'.p])
  PROVE  LoanInv'
<1>1. \A p \in Proposals : (Decided(analysis[p], proposal[p]) /\ Contracted(contract[p], proposal[p]))'
  BY DEF Decided, Contracted
<1>2. (req # Serving => req.p \in Proposals /\ Asked(req, proposal[req.p]))'
  BY DEF Asked, Serving
<1> QED BY <1>1, <1>2 DEF LoanInv

\* A proposal that is created has no decision, contract or request of its own.
LEMMA CreateLoans ==
  ASSUME QuoteInv, LoanInv, CountersOK', NEW p \in Proposals, create(p)
  PROVE  LoanInv'
<1>1. /\ proposal[p] = NoProposal
      /\ proposal' = [proposal EXCEPT ![p] = Row(page.sending, compute[page.sending])]
      /\ UNCHANGED <<analysis, contract, req>>
  BY DEF create, Decision
<1> DEFINE row == Row(page.sending, compute[page.sending])
<1>2. row.status = "DRAFT"
  BY DEF Row
<1> HIDE DEF row
<1>3. proposal'[p] = row /\ \A q \in Proposals \ {p} : proposal'[q] = proposal[q]
  BY <1>1 DEF QuoteInv, row
<1>4. /\ analysis[p].decision # "APPROVED" /\ contract[p] = NoContract
      /\ {"decision", "approvedAmount"} \subseteq DOMAIN analysis[p]
  BY <1>1 DEF LoanInv, Decided, Contracted, NoProposal
<1>5. \A q \in Proposals : Decided(analysis'[q], proposal'[q]) /\ Contracted(contract'[q], proposal'[q])
  <2> SUFFICES ASSUME NEW q \in Proposals
               PROVE  Decided(analysis'[q], proposal'[q]) /\ Contracted(contract'[q], proposal'[q])
    OBVIOUS
  <2>1. CASE q = p
    <3>1. Decided(analysis'[p], row)
      BY <1>1, <1>4 DEF Decided
    <3>2. Contracted(contract'[p], row)
      BY <1>1, <1>2, <1>4 DEF Contracted
    <3> QED BY <1>3, <2>1, <3>1, <3>2
  <2>2. CASE q # p
    BY <1>1, <1>3, <2>2 DEF LoanInv
  <2> QED BY <2>1, <2>2
<1>6. req' # Serving => req'.p \in Proposals /\ Asked(req', proposal'[req'.p])
  <2> SUFFICES ASSUME req' # Serving PROVE req'.p \in Proposals /\ Asked(req', proposal'[req'.p])
    OBVIOUS
  <2>1. req.p \in Proposals /\ Asked(req, proposal[req.p])
    BY <1>1 DEF LoanInv
  <2>2. req.p # p
    BY <1>1, <2>1 DEF Asked
  <2> QED BY <1>1, <1>3, <2>1, <2>2
<1>7. (analysis = [q \in Proposals |-> analysis[q]])'
  BY <1>1 DEF LoanInv
<1> QED BY <1>1, <1>5, <1>6, <1>7, LoansAfter

\* A status that changes, but for that of a contract, changes nothing else.
LEMMA StatusLoans ==
  ASSUME QuoteInv, LoanInv, CountersOK', NEW p \in Proposals, NEW from, NEW to,
         changeStatus(p, from, to), "NONE" \notin from, "CONTRACTED" \notin from,
         to # "CONTRACTED", UNCHANGED <<analysis, contract, req>>
  PROVE  LoanInv'
<1> DEFINE row == proposal[p]
           changed == [row EXCEPT !.status = to]
<1>1. row.status \in from /\ proposal' = [proposal EXCEPT ![p].status = to]
  BY DEF changeStatus
<1>2. Exists(p)
  BY <1>1 DEF Exists, NoProposal
<1>3. PICK i \in Inputs : RowOf(i, row)
  BY <1>2 DEF QuoteInv
<1>4. proposal'[p] = changed /\ \A q \in Proposals \ {p} : proposal'[q] = proposal[q]
  BY <1>1 DEF QuoteInv
<1> HIDE DEF row
<1>5. /\ \A a : Decided(a, row) => Decided(a, changed)
      /\ \A r : Asked(r, row) => Asked(r, changed)
      /\ \A c : Contracted(c, row) => Contracted(c, changed)
  BY <1>1, <1>3, StatusOnly
<1> HIDE DEF changed
<1>6. ASSUME NEW q \in Proposals
      PROVE  Decided(analysis'[q], proposal'[q]) /\ Contracted(contract'[q], proposal'[q])
  <2>1. Decided(analysis[q], proposal[q]) /\ Contracted(contract[q], proposal[q])
    BY DEF LoanInv
  <2>2. CASE q = p
    BY <1>4, <1>5, <2>1, <2>2 DEF row
  <2>3. CASE q # p
    BY <1>4, <2>1, <2>3
  <2> QED BY <2>2, <2>3
<1>7. req' # Serving => req'.p \in Proposals /\ Asked(req', proposal'[req'.p])
  <2> SUFFICES ASSUME req # Serving PROVE req.p \in Proposals /\ Asked(req, proposal'[req.p])
    OBVIOUS
  <2>1. req.p \in Proposals /\ Asked(req, proposal[req.p])
    BY DEF LoanInv
  <2>2. CASE req.p = p
    BY <1>4, <1>5, <2>1, <2>2 DEF row
  <2>3. CASE req.p # p
    BY <1>4, <2>1, <2>3
  <2> QED BY <2>2, <2>3
<1>8. (analysis = [q \in Proposals |-> analysis[q]])'
  BY DEF LoanInv
<1> QED BY <1>6, <1>7, <1>8, LoansAfter

\* A request is about a proposal under review, and approves no more than was asked for.
LEMMA ReadLoans ==
  ASSUME LoanInv, CountersOK', NEW p \in Proposals, NEW op, NEW decision, NEW amount,
         read(p, op, decision, amount), op \in {"analyze", "decide"},
         op = "decide" => /\ decision \in {"APPROVED", "REJECTED"}
                          /\ decision = "APPROVED" => amount \in 1..proposal[p].terms.requested
  PROVE  LoanInv'
<1>1. /\ proposal[p].status = "UNDER_REVIEW" /\ UNCHANGED <<proposal, analysis, contract>>
      /\ req' = [op |-> op, p |-> p, customer |-> customer, decision |-> decision,
                 amount |-> amount]
  BY DEF read
<1>2. proposal[p] # NoProposal
  BY <1>1 DEF NoProposal
<1>3. req'.p = p /\ Asked(req', proposal'[p])
  BY <1>1, <1>2 DEF Asked
<1>4. \A q \in Proposals : Decided(analysis'[q], proposal'[q]) /\ Contracted(contract'[q], proposal'[q])
  BY <1>1 DEF LoanInv
<1>5. (analysis = [q \in Proposals |-> analysis[q]])'
  BY <1>1 DEF LoanInv
<1> QED BY <1>3, <1>4, <1>5, LoansAfter

\* An outcome that may be recorded for a row.
Recordable(outcome, automatic, row) ==
    /\ outcome.decision \in {"APPROVED", "REJECTED", "MANUAL_REVIEW"}
    /\ outcome.decision = "APPROVED" =>
          /\ outcome.approvedAmount \in 1..row.terms.requested
          /\ automatic => /\ outcome.approvedAmount = row.terms.requested
                          /\ outcome.approvedAmount <= outcome.suggestedLimit

\* What is recorded is within what was asked for, by a rule and by an analyst.
LEMMA RecordLoans ==
  ASSUME QuoteInv, LoanInv, CountersOK', req # Serving,
         proposal[req.p].status = "UNDER_REVIEW", NEW outcome, NEW automatic,
         Recordable(outcome, automatic, proposal[req.p]), record(outcome, automatic)
  PROVE  LoanInv'
<1> DEFINE p == req.p
           row == proposal[p]
           a == [decision |-> outcome.decision, score |-> outcome.score,
                 riskBand |-> outcome.riskBand, suggestedLimit |-> outcome.suggestedLimit,
                 approvedAmount |-> outcome.approvedAmount, automatic |-> automatic]
           changed == [row EXCEPT !.status = outcome.decision]
<1>1. p \in Proposals /\ row # NoProposal
  BY DEF LoanInv, Asked
<1>2. PICK i \in Inputs : RowOf(i, row)
  BY <1>1 DEF QuoteInv, Exists
<1>3. /\ analysis' = [analysis EXCEPT ![p] = a] /\ req' = Serving /\ contract' = contract
      /\ IF outcome.decision = "MANUAL_REVIEW" THEN proposal' = proposal
         ELSE proposal' = [proposal EXCEPT ![p].status = outcome.decision]
  BY DEF record, changeStatus
<1>4. Decided(a, row) /\ outcome.decision # "CONTRACTED"
  BY <1>1 DEF Decided, Recordable
<1>5. analysis'[p] = a /\ (\A q \in Proposals \ {p} : analysis'[q] = analysis[q])
      /\ analysis' = [q \in Proposals |-> analysis'[q]]
  <2> HIDE DEF a
  <2> QED BY <1>1, <1>3 DEF LoanInv
<1>6. /\ proposal'[p] \in {row, changed}
      /\ outcome.decision = "MANUAL_REVIEW" => proposal'[p] = row
      /\ \A q \in Proposals \ {p} : proposal'[q] = proposal[q]
  BY <1>1, <1>3 DEF QuoteInv
<1>7. row.status = "UNDER_REVIEW"
  OBVIOUS
<1> HIDE DEF p, row, a
<1>8. /\ Decided(a, changed)
      /\ outcome.decision # "MANUAL_REVIEW" =>
            \A c : Contracted(c, row) => Contracted(c, changed)
  BY <1>2, <1>4, <1>7, StatusOnly
<1> HIDE DEF changed
<1>9. ASSUME NEW q \in Proposals
      PROVE  Decided(analysis'[q], proposal'[q]) /\ Contracted(contract'[q], proposal'[q])
  <2>1. Decided(analysis[q], proposal[q]) /\ Contracted(contract[q], proposal[q])
    BY DEF LoanInv
  <2>2. CASE q = p
    <3>1. Contracted(contract[p], row)
      BY <2>1, <2>2 DEF row
    <3>2. Decided(analysis'[p], proposal'[p])
      BY <1>4, <1>5, <1>6, <1>8
    <3>3. Contracted(contract[p], proposal'[p])
      BY <1>6, <1>8, <3>1
    <3> QED BY <1>3, <2>2, <3>2, <3>3
  <2>3. CASE q # p
    BY <1>3, <1>5, <1>6, <2>1, <2>3
  <2> QED BY <2>2, <2>3
<1>10. req' = Serving
  BY <1>3
<1>11. (analysis = [q \in Proposals |-> analysis[q]])'
  BY <1>5
<1> QED BY <1>9, <1>10, <1>11, LoansAfter

\* The rules approve all that was asked for, within the limit.
LEMMA RulesDecide ==
  ASSUME NEW c, NEW requested \in Nat \ {0}, NEW installment, NEW d
  PROVE  LET outcome == evaluateCredit(c, requested, installment, d) IN
         /\ outcome.decision \in {"APPROVED", "REJECTED", "MANUAL_REVIEW"}
         /\ outcome.decision = "APPROVED" =>
               /\ outcome.approvedAmount = requested
               /\ outcome.approvedAmount <= outcome.suggestedLimit
<1> DEFINE score == AdjustedScore(c, installment, d)
           limit == SuggestedLimit(c.monthlyIncome, bandForScore(score))
           outcome == evaluateCredit(c, requested, installment, d)
<1>1. /\ outcome.decision =
            IF d \/ score < 420 \/ ~CommitsAtMost(installment, c.monthlyIncome, 45)
            THEN "REJECTED"
            ELSE IF score >= 680 /\ CommitsAtMost(installment, c.monthlyIncome, 30)
                    /\ requested <= limit
            THEN "APPROVED" ELSE "MANUAL_REVIEW"
      /\ outcome.suggestedLimit = limit
      /\ outcome.approvedAmount = IF outcome.decision = "APPROVED" THEN requested ELSE 0
  BY DEF evaluateCredit, minScoreApprove, minScoreReject
<1> HIDE DEF score, limit, outcome
<1>2. /\ outcome.decision \in {"APPROVED", "REJECTED", "MANUAL_REVIEW"}
      /\ outcome.decision = "APPROVED" =>
            /\ outcome.approvedAmount = requested
            /\ outcome.approvedAmount <= outcome.suggestedLimit
  BY <1>1
<1> QED BY <1>2 DEF outcome

\* An analysis records what the rules decide.
LEMMA AnalyzeLoans ==
  ASSUME QuoteInv, LoanInv, CountersOK', analyzeCommits
  PROVE  LoanInv'
<1> DEFINE row == proposal[req.p]
           outcome == Evaluated(delinquent)
<1>1. req.op = "analyze" /\ row.status = "UNDER_REVIEW" /\ record(outcome, TRUE)
  BY DEF analyzeCommits
<1>2. req # Serving
  BY <1>1 DEF Serving
<1>3. req.p \in Proposals /\ row # NoProposal
  BY <1>2 DEF LoanInv, Asked
<1>4. row.terms.requested \in Nat \ {0}
  <2>1. PICK i \in Inputs : RowOf(i, row)
    BY <1>3 DEF QuoteInv, Exists
  <2>2. row.terms = i
    BY <2>1, RowColumns
  <2> QED BY <2>2, QuotingAssumption DEF QuotingAssumption
<1>5. outcome = evaluateCredit(req.customer, row.terms.requested, row.installment, delinquent)
  BY DEF Evaluated
<1> HIDE DEF outcome
<1>6. /\ outcome.decision \in {"APPROVED", "REJECTED", "MANUAL_REVIEW"}
      /\ outcome.decision = "APPROVED" =>
            /\ outcome.approvedAmount = row.terms.requested
            /\ outcome.approvedAmount <= outcome.suggestedLimit
  BY <1>4, <1>5, RulesDecide
<1>7. row.terms.requested \in 1..row.terms.requested
  BY <1>4
<1>8. PICK o : o = outcome
  OBVIOUS
<1>9. Recordable(o, TRUE, row) /\ record(o, TRUE)
  BY <1>1, <1>6, <1>7, <1>8 DEF Recordable
<1> QED BY <1>1, <1>2, <1>9, RecordLoans

\* An analyst decides within what was asked for.
LEMMA DecideLoans ==
  ASSUME QuoteInv, LoanInv, CountersOK', decideCommits
  PROVE  LoanInv'
<1> DEFINE row == proposal[req.p]
           kept == IF analysis[req.p] = NoAnalysis THEN Evaluated(FALSE) ELSE analysis[req.p]
           outcome == [kept EXCEPT !.decision = req.decision, !.approvedAmount = req.amount]
<1>1. req.op = "decide" /\ row.status = "UNDER_REVIEW" /\ record(outcome, FALSE)
  BY DEF decideCommits
<1>2. req # Serving
  BY <1>1 DEF Serving
<1>3. /\ req.decision \in {"APPROVED", "REJECTED"}
      /\ req.decision = "APPROVED" => req.amount \in 1..row.terms.requested
  BY <1>1, <1>2 DEF LoanInv, Asked
<1>4. "decision" \in DOMAIN kept /\ "approvedAmount" \in DOMAIN kept
  <2>1. CASE analysis[req.p] = NoAnalysis
    BY <2>1 DEF Evaluated, evaluateCredit
  <2>2. CASE analysis[req.p] # NoAnalysis
    BY <1>2, <2>2 DEF LoanInv, Decided
  <2> QED BY <2>1, <2>2
<1> HIDE DEF kept
<1>5. outcome.decision = req.decision /\ outcome.approvedAmount = req.amount
  BY <1>4
<1> HIDE DEF outcome
<1>6. PICK o : o = outcome
  OBVIOUS
<1>7. Recordable(o, FALSE, row) /\ record(o, FALSE)
  BY <1>1, <1>3, <1>5, <1>6 DEF Recordable
<1> QED BY <1>1, <1>2, <1>7, RecordLoans

\* A contract is made of the amount that was approved, if its schedule amortizes.
LEMMA ContractLoans ==
  ASSUME QuoteInv, LoanInv, CountersOK', NEW p \in Proposals, createFromProposal(p)
  PROVE  LoanInv'
<1> DEFINE row == proposal[p]
           approved == analysis[p].approvedAmount
           cost == computeContractCosting(approved, row.terms.requested,
                                          row.iof, row.tac, row.terms)
           changed == [row EXCEPT !.status = "CONTRACTED"]
<1>1. /\ row.status = "APPROVED" /\ analysis[p].decision = "APPROVED" /\ Acceptable(cost)
      /\ proposal' = [proposal EXCEPT ![p].status = "CONTRACTED"]
      /\ contract' = [contract EXCEPT ![p] = cost]
      /\ UNCHANGED <<analysis, req>>
  BY DEF createFromProposal, changeStatus
<1>2. row # NoProposal /\ approved \in 1..row.terms.requested
  BY <1>1 DEF LoanInv, Decided
<1>3. PICK i \in Inputs : RowOf(i, row)
  BY <1>2 DEF QuoteInv, Exists
<1>4. /\ proposal'[p] = changed /\ contract'[p] = cost
      /\ \A q \in Proposals \ {p} : proposal'[q] = proposal[q] /\ contract'[q] = contract[q]
  <2> HIDE DEF cost
  <2> QED BY <1>1 DEF QuoteInv
<1>5. cost # NoContract
  <2>1. cost.cash = approved
    BY DEF computeContractCosting, Costing
  <2>2. NoContract.cash = -1
    BY DEF NoContract, NoQuote
  <2> HIDE DEF cost, approved
  <2> QED BY <1>2, <2>1, <2>2
<1> HIDE DEF row, approved
<1>6. /\ changed.status = "CONTRACTED" /\ changed.terms = row.terms
      /\ changed.iof = row.iof /\ changed.tac = row.tac
      /\ \A a : Decided(a, row) => Decided(a, changed)
      /\ \A r : Asked(r, row) => Asked(r, changed)
  BY <1>3, StatusOnly
<1> HIDE DEF changed
<1>7. Contracted(cost, changed)
  <2>1. cost = computeContractCosting(approved, changed.terms.requested,
                                      changed.iof, changed.tac, changed.terms)
    BY <1>6
  <2>2. approved \in 1..changed.terms.requested
    BY <1>2, <1>6
  <2> HIDE DEF cost
  <2> QED BY <1>1, <1>5, <1>6, <2>1, <2>2 DEF Contracted
<1> HIDE DEF cost
<1>8. ASSUME NEW q \in Proposals
      PROVE  Decided(analysis'[q], proposal'[q]) /\ Contracted(contract'[q], proposal'[q])
  <2>1. Decided(analysis[q], proposal[q]) /\ Contracted(contract[q], proposal[q])
    BY DEF LoanInv
  <2>2. CASE q = p
    BY <1>1, <1>4, <1>6, <1>7, <2>1, <2>2 DEF row
  <2>3. CASE q # p
    BY <1>1, <1>4, <2>1, <2>3
  <2> QED BY <2>2, <2>3
<1>9. req' # Serving => req'.p \in Proposals /\ Asked(req', proposal'[req'.p])
  <2> SUFFICES ASSUME req # Serving PROVE req.p \in Proposals /\ Asked(req, proposal'[req.p])
    BY <1>1
  <2>1. req.p \in Proposals /\ Asked(req, proposal[req.p])
    BY DEF LoanInv
  <2>2. CASE req.p = p
    BY <1>4, <1>6, <2>1, <2>2 DEF row
  <2>3. CASE req.p # p
    BY <1>4, <2>1, <2>3
  <2> QED BY <2>2, <2>3
<1>10. (analysis = [q \in Proposals |-> analysis[q]])'
  BY <1>1 DEF LoanInv
<1> QED BY <1>8, <1>9, <1>10, LoansAfter

\* Whatever is decided, edited and lost, in whatever order: approvals are within what was
\* asked for, and the contract of a proposal is an acceptable costing of such an amount.
THEOREM LoanInvariant == QuotingSpec => []LoanInv
<1>1. QuotingInit => LoanInv
  BY InitialLoans
<1>2. QuoteInv /\ LoanInv /\ [QuotingNext]_quotingVars => LoanInv'
  <2> SUFFICES ASSUME QuoteInv, LoanInv, [QuotingNext]_quotingVars PROVE LoanInv'
    OBVIOUS
  <2>1. CountersOK'
    BY CountersStay
  <2>2. CASE \/ \E i \in Inputs : edit(i) \/ answer(i) \/ noAnswer(i)
             \/ debounce \/ ask \/ handleCreate \/ createFails
             \/ \E income \in Incomes : update(income)
             \/ \E score \in Scores : updateScore(score)
             \/ \E status \in {"ACTIVE", "BLOCKED"} : updateStatus(status)
             \/ arrearsChange \/ UNCHANGED quotingVars
    <3> DEFINE Still == UNCHANGED <<proposal, analysis, contract, req>>
    <3>1. ASSUME NEW i \in Inputs, edit(i) \/ answer(i) \/ noAnswer(i) PROVE Still
      <4>1. UNCHANGED Server
        BY ONLY <3>1 DEF edit, answer, noAnswer
      <4> QED BY <4>1 DEF Server
    <3>2. ASSUME debounce \/ ask \/ handleCreate \/ createFails PROVE Still
      BY <3>2 DEF debounce, ask, handleCreate, createFails, Server
    <3>3. ASSUME NEW row, Change(row) PROVE Still
      BY <3>3 DEF Change
    <3>4. ASSUME arrearsChange \/ UNCHANGED quotingVars PROVE Still
      BY <3>4 DEF arrearsChange, quotingVars
    <3> HIDE DEF Still
    <3>5. Still
      BY <2>2, <3>1, <3>2, <3>3, <3>4 DEF update, updateScore, updateStatus
    <3> QED BY <2>1, <3>5, LoansStill DEF Still
  <2>3. ASSUME NEW p \in Proposals, create(p) PROVE LoanInv'
    BY <2>1, <2>3, CreateLoans
  <2>4. ASSUME NEW p \in Proposals, submit(p) \/ cancel(p) PROVE LoanInv'
    <3>1. CASE submit(p)
      <4>1. changeStatus(p, {"DRAFT"}, "UNDER_REVIEW") /\ UNCHANGED <<analysis, contract, req>>
        BY <3>1 DEF submit
      <4> QED BY <2>1, <4>1, StatusLoans
    <3>2. CASE cancel(p)
      <4>1. changeStatus(p, {"DRAFT", "UNDER_REVIEW", "APPROVED"}, "CANCELLED")
            /\ UNCHANGED <<analysis, contract, req>>
        BY <3>2 DEF cancel
      <4> QED BY <2>1, <4>1, StatusLoans
    <3> QED BY <2>4, <3>1, <3>2
  <2>5. ASSUME NEW p \in Proposals, analyze(p) PROVE LoanInv'
    BY <2>1, <2>5, ReadLoans DEF analyze
  <2>6. ASSUME NEW p \in Proposals, NEW amount, NEW decision \in {"APPROVED", "REJECTED"},
               decide(p, decision, amount)
        PROVE  LoanInv'
    <3>1. read(p, "decide", decision, amount)
          /\ (decision = "APPROVED" => amount \in 1..proposal[p].terms.requested)
      BY <2>6 DEF decide
    <3> QED BY <2>1, <2>6, <3>1, ReadLoans
  <2>7. ASSUME NEW p \in Proposals, createFromProposal(p) PROVE LoanInv'
    BY <2>1, <2>7, ContractLoans
  <2>8. CASE analyzeCommits
    BY <2>1, <2>8, AnalyzeLoans
  <2>9. CASE decideCommits
    BY <2>1, <2>9, DecideLoans
  <2>10. CASE analysisFails
    <3>1. req' = Serving /\ UNCHANGED <<proposal, analysis, contract>>
      BY <2>10 DEF analysisFails
    <3>2. \A q \in Proposals :
             Decided(analysis'[q], proposal'[q]) /\ Contracted(contract'[q], proposal'[q])
      BY <3>1 DEF LoanInv
    <3>3. (analysis = [q \in Proposals |-> analysis[q]])'
      BY <3>1 DEF LoanInv
    <3> QED BY <2>1, <3>1, <3>2, <3>3, LoansAfter
  <2> QED BY <2>2, <2>3, <2>4, <2>5, <2>6, <2>7, <2>8, <2>9, <2>10 DEF QuotingNext
<1> QED BY <1>1, <1>2, QuoteInvariant, PTL DEF QuotingSpec

\* Every contract is repaid by its installments, at the effective rate it states, whatever
\* the loan, the amount approved of it and the way it came to be approved.
THEOREM EveryLoanAmortizes == QuotingSpec => []LoansAmortize
<1>1. QuoteInv /\ LoanInv => LoansAmortize
  <2> SUFFICES ASSUME QuoteInv, LoanInv, NEW p \in Proposals, contract[p] # NoContract
               PROVE  /\ Sound(contract[p], Len(contract[p].schedule))
                      /\ Len(contract[p].schedule) = proposal[p].terms.termMonths
    <3>1. ASSUME NEW p \in Proposals,
                 Sound(contract[p], Len(contract[p].schedule)),
                 Len(contract[p].schedule) = proposal[p].terms.termMonths
          PROVE  LET c == contract[p]
                     n == Len(c.schedule)
                 IN /\ c.cash + c.iof + c.tac = c.financed /\ c.iof + c.tac < c.cash
                    /\ n = proposal[p].terms.termMonths
                    /\ TotalPrincipal(c.schedule) = c.financed /\ c.schedule[n].balance = 0
                    /\ c.total = c.financed + c.interest
                    /\ \A k \in 1..n : LET e == c.schedule[k] IN
                          /\ e.amount > 0 /\ e.principal >= 0 /\ e.interest >= 0
                          /\ e.balance = (IF k = 1 THEN c.financed
                                          ELSE c.schedule[k-1].balance) - e.principal
                    /\ Npv(c.cash, c.schedule, c.cet) >= 0
                    /\ Npv(c.cash, c.schedule, c.cet + 1) <= 0
      BY <3>1 DEF Sound
    <3> QED BY <3>1 DEF LoansAmortize
  <2>1. Exists(p)
    BY DEF QuoteInv
  <2>2. PICK i \in Inputs : RowOf(i, proposal[p])
    BY <2>1 DEF QuoteInv
  <2>3. PICK approved \in 1..proposal[p].terms.requested :
           /\ contract[p] = computeContractCosting(approved, proposal[p].terms.requested,
                                 proposal[p].iof, proposal[p].tac, proposal[p].terms)
           /\ Acceptable(contract[p])
    BY DEF LoanInv, Contracted
  <2>4. proposal[p].terms = i
    BY <2>2, RowColumns
  <2>5. Sound(contract[p], i.termMonths)
    BY <2>2, <2>3, <2>4, ContractIsSound
  <2> QED BY <2>4, <2>5 DEF Sound
<1> QED BY <1>1, QuoteInvariant, LoanInvariant, PTL

\* Types, a contract for each contracted proposal, and rules that approve all that was
\* asked for within the limit they suggest.
THEOREM QuotingTypeCorrect == QuotingSpec => []QuotingTypeOK
<1>1. QuoteInv /\ LoanInv => QuotingTypeOK
  <2> SUFFICES ASSUME QuoteInv, LoanInv PROVE QuotingTypeOK
    OBVIOUS
  <2>1. /\ page.form \in Inputs /\ page.settled \in Inputs /\ page.sending \in Inputs \cup {None}
        /\ page.tries \in [Inputs -> 0..2]
    BY DEF QuoteInv, PageOK
  <2>2. /\ customer \in [monthlyIncome : Nat, internalScore : 0..1000, minor : BOOLEAN,
                         status : {"PROSPECT", "ACTIVE", "BLOCKED"}]
        /\ delinquent \in BOOLEAN
        /\ changes \in 0..MaxChanges /\ edits \in 0..MaxEdits
    BY DEF LoanInv, CountersOK
  <2>3. ASSUME NEW p \in Proposals, Exists(p)
        PROVE  proposal[p].terms \in Inputs /\ proposal[p].installment \in Nat
    <3>1. PICK i \in Inputs : RowOf(i, proposal[p])
      BY <2>3 DEF QuoteInv
    <3>2. proposal[p].terms = i /\ proposal[p].installment = compute[i].schedule[1].amount
      BY <3>1, RowColumns
    <3>3. TermsOK(i) /\ Sound(compute[i], i.termMonths)
      BY <3>1, QuoteIsSound DEF RowOf
    <3>4. 1 \in 1..i.termMonths
      BY <3>3 DEF TermsOK
    <3>5. compute[i].schedule[1].amount \in Int /\ compute[i].schedule[1].amount > 0
      BY <3>3, <3>4 DEF Sound
    <3> QED BY <3>2, <3>5
  <2>4. ASSUME NEW p \in Proposals
        PROVE  /\ contract[p] # NoContract <=> proposal[p].status = "CONTRACTED"
               /\ analysis[p].automatic /\ analysis[p].decision = "APPROVED" =>
                     /\ analysis[p].approvedAmount = proposal[p].terms.requested
                     /\ analysis[p].approvedAmount <= analysis[p].suggestedLimit
    BY DEF LoanInv, Decided, Contracted
  <2>5. req # Serving => req.p \in Proposals /\ Exists(req.p)
    BY DEF LoanInv, Asked, Exists
  <2> QED BY <2>1, <2>2, <2>3, <2>4, <2>5 DEF QuotingTypeOK
<1> QED BY <1>1, QuoteInvariant, LoanInvariant, PTL

\* A better customer is never treated worse, in any state the system can reach.
THEOREM BetterIsNoWorse == QuotingSpec => []BetterCustomerIsNoWorse
<1>1. QuotingTypeOK => BetterCustomerIsNoWorse
  BY TypedCustomersAreTreatedNoWorse
<1> QED BY <1>1, QuotingTypeCorrect, PTL
=============================================================================
