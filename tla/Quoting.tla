------------------------------ MODULE Quoting ------------------------------
(***************************************************************************)
(* From the figures a clerk types to the contract: the page that simulates *)
(* a loan as its form changes and creates a proposal from it               *)
(* (ProposalNewPage), ProposalsService, the analysis with the credit       *)
(* policy, and the costing of the contract.                                *)
(*                                                                         *)
(* The page asks the server 400 ms after the last change and keeps the     *)
(* answers by the inputs they are for; any request may be lost, or         *)
(* answered late.  An analysis reads the proposal and its customer before  *)
(* the transaction that decides, and the customer may be edited in         *)
(* between.  Requests that race for one proposal are the subject of        *)
(* ProposalRequests; here it has one analyst.                              *)
(***************************************************************************)
EXTENDS Schedules, CreditPolicy

CONSTANTS
    Inputs,         \* what the form may hold: [amortization, requested, termMonths,
                    \* rate, autoIof, tac]
    Proposals,      \* bound: the proposals created
    None,           \* no input, no request
    Incomes,        \* what the customer's income and score are edited to
    Scores,
    Approvals,      \* amounts an analyst may approve
    MaxChanges,     \* bound: changes of the form
    MaxEdits        \* bound: edits of the customer once there is a proposal

ASSUME QuotingAssumption ==
    /\ \A i \in Inputs : /\ i.amortization \in AmortizationType
                         /\ i.requested \in Nat \ {0} /\ i.termMonths \in Nat \ {0}
                         /\ i.rate \in [num : Nat, den : Nat \ {0}]
                         /\ i.autoIof \in BOOLEAN /\ i.tac \in Nat
    /\ None \notin Inputs
    /\ Incomes \subseteq Nat
    /\ Scores \subseteq 0..1000
    /\ Approvals \subseteq Nat
    /\ MaxChanges \in Nat /\ MaxEdits \in Nat

VARIABLES
    page,       \* ProposalNewPage: its form, and the simulations it asked for
    changes,    \* how often the form was changed
    customer,   \* the Customer row
    delinquent, \* whether a contract of the customer is in arrears
    edits,      \* how often the customer was edited
    proposal,   \* CreditProposal rows
    analysis,   \* CreditAnalysis rows
    contract,   \* Contract rows
    req         \* the analysis request being served

quotingVars == <<page, changes, customer, delinquent, edits, proposal, analysis, contract, req>>
Decision == <<delinquent, edits, analysis, contract, req>>
Server == <<customer, delinquent, edits, proposal, analysis, contract, req>>

Refused == [cash |-> 0]         \* an error in place of a quote
NoQuote == [cash |-> -1]        \* no answer yet
NoProposal == [status |-> "NONE"]
NoAnalysis == [decision |-> "NONE", score |-> 0, riskBand |-> "E", suggestedLimit |-> 0,
               approvedAmount |-> 0, automatic |-> FALSE]
NoContract == NoQuote
Serving == [op |-> "none"]

Exists(p) == proposal[p] # NoProposal

\* The page when it opens, with these inputs in its form.
NewPage(i) ==
    [open |-> TRUE, form |-> i, settled |-> i, sending |-> None,
     tries |-> [j \in Inputs |-> 0], answer |-> [j \in Inputs |-> NoQuote]]

\* A customer as create leaves him.
NewCustomers ==
    [monthlyIncome : Incomes, internalScore : Scores, minor : BOOLEAN, status : {"PROSPECT"}]

QuotingInit ==
    /\ \E i \in Inputs : page = NewPage(i)
    /\ changes = 0
    /\ customer \in NewCustomers
    /\ delinquent = FALSE
    /\ edits = 0
    /\ proposal = [p \in Proposals |-> NoProposal]
    /\ analysis = [p \in Proposals |-> NoAnalysis]
    /\ contract = [p \in Proposals |-> NoContract]
    /\ req = Serving

-----------------------------------------------------------------------------
(* ProposalsService *)

\* The limits of SimulateProposalDto and of the form's own schema.
Valid(i) == i.requested >= 100 /\ i.termMonths <= 420 /\ i.rate.num <= 2 * i.rate.den

\* The charges are less than the cash and the schedule amortizes.
Acceptable(q) == q.iof + q.tac < q.cash /\ ~isNonAmortizing(q.schedule)

\* What the server makes of the inputs; the interest is at most a hundred times the
\* amount financed.
compute ==
    [i \in Inputs |->
        LET iof == IF i.autoIof THEN estimateIofCents(i.requested, i.termMonths) ELSE 0
            quote == Costing(i.requested, iof, i.tac, i)
        IN IF Valid(i) /\ Acceptable(quote) /\ quote.interest <= quote.financed * 100
           THEN quote ELSE Refused]

\* The row keeps the terms and the totals, not the schedule.
Row(i, q) ==
    [status |-> "DRAFT", terms |-> i, iof |-> q.iof, tac |-> q.tac, financed |-> q.financed,
     installment |-> q.schedule[1].amount, total |-> q.total, interest |-> q.interest,
     cet |-> q.cet]

\* The detail page's schedule, computed again from the row.
findOneSchedule(row) ==
    simulate(row.financed, row.terms.rate, row.terms.termMonths, row.terms.amortization)

-----------------------------------------------------------------------------
(* ProposalNewPage *)

\* What the page shows: the answer to the inputs it settled on.
Shown == page.answer[page.settled]

edit(i) ==
    /\ page.open /\ i # page.form /\ changes < MaxChanges
    /\ page' = [page EXCEPT !.form = i]
    /\ changes' = changes + 1
    /\ UNCHANGED Server

\* useDebounce: the inputs have not changed for 400 ms.
debounce ==
    /\ page.open /\ page.settled # page.form
    /\ page' = [page EXCEPT !.settled = page.form]
    /\ UNCHANGED <<changes, Server>>

\* useQuery, enabled by the form as it is now, keyed by the inputs settled on.
ask ==
    /\ page.open /\ Valid(page.form)
    /\ Shown = NoQuote /\ page.tries[page.settled] = 0
    /\ page' = [page EXCEPT !.tries[page.settled] = 2]
    /\ UNCHANGED <<changes, Server>>

\* Wrong on purpose: the last answer to come is the one shown.
answerToWhatIsShown(i) ==
    /\ page.tries[i] > 0
    /\ page' = [page EXCEPT !.tries[i] = 0, !.answer[page.settled] = compute[i]]
    /\ UNCHANGED <<changes, Server>>

answer(i) ==
    /\ page.tries[i] > 0
    /\ page' = [page EXCEPT !.tries[i] = 0, !.answer[i] = compute[i]]
    /\ UNCHANGED <<changes, Server>>

\* No answer: one more try, then an error.
noAnswer(i) ==
    /\ page.tries[i] > 0
    /\ page' = [page EXCEPT !.tries[i] = @ - 1,
                            !.answer[i] = IF page.tries[i] = 1 THEN Refused ELSE @]
    /\ UNCHANGED <<changes, Server>>

\* handleCreate sends the form as it is now, whatever is shown.
handleCreate ==
    /\ page.open /\ page.sending = None /\ Valid(page.form)
    /\ page' = [page EXCEPT !.sending = page.form]
    /\ UNCHANGED <<changes, Server>>

\* The server refuses, or the request never reaches it: the page stays.
createFails ==
    /\ page.sending # None
    /\ page' = [page EXCEPT !.sending = None]
    /\ UNCHANGED <<changes, Server>>

\* The proposal is created, and the page leaves for its detail page.
create(p) ==
    LET quote == compute[page.sending] IN
    /\ page.sending # None
    /\ proposal[p] = NoProposal
    /\ customer.status # "BLOCKED" /\ quote # Refused
    /\ proposal' = [proposal EXCEPT ![p] = Row(page.sending, quote)]
    /\ page' = [NewPage(page.sending) EXCEPT !.open = FALSE]
    /\ UNCHANGED <<changes, customer, Decision>>

-----------------------------------------------------------------------------
(* Analysis and contract *)

changeStatus(p, from, to) ==
    /\ proposal[p].status \in from
    /\ proposal' = [proposal EXCEPT ![p].status = to]

submit(p) ==
    /\ changeStatus(p, {"DRAFT"}, "UNDER_REVIEW")
    /\ UNCHANGED <<page, changes, customer, delinquent, edits, analysis, contract, req>>

cancel(p) ==
    /\ changeStatus(p, {"DRAFT", "UNDER_REVIEW", "APPROVED"}, "CANCELLED")
    /\ UNCHANGED <<page, changes, customer, delinquent, edits, analysis, contract, req>>

\* What analyze and decide read before their transactions.
read(p, op, decision, amount) ==
    /\ req = Serving
    /\ proposal[p].status = "UNDER_REVIEW" /\ customer.status # "BLOCKED"
    /\ req' = [op |-> op, p |-> p, customer |-> customer,
               decision |-> decision, amount |-> amount]
    /\ UNCHANGED <<page, changes, customer, delinquent, edits, proposal, analysis, contract>>

analyze(p) == read(p, "analyze", "NONE", 0)

decide(p, decision, amount) ==
    /\ read(p, "decide", decision, amount)
    /\ decision = "APPROVED" => amount \in 1..proposal[p].terms.requested

Evaluated(isDelinquent) ==
    LET row == proposal[req.p] IN
    evaluateCredit(req.customer, row.terms.requested, row.installment, isDelinquent)

\* The analysis row and the status, in one transaction.
record(outcome, automatic) ==
    /\ analysis' = [analysis EXCEPT ![req.p] =
          [decision |-> outcome.decision, score |-> outcome.score,
           riskBand |-> outcome.riskBand, suggestedLimit |-> outcome.suggestedLimit,
           approvedAmount |-> outcome.approvedAmount, automatic |-> automatic]]
    /\ IF outcome.decision = "MANUAL_REVIEW" THEN UNCHANGED proposal
       ELSE changeStatus(req.p, {"UNDER_REVIEW"}, outcome.decision)
    /\ req' = Serving
    /\ UNCHANGED <<page, changes, customer, delinquent, edits, contract>>

\* The transaction of analyze: arrears as they are now, the customer as it was read.
analyzeCommits ==
    /\ req.op = "analyze"
    /\ proposal[req.p].status = "UNDER_REVIEW"
    /\ record(Evaluated(delinquent), TRUE)

\* The transaction of decide: the first record of a proposal gets the evaluation of
\* the customer as read; a later one keeps the figures it finds.
decideCommits ==
    LET kept == IF analysis[req.p] = NoAnalysis THEN Evaluated(FALSE) ELSE analysis[req.p] IN
    /\ req.op = "decide"
    /\ proposal[req.p].status = "UNDER_REVIEW"
    /\ req.decision = "APPROVED" => ~delinquent
    /\ record([kept EXCEPT !.decision = req.decision, !.approvedAmount = req.amount], FALSE)

\* An error, a rejected check or a lost connection: nothing is written.
analysisFails ==
    /\ req # Serving
    /\ req' = Serving
    /\ UNCHANGED <<page, changes, customer, delinquent, edits, proposal, analysis, contract>>

\* Wrong on purpose: the proposal stays APPROVED.
createFromProposalOnly(p) ==
    LET row == proposal[p]
        cost == computeContractCosting(analysis[p].approvedAmount, row.terms.requested,
                                       row.iof, row.tac, row.terms)
    IN /\ contract[p] = NoContract /\ proposal[p].status = "APPROVED"
       /\ analysis[p].decision = "APPROVED" /\ customer.status # "BLOCKED"
       /\ Acceptable(cost)
       /\ contract' = [contract EXCEPT ![p] = cost]
       /\ customer' = [customer EXCEPT !.status = IF @ = "PROSPECT" THEN "ACTIVE" ELSE @]
       /\ UNCHANGED <<page, changes, delinquent, edits, proposal, analysis, req>>

\* createFromProposal: the costing of the amount approved, and the same guards.
createFromProposal(p) ==
    LET row == proposal[p]
        cost == computeContractCosting(analysis[p].approvedAmount, row.terms.requested,
                                       row.iof, row.tac, row.terms)
    IN /\ contract[p] = NoContract
       /\ analysis[p].decision = "APPROVED" /\ customer.status # "BLOCKED"
       /\ changeStatus(p, {"APPROVED"}, "CONTRACTED")
       /\ Acceptable(cost)
       /\ contract' = [contract EXCEPT ![p] = cost]
       /\ customer' = [customer EXCEPT !.status = IF @ = "PROSPECT" THEN "ACTIVE" ELSE @]
       /\ UNCHANGED <<page, changes, delinquent, edits, analysis, req>>

-----------------------------------------------------------------------------
(* CustomersService, and the collections cycle *)

Change(row) ==
    /\ edits < MaxEdits /\ row # customer /\ \E p \in Proposals : Exists(p)
    /\ customer' = row /\ edits' = edits + 1
    /\ UNCHANGED <<page, changes, delinquent, proposal, analysis, contract, req>>

update(income) == Change([customer EXCEPT !.monthlyIncome = income])
updateScore(score) == Change([customer EXCEPT !.internalScore = score])
updateStatus(status) == Change([customer EXCEPT !.status = status])

arrearsChange ==
    /\ edits < MaxEdits /\ \E p \in Proposals : Exists(p)
    /\ delinquent' = ~delinquent /\ edits' = edits + 1
    /\ UNCHANGED <<page, changes, customer, proposal, analysis, contract, req>>

QuotingNext ==
    \/ \E i \in Inputs : edit(i) \/ answer(i) \/ noAnswer(i)
    \/ debounce \/ ask \/ handleCreate \/ createFails
    \/ \E p \in Proposals :
          \/ create(p) \/ submit(p) \/ cancel(p) \/ analyze(p) \/ createFromProposal(p)
          \/ \E amount \in Approvals : decide(p, "APPROVED", amount)
          \/ decide(p, "REJECTED", 0)
    \/ analyzeCommits \/ decideCommits \/ analysisFails
    \/ \E income \in Incomes : update(income)
    \/ \E score \in Scores : updateScore(score)
    \/ \E status \in {"ACTIVE", "BLOCKED"} : updateStatus(status)
    \/ arrearsChange

QuotingSpec == QuotingInit /\ [][QuotingNext]_quotingVars

-----------------------------------------------------------------------------
(* Correctness *)

\* Types; a contract goes with CONTRACTED, and a rule only approves all that is
\* requested, within the limit it suggests.
QuotingTypeOK ==
    /\ page.form \in Inputs /\ page.settled \in Inputs /\ page.sending \in Inputs \cup {None}
    /\ page.tries \in [Inputs -> 0..2]
    /\ customer \in [monthlyIncome : Nat, internalScore : 0..1000, minor : BOOLEAN,
                     status : {"PROSPECT", "ACTIVE", "BLOCKED"}]
    /\ delinquent \in BOOLEAN
    /\ changes \in 0..MaxChanges /\ edits \in 0..MaxEdits
    /\ \A p \in Proposals :
          /\ Exists(p) => proposal[p].terms \in Inputs /\ proposal[p].installment \in Nat
          /\ contract[p] # NoContract <=> proposal[p].status = "CONTRACTED"
          /\ analysis[p].automatic /\ analysis[p].decision = "APPROVED" =>
                /\ analysis[p].approvedAmount = proposal[p].terms.requested
                /\ analysis[p].approvedAmount <= analysis[p].suggestedLimit
    /\ req # Serving => req.p \in Proposals /\ Exists(req.p)

\* A customer is shown one price: once the form is at rest, what the page shows is
\* what creating the proposal stores, the detail page computes the same schedule from
\* the row, and a contract of the full amount has the same figures ("Equal amounts
\* reproduce the proposal", contracts.service.ts:54).
QuoteIsKept ==
    /\ page.form = page.settled /\ Shown \notin {NoQuote, Refused} =>
          Shown = compute[page.form]
    /\ \A p \in Proposals : Exists(p) =>
          LET quote == compute[proposal[p].terms] IN
          /\ proposal[p].installment = quote.schedule[1].amount
          /\ findOneSchedule(proposal[p]) = quote.schedule
          /\ contract[p] # NoContract /\ contract[p].cash = quote.cash => contract[p] = quote

\* Every loan is repaid by its installments: each pays something, none has a negative
\* part, together they repay exactly what was financed, which is the cash and the
\* lesser charges; and their present value at the effective rate is the cash released,
\* to one step of the rate ("no installment is ever negative" is to hold for any
\* input, finance.ts:51-53).
LoansAmortize ==
    \A p \in Proposals : contract[p] # NoContract =>
        LET c == contract[p]
            n == Len(c.schedule)
        IN /\ c.cash + c.iof + c.tac = c.financed /\ c.iof + c.tac < c.cash
           /\ n = proposal[p].terms.termMonths
           /\ TotalPrincipal(c.schedule) = c.financed /\ c.schedule[n].balance = 0
           /\ c.total = c.financed + c.interest
           /\ \A k \in 1..n : LET e == c.schedule[k] IN
                 /\ e.amount > 0 /\ e.principal >= 0 /\ e.interest >= 0
                 /\ e.balance = (IF k = 1 THEN c.financed ELSE c.schedule[k-1].balance) - e.principal
           /\ Npv(c.cash, c.schedule, c.cet) >= 0
           /\ Npv(c.cash, c.schedule, c.cet + 1) <= 0

Favour == [REJECTED |-> 0, MANUAL_REVIEW |-> 1, APPROVED |-> 2]

\* A better customer is never treated worse: with more income, a higher score or no
\* arrears, the rules do not turn an approval into a review, or a review into a
\* rejection, and do not lower the limit.
BetterCustomerIsNoWorse ==
    \A p \in Proposals, income \in Incomes, score \in Scores, late \in BOOLEAN :
        (/\ Exists(p)
         /\ income >= customer.monthlyIncome
         /\ score >= customer.internalScore
         /\ late => delinquent)
        => LET better == [customer EXCEPT !.monthlyIncome = income, !.internalScore = score]
               row == proposal[p]
               is == evaluateCredit(customer, row.terms.requested, row.installment, delinquent)
               be == evaluateCredit(better, row.terms.requested, row.installment, late)
           IN /\ Favour[be.decision] >= Favour[is.decision]
              /\ be.suggestedLimit >= is.suggestedLimit
=============================================================================
