--------------------------- MODULE ContractLedger ---------------------------
(***************************************************************************)
(* Contracts, their installments, the money received on them and their     *)
(* collection cases, as the API changes them one committed transaction at  *)
(* a time: PaymentsService.register, ContractsService (creation, cancel,   *)
(* recomputeContractStatus) and CollectionsService (refreshContract, the   *)
(* case operations and renegotiate).                                       *)
(*                                                                         *)
(* Every action is one handler whose transaction commits without another   *)
(* one in between; ContractTx looks inside the transactions.  What the     *)
(* daily run does beyond the refresh is not a step of this kind: the       *)
(* dunning ladder and the reconciliation of promises write what follows    *)
(* from lists they read earlier, and are in DailyCollections.  Proposals,  *)
(* customers and the promise rows are not state here.                      *)
(***************************************************************************)
EXTENDS LateCharges, Sequences, FiniteSetsExt

CONSTANTS
    Contracts,      \* rows of the Contract table that may come to exist
    Loans,          \* bound: those that a proposal may be formalised as
    None,           \* no contract
    Offers,         \* [principal, termMonths, firstDueIn]: what proposals are formalised as
    Terms,          \* [termMonths, firstDueIn]: what renegotiations ask for
    InterestRate,   \* Contract.interestRate, per month, over RateScale
    MonthDays,      \* days between two due dates (addMonths)
    Seeds,          \* [today, loans]: databases seed.ts may have filled before
    PayAmounts,     \* amounts of partial payments, in cents
    Backdating,     \* how many days before today a payment may be dated
    DaySteps,       \* how many days may pass between two transactions
    MaxDay          \* bound: the clock stops here

ASSUME LedgerAssumption ==
    /\ None \notin Contracts
    /\ Loans \subseteq Contracts
    /\ \A o \in Offers : /\ o.principal \in Nat \ {0}
                         /\ o.termMonths \in Nat \ {0}
                         /\ o.firstDueIn \in Int
    /\ \A t \in Terms : t.termMonths \in Nat \ {0} /\ t.firstDueIn \in Int
    /\ InterestRate \in Nat
    /\ MonthDays \in Nat
    /\ PayAmounts \subseteq Nat \ {0}
    /\ Backdating \subseteq Nat
    /\ DaySteps \subseteq Nat \ {0}
    /\ MaxDay \in Nat

\* seed.ts is given loans of at least a cent of principal per installment, the first of
\* them due on a day of the model.
ASSUME SeedsAssumption ==
    \A s \in Seeds :
        /\ s.today \in Nat
        /\ DOMAIN s.loans \subseteq Contracts
        /\ \A c \in DOMAIN s.loans :
              /\ s.loans[c] \in [principal : Nat, termMonths : Nat \ {0},
                                 startMonthsAgo : Int, paymentsMade : Nat]
              /\ s.loans[c].termMonths <= s.loans[c].principal
              /\ s.today - (s.loans[c].startMonthsAgo - 1) * MonthDays \in Nat

VARIABLES
    today,        \* the business day, startOfDay(new Date())
    contract,     \* Contract rows: status and renegotiatedFrom
    installments, \* the Installment rows of each contract, by number
    received,     \* sum of the Payment rows of each installment
    kase          \* the CollectionCase row of each contract

vars == <<today, contract, installments, received, kase>>

Live == {"ACTIVE", "DEFAULTED"}
ContractStatus == Live \cup {"SETTLED", "CANCELLED", "RENEGOTIATED"}
\* Wrong on purpose: a renegotiated installment still counts as open.
ClosedButRenegotiated == {"PAID", "CANCELLED"}

Closed == {"PAID", "CANCELLED", "RENEGOTIATED"}     \* installments nothing is owed on

ActiveCase == {"IN_PROGRESS", "PROMISE", "NEGOTIATING"}
CaseStatus == ActiveCase \cup {"OPEN", "RESOLVED", "WRITTEN_OFF"}
CaseTransitions ==
    [OPEN        |-> {"IN_PROGRESS", "NEGOTIATING", "PROMISE", "RESOLVED", "WRITTEN_OFF"},
     IN_PROGRESS |-> {"NEGOTIATING", "PROMISE", "RESOLVED", "WRITTEN_OFF"},
     NEGOTIATING |-> {"IN_PROGRESS", "PROMISE", "RESOLVED", "WRITTEN_OFF"},
     PROMISE     |-> {"IN_PROGRESS", "NEGOTIATING", "RESOLVED", "WRITTEN_OFF"},
     RESOLVED    |-> {"IN_PROGRESS"},
     WRITTEN_OFF |-> {}]

\* Days overdue from which each stage of the dunning ladder is due.
DunningLadder == <<1, 8, 16, 31, 61>>
Stages == 1..5
dunningStageFor(days) == Cardinality({s \in Stages : DunningLadder[s] <= days})

NoRow == [status |-> "NONE", renegotiatedFrom |-> None]
NoCase == [status |-> "NONE", daysOverdue |-> 0, dunningStage |-> 0]

-----------------------------------------------------------------------------
(* Schedules.  SAC amortization: equal floor-rounded principal, the last   *)
(* installment takes the residue, interest on the balance.                 *)

buildSacSchedule(principal, n) ==
    LET share == principal \div n
        balance(k) == principal - (k - 1) * share
    IN [k \in 1..n |->
           [principal |-> IF k < n THEN share ELSE balance(k),
            interest |-> RoundDiv(balance(k) * InterestRate, RateScale)]]

NewInstallments(principal, n, firstDue) ==
    LET schedule == buildSacSchedule(principal, n) IN
    [k \in 1..n |->
        [dueDay |-> firstDue + (k - 1) * MonthDays,
         principalDue |-> schedule[k].principal,
         interestDue |-> schedule[k].interest,
         amountDue |-> schedule[k].principal + schedule[k].interest,
         amountPaid |-> 0, lateFee |-> 0, lateInterest |-> 0,
         status |-> "PENDING"]]

Nothing(n) == [k \in 1..n |-> 0]

-----------------------------------------------------------------------------
(* The parts of the transactions, as functions of the rows they read.      *)

IsOpen(i) == i.status \notin Closed
IsOverdue(i, day) == IsOpen(i) /\ day > i.dueDay
OpenNumbers(rows) == {n \in DOMAIN rows : IsOpen(rows[n])}
OverdueNumbers(rows, day) == {n \in DOMAIN rows : IsOverdue(rows[n], day)}

DaysOverdue(rows, day) ==
    IF OverdueNumbers(rows, day) = {} THEN 0
    ELSE Max({DaysLate(rows[n], day) : n \in OverdueNumbers(rows, day)})

\* Wrong on purpose: one paid installment settles the contract.
AnyDone(rows) == \E n \in DOMAIN rows : rows[n].status \in {"PAID", "CANCELLED"}

\* recomputeContractStatus
AllDone(rows) ==
    DOMAIN rows # {} /\ \A n \in DOMAIN rows : rows[n].status \in {"PAID", "CANCELLED"}

RecomputedStatus(status, rows) ==
    IF AllDone(rows) /\ status # "CANCELLED" THEN "SETTLED"
    ELSE IF ~AllDone(rows) /\ status = "SETTLED" THEN "ACTIVE"
    ELSE status

\* refreshContractTx: what it makes of the rows, the case and the status of a
\* live contract on the day it runs.
FlaggedRows(rows, day) ==
    [n \in DOMAIN rows |-> IF IsOverdue(rows[n], day)
                           THEN [rows[n] EXCEPT !.status = "OVERDUE"]
                           ELSE rows[n]]

\* Wrong on purpose: resolving a case leaves its dunning stage where it was.
RefreshedCaseSameStage(k, days) ==
    IF days > 0
    THEN [k EXCEPT !.status = IF @ \in ActiveCase THEN @ ELSE "OPEN", !.daysOverdue = days]
    ELSE IF k.status \in {"NONE", "RESOLVED", "WRITTEN_OFF"} THEN k
    ELSE [k EXCEPT !.status = "RESOLVED", !.daysOverdue = 0]

\* Wrong on purpose: only a case nobody works on is resolved.
RefreshedCaseOpenOnly(k, days) ==
    IF days > 0
    THEN [k EXCEPT !.status = IF @ \in ActiveCase THEN @ ELSE "OPEN", !.daysOverdue = days]
    ELSE IF k.status # "OPEN" THEN k
    ELSE [status |-> "RESOLVED", daysOverdue |-> 0, dunningStage |-> 0]

RefreshedCase(k, days) ==
    IF days > 0
    THEN [k EXCEPT !.status = IF @ \in ActiveCase THEN @ ELSE "OPEN",
                   !.daysOverdue = days]
    ELSE IF k.status \in {"NONE", "RESOLVED", "WRITTEN_OFF"} THEN k
    ELSE [status |-> "RESOLVED", daysOverdue |-> 0, dunningStage |-> 0]

\* Wrong on purpose: nothing brings a contract back from default.
RefreshedStatusNoReturn(status, days) == IF days > 0 THEN "DEFAULTED" ELSE status

RefreshedStatus(status, days) ==
    IF days > 0 THEN "DEFAULTED" ELSE IF status = "DEFAULTED" THEN "ACTIVE" ELSE status

\* The writes of one refresh of contract c from given status and rows; a closed
\* contract is left alone (the early return).
RefreshWrites(c, status, rows) ==
    LET days == DaysOverdue(rows, today) IN
    IF status \in Live
    THEN /\ contract' = [contract EXCEPT ![c].status = RefreshedStatus(status, days)]
         /\ installments' = [installments EXCEPT ![c] = FlaggedRows(rows, today)]
         /\ kase' = [kase EXCEPT ![c] = RefreshedCase(@, days)]
    ELSE /\ contract' = [contract EXCEPT ![c].status = status]
         /\ installments' = [installments EXCEPT ![c] = rows]
         /\ UNCHANGED kase

-----------------------------------------------------------------------------
(* The tables at first: empty, or as seed.ts filled them.                  *)

\* A loan of the seed on the day the script runs: the installments it says were made
\* are paid, what else is past due is flagged, and then the contract is in default with
\* a case in progress.  The proposal and its analysis are not state here.
createContractedLoan(o, day) ==
    LET rows == NewInstallments(o.principal, o.termMonths,
                                day - (o.startMonthsAgo - 1) * MonthDays)
        made == {n \in DOMAIN rows : n <= o.paymentsMade}
        late == {n \in DOMAIN rows \ made : day > rows[n].dueDay}
    IN [status |-> IF late # {} THEN "DEFAULTED"
                   ELSE IF o.paymentsMade >= o.termMonths THEN "SETTLED" ELSE "ACTIVE",
        installments |-> [n \in DOMAIN rows |->
            IF n \in made THEN [rows[n] EXCEPT !.amountPaid = rows[n].amountDue, !.status = "PAID"]
            ELSE IF n \in late THEN [rows[n] EXCEPT !.status = "OVERDUE"]
            ELSE rows[n]],
        received |-> [n \in DOMAIN rows |-> IF n \in made THEN rows[n].amountDue ELSE 0],
        kase |-> IF late = {} THEN NoCase
                 ELSE [status |-> "IN_PROGRESS", dunningStage |-> 0,
                       daysOverdue |-> Max({day - rows[n].dueDay : n \in late})]]

Empty ==
    /\ today = 0
    /\ contract = [c \in Contracts |-> NoRow]
    /\ installments = [c \in Contracts |-> <<>>]
    /\ received = [c \in Contracts |-> <<>>]
    /\ kase = [c \in Contracts |-> NoCase]

Seeded(s) ==
    LET loan(c) == createContractedLoan(s.loans[c], s.today)
        isSeeded(c) == c \in DOMAIN s.loans
    IN /\ today = s.today
       /\ contract = [c \in Contracts |->
             IF isSeeded(c) THEN [status |-> loan(c).status, renegotiatedFrom |-> None] ELSE NoRow]
       /\ installments = [c \in Contracts |-> IF isSeeded(c) THEN loan(c).installments ELSE <<>>]
       /\ received = [c \in Contracts |-> IF isSeeded(c) THEN loan(c).received ELSE <<>>]
       /\ kase = [c \in Contracts |-> IF isSeeded(c) THEN loan(c).kase ELSE NoCase]

Init == Empty \/ \E s \in Seeds : Seeded(s)

-----------------------------------------------------------------------------
(* Contracts *)

\* createFromProposal: the approved proposal's schedule becomes a contract.
createFromProposal(c, offer) ==
    /\ contract[c].status = "NONE"
    /\ today + offer.firstDueIn \in Nat
    /\ contract' = [contract EXCEPT ![c] = [status |-> "ACTIVE", renegotiatedFrom |-> None]]
    /\ installments' = [installments EXCEPT
          ![c] = NewInstallments(offer.principal, offer.termMonths, today + offer.firstDueIn)]
    /\ received' = [received EXCEPT ![c] = Nothing(offer.termMonths)]
    /\ UNCHANGED <<today, kase>>

\* Wrong on purpose: cancel does not look at the payments.
IgnoresPayments(c) == FALSE

HasPayments(c) == \E n \in DOMAIN received[c] : received[c][n] > 0

\* cancel looks at the payments only, not at the contract's status.
cancel(c) ==
    /\ contract[c].status # "NONE"
    /\ ~HasPayments(c)
    /\ contract' = [contract EXCEPT ![c].status = "CANCELLED"]
    /\ installments' = [installments EXCEPT
          ![c] = [n \in DOMAIN @ |-> [@[n] EXCEPT !.status = "CANCELLED"]]]
    /\ UNCHANGED <<today, received, kase>>

-----------------------------------------------------------------------------
(* Payments *)

\* register: allocate, settle the installment, recompute the contract's status
\* and refresh its arrears, all in one transaction.
register(c, n, pay, lag) ==
    LET i == installments[c][n]
        rows == [installments[c] EXCEPT ![n] = AfterPayment(i, pay, today - lag)]
    IN /\ pay > 0
       /\ IsOpen(i)
       /\ pay <= TotalOutstanding(i, today - lag)
       /\ received' = [received EXCEPT ![c][n] = @ + pay]
       /\ RefreshWrites(c, RecomputedStatus(contract[c].status, rows), rows)
       /\ UNCHANGED today

\* settleInstallment: pays what previewCharges says is due.
settleInstallment(c, n, lag) ==
    register(c, n, TotalOutstanding(installments[c][n], today - lag), lag)

-----------------------------------------------------------------------------
(* Collections *)

\* Wrong on purpose: the batch lists the contracts already in default only.
refreshDefaulted(c) ==
    /\ contract[c].status = "DEFAULTED"
    /\ RefreshWrites(c, contract[c].status, installments[c])
    /\ UNCHANGED <<today, received>>

\* One contract of the daily batch (refreshAll lists the live contracts).
refreshContract(c) ==
    /\ contract[c].status \in Live
    /\ RefreshWrites(c, contract[c].status, installments[c])
    /\ UNCHANGED <<today, received>>

addInteraction(c) ==
    /\ kase[c].status = "OPEN"
    /\ kase' = [kase EXCEPT ![c].status = "IN_PROGRESS"]
    /\ UNCHANGED <<today, contract, installments, received>>

\* addPromise puts the case in PROMISE whatever its status was.
addPromise(c) ==
    /\ kase[c].status # "NONE"
    /\ kase' = [kase EXCEPT ![c].status = "PROMISE"]
    /\ UNCHANGED <<today, contract, installments, received>>

\* reconcilePromises, a promise past its day and not met.
breakPromise(c) ==
    /\ kase[c].status = "PROMISE"
    /\ kase' = [kase EXCEPT ![c].status = "IN_PROGRESS"]
    /\ UNCHANGED <<today, contract, installments, received>>

updateCaseStatus(c, status) ==
    /\ kase[c].status # "NONE"
    /\ status # kase[c].status => status \in CaseTransitions[kase[c].status]
    /\ kase' = [kase EXCEPT ![c].status = status,
                            ![c].dunningStage = IF status = "RESOLVED" THEN 0 ELSE @]
    /\ UNCHANGED <<today, contract, installments, received>>

\* What renegotiate consolidates of one open installment: everything owed when it
\* is overdue, else only the principal not yet paid (interest was paid first).
ConsolidatedPart(i) ==
    IF IsOverdue(i, today) THEN TotalOutstanding(i, today)
    ELSE NonNeg(i.principalDue - NonNeg(i.amountPaid - i.interestDue))

ConsolidatedBalance(rows) ==
    MapThenSumSet(LAMBDA n : ConsolidatedPart(rows[n]), OpenNumbers(rows))

renegotiate(c, new, term) ==
    LET rows == installments[c]
        outstanding == ConsolidatedBalance(rows)
    IN /\ contract[c].status \in Live
       /\ contract[new].status = "NONE"
       /\ outstanding \in Nat \ {0}
       /\ today + term.firstDueIn \in Nat
       /\ contract' = [contract EXCEPT ![c].status = "RENEGOTIATED",
                                       ![new] = [status |-> "ACTIVE", renegotiatedFrom |-> c]]
       /\ installments' = [installments EXCEPT
             ![c] = [n \in DOMAIN @ |-> IF IsOpen(@[n])
                                        THEN [@[n] EXCEPT !.status = "RENEGOTIATED"]
                                        ELSE @[n]],
             ![new] = NewInstallments(outstanding, term.termMonths, today + term.firstDueIn)]
       /\ received' = [received EXCEPT ![new] = Nothing(term.termMonths)]
       /\ kase' = IF kase[c].status \in {"NONE", "RESOLVED", "WRITTEN_OFF"} THEN kase
                  ELSE [kase EXCEPT ![c].status = "RESOLVED", ![c].dunningStage = 0]
       /\ UNCHANGED today

-----------------------------------------------------------------------------
NextDay ==
    /\ \E k \in DaySteps : today + k <= MaxDay /\ today' = today + k
    /\ UNCHANGED <<contract, installments, received, kase>>

Pay(c) ==
    \E n \in DOMAIN installments[c], lag \in Backdating :
        \/ \E pay \in PayAmounts : register(c, n, pay, lag)
        \/ settleInstallment(c, n, lag)

Next ==
    \/ NextDay
    \/ \E c \in Loans, offer \in Offers : createFromProposal(c, offer)
    \/ \E c \in Contracts :
        \/ cancel(c)
        \/ Pay(c)
        \/ refreshContract(c)
        \/ addInteraction(c)
        \/ addPromise(c)
        \/ breakPromise(c)
        \/ \E status \in CaseStatus : updateCaseStatus(c, status)
        \/ \E new \in Contracts \ {c}, term \in Terms : renegotiate(c, new, term)

Spec == Init /\ [][Next]_vars

\* The scheduler runs the collections cycle every day and isolates each contract
\* and each error, so every contract is refreshed again.
FairSpec == Spec /\ \A c \in Contracts : WF_vars(refreshContract(c))

-----------------------------------------------------------------------------
(* Correctness *)

Exists(c) == contract[c].status # "NONE"
Rows(c) == {installments[c][n] : n \in DOMAIN installments[c]}
InArrears(c) == \E i \in Rows(c) : IsOverdue(i, today)

\* Rows of the tables: the columns have their types, and the installments and the
\* received sums of a contract are numbered alike.
TypeOK ==
    /\ today \in Nat
    /\ contract \in [Contracts -> [status : ContractStatus \cup {"NONE"},
                                   renegotiatedFrom : Contracts \cup {None}]]
    /\ installments \in [Contracts -> Seq(Installment)]
    /\ received \in [Contracts -> Seq(Nat)]
    /\ \A c \in Contracts : Len(received[c]) = Len(installments[c])
    /\ kase \in [Contracts -> [status : CaseStatus \cup {"NONE"}, daysOverdue : Nat,
                               dunningStage : 0..5]]

\* The money ledger balances: what the Payment rows of an installment add up to is
\* what its amountPaid, lateFee and lateInterest columns say was allocated, the base
\* is never overpaid, and an installment nobody paid on is still PENDING, OVERDUE or
\* closed by a cancellation or a renegotiation (register's allocation and updates).
LedgerBalanced ==
    \A c \in Contracts : \A n \in DOMAIN installments[c] :
        LET i == installments[c][n] IN
        /\ received[c][n] = i.amountPaid + i.lateFee + i.lateInterest
        /\ i.amountPaid <= i.amountDue
        /\ i.status = "PAID" => i.amountPaid = i.amountDue
        /\ i.status = "PENDING" => received[c][n] = 0

\* Charges stay within what the contract allows over any series of partial, late and
\* backdated payments: the fine is collected once, and the arrears interest collected
\* never exceeds the installment itself.
ChargesWithinContract ==
    \A c \in Contracts : \A i \in Rows(c) :
        /\ i.lateFee <= Fine(i.amountDue)
        /\ i.lateInterest <= i.amountDue

\* A contract's status agrees with its installments whatever payments,
\* cancellations, renegotiations and refreshes came before: settled exactly when all
\* are paid, live while something is open, renegotiated or cancelled as a whole, and
\* never cancelled with money on it.
StatusMatchesInstallments ==
    \A c \in Contracts :
        LET statuses == {i.status : i \in Rows(c)} IN
        CASE contract[c].status \in Live -> \E i \in Rows(c) : IsOpen(i)
          [] contract[c].status = "SETTLED" -> statuses = {"PAID"}
          [] contract[c].status = "RENEGOTIATED" ->
                "RENEGOTIATED" \in statuses /\ statuses \subseteq {"PAID", "RENEGOTIATED"}
          [] contract[c].status = "CANCELLED" -> statuses = {"CANCELLED"} /\ ~HasPayments(c)
          [] OTHER -> statuses = {}

\* Default is what the flagged installments say, across payments that clear part of
\* the arrears: a live contract is DEFAULTED exactly when it has an OVERDUE
\* installment, those really are past due, and its collection case exists.
DefaultMatchesArrears ==
    \A c \in Contracts : contract[c].status \in Live =>
        LET overdue == {i \in Rows(c) : i.status = "OVERDUE"} IN
        /\ contract[c].status = "DEFAULTED" <=> overdue # {}
        /\ \A i \in overdue : IsOverdue(i, today)
        /\ contract[c].status = "DEFAULTED" => kase[c].status # "NONE"

\* A renegotiated debt is owed in one place: once a contract carries the balance of
\* another, nothing of the other is open to payment and no second contract carries it.
DebtOwedOnce ==
    \A c, d \in Contracts : contract[d].renegotiatedFrom = c =>
        /\ c # d
        /\ contract[c].status \in {"RENEGOTIATED", "CANCELLED"}
        /\ \A i \in Rows(c) : ~IsOpen(i)
        /\ \A e \in Contracts : contract[e].renegotiatedFrom = c => e = d

\* Paying p cents takes exactly p cents off what the installment owes on the day the
\* payment is dated: no charge is billed twice, none is lost in the allocation.
PaymentsReduceDebt ==
    [][\A c \in Contracts : \A n \in DOMAIN received[c] :
          received'[c][n] # received[c][n] =>
              \E lag \in Backdating :
                  TotalOutstanding(installments[c][n], today - lag)
                    - TotalOutstanding(installments'[c][n], today - lag)
                  = received'[c][n] - received[c][n]]_vars

\* A closed contract stays closed: no payment, refresh or renegotiation brings a
\* settled, renegotiated or cancelled contract back to life; only a renegotiated one
\* without payments can still be cancelled.
ClosedStaysClosed ==
    [][\A c \in Contracts :
          Exists(c) /\ contract[c].status \notin Live =>
              \/ contract'[c].status = contract[c].status
              \/ contract[c].status = "RENEGOTIATED" /\ contract'[c].status = "CANCELLED"]_vars

\* The daily run brings every arrear to collection: a live contract with an
\* installment past due becomes DEFAULTED, unless it is paid up or closed first.
ArrearsReachCollections ==
    \A c \in Contracts :
        contract[c].status \in Live /\ InArrears(c)
            ~> \/ contract[c].status \notin Live
               \/ ~InArrears(c)
               \/ contract[c].status = "DEFAULTED" /\ kase[c].status # "NONE"

\* A case left active on a contract that owes nothing past due is resolved by the
\* daily run, unless the contract closes or falls overdue again.
IdleCasesResolve ==
    \A c \in Contracts :
        contract[c].status \in Live /\ ~InArrears(c)
            ~> \/ contract[c].status \notin Live
               \/ InArrears(c)
               \/ kase[c].status \in {"NONE", "RESOLVED", "WRITTEN_OFF"}

\* Settling a contract closes its collection case ("opens/updates/closes the
\* collection case", collections.service.ts:82).  The code does not keep this.
SettledClosesCase ==
    \A c \in Contracts : contract[c].status = "SETTLED" =>
        kase[c].status \in {"NONE", "RESOLVED", "WRITTEN_OFF"}
=============================================================================
