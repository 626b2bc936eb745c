# credflow in TLA+

credflow is the back office of a small lender: customers, credit proposals and their
analysis, contracts with installments, payments, and the collection of what falls
overdue.  A NestJS API (`src/apps/api`) keeps everything in PostgreSQL through Prisma; a
React client (`src/apps/web`) drives it; a cron job runs the collections cycle once a
day.  What can go wrong is money counted twice or lost, a status that disagrees with the
rows it summarises, and two requests, or a request and the nightly batch, that
interleave.

The specifications here state what the API promises about its tables, model the
handlers that change them, check them with TLC on small instances, and prove the central
properties for all instances with TLAPS.  Paths below are relative to `src/apps/api/src`
unless they start with `src/`.

## The system

| Component | State | Operations that change it | What is hard | Specified in |
|---|---|---|---|---|
| Finance (`domain/finance`) | none: pure functions on cents | late charges, outstanding, schedules, effective rate, costing, credit policy | rounding, caps, residues, thresholds | LateCharges, Schedules, CreditPolicy |
| Payments (`modules/payments`, payment dialog) | `Payment` rows, the paid columns of `Installment` | `register`, `settleInstallment` | partial, late and backdated payments; retries with an idempotency key; two payments at once | ContractLedger, ContractTx, PaymentRequests |
| Contracts (`modules/contracts`) | `Contract`, `Installment` | `createFromProposal`, `cancel`, `recomputeContractStatus` | a status kept by hand in five handlers | ContractLedger, ContractTx, ProposalRequests |
| Collections (`modules/collections`) | `CollectionCase`, interactions, `PaymentPromise` | `refreshContract(Tx)`, `refreshAll`, `applyDunningLadder`, `reconcilePromises`, case operations, `renegotiate`; a daily cron and a manual trigger | a batch without row locks against requests that lock; stale lists; stages that fire once | ContractLedger, ContractTx, DailyCollections |
| Proposals (`modules/proposals`, simulation page) | `CreditProposal`, `ProposalEvent` | simulate, create, submit, cancel, `changeStatus` | unlocked read, check, write; answers out of order | ProposalLifecycle, ProposalRequests, Quoting |
| Credit analysis (`modules/analysis`) | `CreditAnalysis` | `analyze`, `decide` | decision against a proposal that moved on | ProposalRequests, CreditPolicy, Quoting |
| Users (`modules/users`) | `User` | update, setActive | the last administrator | Administrators |
| Sessions (`modules/auth`; `src/apps/web/src/lib`) | refresh tokens, token store of the browser | login, refresh, logout, change of password | rotation against concurrent 401 answers | Sessions |
| Customers (`modules/customers`) | `Customer` and its documents | create, update, `updateScore`, `updateStatus` | a customer who changes while a contract is being made | ProposalRequests, Quoting |
| Dashboard, customer history, list of contracts, exports of contracts and cases | read only | | figures that must agree; an export that is cut off | Portfolio |
| Seed data (`src/apps/api/prisma/seed.ts`) | the tables before the first request | `createContractedLoan` | contracts that no handler made | ContractLedger (`Seeded`) |
| Number sequences, audit, the other exports, encryption, health, other web pages | append-only or read-only | | | not modelled |

Interactions: `PaymentsService.register` calls `ContractsService.recomputeContractStatus`
and then `CollectionsService.refreshContract` inside one transaction;
`ContractsService.createFromProposal` calls `ProposalsService.changeStatus` inside its
own; `renegotiate` closes one contract and opens another; the scheduler and
`POST /collections/run` call `runDailyCollections`.  Everything meets in the rows of
PostgreSQL, at READ COMMITTED, with explicit `SELECT ... FOR UPDATE` in some handlers and
none in others.

## The modules

```
LateCharges --> ContractLedger --> ContractTx           statements, locks, batch
                     |  |  |----> PaymentRequests       dialogs, keys, lost answers
                     |  |             implements IdempotentPayments
                     |  |-------> DailyCollections      the run on its stale lists
                     |----------> Portfolio             reports, exports

ContractLedgerProofs --> ContractTxProofs
          |------------> PaymentProofs
          |------------> CollectionsProofs
          |------------> PortfolioProofs

ProposalLifecycle --> ProposalRequests --> ProposalProofs

Schedules, CreditPolicy --> Quoting --> QuotingProofs   page, figures, rules

Administrators --> Sessions --> AccountProofs           users, tokens, browser
```

An arrow is `EXTENDS`; each module of proofs also extends the module it is about.  The modules named `MC...` give the constants their small
instances and nothing else; `MCContractLedger` extends Portfolio, and so the ledger with
its reports.  ContractTx takes the ledger's own variables as the committed tables, so
that `ImplementsLedger` is `Spec` itself; PaymentRequests implements IdempotentPayments,
and ProposalRequests implements ProposalLifecycle, by refinement.

### LateCharges

The pure money functions: `computeLateCharges`, `computeOutstanding`
(`domain/finance/finance.ts`), the allocation waterfall of a payment and the row it
leaves (`payments.service.ts`).  Cents are integers, as in the code.  A rate is an integer
over `RateScale` (the schema stores `Decimal(9,6)`) and a rounded product is the exact
half-up rounding of a rational; the binary floating point that the code multiplies with
is abstracted, so a product that falls within float error of half a cent may round
differently in the program.  Negative rates are admitted, because the code clamps them.

### ContractLedger

One committed transaction at a time.  `contract`, `installments`, `received` and `kase`
are the tables; `today` is `startOfDay(new Date())`.

| Action | Code |
|---|---|
| `createFromProposal`, `cancel` | `ContractsService` |
| `register`, `settleInstallment` | `PaymentsService`, with `recomputeContractStatus` and `refreshContract` inside, in the order of the code |
| `refreshContract` | one contract of `refreshAll` |
| `addInteraction`, `addPromise`, `updateCaseStatus`, `breakPromise` | `CollectionsService`; `breakPromise` is the write `reconcilePromises` makes on a case |
| `renegotiate` | `CollectionsService`, closing one contract and opening the next |
| `NextDay` | midnight |

What is abstracted: an `Offer` is what an approved proposal is formalised as (principal,
term, days to the first due date), so the guards on costing and on the proposal are not
here; schedules are SAC, the only one that is a closed formula (`finance.ts:75-91`);
`received` is the sum of the `Payment` rows of an installment; the promise rows and the
interactions are not state here (DailyCollections has them), so that a promise may be
found broken whenever its case is in `PROMISE`; the dunning ladder works off a list it read
before and is not a step of its own here (DailyCollections has it); nor are the derived columns of a case
(`totalOverdue`, `resolvedAt`); a month is `MonthDays` days.  A first due date before day 0 of the model is excluded
(`today + firstDueIn \in Nat`): it bounds the calendar, not the code.

At first the tables are empty, or as the seed script fills them (`Seeded`): loans that
started some months ago, of which the first installments are paid, and of what is past
due the flags, a contract in default and a case in progress.  The script writes these rows
itself, by no handler, so that the invariant has to hold of them for reasons of its own.  A seeded loan has a cent of principal
for each installment at least (`SeedsAssumption`; the script's loans have thousands).  The
script's customers, users, proposals and analyses are not state here.

### ContractTx

The same handlers statement by statement, run by several clients and by one batch
process per replica.  The variables of ContractLedger are the committed tables; `tx[p]`
is the open transaction of process `p`: the statement it is at, the rows it holds, the
rows it waits for and its uncommitted writes.  A statement sees committed rows under its
own writes (READ COMMITTED, the default Prisma leaves in place); a row lock is kept until
the end; `Commit` publishes the writes; `Abort` is a timeout or a lost connection at any
point; `AbortDeadlocked` is PostgreSQL's deadlock detection.  `job[b]` is where a batch
process is: the list of contracts of `refreshAll`, then the list of cases of
`applyDunningLadder`, each read once and worked off one transaction at a time.

Merged statements: reads that happen under the lock of the row they read, and the flag of
overdue installments with the read of the case that follows it.  Inserting a case takes
the lock of the contract it refers to (the foreign key).  The identifier of a new
contract is unique, so two renegotiations under way have different ones.  No transaction
spans midnight.  The status update of a case by hand is not a transaction here yet (it
reads and writes in two statements).

`CasesOverlap = FALSE` is a bound on what overlaps: an interaction, a promise or a broken
promise is recorded when no transaction runs on its contract.  Without it transactions do
not implement the ledger (below).

### IdempotentPayments and PaymentRequests

IdempotentPayments is the promise of `POST /payments` with an idempotency key: a key is
charged once at most, what the books of an account receive moves with that charge alone,
and success is only told of a charge that was made.  What was credited before the first
key was drawn (the payments of the seed) is nobody's charge.

PaymentRequests puts what surrounds the transaction of `register` around the one step
that ContractLedger makes of it:

| Action | Code |
|---|---|
| `openDialog`, `submit`, `closeDialog`, `answer` | the payment dialog of `ContractDetailPage.tsx`: its key drawn once, the date and amount it proposes, the button disabled while it submits, success closing it |
| `previewCharges`, `receive` | `settleInstallment` and `register` before the transaction, with the lookup of the key |
| `persist`, `reject`, `conflict`, `replay` | the transaction, its checks, the unique index and what follows `P2002` |
| `loseConnection`, `loseRequest` | an answer or a request lost, a process that dies |
| `Elsewhere` | midnight, cancellation, renegotiation, refreshes |

A dialog with `settle` stands for a client of the settle route that keeps its key as the
dialog does; the web client has none.  Such a client may leave out the date
(`payment.dto.ts:50-53`): then `previewCharges` (`contracts.service.ts:228`) and `register`
(`payments.service.ts:30`) look at the clock each for itself (`DateOf`), `day` is what the
one saw and `paidAt` what the other did, and midnight may fall between them.  The proposed date is the UTC date of the browser
(`ContractDetailPage.tsx:191`), which in the evening is a day ahead of the API's
(`UtcAhead`).  Not state: the edit of an amount after the first submission, and a second
tab.

### DailyCollections

`runDailyCollections` item by item.  `job[j]` is where a run is and what is left of the
list it read; `running[i]` is the flag of an instance; `paid` are the `Payment` rows one
by one, with the day they are dated, whether that date was given (it is then noon of the
day) or is the moment of booking, and the day they were booked; `promise` are the
`PaymentPromise` rows, with whether they were made in the afternoon and after which
payment; `actions` counts the interactions of the ladder.

| Action | Code |
|---|---|
| `startRun`, `endRun`, `failRun` | the flag and the `finally` of `runDailyCollections` |
| `refreshNext`, `refreshFails` | one contract of `refreshAll`, its errors caught |
| `listCases`, `escalateNext` | `applyDunningLadder`: the list its query returned, then one case of it per transaction, written whatever became of the case meanwhile |
| `listPromises`, `sumPayments`, `reconcile` | `reconcilePromises`: its list, the sum per promise, the writes |
| `makePromise`, `readPromise`, `updatePromise` | promises by hand, `updatePromise` in its two statements |
| `payInstallment`, `Elsewhere` | payments; days, contracts, renegotiation, other case operations |

Items are taken in any order.  Payments settle an installment each, so that the sums are
few; `MaxPaid` bounds how many installments of a contract are paid, and only contracts made
by proposals (`Loans`) are paid or cancelled, those made by renegotiating are not.

### Portfolio

`overview` of the dashboard, `getFinancialHistory` of the customer, `summarize` of the list
of contracts, and the exports of contracts and of cases, computed on the state of the
ledger.  An export fetches one row more than `ExportRowCap` to tell whether it is cut off;
which rows come first among equals is open, so it is a set of possible exports.  What is
summed is a function on the rows, so that the sums can be reasoned about.  All contracts
are of one customer, a table has finitely many rows (`ReportsAssumption`), and a report sees one state: the dashboard's queries do run in a transaction,
but at READ COMMITTED.

### ProposalLifecycle

What the API promises about proposals: the table of transitions of
`proposals.service.ts`, each transition together with the analysis or the contract that
goes with it.  `status`, `analysis` and `contracts` are the rows (of a contract, the
amount it was made of).  This is the abstract specification that the handlers are shown
to implement.

### ProposalRequests

The handlers, several at once.  `req[r]` is the request that task `r` is serving: its next
statement, what it has read, what it is about to write, and whether it holds the proposal
row or the index entry of a contract it has inserted.

| Action | Code |
|---|---|
| `create`, `submit`, `cancel`, `changeStatusWrite` | `ProposalsService`; `changeStatus` reads in one statement and writes in another |
| `analyze`, `decide`, then `lockProposal`, `evaluate`, `commitAnalysis` | `AnalysisService`: the reads before the transaction, `FOR UPDATE` with the status read again, the delinquency and the rules, the rest |
| `createFromProposal`, then `insertContract`, `contractStatusRead`, `contractStatusWrite`, `commitContract` | `ContractsService.createFromProposal`: the reads before the transaction, the insert that waits on the unique index of `proposalId` and fails on it, `changeStatus` inside the transaction, the rest |
| `updateCustomerStatus`, `arrearsChange` | `CustomersService.updateStatus`, in one step; what payments and the collections cycle do to `hasActiveDelinquency` |
| `Abort` | an error, a timeout or a lost connection at any statement |

What is abstracted: the scoring rules (`EvaluateCredit` is the set of outcomes they can
reach: a delinquent customer is rejected, an automatic approval is of the whole amount
because `requestedAmount <= suggestedLimit` is one of its conditions), the figures of a
proposal, the advisory lock on the year's contract numbers, which orders contract creations
further than the index does, and the eight attempts of `retryOnUniqueViolation`, which all
fail once the other contract is committed and so are one step.

`Serial` is a bound on what overlaps: the handlers named in it run with no other request
on the same proposal.  With `Serial = {"submit", "cancel"}` everything holds; with
`Serial = {}` the transitions are violated (below), and only what rests on the unique
index remains.

### Schedules, CreditPolicy and Quoting

Schedules holds the PRICE, SAC and SIMPLE schedules, the guard `isNonAmortizing`, IOF, the
bisection for the effective monthly rate and the costing of a contract; CreditPolicy the
rules of `evaluateCredit`.  Arithmetic is exact where the code's is floating point, and
rounds where the code rounds; rates are fractions, and the bisection ends at one step of
`1 / RateGrid` instead of a tolerance.  Its upper bound is doubled from 100% a month until
it brackets the rate, twenty times at most (`HIGH_CAP`).  Powers, sums, the running total of
PRICE and the bisection are recursive functions.  Shares of income are compared as
products.

Quoting is one sale from the first figure typed to the contract:

| Action | Code |
|---|---|
| `edit`, `debounce`, `ask`, `answer`, `noAnswer` | the form of `ProposalNewPage.tsx`, `useDebounce`, and its query: keyed by the settled inputs, enabled by the current ones, tried twice |
| `handleCreate`, `createFails`, `create` | the creation, which sends the form as it is |
| `submit`, `cancel`, `analyze`, `decide`, `analyzeCommits`, `decideCommits`, `analysisFails` | the proposal and its analysis, with the customer as read before the transaction and the arrears as in it |
| `createFromProposal` | the costing of the amount approved, its guards, the customer's activation |
| `update`, `updateScore`, `updateStatus`, `arrearsChange` | the customer changing meanwhile |

Left out: the yearly rates `cetAnnual` and `clampCet`, functions of the monthly one; a
creation whose answer is lost, after which the page could create a second proposal;
requests racing for one proposal, which are the subject of ProposalRequests.

### Administrators and Sessions

Administrators is `UsersService.update` and `setActive`, statement by statement: the read
of the target, the lock on the active administrators, the count, the write, the revocation
of sessions after a password reset.  `GrantsOverlap = FALSE` is a bound on what overlaps:
requests that grant powers run alone.  Without it the property fails: the first read
(`users.service.ts:144-148`) is made before the lock, and a demotion of somebody who is
just being promoted skips the count.

Sessions is one page of the web client and `AuthService`:

| Action | Code |
|---|---|
| `send`, `serve`, `unauthorized`, `unauthorizedLoggedOut`, `rejectCall` | a call, admitted by `JwtStrategy.validate` or answered 401; the shared refresh of `api.ts`; a call that was already repeated fails |
| `lookUp`, `checkUser`, `rotate`, `issueTokens`, `answer` | `AuthService.refresh`, statement by statement, and its answer |
| `login`, `logout`, `loggedOut`, `changePassword`, `reload` | `AuthProvider` and `AuthService` |
| `manageUsers`, `revokeSessions` | Administrators, acting on the session's user |
| `expire`, `lapse`, `loseAnswer` | time and the network |

A token stands for the access and the refresh token issued together.  `ended` is a history
variable: the session was ended on purpose (logout, change or reset of the password,
deactivation, a refresh token past its time) or put in doubt by a lost answer or a reload.
Not state: passwords, the lockout after failed logins (a counter written from a read
before, so that two failures at once count as one), a second tab.

## The runs

| Run | Instance | Checks |
|---|---|---|
| `ledger` | a loan of 100.00 in two installments and its renegotiation, made by the handlers or found in a seeded database (overdue; or healthy beside a settled one), partial payments of 30.00, payments dated today or 20 days back, steps of 31 days up to day 62, exports of 1 row, fairness of the daily refresh | types, `LedgerBalanced`, `ChargesWithinContract`, `StatusMatchesInstallments`, `DefaultMatchesArrears`, `DebtOwedOnce`, `ReportsReconcile`, `ClosedStaysClosed`, `PaymentsReduceDebt`, `ArrearsReachCollections`, `IdleCasesResolve` |
| `settled_case` | the same | finds `SettledClosesCase` violated |
| `tx_locked` | 2 clients: payments in part (30.00) and in full, renegotiations and cancellations of two installments 10 days apart, one step of 45 days, `CasesOverlap = FALSE` | `ImplementsLedger` (refinement), types |
| `tx_batch` | 1 client and 1 batch process | `ClosedInstallmentsStayClosed`, `EveryTransactionEnds` |
| `tx_race` | 1 client and 1 batch process | finds `ClosedStaysClosed` violated |
| `payments` | 1 clerk, 2 keys, 2 requests under way, 1 loss, 1 installment, its renegotiation, settlements with a date and without | `ImplementsPromise` (refinement), `SettlesUpToMidnight`, `LostAnswersAreRecovered`, types |
| `payments_retry` | the same | finds `RetriesAreReplayed` violated |
| `collections` | 1 loan of two installments, of which one is paid (`MaxPaid = 1`), its renegotiation into a second contract, 2 jobs on one instance, 1 promise of one installment, 1 decision under way, 1 failure, steps of 4 days up to day 12 | `EscalatesOnce`, `ResolvingRestartsLadder`, `LadderCatchesUp`, `PaidLaterIsNotBroken`, `PromisesAreDecided`, types |
| `proposals` | 2 requests, 2 proposals of 2 units, 1 customer, `submit` and `cancel` alone on their proposal | `ImplementsLifecycle` (refinement), `OneContractPerProposal`, `ContractFollowsApproval`, `EventsTellTheHistory`, `EveryRequestEnds`, types |
| `proposals_race` | the same with `Serial = {}` | finds `FollowsTransitions` violated |
| `quoting` | 7 loans of 99 to 200 cents in 1 to 7 installments, every amortization, monthly rates from 0 to 200%, 1 change of the form, 2 edits of the customer | `QuoteIsKept`, `LoansAmortize`, `BetterCustomerIsNoWorse`, types |
| `accounts` | 2 administrators, 2 requests, 3 pairs of tokens, 2 calls, 2 exchanges, 1 loss | `AnAdminRemains`, `RotatedTokenIsNotPresented`, `NotSignedOutMidSession`, types |

Why the bounds are enough.  Two installments are the fewest with which a payment can
leave a contract partly paid and partly overdue; a second contract takes the balance of
the first; day 62 crosses both due dates.  A
third contract (a renegotiation renegotiated) and smaller amounts, where every rounding
and the cap on arrears interest decide something, are covered by the proofs, which hold
for all of them.  In the transaction runs two processes are the fewest that race, and one
step of the clock makes both installments overdue.  Two submissions, of one key or of two, are
the fewest that conflict, and one lost answer makes a retry; midnight falls between any
two steps of them.  Two jobs on one instance are what the flag is for; the steps of 4 days
take the case from the first stage of the ladder to the second and the promise past its
day while a list is being worked off, or past two stages when days go by without a run.  With `MaxPaid = 1` a promise is covered by one
payment or by none; sums of several are left to the theorem.  `MaxActions`: staff leaves a case alone once the
ladder has acted on it, which bounds the resolve-and-reopen cycle.  Two requests on one
proposal are the fewest that race for it, the second proposal lets the first contract of a
customer meet an analysis of another, and with 2 units an approved amount can differ from
the requested one.  The loans of `quoting` are so small that every rounding leaves a
residue, and two of them are refused; incomes and scores lie on both sides of the
thresholds.  In `accounts` two calls make a shared refresh, a third token a second
rotation; the two administrators are managed at will as long as nobody has signed in, and
only the session's own user once somebody has (`NoSessionYet`), so that the two halves of
the specification do not multiply.  Its symmetry set permutes calls, exchanges and
requests, which no formula tells apart, and only safety is checked with it.

`CHECK_DEADLOCK FALSE` in every run but those of the proposals: the clock stops at
`MaxDay` and keys, tokens, changes and edits run out, and a state in which everything is
done has no successor.

Fairness.  `FairSpec` assumes that every live contract is refreshed
again and again: the cron runs the cycle daily, a failing contract is isolated
(`collections.service.ts:228-234`) and the next day tries again.  Nobody is assumed to
pay, to interact or to renegotiate.  `FairCollSpec` assumes that an instance starts a run
when it can and that a run goes on (nothing is assumed of single items of its lists); failures are not excluded but bounded.
`FairPaymentSpec` assumes that the API serves every request and, for
`LostAnswersAreRecovered` only, that a clerk who is free to retry again and again does.
`FairTxSpec` assumes that a started transaction goes
on when it can, that deadlocks are detected, and, strongly, that a lock wanted again and
again is granted (PostgreSQL queues the waiters of a row).  No new request is assumed.
`FairRequestSpec` makes the same assumption of the statements of each request: strong,
because a statement that waits for a row is enabled only between the transactions of
others.

Each property has a mutant (`PROJECT.json`): an operator marked *Wrong on purpose* beside
the one it stands in for, a plausible bug with which TLC finds the property violated.

## What the runs found

* `settled_case`: paying off an overdue contract leaves its collection case active.
  `register` settles the contract, then refreshes its arrears; the refresh returns early
  on a settled contract, and the daily batch lists live contracts only.
* `tx_race`: the batch's refresh reads the contract without a lock and writes its status
  after waiting for the lock; a contract settled meanwhile is put back in default.  The
  flags on installments do not have this problem, because their update filters on the
  status again (`ClosedInstallmentsStayClosed` holds in `tx_batch`).
* With `CasesOverlap = TRUE`, `tx_locked` finds `ImplementsLedger` violated: a refresh reads
  a case that is open, an interaction makes it `IN_PROGRESS` and the refresh puts `OPEN`
  back.  `refreshContractTx` reads the case without a lock (`collections.service.ts:132`)
  and its upsert writes the status decided on that read.  No comment promises otherwise,
  so it is the bound of that run and the hypothesis of its theorem, and not a violation.
* `proposals_race`: `changeStatus`, called by `submit` and `cancel` without a transaction,
  writes what it decided on an earlier read.  A submission overtaken by a cancellation
  puts the cancelled proposal under review.

* `payments_retry`: of two submissions of one key at once, the second may end in an error
  although the first was booked: the checks on the installment come before the insert
  that would meet the unique index.  The retry after that is replayed
  (`LostAnswersAreRecovered`), and nothing is charged twice (`ImplementsPromise`).

Met while modelling and stated in the properties as the code does it: the balance of a
renegotiated contract is outstanding in the customer's history and on the old contract as
well as on the new one (`ReportsReconcile`); `EscalatesOnce` holds on one instance only,
as the comment at `collections.service.ts:65-71` says; `updatePromise` may overwrite what
a run has just decided, so `PaidLaterIsNotBroken` is stated of the run's own steps; a
written-off case is opened again by the next run if its contract is in arrears, and by a
promise.

Three comments say more than the code does.  The models have each of these behaviours, TLC
finds each when asked for the comment's words, and the properties that are checked say
where they stop short of them:

* A resolved case does not always restart the ladder from stage 1
  (`collections.service.ts:184-186`).  The ladder lists the cases (`:266-269`) and writes
  the stage it chose without looking again (`:283`): a case resolved in between, by a
  payment, by staff or by a renegotiation, is `RESOLVED` with its old stage or a higher
  one, and its next arrears skip the first stages.  `ResolvingRestartsLadder` therefore
  says what every step does: resolving clears the stage, and nothing else lowers it.
* A payment of the promise's own day may not count (`:312-314`, "made after the promise").
  A date given with a payment is pinned to noon, the sum starts at the moment the promise
  was made (`:318`); a payment dated today after a promise of this afternoon is before it,
  and the promise is `BROKEN` although it was kept.  `PaidLaterIsNotBroken` counts all that
  was booked after the promise and leaves out exactly these payments, by name
  (`PinnedBefore`).  A payment without a date counts, the same afternoon too.
* `settleInstallment` does not always pay "the full outstanding amount"
  (`payments.service.ts:198`).  Without a date it looks at the clock twice; with midnight
  between, the payment is dated a day after the one it was priced for, what that day adds in
  charges stays owed and the installment is `PARTIALLY_PAID`.  `SettlesUpToMidnight` bounds what
  is left by that difference, and asks for `PAID` where the two days are one.

## The proofs

`ContractLedgerProofs`, on money.  The charges are recomputed on the base that each payment leaves,
and what was paid of them is subtracted.  That neither bills a cent twice nor drops one
rests on monotonicity: rounding is monotone, so both charges are, so the gross charge on
the smaller base is at most the one before; as the waterfall serves charges before the
base, a payment that touches the base has first paid the charges in full, and nothing of
them is left afterwards.  `PaymentReducesDebtExactly` puts it together;
`InterestIsPaidFirst` shows that inferring the interest already paid from `amountPaid`
is exact over any series of payments.

`ContractLedgerProofs`, on sums.  `MapThenSumSet` is defined by recursion over the subsets of
a set.  The library's induction theorems cannot be used, but an instance of induction can be
proved where it is needed: `LeastElement` gives the smallest number of a set of numbers,
`SubsetInduction` that a family of subsets which is closed under adding an element has the
whole finite set, and with it `SumExists`, `SumTakesAny` (whichever element is taken out
first), `SumMonotone` and `SumsOfSame`.

`ContractLedgerProofs`, on the ledger.  From `RateAssumption`, `LedgerAssumption` and
`SeedsAssumption` alone (typing of the constants; `Loans` are contracts, amounts are
positive, seeded loans have a cent per installment), for any number of contracts, any clock
and any seeded database:

    Spec => []IInv

with `IInv` the conjunction, over the contracts, of `RowsOK` (the row arithmetic),
`StatusOK` (which rows go with which status) and `CaseOK` (default, flags and case), and
of `DebtOwedOnce`.  The properties alone are not inductive: `StatusMatchesInstallments`
needs that a live contract has no cancelled or renegotiated row and that a paid row has
money on it (or `cancel`, which looks at payments only, could cancel a settled contract);
`DefaultMatchesArrears` needs that a flagged row stays past due; `ChargesWithinContract`
needs the balance.  Each action is shown to rebuild `ContractOK` for the contract it
writes (`PaymentKeepsContract`, `RefreshKeepsContract`, `CancelKeepsContract`,
`RenegotiateKeepsContract`, `NewKeepsContract`), and `OneContractStep` frames the others.
A seeded loan is shown to satisfy `ContractOK` outright (`SeededLoan`).  From the
invariant follow `TypeOK`, all state properties of the ledger, those of its reports in
`PortfolioProofs`, and the action properties `ClosedStaysClosed` and `PaymentsReduceDebt`.

`PortfolioProofs`.  `ReportsAgree` (`Spec => []ReportsReconcile`), from the ledger's assumptions
and `ReportsAssumption`, for any number of contracts and any cap on exports.  The reports are computed
from the state, so they agree wherever `IInv` holds; it says of every row that the amount
due is principal and interest, that the payments are what is shown as paid and the charges,
and which statuses go with the contract's.  The rest is the algebra of sums over the same
rows: taken by parts (`SumSplits`), by terms (`SumAdds`) and by contract (`SumByOwner`), from
the induction over subsets above.  Of the exports, fetching one row more than the cap tells
exactly whether rows are left out, whichever come first among equals.

`ContractTxProofs`.  For any number of clients and batch processes, whatever overlaps, waits,
deadlocks or dies:

    TxSpec => []TInv

`TInv` says of the committed tables what does not depend on anybody's locks (`TablesOK`: the
row arithmetic, and that a contract without a status has no rows), and of each open
transaction, in one predicate per concern, where it stands (`ControlOK`), which rows it
holds or waits for and that it only wrote rows it holds (`LocksOK`), and that what it wrote
fits the committed rows beneath (`WritesOK`): nobody else can lock those, so a commit puts
down rows that are still right.  A statement rebuilds its own transaction (`MoveStep`) and
frames the others (`TxFrame`).  It follows that every installment's ledger balances, that
charges stay within the contract, that a closed installment never reopens and that a
payment takes exactly its amount off the debt, also beside the batch that decides on what
it has not locked; and `TxTypeOK`.

`ContractTxProofs`, on the refinement.  `TxSpec => ImplementsLedger`, for any number of clients, assuming
`Batch = {}` and `~CasesOverlap`: the two things that decide on rows they have not locked, and
with which the refinement fails (`tx_race`, and above).  `StagesOK` says of each statement
what its transaction sees and has decided by then, as a function of the committed rows of
its contract.  As every transaction locks the contract before it decides anything, those
rows are the same when it commits, and the commit is the ledger's step
(`CommitIsPayment`, `CommitIsRenegotiation`, `CommitIsCancellation`); every other statement
is a stutter.  Before it has the lock a payment relies only on its amount being one that
clients pay or no less than is owed, which other payments do not disturb: an installment
never comes to owe more (`PaidUpOwesNoMore`).  `LockedTransactionsKeepLedger` carries four
properties of the ledger over to the interleaved statements.

`PaymentProofs`.  For any clerks, keys, requests under way and losses, from
`PaymentAssumption` and those of the ledger:

    PaymentSpec => []PInv

`PInv` joins the ledger's invariant, the types of rows, dialogs and requests, and what a
request may rely on at its stage (`PostOK`): past the checks its payment has the date it
asked for, and a replay is of a payment that exists.
`PaymentsImplementPromise` maps the transaction to the one charge of its key, telling the
client to `Tell`, a new contract to `Open`, and the rest to a stutter.
`SettlementsPayUpToMidnight` needs that what was previewed is still enough when the transaction
runs: days pass and other payments come between, but the amount is what was owed on the
day it was priced for (`day`), and of one day an installment never comes to owe more
(`PaidUpOwesNoMore`).  The payment takes exactly its amount off what is owed on the day it
is dated (`paidAt`), so what is left is at most what came to be owed from the one day to the
other; if they are one, the transaction refuses more than is owed, so it is exactly what is
owed, and `FullPaymentPays`.

`CollectionsProofs`.  For any jobs, instances, promises, decisions under way and failures,
from `CollectionsAssumption` and those of the ledger:

    CollSpec => []CollInv

The run works on stale lists, so what is invariant is how far they may be behind.
`Tables` says of the ledger what its own invariant does, but for the stage of a resolved
case: the ladder may raise it, having listed the case before it was resolved.  `Desk` ties
promises to cases and the dates of payments to the days they were booked.  `Lists` says what
a job may have in hand at each place (`JobOK`), and `OneEach` that an instance is marked
exactly while one of its jobs runs.

* `PromisesPaidLaterHold` (`CollSpec => PaidLaterIsNotBroken`) needs the last part of
  `JobOK`: the run fixes its day before it sums, so a payment booked after the sum was taken
  is booked on that day or later, and of a promise due before that day the sum has all that
  was booked after it, dated from its day on and not pinned before it.  A case that was read
  as resolved, payments, decisions and other runs in between do not matter.
* `DunningFiresOnce` (`SingleInstance => (CollSpec => EscalatesOnce)`).  `Ladder`: a case is
  listed once, at no lower a stage than it is at; nothing but the ladder raises a stage
  (`OnlyTheLadderClimbs`) and only one job of an instance is on it.  The run has both jobs on
  one instance; on two the property fails, as the code says.
* `ResolvedCasesRestart` (`SingleInstance => (CollSpec => ResolvingRestartsLadder)`), by the
  same invariant: what the ladder writes from its stale list is above the stage the case is
  at, so it lowers none; every other handler that touches a case keeps its stage or resolves
  it at stage 0.  On two instances a slower ladder could write a lower stage over a higher.
* `CollectionsTypeCorrect`: types, and that the boolean of the service is a lock.

`ProposalProofs`.  For any number of proposals, customers and requests, and any amounts:

* `ContractedOnce` (`RequestSpec => []OneContractPerProposal`) assumes nothing of `Serial`.
  Its invariant, `RequestInv`, adds what each request has gathered (`Serving`: statement,
  handler and locks agree, the outcome is one its proposal can have) and `EntriesOK`: the
  index entry of an uncommitted contract is the only one of its proposal, and no contract
  of it is committed.  Without it a commit could append to a contract that exists.
* `RequestsImplementLifecycle` (`RequestSpec => ImplementsLifecycle`) assumes
  `{"submit", "cancel"} \subseteq Serial`.  `SerialInv` adds that what a request has read
  still stands (`Current`: a held proposal is still under review, the amount to contract is
  still the approved one) and that requests on one proposal are `Apart`.  A statement that
  only moves a request on maps to a stutter (`MovingOnAlone`); the commits map to
  `changeStatus`, `recordAnalysis` and `contractProposal` (`CommittingAlone`).
* `EventsTellHistory`, under the same assumption: every write tells its event from the
  status it finds, because what `SerialInv` keeps current is what it writes as `from`.
* `ContractsFollowApproval`, under the same assumption, and `RequestsTyped`; and, of the
  abstract specification, `LifecycleCorrect` and `LifecycleFollowsTransitions`.

`QuotingProofs`.  `PolicyMonotone`: for any income, score, installment and amount, a
better customer is treated no worse.  The score is monotone (`ScoreMonotone`), so the band
is, so the limit is, and with them each condition of the decision; the installment's
share of an income of 0 is the step that needs care.  `TypedCustomersAreTreatedNoWorse`
carries it to the property of the run.  `OnePrice` (`QuotingSpec => []QuoteIsKept`): what
the page shows, what is stored, what the detail page computes again and what is contracted
for the full amount are one quote.  `QuoteInv` says which inputs each figure was computed
from: the page has answers under the inputs they are for, a proposal is the row of the quote
of its own inputs whatever became of its status, a contract is a costing of its proposal; so
the theorem holds whatever a schedule is.

`QuotingProofs`, on loans.  `EveryLoanAmortizes` (`QuotingSpec => []LoansAmortize`), for any
inputs, customers and grid of rates.  `LoanInv` says who was lent what: an approval is of
an amount within what was asked for, and a contract is the acceptable costing of one.  The
rest is about the schedules alone (`CostingIsSound`):

* Each of the three is a running total from nothing to the amount financed
  (`EverySchedule`), and the guard `isNonAmortizing` keeps it from falling
  (`AcceptedAmortizes`), so the balances telescope and the last is 0.
* Over the terms and at the rates that the service accepts, 420 months and 200% a month at
  most, the interest is at most twice 420 squared times the amount financed
  (`ModestInterest`).  So twenty doublings of the upper bound suffice
  (`UpperBoundBrackets`): `HIGH_CAP` never cuts the search short.
* Halving keeps the present value positive below and not positive above (`BisectFinds`).
  It may be 0 one step above the rate that is found, when the exact rate lies on the grid;
  `LoansAmortize` says `<= 0` there.

These need induction over the number of installments, of doublings and of halvings, which
is proved where it is needed: every set of naturals has a least element (`LeastNatural`), so
a set that is closed under the successor has all of `0..n` (`UpTo`), and a recursion over
`0..n` defines a function (`RecursionExists`).  `QuotingTypeCorrect` gives the types, and with
them `BetterIsNoWorse` the rules' monotonicity in every reachable state.

`AccountProofs`, for any users, tokens, calls, exchanges and requests:

* `AdministratorsRemain` (`SessionsSpec => []AnAdminRemains`, assuming `~GrantsOverlap`).
  The invariant `Counted` says what the lock is worth: a request about to take powers from
  an active administrator holds the rows of all of them, there are two at least, and since
  nobody else can write to those rows and nothing grants powers meanwhile, the count still
  stands at the write.
* `SessionsTyped`, `RotatedTokensStayHome` and `NobodySignedOutMidSession` from
  `SessionInvariant`.  `SessionInv` says, for as long as the session is not ended, how the
  stored token, the one exchange under way and the calls that wait belong together: the
  token of the store is valid unless the exchange has rotated it, and then its successor
  is in the answer.

Only model-checked.  Liveness, which is out of the prover's reach, like ENABLED:
`ArrearsReachCollections`, `IdleCasesResolve`, `LadderCatchesUp`, `EveryTransactionEnds`,
`LostAnswersAreRecovered`, `PromisesAreDecided`, `EveryRequestEnds`.  Every invariant and
every other action property or refinement of a passing run is stated by a theorem.  What the
runs find violated is shown by counterexample.

## Plan

1. LateCharges, ContractLedger, ContractTx, with their runs and proofs.  *Done.*
2. ProposalLifecycle, ProposalRequests, with the customer's status; their proofs.  *Done.*
3. IdempotentPayments, PaymentRequests, and the proof that a key is charged once.  *Done.*
4. DailyCollections with promises, the ladder's interactions and stale lists.  *Done.*
   Its proofs.  *Done.*  Left: two instances, once the code has its distributed lock.
5. Administrators, Sessions, and their proofs.  *Done.*  Left: the lockout.
6. Schedules, CreditPolicy, Quoting; the proofs about the rules, the quote and the loans;
   Portfolio with the exports of contracts and cases; the proof that reports agree.  *Done.*
   Left: the six monthly buckets of the dashboard and the yearly rates.
7. The refinement of ContractLedger by ContractTx without the batch, proved.  *Done.*  Left:
   what remains of the ledger beside the batch (the default of a live contract), and the
   status update of a case as a transaction.

## Not modelled

Number sequences: the advisory lock is held to the end of the transaction, so nothing is
left to interleave (past 999999 documents a year the textual maximum no longer grows).
The lockout after failed logins.  The exports of customers, proposals and payments, and
the text of any; the audit log (nothing reads it back), encryption and masking, logging,
health, the web pages that only show what the API returns, and of the seed all but the
contracts.
