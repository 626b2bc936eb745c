----------------------------- MODULE ContractTx -----------------------------
(***************************************************************************)
(* The transactions of ContractLedger statement by statement, as several   *)
(* requests and the scheduled batch run them at once against PostgreSQL at *)
(* READ COMMITTED, the isolation Prisma's $transaction uses here.          *)
(*                                                                         *)
(* The ledger's variables are the committed tables.  A transaction sees    *)
(* the committed rows, each statement afresh, under its own writes; it     *)
(* holds the lock of every row it wrote or selected FOR UPDATE until it    *)
(* ends, and a statement waits until it holds the rows it needs.           *)
(* ImplementsLedger says what the locks are for: to the rest of the system *)
(* every transaction is one step of ContractLedger.                        *)
(***************************************************************************)
EXTENDS ContractLedger

CONSTANTS
    Clients,    \* requests being served at once
    Batch,      \* processes running runDailyCollections: one per replica
    Handlers,   \* bound: which handlers the clients run
    CasesOverlap    \* bound: statements on a case run beside a transaction on its contract

ASSUME TxAssumption ==
    /\ Clients \cap Batch = {}
    /\ None \notin Clients \cup Batch
    /\ Handlers \subseteq {"register", "renegotiate", "cancel"}
    /\ CasesOverlap \in BOOLEAN

VARIABLES
    tx,     \* the open transaction of each process
    job     \* what each batch process still has to do

txVars == <<today, contract, installments, received, kase, tx, job>>

Procs == Clients \cup Batch
ContractRow(c) == <<"contract", c>>
CaseRowOf(c) == <<"case", c>>
InstallmentRow(c, n) == <<"installment", c, n>>
InstallmentRows(c, numbers) == {InstallmentRow(c, n) : n \in numbers}

\* No transaction open.  held: rows locked; want: rows the next statement waits for;
\* written: rows written, with the values in status, rows and kase.
Idle == [next |-> "begin", then |-> "commit", c |-> None, n |-> 0, pay |-> 0, lag |-> 0,
         new |-> None, term |-> [termMonths |-> 0, firstDueIn |-> 0],
         held |-> {}, want |-> {}, written |-> {},
         status |-> "NONE", rows |-> <<>>, kase |-> NoCase,
         days |-> 0, overdue |-> {}, oldStatus |-> "NONE", oldCase |-> NoCase]
NoJob == [phase |-> "idle", todo |-> {}]

TxInit ==
    /\ Init
    /\ tx = [p \in Procs |-> Idle]
    /\ job = [b \in Batch |-> NoJob]

-----------------------------------------------------------------------------
(* Statements, locks and commits *)

Waiting(p) == tx[p].want # {}
FreeFor(p, row) == \A q \in Procs \ {p} : row \notin tx[q].held

\* What a statement of p sees of the contract p works on.
SeenStatus(p) ==
    LET t == tx[p] IN
    IF ContractRow(t.c) \in t.written THEN t.status ELSE contract[t.c].status
SeenRows(p) ==
    LET t == tx[p] IN
    [n \in DOMAIN installments[t.c] |->
        IF InstallmentRow(t.c, n) \in t.written THEN t.rows[n] ELSE installments[t.c][n]]
SeenCase(p) ==
    LET t == tx[p] IN IF CaseRowOf(t.c) \in t.written THEN t.kase ELSE kase[t.c]

\* The statement `at` of p runs: p holds every row it waited for.
At(p, at) == tx[p].next = at /\ ~Waiting(p)

Committed == <<today, contract, installments, received, kase>>

\* p goes on as t with the statement `next`, which needs `rows`.
Goto(p, t, next, rows) ==
    /\ tx' = [tx EXCEPT ![p] = [t EXCEPT !.next = next, !.want = rows \ t.held]]
    /\ UNCHANGED Committed

Rollback(p) ==
    /\ tx' = [tx EXCEPT ![p] = Idle]
    /\ UNCHANGED Committed

\* A row lock is granted once nobody else holds it.
Acquire(p) ==
    /\ \E row \in tx[p].want :
          /\ FreeFor(p, row)
          /\ tx' = [tx EXCEPT ![p].want = @ \ {row}, ![p].held = @ \cup {row}]
    /\ UNCHANGED <<Committed, job>>

\* PostgreSQL's deadlock detection: one of a knot of transactions that wait for each
\* other fails; its caller answers an error or goes on with the next contract.
AbortDeadlocked(p) ==
    /\ \E knot \in SUBSET Procs :
          /\ p \in knot
          /\ \A q \in knot : /\ Waiting(q)
                             /\ \A row \in tx[q].want :
                                   \E r \in knot \ {q} : row \in tx[r].held
    /\ Rollback(p)
    /\ UNCHANGED job

\* The process dies, or loses its connection, or Prisma's timeout strikes.
Abort(p) == tx[p].next # "begin" /\ Rollback(p) /\ UNCHANGED job

\* COMMIT: what was written becomes visible, the locks go.
Commit(p) ==
    LET t == tx[p] IN
    /\ At(p, "commit")
    /\ contract' = [d \in Contracts |->
          IF d = t.c THEN [contract[d] EXCEPT !.status = SeenStatus(p)]
          ELSE IF d = t.new THEN [status |-> "ACTIVE", renegotiatedFrom |-> t.c]
          ELSE contract[d]]
    /\ installments' = [d \in Contracts |->
          IF d = t.c THEN SeenRows(p)
          ELSE IF d = t.new
               THEN NewInstallments(t.pay, t.term.termMonths, today + t.term.firstDueIn)
               ELSE installments[d]]
    /\ received' = [d \in Contracts |->
          IF d = t.c /\ t.n # 0 THEN [received[d] EXCEPT ![t.n] = @ + t.pay]
          ELSE IF d = t.new THEN Nothing(t.term.termMonths)
          ELSE received[d]]
    /\ kase' = [kase EXCEPT ![t.c] = SeenCase(p)]
    /\ tx' = [tx EXCEPT ![p] = Idle]
    /\ UNCHANGED <<today, job>>

writeStatus(p) ==
    LET t == tx[p] IN
    /\ At(p, "writeStatus")
    /\ Goto(p, [t EXCEPT !.written = @ \cup {ContractRow(t.c)}], t.then, {})
    /\ UNCHANGED job

-----------------------------------------------------------------------------
(* PaymentsService.register *)

\* Wrong on purpose: the contract is not locked before the installment.
beginRegisterUnlocked(p, c, n, pay, lag) ==
    /\ tx[p].next = "begin"
    /\ pay > 0
    /\ Goto(p, [Idle EXCEPT !.c = c, !.n = n, !.pay = pay, !.lag = lag],
            "lockInstallment", {})
    /\ UNCHANGED job

beginRegister(p, c, n, pay, lag) ==
    /\ tx[p].next = "begin"
    /\ pay > 0
    /\ Goto(p, [Idle EXCEPT !.c = c, !.n = n, !.pay = pay, !.lag = lag],
            "lockInstallment", {ContractRow(c)})
    /\ UNCHANGED job

\* settleInstallment reads the amount with previewCharges, outside any transaction.
beginSettle(p, c, n, lag) ==
    beginRegister(p, c, n, TotalOutstanding(installments[c][n], today - lag), lag)

lockInstallment(p) ==
    /\ At(p, "lockInstallment")
    /\ Goto(p, tx[p], "allocate", {InstallmentRow(tx[p].c, tx[p].n)})
    /\ UNCHANGED job

\* Wrong on purpose: a rejected payment leaves its transaction open.
allocateLeavesOpen(p) ==
    LET t == tx[p]
        i == installments[t.c][t.n]
    IN /\ At(p, "allocate")
       /\ IsOpen(i) /\ t.pay <= TotalOutstanding(i, today - t.lag)
       /\ Goto(p, [t EXCEPT !.written = @ \cup {InstallmentRow(t.c, t.n)},
                            !.rows = [installments[t.c] EXCEPT
                                        ![t.n] = AfterPayment(i, t.pay, today - t.lag)]],
               "recompute", {})
       /\ UNCHANGED job

\* The installment is read under its lock; the payment and its update follow.
allocate(p) ==
    LET t == tx[p]
        i == installments[t.c][t.n]
    IN /\ At(p, "allocate")
       /\ IF IsOpen(i) /\ t.pay <= TotalOutstanding(i, today - t.lag)
          THEN Goto(p, [t EXCEPT !.written = @ \cup {InstallmentRow(t.c, t.n)},
                                 !.rows = [installments[t.c] EXCEPT
                                             ![t.n] = AfterPayment(i, t.pay, today - t.lag)]],
                    "recompute", {})
          ELSE Rollback(p)
       /\ UNCHANGED job

\* recomputeContractStatus
recompute(p) ==
    LET t == tx[p]
        status1 == RecomputedStatus(SeenStatus(p), SeenRows(p))
    IN /\ At(p, "recompute")
       /\ IF status1 = SeenStatus(p)
          THEN Goto(p, t, "readContract", {})
          ELSE Goto(p, [t EXCEPT !.status = status1, !.then = "readContract"],
                    "writeStatus", {ContractRow(t.c)})
       /\ UNCHANGED job

-----------------------------------------------------------------------------
(* CollectionsService.refreshContractTx, in a payment or on its own *)

\* The early return of a closed contract.
readContract(p) ==
    /\ At(p, "readContract")
    /\ Goto(p, [tx[p] EXCEPT !.oldStatus = SeenStatus(p)],
            IF SeenStatus(p) \in Live THEN "readInstallments" ELSE "commit", {})
    /\ UNCHANGED job

readInstallments(p) ==
    LET t == tx[p]
        overdue == OverdueNumbers(SeenRows(p), today)
    IN /\ At(p, "readInstallments")
       /\ Goto(p, [t EXCEPT !.overdue = overdue, !.days = DaysOverdue(SeenRows(p), today)],
               "flag", {InstallmentRow(t.c, n) : n \in overdue})
       /\ UNCHANGED job

NothingToResolve(k) == k.status \in {"NONE", "RESOLVED", "WRITTEN_OFF"}

\* Wrong on purpose: the update flags every installment of the list read before.
flagUnfiltered(p) ==
    LET t == tx[p]
        k == SeenCase(p)
    IN /\ At(p, "flag")
       /\ Goto(p, [t EXCEPT
                     !.written = @ \cup {InstallmentRow(t.c, n) : n \in t.overdue},
                     !.rows = [n \in DOMAIN SeenRows(p) |->
                                 IF n \in t.overdue
                                 THEN [SeenRows(p)[n] EXCEPT !.status = "OVERDUE"]
                                 ELSE SeenRows(p)[n]],
                     !.oldCase = k],
               "writeCase",
               IF t.days = 0 THEN IF NothingToResolve(k) THEN {} ELSE {CaseRowOf(t.c)}
               ELSE {CaseRowOf(t.c)} \cup (IF k.status = "NONE" THEN {ContractRow(t.c)} ELSE {}))
       /\ UNCHANGED job

\* The update skips an installment closed meanwhile; the case is read next.  To
\* insert a case is to lock the contract it refers to (the foreign key).
flag(p) ==
    LET t == tx[p]
        flagged == {n \in t.overdue : IsOpen(SeenRows(p)[n])}
        k == SeenCase(p)
    IN /\ At(p, "flag")
       /\ Goto(p, [t EXCEPT
                     !.written = @ \cup {InstallmentRow(t.c, n) : n \in flagged},
                     !.rows = [n \in DOMAIN SeenRows(p) |->
                                 IF n \in flagged
                                 THEN [SeenRows(p)[n] EXCEPT !.status = "OVERDUE"]
                                 ELSE SeenRows(p)[n]],
                     !.oldCase = k],
               "writeCase",
               IF t.days = 0 THEN IF NothingToResolve(k) THEN {} ELSE {CaseRowOf(t.c)}
               ELSE {CaseRowOf(t.c)} \cup (IF k.status = "NONE" THEN {ContractRow(t.c)} ELSE {}))
       /\ UNCHANGED job

\* The case and the contract status are decided from what was read before.
writeCase(p) ==
    LET t == tx[p]
        decided == RefreshedCase(t.oldCase, t.days)
        status1 == RefreshedStatus(t.oldStatus, t.days)
        t1 == IF t.days = 0 /\ NothingToResolve(t.oldCase) THEN t
              ELSE [t EXCEPT !.written = @ \cup {CaseRowOf(t.c)},
                             !.kase = IF t.days = 0 THEN decided
                                      ELSE [SeenCase(p) EXCEPT
                                              !.status = decided.status, !.daysOverdue = t.days]]
    IN /\ At(p, "writeCase")
       /\ IF status1 = t.oldStatus
          THEN Goto(p, t1, "commit", {})
          ELSE Goto(p, [t1 EXCEPT !.status = status1, !.then = "commit"],
                    "writeStatus", {ContractRow(t.c)})
       /\ UNCHANGED job

-----------------------------------------------------------------------------
(* CollectionsService.renegotiate *)

beginRenegotiate(p, c, new, term) ==
    /\ tx[p].next = "begin"
    /\ contract[new].status = "NONE" /\ \A q \in Procs : tx[q].new # new
    /\ Goto(p, [Idle EXCEPT !.c = c, !.new = new, !.term = term],
            "lockInstallments", {ContractRow(c)})
    /\ UNCHANGED job

lockInstallments(p) ==
    LET c == tx[p].c IN
    /\ At(p, "lockInstallments")
    /\ Goto(p, tx[p], "consolidate", {InstallmentRow(c, n) : n \in DOMAIN installments[c]})
    /\ UNCHANGED job

consolidate(p) ==
    LET t == tx[p]
        rows == installments[t.c]
        outstanding == ConsolidatedBalance(rows)
    IN /\ At(p, "consolidate")
       /\ IF /\ contract[t.c].status \in Live /\ outstanding \in Nat \ {0}
             /\ today + t.term.firstDueIn \in Nat
          THEN Goto(p, [t EXCEPT
                          !.pay = outstanding,
                          !.status = "RENEGOTIATED",
                          !.written = {ContractRow(t.c)}
                             \cup {InstallmentRow(t.c, n) : n \in OpenNumbers(rows)},
                          !.rows = [n \in DOMAIN rows |->
                                      [rows[n] EXCEPT !.status = "RENEGOTIATED"]]],
                    "closeCase",
                    IF NothingToResolve(kase[t.c]) THEN {} ELSE {CaseRowOf(t.c)})
          ELSE Rollback(p)
       /\ UNCHANGED job

\* Wrong on purpose: the case is written whether or not its row was locked.
closeCaseUnlocked(p) ==
    LET t == tx[p] IN
    /\ At(p, "closeCase")
    /\ Goto(p, [t EXCEPT !.written = @ \cup {CaseRowOf(t.c)},
                         !.kase = [kase[t.c] EXCEPT !.status = "RESOLVED",
                                                    !.dunningStage = 0]],
            "commit", {})
    /\ UNCHANGED job

closeCase(p) ==
    LET t == tx[p] IN
    /\ At(p, "closeCase")
    /\ Goto(p, IF NothingToResolve(kase[t.c]) \/ CaseRowOf(t.c) \notin t.held THEN t
               ELSE [t EXCEPT !.written = @ \cup {CaseRowOf(t.c)},
                              !.kase = [kase[t.c] EXCEPT !.status = "RESOLVED",
                                                         !.dunningStage = 0]],
            "commit", {})
    /\ UNCHANGED job

-----------------------------------------------------------------------------
(* ContractsService.cancel *)

beginCancel(p, c) ==
    /\ tx[p].next = "begin"
    /\ contract[c].status # "NONE"
    /\ Goto(p, [Idle EXCEPT !.c = c], "countPayments", {ContractRow(c)})
    /\ UNCHANGED job

countPayments(p) ==
    LET t == tx[p] IN
    /\ At(p, "countPayments")
    /\ IF HasPayments(t.c) THEN Rollback(p)
       ELSE Goto(p, [t EXCEPT !.written = {ContractRow(t.c)}, !.status = "CANCELLED"],
                 "cancelInstallments",
                 {InstallmentRow(t.c, n) : n \in DOMAIN installments[t.c]})
    /\ UNCHANGED job

cancelInstallments(p) ==
    LET t == tx[p] IN
    /\ At(p, "cancelInstallments")
    /\ Goto(p, [t EXCEPT !.written = @ \cup {InstallmentRow(t.c, n) : n \in DOMAIN installments[t.c]},
                         !.rows = [n \in DOMAIN installments[t.c] |->
                                     [installments[t.c][n] EXCEPT !.status = "CANCELLED"]]],
            "commit", {})
    /\ UNCHANGED job

-----------------------------------------------------------------------------
(* The daily batch: refreshAll, then applyDunningLadder, on lists read once *)

refreshAll(b) ==
    /\ job[b].phase = "idle"
    /\ job' = [job EXCEPT ![b] = [phase |-> "refresh",
                                  todo |-> {c \in Contracts : contract[c].status \in Live}]]
    /\ UNCHANGED <<Committed, tx>>

refreshNext(b) ==
    /\ job[b].phase = "refresh" /\ tx[b].next = "begin"
    /\ \E c \in job[b].todo :
          /\ Goto(b, [Idle EXCEPT !.c = c], "readContract", {})
          /\ job' = [job EXCEPT ![b].todo = @ \ {c}]

\* The stage is chosen from the list, before the transaction that writes it.
listCases(b) ==
    LET due(c) == /\ ~NothingToResolve(kase[c])
                  /\ kase[c].daysOverdue > 0
                  /\ dunningStageFor(kase[c].daysOverdue) > kase[c].dunningStage
    IN /\ job[b] = [phase |-> "refresh", todo |-> {}] /\ tx[b].next = "begin"
       /\ job' = [job EXCEPT ![b] =
             [phase |-> "dunning",
              todo |-> {<<c, dunningStageFor(kase[c].daysOverdue)>> :
                          c \in {d \in Contracts : due(d)}}]]
       /\ UNCHANGED <<Committed, tx>>

escalateNext(b) ==
    /\ job[b].phase = "dunning" /\ tx[b].next = "begin"
    /\ \E e \in job[b].todo :
          /\ Goto(b, [Idle EXCEPT !.c = e[1], !.days = e[2]], "writeStage", {CaseRowOf(e[1])})
          /\ job' = [job EXCEPT ![b].todo = @ \ {e}]

writeStage(b) ==
    LET t == tx[b] IN
    /\ At(b, "writeStage")
    /\ Goto(b, [t EXCEPT !.written = {CaseRowOf(t.c)},
                         !.kase = [kase[t.c] EXCEPT !.dunningStage = t.days]], "commit", {})
    /\ UNCHANGED job

endRun(b) ==
    /\ job[b] = [phase |-> "dunning", todo |-> {}] /\ tx[b].next = "begin"
    /\ job' = [job EXCEPT ![b] = NoJob]
    /\ UNCHANGED <<Committed, tx>>

-----------------------------------------------------------------------------
(* Single statements, and the rest of the ledger's steps *)

\* Statements on a case that are a transaction of their own.  A refresh locks no case
\* before it decides on one: what is said of a case meanwhile, it overwrites.
CaseStatement(c) ==
    /\ \A p \in Procs : CaseRowOf(c) \notin tx[p].held
    /\ CasesOverlap \/ \A p \in Procs : tx[p].c # c
    /\ \/ addInteraction(c)
       \/ addPromise(c)
       \/ breakPromise(c)
    /\ UNCHANGED <<tx, job>>

Create(c, offer) ==
    /\ \A p \in Procs : tx[p].new # c
    /\ createFromProposal(c, offer)
    /\ UNCHANGED <<tx, job>>

\* No transaction spans midnight.
Midnight ==
    /\ \A p \in Procs : tx[p] = Idle
    /\ NextDay
    /\ UNCHANGED <<tx, job>>

Begin(p) ==
    \E c \in Contracts :
        \/ "register" \in Handlers
           /\ \E n \in DOMAIN installments[c], lag \in Backdating :
                 \/ \E pay \in PayAmounts : beginRegister(p, c, n, pay, lag)
                 \/ beginSettle(p, c, n, lag)
        \/ "renegotiate" \in Handlers
           /\ contract[c].status # "NONE"
           /\ \E new \in Contracts \ {c}, term \in Terms : beginRenegotiate(p, c, new, term)
        \/ "cancel" \in Handlers /\ beginCancel(p, c)

Statement(p) ==
    \/ lockInstallment(p) \/ allocate(p) \/ recompute(p) \/ writeStatus(p)
    \/ readContract(p) \/ readInstallments(p) \/ flag(p) \/ writeCase(p)
    \/ lockInstallments(p) \/ consolidate(p) \/ closeCase(p)
    \/ countPayments(p) \/ cancelInstallments(p)
    \/ writeStage(p)
    \/ Commit(p)

Job(b) == refreshAll(b) \/ refreshNext(b) \/ listCases(b) \/ escalateNext(b) \/ endRun(b)

TxNext ==
    \/ Midnight
    \/ \E c \in Contracts : CaseStatement(c)
    \/ \E c \in Loans, offer \in Offers : Create(c, offer)
    \/ \E p \in Clients : Begin(p)
    \/ \E p \in Procs : Acquire(p) \/ AbortDeadlocked(p) \/ Abort(p) \/ Statement(p)
    \/ \E b \in Batch : Job(b)

TxSpec == TxInit /\ [][TxNext]_txVars

\* The server runs what it can run, deadlocks are detected, and PostgreSQL queues the
\* waiters of a row, so nobody is passed over for ever.
FairTxSpec ==
    /\ TxSpec
    /\ \A p \in Procs : /\ WF_txVars(Statement(p))
                        /\ WF_txVars(AbortDeadlocked(p))
                        /\ SF_txVars(Acquire(p))

-----------------------------------------------------------------------------
(* Correctness *)

TxTypeOK ==
    /\ TypeOK
    /\ \A p \in Procs : /\ tx[p].c \in Contracts \cup {None}
                        /\ tx[p].written \subseteq tx[p].held
                        /\ tx[p].held \cap tx[p].want = {}

\* The row locks make every payment, renegotiation and cancellation one step of the
\* ledger to everybody else, whatever the interleaving of their statements; with
\* CasesOverlap, or with the batch beside them, they do not.
ImplementsLedger == Spec

\* Nothing is taken back from the customer by the race of the batch with a payment, a
\* cancellation or a renegotiation: an installment that was closed stays closed (the
\* status filter of the refresh's update).
ClosedInstallmentsStayClosed ==
    [][\A c \in Contracts : \A n \in DOMAIN installments[c] :
          ~IsOpen(installments[c][n]) =>
              \/ installments'[c][n].status = installments[c][n].status
              \/ installments'[c][n].status = "CANCELLED"]_txVars

\* Nobody waits for ever: a request answers, and the batch passes on, in spite of the
\* opposite orders in which a payment and a refresh take their locks.
EveryTransactionEnds ==
    \A p \in Procs : tx[p].next # "begin" ~> tx[p].next = "begin"
=============================================================================
