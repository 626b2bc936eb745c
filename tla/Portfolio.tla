----------------------------- MODULE Portfolio -----------------------------
(***************************************************************************)
(* What the system reports of the ledger: the figures of the dashboard     *)
(* (DashboardService.overview), of a customer                              *)
(* (CustomersService.getFinancialHistory) and of a contract (summarize, in *)
(* the list of contracts), and the rows of the CSV exports of contracts    *)
(* and cases (ReportsService).                                             *)
(* The contracts of the ledger are taken to be of one customer, and the    *)
(* queries of a report to see one state of the tables.                     *)
(***************************************************************************)
EXTENDS ContractLedger

CONSTANT ExportRowCap   \* EXPORT_ROW_CAP, the most rows of one export

\* A table has finitely many rows.
ASSUME ReportsAssumption ==
    /\ ExportRowCap \in Nat \ {0}
    /\ IsFiniteSet(Contracts)

Keys == UNION {{<<c, n>> : n \in DOMAIN installments[c]} : c \in Contracts}
Row(k) == installments[k[1]][k[2]]

\* What is summed, per installment.
Principal == [k \in Keys |-> Row(k).principalDue]
Received == [k \in Keys |-> received[k[1]][k[2]]]
Paid == [k \in Keys |-> Row(k).amountPaid]
Base == [k \in Keys |-> Row(k).amountDue - Row(k).amountPaid]
Charges ==
    [k \in Keys |->
        LET o == computeOutstanding(Row(k), DaysLate(Row(k), today)) IN o.fine + o.interest]

WithStatus(statuses) == {k \in Keys : Row(k).status \in statuses}
NotCancelled == {k \in Keys : contract[k[1]].status # "CANCELLED"}
OfLiveContracts == {k \in Keys : contract[k[1]].status \in Live}

\* Wrong on purpose: what is overdue is not outstanding.
OutstandingKeysNotYetDue == WithStatus({"PENDING", "PARTIALLY_PAID"}) \cap OfLiveContracts

\* overview counts the open installments of live contracts as outstanding, and as
\* upcoming those that fall due within six months.
OutstandingKeys == WithStatus({"PENDING", "PARTIALLY_PAID", "OVERDUE"}) \cap OfLiveContracts
UpcomingKeys == {k \in OutstandingKeys : Row(k).dueDay \in today..(today + 6 * MonthDays)}

overview ==
    [totalLent |-> SumFunctionOnSet(Principal, NotCancelled),
     totalReceived |-> SumFunctionOnSet(Received, Keys),
     portfolioOutstanding |-> SumFunctionOnSet(Base, OutstandingKeys),
     totalOverdue |-> SumFunctionOnSet(Base, WithStatus({"OVERDUE"})),
     lateCharges |-> SumFunctionOnSet(Charges, WithStatus({"OVERDUE"})),
     upcomingReceivables |-> SumFunctionOnSet(Base, UpcomingKeys)]

\* summarize, of one contract; getFinancialHistory adds the same up over a customer's.
SummarizedKeys == Keys \ WithStatus({"PAID", "CANCELLED"})
KeysOf(c) == {k \in Keys : k[1] = c}

summarize(c) ==
    [totalPaid |-> SumFunctionOnSet(Paid, KeysOf(c)),
     outstanding |-> SumFunctionOnSet(Base, KeysOf(c) \cap SummarizedKeys),
     overdue |-> SumFunctionOnSet(Base, KeysOf(c) \cap WithStatus({"OVERDUE"}))]

\* The list of contracts and the page of one, each with its summary.
findAll == [c \in Contracts |-> summarize(c)]

getFinancialHistory ==
    [totalPaid |-> SumFunctionOnSet(Paid, Keys),
     outstanding |-> SumFunctionOnSet(Base, SummarizedKeys),
     overdue |-> SumFunctionOnSet(Base, WithStatus({"OVERDUE"}))]

-----------------------------------------------------------------------------
(* Exports, without a date filter *)

\* The first rows of a table ordered by descending keys, or all if there are fewer; the
\* order of rows with equal keys is open.
Top(number, rows, key) ==
    {taken \in SUBSET rows :
        /\ Cardinality(taken) = Min({number, Cardinality(rows)})
        /\ \A row \in taken, other \in rows \ taken : key[other] <= key[row]}

\* audited: one row more than the cap is fetched, only to see whether there is one.
audited(rows, key) ==
    UNION {{[rows |-> exported, capped |-> Cardinality(fetched) > ExportRowCap] :
               exported \in Top(ExportRowCap, fetched, key)} :
           fetched \in Top(ExportRowCap + 1, rows, key)}

\* The latest contracts first: when a contract was created is not state.
contractsExports ==
    audited({c \in Contracts : Exists(c)}, [c \in Contracts |-> 0])

\* A contract's principal is that of its installments.
principal == [c \in Contracts |-> SumFunctionOnSet(Principal, KeysOf(c))]

\* The cases longest overdue first.
collectionsExports ==
    audited({c \in Contracts : kase[c].status # "NONE"},
            [c \in Contracts |-> kase[c].daysOverdue])

-----------------------------------------------------------------------------
\* An export is complete, or says that it is not ("so a clipped export is always
\* visible", reports.service.ts:13), and then it leaves out cases that are overdue for
\* fewer days than those it has; the principal of a complete export of the contracts is
\* what the dashboard says was lent, and a defaulted contract is in a complete export of
\* the cases, overdue for some days.
ExportsReconcile ==
    /\ \A e \in contractsExports :
          /\ e.capped <=> \E c \in Contracts \ e.rows : Exists(c)
          /\ ~e.capped => overview.totalLent =
                SumFunctionOnSet(principal, {c \in e.rows : contract[c].status # "CANCELLED"})
    /\ \A e \in collectionsExports :
          LET omitted == {c \in Contracts \ e.rows : kase[c].status # "NONE"} IN
          /\ e.capped <=> omitted # {}
          /\ \A c \in omitted, d \in e.rows : kase[c].daysOverdue <= kase[d].daysOverdue
          /\ ~e.capped => \A c \in Contracts : contract[c].status = "DEFAULTED" =>
                c \in e.rows /\ kase[c].daysOverdue > 0

\* The reports agree with each other and with the ledger, whatever was paid, flagged,
\* renegotiated and cancelled, and the exports with both.  The list of contracts adds up
\* to the customer's history; what is overdue and what is still to come are parts of what
\* is outstanding, so the delinquency rate is at most 100%; what was received is what the
\* installments show as paid and the charges collected; what was lent, with its
\* interest, is paid or outstanding; and a customer owes what the dashboard says,
\* but for the balance of renegotiated contracts, which his history and those contracts
\* go on to show as open (customers.service.ts:180, contracts.service.ts:360).
ReportsReconcile ==
    LET d == overview
        h == getFinancialHistory
        listed(figure) == SumFunctionOnSet([c \in Contracts |-> findAll[c][figure]], Contracts)
        charged == [k \in Keys |-> Row(k).lateFee + Row(k).lateInterest]
        interest == [k \in Keys |-> Row(k).interestDue]
    IN /\ d.totalOverdue + d.upcomingReceivables <= d.portfolioOutstanding
       /\ d.lateCharges > 0 => d.totalOverdue > 0
       /\ d.totalReceived = h.totalPaid + SumFunctionOnSet(charged, Keys)
       /\ d.totalLent + SumFunctionOnSet(interest, NotCancelled) = h.totalPaid + h.outstanding
       /\ h.overdue = d.totalOverdue
       /\ \A figure \in {"totalPaid", "outstanding", "overdue"} : listed(figure) = h[figure]
       /\ h.outstanding = d.portfolioOutstanding + SumFunctionOnSet(Base, WithStatus({"RENEGOTIATED"}))
       /\ \A c \in Contracts : contract[c].status \in {"SETTLED", "CANCELLED"} =>
             findAll[c].outstanding = 0
       /\ ExportsReconcile
=============================================================================
