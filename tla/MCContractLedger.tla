-------------------------- MODULE MCContractLedger --------------------------
(***************************************************************************)
(* Small instances of ContractLedger and Portfolio.  Amounts and rates are *)
(* realistic: a 100.00 loan in two installments at 2% a month, a 2% fine   *)
(* and 1% a month of arrears interest, so that rounding and every part of  *)
(* the waterfall happen.  The clock moves in steps long enough to cross    *)
(* the due dates and the thresholds of the dunning ladder within the       *)
(* bound.                                                                  *)
(***************************************************************************)
EXTENDS Portfolio

TwoInstallments == {[principal |-> 10000, termMonths |-> 2, firstDueIn |-> 30]}
OneInstallment == {[termMonths |-> 1, firstDueIn |-> 30]}

\* Seeded: an overdue loan; or a healthy one, with a settled one beside it.
Demo(made) ==
    [principal |-> 10000, termMonths |-> 2, startMonthsAgo |-> 2, paymentsMade |-> made]
DemoDatabases ==
    {[today |-> 31, loans |-> [c \in Loans |-> Demo(0)]],
     [today |-> 31, loans |-> [c \in Contracts |-> Demo(IF c \in Loans THEN 1 ELSE 2)]]}
=============================================================================
