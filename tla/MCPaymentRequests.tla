-------------------------- MODULE MCPaymentRequests --------------------------
(* Small instances of PaymentRequests. *)
EXTENDS PaymentRequests

OneInstallment == {[principal |-> 10000, termMonths |-> 1, firstDueIn |-> 5]}
OneTerm == {[termMonths |-> 1, firstDueIn |-> 30]}
=============================================================================
