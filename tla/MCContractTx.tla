---------------------------- MODULE MCContractTx ----------------------------
(* Small instances of ContractTx. *)
EXTENDS ContractTx

TwoInstallments == {[principal |-> 10000, termMonths |-> 2, firstDueIn |-> 30]}
OneOffer == {[principal |-> 10000, termMonths |-> 1, firstDueIn |-> 30]}
OneInstallment == {[termMonths |-> 1, firstDueIn |-> 30]}
=============================================================================
