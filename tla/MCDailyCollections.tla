------------------------- MODULE MCDailyCollections -------------------------
(* Small instances of DailyCollections. *)
EXTENDS DailyCollections

TwoInstallments == {[principal |-> 10000, termMonths |-> 2, firstDueIn |-> 0]}
OneTerm == {[termMonths |-> 1, firstDueIn |-> 30]}
OneInstance == [j \in Jobs |-> "api"]
=============================================================================
