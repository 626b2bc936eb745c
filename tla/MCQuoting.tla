----------------------------- MODULE MCQuoting -----------------------------
(* A small instance of Quoting: loans of a few reais, of every amortization. *)
EXTENDS Quoting

Loan(amortization, requested, termMonths, num, den, autoIof, tac) ==
    [amortization |-> amortization, requested |-> requested, termMonths |-> termMonths,
     rate |-> [num |-> num, den |-> den], autoIof |-> autoIof, tac |-> tac]

\* The last two are refused: below the least amount, and a balloon.
FewLoans ==
    {Loan("PRICE", 200, 3, 1, 10, TRUE, 0), Loan("SAC", 200, 3, 1, 2, FALSE, 31),
     Loan("SIMPLE", 103, 3, 1, 4, TRUE, 1),
     Loan("PRICE", 101, 3, 0, 1, FALSE, 0), Loan("PRICE", 200, 3, 1, 40, TRUE, 9),
     Loan("PRICE", 99, 1, 0, 1, FALSE, 0), Loan("PRICE", 200, 7, 2, 1, FALSE, 0)}
=============================================================================
