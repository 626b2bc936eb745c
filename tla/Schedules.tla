----------------------------- MODULE Schedules -----------------------------
(***************************************************************************)
(* What a loan costs: the schedules, the effective cost and the guards of  *)
(* domain/finance/finance.ts and fees.ts.                                  *)
(*                                                                         *)
(* Money is integer cents.  A monthly rate is a fraction [num, den]; the   *)
(* products, powers and quotients that the code takes in floating point    *)
(* are exact here, and rounded where the code rounds.  The effective rate  *)
(* is found by the same bisection, on a grid instead of a tolerance.       *)
(***************************************************************************)
EXTENDS Integers, Sequences

CONSTANT RateGrid       \* bound: the effective rate is a multiple of 1 / RateGrid

ASSUME GridAssumption == RateGrid \in Nat \ {0}

AmortizationType == {"PRICE", "SAC", "SIMPLE"}

Lesser(a, b) == IF a <= b THEN a ELSE b
Greater(a, b) == IF a <= b THEN b ELSE a

\* Math.round(num / den), for den > 0: halves go up.
roundCents(num, den) == (2 * num + den) \div (2 * den)

\* values.reduce((acc, v) => acc + v, 0)
sum(values) ==
    LET acc[k \in 0..Len(values)] == IF k = 0 THEN 0 ELSE acc[k-1] + values[k]
    IN acc[Len(values)]

\* Math.pow, of a natural exponent.
pow(base, exponent) ==
    LET p[k \in 0..exponent] == IF k = 0 THEN 1 ELSE base * p[k-1]
    IN p[exponent]

TotalPrincipal(entries) == sum([k \in DOMAIN entries |-> entries[k].principal])
TotalInterest(entries) == sum([k \in DOMAIN entries |-> entries[k].interest])
TotalAmount(entries) == sum([k \in DOMAIN entries |-> entries[k].amount])

\* The entries, from the principal repaid and the interest charged by each number.
Entries(P, n, repaid, interest) ==
    [k \in 1..n |->
        [principal |-> repaid[k] - repaid[k-1], interest |-> interest[k],
         amount |-> repaid[k] - repaid[k-1] + interest[k],
         balance |-> Greater(P - repaid[k], 0)]]

OnBalance(P, i, n, repaid) ==
    [k \in 1..n |-> roundCents((P - repaid[k-1]) * i.num, i.den)]

\* P * i / (1 - (1+i)^-n)
pricePaymentCents(P, i, n) ==
    LET up == i.num + i.den IN
    IF i.num = 0 THEN roundCents(P, n)
    ELSE roundCents(P * i.num * pow(up, n), i.den * (pow(up, n) - pow(i.den, n)))

\* Fixed payments: the running total follows the balance P(1+i)^k - pmt((1+i)^k - 1)/i
\* owed in theory, and the last installment closes what is left.
RepaidByPrice(P, i, n) ==
    LET pmt == pricePaymentCents(P, i, n)
        grown(k) == pow(i.num + i.den, k)
        owedNum(k) == IF i.num = 0 THEN P * (n - k)
                      ELSE P * i.num * grown(k) - pmt * i.den * (grown(k) - pow(i.den, k))
        owedDen(k) == IF i.num = 0 THEN n ELSE i.num * pow(i.den, k)
        target(k) == roundCents(P * owedDen(k) - Greater(0, owedNum(k)), owedDen(k))
        repaid[k \in 0..n] ==
            IF k = 0 THEN 0 ELSE IF k = n THEN P
            ELSE LET before == repaid[k-1]
                 IN before + Lesser(Greater(target(k) - before, 0), P - before)
    IN repaid

buildPriceSchedule(P, i, n) ==
    LET repaid == RepaidByPrice(P, i, n) IN Entries(P, n, repaid, OnBalance(P, i, n, repaid))

\* Equal principal, floored; the last installment takes the residue.
buildSacSchedule(P, i, n) ==
    LET repaid == [k \in 0..n |-> IF k < n THEN k * (P \div n) ELSE P]
    IN Entries(P, n, repaid, OnBalance(P, i, n, repaid))

\* Equal principal and equal interest, as differences of rounded running totals.
buildSimpleSchedule(P, i, n) ==
    LET repaid == [k \in 0..n |-> roundCents(P * k, n)]
        charged == [k \in 0..n |-> roundCents(roundCents(P * i.num * n, i.den) * k, n)]
    IN Entries(P, n, repaid, [k \in 1..n |-> charged[k] - charged[k-1]])

simulate(P, i, n, amortization) ==
    CASE amortization = "PRICE"  -> buildPriceSchedule(P, i, n)
      [] amortization = "SAC"    -> buildSacSchedule(P, i, n)
      [] amortization = "SIMPLE" -> buildSimpleSchedule(P, i, n)

\* The present value of the installments at x / RateGrid a month, less the cash
\* released, times (RateGrid + x)^n, by Horner's rule: only its sign matters.
Npv(released, entries, x) ==
    LET upTo[k \in 0..Len(entries)] ==
            IF k = 0 THEN [scale |-> 1, value |-> -released]
            ELSE LET before == upTo[k-1]
                     scale == RateGrid * before.scale
                 IN [scale |-> scale,
                     value |-> (RateGrid + x) * before.value + scale * entries[k].amount]
    IN upTo[Len(entries)].value

\* The lower end once the bracket 0..high is halved down to one step.
bisect(released, entries, high) ==
    LET bracket[k \in 0..high] ==
            IF k = 0 THEN [low |-> 0, high |-> high]
            ELSE LET b == bracket[k-1]
                     mid == (b.low + b.high) \div 2
                 IN IF b.high - b.low <= 1 THEN b
                    ELSE IF Npv(released, entries, mid) > 0 THEN [b EXCEPT !.low = mid]
                    ELSE [b EXCEPT !.high = mid]
    IN bracket[high].low

\* Wrong on purpose: the upper bound stays at 100% a month.
computeMonthlyIrrCapped(released, entries) ==
    IF Npv(released, entries, 0) <= 0 THEN 0 ELSE bisect(released, entries, RateGrid)

\* The upper bound: 100% a month, doubled until it brackets the root, twenty times at
\* most, since 2^20 is over HIGH_CAP.
Doublings == 20
UpperBound(released, entries) ==
    LET bound(m) == RateGrid * pow(2, m)
    IN bound(CHOOSE m \in 0..Doublings :
                /\ \A j \in 0..(m-1) : Npv(released, entries, bound(j)) > 0
                /\ m = Doublings \/ Npv(released, entries, bound(m)) <= 0)

computeMonthlyIrr(released, entries) ==
    IF Npv(released, entries, 0) <= 0 THEN 0
    ELSE bisect(released, entries, UpperBound(released, entries))

\* A payment of nothing, a negative part, a balloon, or a first payment of which
\* less than a thousandth is principal.
isNonAmortizing(entries) ==
    \/ \E k \in DOMAIN entries :
          entries[k].amount <= 0 \/ entries[k].principal < 0 \/ entries[k].interest < 0
    \/ \E k \in 1..(Len(entries) - 1) : entries[k].principal <= 0
    \/ Len(entries) > 1 /\ entries[1].principal * 1000 < entries[1].amount

\* IOF: 0.38% and 0.0082% a day, of at most 365 days.
estimateIofCents(principal, termMonths) ==
    roundCents(principal * (3800 + 82 * Lesser(termMonths * 30, 365)), 1000000)

\* What a loan of `cash` with these charges costs, at the terms of t; no rate is
\* looked for when the schedule is refused anyway.
Costing(cash, iof, tac, t) ==
    LET schedule == simulate(cash + iof + tac, t.rate, t.termMonths, t.amortization) IN
    [cash |-> cash, iof |-> iof, tac |-> tac, financed |-> cash + iof + tac,
     total |-> TotalAmount(schedule), interest |-> TotalInterest(schedule),
     cet |-> IF isNonAmortizing(schedule) THEN 0 ELSE computeMonthlyIrr(cash, schedule),
     schedule |-> schedule]

\* IOF in proportion to the amount approved, TAC as agreed.
computeContractCosting(approved, requested, iof, tac, t) ==
    Costing(approved,
            IF approved = requested THEN iof ELSE roundCents(iof * approved, requested),
            tac, t)
=============================================================================
