---------------------------- MODULE LateCharges ----------------------------
(***************************************************************************)
(* What an installment owes on a given day and how a payment is allocated: *)
(* the pure functions of domain/finance/finance.ts (computeLateCharges,    *)
(* computeOutstanding) and the allocation waterfall of PaymentsService.    *)
(*                                                                         *)
(* Money is integer cents, as in the code.  Rates are integers over        *)
(* RateScale (the schema stores Decimal(9,6)), so a rounded product is the *)
(* exact half-up rounding of a rational; the binary floating point the     *)
(* code multiplies with is abstracted.  Days are integers (daysBetween of  *)
(* two local midnights).                                                   *)
(***************************************************************************)
EXTENDS Integers

CONSTANTS
    RateScale,         \* denominator of every rate
    LateFeeRate,       \* Contract.lateFeeRate: one-time fine (multa)
    LateInterestRate   \* Contract.lateInterestRate: arrears interest (mora), per month

ASSUME RateAssumption ==
    /\ RateScale \in Nat \ {0}
    /\ LateFeeRate \in Int
    /\ LateInterestRate \in Int

NonNeg(x) == IF x < 0 THEN 0 ELSE x
Least(a, b) == IF a <= b THEN a ELSE b

\* Math.round of num / den, for num >= 0 and den > 0: halves go up.
RoundDiv(num, den) == (2 * num + den) \div (2 * den)

\* Fine and arrears interest accrued on `base` cents that are `days` late.
\* The interest is pro rata per day of a 30-day month, and capped.
Fine(base) == RoundDiv(base * NonNeg(LateFeeRate), RateScale)
Mora(base, days) == RoundDiv(base * NonNeg(LateInterestRate) * days, 30 * RateScale)

computeLateCharges(outstanding, daysLate, maxInterest) ==
    LET base == NonNeg(outstanding) IN
    IF daysLate <= 0 \/ base = 0
    THEN [fine |-> 0, interest |-> 0]
    ELSE [fine |-> Fine(base),
          interest |-> Least(Mora(base, daysLate), NonNeg(maxInterest))]

\* The columns of an Installment row that the money operations read and write.
Installment == [dueDay : Nat, principalDue : Nat, interestDue : Nat, amountDue : Nat,
                amountPaid : Nat, lateFee : Nat, lateInterest : Nat,
                status : {"PENDING", "PARTIALLY_PAID", "PAID", "OVERDUE",
                          "RENEGOTIATED", "CANCELLED"}]

DaysLate(i, day) == NonNeg(day - i.dueDay)
BaseOutstanding(i) == NonNeg(i.amountDue - i.amountPaid)

\* Wrong on purpose: forgets the charges already paid.
computeOutstandingUncredited(i, daysLate) ==
    LET base == BaseOutstanding(i)
        gross == computeLateCharges(base, daysLate, base)
    IN [base |-> base, fine |-> gross.fine, interest |-> gross.interest]

\* What installment i still owes when it is daysLate days late: the base not yet
\* paid, and the charges accrued on that base less the charges already paid.
\* Arrears interest is capped at the base itself.
computeOutstanding(i, daysLate) ==
    LET base == BaseOutstanding(i)
        gross == computeLateCharges(base, daysLate, base) IN
    IF base = 0 \/ daysLate <= 0
    THEN [base |-> base, fine |-> 0, interest |-> 0]
    ELSE [base |-> base,
          fine |-> NonNeg(gross.fine - i.lateFee),
          interest |-> NonNeg(gross.interest - i.lateInterest)]

TotalOutstanding(i, day) ==
    LET o == computeOutstanding(i, DaysLate(i, day)) IN o.base + o.fine + o.interest

\* Wrong on purpose: the base is served first, the charges from what is left.
AllocateBaseFirst(i, pay, day) ==
    LET o == computeOutstanding(i, DaysLate(i, day))
        payBase == Least(pay, o.base)
        payMora == Least(pay - payBase, o.interest)
    IN [base |-> payBase, mora |-> payMora,
        fine |-> Least(pay - payBase - payMora, o.fine)]

\* Wrong on purpose: the fine is taken from the whole payment, not from the rest.
AllocateFineTwice(i, pay, day) ==
    LET o == computeOutstanding(i, DaysLate(i, day))
        payMora == Least(pay, o.interest)
    IN [mora |-> payMora, fine |-> Least(pay, o.fine),
        base |-> Least(pay - payMora, o.base)]

\* Allocation of `pay` cents on `day`: arrears interest, then fine, then base.
Allocate(i, pay, day) ==
    LET o == computeOutstanding(i, DaysLate(i, day))
        payMora == Least(pay, o.interest)
        payFine == Least(pay - payMora, o.fine)
    IN [mora |-> payMora, fine |-> payFine,
        base |-> Least(pay - payMora - payFine, o.base)]

\* The split of the base part of an allocation, interest before principal: the
\* interest already paid is inferred from amountPaid, there is no column for it.
InterestPortion(i, payBase) ==
    Least(payBase, NonNeg(i.interestDue - Least(i.amountPaid, i.interestDue)))
PrincipalPortion(i, payBase) == payBase - InterestPortion(i, payBase)

\* Wrong on purpose: the fine column is decreased by what is paid of it.
AfterPaymentFineOwed(i, pay, day) ==
    LET a == Allocate(i, pay, day) IN
    [i EXCEPT !.amountPaid = @ + a.base,
              !.lateFee = @ - a.fine,
              !.lateInterest = @ + a.mora,
              !.status = IF i.amountPaid + a.base >= i.amountDue
                         THEN "PAID" ELSE "PARTIALLY_PAID"]

\* The row after the payment, before the arrears refresh of the same transaction.
AfterPayment(i, pay, day) ==
    LET a == Allocate(i, pay, day)
        newAmountPaid == i.amountPaid + a.base
    IN [i EXCEPT !.amountPaid = newAmountPaid,
                 !.lateFee = @ + a.fine,
                 !.lateInterest = @ + a.mora,
                 !.status = IF newAmountPaid >= i.amountDue
                            THEN "PAID" ELSE "PARTIALLY_PAID"]
=============================================================================
