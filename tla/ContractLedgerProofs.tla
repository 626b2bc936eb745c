------------------------ MODULE ContractLedgerProofs ------------------------
(***************************************************************************)
(* The money functions, and the invariants and action properties of        *)
(* ContractLedger, for any set of contracts, any rates, terms, amounts,    *)
(* backdating and clock.                                                   *)
(*                                                                         *)
(* Of the money functions: an accepted payment is allocated to the last    *)
(* cent, and takes exactly its amount off the debt.  The work is in        *)
(* showing that a charge, recomputed on the smaller base a payment leaves, *)
(* and less what was paid of it, never grows back: rounding is monotone,   *)
(* and so are both charges.  For the same reason an installment owes no    *)
(* more on any day once more was paid of it, whatever day that payment was *)
(* dated.                                                                  *)
(*                                                                         *)
(* Of the ledger: IInv strengthens its invariants to an inductive one.     *)
(* Per installment (RowOK): what is due is principal and interest, the     *)
(* columns add up to what was received, no more base is paid than due, and *)
(* the charges paid are at most those of the whole installment.  Per       *)
(* contract (StatusOK, CaseOK): its status agrees with its rows, what is   *)
(* flagged is past due, a defaulted contract has a case that is overdue    *)
(* for some days, a resolved case has no stage.  Across contracts          *)
(* (DebtOwedOnce): a debt is carried once.  Each action is shown to keep   *)
(* IInv by rebuilding the one or two contracts it writes and framing the   *)
(* rest.                                                                   *)
(***************************************************************************)
EXTENDS ContractLedger, SequenceTheorems, FiniteSetTheorems, WellFoundedInduction, TLAPS

-----------------------------------------------------------------------------
(* What an installment owes, and how a payment is allocated *)

\* Rounding a ratio of naturals gives a whole number of cents.
LEMMA RoundDivNat ==
  ASSUME NEW a \in Nat, NEW d \in Nat \ {0}
  PROVE  RoundDiv(a, d) \in Nat
BY DEF RoundDiv

\* Rounding keeps the order: less to round never rounds to more.
LEMMA RoundDivMonotone ==
  ASSUME NEW a \in Nat, NEW b \in Nat, NEW d \in Nat \ {0}, a <= b
  PROVE  RoundDiv(a, d) <= RoundDiv(b, d)
BY DEF RoundDiv

\* The products the charges are made of; the solver needs them one at a time.
LEMMA NatProduct ==
  ASSUME NEW a \in Nat, NEW b \in Nat
  PROVE  a * b \in Nat
OBVIOUS

\* A product shrinks with its first factor.
LEMMA ProductMonotone ==
  ASSUME NEW a \in Nat, NEW b \in Nat, NEW c \in Nat, a <= b
  PROVE  a * c <= b * c
OBVIOUS

\* The fine on a smaller base is not larger (computeLateCharges).
LEMMA FineMonotone ==
  ASSUME NEW a \in Nat, NEW b \in Nat, a <= b
  PROVE  Fine(a) \in Nat /\ Fine(b) \in Nat /\ Fine(a) <= Fine(b)
<1> DEFINE r == NonNeg(LateFeeRate)
<1>1. r \in Nat
  BY RateAssumption DEF NonNeg
<1>2. a * r \in Nat /\ b * r \in Nat /\ a * r <= b * r
  BY <1>1, NatProduct, ProductMonotone
<1> HIDE DEF r
<1>3. /\ RoundDiv(a * r, RateScale) \in Nat
      /\ RoundDiv(b * r, RateScale) \in Nat
      /\ RoundDiv(a * r, RateScale) <= RoundDiv(b * r, RateScale)
  BY <1>2, RoundDivNat, RoundDivMonotone, RateAssumption
<1> QED
  BY <1>3 DEF Fine, r

\* The arrears interest of a smaller base over the same days is not larger.
LEMMA MoraMonotone ==
  ASSUME NEW a \in Nat, NEW b \in Nat, NEW days \in Nat, a <= b
  PROVE  Mora(a, days) \in Nat /\ Mora(b, days) \in Nat /\ Mora(a, days) <= Mora(b, days)
<1> DEFINE r == NonNeg(LateInterestRate)
<1>1. r \in Nat
  BY RateAssumption DEF NonNeg
<1>2. a * r \in Nat /\ b * r \in Nat /\ a * r <= b * r
  BY <1>1, NatProduct, ProductMonotone
<1>3. /\ a * r * days \in Nat /\ b * r * days \in Nat
      /\ a * r * days <= b * r * days
  <2> HIDE DEF r
  <2> QED
    BY <1>2, NatProduct, ProductMonotone
<1> HIDE DEF r
<1>4. 30 * RateScale \in Nat \ {0}
  BY RateAssumption
<1>5. /\ RoundDiv(a * r * days, 30 * RateScale) \in Nat
      /\ RoundDiv(b * r * days, 30 * RateScale) \in Nat
      /\ RoundDiv(a * r * days, 30 * RateScale) <= RoundDiv(b * r * days, 30 * RateScale)
  BY <1>3, <1>4, RoundDivNat, RoundDivMonotone
<1> QED
  BY <1>5 DEF Mora, r
\* Every installment row the ledger keeps: never more base paid than due.
LEMMA OutstandingNat ==
  ASSUME NEW i \in Installment, NEW d \in Nat
  PROVE  computeOutstanding(i, d) \in [base : Nat, fine : Nat, interest : Nat]
<1> DEFINE b == BaseOutstanding(i)
<1>1. b \in Nat
  BY DEF BaseOutstanding, NonNeg, Installment
<1>2. Fine(b) \in Nat /\ Mora(b, d) \in Nat
  <2> HIDE DEF b
  <2>1. b <= b
    BY <1>1
  <2> QED
    BY <1>1, <2>1, FineMonotone, MoraMonotone
<1> DEFINE g == computeLateCharges(b, d, b)
<1>3. g.fine \in Nat /\ g.interest \in Nat
  <2> HIDE DEF b
  <2> QED
    BY <1>1, <1>2 DEF computeLateCharges, NonNeg, Least
<1> HIDE DEF b, g
<1>4. /\ NonNeg(g.fine - i.lateFee) \in Nat
      /\ NonNeg(g.interest - i.lateInterest) \in Nat
  BY <1>3 DEF NonNeg, Installment
<1> QED
  BY <1>1, <1>4 DEF computeOutstanding, b, g

\* A charge that is due is the gross charge on the base still owed, less what was
\* paid of it, and it shrinks with the base.
LEMMA ChargesShrink ==
  ASSUME NEW b \in Nat, NEW c \in Nat, NEW d \in Nat, b <= c
  PROVE  LET small == computeLateCharges(b, d, b)
             large == computeLateCharges(c, d, c)
         IN  /\ small.fine \in Nat /\ small.interest \in Nat
             /\ large.fine \in Nat /\ large.interest \in Nat
             /\ small.fine <= large.fine /\ small.interest <= large.interest
<1>1. /\ Fine(b) \in Nat /\ Fine(c) \in Nat /\ Fine(b) <= Fine(c)
      /\ Mora(b, d) \in Nat /\ Mora(c, d) \in Nat /\ Mora(b, d) <= Mora(c, d)
  BY FineMonotone, MoraMonotone
<1> QED
  BY <1>1 DEF computeLateCharges, NonNeg, Least

\* A payment that register() accepts is allocated to the last cent.
LEMMA AllocationExact ==
  ASSUME NEW i \in Installment, NEW day \in Int, NEW pay \in Nat,
         pay <= TotalOutstanding(i, day)
  PROVE  LET a == Allocate(i, pay, day)
             o == computeOutstanding(i, DaysLate(i, day))
         IN  /\ a.mora \in Nat /\ a.fine \in Nat /\ a.base \in Nat
             /\ a.mora + a.fine + a.base = pay
             /\ a.mora <= o.interest /\ a.fine <= o.fine /\ a.base <= o.base
             /\ a.base > 0 => a.mora = o.interest /\ a.fine = o.fine
<1> DEFINE o == computeOutstanding(i, DaysLate(i, day))
<1>1. DaysLate(i, day) \in Nat
  BY DEF DaysLate, NonNeg, Installment
<1>2. o.base \in Nat /\ o.fine \in Nat /\ o.interest \in Nat
  BY <1>1, OutstandingNat
<1>3. pay <= o.base + o.fine + o.interest
  BY DEF TotalOutstanding
<1> HIDE DEF o
<1> QED
  BY <1>2, <1>3 DEF Allocate, Least, o

\* Paying p cents on a day takes p cents off what the installment owes on that day:
\* no charge already paid is billed again, none disappears (computeOutstanding after
\* the update that register makes).
THEOREM PaymentReducesDebtExactly ==
  ASSUME NEW i \in Installment, NEW day \in Int, NEW pay \in Nat,
         i.amountPaid <= i.amountDue, pay <= TotalOutstanding(i, day)
  PROVE  TotalOutstanding(AfterPayment(i, pay, day), day) = TotalOutstanding(i, day) - pay
<1> DEFINE d == DaysLate(i, day)
           o == computeOutstanding(i, d)
           a == Allocate(i, pay, day)
           j == AfterPayment(i, pay, day)
           b == i.amountDue - i.amountPaid
           c == b - a.base
<1>1. d \in Nat
  BY DEF DaysLate, NonNeg, Installment
<1>2. o.base \in Nat /\ o.fine \in Nat /\ o.interest \in Nat
  BY <1>1, OutstandingNat
<1>3. /\ a.mora \in Nat /\ a.fine \in Nat /\ a.base \in Nat
      /\ a.mora + a.fine + a.base = pay
      /\ a.mora <= o.interest /\ a.fine <= o.fine /\ a.base <= o.base
      /\ a.base > 0 => a.mora = o.interest /\ a.fine = o.fine
  BY AllocationExact
<1>4. b \in Nat /\ BaseOutstanding(i) = b /\ o.base = b
  BY DEF BaseOutstanding, NonNeg, Installment, computeOutstanding
<1>5. c \in Nat /\ c <= b
  BY <1>3, <1>4
<1>6. /\ j.dueDay = i.dueDay /\ j.amountDue = i.amountDue
      /\ j.amountPaid = i.amountPaid + a.base
      /\ j.lateFee = i.lateFee + a.fine /\ j.lateInterest = i.lateInterest + a.mora
  <2> HIDE DEF a
  <2> QED BY DEF AfterPayment, Installment, a
<1>7. BaseOutstanding(j) = c /\ DaysLate(j, day) = d
  <2>1. i.amountDue \in Nat /\ i.amountPaid \in Nat
    BY DEF Installment
  <2> HIDE DEF a, j
  <2> QED
    BY <2>1, <1>3, <1>5, <1>6 DEF BaseOutstanding, NonNeg, DaysLate
<1> DEFINE G == computeLateCharges(b, d, b)
           H == computeLateCharges(c, d, c)
<1>8. /\ G.fine \in Nat /\ G.interest \in Nat /\ H.fine \in Nat /\ H.interest \in Nat
      /\ H.fine <= G.fine /\ H.interest <= G.interest
  <2> HIDE DEF b, c
  <2> QED BY <1>1, <1>4, <1>5, ChargesShrink
<1>9. o = IF b = 0 \/ d <= 0
          THEN [base |-> b, fine |-> 0, interest |-> 0]
          ELSE [base |-> b, fine |-> NonNeg(G.fine - i.lateFee),
                interest |-> NonNeg(G.interest - i.lateInterest)]
  BY <1>4 DEF computeOutstanding
<1>10. computeOutstanding(j, d) =
          IF c = 0 \/ d <= 0
          THEN [base |-> c, fine |-> 0, interest |-> 0]
          ELSE [base |-> c, fine |-> NonNeg(H.fine - j.lateFee),
                interest |-> NonNeg(H.interest - j.lateInterest)]
  BY <1>7 DEF computeOutstanding
<1>11. a.base = 0 => c = b /\ G = H
  BY <1>4
<1> DEFINE q == computeOutstanding(j, d)
<1>12. c = b - a.base
  OBVIOUS
<1>13. i.lateFee \in Nat /\ i.lateInterest \in Nat
  BY DEF Installment
<1>14. q.base = c /\ q.fine = o.fine - a.fine /\ q.interest = o.interest - a.mora
  <2> HIDE DEF o, a, j, b, c, d, G, H, q
  <2>1. CASE a.base = 0
    BY <2>1, <1>1, <1>2, <1>3, <1>4, <1>5, <1>6, <1>8, <1>9, <1>10, <1>11, <1>13 DEF NonNeg, q
  <2>2. CASE a.base > 0
    <3>1. a.mora = o.interest /\ a.fine = o.fine
      BY <2>2, <1>3
    <3>2. q.fine = 0 /\ q.interest = 0
      BY <3>1, <2>2, <1>1, <1>2, <1>3, <1>4, <1>5, <1>6, <1>8, <1>9, <1>10, <1>12, <1>13
      DEF NonNeg, q
    <3> QED
      BY <3>1, <3>2, <1>2, <1>10 DEF q
  <2> QED BY <2>1, <2>2, <1>3
<1>15. TotalOutstanding(j, day) = q.base + q.fine + q.interest
  BY <1>7 DEF TotalOutstanding
<1>16. TotalOutstanding(i, day) = o.base + o.fine + o.interest
  BY DEF TotalOutstanding
<1> HIDE DEF o, a, j, b, c, d, q
<1> QED
  BY <1>2, <1>3, <1>4, <1>5, <1>12, <1>14, <1>15, <1>16 DEF j

\* Of what is paid on an installment interest comes first, payment after payment:
\* the interest parts of the Payment rows add up to the smaller of amountPaid and
\* interestDue, their principal parts to the rest.  renegotiate relies on it when it
\* carries only "the principal not yet paid" of an installment not yet due.
THEOREM InterestIsPaidFirst ==
  ASSUME NEW i \in Installment, NEW day \in Int, NEW pay \in Nat,
         pay <= TotalOutstanding(i, day)
  PROVE  LET base == Allocate(i, pay, day).base
             paid == AfterPayment(i, pay, day).amountPaid
         IN  /\ Least(paid, i.interestDue)
                  = Least(i.amountPaid, i.interestDue) + InterestPortion(i, base)
             /\ NonNeg(paid - i.interestDue)
                  = NonNeg(i.amountPaid - i.interestDue) + PrincipalPortion(i, base)
<1> DEFINE base == Allocate(i, pay, day).base
           paid == AfterPayment(i, pay, day).amountPaid
<1>1. base \in Nat
  BY AllocationExact
<1>2. paid = i.amountPaid + base
  BY DEF AfterPayment, Installment
<1>3. i.amountPaid \in Nat /\ i.interestDue \in Nat
  BY DEF Installment
<1> HIDE DEF base, paid
<1>4. /\ Least(paid, i.interestDue)
           = Least(i.amountPaid, i.interestDue) + InterestPortion(i, base)
      /\ NonNeg(paid - i.interestDue)
           = NonNeg(i.amountPaid - i.interestDue) + PrincipalPortion(i, base)
  BY <1>1, <1>2, <1>3 DEF Least, NonNeg, InterestPortion, PrincipalPortion
<1> QED
  BY <1>4 DEF base, paid

-----------------------------------------------------------------------------
(* What later payments make of an installment: it never owes more than it did *)

\* What a commit makes of an installment: more was paid of it, or its status changed.
PaidUp(i, j) ==
    /\ j.dueDay = i.dueDay /\ j.amountDue = i.amountDue
    /\ i.amountPaid <= j.amountPaid /\ i.lateFee <= j.lateFee
    /\ i.lateInterest <= j.lateInterest

\* On any day it then owes as much or less: the charges shrink with the base, and what was
\* paid of them is credited.
LEMMA PaidUpOwesNoMore ==
  ASSUME NEW i \in Installment, NEW j \in Installment, PaidUp(i, j), NEW day \in Int
  PROVE  TotalOutstanding(j, day) <= TotalOutstanding(i, day)
<1> DEFINE d == DaysLate(i, day)
           b == BaseOutstanding(j)
           e == BaseOutstanding(i)
           small == computeLateCharges(b, d, b)
           large == computeLateCharges(e, d, e)
<1>1. /\ i.amountDue \in Nat /\ i.amountPaid \in Nat /\ i.lateFee \in Nat
      /\ i.lateInterest \in Nat /\ j.amountPaid \in Nat /\ j.lateFee \in Nat
      /\ j.lateInterest \in Nat /\ i.dueDay \in Nat /\ j.amountDue = i.amountDue
      /\ j.dueDay = i.dueDay
      /\ i.amountPaid <= j.amountPaid /\ i.lateFee <= j.lateFee
      /\ i.lateInterest <= j.lateInterest
  BY DEF Installment, PaidUp
<1>2. d \in Nat /\ DaysLate(j, day) = d
  BY <1>1 DEF DaysLate, NonNeg
<1>3. b \in Nat /\ e \in Nat /\ b <= e
  BY <1>1 DEF BaseOutstanding, NonNeg
<1> HIDE DEF d
<1>4. /\ small.fine \in Nat /\ small.interest \in Nat
      /\ large.fine \in Nat /\ large.interest \in Nat
      /\ small.fine <= large.fine /\ small.interest <= large.interest
  <2> HIDE DEF b, e
  <2> QED BY <1>2, <1>3, ChargesShrink
<1> DEFINE owedI == computeOutstanding(i, d)
           owedJ == computeOutstanding(j, d)
<1>5. owedI \in [base : Nat, fine : Nat, interest : Nat]
      /\ owedJ \in [base : Nat, fine : Nat, interest : Nat]
  BY <1>2, OutstandingNat
<1>6. CASE b = 0 \/ d <= 0
  <2>1. owedJ = [base |-> b, fine |-> 0, interest |-> 0] /\ owedI.base = e
    BY <1>6 DEF computeOutstanding
  <2> HIDE DEF owedI, owedJ, b, e
  <2>2. owedJ.base + owedJ.fine + owedJ.interest <= owedI.base + owedI.fine + owedI.interest
    BY <1>3, <1>5, <2>1
  <2> QED BY <1>2, <2>2 DEF TotalOutstanding, owedI, owedJ, d
<1>7. CASE ~(b = 0 \/ d <= 0)
  <2>1. e # 0
    BY <1>3, <1>7
  <2>2. /\ owedJ = [base |-> b, fine |-> NonNeg(small.fine - j.lateFee),
                    interest |-> NonNeg(small.interest - j.lateInterest)]
        /\ owedI = [base |-> e, fine |-> NonNeg(large.fine - i.lateFee),
                    interest |-> NonNeg(large.interest - i.lateInterest)]
    BY <1>7, <2>1 DEF computeOutstanding
  <2> HIDE DEF owedI, owedJ, b, e, small, large
  <2>3. /\ owedJ.base <= owedI.base /\ owedJ.fine <= owedI.fine
        /\ owedJ.interest <= owedI.interest
    BY <1>1, <1>3, <1>4, <2>2 DEF NonNeg
  <2>4. owedJ.base + owedJ.fine + owedJ.interest <= owedI.base + owedI.fine + owedI.interest
    BY <1>5, <2>3
  <2> QED BY <1>2, <2>4 DEF TotalOutstanding, owedI, owedJ, d
<1> QED BY <1>6, <1>7

\* A payment pays up the installment it is made on, and no change of status undoes that.
LEMMA PaymentPaysUp ==
  ASSUME NEW i \in Installment, NEW day \in Int, NEW pay \in Nat
  PROVE  /\ PaidUp(i, AfterPayment(i, pay, day))
         /\ \A s : PaidUp(i, [i EXCEPT !.status = s])
<1> DEFINE d == DaysLate(i, day)
           o == computeOutstanding(i, d)
           a == Allocate(i, pay, day)
           j == AfterPayment(i, pay, day)
<1>1. d \in Nat
  BY DEF DaysLate, NonNeg, Installment
<1>2. o \in [base : Nat, fine : Nat, interest : Nat]
  BY <1>1, OutstandingNat
<1>3. a.mora \in Nat /\ a.fine \in Nat /\ a.base \in Nat
  <2> HIDE DEF o
  <2>1. o.base \in Nat /\ o.fine \in Nat /\ o.interest \in Nat
    BY <1>2
  <2> DEFINE payMora == Least(pay, o.interest)
             payFine == Least(pay - payMora, o.fine)
             payBase == Least(pay - payMora - payFine, o.base)
  <2>2. payMora \in Nat /\ payFine \in Nat /\ payBase \in Nat
    BY <2>1 DEF Least
  <2>3. a = [mora |-> payMora, fine |-> payFine, base |-> payBase]
    BY DEF Allocate, o
  <2> QED BY <2>2, <2>3
<1> HIDE DEF a
<1>4. /\ j.dueDay = i.dueDay /\ j.amountDue = i.amountDue
      /\ j.amountPaid = i.amountPaid + a.base /\ j.lateFee = i.lateFee + a.fine
      /\ j.lateInterest = i.lateInterest + a.mora
  BY DEF AfterPayment, Installment, a
<1>5. /\ i.amountPaid \in Nat /\ i.lateFee \in Nat /\ i.lateInterest \in Nat
  BY DEF Installment
<1>6. PaidUp(i, j)
  <2> HIDE DEF j
  <2> QED BY <1>3, <1>4, <1>5 DEF PaidUp
<1>7. ASSUME NEW s PROVE PaidUp(i, [i EXCEPT !.status = s])
  BY <1>5 DEF PaidUp, Installment
<1> QED BY <1>6, <1>7

-----------------------------------------------------------------------------
(* Sequences, maxima, and the helpers of the ledger *)

\* A function on 1..n is a sequence of length n.
LEMMA FunctionIsSeq ==
  ASSUME NEW S, NEW n \in Nat, NEW f \in [1..n -> S]
  PROVE  f \in Seq(S) /\ Len(f) = n
<1>1. f \in Seq(S)
  BY SeqDef
<1>2. 1..Len(f) = 1..n /\ Len(f) \in Nat
  BY <1>1, LenProperties
<1> QED
  BY <1>1, <1>2

\* A sequence is a function on its positions.
LEMMA SeqIsFunction ==
  ASSUME NEW S, NEW s \in Seq(S)
  PROVE  Len(s) \in Nat /\ DOMAIN s = 1..Len(s) /\ s \in [1..Len(s) -> S]
BY LenProperties

\* A non-empty set of naturals with a bound has a largest element: Max is in it.
LEMMA MaxOfBoundedSet ==
  ASSUME NEW S, S \subseteq Nat, S # {}, NEW K \in Nat, \A x \in S : x <= K
  PROVE  Max(S) \in S
<1> DEFINE T == {K - x : x \in S}
<1>1. T \subseteq Nat /\ T # {}
  <2>1. PICK x \in S : TRUE
    OBVIOUS
  <2>2. K - x \in T
    OBVIOUS
  <2>3. ASSUME NEW t \in T PROVE t \in Nat
    <3>1. PICK y \in S : t = K - y
      OBVIOUS
    <3>2. y \in Nat /\ y <= K
      OBVIOUS
    <3> QED BY <3>1, <3>2
  <2> QED BY <2>2, <2>3
<1>2. PICK t \in T : \A u \in T : ~(<<u, t>> \in OpToRel(<, Nat))
  <2> HIDE DEF T
  <2> QED BY <1>1, NatLessThanWellFounded, WFMin
<1>3. \A u \in T : ~(u < t)
  BY <1>1, <1>2 DEF OpToRel
<1>4. PICK x \in S : t = K - x
  OBVIOUS
<1>5. ASSUME NEW y \in S PROVE x >= y
  <2>1. ~(K - y < K - x)
    BY <1>3, <1>4
  <2>2. x \in Nat /\ y \in Nat
    OBVIOUS
  <2> QED BY <2>1, <2>2
<1> QED
  BY <1>5 DEF Max

\* The stage dunningStageFor picks is one of the ladder, or none.
LEMMA StageType ==
  ASSUME NEW days
  PROVE  dunningStageFor(days) \in 0..5
<1> DEFINE S == {s \in Stages : DunningLadder[s] <= days}
<1>1. PICK b \in Int : b = 5
  OBVIOUS
<1>2. IsFiniteSet(1..b) /\ Cardinality(1..b) = IF 1 > b THEN 0 ELSE b - 1 + 1
  BY FS_Interval
<1>3. S \subseteq 1..b
  BY <1>1 DEF Stages
<1> HIDE DEF S
<1>4. IsFiniteSet(S) /\ Cardinality(S) <= Cardinality(1..b)
  <2> DEFINE B == 1..b
  <2>1. IsFiniteSet(B) /\ S \in SUBSET B
    BY <1>2, <1>3
  <2> HIDE DEF B
  <2>2. IsFiniteSet(S) /\ Cardinality(S) <= Cardinality(B)
    BY <2>1, FS_Subset
  <2> QED BY <2>2 DEF B
<1>5. Cardinality(S) \in Nat
  BY <1>4, FS_CardinalityType
<1>6. Cardinality(1..b) = 5
  BY <1>1, <1>2
<1> QED
  BY <1>4, <1>5, <1>6 DEF dunningStageFor, S

\* The days overdue of a contract are positive exactly when something is past due.
LEMMA DaysOverdueNat ==
  ASSUME NEW rows \in Seq(Installment), NEW day \in Nat
  PROVE  /\ DaysOverdue(rows, day) \in Nat
         /\ DaysOverdue(rows, day) > 0 <=> OverdueNumbers(rows, day) # {}
<1> DEFINE D == {DaysLate(rows[n], day) : n \in OverdueNumbers(rows, day)}
<1>1. ASSUME NEW n \in OverdueNumbers(rows, day)
      PROVE  DaysLate(rows[n], day) \in Nat \ {0} /\ DaysLate(rows[n], day) <= day
  <2>1. rows[n] \in Installment /\ day > rows[n].dueDay
    BY SeqIsFunction DEF OverdueNumbers, IsOverdue
  <2>2. rows[n].dueDay \in Nat
    BY <2>1 DEF Installment
  <2> QED BY <2>1, <2>2 DEF DaysLate, NonNeg
<1>2. CASE OverdueNumbers(rows, day) = {}
  BY <1>2 DEF DaysOverdue
<1>3. CASE OverdueNumbers(rows, day) # {}
  <2>1. D \subseteq Nat \ {0} /\ D # {} /\ \A x \in D : x <= day
    BY <1>1, <1>3
  <2>2. Max(D) \in D
    <3> HIDE DEF D
    <3> QED BY <2>1, MaxOfBoundedSet
  <2>3. Max(D) \in Nat \ {0}
    BY <2>1, <2>2
  <2>4. DaysOverdue(rows, day) = Max(D)
    BY <1>3 DEF DaysOverdue
  <2> HIDE DEF D
  <2> QED BY <1>3, <2>3, <2>4
<1> QED BY <1>2, <1>3

-----------------------------------------------------------------------------
(* Sums over finite sets.  MapThenSumSet takes the elements one by one in  *)
(* an order that CHOOSE leaves open; that it makes no difference, that the *)
(* sum of a part is at most the whole, and that only the elements count    *)
(* follow by induction over the subsets of the set: a smallest subset for  *)
(* which it failed would have an element to take away.                     *)

\* A non-empty set of naturals has a least element.
LEMMA LeastElement ==
  ASSUME NEW T, T \subseteq Nat, T # {}
  PROVE  \E t \in T : \A u \in T : t <= u
<1>1. PICK t \in T : \A u \in T : ~(<<u, t>> \in OpToRel(<, Nat))
  BY NatLessThanWellFounded, WFMin
<1>2. \A u \in T : ~(u < t)
  BY <1>1 DEF OpToRel
<1>3. \A u \in T : t <= u
  BY <1>2
<1> QED BY <1>3

\* Induction over the subsets of a finite set: what holds of a set whenever it holds of
\* what is left when any one element is taken from it, holds of them all.
LEMMA SubsetInduction ==
  ASSUME NEW D, IsFiniteSet(D), NEW P, {} \in P,
         \A s \in SUBSET D : s # {} /\ (\A x \in s : s \ {x} \in P) => s \in P
  PROVE  SUBSET D \subseteq P
<1> SUFFICES ASSUME NEW b \in SUBSET D, b \notin P PROVE FALSE
  OBVIOUS
<1> DEFINE sizes == {Cardinality(s) : s \in (SUBSET D) \ P}
<1>1. \A s \in SUBSET D : IsFiniteSet(s) /\ Cardinality(s) \in Nat
  BY FS_Subset, FS_CardinalityType
<1>2. sizes \subseteq Nat /\ sizes # {}
  BY <1>1
<1>3. PICK t \in sizes : \A u \in sizes : t <= u
  <2> HIDE DEF sizes
  <2> QED BY <1>2, LeastElement
<1>4. PICK s \in (SUBSET D) \ P : t = Cardinality(s)
  OBVIOUS
<1>5. ASSUME NEW x \in s PROVE s \ {x} \in P
  <2>1. s \ {x} \in SUBSET D /\ Cardinality(s \ {x}) = Cardinality(s) - 1
    BY <1>1, FS_RemoveElement
  <2>2. ~(t <= Cardinality(s \ {x}))
    BY <1>1, <1>4, <2>1
  <2> QED BY <1>3, <2>1, <2>2
<1> QED BY <1>4, <1>5

\* The recursion of MapThenSumSet: g takes the subsets of S to their sums.
IsSum(g, f, S) ==
    g = [s \in SUBSET S |->
            IF s = {} THEN 0
            ELSE f[CHOOSE x \in s : TRUE] + g[s \ {CHOOSE x \in s : TRUE}]]
SumOf(f, S) == MapThenSumSet(LAMBDA x : f[x], S)

LEMMA SumOfIsSum ==
  ASSUME NEW f, NEW S, \E g : IsSum(g, f, S)
  PROVE  \E g : IsSum(g, f, S) /\ SumOf(f, S) = g[S]
<1> DEFINE g == CHOOSE g : IsSum(g, f, S)
<1>1. IsSum(g, f, S)
  OBVIOUS
<1>2. SumOf(f, S) = g[S]
  BY Zenon DEF SumOf, MapThenSumSet, MapThenFoldSet, IsSum
<1> QED BY <1>1, <1>2

\* Two such functions agree where both are defined.
LEMMA SumsAgree ==
  ASSUME NEW f, NEW S, NEW T, IsFiniteSet(S), NEW g, NEW h, IsSum(g, f, S), IsSum(h, f, T),
         NEW s \in SUBSET S, s \in SUBSET T
  PROVE  g[s] = h[s]
<1> DEFINE P == {u \in SUBSET s : g[u] = h[u]}
<1>1. IsFiniteSet(s)
  BY FS_Subset
<1>2. \A u \in SUBSET s :
         /\ g[u] = IF u = {} THEN 0
                   ELSE f[CHOOSE x \in u : TRUE] + g[u \ {CHOOSE x \in u : TRUE}]
         /\ h[u] = IF u = {} THEN 0
                   ELSE f[CHOOSE x \in u : TRUE] + h[u \ {CHOOSE x \in u : TRUE}]
  <2>1. SUBSET s \subseteq SUBSET S /\ SUBSET s \subseteq SUBSET T
    OBVIOUS
  <2> QED BY <2>1 DEF IsSum
<1>3. {} \in P
  BY <1>2
<1>4. ASSUME NEW u \in SUBSET s, u # {}, \A x \in u : u \ {x} \in P
      PROVE  u \in P
  <2> DEFINE c == CHOOSE x \in u : TRUE
  <2>1. c \in u
    BY <1>4
  <2>2. g[u] = f[c] + g[u \ {c}] /\ h[u] = f[c] + h[u \ {c}]
    BY <1>2, <1>4
  <2>3. g[u \ {c}] = h[u \ {c}]
    BY <1>4, <2>1
  <2> QED BY <2>2, <2>3
<1> HIDE DEF P
<1>5. s \in P
  BY <1>1, <1>3, <1>4, SubsetInduction
<1> QED BY <1>5 DEF P

\* Such a function for a set is one for its subsets.
LEMMA SumRestricts ==
  ASSUME NEW f, NEW S, NEW g, IsSum(g, f, S), NEW s \in SUBSET S
  PROVE  IsSum([u \in SUBSET s |-> g[u]], f, s)
<1> DEFINE h == [u \in SUBSET s |-> g[u]]
<1>1. ASSUME NEW u \in SUBSET s
      PROVE  h[u] = IF u = {} THEN 0
                    ELSE f[CHOOSE x \in u : TRUE] + h[u \ {CHOOSE x \in u : TRUE}]
  <2>1. u \in SUBSET S /\ \A x : u \ {x} \in SUBSET s
    OBVIOUS
  <2>2. g[u] = IF u = {} THEN 0
               ELSE f[CHOOSE x \in u : TRUE] + g[u \ {CHOOSE x \in u : TRUE}]
    BY <2>1 DEF IsSum
  <2> QED BY <2>1, <2>2
<1>2. h = [u \in SUBSET s |->
             IF u = {} THEN 0
             ELSE f[CHOOSE x \in u : TRUE] + h[u \ {CHOOSE x \in u : TRUE}]]
  BY <1>1
<1> QED BY <1>2 DEF IsSum

\* There is one for every finite set.
LEMMA SumExists ==
  ASSUME NEW f, NEW D, IsFiniteSet(D)
  PROVE  \E g : IsSum(g, f, D)
<1> DEFINE P == {s \in SUBSET D : \E g : IsSum(g, f, s)}
<1>1. {} \in P
  <2> DEFINE g == [s \in SUBSET {} |-> 0]
  <2>1. IsSum(g, f, {})
    BY DEF IsSum
  <2> QED BY <2>1
<1>2. ASSUME NEW s \in SUBSET D, s # {}, \A x \in s : s \ {x} \in P
      PROVE  s \in P
  <2> DEFINE Total(u) == (CHOOSE g : IsSum(g, f, u))[u]
             c == CHOOSE x \in s : TRUE
             h == [u \in SUBSET s |-> IF u = s THEN f[c] + Total(s \ {c}) ELSE Total(u)]
  <2>1. c \in s
    BY <1>2
  <2>2. ASSUME NEW u \in SUBSET s, u # s
        PROVE  \E g : IsSum(g, f, u)
    <3>1. PICK x \in s : u \in SUBSET (s \ {x})
      BY <2>2
    <3>2. PICK g : IsSum(g, f, s \ {x})
      BY <1>2
    <3> QED BY <3>1, <3>2, SumRestricts
  <2>3. ASSUME NEW u \in SUBSET s, u # s, NEW v \in SUBSET u, NEW g, IsSum(g, f, u)
        PROVE  g[v] = Total(v)
    <3>1. v \in SUBSET s /\ v # s /\ IsFiniteSet(u)
      BY <2>3, FS_Subset
    <3>2. IsSum(CHOOSE k : IsSum(k, f, v), f, v)
      BY <2>2, <3>1
    <3> QED BY <2>3, <3>1, <3>2, SumsAgree
  <2>4. ASSUME NEW u \in SUBSET s
        PROVE  h[u] = IF u = {} THEN 0
                      ELSE f[CHOOSE x \in u : TRUE] + h[u \ {CHOOSE x \in u : TRUE}]
    <3>1. CASE u = s
      BY <1>2, <2>1, <3>1
    <3>2. CASE u # s
      <4>1. PICK g : IsSum(g, f, u)
        BY <2>2, <3>2
      <4>2. g[u] = IF u = {} THEN 0
                   ELSE f[CHOOSE x \in u : TRUE] + g[u \ {CHOOSE x \in u : TRUE}]
        <5>1. u \in SUBSET u
          OBVIOUS
        <5> QED BY <4>1, <5>1 DEF IsSum
      <4>3. g[u] = Total(u) /\ \A x : g[u \ {x}] = Total(u \ {x})
        BY <2>3, <3>2, <4>1
      <4>4. \A x : u \ {x} \in SUBSET s /\ u \ {x} # s
        BY <3>2
      <4> HIDE DEF Total
      <4> QED BY <3>2, <4>2, <4>3, <4>4
    <3> QED BY <3>1, <3>2
  <2>5. IsSum(h, f, s)
    <3> HIDE DEF Total
    <3>1. h = [u \in SUBSET s |->
                 IF u = {} THEN 0
                 ELSE f[CHOOSE x \in u : TRUE] + h[u \ {CHOOSE x \in u : TRUE}]]
      BY <2>4
    <3> QED BY <3>1 DEF IsSum
  <2> QED BY <2>5
<1> HIDE DEF P
<1>3. D \in P
  BY <1>1, <1>2, SubsetInduction
<1> QED BY <1>3 DEF P

\* A sum is that of all elements but the one that is taken first, and this one.
LEMMA SumUnfolds ==
  ASSUME NEW f, NEW S, IsFiniteSet(S)
  PROVE  SumOf(f, S) = IF S = {} THEN 0
                       ELSE f[CHOOSE x \in S : TRUE] + SumOf(f, S \ {CHOOSE x \in S : TRUE})
<1> DEFINE T == S \ {CHOOSE x \in S : TRUE}
<1>1. IsFiniteSet(T) /\ T \in SUBSET S /\ T \in SUBSET T /\ S \in SUBSET S
  BY FS_Subset
<1> HIDE DEF T
<1>2. PICK g : IsSum(g, f, S) /\ SumOf(f, S) = g[S]
  BY SumExists, SumOfIsSum
<1>3. PICK h : IsSum(h, f, T) /\ SumOf(f, T) = h[T]
  BY <1>1, SumExists, SumOfIsSum
<1>4. g[T] = h[T]
  BY <1>1, <1>2, <1>3, SumsAgree
<1>5. g[S] = IF S = {} THEN 0 ELSE f[CHOOSE x \in S : TRUE] + g[T]
  BY <1>1, <1>2 DEF IsSum, T
<1> QED BY <1>2, <1>3, <1>4, <1>5 DEF T

\* Sums of naturals are naturals.
LEMMA SumNat ==
  ASSUME NEW f, NEW D, IsFiniteSet(D), \A x \in D : f[x] \in Nat
  PROVE  SumOf(f, D) \in Nat
<1> DEFINE P == {s \in SUBSET D : SumOf(f, s) \in Nat}
<1>1. {} \in P
  <2>1. SumOf(f, {}) = 0
    BY FS_EmptySet, SumUnfolds
  <2> QED BY <2>1
<1>2. ASSUME NEW s \in SUBSET D, s # {}, \A x \in s : s \ {x} \in P
      PROVE  s \in P
  <2> DEFINE c == CHOOSE x \in s : TRUE
  <2>1. c \in s
    BY <1>2
  <2>2. SumOf(f, s) = f[c] + SumOf(f, s \ {c})
    BY <1>2, FS_Subset, SumUnfolds
  <2>3. f[c] \in Nat /\ SumOf(f, s \ {c}) \in Nat
    BY <1>2, <2>1
  <2> QED BY <2>2, <2>3
<1> HIDE DEF P
<1>3. D \in P
  BY <1>1, <1>2, SubsetInduction
<1> QED BY <1>3 DEF P

\* It makes no difference which element is taken first.
LEMMA SumTakesAny ==
  ASSUME NEW f, NEW D, IsFiniteSet(D), \A x \in D : f[x] \in Nat, NEW d \in D
  PROVE  SumOf(f, D) = f[d] + SumOf(f, D \ {d})
<1> DEFINE Any(s) == \A x \in s : SumOf(f, s) = f[x] + SumOf(f, s \ {x})
           P == {s \in SUBSET D : Any(s)}
<1>1. {} \in P
  OBVIOUS
<1>2. ASSUME NEW s \in SUBSET D, s # {}, \A x \in s : s \ {x} \in P
      PROVE  s \in P
  <2> DEFINE c == CHOOSE x \in s : TRUE
  <2>1. c \in s
    BY <1>2
  <2>2. SumOf(f, s) = f[c] + SumOf(f, s \ {c})
    BY <1>2, FS_Subset, SumUnfolds
  <2> HIDE DEF c
  <2>3. ASSUME NEW x \in s, x # c
        PROVE  SumOf(f, s) = f[x] + SumOf(f, s \ {x})
    <3>1. SumOf(f, s \ {c}) = f[x] + SumOf(f, (s \ {c}) \ {x})
      BY <1>2, <2>1, <2>3
    <3>2. SumOf(f, s \ {x}) = f[c] + SumOf(f, (s \ {x}) \ {c})
      BY <1>2, <2>1, <2>3
    <3> DEFINE rest == (s \ {x}) \ {c}
    <3>3. (s \ {c}) \ {x} = rest /\ rest \in SUBSET D
      OBVIOUS
    <3>4. f[x] \in Nat /\ f[c] \in Nat /\ SumOf(f, rest) \in Nat
      BY <2>1, <3>3, FS_Subset, SumNat
    <3>5. SumOf(f, s \ {c}) = f[x] + SumOf(f, rest) /\ SumOf(f, s \ {x}) = f[c] + SumOf(f, rest)
      BY <3>1, <3>2, <3>3
    <3> HIDE DEF rest
    <3> QED BY <2>2, <3>4, <3>5
  <2> QED BY <2>2, <2>3
<1> HIDE DEF P
<1>3. D \in P
  BY <1>1, <1>2, SubsetInduction
<1> QED BY <1>3 DEF P

\* A part is no more than the whole.
LEMMA SumMonotone ==
  ASSUME NEW f, NEW D, IsFiniteSet(D), \A x \in D : f[x] \in Nat, NEW s \in SUBSET D
  PROVE  SumOf(f, s) <= SumOf(f, D)
<1> DEFINE P == {t \in SUBSET D : s \subseteq t => SumOf(f, s) <= SumOf(f, t)}
<1>1. SumOf(f, s) \in Nat
  BY FS_Subset, SumNat
<1>2. {} \in P
  BY <1>1
<1>3. ASSUME NEW t \in SUBSET D, t # {}, \A x \in t : t \ {x} \in P
      PROVE  t \in P
  <2>1. CASE s \subseteq t /\ s # t
    <3>1. PICK x \in t : x \notin s
      BY <2>1
    <3>2. SumOf(f, t) = f[x] + SumOf(f, t \ {x})
      BY FS_Subset, SumTakesAny
    <3>3. SumOf(f, s) <= SumOf(f, t \ {x})
      BY <1>3, <2>1, <3>1
    <3>4. f[x] \in Nat /\ SumOf(f, t \ {x}) \in Nat
      BY FS_Subset, SumNat
    <3>5. SumOf(f, s) <= SumOf(f, t)
      BY <1>1, <3>2, <3>3, <3>4
    <3> QED BY <3>5
  <2>2. CASE s = t
    BY <1>1, <2>2
  <2> QED BY <2>1, <2>2
<1> HIDE DEF P
<1>4. D \in P
  BY <1>2, <1>3, SubsetInduction
<1> QED BY <1>4 DEF P

\* It is the elements of the set that count.
LEMMA SumsOfSame ==
  ASSUME NEW f, NEW h, NEW D, IsFiniteSet(D), \A x \in D : f[x] = h[x]
  PROVE  SumOf(f, D) = SumOf(h, D)
<1> DEFINE P == {s \in SUBSET D : SumOf(f, s) = SumOf(h, s)}
<1>1. {} \in P
  BY FS_EmptySet, SumUnfolds
<1>2. ASSUME NEW s \in SUBSET D, s # {}, \A x \in s : s \ {x} \in P
      PROVE  s \in P
  <2> DEFINE c == CHOOSE x \in s : TRUE
  <2>1. c \in s
    BY <1>2
  <2>2. /\ SumOf(f, s) = f[c] + SumOf(f, s \ {c})
        /\ SumOf(h, s) = h[c] + SumOf(h, s \ {c})
    BY <1>2, FS_Subset, SumUnfolds
  <2>3. f[c] = h[c] /\ SumOf(f, s \ {c}) = SumOf(h, s \ {c})
    BY <1>2, <2>1
  <2> QED BY <2>2, <2>3
<1> HIDE DEF P
<1>3. D \in P
  BY <1>1, <1>2, SubsetInduction
<1> QED BY <1>3 DEF P

-----------------------------------------------------------------------------
(* The inductive invariant.  What the ledger promises of one contract is a *)
(* predicate on that contract's rows alone, so that a step is examined     *)
(* once on the contract it touches and not at all on the others.           *)

\* One installment row i and the sum r of its Payment rows.
RowOK(i, r) ==
    /\ i \in Installment
    /\ r \in Nat
    /\ r = i.amountPaid + i.lateFee + i.lateInterest
    /\ i.amountDue = i.principalDue + i.interestDue
    /\ i.amountPaid <= i.amountDue
    /\ i.status = "PAID" => i.amountPaid = i.amountDue
    /\ i.status = "PENDING" => r = 0
    /\ i.status = "PAID" => r > 0
    /\ i.lateFee <= Fine(i.amountDue)
    /\ i.lateInterest <= i.amountDue

RowsOK(rows, sums) ==
    /\ rows \in Seq(Installment)
    /\ sums \in Seq(Nat)
    /\ Len(sums) = Len(rows)
    /\ \A n \in DOMAIN rows : RowOK(rows[n], sums[n])

\* The rows that go with each contract status.
StatusOK(status, rows, sums) ==
    /\ status \in ContractStatus \cup {"NONE"}
    /\ status \in Live =>
          /\ \E n \in DOMAIN rows : IsOpen(rows[n])
          /\ \A n \in DOMAIN rows : rows[n].status \notin {"CANCELLED", "RENEGOTIATED"}
    /\ status = "SETTLED" =>
          /\ DOMAIN rows # {}
          /\ \A n \in DOMAIN rows : rows[n].status = "PAID"
    /\ status = "RENEGOTIATED" =>
          /\ \E n \in DOMAIN rows : rows[n].status = "RENEGOTIATED"
          /\ \A n \in DOMAIN rows : rows[n].status \in {"PAID", "RENEGOTIATED"}
    /\ status = "CANCELLED" =>
          /\ DOMAIN rows # {}
          /\ \A n \in DOMAIN rows : rows[n].status = "CANCELLED" /\ sums[n] = 0
    /\ status = "NONE" => rows = <<>>

CaseRow == [status : CaseStatus \cup {"NONE"}, daysOverdue : Nat, dunningStage : 0..5]

CaseOK(status, rows, k, day) ==
    /\ k \in CaseRow
    /\ k.status = "RESOLVED" => k.dunningStage = 0
    /\ status \in Live =>
          /\ status = "DEFAULTED" <=> \E n \in DOMAIN rows : rows[n].status = "OVERDUE"
          /\ \A n \in DOMAIN rows : rows[n].status = "OVERDUE" => day > rows[n].dueDay
          /\ status = "DEFAULTED" => k.status # "NONE" /\ k.daysOverdue > 0

ContractOK(status, rows, sums, k, day) ==
    RowsOK(rows, sums) /\ StatusOK(status, rows, sums) /\ CaseOK(status, rows, k, day)

IInv ==
    /\ today \in Nat
    /\ contract \in [Contracts -> [status : ContractStatus \cup {"NONE"},
                                   renegotiatedFrom : Contracts \cup {None}]]
    /\ installments \in [Contracts -> Seq(Installment)]
    /\ received \in [Contracts -> Seq(Nat)]
    /\ kase \in [Contracts -> CaseRow]
    /\ \A c \in Contracts :
          ContractOK(contract[c].status, installments[c], received[c], kase[c], today)
    /\ DebtOwedOnce

-----------------------------------------------------------------------------
(* Single rows *)

\* A payment that register accepts keeps the row's ledger balanced and its
\* charges within the contract.
LEMMA PaymentKeepsRow ==
  ASSUME NEW i, NEW r, RowOK(i, r), NEW day \in Int, NEW pay \in Nat \ {0},
         pay <= TotalOutstanding(i, day)
  PROVE  /\ RowOK(AfterPayment(i, pay, day), r + pay)
         /\ AfterPayment(i, pay, day).status \in {"PAID", "PARTIALLY_PAID"}
         /\ AfterPayment(i, pay, day).dueDay = i.dueDay
<1> DEFINE d == DaysLate(i, day)
           o == computeOutstanding(i, d)
           a == Allocate(i, pay, day)
           j == AfterPayment(i, pay, day)
           b == i.amountDue - i.amountPaid
           G == computeLateCharges(b, d, b)
<1>1. /\ i \in Installment /\ i.amountPaid <= i.amountDue
      /\ i.amountDue \in Nat /\ i.amountPaid \in Nat
      /\ i.amountDue = i.principalDue + i.interestDue
      /\ i.lateFee \in Nat /\ i.lateInterest \in Nat
      /\ r = i.amountPaid + i.lateFee + i.lateInterest
      /\ i.lateFee <= Fine(i.amountDue) /\ i.lateInterest <= i.amountDue
  BY DEF RowOK, Installment
<1>2. d \in Nat
  BY DEF DaysLate, NonNeg, Installment, RowOK
<1>3. /\ a.mora \in Nat /\ a.fine \in Nat /\ a.base \in Nat
      /\ a.mora + a.fine + a.base = pay
      /\ a.mora <= o.interest /\ a.fine <= o.fine /\ a.base <= o.base
  BY <1>1, AllocationExact
<1>4. b \in Nat /\ BaseOutstanding(i) = b /\ o.base = b
  BY <1>1 DEF BaseOutstanding, NonNeg, computeOutstanding
<1>5. /\ Fine(b) \in Nat /\ Fine(i.amountDue) \in Nat /\ Fine(b) <= Fine(i.amountDue)
      /\ Mora(b, d) \in Nat
  <2>1. b <= i.amountDue
    BY <1>1, <1>4
  <2> HIDE DEF b
  <2> QED BY <2>1, <1>1, <1>2, <1>4, FineMonotone, MoraMonotone
<1>6. G.fine \in Nat /\ G.interest \in Nat /\ G.fine <= Fine(i.amountDue) /\ G.interest <= b
  <2> HIDE DEF b, d
  <2> QED BY <1>2, <1>4, <1>5 DEF computeLateCharges, NonNeg, Least, G
<1>7. o.fine <= NonNeg(G.fine - i.lateFee) /\ o.interest <= NonNeg(G.interest - i.lateInterest)
  <2>1. o = IF b = 0 \/ d <= 0
            THEN [base |-> b, fine |-> 0, interest |-> 0]
            ELSE [base |-> b, fine |-> NonNeg(G.fine - i.lateFee),
                  interest |-> NonNeg(G.interest - i.lateInterest)]
    BY <1>4 DEF computeOutstanding
  <2> HIDE DEF o, G, b, d
  <2> QED BY <2>1, <1>1, <1>6 DEF NonNeg
<1>8. i.lateFee + a.fine <= Fine(i.amountDue) /\ i.lateInterest + a.mora <= i.amountDue
  <2>1. o.fine \in Nat /\ o.interest \in Nat
    BY <1>1, <1>2, OutstandingNat
  <2>2. b <= i.amountDue
    BY <1>1
  <2> HIDE DEF o, G, b, d, a
  <2> QED BY <2>1, <2>2, <1>1, <1>3, <1>4, <1>5, <1>6, <1>7 DEF NonNeg
<1>9. j = [i EXCEPT !.amountPaid = i.amountPaid + a.base,
                    !.lateFee = @ + a.fine,
                    !.lateInterest = @ + a.mora,
                    !.status = IF i.amountPaid + a.base >= i.amountDue
                               THEN "PAID" ELSE "PARTIALLY_PAID"]
  BY DEF AfterPayment
<1> HIDE DEF o, G, d, a, j
<1>10. /\ j \in Installment /\ j.status \in {"PAID", "PARTIALLY_PAID"}
       /\ j.amountDue = i.amountDue /\ j.dueDay = i.dueDay
       /\ j.principalDue = i.principalDue /\ j.interestDue = i.interestDue
       /\ j.amountPaid = i.amountPaid + a.base
       /\ j.lateFee = i.lateFee + a.fine /\ j.lateInterest = i.lateInterest + a.mora
       /\ j.status = "PAID" => j.amountPaid >= i.amountDue
  <2> DEFINE paid == i.amountPaid + a.base
             fee == i.lateFee + a.fine
             mora == i.lateInterest + a.mora
             status == IF paid >= i.amountDue THEN "PAID" ELSE "PARTIALLY_PAID"
  <2>1. paid \in Nat /\ fee \in Nat /\ mora \in Nat
    BY <1>1, <1>3
  <2>2. j = [i EXCEPT !.amountPaid = paid, !.lateFee = fee,
                      !.lateInterest = mora, !.status = status]
    BY <1>1, <1>9 DEF Installment
  <2>3. status \in {"PAID", "PARTIALLY_PAID"} /\ (status = "PAID" => paid >= i.amountDue)
    OBVIOUS
  <2> HIDE DEF paid, fee, mora, status, b
  <2>4. /\ j.amountPaid = paid /\ j.lateFee = fee /\ j.lateInterest = mora
        /\ j.status = status /\ j.amountDue = i.amountDue /\ j.dueDay = i.dueDay
        /\ j.principalDue = i.principalDue /\ j.interestDue = i.interestDue
        /\ j \in Installment
    BY <1>1, <2>1, <2>2, <2>3 DEF Installment
  <2> QED BY <2>3, <2>4 DEF paid, fee, mora
<1> QED
  BY <1>1, <1>3, <1>4, <1>8, <1>10 DEF RowOK, j

\* Flagging, renegotiating or cancelling an installment moves no money.
LEMMA StatusKeepsRow ==
  ASSUME NEW i, NEW r, RowOK(i, r), NEW s \in {"OVERDUE", "RENEGOTIATED", "CANCELLED"}
  PROVE  /\ RowOK([i EXCEPT !.status = s], r)
         /\ [i EXCEPT !.status = s].status = s
         /\ [i EXCEPT !.status = s].dueDay = i.dueDay
BY DEF RowOK, Installment

-----------------------------------------------------------------------------
(* Schedules *)

\* buildSacSchedule never hands out more principal than there is, however the
\* division by the number of terms rounds.
LEMMA ScheduleNat ==
  ASSUME NEW p \in Nat, NEW m \in Nat \ {0}, NEW k \in 1..m
  PROVE  /\ buildSacSchedule(p, m)[k].principal \in Nat
         /\ buildSacSchedule(p, m)[k].interest \in Nat
<1> DEFINE share == p \div m
           balance == p - (k - 1) * share
<1>1. share \in Nat /\ m * share <= p
  OBVIOUS
<1>2. (k - 1) * share <= m * share /\ (k - 1) * share \in Nat
  <2>1. k - 1 \in Nat /\ k - 1 <= m
    OBVIOUS
  <2> HIDE DEF share
  <2> QED BY <2>1, <1>1, NatProduct, ProductMonotone
<1>3. balance \in Nat
  <2>1. m * share \in Nat
    BY <1>1
  <2> HIDE DEF share
  <2> QED BY <2>1, <1>1, <1>2
<1>4. balance * InterestRate \in Nat
  <2> HIDE DEF balance
  <2> QED BY <1>3, NatProduct, LedgerAssumption
<1>5. RoundDiv(balance * InterestRate, RateScale) \in Nat
  <2> HIDE DEF balance
  <2> QED BY <1>4, RoundDivNat, RateAssumption
<1>6. buildSacSchedule(p, m)[k] =
        [principal |-> IF k < m THEN share ELSE balance,
         interest |-> RoundDiv(balance * InterestRate, RateScale)]
  BY DEF buildSacSchedule
<1> HIDE DEF share, balance
<1> QED BY <1>1, <1>3, <1>5, <1>6

\* The installments of a new contract, and the sums paid on them.
LEMMA NewRows ==
  ASSUME NEW p \in Nat, NEW m \in Nat \ {0}, NEW first \in Nat
  PROVE  /\ RowsOK(NewInstallments(p, m, first), Nothing(m))
         /\ DOMAIN NewInstallments(p, m, first) = 1..m
         /\ \A k \in 1..m : NewInstallments(p, m, first)[k].status = "PENDING"
<1> DEFINE rows == NewInstallments(p, m, first)
<1>1. ASSUME NEW k \in 1..m
      PROVE  rows[k].status = "PENDING" /\ RowOK(rows[k], 0)
  <2> DEFINE sched == buildSacSchedule(p, m)[k]
  <2>1. sched.principal \in Nat /\ sched.interest \in Nat
    BY ScheduleNat
  <2>2. rows[k] = [dueDay |-> first + (k - 1) * MonthDays,
                   principalDue |-> sched.principal, interestDue |-> sched.interest,
                   amountDue |-> sched.principal + sched.interest,
                   amountPaid |-> 0, lateFee |-> 0, lateInterest |-> 0,
                   status |-> "PENDING"]
    BY DEF NewInstallments
  <2>3. first + (k - 1) * MonthDays \in Nat
    <3>1. k - 1 \in Nat
      OBVIOUS
    <3> QED BY <3>1, NatProduct, LedgerAssumption
  <2>4. Fine(sched.principal + sched.interest) \in Nat
    BY <2>1, FineMonotone
  <2> HIDE DEF rows, sched
  <2>5. rows[k] \in Installment
    BY <2>1, <2>2, <2>3 DEF Installment
  <2> QED BY <2>1, <2>2, <2>4, <2>5 DEF RowOK
<1>2. rows \in [1..m -> Installment]
  <2>1. rows = [k \in 1..m |-> rows[k]]
    BY DEF NewInstallments
  <2> HIDE DEF rows
  <2> QED BY <2>1, <1>1 DEF RowOK
<1>3. Nothing(m) \in [1..m -> Nat] /\ \A k \in 1..m : Nothing(m)[k] = 0
  BY DEF Nothing
<1> HIDE DEF rows
<1>4. rows \in Seq(Installment) /\ Len(rows) = m
  BY <1>2, FunctionIsSeq
<1>5. Nothing(m) \in Seq(Nat) /\ Len(Nothing(m)) = m
  BY <1>3, FunctionIsSeq
<1> QED BY <1>1, <1>2, <1>3, <1>4, <1>5 DEF RowsOK, rows

-----------------------------------------------------------------------------
(* Contracts: what each transaction makes of the rows it writes *)

\* The refresh of a live contract, from rows on which nothing is flagged early.
LEMMA RefreshKeepsContract ==
  ASSUME NEW status \in Live, NEW rows, NEW sums, NEW k \in CaseRow, NEW day \in Nat,
         RowsOK(rows, sums), StatusOK(status, rows, sums),
         k.status = "RESOLVED" => k.dunningStage = 0,
         \A n \in DOMAIN rows : rows[n].status = "OVERDUE" => day > rows[n].dueDay
  PROVE  LET days == DaysOverdue(rows, day) IN
         /\ RefreshedStatus(status, days) \in Live
         /\ DOMAIN FlaggedRows(rows, day) = DOMAIN rows
         /\ ContractOK(RefreshedStatus(status, days), FlaggedRows(rows, day), sums,
                       RefreshedCase(k, days), day)
<1> DEFINE days == DaysOverdue(rows, day)
           new == FlaggedRows(rows, day)
           status1 == RefreshedStatus(status, days)
           case1 == RefreshedCase(k, days)
<1>1. rows \in Seq(Installment) /\ Len(rows) \in Nat /\ DOMAIN rows = 1..Len(rows)
  BY SeqIsFunction DEF RowsOK
<1>2. days \in Nat /\ (days > 0 <=> OverdueNumbers(rows, day) # {})
  BY <1>1, DaysOverdueNat
<1>3. ASSUME NEW n \in DOMAIN rows
      PROVE  /\ new[n] \in Installment /\ RowOK(new[n], sums[n])
             /\ new[n].dueDay = rows[n].dueDay
             /\ IsOverdue(rows[n], day) => new[n].status = "OVERDUE"
             /\ ~IsOverdue(rows[n], day) => new[n] = rows[n]
  <2>1. RowOK(rows[n], sums[n]) /\ rows[n] \in Installment
    BY DEF RowsOK, RowOK
  <2>2. new[n] = IF IsOverdue(rows[n], day)
                 THEN [rows[n] EXCEPT !.status = "OVERDUE"] ELSE rows[n]
    BY DEF FlaggedRows
  <2> HIDE DEF new
  <2>3. CASE IsOverdue(rows[n], day)
    <3> DEFINE i == [rows[n] EXCEPT !.status = "OVERDUE"]
    <3>1. RowOK(i, sums[n]) /\ i.status = "OVERDUE" /\ i.dueDay = rows[n].dueDay
      BY <2>1, StatusKeepsRow
    <3>2. i \in Installment
      BY <3>1 DEF RowOK
    <3> QED BY <2>2, <2>3, <3>1, <3>2
  <2>4. CASE ~IsOverdue(rows[n], day)
    BY <2>1, <2>2, <2>4
  <2> QED BY <2>3, <2>4
<1>4. DOMAIN new = DOMAIN rows /\ new \in Seq(Installment) /\ Len(new) = Len(rows)
  <2>1. new \in [1..Len(rows) -> Installment]
    BY <1>1, <1>3 DEF FlaggedRows
  <2> HIDE DEF new
  <2> QED BY <2>1, <1>1, FunctionIsSeq
<1>5. RowsOK(new, sums)
  BY <1>3, <1>4 DEF RowsOK
<1>6. status1 \in Live /\ (status1 = "DEFAULTED" <=> days > 0)
  <2> HIDE DEF days
  <2> QED BY <1>2 DEF RefreshedStatus, Live
<1>7. StatusOK(status1, new, sums)
  <2>1. \E n \in DOMAIN new : IsOpen(new[n])
    <3>1. PICK n \in DOMAIN rows : IsOpen(rows[n])
      BY DEF StatusOK
    <3>2. IsOpen(new[n])
      BY <1>3, <3>1 DEF IsOpen, Closed
    <3> QED BY <1>4, <3>2
  <2>2. \A n \in DOMAIN new : new[n].status \notin {"CANCELLED", "RENEGOTIATED"}
    BY <1>3, <1>4 DEF StatusOK
  <2> HIDE DEF new, status1
  <2> QED BY <2>1, <2>2, <1>6 DEF StatusOK, Live, ContractStatus
<1>8. /\ case1 \in CaseRow
      /\ case1.status = "RESOLVED" => case1.dunningStage = 0
      /\ days > 0 => case1.status # "NONE" /\ case1.daysOverdue > 0
  <2> HIDE DEF days
  <2>1. CASE days > 0
    BY <2>1, <1>2 DEF RefreshedCase, CaseRow, CaseStatus, ActiveCase
  <2>2. CASE ~(days > 0)
    BY <2>2, <1>2 DEF RefreshedCase, CaseRow, CaseStatus, ActiveCase
  <2> QED BY <2>1, <2>2
<1>9. CaseOK(status1, new, case1, day)
  <2>1. ASSUME NEW n \in DOMAIN rows, new[n].status = "OVERDUE"
        PROVE  n \in OverdueNumbers(rows, day) /\ day > new[n].dueDay
    BY <2>1, <1>3 DEF OverdueNumbers, IsOverdue, IsOpen, Closed
  <2>2. ASSUME NEW n \in OverdueNumbers(rows, day)
        PROVE  n \in DOMAIN new /\ new[n].status = "OVERDUE"
    BY <1>3, <1>4 DEF OverdueNumbers
  <2> HIDE DEF days, new, status1, case1
  <2> QED BY <2>1, <2>2, <1>2, <1>4, <1>6, <1>8 DEF CaseOK
<1> QED BY <1>4, <1>5, <1>6, <1>7, <1>9 DEF ContractOK

\* The rows and the status that register hands to the refresh.
LEMMA PaymentKeepsContract ==
  ASSUME NEW status, NEW rows, NEW sums, NEW k, NEW day \in Nat, NEW paidDay \in Int,
         ContractOK(status, rows, sums, k, day),
         NEW n \in DOMAIN rows, NEW pay \in Nat \ {0},
         IsOpen(rows[n]), pay <= TotalOutstanding(rows[n], paidDay)
  PROVE  LET rows1 == [rows EXCEPT ![n] = AfterPayment(rows[n], pay, paidDay)]
             sums1 == [sums EXCEPT ![n] = @ + pay]
             status1 == RecomputedStatus(status, rows1)
         IN  /\ status \in Live
             /\ status1 \in {status, "SETTLED"}
             /\ RowsOK(rows1, sums1)
             /\ StatusOK(status1, rows1, sums1)
             /\ \A m \in DOMAIN rows1 : rows1[m].status = "OVERDUE" => day > rows1[m].dueDay
<1> DEFINE rows1 == [rows EXCEPT ![n] = AfterPayment(rows[n], pay, paidDay)]
           sums1 == [sums EXCEPT ![n] = @ + pay]
           status1 == RecomputedStatus(status, rows1)
           j == AfterPayment(rows[n], pay, paidDay)
<1>1. /\ rows \in Seq(Installment) /\ Len(rows) \in Nat /\ DOMAIN rows = 1..Len(rows)
      /\ sums \in Seq(Nat) /\ Len(sums) = Len(rows) /\ DOMAIN sums = 1..Len(rows)
  BY SeqIsFunction DEF ContractOK, RowsOK
<1>2. status \in Live
  BY DEF ContractOK, StatusOK, IsOpen, Closed, Live, ContractStatus
<1>3. \A m \in DOMAIN rows : RowOK(rows[m], sums[m])
  BY DEF ContractOK, RowsOK
<1>4. RowOK(j, sums[n] + pay) /\ j.status \in {"PAID", "PARTIALLY_PAID"}
  BY <1>3, PaymentKeepsRow
<1>5. j \in Installment /\ sums[n] + pay \in Nat
  BY <1>4 DEF RowOK
<1>6. /\ DOMAIN rows1 = DOMAIN rows /\ rows1[n] = j
      /\ \A m \in DOMAIN rows \ {n} : rows1[m] = rows[m]
      /\ rows1 \in Seq(Installment) /\ Len(rows1) = Len(rows)
  <2>1. DOMAIN rows1 = DOMAIN rows /\ rows1[n] = j /\ \A m \in DOMAIN rows \ {n} : rows1[m] = rows[m]
    BY <1>1
  <2>2. rows1 \in [1..Len(rows) -> Installment]
    BY <1>1, <1>3, <1>5, SeqIsFunction
  <2> HIDE DEF rows1
  <2> QED BY <2>1, <2>2, <1>1, FunctionIsSeq
<1>7. /\ DOMAIN sums1 = DOMAIN sums /\ sums1[n] = sums[n] + pay
      /\ \A m \in DOMAIN sums \ {n} : sums1[m] = sums[m]
      /\ sums1 \in Seq(Nat) /\ Len(sums1) = Len(sums)
  <2>1. DOMAIN sums1 = DOMAIN sums /\ sums1[n] = sums[n] + pay /\ \A m \in DOMAIN sums \ {n} : sums1[m] = sums[m]
    BY <1>1
  <2>2. sums1 \in [1..Len(rows) -> Nat]
    BY <1>1, <1>5, SeqIsFunction
  <2> HIDE DEF sums1
  <2> QED BY <2>1, <2>2, <1>1, FunctionIsSeq
<1> HIDE DEF rows1, sums1, j
<1>8. RowsOK(rows1, sums1)
  BY <1>1, <1>3, <1>4, <1>6, <1>7 DEF RowsOK
<1>9. \A m \in DOMAIN rows1 : rows1[m].status \notin {"CANCELLED", "RENEGOTIATED"}
  BY <1>2, <1>4, <1>6 DEF ContractOK, StatusOK
<1>10. \A m \in DOMAIN rows1 : rows1[m].status = "OVERDUE" => day > rows1[m].dueDay
  BY <1>2, <1>4, <1>6 DEF ContractOK, CaseOK
<1>11. DOMAIN rows1 # {}
  BY <1>6
<1>12. CASE AllDone(rows1)
  <2>1. status1 = "SETTLED"
    BY <1>2, <1>12 DEF RecomputedStatus, Live
  <2>2. \A m \in DOMAIN rows1 : rows1[m].status = "PAID"
    BY <1>9, <1>12 DEF AllDone
  <2> HIDE DEF status1
  <2>3. StatusOK(status1, rows1, sums1)
    BY <2>1, <2>2, <1>11 DEF StatusOK, Live, ContractStatus
  <2> QED BY <2>1, <2>3, <1>2, <1>8, <1>10 DEF rows1, sums1, status1
<1>13. CASE ~AllDone(rows1)
  <2>1. status1 = status
    BY <1>2, <1>13 DEF RecomputedStatus, Live
  <2>2. \E m \in DOMAIN rows1 : IsOpen(rows1[m])
    BY <1>9, <1>11, <1>13 DEF AllDone, IsOpen, Closed
  <2> HIDE DEF status1
  <2>3. StatusOK(status1, rows1, sums1)
    BY <2>1, <2>2, <1>2, <1>9 DEF StatusOK, Live, ContractStatus
  <2> QED BY <2>1, <2>3, <1>2, <1>8, <1>10 DEF rows1, sums1, status1
<1> QED BY <1>12, <1>13

\* Closing installments: the rows of a cancelled contract nobody paid on, and those
\* of a renegotiated one.
LEMMA CancelKeepsContract ==
  ASSUME NEW status, NEW rows, NEW sums, NEW k, NEW day \in Nat,
         ContractOK(status, rows, sums, k, day), status # "NONE",
         \A n \in DOMAIN sums : ~(sums[n] > 0)
  PROVE  ContractOK("CANCELLED",
                    [n \in DOMAIN rows |-> [rows[n] EXCEPT !.status = "CANCELLED"]],
                    sums, k, day)
<1> DEFINE new == [n \in DOMAIN rows |-> [rows[n] EXCEPT !.status = "CANCELLED"]]
<1>1. /\ rows \in Seq(Installment) /\ Len(rows) \in Nat /\ DOMAIN rows = 1..Len(rows)
      /\ sums \in Seq(Nat) /\ Len(sums) = Len(rows) /\ DOMAIN sums = 1..Len(rows)
      /\ sums \in [1..Len(rows) -> Nat]
  BY SeqIsFunction DEF ContractOK, RowsOK
<1>2. ASSUME NEW n \in DOMAIN rows
      PROVE  new[n] \in Installment /\ RowOK(new[n], sums[n]) /\ new[n].status = "CANCELLED"
  <2>1. RowOK(rows[n], sums[n])
    BY DEF ContractOK, RowsOK
  <2>2. RowOK(new[n], sums[n]) /\ new[n].status = "CANCELLED"
    BY <2>1, StatusKeepsRow
  <2> QED BY <2>2 DEF RowOK
<1>3. DOMAIN new = DOMAIN rows /\ new \in Seq(Installment) /\ Len(new) = Len(rows)
  <2>1. new \in [1..Len(rows) -> Installment]
    BY <1>1, <1>2
  <2> HIDE DEF new
  <2> QED BY <2>1, <1>1, FunctionIsSeq
<1>4. RowsOK(new, sums)
  BY <1>1, <1>2, <1>3 DEF RowsOK
<1>5. DOMAIN rows # {}
  BY DEF ContractOK, StatusOK, Live, ContractStatus
<1>6. \A n \in DOMAIN rows : sums[n] = 0
  BY <1>1
<1> HIDE DEF new
<1>7. StatusOK("CANCELLED", new, sums)
  BY <1>2, <1>3, <1>5, <1>6 DEF StatusOK, Live, ContractStatus
<1>8. CaseOK("CANCELLED", new, k, day)
  BY DEF ContractOK, CaseOK, Live
<1> QED BY <1>4, <1>7, <1>8 DEF ContractOK, new

\* The rows of a renegotiated contract: what was open is closed, what was paid stays.
LEMMA RenegotiateKeepsContract ==
  ASSUME NEW status \in Live, NEW rows, NEW sums, NEW k, NEW k1 \in CaseRow, NEW day \in Nat,
         ContractOK(status, rows, sums, k, day),
         k1.status = "RESOLVED" => k1.dunningStage = 0
  PROVE  ContractOK("RENEGOTIATED",
                    [n \in DOMAIN rows |-> IF IsOpen(rows[n])
                                           THEN [rows[n] EXCEPT !.status = "RENEGOTIATED"]
                                           ELSE rows[n]],
                    sums, k1, day)
<1> DEFINE new == [n \in DOMAIN rows |-> IF IsOpen(rows[n])
                                         THEN [rows[n] EXCEPT !.status = "RENEGOTIATED"]
                                         ELSE rows[n]]
<1>1. rows \in Seq(Installment) /\ Len(rows) \in Nat /\ DOMAIN rows = 1..Len(rows)
  BY SeqIsFunction DEF ContractOK, RowsOK
<1>2. ASSUME NEW n \in DOMAIN rows
      PROVE  /\ new[n] \in Installment /\ RowOK(new[n], sums[n])
             /\ IsOpen(rows[n]) => new[n].status = "RENEGOTIATED"
             /\ ~IsOpen(rows[n]) => new[n].status = "PAID"
  <2>1. RowOK(rows[n], sums[n]) /\ rows[n].status \notin {"CANCELLED", "RENEGOTIATED"}
    BY DEF ContractOK, RowsOK, StatusOK
  <2>2. CASE IsOpen(rows[n])
    <3>1. RowOK(new[n], sums[n]) /\ new[n].status = "RENEGOTIATED"
      BY <2>1, <2>2, StatusKeepsRow
    <3>2. new[n] \in Installment
      BY <3>1 DEF RowOK
    <3> QED BY <2>2, <3>1, <3>2
  <2>3. CASE ~IsOpen(rows[n])
    <3>1. new[n] = rows[n] /\ rows[n].status = "PAID"
      BY <2>1, <2>3 DEF IsOpen, Closed
    <3>2. rows[n] \in Installment
      BY <2>1 DEF RowOK
    <3> QED BY <2>1, <2>3, <3>1, <3>2
  <2> QED BY <2>2, <2>3
<1>3. DOMAIN new = DOMAIN rows /\ new \in Seq(Installment) /\ Len(new) = Len(rows)
  <2>1. new \in [1..Len(rows) -> Installment]
    BY <1>1, <1>2
  <2> HIDE DEF new
  <2> QED BY <2>1, <1>1, FunctionIsSeq
<1>4. RowsOK(new, sums)
  BY <1>2, <1>3 DEF ContractOK, RowsOK
<1> HIDE DEF new
<1>5. StatusOK("RENEGOTIATED", new, sums)
  <2>1. PICK n \in DOMAIN rows : IsOpen(rows[n])
    BY DEF ContractOK, StatusOK
  <2>2. new[n].status = "RENEGOTIATED"
    BY <1>2, <2>1
  <2>3. \A m \in DOMAIN new : new[m].status \in {"PAID", "RENEGOTIATED"}
    BY <1>2, <1>3
  <2> QED BY <1>3, <2>2, <2>3 DEF StatusOK, Live, ContractStatus
<1>6. CaseOK("RENEGOTIATED", new, k1, day)
  BY DEF CaseOK, Live
<1> QED BY <1>4, <1>5, <1>6 DEF ContractOK, new

\* A contract just created or renegotiated into: nothing flagged, nothing paid.
LEMMA NewKeepsContract ==
  ASSUME NEW p \in Nat, NEW m \in Nat \ {0}, NEW first \in Nat, NEW k \in CaseRow,
         NEW day \in Nat, k.status = "RESOLVED" => k.dunningStage = 0
  PROVE  ContractOK("ACTIVE", NewInstallments(p, m, first), Nothing(m), k, day)
<1> DEFINE rows == NewInstallments(p, m, first)
<1>1. /\ RowsOK(rows, Nothing(m)) /\ DOMAIN rows = 1..m
      /\ \A n \in 1..m : rows[n].status = "PENDING"
  BY NewRows
<1> HIDE DEF rows
<1>2. 1 \in 1..m
  OBVIOUS
<1>3. StatusOK("ACTIVE", rows, Nothing(m))
  BY <1>1, <1>2 DEF StatusOK, Live, ContractStatus, IsOpen, Closed
<1>4. CaseOK("ACTIVE", rows, k, day)
  BY <1>1 DEF CaseOK
<1> QED BY <1>1, <1>3, <1>4 DEF ContractOK, rows

\* Time only makes a flagged installment more overdue.
LEMMA LaterKeepsContract ==
  ASSUME NEW status, NEW rows, NEW sums, NEW k, NEW day \in Nat, NEW later \in Nat,
         ContractOK(status, rows, sums, k, day), later >= day
  PROVE  ContractOK(status, rows, sums, k, later)
<1>1. \A n \in DOMAIN rows : rows[n].dueDay \in Nat
  <2>1. ASSUME NEW n \in DOMAIN rows PROVE rows[n] \in Installment
    BY DEF ContractOK, RowsOK, RowOK
  <2> QED BY <2>1 DEF Installment
<1>2. CaseOK(status, rows, k, later)
  BY <1>1 DEF ContractOK, CaseOK
<1> QED BY <1>2 DEF ContractOK

\* On a contract whose balance another one carries, nothing is open to payment.
LEMMA CarriedContractIsClosed ==
  ASSUME NEW status \in {"RENEGOTIATED", "CANCELLED"}, NEW rows, NEW sums, NEW k, NEW day,
         ContractOK(status, rows, sums, k, day)
  PROVE  \A n \in DOMAIN rows : ~IsOpen(rows[n])
BY DEF ContractOK, StatusOK, IsOpen, Closed

-----------------------------------------------------------------------------
(* Steps *)

\* A step that rewrites one contract c and leaves the others alone.
LEMMA OneContractStep ==
  ASSUME IInv, NEW c \in Contracts, today' = today,
         contract' \in [Contracts -> [status : ContractStatus \cup {"NONE"},
                                      renegotiatedFrom : Contracts \cup {None}]],
         installments' \in [Contracts -> Seq(Installment)],
         received' \in [Contracts -> Seq(Nat)],
         kase' \in [Contracts -> CaseRow],
         \A d \in Contracts \ {c} : /\ contract'[d] = contract[d]
                                    /\ installments'[d] = installments[d]
                                    /\ received'[d] = received[d]
                                    /\ kase'[d] = kase[d],
         ContractOK(contract'[c].status, installments'[c], received'[c], kase'[c], today),
         contract'[c].renegotiatedFrom \in {contract[c].renegotiatedFrom, None},
         contract[c].status \in {"RENEGOTIATED", "CANCELLED"}
            => contract'[c].status \in {"RENEGOTIATED", "CANCELLED"}
  PROVE  IInv'
<1>1. \A d \in Contracts :
         ContractOK(contract'[d].status, installments'[d], received'[d], kase'[d], today')
  BY DEF IInv
<1>2. ASSUME NEW d \in Contracts, NEW e \in Contracts, contract'[e].renegotiatedFrom = d
      PROVE  /\ contract[e].renegotiatedFrom = d
             /\ contract[d].status \in {"RENEGOTIATED", "CANCELLED"}
             /\ contract'[d].status \in {"RENEGOTIATED", "CANCELLED"}
  <2>1. contract[e].renegotiatedFrom = d
    BY <1>2, LedgerAssumption
  <2>2. contract[d].status \in {"RENEGOTIATED", "CANCELLED"}
    BY <2>1 DEF IInv, DebtOwedOnce
  <2> QED BY <2>1, <2>2
<1>3. DebtOwedOnce'
  <2> SUFFICES ASSUME NEW d \in Contracts, NEW e \in Contracts,
                      contract'[e].renegotiatedFrom = d
               PROVE  /\ d # e
                      /\ contract'[d].status \in {"RENEGOTIATED", "CANCELLED"}
                      /\ \A n \in DOMAIN installments'[d] : ~IsOpen(installments'[d][n])
                      /\ \A f \in Contracts : contract'[f].renegotiatedFrom = d => f = e
    BY DEF DebtOwedOnce, Rows
  <2>1. \A n \in DOMAIN installments'[d] : ~IsOpen(installments'[d][n])
    <3>1. ContractOK(contract'[d].status, installments'[d], received'[d], kase'[d], today')
      BY <1>1
    <3>2. contract'[d].status \in {"RENEGOTIATED", "CANCELLED"}
      BY <1>2
    <3> QED BY <3>1, <3>2, CarriedContractIsClosed
  <2>2. d # e /\ \A f \in Contracts : contract[f].renegotiatedFrom = d => f = e
    BY <1>2 DEF IInv, DebtOwedOnce
  <2> QED BY <1>2, <2>1, <2>2
<1> QED BY <1>1, <1>3 DEF IInv

\* The refresh that ends a payment or stands alone, on rows it has been handed.
LEMMA RefreshWritesStep ==
  ASSUME IInv, NEW c \in Contracts, NEW status, NEW rows, NEW sums,
         RowsOK(rows, sums), StatusOK(status, rows, sums),
         \A n \in DOMAIN rows : rows[n].status = "OVERDUE" => today > rows[n].dueDay,
         contract[c].status \in Live, status \in Live \cup {"SETTLED"},
         RefreshWrites(c, status, rows), today' = today,
         received' = [received EXCEPT ![c] = sums]
  PROVE  IInv'
<1> DEFINE days == DaysOverdue(rows, today)
<1>1. /\ contract[c] \in [status : ContractStatus \cup {"NONE"},
                           renegotiatedFrom : Contracts \cup {None}]
      /\ kase[c] \in CaseRow /\ today \in Nat
      /\ (kase[c].status = "RESOLVED" => kase[c].dunningStage = 0)
  BY DEF IInv, ContractOK, CaseOK
<1>2. sums \in Seq(Nat) /\ rows \in Seq(Installment)
  BY DEF RowsOK
<1>3. received' \in [Contracts -> Seq(Nat)] /\ received'[c] = sums
      /\ \A d \in Contracts \ {c} : received'[d] = received[d]
  BY <1>2 DEF IInv
<1>4. CASE status \in Live
  <2> DEFINE status1 == RefreshedStatus(status, days)
             rows1 == FlaggedRows(rows, today)
             case1 == RefreshedCase(kase[c], days)
  <2>1. status1 \in Live /\ ContractOK(status1, rows1, sums, case1, today)
    BY <1>1, <1>4, RefreshKeepsContract
  <2>2. /\ contract' = [contract EXCEPT ![c].status = status1]
        /\ installments' = [installments EXCEPT ![c] = rows1]
        /\ kase' = [kase EXCEPT ![c] = case1]
    BY <1>4 DEF RefreshWrites
  <2> HIDE DEF status1, rows1, case1
  <2>3. status1 \in ContractStatus /\ rows1 \in Seq(Installment) /\ case1 \in CaseRow
    BY <2>1 DEF ContractOK, RowsOK, CaseOK, Live, ContractStatus
  <2>4. /\ contract' \in [Contracts -> [status : ContractStatus \cup {"NONE"},
                                        renegotiatedFrom : Contracts \cup {None}]]
        /\ contract'[c].status = status1
        /\ contract'[c].renegotiatedFrom = contract[c].renegotiatedFrom
        /\ \A d \in Contracts \ {c} : contract'[d] = contract[d]
    BY <1>1, <2>2, <2>3 DEF IInv
  <2>5. /\ installments' \in [Contracts -> Seq(Installment)] /\ installments'[c] = rows1
        /\ kase' \in [Contracts -> CaseRow] /\ kase'[c] = case1
        /\ \A d \in Contracts \ {c} : installments'[d] = installments[d] /\ kase'[d] = kase[d]
    BY <2>2, <2>3 DEF IInv
  <2>6. contract[c].status \notin {"RENEGOTIATED", "CANCELLED"}
    BY DEF Live
  <2> QED BY <1>3, <2>1, <2>4, <2>5, <2>6, OneContractStep
<1>5. CASE status \notin Live
  <2>1. status = "SETTLED"
    BY <1>5
  <2>2. /\ contract' = [contract EXCEPT ![c].status = status]
        /\ installments' = [installments EXCEPT ![c] = rows]
        /\ kase' = kase
    BY <1>5 DEF RefreshWrites
  <2>3. /\ contract' \in [Contracts -> [status : ContractStatus \cup {"NONE"},
                                        renegotiatedFrom : Contracts \cup {None}]]
        /\ contract'[c].status = status
        /\ contract'[c].renegotiatedFrom = contract[c].renegotiatedFrom
        /\ \A d \in Contracts \ {c} : contract'[d] = contract[d]
    BY <1>1, <2>1, <2>2 DEF IInv, ContractStatus
  <2>4. /\ installments' \in [Contracts -> Seq(Installment)] /\ installments'[c] = rows
        /\ kase' \in [Contracts -> CaseRow]
        /\ \A d \in Contracts \ {c} : installments'[d] = installments[d] /\ kase'[d] = kase[d]
    BY <1>2, <2>2 DEF IInv
  <2>5. CaseOK(status, rows, kase[c], today)
    BY <1>1, <1>5 DEF CaseOK
  <2>6. ContractOK(contract'[c].status, installments'[c], received'[c], kase'[c], today)
    BY <1>3, <2>2, <2>3, <2>4, <2>5 DEF ContractOK
  <2>7. contract[c].status \notin {"RENEGOTIATED", "CANCELLED"}
    BY DEF Live
  <2> QED BY <1>3, <2>3, <2>4, <2>6, <2>7, OneContractStep
<1> QED BY <1>4, <1>5

\* register keeps the invariant: allocation, status and refresh together.
LEMMA RegisterStep ==
  ASSUME IInv, NEW c \in Contracts, NEW n \in DOMAIN installments[c],
         NEW pay \in Nat, NEW lag \in Int, register(c, n, pay, lag)
  PROVE  IInv'
<1> DEFINE i == installments[c][n]
           rows == [installments[c] EXCEPT ![n] = AfterPayment(i, pay, today - lag)]
           sums == [received[c] EXCEPT ![n] = @ + pay]
           status == RecomputedStatus(contract[c].status, rows)
<1>1. /\ pay \in Nat \ {0} /\ IsOpen(i) /\ pay <= TotalOutstanding(i, today - lag)
      /\ received' = [received EXCEPT ![c][n] = @ + pay]
      /\ RefreshWrites(c, status, rows) /\ today' = today
  BY DEF register
<1>2. today - lag \in Int /\ today \in Nat
  BY DEF IInv
<1>3. ContractOK(contract[c].status, installments[c], received[c], kase[c], today)
  BY DEF IInv
<1>4. /\ contract[c].status \in Live /\ status \in {contract[c].status, "SETTLED"}
      /\ RowsOK(rows, sums) /\ StatusOK(status, rows, sums)
      /\ \A m \in DOMAIN rows : rows[m].status = "OVERDUE" => today > rows[m].dueDay
  BY <1>1, <1>2, <1>3, PaymentKeepsContract
<1>5. received' = [received EXCEPT ![c] = sums]
  BY <1>1 DEF IInv
<1> HIDE DEF rows, sums, status
<1> QED BY <1>1, <1>4, <1>5, RefreshWritesStep

\* So does every payment, of a given amount or of all that is due.
LEMMA PayStep ==
  ASSUME IInv, NEW c \in Contracts, Pay(c)
  PROVE  IInv'
<1>1. PICK n \in DOMAIN installments[c], lag \in Backdating :
         \/ \E pay \in PayAmounts : register(c, n, pay, lag)
         \/ settleInstallment(c, n, lag)
  BY DEF Pay
<1>2. lag \in Int
  BY LedgerAssumption
<1>3. CASE \E pay \in PayAmounts : register(c, n, pay, lag)
  <2>1. PICK pay \in PayAmounts : register(c, n, pay, lag)
    BY <1>3
  <2>2. pay \in Nat
    BY LedgerAssumption
  <2> QED BY <1>2, <2>1, <2>2, RegisterStep
<1>4. CASE settleInstallment(c, n, lag)
  <2> DEFINE due == TotalOutstanding(installments[c][n], today - lag)
  <2>1. installments[c][n] \in Installment
    BY DEF IInv, ContractOK, RowsOK, RowOK
  <2>2. DaysLate(installments[c][n], today - lag) \in Nat
    <3>1. installments[c][n].dueDay \in Nat
      BY <2>1 DEF Installment
    <3>2. today - lag \in Int
      BY LedgerAssumption DEF IInv
    <3> QED BY <3>1, <3>2 DEF DaysLate, NonNeg
  <2>3. due \in Nat
    BY <2>1, <2>2, OutstandingNat DEF TotalOutstanding
  <2>4. register(c, n, due, lag)
    BY <1>4 DEF settleInstallment
  <2> HIDE DEF due
  <2> QED BY <1>2, <2>3, <2>4, RegisterStep
<1> QED BY <1>1, <1>3, <1>4

\* refreshContract keeps the invariant.
LEMMA RefreshStep ==
  ASSUME IInv, NEW c \in Contracts, refreshContract(c)
  PROVE  IInv'
<1>1. ContractOK(contract[c].status, installments[c], received[c], kase[c], today)
  BY DEF IInv
<1>2. /\ contract[c].status \in Live /\ today' = today /\ received' = received
      /\ RefreshWrites(c, contract[c].status, installments[c])
  BY DEF refreshContract
<1>3. received' = [received EXCEPT ![c] = received[c]]
  BY <1>2 DEF IInv
<1> QED BY <1>1, <1>2, <1>3, RefreshWritesStep DEF ContractOK, CaseOK

\* Steps that only touch a case that exists.
LEMMA CaseStep ==
  ASSUME IInv, NEW c \in Contracts, NEW k \in CaseRow,
         kase[c].status # "NONE" => k.status # "NONE", k.daysOverdue = kase[c].daysOverdue,
         k.status = "RESOLVED" => k.dunningStage = 0,
         kase' = [kase EXCEPT ![c] = k],
         UNCHANGED <<today, contract, installments, received>>
  PROVE  IInv'
<1>1. ContractOK(contract[c].status, installments[c], received[c], kase[c], today)
  BY DEF IInv
<1>2. /\ contract[c].status = "DEFAULTED" => k.status # "NONE" /\ k.daysOverdue > 0
      /\ kase' \in [Contracts -> CaseRow] /\ kase'[c] = k
      /\ \A d \in Contracts \ {c} : kase'[d] = kase[d]
  BY <1>1 DEF IInv, ContractOK, CaseOK, Live
<1>3. ContractOK(contract'[c].status, installments'[c], received'[c], kase'[c], today)
  BY <1>1, <1>2 DEF ContractOK, CaseOK
<1>4. /\ contract' = contract /\ installments' = installments
      /\ received' = received /\ today' = today
  OBVIOUS
<1> QED BY <1>2, <1>3, <1>4, OneContractStep DEF IInv

\* So do the interactions, the promises and updateCaseStatus.
LEMMA CaseSteps ==
  ASSUME IInv, NEW c \in Contracts,
         \/ addInteraction(c) \/ addPromise(c) \/ breakPromise(c)
         \/ \E status \in CaseStatus : updateCaseStatus(c, status)
  PROVE  IInv'
<1>1. /\ kase[c] \in CaseRow /\ (kase[c].status = "RESOLVED" => kase[c].dunningStage = 0)
      /\ kase \in [Contracts -> CaseRow]
  BY DEF IInv, ContractOK, CaseOK
<1>2. CASE addInteraction(c)
  <2> DEFINE k == [kase[c] EXCEPT !.status = "IN_PROGRESS"]
  <2>1. k \in CaseRow /\ k.status = "IN_PROGRESS" /\ k.daysOverdue = kase[c].daysOverdue
    BY <1>1 DEF CaseRow, CaseStatus, ActiveCase
  <2>2. /\ kase' = [kase EXCEPT ![c] = k]
        /\ UNCHANGED <<today, contract, installments, received>>
    BY <1>1, <1>2 DEF addInteraction
  <2> HIDE DEF k
  <2> QED BY <2>1, <2>2, CaseStep
<1>3. CASE addPromise(c)
  <2> DEFINE k == [kase[c] EXCEPT !.status = "PROMISE"]
  <2>1. k \in CaseRow /\ k.status = "PROMISE" /\ k.daysOverdue = kase[c].daysOverdue
    BY <1>1 DEF CaseRow, CaseStatus, ActiveCase
  <2>2. /\ kase' = [kase EXCEPT ![c] = k]
        /\ UNCHANGED <<today, contract, installments, received>>
    BY <1>1, <1>3 DEF addPromise
  <2> HIDE DEF k
  <2> QED BY <2>1, <2>2, CaseStep
<1>4. CASE breakPromise(c)
  <2> DEFINE k == [kase[c] EXCEPT !.status = "IN_PROGRESS"]
  <2>1. k \in CaseRow /\ k.status = "IN_PROGRESS" /\ k.daysOverdue = kase[c].daysOverdue
    BY <1>1 DEF CaseRow, CaseStatus, ActiveCase
  <2>2. /\ kase' = [kase EXCEPT ![c] = k]
        /\ UNCHANGED <<today, contract, installments, received>>
    BY <1>1, <1>4 DEF breakPromise
  <2> HIDE DEF k
  <2> QED BY <2>1, <2>2, CaseStep
<1>5. CASE \E status \in CaseStatus : updateCaseStatus(c, status)
  <2>1. PICK status \in CaseStatus : updateCaseStatus(c, status)
    BY <1>5
  <2> DEFINE stage == IF status = "RESOLVED" THEN 0 ELSE kase[c].dunningStage
             k == [kase[c] EXCEPT !.status = status, !.dunningStage = stage]
  <2>2. stage \in 0..5 /\ (status = "RESOLVED" => stage = 0) /\ status # "NONE"
    BY <1>1 DEF CaseRow, CaseStatus, ActiveCase
  <2>3. kase' = [kase EXCEPT ![c].status = status, ![c].dunningStage = stage]
    BY <1>1, <2>1 DEF updateCaseStatus, CaseRow
  <2>4. UNCHANGED <<today, contract, installments, received>>
    BY <2>1 DEF updateCaseStatus
  <2> HIDE DEF stage
  <2>5. /\ k \in CaseRow /\ k.status = status /\ k.dunningStage = stage
        /\ k.daysOverdue = kase[c].daysOverdue
    BY <1>1, <2>2 DEF CaseRow
  <2>6. kase' = [kase EXCEPT ![c] = k]
    BY <1>1, <2>3
  <2> HIDE DEF k
  <2> QED BY <2>2, <2>4, <2>5, <2>6, CaseStep
<1> QED BY <1>2, <1>3, <1>4, <1>5

\* cancel keeps the invariant, on a renegotiated contract too.
LEMMA CancelStep ==
  ASSUME IInv, NEW c \in Contracts, cancel(c)
  PROVE  IInv'
<1> DEFINE rows == [n \in DOMAIN installments[c] |->
                      [installments[c][n] EXCEPT !.status = "CANCELLED"]]
<1>1. ContractOK(contract[c].status, installments[c], received[c], kase[c], today) /\ today \in Nat
  BY DEF IInv
<1>2. /\ contract[c].status # "NONE"
      /\ \A n \in DOMAIN received[c] : ~(received[c][n] > 0)
      /\ contract' = [contract EXCEPT ![c].status = "CANCELLED"]
      /\ installments' = [installments EXCEPT ![c] = rows]
      /\ UNCHANGED <<today, received, kase>>
  BY DEF cancel, HasPayments, IInv
<1>3. ContractOK("CANCELLED", rows, received[c], kase[c], today)
  BY <1>1, <1>2, CancelKeepsContract
<1> HIDE DEF rows
<1>4. rows \in Seq(Installment)
  BY <1>3 DEF ContractOK, RowsOK
<1>5. /\ contract' \in [Contracts -> [status : ContractStatus \cup {"NONE"},
                                      renegotiatedFrom : Contracts \cup {None}]]
      /\ contract'[c].status = "CANCELLED"
      /\ contract'[c].renegotiatedFrom = contract[c].renegotiatedFrom
      /\ \A d \in Contracts \ {c} : contract'[d] = contract[d]
  BY <1>2 DEF IInv, ContractStatus
<1>6. /\ installments' \in [Contracts -> Seq(Installment)] /\ installments'[c] = rows
      /\ \A d \in Contracts \ {c} : installments'[d] = installments[d]
      /\ received' \in [Contracts -> Seq(Nat)] /\ kase' \in [Contracts -> CaseRow]
  BY <1>2, <1>4 DEF IInv
<1> QED BY <1>2, <1>3, <1>5, <1>6, OneContractStep

\* createFromProposal keeps the invariant.
LEMMA CreateStep ==
  ASSUME IInv, NEW c \in Contracts, NEW offer \in Offers, createFromProposal(c, offer)
  PROVE  IInv'
<1> DEFINE first == today + offer.firstDueIn
           rows == NewInstallments(offer.principal, offer.termMonths, first)
           sums == Nothing(offer.termMonths)
<1>1. /\ kase[c] \in CaseRow /\ (kase[c].status = "RESOLVED" => kase[c].dunningStage = 0)
      /\ today \in Nat
  BY DEF IInv, ContractOK, CaseOK
<1>2. /\ contract[c].status = "NONE" /\ first \in Nat
      /\ contract' = [contract EXCEPT ![c] = [status |-> "ACTIVE", renegotiatedFrom |-> None]]
      /\ installments' = [installments EXCEPT ![c] = rows]
      /\ received' = [received EXCEPT ![c] = sums]
      /\ UNCHANGED <<today, kase>>
  BY DEF createFromProposal
<1>3. offer.principal \in Nat \ {0} /\ offer.termMonths \in Nat \ {0}
  BY LedgerAssumption
<1>4. ContractOK("ACTIVE", rows, sums, kase[c], today)
  <2> HIDE DEF first
  <2> QED BY <1>1, <1>2, <1>3, NewKeepsContract
<1> HIDE DEF rows, sums
<1>5. rows \in Seq(Installment) /\ sums \in Seq(Nat)
  BY <1>4 DEF ContractOK, RowsOK
<1>6. /\ contract' \in [Contracts -> [status : ContractStatus \cup {"NONE"},
                                      renegotiatedFrom : Contracts \cup {None}]]
      /\ contract'[c].status = "ACTIVE"
      /\ contract'[c].renegotiatedFrom = None
      /\ \A d \in Contracts \ {c} : contract'[d] = contract[d]
  BY <1>2 DEF IInv, ContractStatus, Live
<1>7. /\ installments' \in [Contracts -> Seq(Installment)] /\ installments'[c] = rows
      /\ received' \in [Contracts -> Seq(Nat)] /\ received'[c] = sums
      /\ \A d \in Contracts \ {c} : installments'[d] = installments[d]
                                    /\ received'[d] = received[d]
      /\ kase' \in [Contracts -> CaseRow]
  BY <1>2, <1>5 DEF IInv
<1> QED BY <1>2, <1>4, <1>6, <1>7, OneContractStep

\* The passing of days keeps the invariant: what is flagged stays past due.
LEMMA NextDayStep ==
  ASSUME IInv, NextDay
  PROVE  IInv'
<1>1. /\ today' \in Nat /\ today' >= today
      /\ UNCHANGED <<contract, installments, received, kase>>
  BY LedgerAssumption DEF NextDay, IInv
<1>2. ASSUME NEW c \in Contracts
      PROVE  ContractOK(contract'[c].status, installments'[c], received'[c], kase'[c], today')
  BY <1>1, LaterKeepsContract DEF IInv
<1>3. DebtOwedOnce'
  BY <1>1 DEF IInv, DebtOwedOnce, Rows
<1> QED BY <1>1, <1>2, <1>3 DEF IInv

\* renegotiate keeps the invariant, on the contract it closes and the one it opens.
LEMMA RenegotiateStep ==
  ASSUME IInv, NEW c \in Contracts, NEW new \in Contracts \ {c}, NEW term \in Terms,
         renegotiate(c, new, term)
  PROVE  IInv'
<1> DEFINE owed == ConsolidatedBalance(installments[c])
           first == today + term.firstDueIn
           rows == [n \in DOMAIN installments[c] |->
                      IF IsOpen(installments[c][n])
                      THEN [installments[c][n] EXCEPT !.status = "RENEGOTIATED"]
                      ELSE installments[c][n]]
           rows1 == NewInstallments(owed, term.termMonths, first)
           sums1 == Nothing(term.termMonths)
           case1 == IF kase[c].status \in {"NONE", "RESOLVED", "WRITTEN_OFF"} THEN kase[c]
                    ELSE [kase[c] EXCEPT !.status = "RESOLVED", !.dunningStage = 0]
<1>1. /\ contract[c].status \in Live /\ contract[new].status = "NONE"
      /\ owed \in Nat \ {0} /\ first \in Nat
      /\ contract' = [contract EXCEPT ![c].status = "RENEGOTIATED",
                          ![new] = [status |-> "ACTIVE", renegotiatedFrom |-> c]]
      /\ installments' = [installments EXCEPT ![c] = rows, ![new] = rows1]
      /\ received' = [received EXCEPT ![new] = sums1]
      /\ today' = today
  BY DEF renegotiate, IInv
<1>2. \A d \in Contracts :
         /\ ContractOK(contract[d].status, installments[d], received[d], kase[d], today)
         /\ kase[d] \in CaseRow /\ (kase[d].status = "RESOLVED" => kase[d].dunningStage = 0)
  BY DEF IInv, ContractOK, CaseOK
<1>3. case1 \in CaseRow /\ (case1.status = "RESOLVED" => case1.dunningStage = 0)
  <2>1. kase[c] \in CaseRow /\ (kase[c].status = "RESOLVED" => kase[c].dunningStage = 0)
    BY <1>2
  <2>2. CASE kase[c].status \in {"NONE", "RESOLVED", "WRITTEN_OFF"}
    BY <2>1, <2>2
  <2>3. CASE kase[c].status \notin {"NONE", "RESOLVED", "WRITTEN_OFF"}
    <3>1. case1 = [kase[c] EXCEPT !.status = "RESOLVED", !.dunningStage = 0]
      BY <2>3
    <3>2. "RESOLVED" \in CaseStatus \cup {"NONE"} /\ 0 \in 0..5
      BY DEF CaseStatus
    <3> HIDE DEF case1
    <3>3. case1.status = "RESOLVED" /\ case1.dunningStage = 0 /\ case1 \in CaseRow
      BY <2>1, <3>1, <3>2 DEF CaseRow
    <3> QED BY <3>3
  <2> QED BY <2>2, <2>3
<1>4. kase' = [kase EXCEPT ![c] = case1]
  BY DEF renegotiate, IInv
<1>5. today \in Nat /\ term.termMonths \in Nat \ {0}
  BY LedgerAssumption DEF IInv
<1>6. ContractOK("RENEGOTIATED", rows, received[c], case1, today)
  <2> HIDE DEF case1
  <2>1. ContractOK(contract[c].status, installments[c], received[c], kase[c], today)
    BY <1>2
  <2> QED BY <2>1, <1>1, <1>3, <1>5, RenegotiateKeepsContract
<1>7. ContractOK("ACTIVE", rows1, sums1, kase[new], today)
  <2> HIDE DEF owed, first
  <2>1. kase[new] \in CaseRow /\ (kase[new].status = "RESOLVED" => kase[new].dunningStage = 0)
    BY <1>2
  <2> QED BY <2>1, <1>1, <1>5, NewKeepsContract
<1> HIDE DEF rows, rows1, sums1, case1, owed, first
<1>8. rows \in Seq(Installment) /\ rows1 \in Seq(Installment) /\ sums1 \in Seq(Nat)
  BY <1>6, <1>7 DEF ContractOK, RowsOK
<1>9. /\ contract' \in [Contracts -> [status : ContractStatus \cup {"NONE"},
                                      renegotiatedFrom : Contracts \cup {None}]]
      /\ contract'[c].status = "RENEGOTIATED"
      /\ contract'[c].renegotiatedFrom = contract[c].renegotiatedFrom
      /\ contract'[new] = [status |-> "ACTIVE", renegotiatedFrom |-> c]
      /\ \A d \in Contracts \ {c, new} : contract'[d] = contract[d]
  BY <1>1 DEF IInv, ContractStatus, Live
<1>10. /\ installments' \in [Contracts -> Seq(Installment)]
       /\ installments'[c] = rows /\ installments'[new] = rows1
       /\ \A d \in Contracts \ {c, new} : installments'[d] = installments[d]
       /\ received' \in [Contracts -> Seq(Nat)] /\ received'[new] = sums1
       /\ \A d \in Contracts \ {new} : received'[d] = received[d]
  BY <1>1, <1>8 DEF IInv
<1>11. /\ kase' \in [Contracts -> CaseRow] /\ kase'[c] = case1
       /\ \A d \in Contracts \ {c} : kase'[d] = kase[d]
  BY <1>3, <1>4 DEF IInv
<1>12. ASSUME NEW d \in Contracts
       PROVE  ContractOK(contract'[d].status, installments'[d], received'[d], kase'[d], today')
  <2>1. CASE d = c
    BY <2>1, <1>1, <1>6, <1>9, <1>10, <1>11
  <2>2. CASE d = new
    BY <2>2, <1>1, <1>7, <1>9, <1>10, <1>11
  <2>3. CASE d \notin {c, new}
    BY <2>3, <1>1, <1>2, <1>9, <1>10, <1>11
  <2> QED BY <2>1, <2>2, <2>3
<1>13. ASSUME NEW d \in Contracts, NEW e \in Contracts, contract'[e].renegotiatedFrom = d
       PROVE  /\ d # e /\ contract'[d].status \in {"RENEGOTIATED", "CANCELLED"}
              /\ d = c => e = new
              /\ d # c => contract[e].renegotiatedFrom = d
  <2>1. CASE e = new
    BY <2>1, <1>9, <1>13
  <2>2. CASE e # new
    <3>1. contract[e].renegotiatedFrom = d
      BY <2>2, <1>9, <1>13
    <3>2. d # e /\ contract[d].status \in {"RENEGOTIATED", "CANCELLED"}
      BY <3>1 DEF IInv, DebtOwedOnce
    <3>3. d # c /\ d # new
      BY <3>2, <1>1 DEF Live
    <3> QED BY <3>1, <3>2, <3>3, <1>9
  <2> QED BY <2>1, <2>2
<1>14. DebtOwedOnce'
  <2> SUFFICES ASSUME NEW d \in Contracts, NEW e \in Contracts,
                      contract'[e].renegotiatedFrom = d
               PROVE  /\ d # e
                      /\ contract'[d].status \in {"RENEGOTIATED", "CANCELLED"}
                      /\ \A n \in DOMAIN installments'[d] : ~IsOpen(installments'[d][n])
                      /\ \A f \in Contracts : contract'[f].renegotiatedFrom = d => f = e
    BY DEF DebtOwedOnce, Rows
  <2>1. \A n \in DOMAIN installments'[d] : ~IsOpen(installments'[d][n])
    <3>1. ContractOK(contract'[d].status, installments'[d], received'[d], kase'[d], today')
      BY <1>12
    <3>2. contract'[d].status \in {"RENEGOTIATED", "CANCELLED"}
      BY <1>13
    <3> QED BY <3>1, <3>2, CarriedContractIsClosed
  <2>2. ASSUME NEW f \in Contracts, contract'[f].renegotiatedFrom = d
        PROVE  f = e
    <3>1. CASE d = c
      BY <3>1, <2>2, <1>13
    <3>2. CASE d # c
      <4>1. contract[f].renegotiatedFrom = d /\ contract[e].renegotiatedFrom = d
        BY <3>2, <2>2, <1>13
      <4> QED BY <4>1 DEF IInv, DebtOwedOnce
    <3> QED BY <3>1, <3>2
  <2> QED BY <1>13, <2>1, <2>2
<1> QED BY <1>1, <1>5, <1>9, <1>10, <1>11, <1>12, <1>14 DEF IInv

-----------------------------------------------------------------------------
(* The invariant, and what follows from it *)

\* Of at least a cent per installment, every installment takes some.
LEMMA PrincipalPositive ==
  ASSUME NEW p \in Nat, NEW m \in Nat \ {0}, m <= p, NEW k \in 1..m
  PROVE  buildSacSchedule(p, m)[k].principal > 0
<1> DEFINE share == p \div m
           balance == p - (k - 1) * share
<1>1. share \in Nat \ {0} /\ m * share <= p
  OBVIOUS
<1>2. balance > 0
  <2>1. k - 1 \in Nat /\ k - 1 <= m - 1 /\ m - 1 \in Nat
    OBVIOUS
  <2>2. m * share = (m - 1) * share + share
    <3> HIDE DEF share
    <3> QED BY <1>1
  <2> HIDE DEF share
  <2>3. (k - 1) * share <= (m - 1) * share /\ (k - 1) * share \in Nat /\ (m - 1) * share \in Nat
    BY <2>1, <1>1, NatProduct, ProductMonotone
  <2> QED BY <1>1, <2>2, <2>3
<1>3. buildSacSchedule(p, m)[k] =
        [principal |-> IF k < m THEN share ELSE balance,
         interest |-> RoundDiv(balance * InterestRate, RateScale)]
  BY DEF buildSacSchedule
<1> HIDE DEF share, balance
<1> QED BY <1>1, <1>2, <1>3

\* A loan of the seed is a contract as the API keeps them.
LEMMA SeededLoan ==
  ASSUME NEW s \in Seeds, NEW c \in DOMAIN s.loans
  PROVE  LET loan == createContractedLoan(s.loans[c], s.today) IN
         /\ loan.status \in {"ACTIVE", "DEFAULTED", "SETTLED"}
         /\ loan.kase \in CaseRow
         /\ ContractOK(loan.status, loan.installments, loan.received, loan.kase, s.today)
<1> DEFINE o == s.loans[c]
           day == s.today
           first == day - (o.startMonthsAgo - 1) * MonthDays
           p == o.principal
           m == o.termMonths
           rows == NewInstallments(p, m, first)
           made == {n \in DOMAIN rows : n <= o.paymentsMade}
           late == {n \in DOMAIN rows \ made : day > rows[n].dueDay}
           loan == createContractedLoan(o, day)
           new == [n \in DOMAIN rows |->
              IF n \in made THEN [rows[n] EXCEPT !.amountPaid = rows[n].amountDue, !.status = "PAID"]
              ELSE IF n \in late THEN [rows[n] EXCEPT !.status = "OVERDUE"]
              ELSE rows[n]]
           sums == [n \in DOMAIN rows |-> IF n \in made THEN rows[n].amountDue ELSE 0]
           kase1 == IF late = {} THEN NoCase
                    ELSE [status |-> "IN_PROGRESS", dunningStage |-> 0,
                          daysOverdue |-> Max({day - rows[n].dueDay : n \in late})]
           status == IF late # {} THEN "DEFAULTED"
                     ELSE IF o.paymentsMade >= o.termMonths THEN "SETTLED" ELSE "ACTIVE"
<1>1. /\ day \in Nat /\ first \in Nat /\ p \in Nat /\ m \in Nat \ {0} /\ m <= p
      /\ o.paymentsMade \in Nat
  BY SeedsAssumption
<1>2. loan = [status |-> status, installments |-> new, received |-> sums, kase |-> kase1]
  BY DEF createContractedLoan
<1>3. DOMAIN rows = 1..m /\ \A n \in 1..m : RowOK(rows[n], 0) /\ rows[n].status = "PENDING"
  <2> HIDE DEF p, m, first
  <2>1. /\ RowsOK(rows, Nothing(m)) /\ DOMAIN rows = 1..m
        /\ \A n \in 1..m : rows[n].status = "PENDING"
    BY <1>1, NewRows
  <2>2. \A n \in 1..m : Nothing(m)[n] = 0
    BY DEF Nothing
  <2> HIDE DEF rows
  <2> QED BY <2>1, <2>2 DEF RowsOK
<1>4. \A n \in 1..m : rows[n].amountDue > 0
  <2> SUFFICES ASSUME NEW n \in 1..m PROVE rows[n].amountDue > 0
    OBVIOUS
  <2> HIDE DEF p, m, first
  <2>1. /\ buildSacSchedule(p, m)[n].principal \in Nat
        /\ buildSacSchedule(p, m)[n].interest \in Nat
        /\ buildSacSchedule(p, m)[n].principal > 0
    BY <1>1, ScheduleNat, PrincipalPositive
  <2>2. rows[n].amountDue
          = buildSacSchedule(p, m)[n].principal + buildSacSchedule(p, m)[n].interest
    BY DEF NewInstallments
  <2> QED BY <2>1, <2>2
<1>5. made \subseteq 1..m /\ late \subseteq 1..m /\ made \cap late = {}
  BY <1>3
<1>6. ASSUME NEW n \in 1..m
      PROVE  /\ RowOK(new[n], sums[n])
             /\ new[n].status = IF n \in made THEN "PAID"
                                ELSE IF n \in late THEN "OVERDUE" ELSE "PENDING"
             /\ new[n].dueDay = rows[n].dueDay
  <2> DEFINE i == rows[n]
  <2>1. /\ i \in Installment /\ i.amountDue > 0 /\ i.amountPaid = 0 /\ i.lateFee = 0
        /\ i.lateInterest = 0 /\ i.status = "PENDING" /\ RowOK(i, 0)
    <3> HIDE DEF rows
    <3>1. RowOK(rows[n], 0) /\ rows[n].status = "PENDING" /\ rows[n].amountDue > 0
      BY <1>3, <1>4
    <3>2. rows[n] \in Installment
          /\ 0 = rows[n].amountPaid + rows[n].lateFee + rows[n].lateInterest
      BY <3>1 DEF RowOK
    <3>3. rows[n].amountPaid \in Nat /\ rows[n].lateFee \in Nat /\ rows[n].lateInterest \in Nat
      BY <3>2 DEF Installment
    <3> QED BY <3>1, <3>2, <3>3
  <2>2. CASE n \in made
    <3>1. new[n] = [i EXCEPT !.amountPaid = i.amountDue, !.status = "PAID"]
          /\ sums[n] = i.amountDue
      BY <1>3, <2>2
    <3> HIDE DEF i, new, sums, made, late
    <3>2. i.amountDue \in Nat /\ Fine(i.amountDue) \in Nat
      BY <2>1, FineMonotone DEF Installment
    <3>3. /\ new[n] \in Installment /\ new[n].amountPaid = i.amountDue /\ new[n].status = "PAID"
          /\ new[n].amountDue = i.amountDue /\ new[n].lateFee = 0 /\ new[n].lateInterest = 0
          /\ new[n].dueDay = i.dueDay
      BY <2>1, <3>1, <3>2 DEF Installment
    <3>4. RowOK(new[n], sums[n])
      BY <2>1, <3>1, <3>2, <3>3 DEF RowOK
    <3> QED BY <2>2, <3>3, <3>4 DEF i
  <2>3. CASE n \notin made /\ n \in late
    <3>1. new[n] = [i EXCEPT !.status = "OVERDUE"] /\ sums[n] = 0
      BY <1>3, <2>3
    <3> HIDE DEF i, new, sums, made, late
    <3> QED BY <2>1, <2>3, <3>1 DEF RowOK, Installment, i
  <2>4. CASE n \notin made /\ n \notin late
    <3>1. new[n] = i /\ sums[n] = 0
      BY <1>3, <2>4
    <3> HIDE DEF i, new, sums, made, late
    <3> QED BY <2>1, <2>4, <3>1 DEF i
  <2> QED BY <2>2, <2>3, <2>4
<1>7. DOMAIN new = 1..m /\ DOMAIN sums = 1..m
  BY <1>3
<1>8. RowsOK(new, sums)
  <2>1. new \in [1..m -> Installment] /\ sums \in [1..m -> Nat]
    <3>1. new = [n \in 1..m |-> new[n]] /\ sums = [n \in 1..m |-> sums[n]]
      BY <1>3
    <3> HIDE DEF new, sums
    <3> QED BY <3>1, <1>6 DEF RowOK
  <2> HIDE DEF new, sums, m
  <2>2. new \in Seq(Installment) /\ Len(new) = m /\ sums \in Seq(Nat) /\ Len(sums) = m
    BY <2>1, <1>1, FunctionIsSeq
  <2> QED BY <2>2, <1>6, <1>7 DEF RowsOK
<1>9. \A n \in 1..m : n \in made <=> n <= o.paymentsMade
  BY <1>3
<1>10. StatusOK(status, new, sums)
  <2>1. CASE late # {}
    <3>1. PICK n \in late : TRUE
      BY <2>1
    <3>2. n \in 1..m /\ new[n].status = "OVERDUE"
      BY <3>1, <1>5, <1>6
    <3>3. status = "DEFAULTED"
      BY <2>1
    <3> HIDE DEF new, sums, status, made, late
    <3> QED BY <3>2, <3>3, <1>6, <1>7 DEF StatusOK, Live, ContractStatus, IsOpen, Closed
  <2>2. CASE late = {} /\ o.paymentsMade >= m
    <3>1. status = "SETTLED" /\ 1 \in 1..m
      BY <1>1, <2>2
    <3>2. \A n \in 1..m : n \in made
      BY <1>1, <1>9, <2>2
    <3> HIDE DEF new, sums, status, made, late
    <3> QED BY <3>1, <3>2, <1>6, <1>7 DEF StatusOK, Live, ContractStatus
  <2>3. CASE late = {} /\ ~(o.paymentsMade >= m)
    <3>1. status = "ACTIVE" /\ m \in 1..m
      BY <1>1, <2>3
    <3>2. m \notin made /\ m \notin late
      BY <1>1, <1>9, <2>3, <3>1
    <3> HIDE DEF new, sums, status, made, late
    <3> QED BY <3>1, <3>2, <1>6, <1>7 DEF StatusOK, Live, ContractStatus, IsOpen, Closed
  <2> QED BY <2>1, <2>2, <2>3
<1>11. kase1 \in CaseRow /\ kase1.status \in {"NONE", "IN_PROGRESS"}
       /\ (late # {} => kase1.status # "NONE" /\ kase1.daysOverdue > 0)
  <2>1. CASE late = {}
    <3>1. kase1 = NoCase
      BY <2>1
    <3> HIDE DEF kase1, late
    <3> QED BY <2>1, <3>1 DEF NoCase, CaseRow
  <2>2. CASE late # {}
    <3> DEFINE D == {day - rows[n].dueDay : n \in late}
    <3>1. \A n \in late : rows[n].dueDay \in Nat /\ day > rows[n].dueDay
      <4>1. \A n \in late : day > rows[n].dueDay
        OBVIOUS
      <4> HIDE DEF rows, late
      <4> QED BY <4>1, <1>3, <1>5 DEF RowOK, Installment
    <3>2. D \subseteq Nat /\ D # {} /\ \A x \in D : x <= day /\ x > 0
      <4> HIDE DEF rows, late
      <4> QED BY <1>1, <2>2, <3>1
    <3>3. Max(D) \in Nat /\ Max(D) > 0
      <4> HIDE DEF D
      <4> QED BY <1>1, <3>2, MaxOfBoundedSet
    <3>4. kase1 = [status |-> "IN_PROGRESS", dunningStage |-> 0, daysOverdue |-> Max(D)]
      BY <2>2
    <3> HIDE DEF D, kase1
    <3> QED BY <3>3, <3>4 DEF CaseRow, CaseStatus, ActiveCase
  <2> QED BY <2>1, <2>2
<1>12. CaseOK(status, new, kase1, day)
  <2>1. status = "DEFAULTED" <=> late # {}
    OBVIOUS
  <2>2. \A n \in late : day > rows[n].dueDay
    OBVIOUS
  <2>3. \A n \in 1..m : new[n].status = "OVERDUE" <=> n \in late
    <3> HIDE DEF new, sums, made, late
    <3> QED BY <1>5, <1>6
  <2> HIDE DEF new, sums, made, late, rows, status, kase1, day
  <2> QED BY <2>1, <2>2, <2>3, <1>5, <1>6, <1>7, <1>11 DEF CaseOK
<1>13. status \in {"ACTIVE", "DEFAULTED", "SETTLED"}
  OBVIOUS
<1> HIDE DEF new, sums, made, late, rows, status, kase1
<1> QED BY <1>2, <1>8, <1>10, <1>11, <1>12, <1>13 DEF ContractOK, loan

\* The empty tables satisfy the invariant.
LEMMA EmptyEstablishesInv ==
  Empty => IInv
<1> SUFFICES ASSUME Empty PROVE IInv
  OBVIOUS
<1>1. /\ today = 0
      /\ contract \in [Contracts -> [status : ContractStatus \cup {"NONE"},
                                     renegotiatedFrom : Contracts \cup {None}]]
      /\ installments \in [Contracts -> Seq(Installment)]
      /\ received \in [Contracts -> Seq(Nat)]
      /\ kase \in [Contracts -> CaseRow]
  BY DEF Empty, NoRow, NoCase, CaseRow
<1>2. ASSUME NEW c \in Contracts
      PROVE  ContractOK(contract[c].status, installments[c], received[c], kase[c], today)
  <2>1. /\ contract[c].status = "NONE" /\ installments[c] = <<>> /\ received[c] = <<>>
        /\ kase[c].status = "NONE" /\ kase[c] \in CaseRow
    BY <1>1 DEF Empty, NoRow, NoCase
  <2>2. RowsOK(<<>>, <<>>)
    BY DEF RowsOK
  <2>3. StatusOK("NONE", <<>>, <<>>)
    BY DEF StatusOK, Live
  <2>4. CaseOK("NONE", <<>>, kase[c], today)
    BY <2>1 DEF CaseOK, Live
  <2> QED BY <2>1, <2>2, <2>3, <2>4 DEF ContractOK
<1>3. DebtOwedOnce
  BY LedgerAssumption DEF Empty, NoRow, DebtOwedOnce
<1> QED BY <1>1, <1>2, <1>3 DEF IInv

\* So do the tables that seed.ts leaves.
LEMMA SeededEstablishesInv ==
  ASSUME NEW s \in Seeds
  PROVE  Seeded(s) => IInv
<1> SUFFICES ASSUME Seeded(s) PROVE IInv
  OBVIOUS
<1> DEFINE loan(c) == createContractedLoan(s.loans[c], s.today)
<1>1. today = s.today /\ today \in Nat /\ DOMAIN s.loans \subseteq Contracts
  BY SeedsAssumption DEF Seeded
<1>2. ASSUME NEW c \in Contracts
      PROVE  IF c \in DOMAIN s.loans
             THEN /\ contract[c] = [status |-> loan(c).status, renegotiatedFrom |-> None]
                  /\ installments[c] = loan(c).installments
                  /\ received[c] = loan(c).received /\ kase[c] = loan(c).kase
             ELSE /\ contract[c] = NoRow /\ installments[c] = <<>> /\ received[c] = <<>>
                  /\ kase[c] = NoCase
  BY DEF Seeded
<1>3. /\ contract = [c \in Contracts |-> contract[c]]
      /\ installments = [c \in Contracts |-> installments[c]]
      /\ received = [c \in Contracts |-> received[c]]
      /\ kase = [c \in Contracts |-> kase[c]]
  BY DEF Seeded
<1> HIDE DEF loan
<1>4. ASSUME NEW c \in Contracts
      PROVE  /\ contract[c] \in [status : ContractStatus \cup {"NONE"},
                                 renegotiatedFrom : Contracts \cup {None}]
             /\ contract[c].renegotiatedFrom = None
             /\ kase[c] \in CaseRow
             /\ ContractOK(contract[c].status, installments[c], received[c], kase[c], today)
  <2>1. CASE c \in DOMAIN s.loans
    <3>1. /\ loan(c).status \in {"ACTIVE", "DEFAULTED", "SETTLED"} /\ loan(c).kase \in CaseRow
          /\ ContractOK(loan(c).status, loan(c).installments, loan(c).received, loan(c).kase,
                        s.today)
      BY <2>1, SeededLoan DEF loan
    <3>2. /\ contract[c] = [status |-> loan(c).status, renegotiatedFrom |-> None]
          /\ installments[c] = loan(c).installments
          /\ received[c] = loan(c).received /\ kase[c] = loan(c).kase
      BY <1>2, <2>1
    <3>3. contract[c].status = loan(c).status /\ contract[c].renegotiatedFrom = None
      BY <3>2
    <3>4. loan(c).status \in ContractStatus \cup {"NONE"}
      BY <3>1 DEF ContractStatus, Live
    <3>5. contract[c] \in [status : ContractStatus \cup {"NONE"},
                          renegotiatedFrom : Contracts \cup {None}]
      BY <3>2, <3>4
    <3> QED BY <1>1, <3>1, <3>2, <3>3, <3>5
  <2>2. CASE c \notin DOMAIN s.loans
    <3>5. /\ contract[c] = NoRow /\ installments[c] = <<>> /\ received[c] = <<>>
          /\ kase[c] = NoCase
      BY <1>2, <2>2
    <3>1. /\ contract[c].status = "NONE" /\ contract[c].renegotiatedFrom = None
          /\ kase[c].status = "NONE" /\ kase[c] \in CaseRow
      BY <3>5 DEF NoRow, NoCase, CaseRow
    <3>2. RowsOK(<<>>, <<>>)
      BY DEF RowsOK
    <3>3. StatusOK("NONE", <<>>, <<>>)
      BY DEF StatusOK, Live
    <3>4. CaseOK("NONE", <<>>, kase[c], today)
      BY <3>1 DEF CaseOK, Live
    <3> QED BY <3>1, <3>2, <3>3, <3>4, <3>5 DEF ContractOK, NoRow
  <2> QED BY <2>1, <2>2
<1>5. /\ contract \in [Contracts -> [status : ContractStatus \cup {"NONE"},
                                     renegotiatedFrom : Contracts \cup {None}]]
      /\ kase \in [Contracts -> CaseRow]
      /\ installments \in [Contracts -> Seq(Installment)]
      /\ received \in [Contracts -> Seq(Nat)]
  BY <1>3, <1>4 DEF ContractOK, RowsOK
<1>6. DebtOwedOnce
  BY <1>4, LedgerAssumption DEF DebtOwedOnce
<1> QED BY <1>1, <1>4, <1>5, <1>6 DEF IInv

\* The tables at first satisfy the invariant.
LEMMA InitEstablishesInv ==
  Init => IInv
BY EmptyEstablishesInv, SeededEstablishesInv DEF Init

\* Every step keeps the invariant.
LEMMA NextKeepsInv ==
  IInv /\ [Next]_vars => IInv'
<1> SUFFICES ASSUME IInv, [Next]_vars PROVE IInv'
  OBVIOUS
<1>1. CASE NextDay
  BY <1>1, NextDayStep
<1>2. CASE \E c \in Loans, offer \in Offers : createFromProposal(c, offer)
  BY <1>2, CreateStep, LedgerAssumption
<1>3. ASSUME NEW c \in Contracts, cancel(c) PROVE IInv'
  BY <1>3, CancelStep
<1>4. ASSUME NEW c \in Contracts, Pay(c) PROVE IInv'
  BY <1>4, PayStep
<1>5. ASSUME NEW c \in Contracts, refreshContract(c) PROVE IInv'
  BY <1>5, RefreshStep
<1>6. ASSUME NEW c \in Contracts,
             \/ addInteraction(c) \/ addPromise(c) \/ breakPromise(c)
             \/ \E status \in CaseStatus : updateCaseStatus(c, status)
      PROVE  IInv'
  BY <1>6, CaseSteps
<1>7. ASSUME NEW c \in Contracts, NEW new \in Contracts \ {c}, NEW term \in Terms,
             renegotiate(c, new, term)
      PROVE  IInv'
  BY <1>7, RenegotiateStep
<1>8. CASE UNCHANGED vars
  BY <1>8 DEF vars, IInv, DebtOwedOnce, Rows
<1> QED BY <1>1, <1>2, <1>3, <1>4, <1>5, <1>6, <1>7, <1>8 DEF Next

\* The inductive invariant holds in every behaviour; the properties below follow from it.
THEOREM LedgerInvariant == Spec => []IInv
<1>1. Init => IInv
  BY InitEstablishesInv
<1>2. IInv /\ [Next]_vars => IInv'
  BY NextKeepsInv
<1> QED BY <1>1, <1>2, PTL DEF Spec

\* Every row of every table keeps its type, in every behaviour of the API.
THEOREM LedgerTypeCorrect == Spec => []TypeOK
<1>1. IInv => TypeOK
  BY DEF IInv, TypeOK, ContractOK, RowsOK, CaseRow
<1> QED BY <1>1, LedgerInvariant, PTL

\* Whatever is paid, in any amounts, late or backdated, the Payment rows of an
\* installment add up to its amountPaid, lateFee and lateInterest columns.
THEOREM LedgerAlwaysBalances == Spec => []LedgerBalanced
<1>1. IInv => LedgerBalanced
  BY DEF IInv, LedgerBalanced, ContractOK, RowsOK, RowOK
<1> QED BY <1>1, LedgerInvariant, PTL

\* For every rate the schema can hold, the fine collected never exceeds one fine on
\* the installment, nor the arrears interest the installment itself.
THEOREM ChargesStayWithinContract == Spec => []ChargesWithinContract
<1>1. IInv => ChargesWithinContract
  BY DEF IInv, ChargesWithinContract, ContractOK, RowsOK, RowOK, Rows
<1> QED BY <1>1, LedgerInvariant, PTL

\* A renegotiated debt is never owed on two contracts.
THEOREM DebtIsOwedOnce == Spec => []DebtOwedOnce
<1>1. IInv => DebtOwedOnce
  BY DEF IInv
<1> QED BY <1>1, LedgerInvariant, PTL

\* A live contract is DEFAULTED exactly when the refresh flagged an installment.
THEOREM DefaultIsArrears == Spec => []DefaultMatchesArrears
<1>1. ASSUME IInv PROVE DefaultMatchesArrears
  <2> SUFFICES ASSUME NEW c \in Contracts, contract[c].status \in Live
               PROVE  /\ contract[c].status = "DEFAULTED"
                            <=> {i \in Rows(c) : i.status = "OVERDUE"} # {}
                      /\ \A i \in Rows(c) : i.status = "OVERDUE" => IsOverdue(i, today)
                      /\ contract[c].status = "DEFAULTED" => kase[c].status # "NONE"
    BY DEF DefaultMatchesArrears
  <2>1. CaseOK(contract[c].status, installments[c], kase[c], today)
    BY <1>1 DEF IInv, ContractOK
  <2> QED BY <2>1 DEF CaseOK, Rows, IsOverdue, IsOpen, Closed
<1> QED BY <1>1, LedgerInvariant, PTL

\* The status of a contract always agrees with its installments.
THEOREM StatusAgreesWithInstallments == Spec => []StatusMatchesInstallments
<1>1. ASSUME IInv PROVE StatusMatchesInstallments
  <2> SUFFICES ASSUME NEW c \in Contracts
               PROVE  LET statuses == {i.status : i \in Rows(c)} IN
                      CASE contract[c].status \in Live -> \E i \in Rows(c) : IsOpen(i)
                        [] contract[c].status = "SETTLED" -> statuses = {"PAID"}
                        [] contract[c].status = "RENEGOTIATED" ->
                              "RENEGOTIATED" \in statuses
                                /\ statuses \subseteq {"PAID", "RENEGOTIATED"}
                        [] contract[c].status = "CANCELLED" ->
                              statuses = {"CANCELLED"} /\ ~HasPayments(c)
                        [] OTHER -> statuses = {}
    BY DEF StatusMatchesInstallments
  <2>1. /\ StatusOK(contract[c].status, installments[c], received[c])
        /\ installments[c] \in Seq(Installment) /\ received[c] \in Seq(Nat)
        /\ Len(received[c]) = Len(installments[c])
    BY <1>1 DEF IInv, ContractOK, RowsOK
  <2>2. DOMAIN received[c] = DOMAIN installments[c]
    BY <2>1, SeqIsFunction
  <2>3. CASE contract[c].status \in Live
    BY <2>1, <2>3 DEF StatusOK, Rows
  <2>4. CASE contract[c].status = "SETTLED"
    BY <2>1, <2>4 DEF StatusOK, Rows, Live
  <2>5. CASE contract[c].status = "RENEGOTIATED"
    BY <2>1, <2>5 DEF StatusOK, Rows, Live
  <2>6. CASE contract[c].status = "CANCELLED"
    BY <2>1, <2>2, <2>6 DEF StatusOK, Rows, Live, HasPayments
  <2>7. CASE contract[c].status = "NONE"
    BY <2>1, <2>7 DEF StatusOK, Rows, Live
  <2> QED BY <2>1, <2>3, <2>4, <2>5, <2>6, <2>7 DEF StatusOK, ContractStatus
<1> QED BY <1>1, LedgerInvariant, PTL

-----------------------------------------------------------------------------
(* What a step may not do *)

\* What a refresh may write, and what it leaves alone.
LEMMA RefreshWritesFrame ==
  ASSUME IInv, NEW d \in Contracts, NEW status, NEW rows, RefreshWrites(d, status, rows)
  PROVE  /\ \A c \in Contracts \ {d} : contract'[c] = contract[c] /\ kase'[c] = kase[c]
                                      /\ installments'[c] = installments[c]
         /\ kase'[d] = kase[d] \/ kase'[d] = RefreshedCase(kase[d], DaysOverdue(rows, today))
         /\ installments'[d] = rows \/ installments'[d] = FlaggedRows(rows, today)
BY DEF IInv, RefreshWrites

\* A closed contract stays closed, in every behaviour.
THEOREM ClosedContractsStayClosed == Spec => ClosedStaysClosed
<1>1. ASSUME IInv, [Next]_vars, NEW c \in Contracts,
             contract[c].status # "NONE", contract[c].status \notin Live
      PROVE  \/ contract'[c].status = contract[c].status
             \/ contract[c].status = "RENEGOTIATED" /\ contract'[c].status = "CANCELLED"
  <2>1. ContractOK(contract[c].status, installments[c], received[c], kase[c], today)
    BY <1>1 DEF IInv
  <2>2. CASE NextDay \/ UNCHANGED vars
    BY <2>2 DEF NextDay, vars
  <2>3. ASSUME NEW d \in Loans, NEW offer \in Offers, createFromProposal(d, offer)
        PROVE  contract'[c].status = contract[c].status
    <3>1. d # c
      BY <1>1, <2>3 DEF createFromProposal
    <3> QED BY <1>1, <2>3, <3>1 DEF createFromProposal, IInv
  <2>4. ASSUME NEW d \in Contracts, cancel(d)
        PROVE  \/ contract'[c].status = contract[c].status
               \/ contract[c].status = "RENEGOTIATED" /\ contract'[c].status = "CANCELLED"
    <3>1. contract' = [contract EXCEPT ![d].status = "CANCELLED"] /\ ~HasPayments(d)
      BY <2>4 DEF cancel
    <3>2. CASE d # c
      BY <3>1, <3>2 DEF IInv
    <3>3. CASE d = c /\ contract[c].status = "SETTLED"
      <4>1. PICK n \in DOMAIN installments[c] : installments[c][n].status = "PAID"
        BY <2>1, <3>3 DEF ContractOK, StatusOK
      <4>2. RowOK(installments[c][n], received[c][n])
        BY <2>1 DEF ContractOK, RowsOK
      <4>3. received[c][n] > 0
        BY <4>1, <4>2 DEF RowOK
      <4>4. n \in DOMAIN received[c]
        BY <2>1, SeqIsFunction DEF ContractOK, RowsOK
      <4> QED BY <3>1, <3>3, <4>3, <4>4 DEF HasPayments
    <3>4. CASE d = c /\ contract[c].status # "SETTLED"
      <4>1. contract'[c].status = "CANCELLED"
        BY <1>1, <3>1, <3>4 DEF IInv
      <4>2. contract[c].status \in {"CANCELLED", "RENEGOTIATED"}
        BY <1>1, <2>1, <3>4 DEF ContractOK, StatusOK, ContractStatus
      <4> QED BY <4>1, <4>2
    <3> QED BY <3>2, <3>3, <3>4
  <2>5. ASSUME NEW d \in Contracts, Pay(d)
        PROVE  contract'[c].status = contract[c].status
    <3>0. PICK n \in DOMAIN installments[d] : \E pay, lag : register(d, n, pay, lag)
      BY <2>5 DEF Pay, settleInstallment
    <3>1. PICK pay, lag : register(d, n, pay, lag)
      BY <3>0
    <3>2. IsOpen(installments[d][n])
      BY <3>1 DEF register
    <3>3. ContractOK(contract[d].status, installments[d], received[d], kase[d], today)
      BY <1>1 DEF IInv
    <3>4. d # c
      BY <1>1, <3>2, <3>3 DEF ContractOK, StatusOK, IsOpen, Closed, ContractStatus
    <3> QED BY <1>1, <3>1, <3>4, RefreshWritesFrame DEF register
  <2>6. ASSUME NEW d \in Contracts, refreshContract(d)
        PROVE  contract'[c].status = contract[c].status
    BY <1>1, <2>6, RefreshWritesFrame DEF refreshContract
  <2>7. ASSUME NEW d \in Contracts,
               \/ addInteraction(d) \/ addPromise(d) \/ breakPromise(d)
               \/ \E status \in CaseStatus : updateCaseStatus(d, status)
        PROVE  contract'[c].status = contract[c].status
    BY <2>7 DEF addInteraction, addPromise, breakPromise, updateCaseStatus
  <2>8. ASSUME NEW d \in Contracts, NEW new \in Contracts \ {d}, NEW term \in Terms,
               renegotiate(d, new, term)
        PROVE  contract'[c].status = contract[c].status
    <3>1. /\ contract[d].status \in Live /\ contract[new].status = "NONE"
          /\ contract' = [contract EXCEPT ![d].status = "RENEGOTIATED",
                             ![new] = [status |-> "ACTIVE", renegotiatedFrom |-> d]]
      BY <2>8 DEF renegotiate
    <3>2. d # c /\ new # c
      BY <1>1, <3>1
    <3> QED BY <1>1, <3>1, <3>2 DEF IInv
  <2> QED BY <1>1, <2>2, <2>3, <2>4, <2>5, <2>6, <2>7, <2>8 DEF Next
<1>2. IInv /\ [Next]_vars =>
        [\A c \in Contracts :
           Exists(c) /\ contract[c].status \notin Live =>
              \/ contract'[c].status = contract[c].status
              \/ contract[c].status = "RENEGOTIATED" /\ contract'[c].status = "CANCELLED"]_vars
  BY <1>1 DEF Exists
<1> QED BY <1>2, LedgerInvariant, PTL DEF Spec, ClosedStaysClosed

\* Flagging an installment as overdue does not change what it owes.
LEMMA FlagMovesNoDebt ==
  ASSUME NEW i \in Installment, NEW day
  PROVE  TotalOutstanding([i EXCEPT !.status = "OVERDUE"], day) = TotalOutstanding(i, day)
<1> DEFINE j == [i EXCEPT !.status = "OVERDUE"]
<1>1. /\ j.dueDay = i.dueDay /\ j.amountDue = i.amountDue /\ j.amountPaid = i.amountPaid
      /\ j.lateFee = i.lateFee /\ j.lateInterest = i.lateInterest
  BY DEF Installment
<1> HIDE DEF j
<1>2. DaysLate(j, day) = DaysLate(i, day) /\ BaseOutstanding(j) = BaseOutstanding(i)
  BY <1>1 DEF DaysLate, BaseOutstanding
<1>3. computeOutstanding(j, DaysLate(j, day)) = computeOutstanding(i, DaysLate(i, day))
  BY <1>1, <1>2 DEF computeOutstanding
<1> QED BY <1>3 DEF TotalOutstanding, j

\* In every behaviour, a payment of p cents takes p cents off what its installment
\* owes on the day it is dated, for any rates, rounding and history of payments.
THEOREM PaymentsReduceDebtExactly == Spec => PaymentsReduceDebt
<1>1. ASSUME IInv, NEW c \in Contracts, NEW n \in DOMAIN installments[c],
             NEW pay \in Nat, NEW lag \in Backdating, register(c, n, pay, lag)
      PROVE  /\ received'[c][n] = received[c][n] + pay
             /\ TotalOutstanding(installments[c][n], today - lag)
                  - TotalOutstanding(installments'[c][n], today - lag) = pay
  <2> DEFINE i == installments[c][n]
             day == today - lag
             paid == AfterPayment(i, pay, day)
             rows == [installments[c] EXCEPT ![n] = paid]
  <2>1. /\ pay <= TotalOutstanding(i, day) /\ pay > 0
        /\ received' = [received EXCEPT ![c][n] = @ + pay]
        /\ RefreshWrites(c, RecomputedStatus(contract[c].status, rows), rows)
    BY <1>1 DEF register
  <2>2. /\ RowsOK(installments[c], received[c]) /\ RowOK(i, received[c][n])
        /\ day \in Int
    BY <1>1, LedgerAssumption DEF IInv, ContractOK, RowsOK
  <2>3. i \in Installment /\ i.amountPaid <= i.amountDue /\ received[c][n] \in Nat
    BY <2>2 DEF RowOK
  <2>4. n \in DOMAIN received[c]
    BY <2>2, SeqIsFunction DEF RowsOK
  <2>5. received'[c][n] = received[c][n] + pay
    BY <1>1, <2>1, <2>4 DEF IInv
  <2>6. DaysLate(i, day) \in Nat
    <3>1. i.dueDay \in Int
      BY <2>3 DEF Installment
    <3> QED BY <2>2, <3>1 DEF DaysLate, NonNeg
  <2>7. TotalOutstanding(i, day) \in Nat
    BY <2>3, <2>6, OutstandingNat DEF TotalOutstanding
  <2>8. TotalOutstanding(paid, day) = TotalOutstanding(i, day) - pay
    BY <2>1, <2>2, <2>3, PaymentReducesDebtExactly
  <2>9. paid \in Installment
    BY <2>1, <2>2, PaymentKeepsRow DEF RowOK
  <2>10. rows[n] = paid /\ DOMAIN rows = DOMAIN installments[c]
    BY <2>2 DEF RowsOK
  <2>11. installments'[c][n] \in {paid, [paid EXCEPT !.status = "OVERDUE"]}
    <3>1. installments'[c] = rows \/ installments'[c] = FlaggedRows(rows, today)
      BY <1>1, <2>1, RefreshWritesFrame
    <3>2. FlaggedRows(rows, today)[n] \in {paid, [paid EXCEPT !.status = "OVERDUE"]}
      BY <2>10 DEF FlaggedRows
    <3> QED BY <2>10, <3>1, <3>2
  <2>12. TotalOutstanding(installments'[c][n], day) = TotalOutstanding(paid, day)
    <3> HIDE DEF paid, day
    <3> QED BY <2>9, <2>11, FlagMovesNoDebt
  <2> HIDE DEF i, day, paid
  <2> QED BY <2>5, <2>7, <2>8, <2>12 DEF i, day
<1>2. ASSUME IInv, [Next]_vars, NEW c \in Contracts, NEW n \in DOMAIN received[c],
             received'[c][n] # received[c][n]
      PROVE  \E lag \in Backdating :
                TotalOutstanding(installments[c][n], today - lag)
                  - TotalOutstanding(installments'[c][n], today - lag)
                = received'[c][n] - received[c][n]
  <2>1. ContractOK(contract[c].status, installments[c], received[c], kase[c], today)
    BY <1>2 DEF IInv
  <2>2. /\ DOMAIN received[c] = DOMAIN installments[c] /\ received[c][n] \in Nat
        /\ received \in [Contracts -> Seq(Nat)]
    BY <1>2, <2>1, SeqIsFunction DEF IInv, ContractOK, RowsOK
  <2>3. contract[c].status # "NONE"
    BY <1>2, <2>1, <2>2 DEF ContractOK, StatusOK
  <2>4. received'[c] # received[c] /\ received' # received
    BY <1>2
  <2>5. ASSUME NEW d \in Contracts, Pay(d)
        PROVE  \E m \in DOMAIN installments[d], pay \in Nat, lag \in Backdating :
                  register(d, m, pay, lag)
    <3>1. PICK m \in DOMAIN installments[d], lag \in Backdating :
             \/ \E pay \in PayAmounts : register(d, m, pay, lag)
             \/ settleInstallment(d, m, lag)
      BY <2>5 DEF Pay
    <3>2. CASE \E pay \in PayAmounts : register(d, m, pay, lag)
      BY <3>2, LedgerAssumption
    <3>3. CASE settleInstallment(d, m, lag)
      <4> DEFINE due == TotalOutstanding(installments[d][m], today - lag)
      <4>1. installments[d][m] \in Installment /\ today - lag \in Int
        BY <1>2, LedgerAssumption DEF IInv, ContractOK, RowsOK, RowOK
      <4>2. DaysLate(installments[d][m], today - lag) \in Nat
        <5>1. installments[d][m].dueDay \in Int
          BY <4>1 DEF Installment
        <5> QED BY <4>1, <5>1 DEF DaysLate, NonNeg
      <4>3. due \in Nat
        BY <4>1, <4>2, OutstandingNat DEF TotalOutstanding
      <4>4. register(d, m, due, lag)
        BY <3>3 DEF settleInstallment
      <4> HIDE DEF due
      <4> QED BY <4>3, <4>4
    <3> QED BY <3>1, <3>2, <3>3
  <2>6. ASSUME NEW d \in Contracts, Pay(d)
        PROVE  \E lag \in Backdating :
                  TotalOutstanding(installments[c][n], today - lag)
                    - TotalOutstanding(installments'[c][n], today - lag)
                  = received'[c][n] - received[c][n]
    <3>1. PICK m \in DOMAIN installments[d], pay \in Nat, lag \in Backdating :
             register(d, m, pay, lag)
      BY <2>5, <2>6
    <3>2. received' = [received EXCEPT ![d][m] = @ + pay]
      BY <3>1 DEF register
    <3>3. d = c /\ m = n
      BY <1>2, <2>2, <3>2
    <3>4. /\ received'[c][n] = received[c][n] + pay
          /\ TotalOutstanding(installments[c][n], today - lag)
               - TotalOutstanding(installments'[c][n], today - lag) = pay
      BY <1>1, <1>2, <2>2, <3>1, <3>3
    <3> QED BY <2>2, <3>4
  <2>7. CASE NextDay \/ UNCHANGED vars
    BY <2>4, <2>7 DEF NextDay, vars
  <2>8. ASSUME NEW d \in Loans, NEW offer \in Offers, createFromProposal(d, offer)
        PROVE  FALSE
    BY <2>2, <2>3, <2>4, <2>8 DEF createFromProposal
  <2>9. ASSUME NEW d \in Contracts,
               \/ cancel(d) \/ refreshContract(d)
               \/ addInteraction(d) \/ addPromise(d) \/ breakPromise(d)
               \/ \E s \in CaseStatus : updateCaseStatus(d, s)
        PROVE  FALSE
    BY <2>4, <2>9 DEF cancel, refreshContract, addInteraction, addPromise,
                      breakPromise, updateCaseStatus
  <2>10. ASSUME NEW d \in Contracts, NEW new \in Contracts \ {d}, NEW term \in Terms,
                renegotiate(d, new, term)
         PROVE  FALSE
    BY <2>2, <2>3, <2>4, <2>10 DEF renegotiate
  <2> QED BY <1>2, <2>6, <2>7, <2>8, <2>9, <2>10 DEF Next
<1>3. IInv /\ [Next]_vars =>
        [\A c \in Contracts : \A n \in DOMAIN received[c] :
            received'[c][n] # received[c][n] =>
               \E lag \in Backdating :
                  TotalOutstanding(installments[c][n], today - lag)
                    - TotalOutstanding(installments'[c][n], today - lag)
                  = received'[c][n] - received[c][n]]_vars
  BY <1>2
<1> QED BY <1>3, LedgerInvariant, PTL DEF Spec, PaymentsReduceDebt
=============================================================================
