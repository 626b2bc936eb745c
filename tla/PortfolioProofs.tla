-------------------------- MODULE PortfolioProofs --------------------------
(***************************************************************************)
(* The reports agree with each other and with the ledger.  What is         *)
(* reported is computed from the state, so this holds wherever the         *)
(* inductive invariant of ContractLedgerProofs does: it says of every      *)
(* installment that its due amount is principal and interest, that its     *)
(* payments are what it shows as paid and the charges, and which statuses  *)
(* its contract may then have.  The rest is sums over the same rows taken  *)
(* by parts (SumSplits), by terms (SumAdds) and by contract (SumByOwner),  *)
(* and, for the exports, what the first rows of a finite table are.        *)
(***************************************************************************)
EXTENDS Portfolio, ContractLedgerProofs

-----------------------------------------------------------------------------
(* Sums by parts *)

\* The sum of a function over a set is the one that was reasoned about.
LEMMA TotalIsSum ==
  ASSUME NEW f, NEW S
  PROVE  SumFunctionOnSet(f, S) = SumOf(f, S)
BY Zenon DEF SumFunctionOnSet, FoldFunctionOnSet, SumOf, MapThenSumSet

\* A sum is that of a part and of the rest.
LEMMA SumSplits ==
  ASSUME NEW f, NEW D, IsFiniteSet(D), \A x \in D : f[x] \in Nat, NEW s \in SUBSET D
  PROVE  SumOf(f, D) = SumOf(f, s) + SumOf(f, D \ s)
<1> DEFINE P == {t \in SUBSET D : s \subseteq t => SumOf(f, t) = SumOf(f, s) + SumOf(f, t \ s)}
<1>1. \A t \in SUBSET D : SumOf(f, t) \in Nat /\ SumOf(f, t \ s) \in Nat
  BY FS_Subset, SumNat
<1>2. SumOf(f, {}) = 0
  BY FS_EmptySet, SumUnfolds
<1>3. {} \in P
  <2>1. ASSUME s \subseteq {} PROVE SumOf(f, {}) = SumOf(f, s) + SumOf(f, {} \ s)
    <3>1. s = {} /\ {} \ s = {}
      BY <2>1
    <3>2. SumOf(f, s) = 0 /\ SumOf(f, {} \ s) = 0
      BY <1>2, <3>1
    <3> QED BY <1>2, <3>2
  <2> QED BY <2>1
<1>4. ASSUME NEW t \in SUBSET D, t # {}, \A x \in t : t \ {x} \in P
      PROVE  t \in P
  <2>1. CASE s \subseteq t /\ s # t
    <3>1. PICK x \in t : x \notin s
      BY <2>1
    <3> DEFINE u == t \ {x}
    <3>2. SumOf(f, t) = f[x] + SumOf(f, u)
      BY FS_Subset, SumTakesAny
    <3>3. SumOf(f, t \ s) = f[x] + SumOf(f, u \ s)
      <4>1. IsFiniteSet(t \ s) /\ x \in t \ s /\ (t \ s) \ {x} = u \ s
        BY <3>1, FS_Subset
      <4>2. \A y \in t \ s : f[y] \in Nat
        OBVIOUS
      <4> HIDE DEF u
      <4> QED BY <4>1, <4>2, SumTakesAny
    <3>4. SumOf(f, u) = SumOf(f, s) + SumOf(f, u \ s)
      BY <1>4, <2>1, <3>1
    <3>5. f[x] \in Nat /\ u \in SUBSET D
      OBVIOUS
    <3> HIDE DEF u
    <3>6. SumOf(f, s) \in Nat /\ SumOf(f, u) \in Nat /\ SumOf(f, u \ s) \in Nat
      BY <1>1, <3>5
    <3>7. SumOf(f, t) = SumOf(f, s) + SumOf(f, t \ s)
      BY <3>2, <3>3, <3>4, <3>5, <3>6
    <3> QED BY <3>7
  <2>2. CASE s = t
    <3>1. t \ s = {} /\ SumOf(f, t) \in Nat
      BY <1>1, <2>2
    <3>2. SumOf(f, t \ s) = 0
      BY <1>2, <3>1
    <3>3. SumOf(f, s) = SumOf(f, t)
      BY <2>2
    <3>4. SumOf(f, t) = SumOf(f, s) + SumOf(f, t \ s)
      BY <3>1, <3>2, <3>3
    <3> QED BY <3>4
  <2> QED BY <2>1, <2>2
<1> HIDE DEF P
<1>5. D \in P
  BY <1>3, <1>4, SubsetInduction
<1> QED BY <1>5 DEF P

\* The sum of what is the sum of two parts at each element.
LEMMA SumAdds ==
  ASSUME NEW f, NEW g, NEW h, NEW D, IsFiniteSet(D),
         \A x \in D : g[x] \in Nat /\ h[x] \in Nat /\ f[x] = g[x] + h[x]
  PROVE  SumOf(f, D) = SumOf(g, D) + SumOf(h, D)
<1> DEFINE P == {s \in SUBSET D : SumOf(f, s) = SumOf(g, s) + SumOf(h, s)}
<1>1. \A s \in SUBSET D : SumOf(g, s) \in Nat /\ SumOf(h, s) \in Nat
  BY FS_Subset, SumNat
<1>2. {} \in P
  <2>1. SumOf(f, {}) = 0 /\ SumOf(g, {}) = 0 /\ SumOf(h, {}) = 0
    BY FS_EmptySet, SumUnfolds
  <2> QED BY <2>1
<1>3. ASSUME NEW s \in SUBSET D, s # {}, \A x \in s : s \ {x} \in P
      PROVE  s \in P
  <2> DEFINE c == CHOOSE x \in s : TRUE
             t == s \ {c}
  <2>1. c \in s /\ t \in SUBSET D
    BY <1>3
  <2>2. /\ SumOf(f, s) = f[c] + SumOf(f, t)
        /\ SumOf(g, s) = g[c] + SumOf(g, t)
        /\ SumOf(h, s) = h[c] + SumOf(h, t)
    BY <1>3, FS_Subset, SumUnfolds
  <2>3. SumOf(f, t) = SumOf(g, t) + SumOf(h, t)
    BY <1>3, <2>1
  <2>4. c \in D
    BY <2>1
  <2> HIDE DEF c, t
  <2>5. SumOf(f, s) = SumOf(g, s) + SumOf(h, s)
    BY <1>1, <2>1, <2>2, <2>3, <2>4
  <2> QED BY <2>5
<1> HIDE DEF P
<1>4. D \in P
  BY <1>2, <1>3, SubsetInduction
<1> QED BY <1>4 DEF P

\* Nothing but zeros adds up to nothing.
LEMMA SumOfZeros ==
  ASSUME NEW f, NEW D, IsFiniteSet(D), \A x \in D : f[x] = 0
  PROVE  SumOf(f, D) = 0
<1> DEFINE P == {s \in SUBSET D : SumOf(f, s) = 0}
<1>1. {} \in P
  BY FS_EmptySet, SumUnfolds
<1>2. ASSUME NEW s \in SUBSET D, s # {}, \A x \in s : s \ {x} \in P
      PROVE  s \in P
  <2> DEFINE c == CHOOSE x \in s : TRUE
  <2>1. c \in s
    BY <1>2
  <2>2. SumOf(f, s) = f[c] + SumOf(f, s \ {c})
    BY <1>2, FS_Subset, SumUnfolds
  <2>3. f[c] = 0 /\ SumOf(f, s \ {c}) = 0
    BY <1>2, <2>1
  <2> QED BY <2>2, <2>3
<1> HIDE DEF P
<1>3. D \in P
  BY <1>1, <1>2, SubsetInduction
<1> QED BY <1>3 DEF P

\* The elements of D that belong to a member of S.
OwnedBy(D, owner, S) == {x \in D : owner[x] \in S}

\* g is what of the sum of f over D belongs to each member of J.
IsShare(g, J, f, D, owner) ==
    /\ IsFiniteSet(D) /\ IsFiniteSet(J)
    /\ \A x \in D : f[x] \in Nat
    /\ \A j \in J : g[j] = SumOf(f, OwnedBy(D, owner, {j}))

\* The shares add up to what belongs to any of them.
LEMMA SumByOwner ==
  ASSUME NEW f, NEW D, NEW owner, NEW J, NEW g, IsShare(g, J, f, D, owner)
  PROVE  SumOf(f, OwnedBy(D, owner, J)) = SumOf(g, J)
<1>0. /\ IsFiniteSet(D) /\ IsFiniteSet(J) /\ \A x \in D : f[x] \in Nat
      /\ \A j \in J : g[j] = SumOf(f, OwnedBy(D, owner, {j}))
  BY DEF IsShare
<1> DEFINE Of(s) == OwnedBy(D, owner, s)
           P == {s \in SUBSET J : SumOf(f, Of(s)) = SumOf(g, s)}
<1>1. {} \in P
  <2>1. Of({}) = {}
    BY DEF OwnedBy
  <2>2. SumOf(f, {}) = 0 /\ SumOf(g, {}) = 0
    BY FS_EmptySet, SumUnfolds
  <2>3. SumOf(f, Of({})) = SumOf(g, {})
    BY Zenon, <2>1, <2>2
  <2> QED BY <2>3
<1>2. ASSUME NEW s \in SUBSET J, s # {}, \A x \in s : s \ {x} \in P
      PROVE  s \in P
  <2> DEFINE c == CHOOSE x \in s : TRUE
  <2>1. c \in s
    BY <1>2
  <2>2. SumOf(g, s) = g[c] + SumOf(g, s \ {c})
    BY <1>0, <1>2, FS_Subset, SumUnfolds
  <2>3. g[c] = SumOf(f, Of({c}))
    BY <1>0, <2>1
  <2>4. SumOf(f, Of(s \ {c})) = SumOf(g, s \ {c})
    BY <1>2, <2>1
  <2>5. SumOf(f, Of(s)) = SumOf(f, Of({c})) + SumOf(f, Of(s \ {c}))
    <3> DEFINE own == Of({c})
    <3>1. own \in SUBSET Of(s) /\ Of(s) \ own = Of(s \ {c}) /\ Of(s) \in SUBSET D
      BY <2>1 DEF OwnedBy
    <3>2. IsFiniteSet(Of(s)) /\ \A x \in Of(s) : f[x] \in Nat
      BY <1>0, <3>1, FS_Subset
    <3> HIDE DEF Of, own
    <3>3. SumOf(f, Of(s)) = SumOf(f, own) + SumOf(f, Of(s) \ own)
      BY <3>1, <3>2, SumSplits
    <3> QED BY <3>1, <3>3 DEF own
  <2> HIDE DEF Of, c
  <2> QED BY <2>2, <2>3, <2>4, <2>5
<1> HIDE DEF P
<1>3. J \in P
  BY <1>0, <1>1, <1>2, SubsetInduction
<1> QED BY <1>3 DEF P

-----------------------------------------------------------------------------
(* The rows that are summed *)

\* The image of a finite set is finite.
LEMMA ImageIsFinite ==
  ASSUME NEW S, IsFiniteSet(S), NEW f
  PROVE  IsFiniteSet({f[x] : x \in S})
<1> DEFINE T == {f[x] : x \in S}
           g == [x \in S |-> f[x]]
<1>1. g \in Surjection(S, T)
  BY DEF Surjection
<1> HIDE DEF g, T
<1>2. IsFiniteSet(T)
  BY <1>1, FS_Surjection
<1> QED BY <1>2 DEF T

\* The installments of finitely many contracts are finitely many, and a key is a
\* contract and the number of one of its installments.
LEMMA KeysOfTheLedger ==
  ASSUME IInv
  PROVE  /\ IsFiniteSet(Keys)
         /\ \A k \in Keys : /\ k[1] \in Contracts /\ k[2] \in DOMAIN installments[k[1]]
                            /\ RowOK(Row(k), Received[k])
                            /\ StatusOK(contract[k[1]].status, installments[k[1]],
                                        received[k[1]])
<1> DEFINE numbered == [c \in Contracts |-> {<<c, n>> : n \in DOMAIN installments[c]}]
<1>1. ASSUME NEW c \in Contracts
      PROVE  IsFiniteSet(numbered[c])
  <2> DEFINE N == DOMAIN installments[c]
             g == [n \in N |-> <<c, n>>]
  <2>1. installments[c] \in Seq(Installment)
    BY DEF IInv
  <2>2. N = 1..Len(installments[c]) /\ Len(installments[c]) \in Nat
    BY <2>1, SeqIsFunction
  <2>3. IsFiniteSet(N)
    <3> HIDE DEF N
    <3>1. IsFiniteSet(1..Len(installments[c]))
      BY <2>2, FS_Interval
    <3> QED BY <2>2, <3>1
  <2>4. numbered[c] = {g[n] : n \in N}
    OBVIOUS
  <2> HIDE DEF numbered, g, N
  <2> QED BY <2>3, <2>4, ImageIsFinite
<1>2. Keys = UNION {numbered[c] : c \in Contracts}
  BY DEF Keys
<1>3. \A k \in Keys : k[1] \in Contracts /\ k[2] \in DOMAIN installments[k[1]]
  BY DEF Keys
<1> HIDE DEF numbered
<1>4. IsFiniteSet({numbered[c] : c \in Contracts})
  BY ReportsAssumption, ImageIsFinite
<1>5. IsFiniteSet(Keys)
  BY <1>1, <1>2, <1>4, FS_UNION
<1>6. ASSUME NEW k \in Keys
      PROVE  /\ RowOK(Row(k), Received[k])
             /\ StatusOK(contract[k[1]].status, installments[k[1]], received[k[1]])
  <2>1. RowsOK(installments[k[1]], received[k[1]])
        /\ StatusOK(contract[k[1]].status, installments[k[1]], received[k[1]])
    BY <1>3 DEF IInv, ContractOK
  <2>2. RowOK(installments[k[1]][k[2]], received[k[1]][k[2]])
    BY <1>3, <2>1 DEF RowsOK
  <2> QED BY <2>1, <2>2 DEF Row, Received
<1> QED BY <1>3, <1>5, <1>6

\* Every figure of an installment is an amount of cents; what was received is what is
\* paid and charged, and what was lent, with its interest, is paid or still owed.
LEMMA FiguresOfAnInstallment ==
  ASSUME IInv, NEW k \in Keys
  PROVE  /\ Principal[k] \in Nat /\ Received[k] \in Nat /\ Paid[k] \in Nat
         /\ Base[k] \in Nat /\ Charges[k] \in Nat
         /\ Row(k).interestDue \in Nat /\ Row(k).lateFee \in Nat /\ Row(k).lateInterest \in Nat
         /\ Received[k] = Paid[k] + (Row(k).lateFee + Row(k).lateInterest)
         /\ Principal[k] + Row(k).interestDue = Paid[k] + Base[k]
         /\ Row(k).status = "PAID" => Base[k] = 0
<1> DEFINE i == Row(k)
           o == computeOutstanding(i, DaysLate(i, today))
<1>1. RowOK(i, Received[k])
  BY KeysOfTheLedger
<1>2. i \in Installment /\ today \in Nat
  BY <1>1 DEF RowOK, IInv
<1>3. /\ Principal[k] = i.principalDue /\ Paid[k] = i.amountPaid
      /\ Base[k] = i.amountDue - i.amountPaid /\ Charges[k] = o.fine + o.interest
  BY DEF Principal, Paid, Base, Charges
<1>4. o.fine \in Nat /\ o.interest \in Nat
  <2>1. DaysLate(i, today) \in Nat
    BY <1>2 DEF DaysLate, NonNeg, Installment
  <2> HIDE DEF i
  <2> QED BY <1>2, <2>1, OutstandingNat
<1> HIDE DEF i, o
<1>5. /\ i.principalDue \in Nat /\ i.interestDue \in Nat /\ i.amountDue \in Nat
      /\ i.amountPaid \in Nat /\ i.lateFee \in Nat /\ i.lateInterest \in Nat
  BY <1>2 DEF Installment
<1>6. Charges[k] \in Nat
  BY <1>3, <1>4
<1> QED BY <1>1, <1>3, <1>5, <1>6 DEF RowOK, i

\* An installment's status says what its contract's may be.
LEMMA StatusOfAnInstallment ==
  ASSUME IInv, NEW k \in Keys
  PROVE  LET i == Row(k)
             status == contract[k[1]].status IN
         /\ i.status \in {"PENDING", "PARTIALLY_PAID", "PAID", "OVERDUE", "RENEGOTIATED",
                          "CANCELLED"}
         /\ i.status \in {"PENDING", "PARTIALLY_PAID", "OVERDUE"} => status \in Live
         /\ i.status = "OVERDUE" => today > i.dueDay
         /\ i.status = "CANCELLED" <=> status = "CANCELLED"
         /\ status = "CANCELLED" => Paid[k] = 0
         /\ status = "SETTLED" => i.status = "PAID"
         /\ status # "NONE"
<1> DEFINE i == Row(k)
           status == contract[k[1]].status
           rows == installments[k[1]]
           sums == received[k[1]]
<1>1. /\ k[1] \in Contracts /\ k[2] \in DOMAIN rows
      /\ RowOK(i, Received[k]) /\ StatusOK(status, rows, sums)
  BY KeysOfTheLedger
<1>2. i = rows[k[2]] /\ Received[k] = sums[k[2]] /\ Paid[k] = i.amountPaid
  BY DEF Row, Received, Paid
<1>3. CaseOK(status, rows, kase[k[1]], today)
  BY <1>1 DEF IInv, ContractOK
<1>4. /\ i.status \in {"PENDING", "PARTIALLY_PAID", "PAID", "OVERDUE", "RENEGOTIATED",
                        "CANCELLED"}
      /\ Received[k] = 0 => Paid[k] = 0
  <2>1. /\ i.amountPaid \in Nat /\ i.lateFee \in Nat /\ i.lateInterest \in Nat
        /\ Received[k] = i.amountPaid + i.lateFee + i.lateInterest
        /\ i.status \in {"PENDING", "PARTIALLY_PAID", "PAID", "OVERDUE", "RENEGOTIATED",
                         "CANCELLED"}
    BY <1>1 DEF RowOK, Installment
  <2> HIDE DEF i
  <2>2. Received[k] = 0 => i.amountPaid = 0
    BY <2>1
  <2> QED BY <1>2, <2>1, <2>2
<1>5. status # "NONE"
  <2> HIDE DEF rows, status
  <2>1. ASSUME status = "NONE" PROVE FALSE
    <3>1. rows = <<>>
      BY <1>1, <2>1 DEF StatusOK
    <3>2. DOMAIN <<>> = {}
      OBVIOUS
    <3> QED BY <1>1, <3>1, <3>2
  <2> QED BY <2>1
<1> HIDE DEF i, status, rows, sums
<1>6. status \in {"ACTIVE", "DEFAULTED", "SETTLED", "CANCELLED", "RENEGOTIATED"}
  BY <1>1, <1>5 DEF StatusOK, ContractStatus, Live
<1>7. CASE status \in Live
  BY <1>1, <1>2, <1>3, <1>4, <1>7 DEF StatusOK, CaseOK, Live, i, status
<1>8. CASE status = "SETTLED"
  BY <1>1, <1>2, <1>4, <1>8 DEF StatusOK, i, status
<1>9. CASE status = "RENEGOTIATED"
  BY <1>1, <1>2, <1>4, <1>9 DEF StatusOK, i, status
<1>10. CASE status = "CANCELLED"
  BY <1>1, <1>2, <1>4, <1>10 DEF StatusOK, i, status
<1> QED BY <1>6, <1>7, <1>8, <1>9, <1>10 DEF Live

\* Sums over some of the installments.
LEMMA SumsOverKeys ==
  ASSUME IInv, NEW S \in SUBSET Keys
  PROVE  /\ IsFiniteSet(S)
         /\ \A k \in S : /\ Principal[k] \in Nat /\ Received[k] \in Nat /\ Paid[k] \in Nat
                         /\ Base[k] \in Nat /\ Charges[k] \in Nat
         /\ SumOf(Principal, S) \in Nat /\ SumOf(Received, S) \in Nat /\ SumOf(Paid, S) \in Nat
         /\ SumOf(Base, S) \in Nat /\ SumOf(Charges, S) \in Nat
<1>1. IsFiniteSet(S)
  BY KeysOfTheLedger, FS_Subset
<1>2. \A k \in S : /\ Principal[k] \in Nat /\ Received[k] \in Nat /\ Paid[k] \in Nat
                  /\ Base[k] \in Nat /\ Charges[k] \in Nat
  BY FiguresOfAnInstallment
<1>3. /\ SumOf(Principal, S) \in Nat /\ SumOf(Received, S) \in Nat /\ SumOf(Paid, S) \in Nat
      /\ SumOf(Base, S) \in Nat /\ SumOf(Charges, S) \in Nat
  BY <1>1, <1>2, SumNat
<1> QED BY <1>1, <1>2, <1>3

-----------------------------------------------------------------------------
(* The figures *)

\* What is overdue is outstanding, and what is still to come is something else.
LEMMA PartsOfTheOutstanding ==
  ASSUME IInv
  PROVE  overview.totalOverdue + overview.upcomingReceivables <= overview.portfolioOutstanding
<1> DEFINE late == WithStatus({"OVERDUE"})
           soon == UpcomingKeys
           all == OutstandingKeys
<1>1. /\ overview.totalOverdue = SumOf(Base, late)
      /\ overview.upcomingReceivables = SumOf(Base, soon)
      /\ overview.portfolioOutstanding = SumOf(Base, all)
  BY TotalIsSum DEF overview
<1>2. all \in SUBSET Keys /\ soon \in SUBSET all
  BY DEF OutstandingKeys, UpcomingKeys, WithStatus
<1>3. late \in SUBSET all
  <2>1. ASSUME NEW k \in late PROVE k \in all
    <3>1. k \in Keys /\ Row(k).status = "OVERDUE"
      BY DEF WithStatus
    <3>2. contract[k[1]].status \in Live
      BY <3>1, StatusOfAnInstallment
    <3> QED BY <3>1, <3>2 DEF OutstandingKeys, WithStatus, OfLiveContracts
  <2> QED BY <2>1
<1>4. soon \in SUBSET (all \ late)
  <2>1. ASSUME NEW k \in soon PROVE k \notin late
    <3>1. k \in Keys /\ Row(k).dueDay >= today
      BY <1>2 DEF UpcomingKeys
    <3>2. ~(today > Row(k).dueDay)
      <4>1. today \in Nat /\ Row(k).dueDay \in Nat
        BY <3>1, KeysOfTheLedger DEF IInv, RowOK, Installment
      <4> QED BY <3>1, <4>1
    <3> QED BY <3>1, <3>2, StatusOfAnInstallment DEF WithStatus
  <2> QED BY <1>2, <2>1
<1> HIDE DEF late, soon, all
<1>5. /\ IsFiniteSet(all) /\ IsFiniteSet(all \ late)
      /\ (\A k \in all : Base[k] \in Nat) /\ \A k \in all \ late : Base[k] \in Nat
      /\ SumOf(Base, all) \in Nat /\ SumOf(Base, late) \in Nat
      /\ SumOf(Base, soon) \in Nat /\ SumOf(Base, all \ late) \in Nat
  <2>1. late \in SUBSET Keys /\ soon \in SUBSET Keys /\ all \ late \in SUBSET Keys
    BY <1>2, <1>3
  <2> QED BY <1>2, <2>1, SumsOverKeys
<1>6. SumOf(Base, all) = SumOf(Base, late) + SumOf(Base, all \ late)
  <2>1. IsFiniteSet(all) /\ \A k \in all : Base[k] \in Nat
    BY <1>5
  <2> QED BY <1>3, <2>1, SumSplits
<1>7. SumOf(Base, soon) <= SumOf(Base, all \ late)
  BY <1>4, <1>5, SumMonotone
<1> QED BY <1>1, <1>5, <1>6, <1>7

\* Charges accrue on what is overdue only.
LEMMA ChargesNeedArrears ==
  ASSUME IInv, overview.lateCharges > 0
  PROVE  overview.totalOverdue > 0
<1> DEFINE late == WithStatus({"OVERDUE"})
<1>1. /\ overview.totalOverdue = SumOf(Base, late)
      /\ overview.lateCharges = SumOf(Charges, late)
  BY TotalIsSum DEF overview
<1>2. late \in SUBSET Keys
  BY DEF WithStatus
<1> HIDE DEF late
<1>3. IsFiniteSet(late) /\ \A k \in late : Base[k] \in Nat /\ Charges[k] \in Nat
  BY <1>2, SumsOverKeys
<1>4. PICK k \in late : Charges[k] # 0
  <2>1. SumOf(Charges, late) # 0
    BY <1>1
  <2> QED BY <1>3, <2>1, SumOfZeros
<1>5. Base[k] # 0
  <2> DEFINE i == Row(k)
  <2>1. /\ Base[k] = i.amountDue - i.amountPaid
        /\ Charges[k] = computeOutstanding(i, DaysLate(i, today)).fine
                          + computeOutstanding(i, DaysLate(i, today)).interest
    BY <1>2 DEF Base, Charges
  <2>2. i.amountDue \in Nat /\ i.amountPaid \in Nat
    BY <1>2, KeysOfTheLedger DEF RowOK, Installment
  <2>3. ASSUME Base[k] = 0 PROVE FALSE
    <3>1. BaseOutstanding(i) = 0
      BY <2>1, <2>2, <2>3 DEF BaseOutstanding, NonNeg
    <3>2. Charges[k] = 0 + 0
      BY <2>1, <3>1 DEF computeOutstanding
    <3> QED BY <1>4, <3>2
  <2> QED BY <2>3
<1>6. SumOf(Base, late) = Base[k] + SumOf(Base, late \ {k})
  BY <1>3, SumTakesAny
<1>7. SumOf(Base, late \ {k}) \in Nat
  <2>1. late \ {k} \in SUBSET Keys
    BY <1>2
  <2> QED BY <2>1, SumsOverKeys
<1> QED BY <1>1, <1>3, <1>5, <1>6, <1>7

\* What was received is what the installments show as paid, and the charges.
LEMMA ReceivedIsPaidAndCharged ==
  ASSUME IInv, NEW charged, \A k \in Keys : charged[k] = Row(k).lateFee + Row(k).lateInterest
  PROVE  overview.totalReceived = getFinancialHistory.totalPaid + SumFunctionOnSet(charged, Keys)
<1>1. /\ overview.totalReceived = SumOf(Received, Keys)
      /\ getFinancialHistory.totalPaid = SumOf(Paid, Keys)
      /\ SumFunctionOnSet(charged, Keys) = SumOf(charged, Keys)
  BY TotalIsSum DEF overview, getFinancialHistory
<1>2. ASSUME NEW k \in Keys
      PROVE  Paid[k] \in Nat /\ charged[k] \in Nat /\ Received[k] = Paid[k] + charged[k]
  <2>1. /\ Paid[k] \in Nat /\ Row(k).lateFee \in Nat /\ Row(k).lateInterest \in Nat
        /\ Received[k] = Paid[k] + (Row(k).lateFee + Row(k).lateInterest)
    BY FiguresOfAnInstallment
  <2> QED BY <2>1
<1>3. IsFiniteSet(Keys)
  BY KeysOfTheLedger
<1>4. SumOf(Received, Keys) = SumOf(Paid, Keys) + SumOf(charged, Keys)
  BY <1>2, <1>3, SumAdds
<1> QED BY <1>1, <1>4

\* Nothing was paid on a cancelled contract.
LEMMA PaidOnNotCancelled ==
  ASSUME IInv
  PROVE  SumOf(Paid, Keys) = SumOf(Paid, NotCancelled)
<1> DEFINE live == NotCancelled
           rest == Keys \ live
<1>1. live \in SUBSET Keys /\ rest \in SUBSET Keys
  BY DEF NotCancelled
<1>2. \A k \in rest : Paid[k] = 0
  BY StatusOfAnInstallment DEF NotCancelled
<1> HIDE DEF live, rest
<1>3. IsFiniteSet(Keys) /\ \A k \in Keys : Paid[k] \in Nat
  BY SumsOverKeys
<1>4. IsFiniteSet(rest) /\ SumOf(Paid, live) \in Nat
  BY <1>1, SumsOverKeys
<1>5. SumOf(Paid, Keys) = SumOf(Paid, live) + SumOf(Paid, Keys \ live)
  BY <1>1, <1>3, SumSplits
<1>6. SumOf(Paid, rest) = 0
  BY <1>2, <1>4, SumOfZeros
<1>7. SumOf(Paid, Keys) = SumOf(Paid, live)
  BY <1>4, <1>5, <1>6 DEF rest
<1> QED BY <1>7 DEF live

\* What is neither paid nor cancelled is all that is owed on contracts not cancelled.
LEMMA OwedOnNotCancelled ==
  ASSUME IInv
  PROVE  SumOf(Base, NotCancelled) = SumOf(Base, SummarizedKeys)
<1> DEFINE all == NotCancelled
           open == SummarizedKeys
           rest == all \ open
<1>1. all \in SUBSET Keys /\ rest \in SUBSET Keys
  BY DEF NotCancelled
<1>2. open \in SUBSET all
  <2>1. ASSUME NEW k \in open PROVE k \in all
    <3>1. k \in Keys /\ Row(k).status # "CANCELLED"
      BY DEF SummarizedKeys, WithStatus
    <3> QED BY <3>1, StatusOfAnInstallment DEF NotCancelled
  <2> QED BY <2>1
<1>3. ASSUME NEW k \in rest PROVE Base[k] = 0
  <2>1. k \in Keys /\ Row(k).status \in {"PAID", "CANCELLED"}
    BY DEF SummarizedKeys, WithStatus, NotCancelled
  <2>2. contract[k[1]].status # "CANCELLED"
    BY DEF NotCancelled
  <2>3. Row(k).status = "PAID"
    BY <2>1, <2>2, StatusOfAnInstallment
  <2> QED BY <2>1, <2>3, FiguresOfAnInstallment
<1> HIDE DEF all, open, rest
<1>4. IsFiniteSet(all) /\ \A k \in all : Base[k] \in Nat
  BY <1>1, SumsOverKeys
<1>5. IsFiniteSet(rest) /\ SumOf(Base, open) \in Nat
  <2>1. open \in SUBSET Keys
    BY <1>1, <1>2
  <2> QED BY <1>1, <2>1, SumsOverKeys
<1>6. SumOf(Base, all) = SumOf(Base, open) + SumOf(Base, all \ open)
  BY <1>2, <1>4, SumSplits
<1>7. SumOf(Base, rest) = 0
  BY <1>3, <1>5, SumOfZeros
<1>8. SumOf(Base, all) = SumOf(Base, open)
  BY <1>5, <1>6, <1>7 DEF rest
<1> QED BY <1>8 DEF all, open

\* What was lent, with its interest, is paid or outstanding.
LEMMA LentIsPaidOrOwed ==
  ASSUME IInv, NEW interest, \A k \in Keys : interest[k] = Row(k).interestDue
  PROVE  overview.totalLent + SumFunctionOnSet(interest, NotCancelled)
           = getFinancialHistory.totalPaid + getFinancialHistory.outstanding
<1> DEFINE due == [k \in Keys |-> Paid[k] + Base[k]]
           S == NotCancelled
<1>1. /\ overview.totalLent = SumOf(Principal, S)
      /\ SumFunctionOnSet(interest, S) = SumOf(interest, S)
      /\ getFinancialHistory.totalPaid = SumOf(Paid, Keys)
      /\ getFinancialHistory.outstanding = SumOf(Base, SummarizedKeys)
  BY TotalIsSum DEF overview, getFinancialHistory
<1>2. S \in SUBSET Keys
  BY DEF NotCancelled
<1>3. ASSUME NEW k \in S
      PROVE  /\ Principal[k] \in Nat /\ interest[k] \in Nat /\ Paid[k] \in Nat /\ Base[k] \in Nat
             /\ due[k] = Principal[k] + interest[k] /\ due[k] = Paid[k] + Base[k]
  <2>1. /\ Principal[k] \in Nat /\ Row(k).interestDue \in Nat
        /\ Paid[k] \in Nat /\ Base[k] \in Nat
        /\ Principal[k] + Row(k).interestDue = Paid[k] + Base[k]
    BY <1>2, FiguresOfAnInstallment
  <2>2. interest[k] = Row(k).interestDue /\ due[k] = Paid[k] + Base[k]
    BY <1>2
  <2> QED BY <2>1, <2>2
<1>4. IsFiniteSet(S)
  BY <1>2, SumsOverKeys
<1> HIDE DEF due, S
<1>5. SumOf(due, S) = SumOf(Principal, S) + SumOf(interest, S)
  <2>1. \A k \in S : /\ Principal[k] \in Nat /\ interest[k] \in Nat
                    /\ due[k] = Principal[k] + interest[k]
    BY <1>3
  <2> QED BY <1>4, <2>1, SumAdds
<1>6. SumOf(due, S) = SumOf(Paid, S) + SumOf(Base, S)
  <2>1. \A k \in S : Paid[k] \in Nat /\ Base[k] \in Nat /\ due[k] = Paid[k] + Base[k]
    BY <1>3
  <2> QED BY <1>4, <2>1, SumAdds
<1>7. SumOf(Paid, Keys) = SumOf(Paid, S) /\ SumOf(Base, S) = SumOf(Base, SummarizedKeys)
  BY PaidOnNotCancelled, OwedOnNotCancelled DEF S
<1> QED BY <1>1, <1>5, <1>6, <1>7 DEF S

\* A customer owes what the dashboard shows, and the balance of renegotiated contracts.
LEMMA RenegotiatedShowsTwice ==
  ASSUME IInv
  PROVE  getFinancialHistory.outstanding
           = overview.portfolioOutstanding + SumFunctionOnSet(Base, WithStatus({"RENEGOTIATED"}))
<1> DEFINE all == SummarizedKeys
           open == OutstandingKeys
           old == WithStatus({"RENEGOTIATED"})
<1>1. /\ getFinancialHistory.outstanding = SumOf(Base, all)
      /\ overview.portfolioOutstanding = SumOf(Base, open)
      /\ SumFunctionOnSet(Base, old) = SumOf(Base, old)
  BY TotalIsSum DEF overview, getFinancialHistory
<1>2. all \in SUBSET Keys
  BY DEF SummarizedKeys
<1>3. ASSUME NEW k \in Keys
      PROVE  /\ k \in all <=> k \in open \/ k \in old
             /\ ~(k \in open /\ k \in old)
  <2>1. /\ Row(k).status \in {"PENDING", "PARTIALLY_PAID", "PAID", "OVERDUE", "RENEGOTIATED",
                              "CANCELLED"}
        /\ Row(k).status \in {"PENDING", "PARTIALLY_PAID", "OVERDUE"}
              => contract[k[1]].status \in Live
    BY StatusOfAnInstallment
  <2> QED BY <2>1 DEF SummarizedKeys, OutstandingKeys, WithStatus, OfLiveContracts
<1>4. open \in SUBSET all /\ all \ open = old
  <2>1. open \in SUBSET Keys /\ old \in SUBSET Keys
    BY DEF OutstandingKeys, WithStatus
  <2> HIDE DEF all, open, old
  <2> QED BY <1>2, <1>3, <2>1
<1> HIDE DEF all, open, old
<1>5. IsFiniteSet(all) /\ \A k \in all : Base[k] \in Nat
  BY <1>2, SumsOverKeys
<1>6. SumOf(Base, all) = SumOf(Base, open) + SumOf(Base, all \ open)
  BY <1>4, <1>5, SumSplits
<1> QED BY <1>1, <1>4, <1>6 DEF old

\* The contract that a key belongs to.
Holder == [k \in Keys |-> k[1]]

LEMMA HeldByContract ==
  ASSUME NEW D \in SUBSET Keys, NEW c
  PROVE  KeysOf(c) \cap D = OwnedBy(D, Holder, {c})
BY DEF KeysOf, OwnedBy, Holder

\* The list of contracts adds up to the customer's history.
LEMMA ListAddsUp ==
  ASSUME IInv, NEW figure \in {"totalPaid", "outstanding", "overdue"}
  PROVE  SumFunctionOnSet([c \in Contracts |-> findAll[c][figure]], Contracts)
           = getFinancialHistory[figure]
<1> DEFINE g == [c \in Contracts |-> findAll[c][figure]]
<1>1. SumFunctionOnSet(g, Contracts) = SumOf(g, Contracts)
  BY TotalIsSum
<1>2. ASSUME NEW f, NEW D \in SUBSET Keys, \A k \in D : f[k] \in Nat,
             \A c \in Contracts : g[c] = SumOf(f, KeysOf(c) \cap D)
      PROVE  SumOf(g, Contracts) = SumOf(f, D)
  <2>1. OwnedBy(D, Holder, Contracts) = D
    <3>1. \A k \in D : k \in Keys /\ k[1] \in Contracts
      BY KeysOfTheLedger
    <3> QED BY <3>1 DEF OwnedBy, Holder
  <2> HIDE DEF g
  <2>2. \A c \in Contracts : g[c] = SumOf(f, OwnedBy(D, Holder, {c}))
    BY <1>2, HeldByContract
  <2>3. IsFiniteSet(D) /\ IsFiniteSet(Contracts) /\ \A k \in D : f[k] \in Nat
    BY <1>2, SumsOverKeys, ReportsAssumption
  <2>4. SumOf(f, OwnedBy(D, Holder, Contracts)) = SumOf(g, Contracts)
    <3>1. IsShare(g, Contracts, f, D, Holder)
      BY <2>2, <2>3 DEF IsShare
    <3> QED BY <3>1, SumByOwner
  <2> QED BY <2>1, <2>4
<1>3. ASSUME NEW c \in Contracts
      PROVE  /\ KeysOf(c) \cap Keys = KeysOf(c)
             /\ findAll[c].totalPaid = SumOf(Paid, KeysOf(c))
             /\ findAll[c].outstanding = SumOf(Base, KeysOf(c) \cap SummarizedKeys)
             /\ findAll[c].overdue = SumOf(Base, KeysOf(c) \cap WithStatus({"OVERDUE"}))
  BY TotalIsSum DEF findAll, summarize, KeysOf
<1>4. CASE figure = "totalPaid"
  <2>1. \A c \in Contracts : g[c] = SumOf(Paid, KeysOf(c) \cap Keys)
    BY <1>3, <1>4
  <2>2. \A k \in Keys : Paid[k] \in Nat
    BY SumsOverKeys
  <2>3. getFinancialHistory.totalPaid = SumOf(Paid, Keys)
    BY TotalIsSum DEF getFinancialHistory
  <2> HIDE DEF g
  <2>4. SumOf(g, Contracts) = SumOf(Paid, Keys)
    BY <1>2, <2>1, <2>2
  <2> QED BY <1>1, <1>4, <2>3, <2>4 DEF g
<1>5. CASE figure = "outstanding"
  <2>1. \A c \in Contracts : g[c] = SumOf(Base, KeysOf(c) \cap SummarizedKeys)
    BY <1>3, <1>5
  <2>2. SummarizedKeys \in SUBSET Keys
    BY DEF SummarizedKeys
  <2>3. \A k \in SummarizedKeys : Base[k] \in Nat
    BY <2>2, SumsOverKeys
  <2>4. getFinancialHistory.outstanding = SumOf(Base, SummarizedKeys)
    BY TotalIsSum DEF getFinancialHistory
  <2> HIDE DEF g
  <2>5. SumOf(g, Contracts) = SumOf(Base, SummarizedKeys)
    BY <1>2, <2>1, <2>2, <2>3
  <2> QED BY <1>1, <1>5, <2>4, <2>5 DEF g
<1>6. CASE figure = "overdue"
  <2> DEFINE late == WithStatus({"OVERDUE"})
  <2>1. \A c \in Contracts : g[c] = SumOf(Base, KeysOf(c) \cap late)
    BY <1>3, <1>6
  <2>2. late \in SUBSET Keys
    BY DEF WithStatus
  <2>3. \A k \in late : Base[k] \in Nat
    BY <2>2, SumsOverKeys
  <2>4. getFinancialHistory.overdue = SumOf(Base, late)
    BY TotalIsSum DEF getFinancialHistory
  <2> HIDE DEF g, late
  <2>5. SumOf(g, Contracts) = SumOf(Base, late)
    BY <1>2, <2>1, <2>2, <2>3
  <2> QED BY <1>1, <1>6, <2>4, <2>5 DEF g
<1> QED BY <1>4, <1>5, <1>6

\* Nothing is outstanding on a settled or a cancelled contract.
LEMMA ClosedOwesNothing ==
  ASSUME IInv, NEW c \in Contracts, contract[c].status \in {"SETTLED", "CANCELLED"}
  PROVE  findAll[c].outstanding = 0
<1>1. findAll[c].outstanding = SumOf(Base, KeysOf(c) \cap SummarizedKeys)
  BY TotalIsSum DEF findAll, summarize
<1>2. KeysOf(c) \cap SummarizedKeys = {}
  <2>1. ASSUME NEW k \in KeysOf(c), k \in SummarizedKeys PROVE FALSE
    <3>1. k \in Keys /\ k[1] = c /\ Row(k).status \notin {"PAID", "CANCELLED"}
      BY <2>1 DEF KeysOf, SummarizedKeys, WithStatus
    <3> QED BY <3>1, StatusOfAnInstallment
  <2> QED BY <2>1
<1>3. SumOf(Base, {}) = 0
  BY FS_EmptySet, SumUnfolds
<1> QED BY <1>1, <1>2, <1>3

-----------------------------------------------------------------------------
(* Exports *)

\* The top of a finite table has the number of rows asked for, or is the whole table.
LEMMA TopOfTable ==
  ASSUME NEW rows, IsFiniteSet(rows), NEW key, NEW n \in Nat, NEW taken \in Top(n, rows, key)
  PROVE  /\ taken \in SUBSET rows /\ IsFiniteSet(taken)
         /\ Cardinality(taken) \in Nat /\ Cardinality(rows) \in Nat
         /\ Cardinality(taken) = n \/ taken = rows
         /\ Cardinality(taken) <= n
         /\ \A row \in taken, other \in rows \ taken : key[other] <= key[row]
<1> DEFINE N == Cardinality(rows)
<1>1. /\ taken \in SUBSET rows /\ Cardinality(taken) = Min({n, N})
      /\ \A row \in taken, other \in rows \ taken : key[other] <= key[row]
  BY DEF Top
<1>2. IsFiniteSet(taken) /\ (N = Cardinality(taken) => taken = rows)
  BY <1>1, FS_Subset
<1>3. N \in Nat /\ Cardinality(taken) \in Nat
  BY <1>2, FS_CardinalityType
<1> HIDE DEF N
<1>4. Min({n, N}) \in {n, N} /\ \A x \in {n, N} : Min({n, N}) <= x
  <2> DEFINE T == {n, N}
             P(x) == x \in T /\ \A y \in T : x <= y
  <2>1. \E x : P(x)
    <3>1. CASE n <= N
      BY <1>3, <3>1
    <3>2. CASE N <= n
      BY <1>3, <3>2
    <3> QED BY <1>3, <3>1, <3>2
  <2>2. P(CHOOSE x : P(x))
    <3> HIDE DEF P
    <3> QED BY <2>1, Zenon
  <2>3. Min(T) = CHOOSE x : P(x)
    BY DEF Min
  <2> QED BY <2>2, <2>3
<1>5. Cardinality(taken) <= n /\ (Cardinality(taken) = n \/ Cardinality(taken) = N)
  BY <1>1, <1>4
<1> QED BY <1>1, <1>2, <1>3, <1>5 DEF N

\* An export is part of the table and says so when it is not all of it; no row that it
\* leaves out comes before one that it has.
LEMMA AuditedExports ==
  ASSUME NEW rows, IsFiniteSet(rows), NEW key, \A row \in rows : key[row] \in Nat,
         NEW e \in audited(rows, key)
  PROVE  /\ e.rows \in SUBSET rows
         /\ e.capped <=> rows \ e.rows # {}
         /\ \A row \in rows \ e.rows, d \in e.rows : key[row] <= key[d]
<1>0. PICK fetched \in Top(ExportRowCap + 1, rows, key) :
         e \in {[rows |-> taken, capped |-> Cardinality(fetched) > ExportRowCap] :
                   taken \in Top(ExportRowCap, fetched, key)}
  BY DEF audited
<1>1. PICK exported \in Top(ExportRowCap, fetched, key) :
         e = [rows |-> exported, capped |-> Cardinality(fetched) > ExportRowCap]
  BY <1>0
<1>2. ExportRowCap \in Nat /\ ExportRowCap + 1 \in Nat
  BY ReportsAssumption
<1>3. /\ fetched \in SUBSET rows /\ IsFiniteSet(fetched)
      /\ Cardinality(fetched) = ExportRowCap + 1 \/ fetched = rows
      /\ \A row \in fetched, other \in rows \ fetched : key[other] <= key[row]
  BY <1>1, <1>2, TopOfTable
<1>4. /\ exported \in SUBSET fetched
      /\ Cardinality(exported) \in Nat /\ Cardinality(fetched) \in Nat
      /\ Cardinality(exported) = ExportRowCap \/ exported = fetched
      /\ Cardinality(exported) <= ExportRowCap
      /\ \A row \in exported, other \in fetched \ exported : key[other] <= key[row]
  BY <1>1, <1>2, <1>3, TopOfTable
<1>5. e.rows = exported /\ (e.capped <=> Cardinality(fetched) > ExportRowCap)
  BY <1>1
<1>6. ASSUME Cardinality(fetched) > ExportRowCap
      PROVE  rows \ exported # {}
  <2>1. exported # fetched
    BY <1>2, <1>4, <1>6
  <2> QED BY <1>3, <1>4, <2>1
<1>7. ASSUME ~(Cardinality(fetched) > ExportRowCap)
      PROVE  rows \ exported = {}
  <2>1. fetched = rows
    BY <1>2, <1>3, <1>4, <1>7
  <2>2. exported = fetched
    <3>1. IsFiniteSet(fetched) /\ exported \in SUBSET fetched
      BY <1>3, <1>4
    <3>2. /\ Cardinality(exported) <= Cardinality(fetched)
          /\ Cardinality(fetched) = Cardinality(exported) => fetched = exported
      BY <3>1, FS_Subset
    <3> QED BY <1>2, <1>4, <1>7, <3>2
  <2> QED BY <2>1, <2>2
<1>8. ASSUME NEW row \in rows \ exported, NEW d \in exported
      PROVE  key[row] <= key[d]
  <2>1. d \in fetched
    BY <1>4
  <2>2. CASE row \in fetched
    BY <1>4, <2>2
  <2>3. CASE row \notin fetched
    BY <1>3, <2>1, <2>3
  <2> QED BY <2>2, <2>3
<1> QED BY <1>3, <1>4, <1>5, <1>6, <1>7, <1>8

\* The exports agree with the dashboard and with the ledger.
LEMMA WhatWasLentIsListed ==
  ASSUME IInv, NEW S \in SUBSET Contracts,
         S = {c \in Contracts : contract[c].status \notin {"NONE", "CANCELLED"}}
  PROVE  overview.totalLent = SumFunctionOnSet(principal, S)
<1>1. overview.totalLent = SumOf(Principal, NotCancelled)
      /\ SumFunctionOnSet(principal, S) = SumOf(principal, S)
  BY TotalIsSum DEF overview
<1>2. NotCancelled = OwnedBy(Keys, Holder, S)
  <2>1. ASSUME NEW k \in Keys
        PROVE  k \in NotCancelled <=> k \in OwnedBy(Keys, Holder, S)
    <3>1. contract[k[1]].status # "NONE" /\ k[1] \in Contracts
      BY StatusOfAnInstallment, KeysOfTheLedger
    <3> QED BY <3>1 DEF NotCancelled, OwnedBy, Holder
  <2> QED BY <2>1 DEF NotCancelled, OwnedBy
<1>3. ASSUME NEW c \in S
      PROVE  principal[c] = SumOf(Principal, OwnedBy(Keys, Holder, {c}))
  <2>1. KeysOf(c) = OwnedBy(Keys, Holder, {c})
    BY DEF KeysOf, OwnedBy, Holder
  <2>2. principal[c] = SumOf(Principal, KeysOf(c))
    BY TotalIsSum DEF principal
  <2> QED BY <2>1, <2>2
<1>4. IsShare(principal, S, Principal, Keys, Holder)
  <2>1. IsFiniteSet(S) /\ IsFiniteSet(Keys)
    BY ReportsAssumption, FS_Subset, KeysOfTheLedger
  <2>2. \A k \in Keys : Principal[k] \in Nat
    BY SumsOverKeys
  <2> QED BY <1>3, <2>1, <2>2 DEF IsShare
<1>5. SumOf(Principal, OwnedBy(Keys, Holder, S)) = SumOf(principal, S)
  BY <1>4, SumByOwner
<1> QED BY <1>1, <1>2, <1>5

\* The export of the contracts says when it leaves one out, and else lists what was lent.
LEMMA ContractsExported ==
  ASSUME IInv, NEW e \in contractsExports
  PROVE  /\ e.capped <=> \E c \in Contracts \ e.rows : Exists(c)
         /\ ~e.capped => overview.totalLent =
               SumFunctionOnSet(principal, {c \in e.rows : contract[c].status # "CANCELLED"})
<1> DEFINE rows == {c \in Contracts : Exists(c)}
           key == [c \in Contracts |-> 0]
<1>1. /\ IsFiniteSet(rows) /\ \A c \in rows : key[c] \in Nat
      /\ e \in audited(rows, key)
  BY ReportsAssumption, FS_Subset DEF contractsExports
<1>2. rows \in SUBSET Contracts /\ \A c \in Contracts : c \in rows <=> Exists(c)
  OBVIOUS
<1> HIDE DEF rows, key
<1>3. e.rows \in SUBSET rows /\ (e.capped <=> rows \ e.rows # {})
  BY <1>1, AuditedExports
<1>4. ASSUME ~e.capped
      PROVE  overview.totalLent =
               SumFunctionOnSet(principal, {c \in e.rows : contract[c].status # "CANCELLED"})
  <2> DEFINE S == {c \in e.rows : contract[c].status # "CANCELLED"}
  <2>1. e.rows = rows
    BY <1>3, <1>4
  <2>2. S = {c \in Contracts : contract[c].status \notin {"NONE", "CANCELLED"}}
    BY <1>2, <2>1 DEF Exists
  <2>3. S \in SUBSET Contracts
    BY <2>2
  <2> HIDE DEF S
  <2>4. overview.totalLent = SumFunctionOnSet(principal, S)
    BY <2>2, <2>3, WhatWasLentIsListed
  <2> QED BY <2>4 DEF S
<1> QED BY <1>2, <1>3, <1>4

\* The export of the cases says when it leaves one out, leaves out those least overdue,
\* and else lists every defaulted contract.
LEMMA CasesExported ==
  ASSUME IInv, NEW e \in collectionsExports
  PROVE  LET omitted == {c \in Contracts \ e.rows : kase[c].status # "NONE"} IN
         /\ e.capped <=> omitted # {}
         /\ \A c \in omitted, d \in e.rows : kase[c].daysOverdue <= kase[d].daysOverdue
         /\ ~e.capped => \A c \in Contracts : contract[c].status = "DEFAULTED" =>
               c \in e.rows /\ kase[c].daysOverdue > 0
<1> DEFINE rows == {c \in Contracts : kase[c].status # "NONE"}
           key == [c \in Contracts |-> kase[c].daysOverdue]
           omitted == {c \in Contracts \ e.rows : kase[c].status # "NONE"}
<1>1. \A c \in Contracts : /\ kase[c].daysOverdue \in Nat
                           /\ CaseOK(contract[c].status, installments[c], kase[c], today)
  BY DEF IInv, ContractOK, CaseOK, CaseRow
<1>2. /\ IsFiniteSet(rows) /\ \A c \in rows : key[c] \in Nat
      /\ e \in audited(rows, key)
  BY <1>1, ReportsAssumption, FS_Subset DEF collectionsExports
<1>3. rows \in SUBSET Contracts /\ omitted = rows \ e.rows
      /\ \A c \in Contracts : key[c] = kase[c].daysOverdue /\ (c \in rows <=> kase[c].status # "NONE")
  OBVIOUS
<1> HIDE DEF rows, key
<1>4. /\ e.rows \in SUBSET rows
      /\ e.capped <=> rows \ e.rows # {}
      /\ \A c \in rows \ e.rows, d \in e.rows : key[c] <= key[d]
  BY <1>2, AuditedExports
<1>5. ASSUME NEW c \in omitted, NEW d \in e.rows
      PROVE  kase[c].daysOverdue <= kase[d].daysOverdue
  <2>1. c \in rows \ e.rows /\ c \in Contracts /\ d \in Contracts
    BY <1>3, <1>4
  <2>2. key[c] <= key[d]
    BY <1>4, <2>1
  <2> QED BY <1>3, <2>1, <2>2
<1>6. ASSUME ~e.capped, NEW c \in Contracts, contract[c].status = "DEFAULTED"
      PROVE  c \in e.rows /\ kase[c].daysOverdue > 0
  <2>1. kase[c].status # "NONE" /\ kase[c].daysOverdue > 0
    BY <1>1, <1>6 DEF CaseOK, Live
  <2> QED BY <1>3, <1>4, <1>6, <2>1
<1> QED BY <1>3, <1>4, <1>5, <1>6

\* What the dashboard, a customer's page, the list of contracts and the exports say of
\* the ledger agrees, whatever was paid, flagged, renegotiated and cancelled before, on
\* whatever contracts, at whatever rates and caps.
THEOREM ReportsAgree == Spec => []ReportsReconcile
<1>1. ASSUME IInv PROVE ReportsReconcile
  <2> USE <1>1
  <2> DEFINE charged == [k \in Keys |-> Row(k).lateFee + Row(k).lateInterest]
             interest == [k \in Keys |-> Row(k).interestDue]
             d == overview
             h == getFinancialHistory
             listed(figure) ==
                SumFunctionOnSet([c \in Contracts |-> findAll[c][figure]], Contracts)
  <2>1. d.totalOverdue + d.upcomingReceivables <= d.portfolioOutstanding
    BY PartsOfTheOutstanding
  <2>2. d.lateCharges > 0 => d.totalOverdue > 0
    BY ChargesNeedArrears
  <2>3. d.totalReceived = h.totalPaid + SumFunctionOnSet(charged, Keys)
    <3>1. \A k \in Keys : charged[k] = Row(k).lateFee + Row(k).lateInterest
      OBVIOUS
    <3> HIDE DEF charged
    <3> QED BY <3>1, ReceivedIsPaidAndCharged
  <2>4. d.totalLent + SumFunctionOnSet(interest, NotCancelled) = h.totalPaid + h.outstanding
    <3>1. \A k \in Keys : interest[k] = Row(k).interestDue
      OBVIOUS
    <3> HIDE DEF interest
    <3> QED BY <3>1, LentIsPaidOrOwed
  <2>5. h.overdue = d.totalOverdue
    BY DEF overview, getFinancialHistory
  <2>6. \A figure \in {"totalPaid", "outstanding", "overdue"} : listed(figure) = h[figure]
    BY ListAddsUp
  <2>7. h.outstanding
          = d.portfolioOutstanding + SumFunctionOnSet(Base, WithStatus({"RENEGOTIATED"}))
    BY RenegotiatedShowsTwice
  <2>8. \A c \in Contracts : contract[c].status \in {"SETTLED", "CANCELLED"} =>
           findAll[c].outstanding = 0
    BY ClosedOwesNothing
  <2>9. ExportsReconcile
    BY ContractsExported, CasesExported DEF ExportsReconcile
  <2> HIDE DEF charged, interest, listed
  <2> QED BY <2>1, <2>2, <2>3, <2>4, <2>5, <2>6, <2>7, <2>8, <2>9, Zenon
          DEF ReportsReconcile, charged, interest, listed
<1> QED BY <1>1, LedgerInvariant, PTL
=============================================================================
