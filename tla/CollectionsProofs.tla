-------------------------- MODULE CollectionsProofs --------------------------
(***************************************************************************)
(* The daily collections cycle beside everything else, for any number of   *)
(* jobs, instances, promises and failures: rows and lists keep their       *)
(* fields, one job of an instance runs at a time, a dunning action is only *)
(* generated for a stage above the one the case is at, resolving a case    *)
(* clears its stage and nothing else lowers it, and a promise that later   *)
(* payments cover in time is not broken.                                   *)
(*                                                                         *)
(* The lists a job works off are stale, so what is invariant is how far    *)
(* they may be behind.  Tables says of the ledger what IInv does, but for  *)
(* the stage of a resolved case, which a stale list may raise.  A case may *)
(* have come down from the stage a list gives it, never gone up (Ladder).  *)
(* The day of a reconciliation is fixed before its payments are summed, so *)
(* what is booked later is dated after it: of a promise due before that    *)
(* day, the sum that was taken has all that was paid in time (JobOK).      *)
(***************************************************************************)
EXTENDS DailyCollections, ContractLedgerProofs

-----------------------------------------------------------------------------
(* The tables of the ledger *)

NoStage(k) == [k EXCEPT !.dunningStage = 0]

ContractRow == [status : ContractStatus \cup {"NONE"}, renegotiatedFrom : Contracts \cup {None}]

Tables ==
    /\ today \in Nat
    /\ contract \in [Contracts -> ContractRow]
    /\ installments \in [Contracts -> Seq(Installment)]
    /\ received \in [Contracts -> Seq(Nat)]
    /\ kase \in [Contracts -> CaseRow]
    /\ \A c \in Contracts :
          ContractOK(contract[c].status, installments[c], received[c], NoStage(kase[c]), today)

\* What becomes of a case: it is not deleted, its stage does not go up, and the stage is
\* cleared when the case is resolved and comes down in no other way.
CaseGoesOn(k, k1) ==
    /\ k.status # "NONE" => k1.status # "NONE"
    /\ k1.dunningStage <= k.dunningStage
    /\ k1.status = "RESOLVED" /\ k.status # "RESOLVED" => k1.dunningStage = 0
    /\ k1.dunningStage < k.dunningStage => k1.status = "RESOLVED" /\ k1.dunningStage = 0

\* Every step but those of the ladder does that to every case, and none puts the clock back.
CasesGoOn ==
    /\ today <= today'
    /\ \A c \in Contracts : CaseGoesOn(kase[c], kase'[c])

\* Without its stage, a case is a case that may be resolved.
LEMMA NoStageType ==
  ASSUME NEW k \in CaseRow
  PROVE  /\ NoStage(k) \in CaseRow /\ NoStage(k).status = k.status
         /\ NoStage(k).dunningStage = 0 /\ NoStage(k).daysOverdue = k.daysOverdue
BY DEF NoStage, CaseRow

\* Cases that are left alone go on.
LEMMA SameCaseGoesOn ==
  ASSUME NEW k \in CaseRow
  PROVE  CaseGoesOn(k, k)
<1>1. k.dunningStage \in 0..5
  BY DEF CaseRow
<1> QED BY <1>1 DEF CaseGoesOn

\* A step of one day that writes one case.
LEMMA OneCaseGoesOn ==
  ASSUME Tables, NEW c \in Contracts, CaseGoesOn(kase[c], kase'[c]), today' = today,
         \A d \in Contracts \ {c} : kase'[d] = kase[d]
  PROVE  CasesGoOn
<1>1. \A d \in Contracts : CaseGoesOn(kase[d], kase[d])
  BY SameCaseGoesOn DEF Tables
<1>2. today <= today'
  BY DEF Tables
<1> QED BY <1>1, <1>2 DEF CasesGoOn

\* A step that writes none.
LEMMA NoCaseMoves ==
  ASSUME Tables, kase' = kase, today <= today'
  PROVE  CasesGoOn
BY SameCaseGoesOn DEF CasesGoOn, Tables

\* The stage of a case, and its status as long as there is one, do not matter to the rest.
LEMMA AnyCaseWillDo ==
  ASSUME NEW status, NEW rows, NEW sums, NEW k, NEW k1 \in CaseRow, NEW day,
         ContractOK(status, rows, sums, k, day),
         k.status # "NONE" => k1.status # "NONE", k1.daysOverdue = k.daysOverdue
  PROVE  ContractOK(status, rows, sums, NoStage(k1), day)
<1>1. /\ NoStage(k1) \in CaseRow /\ NoStage(k1).status = k1.status
      /\ NoStage(k1).dunningStage = 0 /\ NoStage(k1).daysOverdue = k1.daysOverdue
  BY NoStageType
<1> QED BY <1>1 DEF ContractOK, CaseOK

\* What the refresh makes of a case.
LEMMA RefreshedCaseType ==
  ASSUME NEW k \in CaseRow, NEW days \in Nat
  PROVE  /\ RefreshedCase(k, days) \in CaseRow
         /\ RefreshedCase(k, days).status = RefreshedCase(NoStage(k), days).status
         /\ RefreshedCase(k, days).daysOverdue = RefreshedCase(NoStage(k), days).daysOverdue
         /\ k.status # "NONE" => RefreshedCase(k, days).status # "NONE"
         /\ CaseGoesOn(k, RefreshedCase(k, days))
<1>1. /\ NoStage(k) \in CaseRow /\ NoStage(k).status = k.status
      /\ NoStage(k).daysOverdue = k.daysOverdue
  BY NoStageType
<1>2. k.dunningStage \in 0..5
  BY DEF CaseRow
<1>3. CASE days > 0
  <2> DEFINE status == IF k.status \in ActiveCase THEN k.status ELSE "OPEN"
             k1 == [k EXCEPT !.status = status, !.daysOverdue = days]
  <2>1. status \in CaseStatus
    BY DEF CaseStatus
  <2>2. RefreshedCase(k, days) = k1
    BY <1>3 DEF RefreshedCase, CaseRow
  <2>3. /\ RefreshedCase(NoStage(k), days).status = status
        /\ RefreshedCase(NoStage(k), days).daysOverdue = days
    BY <1>1, <1>3 DEF RefreshedCase, CaseRow
  <2> HIDE DEF status
  <2>4. /\ k1 \in CaseRow /\ k1.status = status /\ k1.dunningStage = k.dunningStage
        /\ k1.daysOverdue = days
    BY <2>1 DEF CaseRow
  <2>5. status # "NONE" /\ status # "RESOLVED"
    BY DEF status, ActiveCase
  <2> HIDE DEF k1
  <2>6. CaseGoesOn(k, k1)
    BY <1>2, <2>4, <2>5 DEF CaseGoesOn
  <2> QED BY <2>2, <2>3, <2>4, <2>5, <2>6
<1>4. CASE ~(days > 0)
  <2>1. CASE k.status \in {"NONE", "RESOLVED", "WRITTEN_OFF"}
    <3>1. RefreshedCase(k, days) = k /\ RefreshedCase(NoStage(k), days) = NoStage(k)
      BY <1>1, <1>4, <2>1 DEF RefreshedCase
    <3> QED BY <1>1, <3>1, SameCaseGoesOn
  <2>2. CASE k.status \notin {"NONE", "RESOLVED", "WRITTEN_OFF"}
    <3> DEFINE k1 == RefreshedCase(k, days)
    <3>1. /\ k1 \in CaseRow /\ k1.status = "RESOLVED" /\ k1.dunningStage = 0
          /\ k1.status = RefreshedCase(NoStage(k), days).status
          /\ k1.daysOverdue = RefreshedCase(NoStage(k), days).daysOverdue
      BY <1>1, <1>4, <2>2 DEF RefreshedCase, CaseRow, CaseStatus
    <3> HIDE DEF k1
    <3>2. CaseGoesOn(k, k1)
      BY <1>2, <3>1 DEF CaseGoesOn
    <3> QED BY <3>1, <3>2 DEF k1
  <2> QED BY <2>1, <2>2
<1> QED BY <1>3, <1>4

\* A step that rewrites one contract c and leaves the others alone.
LEMMA OneTableStep ==
  ASSUME Tables, NEW c \in Contracts, today' = today,
         contract' \in [Contracts -> ContractRow],
         installments' \in [Contracts -> Seq(Installment)],
         received' \in [Contracts -> Seq(Nat)],
         kase' \in [Contracts -> CaseRow],
         \A d \in Contracts \ {c} : /\ contract'[d] = contract[d]
                                    /\ installments'[d] = installments[d]
                                    /\ received'[d] = received[d]
                                    /\ kase'[d] = kase[d],
         ContractOK(contract'[c].status, installments'[c], received'[c], NoStage(kase'[c]), today)
  PROVE  Tables'
<1>1. \A d \in Contracts :
         ContractOK(contract'[d].status, installments'[d], received'[d], NoStage(kase'[d]), today')
  BY DEF Tables
<1> QED BY <1>1 DEF Tables

\* The refresh that ends a payment or stands alone, on rows it has been handed.
LEMMA RefreshWritesTables ==
  ASSUME Tables, NEW c \in Contracts, NEW status, NEW rows, NEW sums,
         RowsOK(rows, sums), StatusOK(status, rows, sums),
         \A n \in DOMAIN rows : rows[n].status = "OVERDUE" => today > rows[n].dueDay,
         status \in Live \cup {"SETTLED"},
         RefreshWrites(c, status, rows), today' = today,
         received' = [received EXCEPT ![c] = sums]
  PROVE  Tables' /\ CasesGoOn
<1> DEFINE days == DaysOverdue(rows, today)
<1>1. contract[c] \in ContractRow /\ kase[c] \in CaseRow /\ today \in Nat
  BY DEF Tables
<1>2. sums \in Seq(Nat) /\ rows \in Seq(Installment)
  BY DEF RowsOK
<1>3. received' \in [Contracts -> Seq(Nat)] /\ received'[c] = sums
      /\ \A d \in Contracts \ {c} : received'[d] = received[d]
  BY <1>2 DEF Tables
<1>4. CASE status \in Live
  <2> DEFINE status1 == RefreshedStatus(status, days)
             rows1 == FlaggedRows(rows, today)
             case0 == RefreshedCase(NoStage(kase[c]), days)
             case1 == RefreshedCase(kase[c], days)
  <2>1. status1 \in Live /\ ContractOK(status1, rows1, sums, case0, today)
    BY <1>1, <1>4, NoStageType, RefreshKeepsContract
  <2>2. days \in Nat
    BY <1>1, <1>2, DaysOverdueNat
  <2>3. /\ case1 \in CaseRow /\ case1.status = case0.status
        /\ case1.daysOverdue = case0.daysOverdue
        /\ kase[c].status # "NONE" => case1.status # "NONE"
        /\ CaseGoesOn(kase[c], case1)
    <3> HIDE DEF days
    <3> QED BY <1>1, <2>2, RefreshedCaseType
  <2>4. /\ contract' = [contract EXCEPT ![c].status = status1]
        /\ installments' = [installments EXCEPT ![c] = rows1]
        /\ kase' = [kase EXCEPT ![c] = case1]
    BY <1>4 DEF RefreshWrites
  <2> HIDE DEF status1, rows1, case0, case1
  <2>5. status1 \in ContractStatus /\ rows1 \in Seq(Installment)
    BY <2>1 DEF ContractOK, RowsOK, Live, ContractStatus
  <2>6. /\ contract' \in [Contracts -> ContractRow] /\ contract'[c].status = status1
        /\ \A d \in Contracts \ {c} : contract'[d] = contract[d]
    BY <1>1, <2>4, <2>5 DEF Tables, ContractRow
  <2>7. /\ installments' \in [Contracts -> Seq(Installment)] /\ installments'[c] = rows1
        /\ kase' \in [Contracts -> CaseRow] /\ kase'[c] = case1
        /\ \A d \in Contracts \ {c} : installments'[d] = installments[d] /\ kase'[d] = kase[d]
    BY <2>3, <2>4, <2>5 DEF Tables
  <2>8. ContractOK(status1, rows1, sums, NoStage(case1), today)
    BY <2>1, <2>3, AnyCaseWillDo
  <2>9. Tables'
    BY <1>3, <2>6, <2>7, <2>8, OneTableStep
  <2>10. CasesGoOn
    BY <2>3, <2>7, OneCaseGoesOn
  <2> QED BY <2>9, <2>10
<1>5. CASE status \notin Live
  <2>1. status = "SETTLED"
    BY <1>5
  <2>2. /\ contract' = [contract EXCEPT ![c].status = status]
        /\ installments' = [installments EXCEPT ![c] = rows]
        /\ kase' = kase
    BY <1>5 DEF RefreshWrites
  <2>3. /\ contract' \in [Contracts -> ContractRow] /\ contract'[c].status = status
        /\ \A d \in Contracts \ {c} : contract'[d] = contract[d]
    BY <1>1, <2>1, <2>2 DEF Tables, ContractRow, ContractStatus
  <2>4. /\ installments' \in [Contracts -> Seq(Installment)] /\ installments'[c] = rows
        /\ kase' \in [Contracts -> CaseRow]
        /\ \A d \in Contracts \ {c} : installments'[d] = installments[d] /\ kase'[d] = kase[d]
    BY <1>2, <2>2 DEF Tables
  <2>5. CaseOK(status, rows, NoStage(kase[c]), today)
    BY <1>1, <1>5, NoStageType DEF CaseOK
  <2>6. ContractOK(contract'[c].status, installments'[c], received'[c], NoStage(kase'[c]), today)
    BY <1>3, <2>2, <2>3, <2>4, <2>5 DEF ContractOK
  <2>7. Tables'
    BY <1>3, <2>3, <2>4, <2>6, OneTableStep
  <2>8. CasesGoOn
    <3>1. today <= today'
      BY <1>1
    <3> QED BY <2>2, <3>1, NoCaseMoves
  <2> QED BY <2>7, <2>8
<1> QED BY <1>4, <1>5

\* A payment of all that is due keeps the tables, and adds to what was received.
LEMMA SettleTables ==
  ASSUME Tables, NEW c \in Contracts, NEW n \in DOMAIN installments[c], NEW lag \in Nat,
         settleInstallment(c, n, lag)
  PROVE  Tables' /\ CasesGoOn /\ today' = today /\ received'[c][n] - received[c][n] \in Nat \ {0}
<1> DEFINE i == installments[c][n]
           pay == TotalOutstanding(i, today - lag)
           rows == [installments[c] EXCEPT ![n] = AfterPayment(i, pay, today - lag)]
           sums == [received[c] EXCEPT ![n] = @ + pay]
           status == RecomputedStatus(contract[c].status, rows)
<1>1. /\ pay > 0 /\ IsOpen(i) /\ pay <= pay
      /\ received' = [received EXCEPT ![c][n] = @ + pay]
      /\ RefreshWrites(c, status, rows) /\ today' = today
  BY DEF settleInstallment, register
<1>2. today - lag \in Int /\ today \in Nat
  BY DEF Tables
<1>3. ContractOK(contract[c].status, installments[c], received[c], NoStage(kase[c]), today)
  BY DEF Tables
<1>4. pay \in Nat
  <2>1. i \in Installment /\ i.dueDay \in Nat
    BY <1>3 DEF ContractOK, RowsOK, RowOK, Installment
  <2>2. DaysLate(i, today - lag) \in Nat
    BY <1>2, <2>1 DEF DaysLate, NonNeg
  <2> QED BY <2>1, <2>2, OutstandingNat DEF TotalOutstanding
<1>5. pay \in Nat \ {0}
  BY <1>1, <1>4
<1> HIDE DEF pay
<1>6. /\ contract[c].status \in Live /\ status \in {contract[c].status, "SETTLED"}
      /\ RowsOK(rows, sums) /\ StatusOK(status, rows, sums)
      /\ \A m \in DOMAIN rows : rows[m].status = "OVERDUE" => today > rows[m].dueDay
  <2>1. pay <= TotalOutstanding(installments[c][n], today - lag)
    BY <1>5 DEF pay
  <2> QED BY <1>1, <1>2, <1>3, <1>5, <2>1, PaymentKeepsContract
<1>7. received' = [received EXCEPT ![c] = sums]
  BY <1>1 DEF Tables
<1>8. received'[c][n] - received[c][n] = pay
  <2>1. received[c] \in Seq(Nat) /\ n \in DOMAIN received[c]
    BY <1>3, SeqIsFunction DEF ContractOK, RowsOK
  <2>2. received[c][n] \in Nat
    BY <2>1, SeqIsFunction
  <2>3. received'[c] = sums /\ sums[n] = received[c][n] + pay
    BY <1>7, <2>1 DEF Tables
  <2> HIDE DEF sums
  <2> QED BY <1>5, <2>2, <2>3
<1> HIDE DEF rows, sums, status
<1>9. Tables' /\ CasesGoOn
  BY <1>1, <1>6, <1>7, RefreshWritesTables
<1> QED BY <1>1, <1>5, <1>8, <1>9

\* The refresh of one contract of the batch keeps the tables.
LEMMA RefreshTables ==
  ASSUME Tables, NEW c \in Contracts, refreshContract(c)
  PROVE  Tables' /\ CasesGoOn /\ today' = today
<1>1. ContractOK(contract[c].status, installments[c], received[c], NoStage(kase[c]), today)
  BY DEF Tables
<1>2. /\ contract[c].status \in Live /\ today' = today /\ received' = received
      /\ RefreshWrites(c, contract[c].status, installments[c])
  BY DEF refreshContract
<1>3. received' = [received EXCEPT ![c] = received[c]]
  BY <1>2 DEF Tables
<1>4. \A n \in DOMAIN installments[c] :
         installments[c][n].status = "OVERDUE" => today > installments[c][n].dueDay
  BY <1>1, <1>2 DEF ContractOK, CaseOK
<1> QED BY <1>1, <1>2, <1>3, <1>4, RefreshWritesTables DEF ContractOK

\* Steps that only touch a case that exists; those of the ladder may raise its stage.
LEMMA CaseTables ==
  ASSUME Tables, NEW c \in Contracts, NEW k \in CaseRow,
         kase[c].status # "NONE" => k.status # "NONE", k.daysOverdue = kase[c].daysOverdue,
         kase' = [kase EXCEPT ![c] = k],
         UNCHANGED <<today, contract, installments, received>>
  PROVE  Tables' /\ (CaseGoesOn(kase[c], k) => CasesGoOn)
<1>1. ContractOK(contract[c].status, installments[c], received[c], NoStage(kase[c]), today)
      /\ kase[c] \in CaseRow /\ today \in Nat
  BY DEF Tables
<1>2. /\ kase' \in [Contracts -> CaseRow] /\ kase'[c] = k
      /\ \A d \in Contracts \ {c} : kase'[d] = kase[d]
  BY DEF Tables
<1>3. ContractOK(contract'[c].status, installments'[c], received'[c], NoStage(kase'[c]), today)
  BY <1>1, <1>2, NoStageType, AnyCaseWillDo
<1>4. Tables'
  <2>1. /\ contract' = contract /\ installments' = installments /\ received' = received
        /\ today' = today
    OBVIOUS
  <2> QED BY <1>2, <1>3, <2>1, OneTableStep DEF Tables
<1>5. ASSUME CaseGoesOn(kase[c], k) PROVE CasesGoOn
  BY <1>2, <1>5, OneCaseGoesOn
<1> QED BY <1>4, <1>5

\* So do the interactions, the promises and updateCaseStatus.
LEMMA CaseStepsTables ==
  ASSUME Tables, NEW c \in Contracts,
         \/ addInteraction(c) \/ addPromise(c) \/ breakPromise(c)
         \/ \E status \in CaseStatus : updateCaseStatus(c, status)
  PROVE  Tables' /\ CasesGoOn /\ today' = today
<1>1. kase[c] \in CaseRow /\ kase \in [Contracts -> CaseRow] /\ kase[c].dunningStage \in 0..5
  BY DEF Tables, CaseRow
<1>2. ASSUME NEW s \in CaseStatus, NEW stage,
             stage = IF s = "RESOLVED" THEN 0 ELSE kase[c].dunningStage,
             kase' = [kase EXCEPT ![c].status = s, ![c].dunningStage = stage],
             UNCHANGED <<today, contract, installments, received>>
      PROVE  Tables' /\ CasesGoOn /\ today' = today
  <2> DEFINE k == [kase[c] EXCEPT !.status = s, !.dunningStage = stage]
  <2>1. stage \in 0..5
    BY <1>1, <1>2
  <2>2. /\ k \in CaseRow /\ k.status = s /\ k.dunningStage = stage
        /\ k.daysOverdue = kase[c].daysOverdue
    BY <1>1, <2>1 DEF CaseRow
  <2>3. kase' = [kase EXCEPT ![c] = k]
    BY <1>1, <1>2
  <2>4. s # "NONE"
    BY DEF CaseStatus, ActiveCase
  <2> HIDE DEF k
  <2>5. CaseGoesOn(kase[c], k)
    BY <1>1, <1>2, <2>2, <2>4 DEF CaseGoesOn
  <2> QED BY <1>2, <2>2, <2>3, <2>4, <2>5, CaseTables
<1>3. ASSUME NEW s \in CaseStatus \ {"RESOLVED"}, kase' = [kase EXCEPT ![c].status = s],
             UNCHANGED <<today, contract, installments, received>>
      PROVE  Tables' /\ CasesGoOn /\ today' = today
  <2>1. kase' = [kase EXCEPT ![c].status = s, ![c].dunningStage = kase[c].dunningStage]
    BY <1>1, <1>3 DEF CaseRow
  <2> QED BY <1>2, <1>3, <2>1
<1>4. CASE addInteraction(c)
  BY <1>3, <1>4 DEF addInteraction, CaseStatus, ActiveCase
<1>5. CASE addPromise(c)
  BY <1>3, <1>5 DEF addPromise, CaseStatus, ActiveCase
<1>6. CASE breakPromise(c)
  BY <1>3, <1>6 DEF breakPromise, CaseStatus, ActiveCase
<1>7. ASSUME NEW s \in CaseStatus, updateCaseStatus(c, s)
      PROVE  Tables' /\ CasesGoOn /\ today' = today
  <2> DEFINE stage == IF s = "RESOLVED" THEN 0 ELSE kase[c].dunningStage
  <2>1. /\ kase' = [kase EXCEPT ![c].status = s, ![c].dunningStage = stage]
        /\ UNCHANGED <<today, contract, installments, received>>
    BY <1>1, <1>7 DEF updateCaseStatus, CaseRow
  <2> QED BY <1>2, <2>1
<1> QED BY <1>4, <1>5, <1>6, <1>7

\* cancel and createFromProposal keep the tables, and touch no case.
LEMMA ContractStepsTables ==
  ASSUME Tables, NEW c \in Contracts,
         cancel(c) \/ \E offer \in Offers : createFromProposal(c, offer)
  PROVE  Tables' /\ CasesGoOn /\ today' = today
<1>0. today \in Nat /\ NoStage(kase[c]) \in CaseRow /\ NoStage(kase[c]).dunningStage = 0
      /\ ContractOK(contract[c].status, installments[c], received[c], NoStage(kase[c]), today)
  BY NoStageType DEF Tables
<1>1. ASSUME NEW row \in ContractRow, NEW rows, NEW sums,
             ContractOK(row.status, rows, sums, NoStage(kase[c]), today),
             contract' = [contract EXCEPT ![c] = row],
             installments' = [installments EXCEPT ![c] = rows],
             received' = [received EXCEPT ![c] = sums],
             UNCHANGED <<today, kase>>
      PROVE  Tables' /\ CasesGoOn /\ today' = today
  <2>1. rows \in Seq(Installment) /\ sums \in Seq(Nat)
    BY <1>1 DEF ContractOK, RowsOK
  <2>2. /\ contract' \in [Contracts -> ContractRow] /\ contract'[c] = row
        /\ installments' \in [Contracts -> Seq(Installment)] /\ installments'[c] = rows
        /\ received' \in [Contracts -> Seq(Nat)] /\ received'[c] = sums
        /\ kase' \in [Contracts -> CaseRow]
        /\ \A d \in Contracts \ {c} : /\ contract'[d] = contract[d]
                                      /\ installments'[d] = installments[d]
                                      /\ received'[d] = received[d]
                                      /\ kase'[d] = kase[d]
    BY <1>1, <2>1 DEF Tables
  <2>3. Tables'
    BY <1>1, <2>2, OneTableStep
  <2>4. CasesGoOn
    <3>1. today <= today'
      BY <1>0, <1>1
    <3> QED BY <1>1, <3>1, NoCaseMoves
  <2> QED BY <1>1, <2>3, <2>4
<1>2. CASE cancel(c)
  <2> DEFINE rows == [n \in DOMAIN installments[c] |->
                        [installments[c][n] EXCEPT !.status = "CANCELLED"]]
             row == [contract[c] EXCEPT !.status = "CANCELLED"]
  <2>1. /\ contract[c].status # "NONE"
        /\ \A n \in DOMAIN received[c] : ~(received[c][n] > 0)
        /\ contract' = [contract EXCEPT ![c] = row]
        /\ installments' = [installments EXCEPT ![c] = rows]
        /\ UNCHANGED <<today, received, kase>>
    BY <1>2 DEF cancel, HasPayments, Tables
  <2>2. ContractOK("CANCELLED", rows, received[c], NoStage(kase[c]), today)
    BY <1>0, <2>1, CancelKeepsContract
  <2>3. row \in ContractRow /\ row.status = "CANCELLED"
    BY DEF Tables, ContractRow, ContractStatus
  <2>4. received' = [received EXCEPT ![c] = received[c]]
    BY <2>1 DEF Tables
  <2> HIDE DEF rows, row
  <2> QED BY <1>1, <2>1, <2>2, <2>3, <2>4
<1>3. ASSUME NEW offer \in Offers, createFromProposal(c, offer)
      PROVE  Tables' /\ CasesGoOn /\ today' = today
  <2> DEFINE first == today + offer.firstDueIn
             rows == NewInstallments(offer.principal, offer.termMonths, first)
             sums == Nothing(offer.termMonths)
             row == [status |-> "ACTIVE", renegotiatedFrom |-> None]
  <2>1. /\ first \in Nat
        /\ contract' = [contract EXCEPT ![c] = row]
        /\ installments' = [installments EXCEPT ![c] = rows]
        /\ received' = [received EXCEPT ![c] = sums]
        /\ UNCHANGED <<today, kase>>
    BY <1>3 DEF createFromProposal
  <2>2. offer.principal \in Nat \ {0} /\ offer.termMonths \in Nat \ {0}
    BY LedgerAssumption
  <2>3. ContractOK("ACTIVE", rows, sums, NoStage(kase[c]), today)
    <3> HIDE DEF first
    <3> QED BY <1>0, <2>1, <2>2, NewKeepsContract
  <2>4. row \in ContractRow /\ row.status = "ACTIVE"
    BY DEF ContractRow, ContractStatus, Live
  <2> HIDE DEF rows, sums, row
  <2> QED BY <1>1, <2>1, <2>3, <2>4
<1> QED BY <1>2, <1>3

\* renegotiate keeps the tables, of the contract it closes and of the one it opens.
LEMMA RenegotiateTables ==
  ASSUME Tables, NEW c \in Contracts, NEW new \in Contracts \ {c}, NEW term \in Terms,
         renegotiate(c, new, term)
  PROVE  Tables' /\ CasesGoOn
<1> DEFINE owed == ConsolidatedBalance(installments[c])
           first == today + term.firstDueIn
           rows == [n \in DOMAIN installments[c] |->
                      IF IsOpen(installments[c][n])
                      THEN [installments[c][n] EXCEPT !.status = "RENEGOTIATED"]
                      ELSE installments[c][n]]
           rows1 == NewInstallments(owed, term.termMonths, first)
           sums1 == Nothing(term.termMonths)
           case1 == IF kase[c].status \in {"NONE", "RESOLVED", "WRITTEN_OFF"} THEN kase[c]
                    ELSE [kase[c] EXCEPT !.status = "RESOLVED", !.dunningStage = 0]
<1>1. /\ contract[c].status \in Live /\ contract[new].status = "NONE"
      /\ owed \in Nat \ {0} /\ first \in Nat
      /\ contract' = [contract EXCEPT ![c].status = "RENEGOTIATED",
                          ![new] = [status |-> "ACTIVE", renegotiatedFrom |-> c]]
      /\ installments' = [installments EXCEPT ![c] = rows, ![new] = rows1]
      /\ received' = [received EXCEPT ![new] = sums1]
      /\ today' = today /\ kase' = [kase EXCEPT ![c] = case1]
  BY DEF renegotiate, Tables
<1>2. \A d \in Contracts :
         /\ ContractOK(contract[d].status, installments[d], received[d], NoStage(kase[d]), today)
         /\ kase[d] \in CaseRow /\ NoStage(kase[d]) \in CaseRow
         /\ NoStage(kase[d]).dunningStage = 0
  BY NoStageType DEF Tables
<1>3. case1 \in CaseRow /\ CaseGoesOn(kase[c], case1)
  <2>1. kase[c] \in CaseRow /\ kase[c].dunningStage \in 0..5
    BY <1>2 DEF CaseRow
  <2>2. CASE kase[c].status \in {"NONE", "RESOLVED", "WRITTEN_OFF"}
    BY <2>1, <2>2, SameCaseGoesOn
  <2>3. CASE kase[c].status \notin {"NONE", "RESOLVED", "WRITTEN_OFF"}
    <3>1. case1 = [kase[c] EXCEPT !.status = "RESOLVED", !.dunningStage = 0]
      BY <2>3
    <3>2. "RESOLVED" \in CaseStatus \cup {"NONE"} /\ 0 \in 0..5
      BY DEF CaseStatus
    <3> HIDE DEF case1
    <3>3. case1.status = "RESOLVED" /\ case1.dunningStage = 0 /\ case1 \in CaseRow
      BY <2>1, <3>1, <3>2 DEF CaseRow
    <3> QED BY <2>1, <3>3 DEF CaseGoesOn
  <2> QED BY <2>2, <2>3
<1>4. today \in Nat /\ term.termMonths \in Nat \ {0}
  BY LedgerAssumption DEF Tables
<1>5. ContractOK("RENEGOTIATED", rows, received[c], NoStage(case1), today)
  <2> HIDE DEF case1
  <2>1. ContractOK(contract[c].status, installments[c], received[c], NoStage(kase[c]), today)
    BY <1>2
  <2>2. NoStage(case1) \in CaseRow /\ NoStage(case1).dunningStage = 0
    BY <1>3, NoStageType
  <2> QED BY <2>1, <2>2, <1>1, <1>4, RenegotiateKeepsContract
<1>6. ContractOK("ACTIVE", rows1, sums1, NoStage(kase[new]), today)
  <2> HIDE DEF owed, first
  <2> QED BY <1>1, <1>2, <1>4, NewKeepsContract
<1> HIDE DEF rows, rows1, sums1, case1, owed, first
<1>7. rows \in Seq(Installment) /\ rows1 \in Seq(Installment) /\ sums1 \in Seq(Nat)
  BY <1>5, <1>6 DEF ContractOK, RowsOK
<1>8. /\ contract' \in [Contracts -> ContractRow]
      /\ contract'[c].status = "RENEGOTIATED" /\ contract'[new].status = "ACTIVE"
      /\ \A d \in Contracts \ {c, new} : contract'[d] = contract[d]
  BY <1>1 DEF Tables, ContractRow, ContractStatus, Live
<1>9. /\ installments' \in [Contracts -> Seq(Installment)]
      /\ installments'[c] = rows /\ installments'[new] = rows1
      /\ \A d \in Contracts \ {c, new} : installments'[d] = installments[d]
      /\ received' \in [Contracts -> Seq(Nat)] /\ received'[new] = sums1
      /\ \A d \in Contracts \ {new} : received'[d] = received[d]
  BY <1>1, <1>7 DEF Tables
<1>10. /\ kase' \in [Contracts -> CaseRow] /\ kase'[c] = case1
       /\ \A d \in Contracts \ {c} : kase'[d] = kase[d]
  BY <1>1, <1>3 DEF Tables
<1>11. ASSUME NEW d \in Contracts
       PROVE  ContractOK(contract'[d].status, installments'[d], received'[d],
                         NoStage(kase'[d]), today')
  <2>1. CASE d = c
    BY <2>1, <1>1, <1>5, <1>8, <1>9, <1>10
  <2>2. CASE d = new
    BY <2>2, <1>1, <1>6, <1>8, <1>9, <1>10
  <2>3. CASE d \notin {c, new}
    BY <2>3, <1>1, <1>2, <1>8, <1>9, <1>10
  <2> QED BY <2>1, <2>2, <2>3
<1>12. Tables'
  BY <1>1, <1>4, <1>8, <1>9, <1>10, <1>11 DEF Tables
<1>13. CasesGoOn
  BY <1>1, <1>3, <1>10, OneCaseGoesOn
<1> QED BY <1>12, <1>13

\* The passing of days keeps the tables.
LEMMA NextDayTables ==
  ASSUME Tables, NextDay
  PROVE  Tables' /\ CasesGoOn
<1>1. /\ today \in Nat /\ today' \in Nat /\ today' >= today
      /\ UNCHANGED <<contract, installments, received, kase>>
  BY LedgerAssumption DEF NextDay, Tables
<1>2. ASSUME NEW c \in Contracts
      PROVE  ContractOK(contract'[c].status, installments'[c], received'[c],
                        NoStage(kase'[c]), today')
  BY <1>1, LaterKeepsContract DEF Tables
<1>3. Tables'
  BY <1>1, <1>2 DEF Tables
<1>4. CasesGoOn
  BY <1>1, NoCaseMoves
<1> QED BY <1>3, <1>4

\* Nothing happens to the tables.
LEMMA StillTables ==
  ASSUME Tables, UNCHANGED vars
  PROVE  Tables' /\ CasesGoOn /\ today' = today
<1>1. Tables'
  BY DEF Tables, vars
<1>2. today <= today' /\ today' = today /\ kase' = kase
  BY DEF Tables, vars
<1> QED BY <1>1, <1>2, NoCaseMoves

\* The handlers that see no payment and no promise keep the tables.
LEMMA ElsewhereTables ==
  ASSUME Tables, Elsewhere
  PROVE  Tables' /\ CasesGoOn
<1>1. Loans \subseteq Contracts /\ StaffStatuses \subseteq CaseStatus
  BY LedgerAssumption, CollectionsAssumption
<1>2. CASE NextDay
  BY <1>2, NextDayTables
<1>3. ASSUME NEW c \in Loans, cancel(c) \/ \E offer \in Offers : createFromProposal(c, offer)
      PROVE  Tables' /\ CasesGoOn
  BY <1>1, <1>3, ContractStepsTables
<1>4. ASSUME NEW c \in Contracts,
             addInteraction(c) \/ \E status \in StaffStatuses : updateCaseStatus(c, status)
      PROVE  Tables' /\ CasesGoOn
  BY <1>1, <1>4, CaseStepsTables
<1>5. ASSUME NEW c \in Contracts, NEW new \in Contracts, NEW term \in Terms, new # c,
             renegotiate(c, new, term)
      PROVE  Tables' /\ CasesGoOn
  BY <1>5, RenegotiateTables
<1> QED BY <1>2, <1>3, <1>4, <1>5 DEF Elsewhere

-----------------------------------------------------------------------------
(* Payments: the sums the cycle takes of them *)

PaymentRow == [c : Contracts, paidAt : Int, dated : BOOLEAN, createdAt : Nat,
               amount : Nat \ {0}]

Amounts(rows) == [n \in DOMAIN rows |-> rows[n].amount]
TotalOf(rows, numbers) == MapThenSumSet(LAMBDA n : rows[n].amount, numbers)

\* The payments that PaidLaterIsNotBroken and PaidWithin add up.
InTime(rows, p) ==
    {n \in DOMAIN rows :
        /\ p.since < n /\ rows[n].c = p.c
        /\ p.day <= rows[n].paidAt /\ rows[n].paidAt <= p.promisedDay
        /\ rows[n].createdAt <= p.promisedDay
        /\ ~(rows[n].dated /\ rows[n].paidAt = p.day /\ p.afternoon)}
Within(rows, p) ==
    {n \in DOMAIN rows :
        /\ rows[n].c = p.c
        /\ IF rows[n].dated THEN FirstDay(p) <= rows[n].paidAt ELSE p.since < n
        /\ rows[n].paidAt < p.promisedDay + 1}

\* The operators of the model are such totals.
LEMMA SumsArePaid ==
  ASSUME NEW p
  PROVE  /\ SumPaid(Fulfilling(p) \ PinnedBefore(p)) = TotalOf(paid, InTime(paid, promise[p]))
         /\ PaidWithin(promise[p]) = TotalOf(paid, Within(paid, promise[p]))
<1>1. Fulfilling(p) \ PinnedBefore(p) = InTime(paid, promise[p])
  BY DEF Fulfilling, PinnedBefore, InTime
<1>2. SumPaid(Fulfilling(p) \ PinnedBefore(p)) = TotalOf(paid, InTime(paid, promise[p]))
  BY <1>1 DEF SumPaid, TotalOf
<1>3. PaidWithin(promise[p]) = TotalOf(paid, Within(paid, promise[p]))
  BY DEF PaidWithin, SumPaid, TotalOf, Within, MadeSince
<1> QED BY <1>2, <1>3

\* And the totals are sums of a function, of which the lemmas on sums speak.
LEMMA TotalIsSum ==
  ASSUME NEW rows, IsFiniteSet(DOMAIN rows), NEW S \in SUBSET DOMAIN rows
  PROVE  TotalOf(rows, S) = SumOf(Amounts(rows), S)
<1> DEFINE f == Amounts(rows)
           Same(g) == g = [s \in SUBSET S |->
                             IF s = {} THEN 0
                             ELSE rows[CHOOSE x \in s : TRUE].amount
                                    + g[s \ {CHOOSE x \in s : TRUE}]]
           h == CHOOSE g : Same(g)
<1>0. IsFiniteSet(S)
  BY FS_Subset
<1>1. PICK g : IsSum(g, f, S) /\ SumOf(f, S) = g[S]
  BY <1>0, SumExists, SumOfIsSum
<1>2. ASSUME NEW k PROVE Same(k) <=> IsSum(k, f, S)
  <2>1. ASSUME NEW s \in SUBSET S
        PROVE  (IF s = {} THEN 0
                ELSE rows[CHOOSE x \in s : TRUE].amount + k[s \ {CHOOSE x \in s : TRUE}])
             = (IF s = {} THEN 0
                ELSE f[CHOOSE x \in s : TRUE] + k[s \ {CHOOSE x \in s : TRUE}])
    <3>1. s # {} => (CHOOSE x \in s : TRUE) \in DOMAIN rows
      OBVIOUS
    <3> QED BY <3>1 DEF Amounts
  <2> QED BY <2>1 DEF IsSum
<1>3. Same(h)
  <2>1. Same(g)
    BY <1>1, <1>2
  <2> HIDE DEF Same
  <2> QED BY <2>1
<1>4. TotalOf(rows, S) = h[S]
  BY Zenon DEF TotalOf, MapThenSumSet, MapThenFoldSet
<1> HIDE DEF f, h
<1>5. IsSum(h, f, S)
  BY <1>2, <1>3
<1>6. S \in SUBSET S
  OBVIOUS
<1>7. h[S] = g[S]
  BY <1>0, <1>1, <1>5, <1>6, SumsAgree
<1> QED BY <1>1, <1>4, <1>7 DEF f

\* Amounts of payments are positive, and there are finitely many payments.
LEMMA AmountsOfPayments ==
  ASSUME NEW rows \in Seq(PaymentRow)
  PROVE  /\ IsFiniteSet(DOMAIN rows)
         /\ \A n \in DOMAIN rows : Amounts(rows)[n] \in Nat
         /\ \A n \in DOMAIN rows : rows[n] \in PaymentRow
<1>1. Len(rows) \in Nat /\ DOMAIN rows = 1..Len(rows) /\ rows \in [1..Len(rows) -> PaymentRow]
  BY SeqIsFunction
<1>2. IsFiniteSet(1..Len(rows))
  BY <1>1, FS_Interval
<1>3. \A n \in DOMAIN rows : rows[n] \in PaymentRow
  BY <1>1
<1>4. \A n \in DOMAIN rows : Amounts(rows)[n] \in Nat
  BY <1>3 DEF Amounts, PaymentRow
<1> QED BY <1>1, <1>2, <1>3, <1>4

\* The sum that a reconciliation takes has all that was paid in time.
LEMMA InTimeIsWithin ==
  ASSUME NEW rows \in Seq(PaymentRow), NEW p, p.day \in Nat, p.promisedDay \in Nat,
         p.afternoon \in BOOLEAN
  PROVE  /\ TotalOf(rows, Within(rows, p)) \in Nat
         /\ TotalOf(rows, InTime(rows, p)) <= TotalOf(rows, Within(rows, p))
<1> DEFINE few == InTime(rows, p)
           many == Within(rows, p)
           f == Amounts(rows)
<1>1. /\ IsFiniteSet(DOMAIN rows) /\ \A n \in DOMAIN rows : f[n] \in Nat
      /\ \A n \in DOMAIN rows : rows[n].paidAt \in Int /\ rows[n].dated \in BOOLEAN
  BY AmountsOfPayments DEF PaymentRow
<1>2. few \in SUBSET DOMAIN rows /\ many \in SUBSET DOMAIN rows
  BY DEF InTime, Within
<1>3. few \in SUBSET many
  <2> SUFFICES ASSUME NEW n \in few PROVE n \in many
    OBVIOUS
  <2>1. /\ n \in DOMAIN rows /\ p.since < n /\ rows[n].c = p.c
        /\ p.day <= rows[n].paidAt /\ rows[n].paidAt <= p.promisedDay
        /\ ~(rows[n].dated /\ rows[n].paidAt = p.day /\ p.afternoon)
    BY DEF InTime
  <2>2. rows[n].dated => FirstDay(p) <= rows[n].paidAt
    BY <1>1, <2>1 DEF FirstDay
  <2>3. rows[n].paidAt < p.promisedDay + 1
    BY <1>1, <2>1
  <2> QED BY <2>1, <2>2, <2>3 DEF Within
<1> HIDE DEF few, many, f
<1>4. IsFiniteSet(many) /\ \A n \in many : f[n] \in Nat
  BY <1>1, <1>2, FS_Subset
<1>5. SumOf(f, many) \in Nat /\ SumOf(f, few) <= SumOf(f, many)
  BY <1>3, <1>4, SumNat, SumMonotone
<1>6. TotalOf(rows, few) = SumOf(f, few) /\ TotalOf(rows, many) = SumOf(f, many)
  BY <1>1, <1>2, TotalIsSum DEF f
<1> QED BY <1>5, <1>6 DEF few, many

\* What was paid in time is an amount of cents.
LEMMA PaymentTotalNat ==
  ASSUME NEW rows \in Seq(PaymentRow), NEW p
  PROVE  TotalOf(rows, InTime(rows, p)) \in Nat
<1>1. InTime(rows, p) \in SUBSET DOMAIN rows
  BY DEF InTime
<1>2. IsFiniteSet(DOMAIN rows) /\ \A n \in DOMAIN rows : Amounts(rows)[n] \in Nat
  BY AmountsOfPayments
<1>3. IsFiniteSet(InTime(rows, p)) /\ \A n \in InTime(rows, p) : Amounts(rows)[n] \in Nat
  BY <1>1, <1>2, FS_Subset
<1> QED BY <1>1, <1>2, <1>3, TotalIsSum, SumNat

\* A payment booked after the day of a promise adds nothing to what was paid in time.
LEMMA LatePaymentsDoNotCount ==
  ASSUME NEW rows \in Seq(PaymentRow), NEW row \in PaymentRow, NEW p,
         p.promisedDay \in Nat, p.promisedDay < row.createdAt
  PROVE  LET more == Append(rows, row) IN
         TotalOf(more, InTime(more, p)) = TotalOf(rows, InTime(rows, p))
<1> DEFINE more == Append(rows, row)
           N == InTime(rows, p)
           f == Amounts(rows)
           h == Amounts(more)
<1>1. /\ more \in Seq(PaymentRow) /\ Len(rows) \in Nat /\ DOMAIN rows = 1..Len(rows)
      /\ DOMAIN more = 1..(Len(rows) + 1) /\ more[Len(rows) + 1] = row
      /\ \A n \in DOMAIN rows : more[n] = rows[n]
  BY AppendProperties, LenProperties
<1>2. IsFiniteSet(DOMAIN rows) /\ IsFiniteSet(DOMAIN more)
  BY <1>1, AmountsOfPayments
<1> HIDE DEF more
<1>3. ~(row.createdAt <= p.promisedDay)
  BY DEF PaymentRow
<1>4. InTime(more, p) = N
  <2>1. ASSUME NEW n \in DOMAIN more, n \notin DOMAIN rows PROVE n \notin InTime(more, p)
    <3>1. more[n] = row
      BY <1>1, <2>1
    <3> QED BY <1>3, <3>1 DEF InTime
  <2>2. DOMAIN rows \subseteq DOMAIN more
    BY <1>1
  <2>3. ASSUME NEW n \in DOMAIN rows PROVE n \in InTime(more, p) <=> n \in N
    BY <1>1, <2>2 DEF InTime
  <2>4. InTime(more, p) \subseteq DOMAIN more /\ N \subseteq DOMAIN rows
    BY DEF InTime
  <2> HIDE DEF N
  <2> QED BY <2>1, <2>2, <2>3, <2>4
<1>5. N \in SUBSET DOMAIN rows /\ N \in SUBSET DOMAIN more
  BY <1>1 DEF InTime
<1> HIDE DEF N
<1>6. \A n \in N : f[n] = h[n]
  BY <1>1, <1>5 DEF Amounts
<1> HIDE DEF f, h
<1>7. SumOf(f, N) = SumOf(h, N)
  BY <1>2, <1>5, <1>6, FS_Subset, SumsOfSame
<1>8. TotalOf(more, N) = SumOf(h, N) /\ TotalOf(rows, N) = SumOf(f, N)
  BY <1>2, <1>5, TotalIsSum DEF f, h
<1> QED BY <1>4, <1>7, <1>8 DEF more, N

-----------------------------------------------------------------------------
(* The inductive invariant *)

PromiseRow == [status : {"PENDING"} \cup Decided, c : Contracts, amount : Nat \ {0},
               promisedDay : Nat, day : Nat, afternoon : BOOLEAN, since : Nat]

\* Payments are dated no later than they are booked, promises are on cases, and what is
\* being decided was promised.
Desk ==
    /\ paid \in Seq(PaymentRow)
    /\ \A n \in DOMAIN paid : paid[n].paidAt <= paid[n].createdAt
    /\ promise \in [Promises -> PromiseRow \cup {NoPromise}]
    /\ \A p \in Promises : promise[p] # NoPromise => kase[promise[p].c].status # "NONE"
    /\ \A x \in deciding :
          x.p \in Promises /\ promise[x.p] # NoPromise /\ x.status \in Decided
    /\ actions \in [Contracts -> Nat]

CaseItem == [c : Contracts, days : Nat, stage : 0..5]
PromiseItem == [p : Promises, case : CaseStatus \cup {"NONE"}, paidWithin : Nat]
JobRow == [at : {"idle", "arrears", "ladder", "promises", "reconcile"},
           todo : (SUBSET Contracts) \cup (SUBSET CaseItem) \cup (SUBSET PromiseItem),
           day : Nat, item : PromiseItem \cup {NoItem}]

\* What a job has read, and how it may be behind the promises and payments of the day: the
\* day it goes by is not after today, and the sum it took for a promise due before that
\* day is all that was paid on it in time.
JobOK(r, day, promises, payments) ==
    /\ r \in JobRow
    /\ r.at = "idle" => r = Idle
    /\ r.at = "arrears" => r.todo \subseteq Contracts
    /\ r.at = "ladder" => r.todo \subseteq CaseItem
    /\ r.at \in {"promises", "reconcile"} =>
          /\ r.todo \subseteq PromiseItem
          /\ \A x \in r.todo : promises[x.p] # NoPromise
          /\ r.day <= day
    /\ r.at = "reconcile" =>
          /\ r.item \in PromiseItem /\ promises[r.item.p] # NoPromise
          /\ promises[r.item.p].promisedDay < r.day =>
                TotalOf(payments, InTime(payments, promises[r.item.p])) <= r.item.paidWithin

Lists ==
    /\ job \in [Jobs -> JobRow]
    /\ \A j \in Jobs : JobOK(job[j], today, promise, paid)

\* An instance is marked while one of its jobs is running, and only one is.
OneEach ==
    /\ running \in [Instances -> BOOLEAN]
    /\ \A j \in Jobs : job[j] # Idle => running[Instance[j]]
    /\ \A j, k \in Jobs : job[j] # Idle /\ job[k] # Idle /\ Instance[j] = Instance[k] => j = k
    /\ \A i \in Instances : running[i] => \E j \in Jobs : Instance[j] = i /\ job[j] # Idle

CollInv == Tables /\ Desk /\ Lists /\ OneEach

-----------------------------------------------------------------------------
(* What steps leave as it was *)

CasesStay == \A c \in Contracts : kase[c].status # "NONE" => kase'[c].status # "NONE"

\* A promise keeps its terms, and what counts as paid in time once its day is past.
PromisesGoOn ==
    \A p \in Promises : promise[p] # NoPromise =>
        /\ promise'[p] # NoPromise
        /\ promise'[p].promisedDay = promise[p].promisedDay
        /\ promise[p].promisedDay < today =>
              TotalOf(paid', InTime(paid', promise'[p])) = TotalOf(paid, InTime(paid, promise[p]))

\* What counts as paid in time is a matter of these terms only.
LEMMA InTimeByTerms ==
  ASSUME NEW rows, NEW p, NEW q, q.c = p.c, q.day = p.day, q.afternoon = p.afternoon,
         q.since = p.since, q.promisedDay = p.promisedDay
  PROVE  InTime(rows, q) = InTime(rows, p)
BY DEF InTime

\* Nothing happens to payments and promises.
LEMMA DeskStill ==
  ASSUME Desk, CasesStay, UNCHANGED <<paid, promise>>, actions' \in [Contracts -> Nat],
         deciding' = deciding
  PROVE  Desk' /\ PromisesGoOn
<1>1. \A p \in Promises : promise[p] # NoPromise => promise[p].c \in Contracts
  BY DEF Desk, PromiseRow
<1>2. Desk'
  BY <1>1 DEF Desk, CasesStay
<1>3. PromisesGoOn
  <2>1. promise' = promise /\ paid' = paid
    OBVIOUS
  <2> QED BY <2>1 DEF PromisesGoOn
<1> QED BY <1>2, <1>3

\* A promise is decided, or left as it is.
LEMMA DeskDecides ==
  ASSUME Desk, CasesStay, NEW p \in Promises, promise[p] # NoPromise, NEW s \in Decided,
         promise' = [promise EXCEPT ![p].status = s], paid' = paid, actions' = actions,
         deciding' \subseteq deciding
  PROVE  Desk' /\ PromisesGoOn
<1> DEFINE q == [promise[p] EXCEPT !.status = s]
<1>1. promise[p] \in PromiseRow /\ NoPromise \notin PromiseRow
  BY DEF Desk, PromiseRow, NoPromise, Decided
<1>2. q \in PromiseRow /\ q.c = promise[p].c /\ q.day = promise[p].day
      /\ q.afternoon = promise[p].afternoon /\ q.since = promise[p].since
      /\ q.promisedDay = promise[p].promisedDay
  BY <1>1 DEF PromiseRow
<1>3. promise'[p] = q /\ (\A o \in Promises \ {p} : promise'[o] = promise[o])
      /\ promise' \in [Promises -> PromiseRow \cup {NoPromise}]
  BY <1>2 DEF Desk
<1> HIDE DEF q
<1>4. \A o \in Promises : promise'[o] # NoPromise =>
         promise[o] # NoPromise /\ promise'[o].c = promise[o].c
  BY <1>2, <1>3
<1>5. \A o \in Promises : promise[o] # NoPromise =>
         /\ promise'[o] # NoPromise /\ promise[o].c \in Contracts
         /\ promise'[o].promisedDay = promise[o].promisedDay
         /\ InTime(paid, promise'[o]) = InTime(paid, promise[o])
  <2> SUFFICES ASSUME NEW o \in Promises, promise[o] # NoPromise
               PROVE  /\ promise'[o] # NoPromise /\ promise[o].c \in Contracts
                      /\ promise'[o].promisedDay = promise[o].promisedDay
                      /\ InTime(paid, promise'[o]) = InTime(paid, promise[o])
    OBVIOUS
  <2>1. promise[o].c \in Contracts
    BY DEF Desk, PromiseRow
  <2>2. CASE o = p
    BY <1>1, <1>2, <1>3, <2>1, <2>2, InTimeByTerms
  <2>3. CASE o # p
    BY <1>3, <2>1, <2>3
  <2> QED BY <2>2, <2>3
<1>6. Desk'
  <2>1. \A o \in Promises : promise'[o] # NoPromise => kase'[promise'[o].c].status # "NONE"
    BY <1>4, <1>5 DEF Desk, CasesStay
  <2>2. \A x \in deciding' :
           x.p \in Promises /\ promise'[x.p] # NoPromise /\ x.status \in Decided
    BY <1>5 DEF Desk
  <2> QED BY <1>3, <2>1, <2>2 DEF Desk
<1>7. PromisesGoOn
  BY <1>5 DEF PromisesGoOn
<1> QED BY <1>6, <1>7

\* A new promise, on a case there is.
LEMMA DeskPromises ==
  ASSUME Desk, CasesStay, NEW p \in Promises, promise[p] = NoPromise, NEW q \in PromiseRow,
         kase'[q.c].status # "NONE", promise' = [promise EXCEPT ![p] = q],
         UNCHANGED <<paid, deciding, actions>>
  PROVE  Desk' /\ PromisesGoOn
<1>1. NoPromise \notin PromiseRow
  BY DEF PromiseRow, NoPromise, Decided
<1>2. promise'[p] = q /\ (\A o \in Promises \ {p} : promise'[o] = promise[o])
      /\ promise' \in [Promises -> PromiseRow \cup {NoPromise}]
  BY DEF Desk
<1>3. \A o \in Promises : promise[o] # NoPromise =>
         promise'[o] = promise[o] /\ promise[o].c \in Contracts
  BY <1>2 DEF Desk, PromiseRow
<1>4. \A o \in Promises : promise'[o] # NoPromise => kase'[promise'[o].c].status # "NONE"
  BY <1>2, <1>3 DEF Desk, CasesStay
<1>5. \A x \in deciding' :
         x.p \in Promises /\ promise'[x.p] # NoPromise /\ x.status \in Decided
  BY <1>3 DEF Desk
<1>6. Desk'
  BY <1>2, <1>4, <1>5 DEF Desk
<1>7. PromisesGoOn
  BY <1>3 DEF PromisesGoOn
<1> QED BY <1>6, <1>7

\* A payment is booked today.
LEMMA DeskPays ==
  ASSUME Desk, CasesStay, NEW row \in PaymentRow, row.paidAt <= row.createdAt,
         row.createdAt = today, paid' = Append(paid, row),
         UNCHANGED <<promise, deciding, actions>>
  PROVE  Desk' /\ PromisesGoOn
<1>1. /\ paid' \in Seq(PaymentRow) /\ Len(paid) \in Nat /\ DOMAIN paid = 1..Len(paid)
      /\ DOMAIN paid' = 1..(Len(paid) + 1) /\ paid'[Len(paid) + 1] = row
      /\ \A n \in DOMAIN paid : paid'[n] = paid[n]
  BY AppendProperties, LenProperties DEF Desk
<1>2. \A n \in DOMAIN paid' : paid'[n].paidAt <= paid'[n].createdAt
  <2> SUFFICES ASSUME NEW n \in DOMAIN paid' PROVE paid'[n].paidAt <= paid'[n].createdAt
    OBVIOUS
  <2>1. CASE n = Len(paid) + 1
    BY <1>1, <2>1
  <2>2. CASE n # Len(paid) + 1
    <3>1. n \in DOMAIN paid
      BY <1>1, <2>2
    <3> QED BY <1>1, <3>1 DEF Desk
  <2> QED BY <2>1, <2>2
<1>3. \A p \in Promises : promise[p] # NoPromise =>
         promise[p].c \in Contracts /\ promise[p].promisedDay \in Nat
  BY DEF Desk, PromiseRow
<1>4. Desk'
  BY <1>1, <1>2, <1>3 DEF Desk, CasesStay
<1>5. PromisesGoOn
  <2> SUFFICES ASSUME NEW p \in Promises, promise[p] # NoPromise
               PROVE  /\ promise'[p] # NoPromise
                      /\ promise'[p].promisedDay = promise[p].promisedDay
                      /\ promise[p].promisedDay < today =>
                            TotalOf(paid', InTime(paid', promise'[p]))
                              = TotalOf(paid, InTime(paid, promise[p]))
    BY DEF PromisesGoOn
  <2>1. promise'[p] = promise[p]
    OBVIOUS
  <2>2. paid \in Seq(PaymentRow)
    BY DEF Desk
  <2> QED BY <1>3, <2>1, <2>2, LatePaymentsDoNotCount
<1> QED BY <1>4, <1>5

\* What a job has read is as far behind after such a step as a list may be.
LEMMA JobGoesOn ==
  ASSUME Desk, PromisesGoOn, today \in Nat, today' \in Nat, today <= today', NEW r,
         JobOK(r, today, promise, paid)
  PROVE  JobOK(r, today', promise', paid')
<1>1. r \in JobRow /\ r.day \in Nat
  BY DEF JobOK, JobRow
<1>2. ASSUME r.at \in {"promises", "reconcile"}
      PROVE  (\A x \in r.todo : promise'[x.p] # NoPromise) /\ r.day <= today'
  <2>1. \A x \in r.todo : x.p \in Promises /\ promise[x.p] # NoPromise
    BY <1>2 DEF JobOK, PromiseItem
  <2>2. r.day <= today
    BY <1>2 DEF JobOK
  <2> QED BY <1>1, <2>1, <2>2 DEF PromisesGoOn
<1>3. ASSUME r.at = "reconcile"
      PROVE  /\ promise'[r.item.p] # NoPromise
             /\ promise'[r.item.p].promisedDay < r.day =>
                   TotalOf(paid', InTime(paid', promise'[r.item.p])) <= r.item.paidWithin
  <2>1. /\ r.item.p \in Promises /\ promise[r.item.p] # NoPromise /\ r.day <= today
        /\ promise[r.item.p].promisedDay < r.day =>
              TotalOf(paid, InTime(paid, promise[r.item.p])) <= r.item.paidWithin
    BY <1>3 DEF JobOK, PromiseItem
  <2>2. promise[r.item.p].promisedDay \in Nat
    BY <2>1 DEF Desk, PromiseRow
  <2>3. /\ promise'[r.item.p] # NoPromise
        /\ promise'[r.item.p].promisedDay = promise[r.item.p].promisedDay
        /\ promise[r.item.p].promisedDay < today =>
              TotalOf(paid', InTime(paid', promise'[r.item.p]))
                = TotalOf(paid, InTime(paid, promise[r.item.p]))
    BY <2>1 DEF PromisesGoOn
  <2>4. promise[r.item.p].promisedDay < r.day => promise[r.item.p].promisedDay < today
    BY <1>1, <2>1, <2>2
  <2> QED BY <2>1, <2>3, <2>4
<1> QED BY <1>2, <1>3 DEF JobOK

\* The jobs do nothing.
LEMMA JobsStill ==
  ASSUME CollInv, Tables', Desk', PromisesGoOn, today <= today', UNCHANGED <<job, running>>
  PROVE  CollInv'
<1>1. today \in Nat /\ today' \in Nat
  BY DEF CollInv, Tables
<1>2. \A j \in Jobs : JobOK(job'[j], today', promise', paid')
  BY <1>1, JobGoesOn DEF CollInv, Lists
<1>3. Lists'
  BY <1>2 DEF CollInv, Lists
<1>4. OneEach'
  BY DEF CollInv, OneEach
<1> QED BY <1>3, <1>4 DEF CollInv

\* One job goes from one place to another.
LEMMA OneJobStep ==
  ASSUME CollInv, Desk', PromisesGoOn, today' \in Nat, today <= today', NEW j \in Jobs, NEW r,
         JobOK(r, today', promise', paid'), job' = [job EXCEPT ![j] = r]
  PROVE  Lists' /\ job'[j] = r /\ \A k \in Jobs \ {j} : job'[k] = job[k]
<1>1. today \in Nat /\ Desk
  BY DEF CollInv, Tables
<1>2. job'[j] = r /\ \A k \in Jobs \ {j} : job'[k] = job[k]
  BY DEF CollInv, Lists
<1>3. \A k \in Jobs : JobOK(job'[k], today', promise', paid')
  BY <1>1, <1>2, JobGoesOn DEF CollInv, Lists
<1>4. job' \in [Jobs -> JobRow]
  BY DEF CollInv, Lists, JobOK
<1> QED BY <1>2, <1>3, <1>4 DEF Lists

\* A job that is running works on.
LEMMA BusyStep ==
  ASSUME CollInv, Tables', Desk', PromisesGoOn, today <= today', NEW j \in Jobs, NEW r,
         JobOK(r, today', promise', paid'), job' = [job EXCEPT ![j] = r],
         job[j] # Idle, r # Idle, running' = running
  PROVE  CollInv'
<1>1. today' \in Nat
  BY DEF Tables
<1>2. Lists' /\ job'[j] = r /\ \A k \in Jobs \ {j} : job'[k] = job[k]
  BY <1>1, OneJobStep
<1>3. \A k \in Jobs : job'[k] # Idle <=> job[k] # Idle
  BY <1>2
<1>4. OneEach'
  BY <1>3 DEF CollInv, OneEach
<1> QED BY <1>2, <1>4 DEF CollInv

\* A run ends, as it should or not.
LEMMA EndStep ==
  ASSUME CollInv, NEW j \in Jobs, job[j] # Idle, End(j)
  PROVE  CollInv'
<1>1. /\ job' = [job EXCEPT ![j] = Idle] /\ running' = [running EXCEPT ![Instance[j]] = FALSE]
      /\ UNCHANGED <<today, contract, installments, received, kase, paid, promise, deciding, actions>>
  BY DEF End, vars, desk
<1>2. Tables' /\ CasesGoOn /\ today' \in Nat /\ today <= today'
  <2>1. Tables' /\ CasesGoOn /\ today' = today /\ today \in Nat
    BY <1>1, StillTables DEF CollInv, vars, Tables
  <2> QED BY <2>1
<1>3. Desk' /\ PromisesGoOn
  BY <1>1, <1>2, DeskStill DEF CollInv, Desk, CasesGoOn, CaseGoesOn, CasesStay
<1>4. JobOK(Idle, today', promise', paid')
  <2>1. Idle \in JobRow
    BY DEF Idle, JobRow
  <2>2. Idle.at = "idle"
    BY DEF Idle
  <2> QED BY <2>1, <2>2 DEF JobOK
<1>5. Lists' /\ job'[j] = Idle /\ \A k \in Jobs \ {j} : job'[k] = job[k]
  BY <1>1, <1>2, <1>3, <1>4, OneJobStep
<1>6. OneEach'
  <2>1. /\ Instance[j] \in Instances /\ \A k \in Jobs : Instance[k] \in Instances
        /\ running \in [Instances -> BOOLEAN]
        /\ \A k \in Jobs : job[k] # Idle => running[Instance[k]]
        /\ \A i, k \in Jobs : job[i] # Idle /\ job[k] # Idle /\ Instance[i] = Instance[k] => i = k
        /\ \A i \in Instances : running[i] => \E k \in Jobs : Instance[k] = i /\ job[k] # Idle
    BY DEF CollInv, OneEach, Instances
  <2>2. running' \in [Instances -> BOOLEAN] /\ running'[Instance[j]] = FALSE
        /\ \A i \in Instances \ {Instance[j]} : running'[i] = running[i]
    BY <1>1, <2>1
  <2>3. \A k \in Jobs : job'[k] # Idle => k # j /\ job[k] # Idle
    BY <1>5
  <2>4. \A k \in Jobs : job'[k] # Idle => running'[Instance[k]]
    BY <2>1, <2>2, <2>3
  <2>5. \A i, k \in Jobs : job'[i] # Idle /\ job'[k] # Idle /\ Instance[i] = Instance[k] => i = k
    BY <2>1, <2>3
  <2>6. \A i \in Instances : running'[i] => \E k \in Jobs : Instance[k] = i /\ job'[k] # Idle
    BY <1>5, <2>1, <2>2
  <2> QED BY <2>2, <2>4, <2>5, <2>6 DEF OneEach
<1> QED BY <1>2, <1>3, <1>5, <1>6 DEF CollInv

\* A run starts on an instance that runs none.
LEMMA StartStep ==
  ASSUME CollInv, NEW i \in Instances, startRun(i)
  PROVE  CollInv'
<1> DEFINE j == CHOOSE k \in IdleJobs(i) : TRUE
           r == [Idle EXCEPT !.at = "arrears",
                             !.todo = {c \in Contracts : contract[c].status \in Live}]
<1>1. /\ j \in Jobs /\ Instance[j] = i /\ job[j] = Idle /\ ~running[i]
      /\ running' = [running EXCEPT ![i] = TRUE]
      /\ job' = [job EXCEPT ![j] = r]
      /\ UNCHANGED <<today, contract, installments, received, kase, paid, promise, deciding, actions>>
  BY DEF startRun, IdleJobs, vars, desk
<1> HIDE DEF j
<1>2. Tables' /\ CasesGoOn /\ today' \in Nat /\ today <= today'
  <2>1. Tables' /\ CasesGoOn /\ today' = today /\ today \in Nat
    BY <1>1, StillTables DEF CollInv, vars, Tables
  <2> QED BY <2>1
<1>3. Desk' /\ PromisesGoOn
  BY <1>1, <1>2, DeskStill DEF CollInv, Desk, CasesGoOn, CaseGoesOn, CasesStay
<1>4. /\ r.at = "arrears" /\ r.todo \subseteq Contracts /\ r \in JobRow /\ r # Idle
  <2> DEFINE live == {c \in Contracts : contract[c].status \in Live}
  <2>1. live \subseteq Contracts
    OBVIOUS
  <2> HIDE DEF live
  <2>2. r = [at |-> "arrears", todo |-> live, day |-> 0, item |-> NoItem]
    <3>1. r = [Idle EXCEPT !.at = "arrears", !.todo = live]
      BY DEF live
    <3> HIDE DEF r
    <3> QED BY <3>1 DEF Idle
  <2> HIDE DEF r
  <2>3. r.at # Idle.at
    BY <2>2 DEF Idle
  <2> QED BY <2>1, <2>2, <2>3 DEF JobRow
<1> HIDE DEF r
<1>5. JobOK(r, today', promise', paid')
  BY <1>4 DEF JobOK
<1>6. Lists' /\ job'[j] = r /\ \A k \in Jobs \ {j} : job'[k] = job[k]
  BY <1>1, <1>2, <1>3, <1>5, OneJobStep
<1>7. OneEach'
  <2>1. /\ running \in [Instances -> BOOLEAN] /\ \A k \in Jobs : Instance[k] \in Instances
        /\ \A k \in Jobs : job[k] # Idle => running[Instance[k]]
        /\ \A h, k \in Jobs : job[h] # Idle /\ job[k] # Idle /\ Instance[h] = Instance[k] => h = k
        /\ \A h \in Instances : running[h] => \E k \in Jobs : Instance[k] = h /\ job[k] # Idle
    BY DEF CollInv, OneEach, Instances
  <2>2. running' \in [Instances -> BOOLEAN] /\ running'[i] = TRUE
        /\ \A h \in Instances \ {i} : running'[h] = running[h]
    BY <1>1, <2>1
  <2>3. \A k \in Jobs \ {j} : job'[k] # Idle => Instance[k] # i
    BY <1>1, <1>6, <2>1
  <2>4. \A k \in Jobs : job'[k] # Idle => running'[Instance[k]]
    BY <1>1, <1>6, <2>1, <2>2
  <2>5. \A h, k \in Jobs : job'[h] # Idle /\ job'[k] # Idle /\ Instance[h] = Instance[k] => h = k
    BY <1>1, <1>6, <2>1, <2>3
  <2>6. \A h \in Instances : running'[h] => \E k \in Jobs : Instance[k] = h /\ job'[k] # Idle
    BY <1>1, <1>4, <1>6, <2>1, <2>2
  <2> QED BY <2>2, <2>4, <2>5, <2>6 DEF OneEach
<1> QED BY <1>2, <1>3, <1>6, <1>7 DEF CollInv

-----------------------------------------------------------------------------
(* The steps of a job *)

\* An item is taken off the list.
LEMMA TakingOff ==
  ASSUME NEW r, NEW day, NEW promises, NEW payments, JobOK(r, day, promises, payments), NEW x
  PROVE  LET taken == [r EXCEPT !.todo = r.todo \ {x}] IN
         /\ JobOK(taken, day, promises, payments) \/ r.at = "idle"
         /\ taken.at = r.at /\ taken.todo = r.todo \ {x}
<1> DEFINE rest == r.todo \ {x}
           taken == [r EXCEPT !.todo = rest]
<1>1. r \in JobRow /\ rest \subseteq r.todo
  BY DEF JobOK
<1> HIDE DEF rest
<1>2. rest \in (SUBSET Contracts) \cup (SUBSET CaseItem) \cup (SUBSET PromiseItem)
  BY <1>1 DEF JobRow
<1>3. /\ taken \in JobRow /\ taken.at = r.at /\ taken.todo = rest /\ taken.day = r.day
      /\ taken.item = r.item
  BY <1>1, <1>2 DEF JobRow
<1> HIDE DEF taken
<1>4. JobOK(taken, day, promises, payments) \/ r.at = "idle"
  BY <1>1, <1>3 DEF JobOK
<1> QED BY <1>3, <1>4 DEF taken, rest

\* A job that is somewhere is not idle.
LEMMA SomewhereIsBusy ==
  ASSUME NEW r, r.at # "idle"
  PROVE  r # Idle
BY DEF Idle

\* Steps of a job that are no more than an item taken off, whatever becomes of the tables.
LEMMA TakeOffStep ==
  ASSUME CollInv, Tables', Desk', PromisesGoOn, today <= today', NEW j \in Jobs, NEW x,
         job[j].at # "idle", TakeOff(j, x), running' = running
  PROVE  CollInv'
<1> DEFINE r == [job[j] EXCEPT !.todo = job[j].todo \ {x}]
<1>1. job' = [job EXCEPT ![j] = r]
  BY DEF TakeOff, CollInv, Lists
<1>2. today \in Nat /\ today' \in Nat /\ Desk
  BY DEF CollInv, Tables
<1>3. JobOK(job[j], today', promise', paid')
  BY <1>2, JobGoesOn DEF CollInv, Lists
<1>4. JobOK(r, today', promise', paid') /\ r.at = job[j].at
  BY <1>3, TakingOff
<1> HIDE DEF r
<1>5. job[j] # Idle /\ r # Idle
  BY <1>4, SomewhereIsBusy
<1> QED BY <1>1, <1>4, <1>5, BusyStep

\* The refresh of one contract, and one that fails.
LEMMA RefreshNextStep ==
  ASSUME CollInv, NEW j \in Jobs, refreshNext(j) \/ refreshFails(j)
  PROVE  CollInv'
<1>1. PICK c \in job[j].todo :
         /\ job[j].at = "arrears" /\ TakeOff(j, c)
         /\ refreshContract(c) \/ UNCHANGED vars
         /\ UNCHANGED <<paid, promise, deciding, actions, running>>
  <2>1. CASE refreshNext(j)
    <3>1. PICK c \in job[j].todo :
             /\ IF contract[c].status \in Live THEN refreshContract(c) ELSE UNCHANGED vars
             /\ TakeOff(j, c)
      BY <2>1 DEF refreshNext
    <3>2. job[j].at = "arrears" /\ UNCHANGED <<paid, promise, deciding, actions, running>>
      BY <2>1 DEF refreshNext, desk
    <3> QED BY <3>1, <3>2
  <2>2. CASE refreshFails(j)
    BY <2>2 DEF refreshFails, desk
  <2> QED BY <2>1, <2>2
<1>2. c \in Contracts /\ Tables /\ today \in Nat
  BY <1>1 DEF CollInv, Lists, JobOK, Tables
<1>3. Tables' /\ CasesGoOn /\ today' = today
  BY <1>1, <1>2, RefreshTables, StillTables
<1>4. today <= today'
  BY <1>2, <1>3
<1>5. Desk' /\ PromisesGoOn
  BY <1>1, <1>3, DeskStill DEF CollInv, Desk, CasesGoOn, CaseGoesOn, CasesStay
<1> QED BY <1>1, <1>3, <1>4, <1>5, TakeOffStep

\* The list of cases is read.
LEMMA ListCasesStep ==
  ASSUME CollInv, NEW j \in Jobs, listCases(j)
  PROVE  CollInv'
<1> DEFINE cases == {[c |-> c, days |-> kase[c].daysOverdue, stage |-> kase[c].dunningStage] :
              c \in {d \in Contracts : kase[d].status \notin {"NONE", "RESOLVED", "WRITTEN_OFF"}
                                       /\ kase[d].daysOverdue > 0}}
           r == [job[j] EXCEPT !.at = "ladder", !.todo = cases]
<1>1. /\ job[j].at = "arrears" /\ job' = [job EXCEPT ![j] = r]
      /\ UNCHANGED vars /\ UNCHANGED <<paid, promise, deciding, actions, running>>
  BY DEF listCases, Proceed, desk, CollInv, Lists
<1>2. Tables' /\ CasesGoOn /\ today' \in Nat /\ today <= today'
  <2>1. Tables' /\ CasesGoOn /\ today' = today /\ today \in Nat
    BY <1>1, StillTables DEF CollInv, Tables
  <2> QED BY <2>1
<1>3. Desk' /\ PromisesGoOn
  BY <1>1, <1>2, DeskStill DEF CollInv, Desk, CasesGoOn, CaseGoesOn, CasesStay
<1>4. cases \subseteq CaseItem
  BY DEF CollInv, Tables, CaseRow, CaseItem
<1>5. job[j] \in JobRow
  BY DEF CollInv, Lists
<1> HIDE DEF cases
<1>6. r \in JobRow /\ r.at = "ladder" /\ r.todo = cases
  <2>1. cases \in (SUBSET Contracts) \cup (SUBSET CaseItem) \cup (SUBSET PromiseItem)
    BY <1>4
  <2> QED BY <1>5, <2>1 DEF JobRow
<1> HIDE DEF r
<1>7. JobOK(r, today', promise', paid')
  BY <1>4, <1>6 DEF JobOK
<1>8. job[j] # Idle /\ r # Idle
  BY <1>1, <1>6, SomewhereIsBusy
<1> QED BY <1>1, <1>2, <1>3, <1>7, <1>8, BusyStep

\* The stage of one case is written.
LEMMA EscalateTables ==
  ASSUME Tables, NEW x \in CaseItem, NEW target \in 0..5,
         kase' = [kase EXCEPT ![x.c].dunningStage = target],
         UNCHANGED <<today, contract, installments, received>>
  PROVE  /\ Tables' /\ CasesStay /\ today' = today
         /\ x.c \in Contracts /\ kase'[x.c].dunningStage = target
         /\ \A d \in Contracts \ {x.c} : kase'[d] = kase[d]
<1> DEFINE k == [kase[x.c] EXCEPT !.dunningStage = target]
<1>1. x.c \in Contracts /\ kase \in [Contracts -> CaseRow]
  BY DEF CaseItem, Tables
<1>2. /\ k \in CaseRow /\ k.status = kase[x.c].status /\ k.dunningStage = target
      /\ k.daysOverdue = kase[x.c].daysOverdue
  BY <1>1 DEF CaseRow
<1>3. kase' = [kase EXCEPT ![x.c] = k]
  BY <1>1
<1> HIDE DEF k
<1>4. Tables'
  BY <1>1, <1>2, <1>3, CaseTables
<1>5. CasesStay /\ kase'[x.c].dunningStage = target /\ \A d \in Contracts \ {x.c} : kase'[d] = kase[d]
  BY <1>1, <1>2, <1>3 DEF CasesStay
<1> QED BY <1>1, <1>4, <1>5

\* One case of the list.
LEMMA EscalateStep ==
  ASSUME CollInv, NEW j \in Jobs, escalateNext(j)
  PROVE  CollInv'
<1>1. PICK x \in job[j].todo :
         /\ TakeOff(j, x)
         /\ IF dunningStageFor(x.days) <= x.stage THEN UNCHANGED <<vars, actions>>
            ELSE /\ actions' = [actions EXCEPT ![x.c] = @ + 1]
                 /\ kase' = [kase EXCEPT ![x.c].dunningStage = dunningStageFor(x.days)]
                 /\ UNCHANGED <<today, contract, installments, received>>
  BY DEF escalateNext
<1>2. job[j].at = "ladder" /\ UNCHANGED <<paid, promise, deciding, running>>
  BY DEF escalateNext, desk
<1>3. x \in CaseItem /\ Tables /\ today \in Nat /\ Desk
  BY <1>2 DEF CollInv, Lists, JobOK, Tables
<1>4. Tables' /\ CasesStay /\ today' = today /\ actions' \in [Contracts -> Nat]
  <2>1. CASE dunningStageFor(x.days) <= x.stage
    BY <1>1, <1>3, <2>1, StillTables DEF CasesGoOn, CaseGoesOn, CasesStay, Desk
  <2>2. CASE ~(dunningStageFor(x.days) <= x.stage)
    <3> DEFINE target == dunningStageFor(x.days)
    <3>1. target \in 0..5
      BY StageType
    <3>2. /\ actions' = [actions EXCEPT ![x.c] = @ + 1]
          /\ kase' = [kase EXCEPT ![x.c].dunningStage = target]
          /\ UNCHANGED <<today, contract, installments, received>>
      BY <1>1, <2>2
    <3> HIDE DEF target
    <3>3. Tables' /\ CasesStay /\ today' = today
      BY <1>3, <3>1, <3>2, EscalateTables
    <3>4. actions' \in [Contracts -> Nat]
      <4>1. x.c \in Contracts /\ actions \in [Contracts -> Nat] /\ actions[x.c] + 1 \in Nat
        BY <1>3 DEF Desk, CaseItem
      <4> QED BY <3>2, <4>1
    <3> QED BY <3>3, <3>4
  <2> QED BY <2>1, <2>2
<1>5. today <= today'
  BY <1>3, <1>4
<1>6. Desk' /\ PromisesGoOn
  BY <1>2, <1>3, <1>4, DeskStill
<1> QED BY <1>1, <1>2, <1>4, <1>5, <1>6, TakeOffStep

\* The list of promises is read, and the day fixed.
LEMMA ListPromisesStep ==
  ASSUME CollInv, NEW j \in Jobs, listPromises(j)
  PROVE  CollInv'
<1> DEFINE items == {[p |-> p, case |-> kase[promise[p].c].status, paidWithin |-> 0] :
                       p \in {q \in Promises : promise[q].status = "PENDING"}}
           r == [job[j] EXCEPT !.at = "promises", !.day = today, !.todo = items]
<1>1. /\ job[j].at = "ladder" /\ job' = [job EXCEPT ![j] = r]
      /\ UNCHANGED vars /\ UNCHANGED <<paid, promise, deciding, actions, running>>
  BY DEF listPromises, desk, CollInv, Lists
<1>2. Tables' /\ CasesGoOn /\ today' \in Nat /\ today <= today' /\ today \in Nat
  <2>1. Tables' /\ CasesGoOn /\ today' = today /\ today \in Nat
    BY <1>1, StillTables DEF CollInv, Tables
  <2> QED BY <2>1
<1>3. Desk' /\ PromisesGoOn
  BY <1>1, <1>2, DeskStill DEF CollInv, Desk, CasesGoOn, CaseGoesOn, CasesStay
<1>4. items \subseteq PromiseItem /\ \A x \in items : promise'[x.p] # NoPromise
  <2> SUFFICES ASSUME NEW q \in Promises, promise[q].status = "PENDING"
               PROVE  promise[q] # NoPromise /\ kase[promise[q].c].status \in CaseStatus \cup {"NONE"}
    BY <1>1 DEF PromiseItem
  <2>1. promise[q] # NoPromise
    BY DEF NoPromise
  <2>2. promise[q].c \in Contracts
    BY <2>1 DEF CollInv, Desk, PromiseRow
  <2> QED BY <2>1, <2>2 DEF CollInv, Tables, CaseRow
<1>5. job[j] \in JobRow
  BY DEF CollInv, Lists
<1> HIDE DEF items
<1>6. r \in JobRow /\ r.at = "promises" /\ r.todo = items /\ r.day = today
  <2>1. items \in (SUBSET Contracts) \cup (SUBSET CaseItem) \cup (SUBSET PromiseItem)
    BY <1>4
  <2> QED BY <1>2, <1>5, <2>1 DEF JobRow
<1> HIDE DEF r
<1>7. JobOK(r, today', promise', paid')
  BY <1>2, <1>4, <1>6 DEF JobOK
<1>8. job[j] # Idle /\ r # Idle
  BY <1>1, <1>6, SomewhereIsBusy
<1> QED BY <1>1, <1>2, <1>3, <1>7, <1>8, BusyStep

\* The payments of one promise are summed.
LEMMA SumPaymentsStep ==
  ASSUME CollInv, NEW j \in Jobs, sumPayments(j)
  PROVE  CollInv'
<1>1. PICK x \in job[j].todo :
         job' = [job EXCEPT ![j] = [job[j] EXCEPT !.at = "reconcile", !.todo = job[j].todo \ {x},
                   !.item = [x EXCEPT !.paidWithin = PaidWithin(promise[x.p])]]]
  BY DEF sumPayments
<1>2. job[j].at = "promises" /\ UNCHANGED vars
      /\ UNCHANGED <<paid, promise, deciding, actions, running>>
  BY DEF sumPayments, desk
<1>3. Tables' /\ CasesGoOn /\ today' \in Nat /\ today <= today' /\ today' = today
  <2>1. Tables' /\ CasesGoOn /\ today' = today /\ today \in Nat
    BY <1>2, StillTables DEF CollInv, Tables
  <2> QED BY <2>1
<1>4. Desk' /\ PromisesGoOn
  BY <1>2, <1>3, DeskStill DEF CollInv, Desk, CasesGoOn, CaseGoesOn, CasesStay
<1> DEFINE rest == job[j].todo \ {x}
           sum == PaidWithin(promise[x.p])
           item == [x EXCEPT !.paidWithin = sum]
           r == [job[j] EXCEPT !.at = "reconcile", !.todo = rest, !.item = item]
<1>5. /\ job[j] \in JobRow /\ job[j].todo \subseteq PromiseItem
      /\ \A y \in job[j].todo : promise[y.p] # NoPromise
      /\ job[j].day <= today
  BY <1>2 DEF CollInv, Lists, JobOK
<1>6. x \in PromiseItem /\ x.p \in Promises /\ promise[x.p] \in PromiseRow
  BY <1>5 DEF PromiseItem, CollInv, Desk
<1>7. sum \in Nat /\ TotalOf(paid, InTime(paid, promise[x.p])) <= sum
  <2>1. paid \in Seq(PaymentRow) /\ promise[x.p].day \in Nat
        /\ promise[x.p].promisedDay \in Nat /\ promise[x.p].afternoon \in BOOLEAN
    BY <1>6 DEF CollInv, Desk, PromiseRow
  <2>2. /\ TotalOf(paid, Within(paid, promise[x.p])) \in Nat
        /\ TotalOf(paid, InTime(paid, promise[x.p])) <= TotalOf(paid, Within(paid, promise[x.p]))
    BY <2>1, InTimeIsWithin
  <2>3. sum = TotalOf(paid, Within(paid, promise[x.p]))
    BY SumsArePaid
  <2> QED BY <2>2, <2>3
<1>8. job' = [job EXCEPT ![j] = r]
  BY <1>1
<1> HIDE DEF sum
<1>9. item \in PromiseItem /\ item.p = x.p /\ item.paidWithin = sum
  BY <1>6, <1>7 DEF PromiseItem
<1> HIDE DEF item
<1>10. rest \subseteq job[j].todo /\ rest \subseteq PromiseItem
  BY <1>5
<1> HIDE DEF rest
<1>11. r \in JobRow /\ r.at = "reconcile" /\ r.todo = rest /\ r.item = item /\ r.day = job[j].day
  BY <1>5, <1>9, <1>10 DEF JobRow
<1> HIDE DEF r
<1>12. JobOK(r, today, promise, paid)
  <2>1. \A y \in r.todo : promise[y.p] # NoPromise
    BY <1>5, <1>10, <1>11
  <2>2. promise[item.p] # NoPromise
    BY <1>5, <1>9
  <2> QED BY <1>5, <1>7, <1>9, <1>10, <1>11, <2>1, <2>2 DEF JobOK
<1>13. JobOK(r, today', promise', paid')
  BY <1>2, <1>3, <1>12
<1>14. job[j] # Idle /\ r # Idle
  BY <1>2, <1>11, SomewhereIsBusy
<1> QED BY <1>2, <1>3, <1>4, <1>8, <1>13, <1>14, BusyStep

\* A promise is kept, broken with its case, or left alone.
LEMMA ReconcileStep ==
  ASSUME CollInv, NEW j \in Jobs, reconcile(j)
  PROVE  CollInv'
<1> DEFINE x == job[j].item
           c == promise[x.p].c
           kept == x.case = "RESOLVED" \/ x.paidWithin >= promise[x.p].amount
           broken == ~kept /\ promise[x.p].promisedDay < job[j].day
           r == [job[j] EXCEPT !.at = "promises", !.item = NoItem]
<1>1. /\ job[j].at = "reconcile" /\ job' = [job EXCEPT ![j] = r]
      /\ promise' = IF kept THEN [promise EXCEPT ![x.p].status = "KEPT"]
                    ELSE IF broken THEN [promise EXCEPT ![x.p].status = "BROKEN"] ELSE promise
      /\ breakPromise(c) \/ UNCHANGED vars
      /\ UNCHANGED <<paid, deciding, actions, running>>
  BY DEF reconcile, CollInv, Lists
<1>2. /\ x.p \in Promises /\ promise[x.p] # NoPromise /\ c \in Contracts
      /\ job[j] \in JobRow /\ job[j].todo \subseteq PromiseItem
      /\ (\A y \in job[j].todo : promise[y.p] # NoPromise) /\ job[j].day <= today
  BY <1>1 DEF CollInv, Lists, JobOK, PromiseItem, Desk, PromiseRow
<1>3. Tables /\ today \in Nat /\ Desk
  BY DEF CollInv, Tables
<1> HIDE DEF kept, broken, c
<1>4. Tables' /\ CasesGoOn /\ today' = today
  BY <1>1, <1>2, <1>3, CaseStepsTables, StillTables
<1>5. CasesStay /\ today <= today' /\ today' \in Nat
  BY <1>3, <1>4 DEF CasesGoOn, CaseGoesOn, CasesStay
<1> HIDE DEF x
<1>6. Desk' /\ PromisesGoOn
  <2>1. CASE kept
    BY <1>1, <1>2, <1>3, <1>5, <2>1, DeskDecides DEF Decided
  <2>2. CASE ~kept /\ broken
    BY <1>1, <1>2, <1>3, <1>5, <2>2, DeskDecides DEF Decided
  <2>3. CASE ~kept /\ ~broken
    BY <1>1, <1>3, <1>5, <2>3, DeskStill DEF Desk
  <2> QED BY <2>1, <2>2, <2>3
<1>7. r \in JobRow /\ r.at = "promises" /\ r.todo = job[j].todo /\ r.day = job[j].day
  BY <1>2 DEF JobRow
<1> HIDE DEF r
<1>8. JobOK(r, today', promise', paid')
  <2>1. \A y \in r.todo : promise'[y.p] # NoPromise
    BY <1>2, <1>6, <1>7 DEF PromisesGoOn, PromiseItem
  <2>2. r.day <= today'
    BY <1>2, <1>4, <1>7
  <2> QED BY <1>2, <1>7, <2>1, <2>2 DEF JobOK
<1>9. job[j] # Idle /\ r # Idle
  BY <1>1, <1>7, SomewhereIsBusy
<1> QED BY <1>1, <1>4, <1>5, <1>6, <1>8, <1>9, BusyStep

-----------------------------------------------------------------------------
(* The other handlers *)

\* A payment, as the desk keeps it.
LEMMA PayInstallmentStep ==
  ASSUME CollInv, NEW c \in Loans, NEW lag \in Backdating, NEW dated \in BOOLEAN,
         NEW n \in DOMAIN installments[c], payInstallment(c, n, lag, dated)
  PROVE  CollInv'
<1> DEFINE amount == received'[c][n] - received[c][n]
           row == [c |-> c, paidAt |-> today - lag, dated |-> dated, createdAt |-> today,
                   amount |-> amount]
<1>1. /\ settleInstallment(c, n, lag) /\ paid' = Append(paid, row)
      /\ UNCHANGED <<promise, deciding, actions, job, running>>
  BY DEF payInstallment, cycle
<1>2. c \in Contracts /\ lag \in Nat /\ Tables /\ Desk /\ today \in Nat
  BY LedgerAssumption DEF CollInv, Tables
<1>3. Tables' /\ CasesGoOn /\ today' = today /\ amount \in Nat \ {0}
  BY <1>1, <1>2, SettleTables
<1>4. today <= today' /\ CasesStay
  BY <1>2, <1>3 DEF CasesGoOn, CaseGoesOn, CasesStay
<1> HIDE DEF amount
<1>5. row \in PaymentRow /\ row.paidAt <= row.createdAt /\ row.createdAt = today
  BY <1>2, <1>3 DEF PaymentRow
<1> HIDE DEF row
<1>6. Desk' /\ PromisesGoOn
  BY <1>1, <1>2, <1>4, <1>5, DeskPays
<1> QED BY <1>1, <1>3, <1>4, <1>6, JobsStill

\* A promise on a case there is.
LEMMA MakePromiseStep ==
  ASSUME CollInv, NEW p \in Promises, NEW amount \in PromiseAmounts, NEW days \in PromiseDays,
         makePromise(p, amount, days)
  PROVE  CollInv'
<1>1. PICK c \in Contracts, afternoon \in BOOLEAN :
         /\ promise[p] = NoPromise /\ addPromise(c)
         /\ promise' = [promise EXCEPT ![p] =
               [status |-> "PENDING", c |-> c, amount |-> amount,
                promisedDay |-> today + days, day |-> today, afternoon |-> afternoon,
                since |-> Len(paid)]]
         /\ UNCHANGED <<paid, deciding, actions, job, running>>
  BY DEF makePromise, cycle
<1> DEFINE q == [status |-> "PENDING", c |-> c, amount |-> amount,
                 promisedDay |-> today + days, day |-> today, afternoon |-> afternoon,
                 since |-> Len(paid)]
<1>2. amount \in Nat \ {0} /\ days \in Nat /\ Tables /\ Desk /\ today \in Nat
  BY CollectionsAssumption DEF CollInv, Tables
<1>3. Tables' /\ CasesGoOn /\ today' = today
  BY <1>1, <1>2, CaseStepsTables
<1>4. CasesStay /\ today <= today'
  BY <1>2, <1>3 DEF CasesGoOn, CaseGoesOn, CasesStay
<1>5. q \in PromiseRow /\ q.c = c
  <2>1. Len(paid) \in Nat
    BY <1>2, LenProperties DEF Desk
  <2> QED BY <1>2, <2>1 DEF PromiseRow
<1>6. kase'[c].status # "NONE"
  BY <1>1, <1>4 DEF addPromise, CasesStay
<1>7. promise' = [promise EXCEPT ![p] = q]
  BY <1>1
<1> HIDE DEF q
<1>8. Desk' /\ PromisesGoOn
  BY <1>1, <1>2, <1>4, <1>5, <1>6, <1>7, DeskPromises
<1> QED BY <1>1, <1>3, <1>4, <1>8, JobsStill

\* updatePromise, its read and its write.
LEMMA DecidingStep ==
  ASSUME CollInv,
         \/ \E p \in Promises, status \in StaffDecisions : readPromise(p, status)
         \/ \E x \in deciding : updatePromise(x)
  PROVE  CollInv'
<1>1. Tables /\ Desk /\ today \in Nat
  BY DEF CollInv, Tables
<1>2. UNCHANGED <<vars, paid, actions, job, running>>
  BY DEF readPromise, updatePromise, cycle
<1>3. Tables' /\ CasesGoOn /\ today' = today
  BY <1>1, <1>2, StillTables
<1>4. CasesStay /\ today <= today'
  BY <1>1, <1>3 DEF CasesGoOn, CaseGoesOn, CasesStay
<1>5. ASSUME NEW p \in Promises, NEW status \in StaffDecisions, readPromise(p, status)
      PROVE  Desk' /\ PromisesGoOn
  <2> DEFINE x == [p |-> p, status |-> status]
  <2>1. /\ promise[p].status = "PENDING" /\ promise' = promise /\ paid' = paid
        /\ actions' = actions /\ deciding' = deciding \cup {x}
    BY <1>5 DEF readPromise
  <2>2. promise[p] # NoPromise /\ status \in Decided
    BY <2>1, CollectionsAssumption DEF NoPromise, Decided
  <2>3. x.p = p /\ x.status = status
    OBVIOUS
  <2> HIDE DEF x
  <2>4. \A y \in deciding' :
           y.p \in Promises /\ promise'[y.p] # NoPromise /\ y.status \in Decided
    BY <1>1, <2>1, <2>2, <2>3 DEF Desk
  <2>5. \A o \in Promises : promise[o] # NoPromise => promise[o].c \in Contracts
    BY <1>1 DEF Desk, PromiseRow
  <2>6. Desk'
    BY <1>1, <1>4, <2>1, <2>4, <2>5 DEF Desk, CasesStay
  <2> QED BY <2>1, <2>6 DEF PromisesGoOn
<1>6. ASSUME NEW x \in deciding, updatePromise(x)
      PROVE  Desk' /\ PromisesGoOn
  <2>1. /\ promise' = [promise EXCEPT ![x.p].status = x.status] /\ paid' = paid
        /\ actions' = actions /\ deciding' \subseteq deciding
    BY <1>6 DEF updatePromise
  <2>2. x.p \in Promises /\ promise[x.p] # NoPromise /\ x.status \in Decided
    BY <1>1 DEF Desk
  <2> QED BY <1>1, <1>4, <2>1, <2>2, DeskDecides
<1>7. Desk' /\ PromisesGoOn
  BY <1>5, <1>6
<1> QED BY <1>2, <1>3, <1>4, <1>7, JobsStill

\* The handlers that see no payment and no promise.
LEMMA ElsewhereStep ==
  ASSUME CollInv, Elsewhere
  PROVE  CollInv'
<1>1. Tables /\ Desk /\ today \in Nat
  BY DEF CollInv, Tables
<1>2. UNCHANGED <<paid, promise, deciding, actions, job, running>>
  BY DEF Elsewhere, desk, cycle
<1>3. Tables' /\ CasesGoOn
  BY <1>1, ElsewhereTables
<1>4. CasesStay /\ today <= today'
  BY <1>3 DEF CasesGoOn, CaseGoesOn, CasesStay
<1>5. Desk' /\ PromisesGoOn
  BY <1>1, <1>2, <1>4, DeskStill DEF Desk
<1> QED BY <1>2, <1>3, <1>4, <1>5, JobsStill

-----------------------------------------------------------------------------
(* What is invariant *)

\* Before anything happens nothing is listed, paid or promised.
LEMMA CollInitEstablishes ==
  CollInit => CollInv
<1> SUFFICES ASSUME CollInit PROVE CollInv
  OBVIOUS
<1>1. Tables
  <2>1. IInv
    BY EmptyEstablishesInv DEF CollInit
  <2>2. /\ today \in Nat
        /\ contract \in [Contracts -> ContractRow]
        /\ installments \in [Contracts -> Seq(Installment)]
        /\ received \in [Contracts -> Seq(Nat)]
        /\ kase \in [Contracts -> CaseRow]
        /\ \A c \in Contracts :
              ContractOK(contract[c].status, installments[c], received[c], kase[c], today)
    BY <2>1 DEF IInv, Rows, ContractRow
  <2>3. \A c \in Contracts : NoStage(kase[c]) = kase[c]
    BY DEF CollInit, Empty, NoCase, NoStage
  <2> QED BY <2>2, <2>3 DEF Tables
<1>2. /\ paid = <<>> /\ promise = [p \in Promises |-> NoPromise] /\ deciding = {}
      /\ actions = [c \in Contracts |-> 0] /\ running = [i \in Instances |-> FALSE]
      /\ job = [j \in Jobs |-> Idle]
  BY DEF CollInit
<1>3. Desk
  <2>1. paid \in Seq(PaymentRow) /\ DOMAIN paid = {}
    <3>1. DOMAIN <<>> = {}
      OBVIOUS
    <3> QED BY <1>2, <3>1
  <2> QED BY <1>2, <2>1 DEF Desk
<1>4. Lists
  <2>1. Idle \in JobRow /\ Idle.at = "idle"
    BY DEF Idle, JobRow
  <2>2. JobOK(Idle, today, promise, paid)
    BY <2>1 DEF JobOK
  <2> QED BY <1>2, <2>1, <2>2 DEF Lists
<1>5. OneEach
  BY <1>2 DEF OneEach, Instances
<1> QED BY <1>1, <1>3, <1>4, <1>5 DEF CollInv

\* Every step keeps the tables, the desk, the lists and the marks.
LEMMA CollNextKeeps ==
  CollInv /\ [CollNext]_collVars => CollInv'
<1> SUFFICES ASSUME CollInv, [CollNext]_collVars PROVE CollInv'
  OBVIOUS
<1>1. CASE Elsewhere
  BY <1>1, ElsewhereStep
<1>2. CASE \E c \in Loans, lag \in Backdating, dated \in BOOLEAN :
              \E n \in DOMAIN installments[c] : payInstallment(c, n, lag, dated)
  BY <1>2, PayInstallmentStep
<1>3. CASE \E p \in Promises, amount \in PromiseAmounts, days \in PromiseDays :
              makePromise(p, amount, days)
  BY <1>3, MakePromiseStep
<1>4. CASE \/ \E p \in Promises, status \in StaffDecisions : readPromise(p, status)
           \/ \E x \in deciding : updatePromise(x)
  BY <1>4, DecidingStep
<1>5. CASE \E i \in Instances : startRun(i)
  BY <1>5, StartStep
<1>6. ASSUME NEW j \in Jobs, Step(j) \/ refreshFails(j) \/ failRun(j)
      PROVE  CollInv'
  <2>1. CASE refreshNext(j) \/ refreshFails(j)
    BY <2>1, RefreshNextStep
  <2>2. CASE listCases(j)
    BY <2>2, ListCasesStep
  <2>3. CASE escalateNext(j)
    BY <2>3, EscalateStep
  <2>4. CASE listPromises(j)
    BY <2>4, ListPromisesStep
  <2>5. CASE sumPayments(j)
    BY <2>5, SumPaymentsStep
  <2>6. CASE reconcile(j)
    BY <2>6, ReconcileStep
  <2>7. CASE endRun(j) \/ failRun(j)
    <3>1. job[j] # Idle
      BY <2>7, SomewhereIsBusy DEF endRun, failRun
    <3> QED BY <2>7, <3>1, EndStep DEF endRun, failRun
  <2> QED BY <1>6, <2>1, <2>2, <2>3, <2>4, <2>5, <2>6, <2>7 DEF Step
<1>7. CASE UNCHANGED collVars
  <2>1. UNCHANGED <<vars, paid, promise, deciding, actions, running, job>>
    BY <1>7 DEF collVars, desk, cycle
  <2>2. today \in Nat /\ Tables /\ Desk
    BY DEF CollInv, Tables
  <2>3. Tables' /\ CasesGoOn /\ today' = today
    BY <2>1, <2>2, StillTables
  <2>4. CasesStay /\ today <= today'
    BY <2>2, <2>3 DEF CasesGoOn, CaseGoesOn, CasesStay
  <2>5. Desk' /\ PromisesGoOn
    BY <2>1, <2>2, <2>4, DeskStill DEF Desk
  <2> QED BY <2>1, <2>3, <2>4, <2>5, JobsStill
<1> QED BY <1>1, <1>2, <1>3, <1>4, <1>5, <1>6, <1>7 DEF CollNext

\* Whatever the daily cycle and the other handlers do, in whatever order: the lists the
\* runs work off are behind the tables in the ways JobOK allows and no others, and an
\* instance is marked while one of its runs is under way.
THEOREM CollectionsInvariant == CollSpec => []CollInv
<1>1. CollInit => CollInv
  BY CollInitEstablishes
<1>2. CollInv /\ [CollNext]_collVars => CollInv'
  BY CollNextKeeps
<1> QED BY <1>1, <1>2, PTL DEF CollSpec

\* Rows and lists have their fields, payments are not dated after they are booked, every
\* promise is on a case, and an instance runs at most one cycle: the boolean that the
\* service keeps is a lock, as its finally clears it however a run ends.
THEOREM CollectionsTypeCorrect == CollSpec => []CollTypeOK
<1>1. CollInv => CollTypeOK
  <2> SUFFICES ASSUME CollInv PROVE CollTypeOK
    OBVIOUS
  <2>1. \A n \in DOMAIN paid :
           paid[n].amount \in Nat \ {0} /\ paid[n].paidAt <= paid[n].createdAt
    <3>1. \A n \in DOMAIN paid : paid[n] \in PaymentRow
      BY AmountsOfPayments DEF CollInv, Desk
    <3> QED BY <3>1 DEF CollInv, Desk, PaymentRow
  <2>2. \A p \in Promises : promise[p] # NoPromise =>
           /\ promise[p].status \in {"PENDING"} \cup Decided
           /\ kase[promise[p].c].status # "NONE"
    BY DEF CollInv, Desk, PromiseRow
  <2>3. ASSUME NEW i \in Instances
        PROVE  Cardinality({j \in Jobs : Instance[j] = i /\ job[j] # Idle})
                 = IF running[i] THEN 1 ELSE 0
    <3> DEFINE busy == {j \in Jobs : Instance[j] = i /\ job[j] # Idle}
    <3>1. CASE running[i]
      <4>1. PICK j \in Jobs : Instance[j] = i /\ job[j] # Idle
        BY <3>1 DEF CollInv, OneEach
      <4>2. busy = {j}
        BY <4>1 DEF CollInv, OneEach
      <4> QED BY <3>1, <4>2, FS_Singleton
    <3>2. CASE ~running[i]
      <4>1. busy = {}
        BY <3>2 DEF CollInv, OneEach
      <4> QED BY <3>2, <4>1, FS_EmptySet
    <3> QED BY <3>1, <3>2
  <2>4. actions \in [Contracts -> Nat]
    BY DEF CollInv, Desk
  <2> QED BY <2>1, <2>2, <2>3, <2>4 DEF CollTypeOK
<1> QED BY <1>1, CollectionsInvariant, PTL

-----------------------------------------------------------------------------
(* Promises paid in time *)

\* A reconciliation that breaks a promise has summed too little for it.
LEMMA BrokenWasNotPaid ==
  ASSUME CollInv, CollInv', NEW j \in Jobs, reconcile(j), NEW p \in Promises,
         promise'[p].status = "BROKEN", promise[p].status # "BROKEN"
  PROVE  SumPaid(Fulfilling(p) \ PinnedBefore(p)) < promise[p].amount
<1> DEFINE x == job[j].item
           kept == x.case = "RESOLVED" \/ x.paidWithin >= promise[x.p].amount
           broken == ~kept /\ promise[x.p].promisedDay < job[j].day
<1>1. /\ job[j].at = "reconcile"
      /\ promise' = IF kept THEN [promise EXCEPT ![x.p].status = "KEPT"]
                    ELSE IF broken THEN [promise EXCEPT ![x.p].status = "BROKEN"] ELSE promise
  BY DEF reconcile
<1>2. /\ x \in PromiseItem /\ promise[x.p] # NoPromise
      /\ promise[x.p].promisedDay < job[j].day =>
            TotalOf(paid, InTime(paid, promise[x.p])) <= x.paidWithin
  BY <1>1 DEF CollInv, Lists, JobOK
<1>3. x.p \in Promises /\ x.paidWithin \in Nat /\ promise[x.p] \in PromiseRow
      /\ promise \in [Promises -> PromiseRow \cup {NoPromise}]
  BY <1>2 DEF PromiseItem, CollInv, Desk
<1> HIDE DEF x
<1>4. ~kept /\ broken /\ p = x.p
  <2>1. CASE kept
    <3>1. \A o \in Promises : promise'[o].status = "KEPT" \/ promise'[o] = promise[o]
      BY <1>1, <1>3, <2>1 DEF PromiseRow
    <3> QED BY <3>1
  <2>2. CASE ~kept /\ ~broken
    BY <1>1, <2>2
  <2>3. CASE ~kept /\ broken
    <3>1. \A o \in Promises \ {x.p} : promise'[o] = promise[o]
      BY <1>1, <1>3, <2>3
    <3> QED BY <2>3, <3>1
  <2> QED BY <2>1, <2>2, <2>3
<1>5. TotalOf(paid, InTime(paid, promise[p])) <= x.paidWithin
  BY <1>2, <1>4
<1>6. ~(x.paidWithin >= promise[p].amount)
  BY <1>4
<1>7. TotalOf(paid, InTime(paid, promise[p])) \in Nat /\ promise[p].amount \in Nat
  <2>1. paid \in Seq(PaymentRow)
    BY DEF CollInv, Desk
  <2>2. promise[p].amount \in Nat
    BY <1>3, <1>4 DEF PromiseRow
  <2> QED BY <2>1, <2>2, PaymentTotalNat
<1>8. SumPaid(Fulfilling(p) \ PinnedBefore(p)) = TotalOf(paid, InTime(paid, promise[p]))
  BY SumsArePaid
<1> QED BY <1>3, <1>5, <1>6, <1>7, <1>8

\* Who paid as promised is not called a defaulter: payments, promises, decisions and other
\* runs may come between the sum and the write, and still reconcilePromises breaks no
\* promise that payments booked since it was made, dated on its days and booked by its end
\* cover.  Those of the very day of a promise made in the afternoon are out of the claim
\* if they were given a date, as the code misses them.
THEOREM PromisesPaidLaterHold == CollSpec => PaidLaterIsNotBroken
<1> DEFINE Act == \A p \in Promises :
          job' # job /\ promise'[p].status = "BROKEN" /\ promise[p].status # "BROKEN"
              => SumPaid(Fulfilling(p) \ PinnedBefore(p)) < promise[p].amount
<1>1. CollInv /\ CollInv' /\ [CollNext]_collVars => [Act]_collVars
  <2> SUFFICES ASSUME CollInv, CollInv', CollNext, NEW p \in Promises, job' # job,
                      promise'[p].status = "BROKEN", promise[p].status # "BROKEN"
               PROVE  SumPaid(Fulfilling(p) \ PinnedBefore(p)) < promise[p].amount
    OBVIOUS
  <2>1. promise' # promise
    OBVIOUS
  <2>2. PICK j \in Jobs : reconcile(j)
    BY <2>1 DEF CollNext, Elsewhere, payInstallment, makePromise, readPromise, updatePromise,
       startRun, Step, refreshNext, refreshFails, listCases, escalateNext, listPromises,
       sumPayments, endRun, failRun, End, desk, cycle
  <2> QED BY <2>2, BrokenWasNotPaid
<1> QED BY <1>1, CollectionsInvariant, PTL DEF CollSpec, PaidLaterIsNotBroken

-----------------------------------------------------------------------------
(* The ladder *)

\* All runs are on one instance, as in a deployment of one.
SingleInstance == \A i, j \in Jobs : Instance[i] = Instance[j]

\* The list the ladder works off has a case once, at no lower a stage than it is at.
Ladder ==
    \A j \in Jobs : job[j].at = "ladder" =>
        \A x \in job[j].todo : /\ kase[x.c].dunningStage <= x.stage
                                /\ \A y \in job[j].todo : y.c = x.c => y = x

\* What every step makes of the lists of the ladder but the one that reads such a list.
ListsShrink ==
    \A j \in Jobs : job'[j].at = "ladder" =>
        job[j].at = "ladder" /\ job'[j].todo \subseteq job[j].todo

\* No step but one of the ladder raises the stage of a case.
LEMMA OnlyTheLadderClimbs ==
  ASSUME CollInv, [CollNext]_collVars, \A j \in Jobs : ~escalateNext(j)
  PROVE  CasesGoOn
<1>1. Tables
  BY DEF CollInv
<1>2. CASE Elsewhere
  BY <1>1, <1>2, ElsewhereTables
<1>3. ASSUME NEW c \in Loans, NEW lag \in Backdating, NEW dated \in BOOLEAN,
             NEW n \in DOMAIN installments[c], payInstallment(c, n, lag, dated)
      PROVE  CasesGoOn
  <2>1. settleInstallment(c, n, lag) /\ lag \in Nat /\ c \in Contracts
    BY <1>3, LedgerAssumption DEF payInstallment
  <2> QED BY <1>1, <2>1, SettleTables
<1>4. ASSUME NEW p \in Promises, NEW amount \in PromiseAmounts, NEW days \in PromiseDays,
             makePromise(p, amount, days)
      PROVE  CasesGoOn
  BY <1>1, <1>4, CaseStepsTables DEF makePromise
<1>5. CASE UNCHANGED vars
  BY <1>1, <1>5, StillTables
<1>6. ASSUME NEW j \in Jobs, refreshNext(j)
      PROVE  CasesGoOn
  <2>1. PICK c \in job[j].todo : refreshContract(c) \/ UNCHANGED vars
    BY <1>6 DEF refreshNext
  <2>2. c \in Contracts
    BY <1>6 DEF refreshNext, CollInv, Lists, JobOK
  <2> QED BY <1>1, <2>1, <2>2, RefreshTables, StillTables
<1>7. ASSUME NEW j \in Jobs, reconcile(j)
      PROVE  CasesGoOn
  <2> DEFINE c == promise[job[j].item.p].c
  <2>1. breakPromise(c) \/ UNCHANGED vars
    BY <1>7 DEF reconcile
  <2>2. c \in Contracts
    <3>1. job[j].item \in PromiseItem /\ promise[job[j].item.p] # NoPromise
      BY <1>7 DEF reconcile, CollInv, Lists, JobOK
    <3> QED BY <3>1 DEF PromiseItem, CollInv, Desk, PromiseRow
  <2> HIDE DEF c
  <2> QED BY <1>1, <2>1, <2>2, CaseStepsTables, StillTables
<1>8. CASE /\ ~UNCHANGED vars
           /\ \E j \in Jobs : Step(j) \/ refreshFails(j) \/ failRun(j)
  BY <1>6, <1>7, <1>8 DEF Step, refreshFails, failRun, listCases, listPromises, sumPayments,
     endRun, End
<1>9. CASE \/ \E p \in Promises, status \in StaffDecisions : readPromise(p, status)
           \/ \E x \in deciding : updatePromise(x)
           \/ \E i \in Instances : startRun(i)
           \/ UNCHANGED collVars
  <2>1. UNCHANGED vars
    BY <1>9 DEF readPromise, updatePromise, startRun, collVars
  <2> QED BY <1>5, <2>1
<1> QED BY <1>2, <1>3, <1>4, <1>5, <1>8, <1>9 DEF CollNext

\* A job that goes anywhere but to the ladder.
LEMMA LeavesLadder ==
  ASSUME CollInv, NEW j \in Jobs, NEW r, r.at # "ladder", job' = [job EXCEPT ![j] = r]
  PROVE  ListsShrink
<1>1. job'[j] = r /\ \A k \in Jobs \ {j} : job'[k] = job[k]
  BY DEF CollInv, Lists
<1> QED BY <1>1 DEF ListsShrink

\* No list of the ladder gets longer once it was read.
LEMMA ListsOfTheLadderShrink ==
  ASSUME CollInv, [CollNext]_collVars, \A j \in Jobs : ~listCases(j)
  PROVE  ListsShrink
<1>1. job \in [Jobs -> JobRow]
  BY DEF CollInv, Lists
<1>2. CASE UNCHANGED job
  BY <1>2 DEF ListsShrink
<1>3. ASSUME NEW i \in Instances, startRun(i) PROVE ListsShrink
  <2> DEFINE todo == {c \in Contracts : contract[c].status \in Live}
             r == [Idle EXCEPT !.at = "arrears", !.todo = todo]
             j == CHOOSE k \in IdleJobs(i) : TRUE
  <2>1. j \in Jobs /\ job' = [job EXCEPT ![j] = r]
    BY <1>3 DEF startRun, IdleJobs
  <2> HIDE DEF todo
  <2>2. r.at = "arrears"
    BY DEF Idle
  <2> HIDE DEF r, j
  <2> QED BY <2>1, <2>2, LeavesLadder
<1>4. ASSUME NEW j \in Jobs, NEW x, TakeOff(j, x) PROVE ListsShrink
  <2>1. /\ job'[j].at = job[j].at /\ job'[j].todo = job[j].todo \ {x}
        /\ \A k \in Jobs \ {j} : job'[k] = job[k]
    BY <1>1, <1>4 DEF TakeOff, JobRow
  <2> QED BY <2>1 DEF ListsShrink
<1>5. ASSUME NEW j \in Jobs, Step(j) \/ refreshFails(j) \/ failRun(j) PROVE ListsShrink
  <2>1. CASE refreshNext(j) \/ refreshFails(j) \/ escalateNext(j)
    BY <1>4, <2>1 DEF refreshNext, refreshFails, escalateNext
  <2>2. CASE listPromises(j)
    <3> DEFINE items == {[p |-> p, case |-> kase[promise[p].c].status, paidWithin |-> 0] :
                            p \in {q \in Promises : promise[q].status = "PENDING"}}
               r == [job[j] EXCEPT !.at = "promises", !.day = today, !.todo = items]
    <3>1. job' = [job EXCEPT ![j] = r]
      BY <1>1, <2>2 DEF listPromises
    <3> HIDE DEF items
    <3>2. r.at = "promises"
      BY <1>1 DEF JobRow
    <3> HIDE DEF r
    <3> QED BY <3>1, <3>2, LeavesLadder
  <2>3. CASE sumPayments(j)
    <3>1. PICK x \in job[j].todo :
             job' = [job EXCEPT ![j] = [job[j] EXCEPT !.at = "reconcile", !.todo = job[j].todo \ {x},
                        !.item = [x EXCEPT !.paidWithin = PaidWithin(promise[x.p])]]]
      BY <2>3 DEF sumPayments
    <3> DEFINE item == [x EXCEPT !.paidWithin = PaidWithin(promise[x.p])]
               r == [job[j] EXCEPT !.at = "reconcile", !.todo = job[j].todo \ {x}, !.item = item]
    <3>2. job' = [job EXCEPT ![j] = r]
      BY <3>1
    <3> HIDE DEF item
    <3>3. r.at = "reconcile"
      BY <1>1 DEF JobRow
    <3> HIDE DEF r
    <3> QED BY <3>2, <3>3, LeavesLadder
  <2>4. CASE reconcile(j)
    <3> DEFINE r == [job[j] EXCEPT !.at = "promises", !.item = NoItem]
    <3>1. job' = [job EXCEPT ![j] = r]
      BY <1>1, <2>4 DEF reconcile
    <3>2. r.at = "promises"
      BY <1>1 DEF JobRow
    <3> HIDE DEF r
    <3> QED BY <3>1, <3>2, LeavesLadder
  <2>5. CASE endRun(j) \/ failRun(j)
    <3>1. job' = [job EXCEPT ![j] = Idle] /\ Idle.at # "ladder"
      BY <2>5 DEF endRun, failRun, End, Idle
    <3> QED BY <3>1, LeavesLadder
  <2> QED BY <1>5, <2>1, <2>2, <2>3, <2>4, <2>5 DEF Step
<1>6. CASE \/ Elsewhere
           \/ \E c \in Loans, lag \in Backdating, dated \in BOOLEAN :
                 \E n \in DOMAIN installments[c] : payInstallment(c, n, lag, dated)
           \/ \E p \in Promises, amount \in PromiseAmounts, days \in PromiseDays :
                 makePromise(p, amount, days)
           \/ \E p \in Promises, status \in StaffDecisions : readPromise(p, status)
           \/ \E x \in deciding : updatePromise(x)
           \/ UNCHANGED collVars
  <2>1. UNCHANGED job
    BY <1>6 DEF Elsewhere, payInstallment, makePromise, readPromise, updatePromise, collVars, cycle
  <2> QED BY <1>2, <2>1
<1> QED BY <1>3, <1>5, <1>6 DEF CollNext

\* What the ladder has listed is there, and has a stage.
LEMMA ListedCases ==
  ASSUME CollInv, NEW j \in Jobs, job[j].at = "ladder", NEW x \in job[j].todo
  PROVE  /\ x.c \in Contracts /\ x.stage \in 0..5
         /\ kase[x.c].dunningStage \in 0..5
<1>1. x \in CaseItem
  BY DEF CollInv, Lists, JobOK
<1> QED BY <1>1 DEF CaseItem, CollInv, Tables, CaseRow

\* An item of the ladder is worked off, with its stage written or not.
LEMMA LadderEscalates ==
  ASSUME SingleInstance, CollInv, CollInv', Ladder, NEW j \in Jobs, escalateNext(j)
  PROVE  /\ Ladder'
         /\ \A c \in Contracts :
               /\ actions'[c] # actions[c] => kase'[c].dunningStage > kase[c].dunningStage
               /\ kase'[c].status = kase[c].status
               /\ kase[c].dunningStage <= kase'[c].dunningStage
<1>0. PICK x \in job[j].todo :
         /\ TakeOff(j, x)
         /\ IF dunningStageFor(x.days) <= x.stage THEN UNCHANGED <<vars, actions>>
            ELSE /\ actions' = [actions EXCEPT ![x.c] = @ + 1]
                 /\ kase' = [kase EXCEPT ![x.c].dunningStage = dunningStageFor(x.days)]
  BY DEF escalateNext
<1>1. /\ TakeOff(j, x)
      /\ \/ UNCHANGED <<kase, actions>>
         \/ /\ dunningStageFor(x.days) > x.stage
            /\ actions' = [actions EXCEPT ![x.c] = @ + 1]
            /\ kase' = [kase EXCEPT ![x.c].dunningStage = dunningStageFor(x.days)]
  <2>1. x.stage \in Nat /\ dunningStageFor(x.days) \in Nat
    BY StageType, ListedCases DEF escalateNext
  <2>2. CASE dunningStageFor(x.days) <= x.stage
    BY <1>0, <2>2 DEF vars
  <2>3. CASE ~(dunningStageFor(x.days) <= x.stage)
    <3>1. dunningStageFor(x.days) > x.stage
      BY <2>1, <2>3
    <3> QED BY <1>0, <2>3, <3>1
  <2> QED BY <2>2, <2>3
<1>2. job[j].at = "ladder"
  BY DEF escalateNext
<1>3. /\ x.c \in Contracts /\ x.stage \in 0..5 /\ kase[x.c].dunningStage <= x.stage
      /\ kase[x.c].dunningStage \in 0..5 /\ dunningStageFor(x.days) \in 0..5
      /\ kase \in [Contracts -> CaseRow] /\ actions \in [Contracts -> Nat]
      /\ \A y \in job[j].todo : y.c = x.c => y = x
  BY <1>2, ListedCases, StageType DEF Ladder, CollInv, Tables, Desk
<1>4. \A c \in Contracts : actions'[c] # actions[c] =>
         kase'[c].dunningStage > kase[c].dunningStage
  <2> SUFFICES ASSUME NEW c \in Contracts, actions'[c] # actions[c]
               PROVE  kase'[c].dunningStage > kase[c].dunningStage
    OBVIOUS
  <2>1. c = x.c /\ dunningStageFor(x.days) > x.stage
        /\ kase' = [kase EXCEPT ![x.c].dunningStage = dunningStageFor(x.days)]
    BY <1>1, <1>3
  <2>2. kase'[c].dunningStage = dunningStageFor(x.days)
    BY <1>3, <2>1 DEF CaseRow
  <2> QED BY <1>3, <2>1, <2>2
<1>5. Ladder'
  <2> SUFFICES ASSUME NEW k \in Jobs, job'[k].at = "ladder", NEW y \in job'[k].todo
               PROVE  /\ kase'[y.c].dunningStage <= y.stage
                      /\ \A z \in job'[k].todo : z.c = y.c => z = y
    BY DEF Ladder
  <2>1. /\ job \in [Jobs -> JobRow] /\ job'[j].at = "ladder"
        /\ job'[j].todo = job[j].todo \ {x}
    BY <1>1, <1>2 DEF TakeOff, CollInv, Lists, JobRow
  <2>2. k = j
    <3>1. job'[k] # Idle /\ job'[j] # Idle
      BY <2>1 DEF Idle
    <3> QED BY <3>1 DEF SingleInstance, CollInv, OneEach
  <2>3. y \in job[j].todo /\ y.c # x.c
    BY <1>3, <2>1, <2>2
  <2>4. y.c \in Contracts /\ kase'[y.c] = kase[y.c]
    BY <1>1, <1>2, <1>3, <2>3, ListedCases
  <2> QED BY <1>2, <2>1, <2>2, <2>3, <2>4 DEF Ladder
<1>6. ASSUME NEW c \in Contracts
      PROVE  /\ kase'[c].status = kase[c].status
             /\ kase[c].dunningStage <= kase'[c].dunningStage
  <2>1. kase[c] \in CaseRow /\ kase[c].dunningStage \in 0..5
    BY DEF CollInv, Tables, CaseRow
  <2>2. CASE kase'[c] = kase[c]
    BY <2>1, <2>2
  <2>3. CASE kase'[c] # kase[c]
    <3>1. c = x.c /\ dunningStageFor(x.days) > x.stage
          /\ kase' = [kase EXCEPT ![x.c].dunningStage = dunningStageFor(x.days)]
      BY <1>1, <1>3, <2>3
    <3>2. kase'[c] = [kase[c] EXCEPT !.dunningStage = dunningStageFor(x.days)]
      BY <1>3, <3>1
    <3>3. kase'[c].status = kase[c].status /\ kase'[c].dunningStage = dunningStageFor(x.days)
      BY <2>1, <3>2 DEF CaseRow
    <3> QED BY <1>3, <3>1, <3>3
  <2> QED BY <2>2, <2>3
<1> QED BY <1>4, <1>5, <1>6

\* The list of cases is at the stages the cases are at.
LEMMA LadderListed ==
  ASSUME CollInv, CollInv', Ladder, NEW j \in Jobs, listCases(j)
  PROVE  Ladder'
<1> DEFINE listed == {d \in Contracts : kase[d].status \notin {"NONE", "RESOLVED", "WRITTEN_OFF"}
                                         /\ kase[d].daysOverdue > 0}
           cases == {[c |-> c, days |-> kase[c].daysOverdue, stage |-> kase[c].dunningStage] :
                        c \in listed}
           r == [job[j] EXCEPT !.at = "ladder", !.todo = cases]
<1>1. job' = [job EXCEPT ![j] = r] /\ kase' = kase /\ job \in [Jobs -> JobRow]
  BY DEF listCases, Proceed, vars, CollInv, Lists
<1>2. listed \subseteq Contracts
  OBVIOUS
<1> HIDE DEF listed
<1>3. \A c \in Contracts : kase[c].dunningStage \in 0..5
  BY DEF CollInv, Tables, CaseRow
<1>4. \A x \in cases : /\ kase'[x.c].dunningStage <= x.stage
                       /\ \A y \in cases : y.c = x.c => y = x
  <2>1. ASSUME NEW c \in listed
        PROVE  LET x == [c |-> c, days |-> kase[c].daysOverdue, stage |-> kase[c].dunningStage]
               IN  kase'[x.c].dunningStage <= x.stage
    <3>1. kase'[c].dunningStage = kase[c].dunningStage /\ kase[c].dunningStage \in 0..5
      BY <1>1, <1>2, <1>3
    <3> QED BY <3>1
  <2>2. \A x \in cases : kase'[x.c].dunningStage <= x.stage
    BY <2>1
  <2>3. \A x \in cases :
           x = [c |-> x.c, days |-> kase[x.c].daysOverdue, stage |-> kase[x.c].dunningStage]
    OBVIOUS
  <2>4. ASSUME NEW x \in cases, NEW y \in cases, y.c = x.c PROVE y = x
    BY <2>3, <2>4
  <2> QED BY <2>2, <2>4
<1> HIDE DEF cases
<1>5. job'[j].todo = cases /\ \A k \in Jobs \ {j} : job'[k] = job[k]
  BY <1>1 DEF JobRow
<1> HIDE DEF r
<1> QED BY <1>1, <1>4, <1>5 DEF Ladder

\* With one instance, no step brings a case above the stage that is listed for it.
LEMMA LadderKept ==
  ASSUME SingleInstance, CollInv, CollInv', Ladder, [CollNext]_collVars
  PROVE  /\ Ladder'
         /\ [\A c \in Contracts : actions'[c] # actions[c] =>
                kase'[c].dunningStage > kase[c].dunningStage]_collVars
<1>1. CASE \E j \in Jobs : escalateNext(j)
  BY <1>1, LadderEscalates
<1>2. CASE \E j \in Jobs : listCases(j)
  <2>1. actions' = actions
    BY <1>2 DEF listCases
  <2> QED BY <1>2, <2>1, LadderListed
<1>3. CASE \A j \in Jobs : ~escalateNext(j) /\ ~listCases(j)
  <2>1. CasesGoOn /\ ListsShrink
    BY <1>3, OnlyTheLadderClimbs, ListsOfTheLadderShrink
  <2>2. Ladder'
    <3> SUFFICES ASSUME NEW j \in Jobs, job'[j].at = "ladder", NEW x \in job'[j].todo
                 PROVE  /\ kase'[x.c].dunningStage <= x.stage
                        /\ \A y \in job'[j].todo : y.c = x.c => y = x
      BY DEF Ladder
    <3>1. job[j].at = "ladder" /\ job'[j].todo \subseteq job[j].todo
      BY <2>1 DEF ListsShrink
    <3>2. /\ x.c \in Contracts /\ x.stage \in 0..5 /\ kase[x.c].dunningStage \in 0..5
          /\ kase[x.c].dunningStage <= x.stage
          /\ \A y \in job[j].todo : y.c = x.c => y = x
      BY <3>1, ListedCases DEF Ladder
    <3>3. kase'[x.c].dunningStage <= kase[x.c].dunningStage
      BY <2>1, <3>2 DEF CasesGoOn, CaseGoesOn
    <3>4. kase'[x.c].dunningStage \in 0..5
      BY <3>2 DEF CollInv, Tables, CaseRow
    <3> QED BY <3>1, <3>2, <3>3, <3>4
  <2>3. actions' = actions
    BY <1>3 DEF CollNext, Elsewhere, payInstallment, makePromise, readPromise, updatePromise,
       startRun, Step, refreshNext, refreshFails, listPromises, sumPayments, reconcile, endRun,
       failRun, End, collVars
  <2> QED BY <2>2, <2>3
<1> QED BY <1>1, <1>2, <1>3

\* "dunningStage makes this idempotent, each stage fires at most once": as long as all runs
\* are on one instance, an action is only generated for a stage above the one its case is
\* at, although the list of cases is stale while it is worked off.  On two instances the
\* boolean is no lock any more: both may have listed the case.
THEOREM DunningFiresOnce == SingleInstance => (CollSpec => EscalatesOnce)
<1> SUFFICES ASSUME SingleInstance PROVE CollSpec => EscalatesOnce
  OBVIOUS
<1> DEFINE Act == \A c \in Contracts : actions'[c] # actions[c] =>
                     kase'[c].dunningStage > kase[c].dunningStage
<1>1. CollInit => Ladder
  BY DEF CollInit, Idle, Ladder
<1>2. Ladder /\ CollInv /\ CollInv' /\ [CollNext]_collVars => Ladder' /\ [Act]_collVars
  BY LadderKept
<1> HIDE DEF Act
<1>3. CollSpec => [][Act]_collVars
  BY <1>1, <1>2, CollectionsInvariant, PTL DEF CollSpec
<1> QED BY <1>3 DEF Act, EscalatesOnce

\* A step of one instance resolves a case with its stage, and lowers no stage otherwise.
LEMMA ResolvingRestarts ==
  ASSUME SingleInstance, CollInv, CollInv', Ladder, [CollNext]_collVars, NEW c \in Contracts
  PROVE  /\ kase'[c].status = "RESOLVED" /\ kase[c].status # "RESOLVED" =>
               kase'[c].dunningStage = 0
         /\ kase'[c].dunningStage < kase[c].dunningStage =>
               kase'[c].status = "RESOLVED" /\ kase'[c].dunningStage = 0
<1>1. CASE \E j \in Jobs : escalateNext(j)
  <2>1. /\ kase'[c].status = kase[c].status
        /\ kase[c].dunningStage <= kase'[c].dunningStage
    BY <1>1, LadderEscalates
  <2>2. kase[c].dunningStage \in 0..5 /\ kase'[c].dunningStage \in 0..5
    BY DEF CollInv, Tables, CaseRow
  <2> QED BY <2>1, <2>2
<1>2. CASE \A j \in Jobs : ~escalateNext(j)
  BY <1>2, OnlyTheLadderClimbs DEF CasesGoOn, CaseGoesOn
<1> QED BY <1>1, <1>2

\* "if this contract ever falls overdue again the dunning ladder restarts from stage 1": as
\* long as all runs are on one instance, whoever resolves a case - a payment, the refresh,
\* a renegotiation or staff, in the midst of a run or not - clears its stage, and the stage
\* comes down in no other way.  It does not say that the stage stays cleared: a list read
\* before the case was resolved may still raise it.
THEOREM ResolvedCasesRestart == SingleInstance => (CollSpec => ResolvingRestartsLadder)
<1> SUFFICES ASSUME SingleInstance PROVE CollSpec => ResolvingRestartsLadder
  OBVIOUS
<1> DEFINE Act == \A c \in Contracts :
          /\ kase'[c].status = "RESOLVED" /\ kase[c].status # "RESOLVED" =>
                kase'[c].dunningStage = 0
          /\ kase'[c].dunningStage < kase[c].dunningStage =>
                kase'[c].status = "RESOLVED" /\ kase'[c].dunningStage = 0
<1>1. CollInit => Ladder
  BY DEF CollInit, Idle, Ladder
<1>2. Ladder /\ CollInv /\ CollInv' /\ [CollNext]_collVars => Ladder' /\ [Act]_collVars
  BY LadderKept, ResolvingRestarts
<1> HIDE DEF Act
<1>3. CollSpec => [][Act]_collVars
  BY <1>1, <1>2, CollectionsInvariant, PTL DEF CollSpec
<1> QED BY <1>3 DEF Act, ResolvingRestartsLadder
=============================================================================
