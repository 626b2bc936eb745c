-------------------------- MODULE ContractTxProofs --------------------------
(***************************************************************************)
(* What holds of the interleaved transactions of ContractTx for any number *)
(* of clients and of replicas of the batch, whatever they do to each other *)
(* and whichever of them dies.                                             *)
(*                                                                         *)
(* TInv is inductive.  TablesOK speaks of the committed tables.  Of each   *)
(* open transaction, ControlOK says where it stands, LocksOK that it holds *)
(* or waits for the rows its next statement writes and only wrote rows it  *)
(* holds, WritesOK that what it wrote fits the committed rows beneath it:  *)
(* since nobody else can lock those, a commit puts down rows that are      *)
(* still right (CommitStep), and nobody's written rows change (TxFrame).   *)
(* A statement is shown to keep TInv by rebuilding its own transaction     *)
(* (MoveStep).  The second half shows that the transactions implement the  *)
(* steps of ContractLedger.                                                *)
(***************************************************************************)
EXTENDS ContractTx, ContractLedgerProofs

-----------------------------------------------------------------------------
(* The invariant of the interleaved transactions *)

LockRow == ({"contract"} \X Contracts) \cup ({"case"} \X Contracts)
              \cup ({"installment"} \X Contracts \X Nat)

RegisterStages == {"lockInstallment", "allocate", "recompute", "writeStatus", "readContract",
                   "readInstallments", "flag", "writeCase", "commit"}
RenegotiateStages == {"lockInstallments", "consolidate", "closeCase", "commit"}
TxStages == RegisterStages \cup RenegotiateStages
               \cup {"begin", "countPayments", "cancelInstallments", "writeStage"}

Tx == [next : TxStages, then : TxStages, c : Contracts \cup {None}, n : Nat, pay : Nat,
       lag : Backdating \cup {0}, new : Contracts \cup {None},
       term : Terms \cup {[termMonths |-> 0, firstDueIn |-> 0]},
       held : SUBSET LockRow, want : SUBSET LockRow, written : SUBSET LockRow,
       status : ContractStatus \cup {"NONE"}, rows : Seq(Installment), kase : CaseRow,
       days : Nat, overdue : SUBSET Nat, oldStatus : ContractStatus \cup {"NONE"},
       oldCase : CaseRow]

JobRow == [phase : {"idle", "refresh", "dunning"}, todo : SUBSET (Contracts \cup (Contracts \X (0..5)))]

\* The committed tables, whatever the batch does to the statuses and the cases.
TablesOK ==
    /\ today \in Nat
    /\ contract \in [Contracts -> [status : ContractStatus \cup {"NONE"},
                                   renegotiatedFrom : Contracts \cup {None}]]
    /\ installments \in [Contracts -> Seq(Installment)]
    /\ received \in [Contracts -> Seq(Nat)]
    /\ kase \in [Contracts -> CaseRow]
    /\ \A c \in Contracts :
          /\ RowsOK(installments[c], received[c])
          /\ contract[c].status = "NONE" => installments[c] = <<>>
          /\ kase[c].status # "NONE" => contract[c].status # "NONE"

\* Where a transaction stands and what it carries there.
ControlOK(t) ==
    /\ t.next = "begin" => t = Idle
    /\ t.next # "begin" => t.c \in Contracts
    /\ t.next \in {"lockInstallments", "consolidate", "closeCase"} => t.new # None
    /\ t.next \in {"lockInstallment", "allocate", "recompute"} => t.n # 0
    /\ t.next \in {"lockInstallment", "allocate"} => t.written = {}
    /\ t.n # 0 => /\ t.lag \in Backdating /\ t.pay > 0 /\ t.new = None
                  /\ t.next \in RegisterStages
    /\ t.new # None => /\ t.term \in Terms /\ t.new # t.c
                       /\ t.next \in RenegotiateStages
    /\ t.next = "writeStatus" => /\ t.then \in {"readContract", "commit"}
                                 /\ t.status \in ContractStatus
    /\ ContractRow(t.c) \in t.written => t.status \in ContractStatus
    /\ CaseRowOf(t.c) \in t.written => t.kase.status # "NONE"
    /\ t.next \in {"readInstallments", "flag", "writeCase"} => t.oldStatus \in Live
    /\ t.next = "writeStage" => t.days \in 0..5

\* The rows a statement writes are locked, or it is still waiting for them.
LocksOK(t, rows) ==
    LET own == t.held \cup t.want IN
    /\ t.written \subseteq t.held
    /\ t.held \cap t.want = {}
    /\ t.next = "allocate" => InstallmentRow(t.c, t.n) \in own
    /\ t.next = "writeStatus" => ContractRow(t.c) \in own
    /\ t.next = "flag" => InstallmentRows(t.c, t.overdue) \subseteq own
    /\ t.next = "writeCase" /\ ~(t.days = 0 /\ NothingToResolve(t.oldCase))
          => CaseRowOf(t.c) \in own
    /\ t.next \in {"lockInstallments", "consolidate", "countPayments"} => ContractRow(t.c) \in own
    /\ t.next \in {"consolidate", "cancelInstallments"}
          => InstallmentRows(t.c, DOMAIN rows) \subseteq own
    /\ t.next = "writeStage" => CaseRowOf(t.c) \in own

\* What a transaction wrote on the installments of its contract, given their committed
\* rows and sums.
PaidOn(t, n) == IF n = t.n THEN t.pay ELSE 0
RowWrittenOK(t, n, i, r) ==
    /\ RowOK(t.rows[n], r + PaidOn(t, n))
    /\ IsOpen(i) \/ t.rows[n].status = "CANCELLED"
    /\ n = t.n => TotalOutstanding(i, today - t.lag)
                    - TotalOutstanding(t.rows[n], today - t.lag) = t.pay
WritesOK(t, rows, sums) ==
    /\ \A n \in DOMAIN rows : InstallmentRow(t.c, n) \in t.written
                                => RowWrittenOK(t, n, rows[n], sums[n])
    /\ t.n # 0 /\ t.next \notin {"lockInstallment", "allocate"}
          => InstallmentRow(t.c, t.n) \in t.written

OpenTxOK(t) ==
    /\ contract[t.c].status # "NONE"
    /\ t.n \in DOMAIN installments[t.c] \cup {0}
    /\ t.new # None => contract[t.new].status = "NONE"
    /\ t.new # None /\ t.next \in {"closeCase", "commit"} => today + t.term.firstDueIn \in Nat
    /\ t.next = "writeStage" => kase[t.c].status # "NONE"
    /\ LocksOK(t, installments[t.c])
    /\ WritesOK(t, installments[t.c], received[t.c])

TxOK(t) == ControlOK(t) /\ (t.next # "begin" => OpenTxOK(t))

JobOK(j) ==
    /\ j.phase = "refresh" => \A c \in j.todo : c \in Contracts /\ contract[c].status # "NONE"
    /\ j.phase = "dunning" => \A e \in j.todo : /\ e \in Contracts \X (0..5)
                                                /\ kase[e[1]].status # "NONE"

TInv ==
    /\ TablesOK
    /\ tx \in [Procs -> Tx]
    /\ job \in [Batch -> JobRow]
    /\ \A p \in Procs : TxOK(tx[p])
    /\ \A p, q \in Procs : p # q => /\ tx[p].held \cap tx[q].held = {}
                                    /\ tx[p].new # None => tx[p].new # tx[q].new
    /\ \A b \in Batch : JobOK(job[b])

-----------------------------------------------------------------------------
(* Rows, records and moves *)

\* The names of rows: each is a LockRow, and different rows have different names.
LEMMA RowNames ==
  ASSUME NEW c \in Contracts
  PROVE  /\ ContractRow(c) \in LockRow /\ CaseRowOf(c) \in LockRow
         /\ \A n \in Nat : InstallmentRow(c, n) \in LockRow
         /\ ContractRow(c) # CaseRowOf(c)
         /\ \A n \in Nat : /\ InstallmentRow(c, n) # ContractRow(c)
                           /\ InstallmentRow(c, n) # CaseRowOf(c)
         /\ \A m, n \in Nat : InstallmentRow(c, m) = InstallmentRow(c, n) => m = n
BY DEF ContractRow, CaseRowOf, InstallmentRow, LockRow

\* What an installment owes on a day is a number of cents.
LEMMA TotalNat ==
  ASSUME NEW i \in Installment, NEW day \in Int
  PROVE  TotalOutstanding(i, day) \in Nat
<1>1. DaysLate(i, day) \in Nat
  BY DEF DaysLate, NonNeg, Installment
<1>2. computeOutstanding(i, DaysLate(i, day)) \in [base : Nat, fine : Nat, interest : Nat]
  BY <1>1, OutstandingNat
<1> QED BY <1>2 DEF TotalOutstanding

\* A transaction that has not begun satisfies everything.
LEMMA IdleOK ==
  Idle \in Tx /\ TxOK(Idle)
<1>1. NoCase \in CaseRow
  BY DEF NoCase, CaseRow
<1>2. <<>> \in Seq(Installment)
  OBVIOUS
<1>3. Idle \in Tx
  BY <1>1, <1>2 DEF Idle, Tx, TxStages, RegisterStages, RenegotiateStages
<1>4. Idle.next = "begin" /\ Idle.n = 0 /\ Idle.new = None /\ Idle.written = {}
  BY DEF Idle
<1>5. ControlOK(Idle)
  BY <1>4 DEF ControlOK
<1> QED BY <1>3, <1>4, <1>5 DEF TxOK

\* The record a transaction w goes on with.
Onward(w, next, rows) == [w EXCEPT !.next = next, !.want = rows \ w.held]

\* It is a transaction again, and differs in these two fields only.
LEMMA OnwardFields ==
  ASSUME NEW w \in Tx, NEW next \in TxStages, NEW rows, rows \subseteq LockRow
  PROVE  LET u == Onward(w, next, rows) IN
         /\ u \in Tx /\ u.next = next /\ u.want = rows \ w.held
         /\ u.then = w.then /\ u.c = w.c /\ u.n = w.n /\ u.pay = w.pay /\ u.lag = w.lag
         /\ u.new = w.new /\ u.term = w.term /\ u.held = w.held /\ u.written = w.written
         /\ u.status = w.status /\ u.rows = w.rows /\ u.kase = w.kase /\ u.days = w.days
         /\ u.overdue = w.overdue /\ u.oldStatus = w.oldStatus /\ u.oldCase = w.oldCase
<1> DEFINE want == rows \ w.held
<1>1. want \in SUBSET LockRow
  OBVIOUS
<1>2. Onward(w, next, rows) = [w EXCEPT !.next = next, !.want = want]
  BY DEF Onward
<1> HIDE DEF want
<1>3. LET u == Onward(w, next, rows) IN
      /\ u \in Tx /\ u.next = next /\ u.want = want
      /\ u.then = w.then /\ u.c = w.c /\ u.n = w.n /\ u.pay = w.pay /\ u.lag = w.lag
      /\ u.new = w.new /\ u.term = w.term /\ u.held = w.held /\ u.written = w.written
      /\ u.status = w.status /\ u.rows = w.rows /\ u.kase = w.kase /\ u.days = w.days
      /\ u.overdue = w.overdue /\ u.oldStatus = w.oldStatus /\ u.oldCase = w.oldCase
  BY <1>1, <1>2 DEF Tx
<1> QED BY <1>3 DEF want

\* A step of p alone, that leaves the tables as they are.
LEMMA OwnStep ==
  ASSUME TInv, NEW p \in Procs, NEW u \in Tx, tx' = [tx EXCEPT ![p] = u],
         UNCHANGED Committed, TxOK(u),
         \A q \in Procs \ {p} : /\ u.held \cap tx[q].held = {}
                                /\ u.new # None => tx[q].new # u.new,
         job' \in [Batch -> JobRow], \A b \in Batch : JobOK(job'[b])
  PROVE  TInv'
<1>1. /\ today' = today /\ contract' = contract /\ installments' = installments
      /\ received' = received /\ kase' = kase
  BY DEF Committed
<1>2. tx \in [Procs -> Tx] /\ \A q \in Procs : TxOK(tx[q])
  BY DEF TInv
<1>3. tx' \in [Procs -> Tx] /\ tx'[p] = u /\ \A q \in Procs \ {p} : tx'[q] = tx[q]
  BY <1>2
<1>4. TablesOK'
  BY <1>1 DEF TInv, TablesOK
<1>5. ASSUME NEW q \in Procs PROVE TxOK(tx[q])'
  <2>1. TxOK(tx'[q])
    BY <1>2, <1>3
  <2> QED BY <2>1, <1>1 DEF TxOK, OpenTxOK, LocksOK, WritesOK, RowWrittenOK, ControlOK
<1>6. ASSUME NEW q \in Procs, NEW r \in Procs, q # r
      PROVE  /\ tx'[q].held \cap tx'[r].held = {}
             /\ tx'[q].new # None => tx'[q].new # tx'[r].new
  BY <1>3, <1>6 DEF TInv
<1>7. ASSUME NEW b \in Batch PROVE JobOK(job[b])'
  <2>1. JobOK(job'[b])
    OBVIOUS
  <2> QED BY <2>1, <1>1 DEF JobOK
<1> QED BY <1>3, <1>4, <1>5, <1>6, <1>7 DEF TInv

\* A statement of p, which keeps its locks and goes on with `next`.
LEMMA MoveStep ==
  ASSUME TInv, NEW p \in Procs, NEW w \in Tx, NEW next \in TxStages,
         NEW rows, rows \subseteq LockRow, Goto(p, w, next, rows), job' = job,
         w.held = tx[p].held, w.new = tx[p].new, TxOK(Onward(w, next, rows))
  PROVE  TInv'
<1> DEFINE u == Onward(w, next, rows)
<1>1. tx' = [tx EXCEPT ![p] = u] /\ UNCHANGED Committed
  BY DEF Goto, Onward
<1>2. u \in Tx /\ u.held = tx[p].held /\ u.new = tx[p].new
  BY OnwardFields
<1> HIDE DEF u
<1>3. \A q \in Procs \ {p} : /\ u.held \cap tx[q].held = {}
                             /\ u.new # None => tx[q].new # u.new
  BY <1>2 DEF TInv
<1>4. job' \in [Batch -> JobRow] /\ \A b \in Batch : JobOK(job'[b])
  BY DEF TInv
<1> QED BY <1>1, <1>2, <1>3, <1>4, OwnStep DEF u

\* What is known of the transaction of p while it is open.
LEMMA OpenFacts ==
  ASSUME TInv, NEW p \in Procs, tx[p].next # "begin"
  PROVE  LET t == tx[p] IN
         /\ t \in Tx /\ ControlOK(t) /\ OpenTxOK(t) /\ t.c \in Contracts
         /\ installments[t.c] \in Seq(Installment) /\ received[t.c] \in Seq(Nat)
         /\ DOMAIN installments[t.c] \subseteq Nat \ {0}
         /\ DOMAIN received[t.c] = DOMAIN installments[t.c]
         /\ \A n \in DOMAIN installments[t.c] :
               RowOK(installments[t.c][n], received[t.c][n])
         /\ today \in Nat
         /\ contract[t.c].status \in ContractStatus /\ kase[t.c] \in CaseRow
<1> DEFINE t == tx[p]
<1>1. t \in Tx /\ ControlOK(t) /\ OpenTxOK(t) /\ t.c \in Contracts
  BY DEF TInv, TxOK, ControlOK
<1>2. RowsOK(installments[t.c], received[t.c]) /\ today \in Nat /\ kase[t.c] \in CaseRow
  BY <1>1 DEF TInv, TablesOK
<1>3. DOMAIN installments[t.c] = 1..Len(installments[t.c])
      /\ DOMAIN received[t.c] = DOMAIN installments[t.c]
      /\ Len(installments[t.c]) \in Nat
  BY <1>2, SeqIsFunction DEF RowsOK
<1>4. contract[t.c].status \in ContractStatus
  BY <1>1 DEF TInv, TablesOK, OpenTxOK
<1> QED BY <1>1, <1>2, <1>3, <1>4 DEF RowsOK

\* What was written stays as it was when nothing more is.
LEMMA SameWrites ==
  ASSUME NEW t, NEW u, NEW rows, NEW sums, WritesOK(t, rows, sums),
         u.c = t.c, u.n = t.n, u.pay = t.pay, u.lag = t.lag, u.rows = t.rows,
         DOMAIN rows \subseteq Nat, t.n \in Nat,
         \A n \in Nat : InstallmentRow(t.c, n) \in u.written
                           <=> InstallmentRow(t.c, n) \in t.written,
         u.next \in {"lockInstallment", "allocate"} \/ t.next \notin {"lockInstallment", "allocate"}
  PROVE  WritesOK(u, rows, sums)
BY DEF WritesOK, RowWrittenOK, PaidOn

\* lockInstallment waits for the installment the payment is for.
LEMMA LockInstallmentStep ==
  ASSUME TInv, NEW p \in Procs, lockInstallment(p)
  PROVE  TInv'
<1> DEFINE t == tx[p]
           rows == {InstallmentRow(t.c, t.n)}
           u == Onward(t, "allocate", rows)
<1>1. t.next = "lockInstallment" /\ t.want = {} /\ Goto(p, t, "allocate", rows) /\ job' = job
  BY DEF lockInstallment, At, Waiting
<1>2. /\ t \in Tx /\ ControlOK(t) /\ OpenTxOK(t) /\ t.c \in Contracts /\ t.n \in Nat
      /\ DOMAIN installments[t.c] \subseteq Nat
  BY <1>1, OpenFacts DEF Tx
<1>3. rows \subseteq LockRow /\ "allocate" \in TxStages
  BY <1>2, RowNames DEF TxStages, RegisterStages
<1>4. /\ u.next = "allocate" /\ u.want = rows \ t.held
      /\ u.c = t.c /\ u.n = t.n /\ u.pay = t.pay /\ u.lag = t.lag /\ u.new = t.new
      /\ u.held = t.held /\ u.written = t.written /\ u.status = t.status
      /\ u.rows = t.rows /\ u.kase = t.kase
  BY <1>2, <1>3, OnwardFields
<1> HIDE DEF u
<1>5. ControlOK(u)
  BY <1>1, <1>2, <1>4 DEF ControlOK, RegisterStages
<1>6. LocksOK(u, installments[u.c])
  BY <1>1, <1>2, <1>4 DEF LocksOK, OpenTxOK
<1>7. WritesOK(u, installments[u.c], received[u.c])
  BY <1>1, <1>2, <1>4, SameWrites DEF OpenTxOK
<1>8. OpenTxOK(u)
  BY <1>1, <1>2, <1>4, <1>6, <1>7 DEF OpenTxOK, ControlOK
<1> QED
  BY <1>1, <1>2, <1>3, <1>5, <1>8, MoveStep DEF TxOK, u

\* What a transaction sees of the installments once its payment, if any, is written:
\* rows that are right for the sums it will commit.
LEMMA SeenRowsOK ==
  ASSUME TInv, NEW p \in Procs, tx[p].next \notin {"begin", "lockInstallment", "allocate"}
  PROVE  LET t == tx[p] IN
         /\ SeenRows(p) \in Seq(Installment)
         /\ Len(SeenRows(p)) = Len(installments[t.c])
         /\ DOMAIN SeenRows(p) = DOMAIN installments[t.c]
         /\ \A n \in DOMAIN installments[t.c] :
               /\ RowOK(SeenRows(p)[n], received[t.c][n] + PaidOn(t, n))
               /\ InstallmentRow(t.c, n) \in t.written
                     => SeenRows(p)[n] = t.rows[n]
                        /\ RowWrittenOK(t, n, installments[t.c][n], received[t.c][n])
               /\ InstallmentRow(t.c, n) \notin t.written
                     => SeenRows(p)[n] = installments[t.c][n] /\ n # t.n
<1> DEFINE t == tx[p]
           rows == installments[t.c]
           sums == received[t.c]
           seen == SeenRows(p)
<1>1. /\ t \in Tx /\ OpenTxOK(t) /\ t.c \in Contracts
      /\ rows \in Seq(Installment) /\ DOMAIN rows \subseteq Nat \ {0}
      /\ DOMAIN sums = DOMAIN rows /\ sums \in Seq(Nat)
      /\ \A n \in DOMAIN rows : RowOK(rows[n], sums[n])
  BY OpenFacts
<1>2. seen = [n \in DOMAIN rows |-> IF InstallmentRow(t.c, n) \in t.written
                                     THEN t.rows[n] ELSE rows[n]]
  BY DEF SeenRows
<1> HIDE DEF seen
<1>3. ASSUME NEW n \in DOMAIN rows
      PROVE  /\ RowOK(seen[n], sums[n] + PaidOn(t, n))
             /\ InstallmentRow(t.c, n) \in t.written
                   => seen[n] = t.rows[n] /\ RowWrittenOK(t, n, rows[n], sums[n])
             /\ InstallmentRow(t.c, n) \notin t.written => seen[n] = rows[n] /\ n # t.n
  <2>1. CASE InstallmentRow(t.c, n) \in t.written
    <3>1. seen[n] = t.rows[n] /\ RowWrittenOK(t, n, rows[n], sums[n])
      BY <1>1, <1>2, <2>1 DEF OpenTxOK, WritesOK
    <3> QED BY <2>1, <3>1 DEF RowWrittenOK
  <2>2. CASE InstallmentRow(t.c, n) \notin t.written
    <3>1. n # t.n
      BY <1>1, <2>2 DEF OpenTxOK, WritesOK
    <3>2. seen[n] = rows[n] /\ RowOK(rows[n], sums[n])
      BY <1>1, <1>2, <2>2
    <3>3. sums[n] + PaidOn(t, n) = sums[n]
      BY <3>1, <3>2 DEF PaidOn, RowOK
    <3> QED BY <2>2, <3>1, <3>2, <3>3
  <2> QED BY <2>1, <2>2
<1>4. seen \in Seq(Installment) /\ Len(seen) = Len(rows) /\ DOMAIN seen = DOMAIN rows
  <2>1. Len(rows) \in Nat /\ DOMAIN rows = 1..Len(rows)
    BY <1>1, SeqIsFunction
  <2>2. \A n \in DOMAIN rows : seen[n] \in Installment
    BY <1>3 DEF RowOK
  <2>3. seen \in [1..Len(rows) -> Installment]
    BY <1>2, <2>1, <2>2
  <2> QED BY <2>1, <2>3, FunctionIsSeq
<1> QED BY <1>3, <1>4 DEF seen

\* allocate: the payment is written on the installment it read under its lock.
LEMMA AllocateStep ==
  ASSUME TInv, NEW p \in Procs, allocate(p)
  PROVE  TInv' \/ (Rollback(p) /\ job' = job)
<1> DEFINE t == tx[p]
           c == t.c
           n == t.n
           day == today - t.lag
           rows == installments[c]
           sums == received[c]
           row == InstallmentRow(c, n)
           new == [rows EXCEPT ![n] = AfterPayment(rows[n], t.pay, day)]
           w == [t EXCEPT !.written = @ \cup {row}, !.rows = new]
           u == Onward(w, "recompute", {})
<1> SUFFICES ASSUME IsOpen(rows[n]), t.pay <= TotalOutstanding(rows[n], day),
                    Goto(p, w, "recompute", {}), job' = job
             PROVE  TInv'
  BY DEF allocate
<1>1. t.next = "allocate" /\ t.want = {}
  BY DEF allocate, At, Waiting
<1>2. /\ t \in Tx /\ ControlOK(t) /\ OpenTxOK(t) /\ c \in Contracts
      /\ rows \in Seq(Installment) /\ DOMAIN rows \subseteq Nat \ {0}
      /\ DOMAIN sums = DOMAIN rows /\ today \in Nat
      /\ \A m \in DOMAIN rows : RowOK(rows[m], sums[m])
  BY <1>1, OpenFacts
<1>3. /\ n \in DOMAIN rows /\ n \in Nat /\ t.lag \in Nat /\ t.pay \in Nat \ {0} /\ day \in Int
      /\ t.written = {} /\ row \in t.held
  BY <1>1, <1>2, LedgerAssumption DEF ControlOK, OpenTxOK, LocksOK, Tx
<1>4. RowOK(rows[n], sums[n]) /\ rows[n] \in Installment /\ rows[n].amountPaid <= rows[n].amountDue
  BY <1>2, <1>3 DEF RowOK
<1> DEFINE i == rows[n]
           j == AfterPayment(i, t.pay, day)
<1> HIDE DEF day
<1>5. RowOK(j, sums[n] + t.pay) /\ j \in Installment
  <2>1. RowOK(j, sums[n] + t.pay)
    BY <1>3, <1>4, PaymentKeepsRow
  <2> QED BY <2>1 DEF RowOK
<1>6. TotalOutstanding(i, day) - TotalOutstanding(j, day) = t.pay
  <2>1. TotalOutstanding(j, day) = TotalOutstanding(i, day) - t.pay
    BY <1>3, <1>4, PaymentReducesDebtExactly
  <2>2. TotalOutstanding(i, day) \in Nat
    BY <1>3, <1>4, TotalNat
  <2> QED BY <1>3, <2>1, <2>2
<1>7. new \in Seq(Installment) /\ new[n] = j
  <2>1. Len(rows) \in Nat /\ DOMAIN rows = 1..Len(rows) /\ rows \in [1..Len(rows) -> Installment]
    BY <1>2, SeqIsFunction
  <2> HIDE DEF j
  <2>2. new = [rows EXCEPT ![n] = j]
    BY DEF j
  <2>3. new \in [1..Len(rows) -> Installment] /\ new[n] = j
    BY <1>3, <1>5, <2>1, <2>2
  <2> QED BY <2>1, <2>3, FunctionIsSeq
<1> HIDE DEF new, row, i, j
<1>8. /\ w \in Tx /\ w.c = c /\ w.n = n /\ w.pay = t.pay /\ w.lag = t.lag /\ w.new = t.new
      /\ w.held = t.held /\ w.written = {row} /\ w.rows = new /\ w.status = t.status
      /\ w.kase = t.kase
  <2>1. row \in LockRow
    BY <1>2, <1>3, RowNames DEF row
  <2> QED BY <1>2, <1>3, <1>7, <2>1 DEF Tx
<1> HIDE DEF w
<1>9. /\ u.next = "recompute" /\ u.want = {} /\ u.c = c /\ u.n = n /\ u.pay = t.pay
      /\ u.lag = t.lag /\ u.new = t.new /\ u.held = t.held /\ u.written = {row}
      /\ u.rows = new /\ u.status = t.status /\ u.kase = t.kase
  BY <1>8, OnwardFields DEF TxStages, RegisterStages
<1> HIDE DEF u
<1>10. row # ContractRow(c) /\ row # CaseRowOf(c)
       /\ \A m \in DOMAIN rows : InstallmentRow(c, m) = row => m = n
  BY <1>2, <1>3, RowNames DEF row
<1>11. ControlOK(u)
  BY <1>1, <1>2, <1>3, <1>9, <1>10 DEF ControlOK, RegisterStages
<1>12. LocksOK(u, rows)
  BY <1>3, <1>9 DEF LocksOK
<1>13. WritesOK(u, rows, sums)
  <2>1. RowWrittenOK(u, n, rows[n], sums[n])
    BY <1>5, <1>6, <1>7, <1>9 DEF RowWrittenOK, PaidOn, i, day
  <2>2. \A m \in DOMAIN rows : InstallmentRow(c, m) \in u.written => m = n
    BY <1>9, <1>10
  <2>3. InstallmentRow(u.c, u.n) \in u.written
    BY <1>9 DEF row
  <2> QED BY <1>9, <2>1, <2>2, <2>3 DEF WritesOK
<1>14. OpenTxOK(u)
  BY <1>1, <1>2, <1>9, <1>12, <1>13 DEF OpenTxOK, ControlOK
<1>15. w.held = tx[p].held /\ w.new = tx[p].new /\ {} \subseteq LockRow /\ "recompute" \in TxStages
  BY <1>8 DEF TxStages, RegisterStages
<1> QED
  BY <1>8, <1>9, <1>11, <1>14, <1>15, MoveStep DEF TxOK, u

\* The status a transaction sees is that of a contract that exists.
LEMMA SeenStatusOK ==
  ASSUME TInv, NEW p \in Procs, tx[p].next # "begin"
  PROVE  SeenStatus(p) \in ContractStatus
BY OpenFacts DEF SeenStatus, ControlOK

\* recompute, when the status of the contract changes and when it does not.
LEMMA RecomputeStep ==
  ASSUME TInv, NEW p \in Procs, recompute(p)
  PROVE  TInv'
<1> DEFINE t == tx[p]
           rows == installments[t.c]
           sums == received[t.c]
           status1 == RecomputedStatus(SeenStatus(p), SeenRows(p))
<1>1. t.next = "recompute" /\ t.want = {} /\ job' = job
  BY DEF recompute, At, Waiting
<1>2. /\ t \in Tx /\ ControlOK(t) /\ OpenTxOK(t) /\ t.c \in Contracts /\ t.n \in Nat
      /\ DOMAIN rows \subseteq Nat
  BY <1>1, OpenFacts DEF Tx
<1>3. t.n # 0 /\ t.new = None
  BY <1>1, <1>2 DEF ControlOK
<1>4. CASE Goto(p, t, "readContract", {})
  <2> DEFINE u == Onward(t, "readContract", {})
  <2>1. "readContract" \in TxStages /\ {} \subseteq LockRow
    BY DEF TxStages, RegisterStages
  <2>2. /\ u.next = "readContract" /\ u.want = {} /\ u.c = t.c /\ u.n = t.n /\ u.pay = t.pay
        /\ u.lag = t.lag /\ u.new = t.new /\ u.held = t.held /\ u.written = t.written
        /\ u.status = t.status /\ u.rows = t.rows /\ u.kase = t.kase
    BY <1>2, <2>1, OnwardFields
  <2> HIDE DEF u
  <2>3. ControlOK(u)
    BY <1>1, <1>2, <2>2 DEF ControlOK, RegisterStages
  <2>4. LocksOK(u, rows)
    BY <1>2, <2>2 DEF LocksOK, OpenTxOK
  <2>5. WritesOK(u, rows, sums)
    BY <1>1, <1>2, <2>2, SameWrites DEF OpenTxOK
  <2>6. OpenTxOK(u)
    BY <1>2, <1>3, <2>2, <2>4, <2>5 DEF OpenTxOK
  <2> QED BY <1>1, <1>2, <1>4, <2>1, <2>3, <2>6, MoveStep DEF TxOK, u
<1>5. CASE Goto(p, [t EXCEPT !.status = status1, !.then = "readContract"],
                "writeStatus", {ContractRow(t.c)})
  <2> DEFINE w == [t EXCEPT !.status = status1, !.then = "readContract"]
             need == {ContractRow(t.c)}
             u == Onward(w, "writeStatus", need)
  <2>1. /\ "writeStatus" \in TxStages /\ "readContract" \in TxStages
        /\ need \subseteq LockRow
    BY <1>2, RowNames DEF TxStages, RegisterStages
  <2>2. status1 \in ContractStatus
    BY <1>1, SeenStatusOK DEF RecomputedStatus, ContractStatus, Live
  <2> HIDE DEF status1, need
  <2>3. /\ w \in Tx /\ w.c = t.c /\ w.n = t.n /\ w.pay = t.pay /\ w.lag = t.lag
        /\ w.new = t.new /\ w.held = t.held /\ w.written = t.written
        /\ w.status = status1 /\ w.rows = t.rows /\ w.kase = t.kase
        /\ w.then = "readContract"
    BY <1>2, <2>1, <2>2 DEF Tx
  <2> HIDE DEF w
  <2>4. /\ u.next = "writeStatus" /\ u.want = need \ t.held /\ u.c = t.c /\ u.n = t.n
        /\ u.pay = t.pay /\ u.lag = t.lag /\ u.new = t.new /\ u.held = t.held
        /\ u.written = t.written /\ u.then = "readContract"
        /\ u.status = status1 /\ u.rows = t.rows /\ u.kase = t.kase
    BY <2>1, <2>3, OnwardFields
  <2> HIDE DEF u
  <2>5. ControlOK(u)
    BY <1>1, <1>2, <2>2, <2>4 DEF ControlOK, RegisterStages
  <2>6. LocksOK(u, rows)
    BY <1>2, <2>4 DEF LocksOK, OpenTxOK, need
  <2>7. WritesOK(u, rows, sums)
    BY <1>1, <1>2, <2>4, SameWrites DEF OpenTxOK
  <2>8. OpenTxOK(u)
    BY <1>2, <1>3, <2>4, <2>6, <2>7 DEF OpenTxOK
  <2>9. Goto(p, w, "writeStatus", need)
    BY <1>5 DEF w, need
  <2> QED BY <1>1, <2>1, <2>3, <2>4, <2>5, <2>8, <2>9, MoveStep DEF TxOK, u
<1> QED BY <1>4, <1>5 DEF recompute

\* The update of the contract's status.
LEMMA WriteStatusStep ==
  ASSUME TInv, NEW p \in Procs, writeStatus(p)
  PROVE  TInv'
<1> DEFINE t == tx[p]
           rows == installments[t.c]
           sums == received[t.c]
           row == ContractRow(t.c)
           w == [t EXCEPT !.written = @ \cup {row}]
           u == Onward(w, t.then, {})
<1>1. t.next = "writeStatus" /\ t.want = {} /\ job' = job /\ Goto(p, w, t.then, {})
  BY DEF writeStatus, At, Waiting
<1>2. /\ t \in Tx /\ ControlOK(t) /\ OpenTxOK(t) /\ t.c \in Contracts /\ t.n \in Nat
      /\ DOMAIN rows \subseteq Nat
  BY <1>1, OpenFacts DEF Tx
<1>3. /\ t.new = None /\ t.then \in {"readContract", "commit"} /\ t.status \in ContractStatus
      /\ row \in t.held /\ t.then \in TxStages /\ {} \subseteq LockRow
  BY <1>1, <1>2 DEF ControlOK, RenegotiateStages, LocksOK, OpenTxOK, Tx
<1>4. row \in LockRow /\ row # CaseRowOf(t.c) /\ \A n \in Nat : row # InstallmentRow(t.c, n)
  BY <1>2, RowNames
<1> HIDE DEF row
<1>5. /\ w \in Tx /\ w.c = t.c /\ w.n = t.n /\ w.pay = t.pay /\ w.lag = t.lag
      /\ w.new = t.new /\ w.held = t.held /\ w.written = t.written \cup {row}
      /\ w.status = t.status /\ w.rows = t.rows /\ w.kase = t.kase
  BY <1>2, <1>4 DEF Tx
<1> HIDE DEF w
<1>6. /\ u.next = t.then /\ u.want = {} /\ u.c = t.c /\ u.n = t.n /\ u.pay = t.pay
      /\ u.lag = t.lag /\ u.new = t.new /\ u.held = t.held
      /\ u.written = t.written \cup {row}
      /\ u.status = t.status /\ u.rows = t.rows /\ u.kase = t.kase
  BY <1>3, <1>5, OnwardFields
<1> HIDE DEF u
<1>7. ControlOK(u)
  BY <1>1, <1>2, <1>3, <1>4, <1>6 DEF ControlOK, RegisterStages
<1>8. LocksOK(u, rows)
  BY <1>2, <1>3, <1>6 DEF LocksOK, OpenTxOK
<1>9. WritesOK(u, rows, sums)
  <2>1. \A n \in Nat : InstallmentRow(t.c, n) \in u.written
                          <=> InstallmentRow(t.c, n) \in t.written
    BY <1>4, <1>6
  <2> QED BY <1>1, <1>2, <1>6, <2>1, SameWrites DEF OpenTxOK
<1>10. OpenTxOK(u)
  BY <1>2, <1>3, <1>6, <1>8, <1>9 DEF OpenTxOK
<1> QED BY <1>1, <1>3, <1>5, <1>6, <1>7, <1>10, MoveStep DEF TxOK, u

\* The early return of a refresh, or the way on.
LEMMA ReadContractStep ==
  ASSUME TInv, NEW p \in Procs, readContract(p)
  PROVE  TInv'
<1> DEFINE t == tx[p]
           rows == installments[t.c]
           sums == received[t.c]
           status == SeenStatus(p)
           next == IF status \in Live THEN "readInstallments" ELSE "commit"
           w == [t EXCEPT !.oldStatus = status]
           u == Onward(w, next, {})
<1>1. t.next = "readContract" /\ t.want = {} /\ job' = job /\ Goto(p, w, next, {})
  BY DEF readContract, At, Waiting
<1>2. /\ t \in Tx /\ ControlOK(t) /\ OpenTxOK(t) /\ t.c \in Contracts /\ t.n \in Nat
      /\ DOMAIN rows \subseteq Nat
  BY <1>1, OpenFacts DEF Tx
<1>3. /\ t.new = None /\ status \in ContractStatus /\ next \in {"readInstallments", "commit"}
      /\ next = "readInstallments" => status \in Live
      /\ next \in TxStages /\ {} \subseteq LockRow
  BY <1>1, <1>2, SeenStatusOK DEF ControlOK, RenegotiateStages, TxStages, RegisterStages
<1> HIDE DEF status, next
<1>4. /\ w \in Tx /\ w.c = t.c /\ w.n = t.n /\ w.pay = t.pay /\ w.lag = t.lag
      /\ w.new = t.new /\ w.held = t.held /\ w.written = t.written
      /\ w.status = t.status /\ w.rows = t.rows /\ w.kase = t.kase /\ w.oldStatus = status
  BY <1>2, <1>3 DEF Tx
<1> HIDE DEF w
<1>5. /\ u.next = next /\ u.want = {} /\ u.c = t.c /\ u.n = t.n /\ u.pay = t.pay
      /\ u.lag = t.lag /\ u.new = t.new /\ u.held = t.held /\ u.written = t.written
      /\ u.status = t.status /\ u.rows = t.rows /\ u.kase = t.kase /\ u.oldStatus = status
  BY <1>3, <1>4, OnwardFields
<1> HIDE DEF u
<1>6. ControlOK(u)
  BY <1>1, <1>2, <1>3, <1>5 DEF ControlOK, RegisterStages
<1>7. LocksOK(u, rows)
  BY <1>2, <1>3, <1>5 DEF LocksOK, OpenTxOK
<1>8. WritesOK(u, rows, sums)
  BY <1>1, <1>2, <1>5, SameWrites DEF OpenTxOK
<1>9. OpenTxOK(u)
  BY <1>2, <1>3, <1>5, <1>7, <1>8 DEF OpenTxOK
<1> QED BY <1>1, <1>3, <1>4, <1>5, <1>6, <1>9, MoveStep DEF TxOK, u

\* The installments a refresh reads, and the rows it will flag.
LEMMA ReadInstallmentsStep ==
  ASSUME TInv, NEW p \in Procs, readInstallments(p)
  PROVE  TInv'
<1> DEFINE t == tx[p]
           rows == installments[t.c]
           sums == received[t.c]
           overdue == OverdueNumbers(SeenRows(p), today)
           days == DaysOverdue(SeenRows(p), today)
           need == {InstallmentRow(t.c, n) : n \in overdue}
           w == [t EXCEPT !.overdue = overdue, !.days = days]
           u == Onward(w, "flag", need)
<1>1. t.next = "readInstallments" /\ t.want = {} /\ job' = job /\ Goto(p, w, "flag", need)
  BY DEF readInstallments, At, Waiting
<1>2. /\ t \in Tx /\ ControlOK(t) /\ OpenTxOK(t) /\ t.c \in Contracts /\ t.n \in Nat
      /\ DOMAIN rows \subseteq Nat /\ today \in Nat
  BY <1>1, OpenFacts DEF Tx
<1>3. t.new = None /\ t.oldStatus \in Live /\ "flag" \in TxStages
  BY <1>1, <1>2 DEF ControlOK, RenegotiateStages, TxStages, RegisterStages
<1>4. SeenRows(p) \in Seq(Installment) /\ DOMAIN SeenRows(p) = DOMAIN rows
  BY <1>1, SeenRowsOK
<1>5. overdue \subseteq Nat /\ days \in Nat
  BY <1>2, <1>4, DaysOverdueNat DEF OverdueNumbers
<1> HIDE DEF overdue, days
<1>6. need \subseteq LockRow
  BY <1>2, <1>5, RowNames
<1>7. need = InstallmentRows(t.c, overdue)
  BY DEF InstallmentRows
<1> HIDE DEF need
<1>8. /\ w \in Tx /\ w.c = t.c /\ w.n = t.n /\ w.pay = t.pay /\ w.lag = t.lag
      /\ w.new = t.new /\ w.held = t.held /\ w.written = t.written
      /\ w.status = t.status /\ w.rows = t.rows /\ w.kase = t.kase
      /\ w.oldStatus = t.oldStatus /\ w.overdue = overdue
  BY <1>2, <1>5 DEF Tx
<1> HIDE DEF w
<1>9. /\ u.next = "flag" /\ u.want = need \ t.held /\ u.c = t.c /\ u.n = t.n /\ u.pay = t.pay
      /\ u.lag = t.lag /\ u.new = t.new /\ u.held = t.held /\ u.written = t.written
      /\ u.status = t.status /\ u.rows = t.rows /\ u.kase = t.kase
      /\ u.oldStatus = t.oldStatus /\ u.overdue = overdue
  BY <1>3, <1>6, <1>8, OnwardFields
<1> HIDE DEF u
<1>10. ControlOK(u)
  BY <1>1, <1>2, <1>3, <1>9 DEF ControlOK, RegisterStages
<1>11. LocksOK(u, rows)
  BY <1>2, <1>7, <1>9 DEF LocksOK, OpenTxOK
<1>12. WritesOK(u, rows, sums)
  BY <1>1, <1>2, <1>9, SameWrites DEF OpenTxOK
<1>13. OpenTxOK(u)
  BY <1>2, <1>3, <1>9, <1>11, <1>12 DEF OpenTxOK
<1> QED BY <1>1, <1>3, <1>6, <1>8, <1>9, <1>10, <1>13, MoveStep DEF TxOK, u

\* Flagging an installment that is open, as seen, keeps what was written on it right.
LEMMA FlagRow ==
  ASSUME NEW i, NEW j, NEW r, NEW pay, RowOK(j, r + pay), IsOpen(j),
         IsOpen(i) \/ j.status = "CANCELLED"
  PROVE  LET k == [j EXCEPT !.status = "OVERDUE"] IN
         /\ RowOK(k, r + pay) /\ IsOpen(i)
         /\ \A day : TotalOutstanding(k, day) = TotalOutstanding(j, day)
<1>1. j \in Installment
  BY DEF RowOK
<1>2. RowOK([j EXCEPT !.status = "OVERDUE"], r + pay)
  BY StatusKeepsRow
<1> QED BY <1>1, <1>2, FlagMovesNoDebt DEF IsOpen, Closed

\* flag: installments of the list that are still open.
LEMMA FlagStep ==
  ASSUME TInv, NEW p \in Procs, flag(p)
  PROVE  TInv'
<1> DEFINE t == tx[p]
           c == t.c
           rows == installments[c]
           sums == received[c]
           seen == SeenRows(p)
           flagged == {n \in t.overdue : IsOpen(seen[n])}
           k == SeenCase(p)
           numbers == {InstallmentRow(c, n) : n \in flagged}
           new == [n \in DOMAIN seen |-> IF n \in flagged
                                         THEN [seen[n] EXCEPT !.status = "OVERDUE"]
                                         ELSE seen[n]]
           need == IF t.days = 0 THEN IF NothingToResolve(k) THEN {} ELSE {CaseRowOf(c)}
                   ELSE {CaseRowOf(c)} \cup (IF k.status = "NONE" THEN {ContractRow(c)} ELSE {})
           w == [t EXCEPT !.written = @ \cup numbers, !.rows = new, !.oldCase = k]
           u == Onward(w, "writeCase", need)
<1>1. t.next = "flag" /\ t.want = {} /\ job' = job /\ Goto(p, w, "writeCase", need)
  BY DEF flag, At, Waiting
<1>2. /\ t \in Tx /\ ControlOK(t) /\ OpenTxOK(t) /\ c \in Contracts /\ t.n \in Nat
      /\ DOMAIN rows \subseteq Nat \ {0} /\ kase[c] \in CaseRow
      /\ rows \in Seq(Installment)
  BY <1>1, OpenFacts DEF Tx
<1>3. /\ t.new = None /\ t.oldStatus \in Live /\ "writeCase" \in TxStages
      /\ t.overdue \subseteq Nat /\ InstallmentRows(c, t.overdue) \subseteq t.held
      /\ t.written \subseteq t.held
  BY <1>1, <1>2 DEF ControlOK, RenegotiateStages, TxStages, RegisterStages, OpenTxOK, LocksOK, Tx
<1>4. /\ seen \in Seq(Installment) /\ DOMAIN seen = DOMAIN rows /\ Len(seen) = Len(rows)
      /\ \A n \in DOMAIN rows :
            /\ RowOK(seen[n], sums[n] + PaidOn(t, n))
            /\ InstallmentRow(c, n) \in t.written
                  => seen[n] = t.rows[n] /\ RowWrittenOK(t, n, rows[n], sums[n])
            /\ InstallmentRow(c, n) \notin t.written => seen[n] = rows[n] /\ n # t.n
  BY <1>1, SeenRowsOK
<1> HIDE DEF seen
<1>5. k \in CaseRow
  BY <1>2 DEF SeenCase, Tx
<1> HIDE DEF k
<1>6. /\ numbers \subseteq t.held /\ numbers \subseteq LockRow
      /\ ContractRow(c) \notin numbers /\ CaseRowOf(c) \notin numbers
      /\ \A n \in Nat : InstallmentRow(c, n) \in numbers <=> n \in flagged
  BY <1>2, <1>3, RowNames DEF InstallmentRows
<1>7. need \subseteq LockRow /\ (~(t.days = 0 /\ NothingToResolve(k)) => CaseRowOf(c) \in need)
  BY <1>2, RowNames
<1> HIDE DEF need
<1>8. ASSUME NEW n \in DOMAIN rows
      PROVE  /\ RowOK(new[n], sums[n] + PaidOn(t, n))
             /\ n \in flagged => IsOpen(rows[n]) \/ new[n].status = "CANCELLED"
             /\ n \notin flagged => new[n] = seen[n]
             /\ \A day : TotalOutstanding(new[n], day) = TotalOutstanding(seen[n], day)
  <2>1. new[n] = IF n \in flagged THEN [seen[n] EXCEPT !.status = "OVERDUE"] ELSE seen[n]
    BY <1>4
  <2>2. RowOK(seen[n], sums[n] + PaidOn(t, n))
    BY <1>4
  <2>3. CASE n \in flagged
    <3>1. IsOpen(seen[n])
      BY <2>3
    <3>2. IsOpen(rows[n]) \/ seen[n].status = "CANCELLED"
      BY <1>4, <3>1 DEF RowWrittenOK
    <3> HIDE DEF new, flagged
    <3> QED BY <2>1, <2>2, <2>3, <3>1, <3>2, FlagRow
  <2>4. CASE n \notin flagged
    BY <2>1, <2>2, <2>4
  <2> QED BY <2>3, <2>4
<1>9. new \in Seq(Installment)
  <2>1. Len(rows) \in Nat /\ DOMAIN rows = 1..Len(rows)
    BY <1>2, SeqIsFunction
  <2>2. \A n \in DOMAIN rows : new[n] \in Installment
    BY <1>8 DEF RowOK
  <2>3. new = [n \in 1..Len(rows) |-> new[n]]
    BY <1>4, <2>1
  <2> HIDE DEF new
  <2>4. new \in [1..Len(rows) -> Installment]
    BY <2>1, <2>2, <2>3
  <2> QED BY <2>1, <2>4, FunctionIsSeq
<1> HIDE DEF numbers, new, flagged
<1>10. /\ w \in Tx /\ w.c = c /\ w.n = t.n /\ w.pay = t.pay /\ w.lag = t.lag
       /\ w.new = t.new /\ w.held = t.held /\ w.written = t.written \cup numbers
       /\ w.status = t.status /\ w.rows = new /\ w.kase = t.kase
       /\ w.oldStatus = t.oldStatus /\ w.oldCase = k /\ w.days = t.days
  BY <1>2, <1>5, <1>6, <1>9 DEF Tx
<1> HIDE DEF w
<1>11. /\ u.next = "writeCase" /\ u.want = need \ t.held /\ u.c = c /\ u.n = t.n
       /\ u.pay = t.pay /\ u.lag = t.lag /\ u.new = t.new /\ u.held = t.held
       /\ u.written = t.written \cup numbers
       /\ u.status = t.status /\ u.rows = new /\ u.kase = t.kase
       /\ u.oldStatus = t.oldStatus /\ u.oldCase = k /\ u.days = t.days
  BY <1>3, <1>7, <1>10, OnwardFields
<1> HIDE DEF u
<1>12. ControlOK(u)
  BY <1>1, <1>2, <1>3, <1>6, <1>11 DEF ControlOK, RegisterStages
<1>13. LocksOK(u, rows)
  BY <1>2, <1>3, <1>6, <1>7, <1>11 DEF LocksOK, OpenTxOK
<1>14. WritesOK(u, rows, sums)
  <2>1. ASSUME NEW n \in DOMAIN rows, InstallmentRow(c, n) \in u.written
        PROVE  RowWrittenOK(u, n, rows[n], sums[n])
    <3>1. PaidOn(u, n) = PaidOn(t, n) /\ u.rows[n] = new[n] /\ n \in Nat
      BY <1>2, <1>11 DEF PaidOn
    <3>2. n \in flagged \/ InstallmentRow(c, n) \in t.written
      BY <1>6, <1>11, <2>1, <3>1
    <3>3. IsOpen(rows[n]) \/ new[n].status = "CANCELLED"
      BY <1>4, <1>8, <3>2 DEF RowWrittenOK
    <3>4. n = t.n => /\ seen[n] = t.rows[n]
                     /\ TotalOutstanding(rows[n], today - t.lag)
                          - TotalOutstanding(t.rows[n], today - t.lag) = t.pay
      BY <1>4 DEF RowWrittenOK
    <3>5. TotalOutstanding(new[n], today - t.lag) = TotalOutstanding(seen[n], today - t.lag)
      BY <1>8
    <3>6. n = u.n => TotalOutstanding(rows[n], today - u.lag)
                       - TotalOutstanding(u.rows[n], today - u.lag) = u.pay
      BY <1>11, <3>1, <3>4, <3>5
    <3> QED BY <1>8, <3>1, <3>3, <3>6 DEF RowWrittenOK
  <2>2. u.n # 0 => InstallmentRow(c, u.n) \in u.written
    BY <1>1, <1>2, <1>11 DEF OpenTxOK, WritesOK
  <2> QED BY <1>11, <2>1, <2>2 DEF WritesOK
<1>15. OpenTxOK(u)
  BY <1>2, <1>3, <1>11, <1>13, <1>14 DEF OpenTxOK
<1> QED BY <1>1, <1>3, <1>7, <1>10, <1>11, <1>12, <1>15, MoveStep DEF TxOK, u

\* The case a refresh writes exists, and is a row of its table.
LEMMA RefreshedCaseOK ==
  ASSUME NEW k \in CaseRow, NEW old \in CaseRow, NEW days \in Nat,
         ~(days = 0 /\ NothingToResolve(old))
  PROVE  LET decided == RefreshedCase(old, days)
             written == IF days = 0 THEN decided
                        ELSE [k EXCEPT !.status = decided.status, !.daysOverdue = days]
         IN  written \in CaseRow /\ written.status # "NONE"
<1>1. CASE days = 0
  <2>1. RefreshedCase(old, days) = [status |-> "RESOLVED", daysOverdue |-> 0, dunningStage |-> 0]
    BY <1>1 DEF RefreshedCase, NothingToResolve
  <2>2. 0 \in 0..5
    OBVIOUS
  <2> QED BY <1>1, <2>1, <2>2 DEF CaseRow, CaseStatus
<1>2. CASE days # 0
  <2> DEFINE status == IF old.status \in ActiveCase THEN old.status ELSE "OPEN"
  <2>1. RefreshedCase(old, days) = [old EXCEPT !.status = status, !.daysOverdue = days]
    BY <1>2 DEF RefreshedCase, CaseRow
  <2>2. status \in CaseStatus /\ status # "NONE"
    BY DEF CaseStatus, ActiveCase
  <2> HIDE DEF status
  <2>3. RefreshedCase(old, days).status = status
    BY <2>1 DEF CaseRow
  <2> QED BY <1>2, <2>2, <2>3 DEF CaseRow
<1> QED BY <1>1, <1>2

\* writeCase, with the update of the contract's status after it or without.
LEMMA WriteCaseStep ==
  ASSUME TInv, NEW p \in Procs, writeCase(p)
  PROVE  TInv'
<1> DEFINE t == tx[p]
           c == t.c
           rows == installments[c]
           sums == received[c]
           row == CaseRowOf(c)
           decided == RefreshedCase(t.oldCase, t.days)
           status1 == RefreshedStatus(t.oldStatus, t.days)
           k == IF t.days = 0 THEN decided
                ELSE [SeenCase(p) EXCEPT !.status = decided.status, !.daysOverdue = t.days]
           t1 == IF t.days = 0 /\ NothingToResolve(t.oldCase) THEN t
                 ELSE [t EXCEPT !.written = @ \cup {row}, !.kase = k]
<1>1. t.next = "writeCase" /\ t.want = {} /\ job' = job
  BY DEF writeCase, At, Waiting
<1>2. /\ t \in Tx /\ ControlOK(t) /\ OpenTxOK(t) /\ c \in Contracts /\ t.n \in Nat
      /\ DOMAIN rows \subseteq Nat /\ kase[c] \in CaseRow
  BY <1>1, OpenFacts DEF Tx
<1>3. /\ t.new = None /\ t.oldStatus \in Live /\ t.oldCase \in CaseRow /\ t.days \in Nat
      /\ SeenCase(p) \in CaseRow
      /\ ~(t.days = 0 /\ NothingToResolve(t.oldCase)) => row \in t.held
  BY <1>1, <1>2 DEF ControlOK, RenegotiateStages, OpenTxOK, LocksOK, Tx, SeenCase
<1>4. row \in LockRow /\ row # ContractRow(c) /\ \A n \in Nat : row # InstallmentRow(c, n)
  BY <1>2, RowNames
<1>5. ~(t.days = 0 /\ NothingToResolve(t.oldCase)) => k \in CaseRow /\ k.status # "NONE"
  BY <1>3, RefreshedCaseOK
<1> HIDE DEF k, decided, row
<1>6. /\ t1 \in Tx /\ t1.c = c /\ t1.n = t.n /\ t1.pay = t.pay /\ t1.lag = t.lag
      /\ t1.new = t.new /\ t1.held = t.held /\ t1.status = t.status /\ t1.rows = t.rows
      /\ t1.written \in {t.written, t.written \cup {row}} /\ t1.written \subseteq t.held
      /\ row \in t1.written => t1.kase.status # "NONE"
  <2>1. t.written \subseteq t.held /\ (row \in t.written => t.kase.status # "NONE")
    BY <1>2 DEF OpenTxOK, LocksOK, ControlOK, row
  <2>2. CASE t.days = 0 /\ NothingToResolve(t.oldCase)
    BY <1>2, <2>1, <2>2
  <2>3. CASE ~(t.days = 0 /\ NothingToResolve(t.oldCase))
    <3>1. t1 = [t EXCEPT !.written = t.written \cup {row}, !.kase = k]
      BY <2>3
    <3> HIDE DEF t1
    <3>2. /\ t1 \in Tx /\ t1.c = c /\ t1.n = t.n /\ t1.pay = t.pay /\ t1.lag = t.lag
          /\ t1.new = t.new /\ t1.held = t.held /\ t1.status = t.status /\ t1.rows = t.rows
          /\ t1.written = t.written \cup {row} /\ t1.kase = k
      BY <1>2, <1>4, <1>5, <2>3, <3>1 DEF Tx
    <3> QED BY <1>3, <1>5, <2>1, <2>3, <3>2
  <2> QED BY <2>2, <2>3
<1> HIDE DEF t1
<1>7. \A n \in Nat : InstallmentRow(c, n) \in t1.written <=> InstallmentRow(c, n) \in t.written
  BY <1>4, <1>6
<1>8. ContractRow(c) \in t1.written => t.status \in ContractStatus
  BY <1>2, <1>4, <1>6 DEF ControlOK
<1>9. status1 \in ContractStatus
  BY <1>3 DEF RefreshedStatus, Live, ContractStatus
<1>10. CASE Goto(p, t1, "commit", {})
  <2> DEFINE u == Onward(t1, "commit", {})
  <2>1. "commit" \in TxStages /\ {} \subseteq LockRow
    BY DEF TxStages, RegisterStages
  <2>2. /\ u.next = "commit" /\ u.want = {} /\ u.c = c /\ u.n = t.n /\ u.pay = t.pay
        /\ u.lag = t.lag /\ u.new = t.new /\ u.held = t.held /\ u.written = t1.written
        /\ u.status = t.status /\ u.rows = t.rows /\ u.kase = t1.kase
    BY <1>6, <2>1, OnwardFields
  <2> HIDE DEF u
  <2>3. ControlOK(u)
    BY <1>1, <1>2, <1>3, <1>6, <1>8, <2>2 DEF ControlOK, RegisterStages, row
  <2>4. LocksOK(u, rows)
    BY <1>6, <2>2 DEF LocksOK
  <2>5. WritesOK(u, rows, sums)
    BY <1>1, <1>2, <1>7, <2>2, SameWrites DEF OpenTxOK
  <2>6. OpenTxOK(u)
    BY <1>2, <1>3, <2>2, <2>4, <2>5 DEF OpenTxOK
  <2> QED BY <1>1, <1>6, <1>10, <2>1, <2>3, <2>6, MoveStep DEF TxOK, u
<1>11. CASE Goto(p, [t1 EXCEPT !.status = status1, !.then = "commit"],
                 "writeStatus", {ContractRow(c)})
  <2> DEFINE w == [t1 EXCEPT !.status = status1, !.then = "commit"]
             need == {ContractRow(c)}
             u == Onward(w, "writeStatus", need)
  <2>1. /\ "writeStatus" \in TxStages /\ "commit" \in TxStages
        /\ need \subseteq LockRow
    BY <1>2, RowNames DEF TxStages, RegisterStages
  <2> HIDE DEF status1, need
  <2>2. /\ w \in Tx /\ w.c = c /\ w.n = t.n /\ w.pay = t.pay /\ w.lag = t.lag
        /\ w.new = t.new /\ w.held = t.held /\ w.written = t1.written
        /\ w.status = status1 /\ w.rows = t.rows /\ w.kase = t1.kase
        /\ w.then = "commit"
    BY <1>6, <1>9, <2>1 DEF Tx
  <2> HIDE DEF w
  <2>3. /\ u.next = "writeStatus" /\ u.want = need \ t.held /\ u.c = c /\ u.n = t.n
        /\ u.pay = t.pay /\ u.lag = t.lag /\ u.new = t.new /\ u.held = t.held
        /\ u.written = t1.written /\ u.then = "commit"
        /\ u.status = status1 /\ u.rows = t.rows /\ u.kase = t1.kase
    BY <2>1, <2>2, OnwardFields
  <2> HIDE DEF u
  <2>4. ControlOK(u)
    BY <1>1, <1>2, <1>3, <1>6, <1>9, <2>3 DEF ControlOK, RegisterStages, row
  <2>5. LocksOK(u, rows)
    BY <1>6, <2>3 DEF LocksOK, need
  <2>6. WritesOK(u, rows, sums)
    BY <1>1, <1>2, <1>7, <2>3, SameWrites DEF OpenTxOK
  <2>7. OpenTxOK(u)
    BY <1>2, <1>3, <2>3, <2>5, <2>6 DEF OpenTxOK
  <2>8. Goto(p, w, "writeStatus", need)
    BY <1>11 DEF w, need
  <2> QED BY <1>1, <1>6, <2>1, <2>2, <2>3, <2>4, <2>7, <2>8, MoveStep DEF TxOK, u
<1> QED BY <1>10, <1>11 DEF writeCase, k, decided, row, t1

\* lockInstallments waits for every installment of the contract.
LEMMA LockInstallmentsStep ==
  ASSUME TInv, NEW p \in Procs, lockInstallments(p)
  PROVE  TInv'
<1> DEFINE t == tx[p]
           rows == installments[t.c]
           sums == received[t.c]
           need == {InstallmentRow(t.c, n) : n \in DOMAIN rows}
           u == Onward(t, "consolidate", need)
<1>1. t.next = "lockInstallments" /\ t.want = {} /\ job' = job /\ Goto(p, t, "consolidate", need)
  BY DEF lockInstallments, At, Waiting
<1>2. /\ t \in Tx /\ ControlOK(t) /\ OpenTxOK(t) /\ t.c \in Contracts /\ t.n \in Nat
      /\ DOMAIN rows \subseteq Nat
  BY <1>1, OpenFacts DEF Tx
<1>3. need \subseteq LockRow /\ need = InstallmentRows(t.c, DOMAIN rows)
      /\ "consolidate" \in TxStages
  BY <1>2, RowNames DEF InstallmentRows, TxStages, RenegotiateStages
<1> HIDE DEF need
<1>4. /\ u.next = "consolidate" /\ u.want = need \ t.held
      /\ u.c = t.c /\ u.n = t.n /\ u.pay = t.pay /\ u.lag = t.lag /\ u.new = t.new
      /\ u.held = t.held /\ u.written = t.written /\ u.status = t.status
      /\ u.rows = t.rows /\ u.kase = t.kase /\ u.term = t.term
  BY <1>2, <1>3, OnwardFields
<1> HIDE DEF u
<1>5. ControlOK(u)
  BY <1>1, <1>2, <1>4 DEF ControlOK, RegisterStages, RenegotiateStages
<1>6. LocksOK(u, rows)
  BY <1>1, <1>2, <1>3, <1>4 DEF LocksOK, OpenTxOK
<1>7. WritesOK(u, rows, sums)
  BY <1>1, <1>2, <1>4, SameWrites DEF OpenTxOK
<1>8. OpenTxOK(u)
  BY <1>1, <1>2, <1>4, <1>6, <1>7 DEF OpenTxOK
<1> QED BY <1>1, <1>2, <1>3, <1>5, <1>8, MoveStep DEF TxOK, u

\* consolidate closes what is open, in what the transaction will commit.
LEMMA ConsolidateStep ==
  ASSUME TInv, NEW p \in Procs, consolidate(p)
  PROVE  TInv' \/ (Rollback(p) /\ job' = job)
<1> DEFINE t == tx[p]
           c == t.c
           rows == installments[c]
           sums == received[c]
           owed == ConsolidatedBalance(rows)
           row == ContractRow(c)
           numbers == {InstallmentRow(c, n) : n \in OpenNumbers(rows)}
           new == [n \in DOMAIN rows |-> [rows[n] EXCEPT !.status = "RENEGOTIATED"]]
           need == IF NothingToResolve(kase[c]) THEN {} ELSE {CaseRowOf(c)}
           w == [t EXCEPT !.pay = owed, !.status = "RENEGOTIATED",
                          !.written = {row} \cup numbers, !.rows = new]
           u == Onward(w, "closeCase", need)
<1> SUFFICES ASSUME owed \in Nat \ {0}, today + t.term.firstDueIn \in Nat,
                    Goto(p, w, "closeCase", need), job' = job
             PROVE  TInv'
  BY DEF consolidate
<1>1. t.next = "consolidate" /\ t.want = {}
  BY DEF consolidate, At, Waiting
<1>2. /\ t \in Tx /\ ControlOK(t) /\ OpenTxOK(t) /\ c \in Contracts
      /\ DOMAIN rows \subseteq Nat \ {0} /\ rows \in Seq(Installment) /\ sums \in Seq(Nat)
      /\ \A n \in DOMAIN rows : RowOK(rows[n], sums[n])
  BY <1>1, OpenFacts
<1>3. /\ t.n = 0 /\ t.new # None /\ t.term \in Terms /\ row \in t.held
      /\ InstallmentRows(c, DOMAIN rows) \subseteq t.held /\ "closeCase" \in TxStages
  BY <1>1, <1>2 DEF ControlOK, RegisterStages, RenegotiateStages, TxStages, OpenTxOK, LocksOK
<1>4. /\ row \in LockRow /\ row # CaseRowOf(c) /\ \A n \in Nat : InstallmentRow(c, n) # row
      /\ need \subseteq LockRow
      /\ numbers \subseteq LockRow /\ CaseRowOf(c) \notin numbers /\ numbers \subseteq t.held
      /\ \A n \in Nat : InstallmentRow(c, n) \in numbers <=> n \in OpenNumbers(rows)
  BY <1>2, <1>3, RowNames DEF InstallmentRows, OpenNumbers
<1>5. ASSUME NEW n \in DOMAIN rows PROVE RowOK(new[n], sums[n]) /\ new[n] \in Installment
  <2>1. RowOK(new[n], sums[n])
    BY <1>2, StatusKeepsRow
  <2> QED BY <2>1 DEF RowOK
<1>6. new \in Seq(Installment)
  <2>1. Len(rows) \in Nat /\ DOMAIN rows = 1..Len(rows)
    BY <1>2, SeqIsFunction
  <2>2. new \in [1..Len(rows) -> Installment]
    BY <1>5, <2>1
  <2> HIDE DEF new
  <2> QED BY <2>1, <2>2, FunctionIsSeq
<1> HIDE DEF new, numbers, need, row, owed
<1>7. /\ w \in Tx /\ w.c = c /\ w.n = 0 /\ w.pay = owed /\ w.lag = t.lag
      /\ w.new = t.new /\ w.held = t.held /\ w.written = {row} \cup numbers
      /\ w.status = "RENEGOTIATED" /\ w.rows = new /\ w.term = t.term
  BY <1>2, <1>3, <1>4, <1>6 DEF Tx, ContractStatus
<1> HIDE DEF w
<1>8. /\ u.next = "closeCase" /\ u.want = need \ t.held /\ u.c = c /\ u.n = 0
      /\ u.pay = owed /\ u.lag = t.lag /\ u.new = t.new /\ u.held = t.held
      /\ u.written = {row} \cup numbers
      /\ u.status = "RENEGOTIATED" /\ u.rows = new /\ u.term = t.term
  BY <1>3, <1>4, <1>7, OnwardFields
<1> HIDE DEF u
<1>9. ControlOK(u)
  BY <1>1, <1>2, <1>3, <1>4, <1>8 DEF ControlOK, RenegotiateStages, ContractStatus
<1>10. LocksOK(u, rows)
  BY <1>3, <1>4, <1>8 DEF LocksOK
<1>11. WritesOK(u, rows, sums)
  <2>1. ASSUME NEW n \in DOMAIN rows, InstallmentRow(c, n) \in u.written
        PROVE  RowWrittenOK(u, n, rows[n], sums[n])
    <3>1. n \in Nat /\ n # u.n /\ n \in OpenNumbers(rows)
      BY <1>2, <1>4, <1>8, <2>1
    <3>2. PaidOn(u, n) = 0 /\ sums[n] \in Nat
      BY <1>2, <3>1 DEF PaidOn, RowOK
    <3>3. RowOK(u.rows[n], sums[n] + PaidOn(u, n)) /\ IsOpen(rows[n])
      BY <1>5, <1>8, <3>1, <3>2 DEF OpenNumbers
    <3> QED BY <3>1, <3>3 DEF RowWrittenOK
  <2> QED BY <1>8, <2>1 DEF WritesOK
<1>12. OpenTxOK(u)
  BY <1>1, <1>2, <1>3, <1>8, <1>10, <1>11 DEF OpenTxOK
<1>13. need \subseteq LockRow
  BY <1>4
<1> QED BY <1>3, <1>7, <1>8, <1>9, <1>12, <1>13, MoveStep DEF TxOK, u

\* closeCase writes the case only if it holds its row.
LEMMA CloseCaseStep ==
  ASSUME TInv, NEW p \in Procs, closeCase(p)
  PROVE  TInv'
<1> DEFINE t == tx[p]
           c == t.c
           rows == installments[c]
           sums == received[c]
           row == CaseRowOf(c)
           k == [kase[c] EXCEPT !.status = "RESOLVED", !.dunningStage = 0]
           w == IF NothingToResolve(kase[c]) \/ row \notin t.held THEN t
                ELSE [t EXCEPT !.written = @ \cup {row}, !.kase = k]
           u == Onward(w, "commit", {})
<1>1. t.next = "closeCase" /\ t.want = {} /\ job' = job /\ Goto(p, w, "commit", {})
  BY DEF closeCase, At, Waiting
<1>2. /\ t \in Tx /\ ControlOK(t) /\ OpenTxOK(t) /\ c \in Contracts /\ t.n \in Nat
      /\ DOMAIN rows \subseteq Nat /\ kase[c] \in CaseRow
  BY <1>1, OpenFacts DEF Tx
<1>3. /\ t.n = 0 /\ t.new # None /\ t.term \in Terms /\ "commit" \in TxStages
      /\ t.written \subseteq t.held /\ {} \subseteq LockRow
  BY <1>1, <1>2 DEF ControlOK, RegisterStages, RenegotiateStages, TxStages, OpenTxOK, LocksOK
<1>4. row \in LockRow /\ row # ContractRow(c) /\ \A n \in Nat : InstallmentRow(c, n) # row
  BY <1>2, RowNames
<1>5. k \in CaseRow /\ k.status = "RESOLVED"
  <2>1. 0 \in 0..5
    OBVIOUS
  <2> QED BY <1>2, <2>1 DEF CaseRow, CaseStatus
<1> HIDE DEF k, row
<1>6. /\ w \in Tx /\ w.c = c /\ w.n = t.n /\ w.pay = t.pay /\ w.lag = t.lag /\ w.new = t.new
      /\ w.held = t.held /\ w.status = t.status /\ w.rows = t.rows /\ w.term = t.term
      /\ w.written \in {t.written, t.written \cup {row}} /\ w.written \subseteq t.held
      /\ row \in w.written => w.kase.status # "NONE"
  <2>1. row \in t.written => t.kase.status # "NONE"
    BY <1>2 DEF ControlOK, row
  <2>2. CASE NothingToResolve(kase[c]) \/ row \notin t.held
    BY <1>2, <1>3, <2>1, <2>2
  <2>3. CASE ~(NothingToResolve(kase[c]) \/ row \notin t.held)
    <3>1. w = [t EXCEPT !.written = t.written \cup {row}, !.kase = k]
      BY <2>3
    <3> HIDE DEF w
    <3>2. /\ w \in Tx /\ w.c = c /\ w.n = t.n /\ w.pay = t.pay /\ w.lag = t.lag
          /\ w.new = t.new /\ w.held = t.held /\ w.status = t.status /\ w.rows = t.rows
          /\ w.term = t.term /\ w.written = t.written \cup {row} /\ w.kase = k
      BY <1>2, <1>4, <1>5, <3>1 DEF Tx
    <3> QED BY <1>3, <1>5, <2>3, <3>2
  <2> QED BY <2>2, <2>3
<1> HIDE DEF w
<1>7. /\ u.next = "commit" /\ u.want = {} /\ u.c = c /\ u.n = t.n /\ u.pay = t.pay
      /\ u.lag = t.lag /\ u.new = t.new /\ u.held = t.held /\ u.written = w.written
      /\ u.status = t.status /\ u.rows = t.rows /\ u.kase = w.kase /\ u.term = t.term
  BY <1>3, <1>6, OnwardFields
<1> HIDE DEF u
<1>8. ContractRow(c) \in w.written => t.status \in ContractStatus
  BY <1>2, <1>4, <1>6 DEF ControlOK
<1>9. ControlOK(u)
  BY <1>1, <1>2, <1>3, <1>6, <1>7, <1>8 DEF ControlOK, RenegotiateStages, row
<1>10. LocksOK(u, rows)
  BY <1>6, <1>7 DEF LocksOK
<1>11. WritesOK(u, rows, sums)
  <2>1. \A n \in Nat : InstallmentRow(c, n) \in u.written <=> InstallmentRow(c, n) \in t.written
    BY <1>4, <1>6, <1>7
  <2> QED BY <1>1, <1>2, <1>7, <2>1, SameWrites DEF OpenTxOK
<1>12. OpenTxOK(u)
  BY <1>1, <1>2, <1>3, <1>7, <1>10, <1>11 DEF OpenTxOK
<1> QED BY <1>1, <1>3, <1>6, <1>7, <1>9, <1>12, MoveStep DEF TxOK, u

\* countPayments: the contract is closed first, or nothing is.
LEMMA CountPaymentsStep ==
  ASSUME TInv, NEW p \in Procs, countPayments(p)
  PROVE  TInv' \/ (Rollback(p) /\ job' = job)
<1> DEFINE t == tx[p]
           c == t.c
           rows == installments[c]
           sums == received[c]
           row == ContractRow(c)
           need == {InstallmentRow(c, n) : n \in DOMAIN rows}
           w == [t EXCEPT !.written = {row}, !.status = "CANCELLED"]
           u == Onward(w, "cancelInstallments", need)
<1> SUFFICES ASSUME Goto(p, w, "cancelInstallments", need), job' = job
             PROVE  TInv'
  BY DEF countPayments
<1>1. t.next = "countPayments" /\ t.want = {}
  BY DEF countPayments, At, Waiting
<1>2. /\ t \in Tx /\ ControlOK(t) /\ OpenTxOK(t) /\ c \in Contracts
      /\ DOMAIN rows \subseteq Nat
  BY <1>1, OpenFacts
<1>3. /\ t.n = 0 /\ t.new = None /\ row \in t.held /\ "cancelInstallments" \in TxStages
  BY <1>1, <1>2 DEF ControlOK, RegisterStages, RenegotiateStages, TxStages, OpenTxOK, LocksOK
<1>4. /\ row \in LockRow /\ row # CaseRowOf(c) /\ \A n \in Nat : InstallmentRow(c, n) # row
      /\ need \subseteq LockRow /\ need = InstallmentRows(c, DOMAIN rows)
  BY <1>2, RowNames DEF InstallmentRows
<1> HIDE DEF need, row
<1>5. /\ w \in Tx /\ w.c = c /\ w.n = 0 /\ w.lag = t.lag /\ w.new = None
      /\ w.held = t.held /\ w.written = {row} /\ w.status = "CANCELLED"
  BY <1>2, <1>3, <1>4 DEF Tx, ContractStatus
<1> HIDE DEF w
<1>6. /\ u.next = "cancelInstallments" /\ u.want = need \ t.held /\ u.c = c /\ u.n = 0
      /\ u.lag = t.lag /\ u.new = None /\ u.held = t.held
      /\ u.written = {row} /\ u.status = "CANCELLED"
  BY <1>3, <1>4, <1>5, OnwardFields
<1> HIDE DEF u
<1>7. ControlOK(u)
  BY <1>1, <1>2, <1>3, <1>4, <1>6 DEF ControlOK, ContractStatus
<1>8. LocksOK(u, rows)
  BY <1>3, <1>4, <1>6 DEF LocksOK
<1>9. WritesOK(u, rows, sums)
  BY <1>2, <1>4, <1>6 DEF WritesOK
<1>10. OpenTxOK(u)
  BY <1>1, <1>2, <1>3, <1>6, <1>8, <1>9 DEF OpenTxOK
<1>11. w.held = tx[p].held /\ w.new = tx[p].new /\ need \subseteq LockRow
  BY <1>3, <1>4, <1>5
<1> QED BY <1>3, <1>5, <1>6, <1>7, <1>10, <1>11, MoveStep DEF TxOK, u

\* cancelInstallments closes every installment.
LEMMA CancelInstallmentsStep ==
  ASSUME TInv, NEW p \in Procs, cancelInstallments(p)
  PROVE  TInv'
<1> DEFINE t == tx[p]
           c == t.c
           rows == installments[c]
           sums == received[c]
           numbers == {InstallmentRow(c, n) : n \in DOMAIN rows}
           new == [n \in DOMAIN rows |-> [rows[n] EXCEPT !.status = "CANCELLED"]]
           w == [t EXCEPT !.written = @ \cup numbers, !.rows = new]
           u == Onward(w, "commit", {})
<1>1. t.next = "cancelInstallments" /\ t.want = {} /\ job' = job /\ Goto(p, w, "commit", {})
  BY DEF cancelInstallments, At, Waiting
<1>2. /\ t \in Tx /\ ControlOK(t) /\ OpenTxOK(t) /\ c \in Contracts
      /\ DOMAIN rows \subseteq Nat \ {0} /\ rows \in Seq(Installment) /\ sums \in Seq(Nat)
      /\ \A n \in DOMAIN rows : RowOK(rows[n], sums[n])
  BY <1>1, OpenFacts
<1>3. /\ t.n = 0 /\ t.new = None /\ t.written \subseteq t.held
      /\ InstallmentRows(c, DOMAIN rows) \subseteq t.held
      /\ "commit" \in TxStages /\ {} \subseteq LockRow
  BY <1>1, <1>2 DEF ControlOK, RegisterStages, RenegotiateStages, TxStages, OpenTxOK, LocksOK
<1>4. /\ numbers \subseteq LockRow /\ numbers \subseteq t.held
      /\ CaseRowOf(c) \notin numbers /\ ContractRow(c) \notin numbers
  BY <1>2, <1>3, RowNames DEF InstallmentRows
<1>5. ASSUME NEW n \in DOMAIN rows
      PROVE  RowOK(new[n], sums[n]) /\ new[n].status = "CANCELLED" /\ new[n] \in Installment
  <2>1. RowOK(new[n], sums[n]) /\ new[n].status = "CANCELLED"
    BY <1>2, StatusKeepsRow
  <2> QED BY <2>1 DEF RowOK
<1>6. new \in Seq(Installment)
  <2>1. Len(rows) \in Nat /\ DOMAIN rows = 1..Len(rows)
    BY <1>2, SeqIsFunction
  <2>2. new \in [1..Len(rows) -> Installment]
    BY <1>5, <2>1
  <2> HIDE DEF new
  <2> QED BY <2>1, <2>2, FunctionIsSeq
<1> HIDE DEF new, numbers
<1>7. /\ w \in Tx /\ w.c = c /\ w.n = 0 /\ w.lag = t.lag /\ w.new = None
      /\ w.held = t.held /\ w.written = t.written \cup numbers
      /\ w.status = t.status /\ w.kase = t.kase /\ w.rows = new
  BY <1>2, <1>3, <1>4, <1>6 DEF Tx
<1> HIDE DEF w
<1>8. /\ u.next = "commit" /\ u.want = {} /\ u.c = c /\ u.n = 0
      /\ u.lag = t.lag /\ u.new = None /\ u.held = t.held
      /\ u.written = t.written \cup numbers
      /\ u.status = t.status /\ u.kase = t.kase /\ u.rows = new
  BY <1>3, <1>7, OnwardFields
<1> HIDE DEF u
<1>9. ControlOK(u)
  BY <1>1, <1>2, <1>3, <1>4, <1>8 DEF ControlOK
<1>10. LocksOK(u, rows)
  BY <1>3, <1>4, <1>8 DEF LocksOK
<1>11. WritesOK(u, rows, sums)
  <2>1. ASSUME NEW n \in DOMAIN rows PROVE RowWrittenOK(u, n, rows[n], sums[n])
    <3>1. n # u.n
      BY <1>2, <1>8
    <3>2. PaidOn(u, n) = 0 /\ sums[n] \in Nat
      BY <1>2, <3>1 DEF PaidOn, RowOK
    <3> QED BY <1>5, <1>8, <3>1, <3>2 DEF RowWrittenOK
  <2> QED BY <1>8, <2>1 DEF WritesOK
<1>12. OpenTxOK(u)
  BY <1>2, <1>3, <1>8, <1>10, <1>11 DEF OpenTxOK
<1>13. w.held = tx[p].held /\ w.new = tx[p].new
  BY <1>3, <1>7
<1> QED BY <1>1, <1>3, <1>7, <1>8, <1>9, <1>12, <1>13, MoveStep DEF TxOK, u

\* writeStage: the batch escalates a case that exists.
LEMMA WriteStageStep ==
  ASSUME TInv, NEW p \in Procs, writeStage(p)
  PROVE  TInv'
<1> DEFINE t == tx[p]
           c == t.c
           rows == installments[c]
           row == CaseRowOf(c)
           k == [kase[c] EXCEPT !.dunningStage = t.days]
           w == [t EXCEPT !.written = {row}, !.kase = k]
           u == Onward(w, "commit", {})
<1>1. t.next = "writeStage" /\ t.want = {} /\ job' = job /\ Goto(p, w, "commit", {})
  BY DEF writeStage, At, Waiting
<1>2. /\ t \in Tx /\ ControlOK(t) /\ OpenTxOK(t) /\ c \in Contracts
      /\ DOMAIN rows \subseteq Nat /\ kase[c] \in CaseRow
  BY <1>1, OpenFacts
<1>3. /\ t.n = 0 /\ t.new = None /\ row \in t.held /\ t.days \in 0..5
      /\ kase[c].status # "NONE" /\ "commit" \in TxStages /\ {} \subseteq LockRow
  BY <1>1, <1>2 DEF ControlOK, RegisterStages, RenegotiateStages, TxStages, OpenTxOK, LocksOK
<1>4. row \in LockRow /\ row # ContractRow(c) /\ \A n \in Nat : InstallmentRow(c, n) # row
  BY <1>2, RowNames
<1>5. k \in CaseRow /\ k.status # "NONE"
  BY <1>2, <1>3 DEF CaseRow
<1> HIDE DEF k, row
<1>6. /\ w \in Tx /\ w.c = c /\ w.n = 0 /\ w.lag = t.lag /\ w.new = None
      /\ w.held = t.held /\ w.written = {row} /\ w.kase = k
  BY <1>2, <1>3, <1>4, <1>5 DEF Tx
<1> HIDE DEF w
<1>7. /\ u.next = "commit" /\ u.want = {} /\ u.c = c /\ u.n = 0
      /\ u.lag = t.lag /\ u.new = None /\ u.held = t.held
      /\ u.written = {row} /\ u.kase = k
  BY <1>3, <1>6, OnwardFields
<1> HIDE DEF u
<1>8. ControlOK(u)
  BY <1>1, <1>2, <1>3, <1>4, <1>5, <1>7 DEF ControlOK
<1>9. LocksOK(u, rows)
  BY <1>3, <1>7 DEF LocksOK
<1>10. WritesOK(u, rows, received[c])
  BY <1>2, <1>4, <1>7 DEF WritesOK
<1>11. OpenTxOK(u)
  BY <1>2, <1>3, <1>7, <1>9, <1>10 DEF OpenTxOK
<1>12. w.held = tx[p].held /\ w.new = tx[p].new
  BY <1>3, <1>6
<1> QED BY <1>1, <1>3, <1>6, <1>7, <1>8, <1>11, <1>12, MoveStep DEF TxOK, u

-----------------------------------------------------------------------------
(* Beginnings, locks and ends *)

\* Rolling back, of its own or because the process died, frees the locks.
LEMMA RollbackStep ==
  ASSUME TInv, NEW p \in Procs, Rollback(p), job' = job
  PROVE  TInv'
<1>1. tx' = [tx EXCEPT ![p] = Idle] /\ UNCHANGED Committed
  BY DEF Rollback
<1>2. Idle \in Tx /\ TxOK(Idle) /\ Idle.held = {} /\ Idle.new = None
  BY IdleOK DEF Idle
<1>3. job' \in [Batch -> JobRow] /\ \A b \in Batch : JobOK(job'[b])
  BY DEF TInv
<1>4. \A q \in Procs \ {p} : /\ Idle.held \cap tx[q].held = {}
                             /\ Idle.new # None => tx[q].new # Idle.new
  BY <1>2
<1> HIDE DEF Idle
<1> QED BY <1>1, <1>2, <1>3, <1>4, OwnStep

\* A row is granted to one transaction at a time.
LEMMA AcquireStep ==
  ASSUME TInv, NEW p \in Procs, Acquire(p)
  PROVE  TInv'
<1> DEFINE t == tx[p]
<1>1. t \in Tx
  BY DEF TInv
<1>2. PICK row \in t.want :
         /\ FreeFor(p, row)
         /\ tx' = [tx EXCEPT ![p].want = @ \ {row}, ![p].held = @ \cup {row}]
         /\ UNCHANGED <<Committed, job>>
  BY DEF Acquire
<1> DEFINE u == [t EXCEPT !.want = @ \ {row}, !.held = @ \cup {row}]
<1>3. t.next # "begin"
  BY <1>2 DEF TInv, TxOK, ControlOK, Idle
<1>4. ControlOK(t) /\ OpenTxOK(t) /\ t.c \in Contracts /\ t.n \in Nat
      /\ DOMAIN installments[t.c] \subseteq Nat
  BY <1>3, OpenFacts DEF Tx
<1>5. /\ u \in Tx /\ u.next = t.next /\ u.then = t.then /\ u.c = t.c /\ u.n = t.n
      /\ u.pay = t.pay /\ u.lag = t.lag /\ u.new = t.new /\ u.term = t.term
      /\ u.held = t.held \cup {row} /\ u.want = t.want \ {row} /\ u.written = t.written
      /\ u.status = t.status /\ u.rows = t.rows /\ u.kase = t.kase /\ u.days = t.days
      /\ u.overdue = t.overdue /\ u.oldStatus = t.oldStatus /\ u.oldCase = t.oldCase
  BY <1>1, <1>2 DEF Tx
<1>6. tx' = [tx EXCEPT ![p] = u]
  BY <1>1, <1>2 DEF TInv, Tx
<1> HIDE DEF u
<1>7. ControlOK(u)
  BY <1>3, <1>4, <1>5 DEF ControlOK
<1>8. u.held \cup u.want = t.held \cup t.want
  BY <1>2, <1>5
<1>9. LocksOK(u, installments[t.c])
  BY <1>4, <1>5, <1>8 DEF LocksOK, OpenTxOK
<1>10. WritesOK(u, installments[t.c], received[t.c])
  BY <1>4, <1>5, SameWrites DEF OpenTxOK
<1>11. OpenTxOK(u)
  BY <1>4, <1>5, <1>9, <1>10 DEF OpenTxOK
<1>12. \A q \in Procs \ {p} : /\ u.held \cap tx[q].held = {}
                              /\ u.new # None => tx[q].new # u.new
  BY <1>2, <1>5 DEF TInv, FreeFor
<1>13. job' \in [Batch -> JobRow] /\ \A b \in Batch : JobOK(job'[b])
  BY <1>2 DEF TInv
<1> QED BY <1>2, <1>5, <1>6, <1>7, <1>11, <1>12, <1>13, OwnStep DEF TxOK

\* A transaction that begins holds nothing.
LEMMA BeginStep ==
  ASSUME TInv, NEW p \in Procs, NEW w \in Tx, NEW next \in TxStages,
         NEW rows, rows \subseteq LockRow, Goto(p, w, next, rows), w.held = {},
         w.new # None => \A q \in Procs : tx[q].new # w.new,
         TxOK(Onward(w, next, rows)),
         job' \in [Batch -> JobRow], \A b \in Batch : JobOK(job'[b])
  PROVE  TInv'
<1> DEFINE u == Onward(w, next, rows)
<1>1. tx' = [tx EXCEPT ![p] = u] /\ UNCHANGED Committed
  BY DEF Goto, Onward
<1>2. u \in Tx /\ u.held = {} /\ u.new = w.new
  BY OnwardFields
<1> HIDE DEF u
<1>3. \A q \in Procs \ {p} : /\ u.held \cap tx[q].held = {}
                             /\ u.new # None => tx[q].new # u.new
  BY <1>2
<1> QED BY <1>1, <1>2, <1>3, OwnStep DEF u

\* register and settleInstallment begin.
LEMMA BeginRegisterStep ==
  ASSUME TInv, NEW p \in Procs, NEW c \in Contracts, NEW n \in DOMAIN installments[c],
         NEW pay \in Nat, NEW lag \in Backdating, beginRegister(p, c, n, pay, lag)
  PROVE  TInv'
<1> DEFINE w == [Idle EXCEPT !.c = c, !.n = n, !.pay = pay, !.lag = lag]
           need == {ContractRow(c)}
           u == Onward(w, "lockInstallment", need)
<1>1. pay > 0 /\ job' = job /\ Goto(p, w, "lockInstallment", need)
  BY DEF beginRegister
<1>2. /\ installments[c] \in Seq(Installment)
      /\ contract[c].status = "NONE" => installments[c] = <<>>
  BY DEF TInv, TablesOK, RowsOK
<1>3. contract[c].status # "NONE" /\ n \in Nat \ {0}
  <2>1. DOMAIN <<>> = {}
    OBVIOUS
  <2>2. contract[c].status # "NONE"
    BY <1>2, <2>1
  <2> QED BY <1>2, <2>2, SeqIsFunction
<1>4. need \subseteq LockRow /\ "lockInstallment" \in TxStages
  BY RowNames DEF TxStages, RegisterStages
<1>5. /\ w \in Tx /\ w.c = c /\ w.n = n /\ w.pay = pay /\ w.lag = lag /\ w.new = None
      /\ w.held = {} /\ w.written = {}
  <2>1. /\ Idle \in Tx /\ Idle.new = None /\ Idle.held = {} /\ Idle.written = {}
    BY IdleOK DEF Idle
  <2> HIDE DEF Idle
  <2> QED BY <1>3, <2>1 DEF Tx
<1> HIDE DEF w, need
<1>6. /\ u.next = "lockInstallment" /\ u.want = need \ w.held /\ u.c = c /\ u.n = n /\ u.pay = pay
      /\ u.lag = lag /\ u.new = None /\ u.held = {} /\ u.written = {}
  <2>1. /\ u.next = "lockInstallment" /\ u.want = need \ w.held /\ u.c = w.c /\ u.n = w.n
        /\ u.pay = w.pay /\ u.lag = w.lag /\ u.new = w.new /\ u.held = w.held
        /\ u.written = w.written
    <3>1. w \in Tx /\ "lockInstallment" \in TxStages /\ need \subseteq LockRow
      BY <1>4, <1>5
    <3> QED BY <3>1, OnwardFields
  <2> HIDE DEF u
  <2> QED BY <1>5, <2>1
<1> HIDE DEF u
<1>7. ControlOK(u)
  BY <1>1, <1>3, <1>6 DEF ControlOK, RegisterStages
<1>8. OpenTxOK(u)
  <2>1. LocksOK(u, installments[c])
    BY <1>6 DEF LocksOK
  <2>2. WritesOK(u, installments[c], received[c])
    BY <1>6 DEF WritesOK
  <2> QED BY <1>3, <1>6, <2>1, <2>2 DEF OpenTxOK
<1>9. job' \in [Batch -> JobRow] /\ \A b \in Batch : JobOK(job'[b])
  BY <1>1 DEF TInv
<1> QED BY <1>1, <1>4, <1>5, <1>6, <1>7, <1>8, <1>9, BeginStep DEF TxOK, u

\* renegotiate begins.
LEMMA BeginRenegotiateStep ==
  ASSUME TInv, NEW p \in Procs, NEW c \in Contracts, contract[c].status # "NONE",
         NEW new \in Contracts \ {c}, NEW term \in Terms, beginRenegotiate(p, c, new, term)
  PROVE  TInv'
<1> DEFINE w == [Idle EXCEPT !.c = c, !.new = new, !.term = term]
           need == {ContractRow(c)}
           u == Onward(w, "lockInstallments", need)
<1>1. /\ job' = job /\ Goto(p, w, "lockInstallments", need)
      /\ contract[new].status = "NONE" /\ \A q \in Procs : tx[q].new # new
  BY DEF beginRenegotiate
<1>2. need \subseteq LockRow /\ "lockInstallments" \in TxStages
  BY RowNames DEF TxStages, RenegotiateStages
<1>3. /\ w \in Tx /\ w.c = c /\ w.n = 0 /\ w.new = new /\ w.term = term
      /\ w.held = {} /\ w.written = {}
  <2>1. /\ Idle \in Tx /\ Idle.n = 0 /\ Idle.held = {} /\ Idle.written = {}
    BY IdleOK DEF Idle
  <2> HIDE DEF Idle
  <2> QED BY <2>1 DEF Tx
<1> HIDE DEF w
<1>4. /\ u.next = "lockInstallments" /\ u.want = need \ w.held /\ u.c = c /\ u.n = 0
      /\ u.new = new /\ u.term = term /\ u.held = {} /\ u.written = {}
  BY <1>2, <1>3, OnwardFields
<1> HIDE DEF u
<1>5. ControlOK(u)
  BY <1>4, LedgerAssumption DEF ControlOK, RenegotiateStages
<1>6. OpenTxOK(u)
  <2>1. LocksOK(u, installments[c])
    BY <1>3, <1>4 DEF LocksOK
  <2>2. WritesOK(u, installments[c], received[c])
    BY <1>4 DEF WritesOK
  <2> QED BY <1>1, <1>4, <2>1, <2>2 DEF OpenTxOK
<1>7. job' \in [Batch -> JobRow] /\ \A b \in Batch : JobOK(job'[b])
  BY <1>1 DEF TInv
<1> HIDE DEF need
<1> QED BY <1>1, <1>2, <1>3, <1>4, <1>5, <1>6, <1>7, BeginStep DEF TxOK, u

\* cancel begins.
LEMMA BeginCancelStep ==
  ASSUME TInv, NEW p \in Procs, NEW c \in Contracts, beginCancel(p, c)
  PROVE  TInv'
<1> DEFINE w == [Idle EXCEPT !.c = c]
           need == {ContractRow(c)}
           u == Onward(w, "countPayments", need)
<1>1. /\ job' = job /\ Goto(p, w, "countPayments", need) /\ contract[c].status # "NONE"
  BY DEF beginCancel
<1>2. need \subseteq LockRow /\ "countPayments" \in TxStages
  BY RowNames DEF TxStages
<1>3. /\ w \in Tx /\ w.c = c /\ w.n = 0 /\ w.new = None /\ w.held = {} /\ w.written = {}
  <2>1. /\ Idle \in Tx /\ Idle.n = 0 /\ Idle.new = None /\ Idle.held = {} /\ Idle.written = {}
    BY IdleOK DEF Idle
  <2> HIDE DEF Idle
  <2> QED BY <2>1 DEF Tx
<1> HIDE DEF w
<1>4. /\ u.next = "countPayments" /\ u.want = need \ w.held /\ u.c = c /\ u.n = 0
      /\ u.new = None /\ u.held = {} /\ u.written = {}
  BY <1>2, <1>3, OnwardFields
<1> HIDE DEF u
<1>5. ControlOK(u)
  BY <1>4 DEF ControlOK
<1>6. OpenTxOK(u)
  <2>1. LocksOK(u, installments[c])
    BY <1>3, <1>4 DEF LocksOK
  <2>2. WritesOK(u, installments[c], received[c])
    BY <1>4 DEF WritesOK
  <2> QED BY <1>1, <1>4, <2>1, <2>2 DEF OpenTxOK
<1>7. job' \in [Batch -> JobRow] /\ \A b \in Batch : JobOK(job'[b])
  BY <1>1 DEF TInv
<1> HIDE DEF need
<1> QED BY <1>1, <1>2, <1>3, <1>4, <1>5, <1>6, <1>7, BeginStep DEF TxOK, u

\* So do all the beginnings.
LEMMA BeginKeepsInv ==
  ASSUME TInv, NEW p \in Procs, Begin(p)
  PROVE  TInv'
<1>1. PICK c \in Contracts :
        \/ \E n \in DOMAIN installments[c], lag \in Backdating :
              \/ \E pay \in PayAmounts : beginRegister(p, c, n, pay, lag)
              \/ beginSettle(p, c, n, lag)
        \/ /\ contract[c].status # "NONE"
           /\ \E new \in Contracts \ {c}, term \in Terms : beginRenegotiate(p, c, new, term)
        \/ beginCancel(p, c)
  BY DEF Begin
<1>2. ASSUME NEW n \in DOMAIN installments[c], NEW lag \in Backdating,
             \/ \E pay \in PayAmounts : beginRegister(p, c, n, pay, lag)
             \/ beginSettle(p, c, n, lag)
      PROVE  TInv'
  <2> DEFINE due == TotalOutstanding(installments[c][n], today - lag)
  <2>1. PayAmounts \subseteq Nat /\ lag \in Nat /\ today \in Nat
    BY LedgerAssumption DEF TInv, TablesOK
  <2>2. installments[c][n] \in Installment
    BY DEF TInv, TablesOK, RowsOK, RowOK
  <2>3. due \in Nat
    BY <2>1, <2>2, TotalNat
  <2>4. \E pay \in Nat : beginRegister(p, c, n, pay, lag)
    BY <1>2, <2>1, <2>3 DEF beginSettle
  <2> QED BY <2>4, BeginRegisterStep
<1> QED BY <1>1, <1>2, BeginRenegotiateStep, BeginCancelStep

\* The batch: its lists hold contracts and cases that exist.
LEMMA JobKeepsInv ==
  ASSUME TInv, NEW b \in Batch, Job(b)
  PROVE  TInv'
<1>1. b \in Procs /\ tx \in [Procs -> Tx] /\ tx[b] \in Tx /\ TxOK(tx[b])
      /\ job \in [Batch -> JobRow] /\ \A d \in Batch : JobOK(job[d])
  BY DEF TInv, Procs
<1>2. ASSUME UNCHANGED <<Committed, tx>>, NEW j \in JobRow, JobOK(j),
             job' = [job EXCEPT ![b] = j]
      PROVE  TInv'
  <2>1. tx' = [tx EXCEPT ![b] = tx[b]] /\ UNCHANGED Committed
    BY <1>1, <1>2
  <2>2. job' \in [Batch -> JobRow] /\ \A d \in Batch : JobOK(job'[d])
    BY <1>1, <1>2
  <2>3. \A q \in Procs \ {b} : /\ tx[b].held \cap tx[q].held = {}
                               /\ tx[b].new # None => tx[q].new # tx[b].new
    BY <1>1 DEF TInv
  <2> QED BY <1>1, <2>1, <2>2, <2>3, OwnStep
<1>3. CASE refreshAll(b)
  <2> DEFINE j == [phase |-> "refresh", todo |-> {c \in Contracts : contract[c].status \in Live}]
  <2>1. j \in JobRow /\ JobOK(j)
    BY DEF JobRow, JobOK, Live
  <2> QED BY <1>2, <1>3, <2>1 DEF refreshAll
<1>4. CASE listCases(b)
  <2> DEFINE due(c) == /\ ~NothingToResolve(kase[c])
                       /\ kase[c].daysOverdue > 0
                       /\ dunningStageFor(kase[c].daysOverdue) > kase[c].dunningStage
             todo == {<<c, dunningStageFor(kase[c].daysOverdue)>> :
                        c \in {d \in Contracts : due(d)}}
             j == [phase |-> "dunning", todo |-> todo]
  <2>1. ASSUME NEW e \in todo
        PROVE  e \in Contracts \X (0..5) /\ kase[e[1]].status # "NONE"
    <3>1. PICK c \in Contracts : due(c) /\ e = <<c, dunningStageFor(kase[c].daysOverdue)>>
      OBVIOUS
    <3>2. dunningStageFor(kase[c].daysOverdue) \in 0..5
      BY StageType
    <3> QED BY <3>1, <3>2 DEF NothingToResolve
  <2>2. job' = [job EXCEPT ![b] = j] /\ UNCHANGED <<Committed, tx>>
    BY <1>4 DEF listCases
  <2> HIDE DEF todo
  <2>3. j \in JobRow
    BY <2>1 DEF JobRow
  <2>4. JobOK(j)
    BY <2>1 DEF JobOK
  <2> QED BY <1>2, <2>2, <2>3, <2>4
<1>5. CASE endRun(b)
  <2>1. NoJob \in JobRow /\ JobOK(NoJob)
    BY DEF NoJob, JobRow, JobOK
  <2>2. job' = [job EXCEPT ![b] = NoJob] /\ UNCHANGED <<Committed, tx>>
    BY <1>5 DEF endRun
  <2> QED BY <1>2, <2>1, <2>2
<1>6. ASSUME NEW e \in job[b].todo, job' = [job EXCEPT ![b].todo = @ \ {e}]
      PROVE  job' \in [Batch -> JobRow] /\ \A d \in Batch : JobOK(job'[d])
  <2> DEFINE j == [job[b] EXCEPT !.todo = @ \ {e}]
  <2>1. job[b] \in JobRow /\ JobOK(job[b])
    BY <1>1
  <2>2. j \in JobRow /\ j.phase = job[b].phase /\ j.todo = job[b].todo \ {e}
    BY <2>1 DEF JobRow
  <2>3. job' = [job EXCEPT ![b] = j]
    BY <1>1, <1>6
  <2> HIDE DEF j
  <2>4. JobOK(j)
    BY <2>1, <2>2 DEF JobOK
  <2> QED BY <1>1, <2>2, <2>3, <2>4
<1>7. /\ Idle \in Tx /\ Idle.n = 0 /\ Idle.new = None /\ Idle.held = {} /\ Idle.written = {}
  BY IdleOK DEF Idle
<1>8. CASE refreshNext(b)
  <2>1. PICK c \in job[b].todo : /\ Goto(b, [Idle EXCEPT !.c = c], "readContract", {})
                                 /\ job' = [job EXCEPT ![b].todo = @ \ {c}]
    BY <1>8 DEF refreshNext
  <2> DEFINE w == [Idle EXCEPT !.c = c]
             u == Onward(w, "readContract", {})
  <2>2. c \in Contracts /\ contract[c].status # "NONE"
    BY <1>1, <1>8 DEF refreshNext, JobOK
  <2>3. "readContract" \in TxStages /\ {} \subseteq LockRow
    BY DEF TxStages, RegisterStages
  <2> HIDE DEF Idle
  <2>4. w \in Tx /\ w.c = c /\ w.n = 0 /\ w.new = None /\ w.held = {} /\ w.written = {}
    BY <1>7, <2>2 DEF Tx
  <2>5. Goto(b, w, "readContract", {})
    BY <2>1
  <2> HIDE DEF w
  <2>6. /\ u.next = "readContract" /\ u.want = {} /\ u.c = c /\ u.n = 0
        /\ u.new = None /\ u.held = {} /\ u.written = {}
    BY <2>3, <2>4, OnwardFields
  <2> HIDE DEF u
  <2>7. ControlOK(u)
    BY <2>2, <2>6 DEF ControlOK
  <2>8. LocksOK(u, installments[c]) /\ WritesOK(u, installments[c], received[c])
    BY <2>6 DEF LocksOK, WritesOK
  <2>9. OpenTxOK(u)
    BY <2>2, <2>6, <2>8 DEF OpenTxOK
  <2> QED BY <1>1, <1>6, <2>1, <2>3, <2>4, <2>5, <2>6, <2>7, <2>9, BeginStep DEF TxOK, u
<1>9. CASE escalateNext(b)
  <2>1. PICK e \in job[b].todo :
           /\ Goto(b, [Idle EXCEPT !.c = e[1], !.days = e[2]], "writeStage", {CaseRowOf(e[1])})
           /\ job' = [job EXCEPT ![b].todo = @ \ {e}]
    BY <1>9 DEF escalateNext
  <2>2. e \in Contracts \X (0..5) /\ kase[e[1]].status # "NONE"
    BY <1>1, <1>9 DEF escalateNext, JobOK
  <2>3. PICK c \in Contracts, s \in 0..5 : e[1] = c /\ e[2] = s
    BY <2>2
  <2> DEFINE w == [Idle EXCEPT !.c = c, !.days = s]
             need == {CaseRowOf(c)}
             u == Onward(w, "writeStage", need)
  <2>4. kase[c].status # "NONE" /\ contract[c].status # "NONE"
    BY <2>2, <2>3 DEF TInv, TablesOK
  <2>5. "writeStage" \in TxStages /\ need \subseteq LockRow
    BY RowNames DEF TxStages
  <2>6. Goto(b, w, "writeStage", need)
    BY <2>1, <2>3
  <2> DEFINE v == [Idle EXCEPT !.c = c]
  <2>12. v \in Tx /\ v.c = c /\ v.n = 0 /\ v.new = None /\ v.held = {} /\ v.written = {}
    BY <1>7 DEF Tx
  <2>13. w = [v EXCEPT !.days = s]
    BY <1>7 DEF Tx
  <2>14. s \in Nat
    OBVIOUS
  <2> HIDE DEF v, w
  <2>7. /\ w \in Tx /\ w.c = c /\ w.n = 0 /\ w.new = None /\ w.held = {} /\ w.written = {}
        /\ w.days = s
    BY <2>12, <2>13, <2>14 DEF Tx
  <2>8. /\ u.next = "writeStage" /\ u.want = need \ w.held /\ u.c = c /\ u.n = 0
        /\ u.new = None /\ u.held = {} /\ u.written = {} /\ u.days = s
    BY <2>5, <2>7, OnwardFields
  <2> HIDE DEF u
  <2>9. ControlOK(u)
    BY <2>8 DEF ControlOK
  <2>10. LocksOK(u, installments[c]) /\ WritesOK(u, installments[c], received[c])
    BY <2>7, <2>8 DEF LocksOK, WritesOK
  <2>11. OpenTxOK(u)
    BY <2>4, <2>8, <2>10 DEF OpenTxOK
  <2> HIDE DEF need
  <2> QED BY <1>1, <1>6, <2>1, <2>5, <2>6, <2>7, <2>8, <2>9, <2>11, BeginStep DEF TxOK, u
<1> QED BY <1>3, <1>4, <1>5, <1>8, <1>9 DEF Job

-----------------------------------------------------------------------------
(* Steps that change the tables *)

\* A transaction keeps its facts while others commit: what it has locked or written
\* stays, the contract it works on goes on to exist.
LEMMA TxFrame ==
  ASSUME TInv, NEW q \in Procs, tx'[q] = tx[q], today' = today,
         tx[q].next # "begin" =>
            LET t == tx[q] IN
            /\ contract'[t.c].status # "NONE"
            /\ t.new # None => contract'[t.new] = contract[t.new]
            /\ DOMAIN installments'[t.c] = DOMAIN installments[t.c]
            /\ \A n \in DOMAIN installments[t.c] :
                  InstallmentRow(t.c, n) \in t.held
                     => /\ installments'[t.c][n] = installments[t.c][n]
                        /\ received'[t.c][n] = received[t.c][n]
            /\ kase[t.c].status # "NONE" => kase'[t.c].status # "NONE"
  PROVE  TxOK(tx[q])'
<1> DEFINE t == tx[q]
<1>1. TxOK(t)
  BY DEF TInv
<1>2. ControlOK(t)'
  BY <1>1 DEF TxOK, ControlOK
<1>3. CASE t.next = "begin"
  BY <1>2, <1>3 DEF TxOK
<1>4. CASE t.next # "begin"
  <2>1. OpenTxOK(t) /\ t.written \subseteq t.held
    BY <1>1, <1>4 DEF TxOK, OpenTxOK, LocksOK
  <2>2. LocksOK(t, installments[t.c])'
    BY <1>4, <2>1 DEF OpenTxOK, LocksOK
  <2>3. WritesOK(t, installments[t.c], received[t.c])'
    <3>1. WritesOK(t, installments[t.c], received[t.c])
      BY <2>1 DEF OpenTxOK
    <3>2. ASSUME NEW n \in DOMAIN installments[t.c], InstallmentRow(t.c, n) \in t.written
          PROVE  RowWrittenOK(t, n, installments[t.c][n], received[t.c][n])'
      <4>1. RowWrittenOK(t, n, installments[t.c][n], received[t.c][n])
        BY <3>1, <3>2 DEF WritesOK
      <4>2. installments'[t.c][n] = installments[t.c][n] /\ received'[t.c][n] = received[t.c][n]
        BY <1>4, <2>1, <3>2
      <4> QED BY <4>1, <4>2 DEF RowWrittenOK
    <3> QED BY <1>4, <3>1, <3>2 DEF WritesOK
  <2>4. OpenTxOK(t)'
    BY <1>4, <2>1, <2>2, <2>3 DEF OpenTxOK
  <2> QED BY <1>2, <2>4 DEF TxOK
<1> QED BY <1>3, <1>4

\* The lists of the batch keep to what exists.
LEMMA JobFrame ==
  ASSUME TInv, job' = job,
         \A c \in Contracts :
            /\ contract[c].status # "NONE" => contract'[c].status # "NONE"
            /\ kase[c].status # "NONE" => kase'[c].status # "NONE"
  PROVE  job' \in [Batch -> JobRow] /\ \A b \in Batch : JobOK(job[b])'
BY DEF TInv, JobOK

\* Midnight finds no transaction open.
LEMMA MidnightStep ==
  ASSUME TInv, Midnight
  PROVE  TInv'
<1>1. /\ \A p \in Procs : tx[p] = Idle
      /\ UNCHANGED <<contract, installments, received, kase, tx, job>>
      /\ today' \in Nat
  BY LedgerAssumption DEF Midnight, NextDay, TInv, TablesOK
<1>2. TablesOK'
  BY <1>1 DEF TInv, TablesOK
<1>3. ASSUME NEW p \in Procs PROVE TxOK(tx[p])'
  <2>1. TxOK(tx[p]) /\ tx[p].next = "begin" /\ tx'[p] = tx[p]
    BY <1>1, IdleOK DEF Idle
  <2> QED BY <2>1 DEF TxOK, ControlOK
<1>4. job' \in [Batch -> JobRow] /\ \A b \in Batch : JobOK(job[b])'
  BY <1>1, JobFrame
<1> QED BY <1>1, <1>2, <1>3, <1>4 DEF TInv

\* Statements on a case, which exists before and after.
LEMMA CaseStatementStep ==
  ASSUME TInv, NEW c \in Contracts, CaseStatement(c)
  PROVE  TInv'
<1>1. /\ UNCHANGED <<today, contract, installments, received, tx, job>>
      /\ kase[c].status # "NONE"
      /\ \E s \in {"IN_PROGRESS", "PROMISE"} : kase' = [kase EXCEPT ![c].status = s]
  BY DEF CaseStatement, addInteraction, addPromise, breakPromise
<1>2. kase \in [Contracts -> CaseRow]
  BY DEF TInv, TablesOK
<1>3. /\ kase' \in [Contracts -> CaseRow]
      /\ \A d \in Contracts : kase'[d].status = "NONE" <=> kase[d].status = "NONE"
  <2>1. PICK s \in {"IN_PROGRESS", "PROMISE"} : kase' = [kase EXCEPT ![c].status = s]
    BY <1>1
  <2> DEFINE k == [kase[c] EXCEPT !.status = s]
  <2>2. k \in CaseRow /\ k.status = s
    BY <1>2 DEF CaseRow, CaseStatus, ActiveCase
  <2>3. kase' = [kase EXCEPT ![c] = k]
    BY <1>2, <2>1
  <2> HIDE DEF k
  <2> QED BY <1>1, <1>2, <2>2, <2>3
<1>4. TablesOK'
  BY <1>1, <1>3 DEF TInv, TablesOK
<1>5. ASSUME NEW q \in Procs PROVE TxOK(tx[q])'
  <2>1. tx[q].next # "begin" => tx[q].c \in Contracts /\ contract[tx[q].c].status # "NONE"
    BY DEF TInv, TxOK, ControlOK, OpenTxOK
  <2> QED BY <1>1, <1>3, <2>1, TxFrame
<1>6. job' \in [Batch -> JobRow] /\ \A b \in Batch : JobOK(job[b])'
  BY <1>1, <1>3, JobFrame
<1> QED BY <1>1, <1>4, <1>5, <1>6 DEF TInv

\* createFromProposal, on a row that no transaction has taken.
LEMMA CreateKeepsTx ==
  ASSUME TInv, NEW c \in Loans, NEW offer \in Offers, Create(c, offer)
  PROVE  TInv'
<1> DEFINE first == today + offer.firstDueIn
           rows == NewInstallments(offer.principal, offer.termMonths, first)
           sums == Nothing(offer.termMonths)
<1>1. /\ contract[c].status = "NONE" /\ first \in Nat /\ c \in Contracts
      /\ contract' = [contract EXCEPT ![c] = [status |-> "ACTIVE", renegotiatedFrom |-> None]]
      /\ installments' = [installments EXCEPT ![c] = rows]
      /\ received' = [received EXCEPT ![c] = sums]
      /\ UNCHANGED <<today, kase, tx, job>>
      /\ \A p \in Procs : tx[p].new # c
  BY LedgerAssumption DEF Create, createFromProposal
<1>2. offer.principal \in Nat /\ offer.termMonths \in Nat \ {0}
  BY LedgerAssumption
<1>3. RowsOK(rows, sums)
  <2> HIDE DEF first
  <2> QED BY <1>1, <1>2, NewRows
<1> HIDE DEF rows, sums, first
<1>4. rows \in Seq(Installment) /\ sums \in Seq(Nat)
  BY <1>3 DEF RowsOK
<1>5. /\ contract' \in [Contracts -> [status : ContractStatus \cup {"NONE"},
                                      renegotiatedFrom : Contracts \cup {None}]]
      /\ contract'[c].status = "ACTIVE"
      /\ installments' \in [Contracts -> Seq(Installment)] /\ installments'[c] = rows
      /\ received' \in [Contracts -> Seq(Nat)] /\ received'[c] = sums
      /\ \A d \in Contracts \ {c} : /\ contract'[d] = contract[d]
                                    /\ installments'[d] = installments[d]
                                    /\ received'[d] = received[d]
  BY <1>1, <1>4 DEF TInv, TablesOK, ContractStatus, Live
<1>6. TablesOK'
  BY <1>1, <1>3, <1>5 DEF TInv, TablesOK
<1>7. ASSUME NEW q \in Procs PROVE TxOK(tx[q])'
  <2>1. tx[q].next # "begin" => /\ tx[q].c \in Contracts /\ contract[tx[q].c].status # "NONE"
                                /\ tx[q].new \in Contracts \cup {None}
    BY DEF TInv, TxOK, ControlOK, OpenTxOK, Tx
  <2> QED BY <1>1, <1>5, <2>1, TxFrame
<1>8. job' \in [Batch -> JobRow] /\ \A b \in Batch : JobOK(job[b])'
  BY <1>1, <1>5, JobFrame
<1> QED BY <1>1, <1>6, <1>7, <1>8 DEF TInv

\* What a commit makes of the tables, in terms of what the transaction saw.
LEMMA CommitWrites ==
  ASSUME TInv, NEW p \in Procs, Commit(p)
  PROVE  LET t == tx[p]
             c == t.c
         IN
         /\ t.next = "commit" /\ t \in Tx /\ ControlOK(t) /\ OpenTxOK(t) /\ c \in Contracts
         /\ contract[c].status # "NONE"
         /\ contract' \in [Contracts -> [status : ContractStatus \cup {"NONE"},
                                         renegotiatedFrom : Contracts \cup {None}]]
         /\ contract'[c].status = SeenStatus(p) /\ SeenStatus(p) \in ContractStatus
         /\ contract'[c].renegotiatedFrom = contract[c].renegotiatedFrom
         /\ installments' \in [Contracts -> Seq(Installment)]
         /\ installments'[c] = SeenRows(p)
         /\ received' \in [Contracts -> Seq(Nat)]
         /\ Len(received'[c]) = Len(received[c])
         /\ \A n \in DOMAIN received[c] : received'[c][n] = received[c][n] + PaidOn(t, n)
         /\ kase' \in [Contracts -> CaseRow]
         /\ kase'[c] = SeenCase(p)
         /\ \A d \in Contracts \ {c} : kase'[d] = kase[d]
         /\ \A d \in Contracts \ {c, t.new} :
               /\ contract'[d] = contract[d]
               /\ installments'[d] = installments[d]
               /\ received'[d] = received[d]
         /\ t.new # None =>
               /\ t.new \in Contracts \ {c} /\ contract[t.new].status = "NONE"
               /\ contract'[t.new] = [status |-> "ACTIVE", renegotiatedFrom |-> c]
               /\ installments'[t.new] = NewInstallments(t.pay, t.term.termMonths,
                                                         today + t.term.firstDueIn)
               /\ received'[t.new] = Nothing(t.term.termMonths)
               /\ RowsOK(installments'[t.new], received'[t.new])
         /\ today' = today /\ job' = job /\ tx' = [tx EXCEPT ![p] = Idle]
<1> DEFINE t == tx[p]
           c == t.c
           fresh == NewInstallments(t.pay, t.term.termMonths, today + t.term.firstDueIn)
           none == Nothing(t.term.termMonths)
<1>1. t.next = "commit" /\ today' = today /\ job' = job /\ tx' = [tx EXCEPT ![p] = Idle]
  BY DEF Commit, At
<1>2. /\ t \in Tx /\ ControlOK(t) /\ OpenTxOK(t) /\ c \in Contracts
      /\ DOMAIN installments[c] \subseteq Nat \ {0} /\ DOMAIN received[c] = DOMAIN installments[c]
      /\ received[c] \in Seq(Nat) /\ kase[c] \in CaseRow
      /\ contract[c].status # "NONE"
  BY <1>1, OpenFacts DEF OpenTxOK
<1>3. SeenStatus(p) \in ContractStatus
  BY <1>1, SeenStatusOK
<1>4. SeenRows(p) \in Seq(Installment)
  BY <1>1, SeenRowsOK
<1>5. SeenCase(p) \in CaseRow
  BY <1>2 DEF SeenCase, Tx
<1>6. /\ contract \in [Contracts -> [status : ContractStatus \cup {"NONE"},
                                     renegotiatedFrom : Contracts \cup {None}]]
      /\ installments \in [Contracts -> Seq(Installment)]
      /\ received \in [Contracts -> Seq(Nat)]
      /\ kase \in [Contracts -> CaseRow]
  BY DEF TInv, TablesOK
<1>7. t.new # None => /\ t.new \in Contracts \ {c} /\ contract[t.new].status = "NONE"
                      /\ RowsOK(fresh, none)
  <2> SUFFICES ASSUME t.new # None
               PROVE  /\ t.new \in Contracts \ {c} /\ contract[t.new].status = "NONE"
                      /\ RowsOK(fresh, none)
    OBVIOUS
  <2>1. t.new \in Contracts \ {c} /\ contract[t.new].status = "NONE" /\ t.term \in Terms
    BY <1>2 DEF ControlOK, OpenTxOK, Tx
  <2>2. t.pay \in Nat /\ t.term.termMonths \in Nat \ {0} /\ today + t.term.firstDueIn \in Nat
    BY <1>1, <1>2, <2>1, LedgerAssumption DEF OpenTxOK, Tx
  <2> QED BY <2>1, <2>2, NewRows
<1>8. None \notin Contracts
  BY LedgerAssumption
<1>9. t.n # 0 => t.n \in DOMAIN received[c] /\ t.pay \in Nat
  BY <1>2 DEF OpenTxOK, Tx
<1>10. /\ contract' = [d \in Contracts |->
            IF d = c THEN [contract[d] EXCEPT !.status = SeenStatus(p)]
            ELSE IF d = t.new THEN [status |-> "ACTIVE", renegotiatedFrom |-> c]
            ELSE contract[d]]
       /\ installments' = [d \in Contracts |->
            IF d = c THEN SeenRows(p) ELSE IF d = t.new THEN fresh ELSE installments[d]]
       /\ received' = [d \in Contracts |->
            IF d = c /\ t.n # 0 THEN [received[d] EXCEPT ![t.n] = @ + t.pay]
            ELSE IF d = t.new THEN none ELSE received[d]]
       /\ kase' = [kase EXCEPT ![c] = SeenCase(p)]
  BY DEF Commit
<1> DEFINE sums == [received[c] EXCEPT ![t.n] = @ + t.pay]
<1>11. t.n # 0 => sums \in Seq(Nat) /\ Len(sums) = Len(received[c])
                  /\ \A n \in DOMAIN received[c] : sums[n] = received[c][n] + PaidOn(t, n)
  <2> SUFFICES ASSUME t.n # 0
               PROVE  sums \in Seq(Nat) /\ Len(sums) = Len(received[c])
                      /\ \A n \in DOMAIN received[c] : sums[n] = received[c][n] + PaidOn(t, n)
    OBVIOUS
  <2>1. /\ Len(received[c]) \in Nat /\ DOMAIN received[c] = 1..Len(received[c])
        /\ received[c] \in [1..Len(received[c]) -> Nat]
    BY <1>2, SeqIsFunction
  <2>2. received[c][t.n] + t.pay \in Nat
    BY <1>9, <2>1
  <2>3. sums \in [1..Len(received[c]) -> Nat]
    BY <1>9, <2>1, <2>2
  <2>4. \A n \in DOMAIN received[c] : sums[n] = received[c][n] + PaidOn(t, n)
    BY <1>9, <2>1 DEF PaidOn
  <2> HIDE DEF sums
  <2>5. sums \in Seq(Nat) /\ Len(sums) = Len(received[c])
    BY <2>1, <2>3, FunctionIsSeq
  <2> QED BY <2>4, <2>5
<1>12. t.n = 0 => \A n \in DOMAIN received[c] : received[c][n] = received[c][n] + PaidOn(t, n)
  <2>1. \A n \in DOMAIN received[c] : received[c][n] \in Nat /\ n # 0
    BY <1>2, SeqIsFunction
  <2> QED BY <2>1 DEF PaidOn
<1> HIDE DEF sums, fresh, none
<1>13. t.new = None \/ t.new # c
  BY <1>7
<1>14. t.new # None => fresh \in Seq(Installment) /\ none \in Seq(Nat)
  BY <1>7 DEF RowsOK
<1>15. /\ received'[c] = IF t.n # 0 THEN sums ELSE received[c]
       /\ received' \in [Contracts -> Seq(Nat)]
       /\ t.new # None => received'[t.new] = none
  <2>1. \A d \in Contracts : received'[d] =
            IF d = c /\ t.n # 0 THEN [received[d] EXCEPT ![t.n] = @ + t.pay]
            ELSE IF d = t.new THEN none ELSE received[d]
    BY <1>10
  <2>2. received'[c] = IF t.n # 0 THEN sums ELSE received[c]
    <3>1. CASE t.n # 0
      BY <1>2, <2>1, <3>1 DEF sums
    <3>2. CASE t.n = 0
      <4>1. t.new # c
        BY <1>2, <1>8, <1>13
      <4> QED BY <1>2, <2>1, <3>2, <4>1
    <3> QED BY <3>1, <3>2
  <2>3. t.new # None => received'[t.new] = none
    BY <1>7, <2>1
  <2>4. received'[c] \in Seq(Nat)
    BY <1>2, <1>11, <2>2
  <2>5. \A d \in Contracts \ {c} : received'[d] \in {none, received[d]}
                                   /\ (received'[d] = none => t.new # None \/ received'[d] = received[d])
    BY <1>8, <2>1
  <2>6. \A d \in Contracts : received'[d] \in Seq(Nat)
    BY <1>6, <1>14, <2>4, <2>5
  <2>7. received' = [d \in Contracts |-> received'[d]]
    BY <1>10
  <2> QED BY <2>2, <2>3, <2>6, <2>7
<1>16. /\ Len(received'[c]) = Len(received[c])
       /\ \A n \in DOMAIN received[c] : received'[c][n] = received[c][n] + PaidOn(t, n)
  BY <1>11, <1>12, <1>15
<1>17. /\ installments'[c] = SeenRows(p)
       /\ installments' \in [Contracts -> Seq(Installment)]
       /\ t.new # None => installments'[t.new] = fresh
  BY <1>2, <1>4, <1>6, <1>7, <1>8, <1>10, <1>13, <1>14
<1>18. /\ contract'[c].status = SeenStatus(p)
       /\ contract'[c].renegotiatedFrom = contract[c].renegotiatedFrom
       /\ t.new # None => contract'[t.new] = [status |-> "ACTIVE", renegotiatedFrom |-> c]
       /\ contract' \in [Contracts -> [status : ContractStatus \cup {"NONE"},
                                       renegotiatedFrom : Contracts \cup {None}]]
  <2>1. [contract[c] EXCEPT !.status = SeenStatus(p)]
           \in [status : ContractStatus \cup {"NONE"}, renegotiatedFrom : Contracts \cup {None}]
    BY <1>2, <1>3, <1>6
  <2>2. [status |-> "ACTIVE", renegotiatedFrom |-> c]
           \in [status : ContractStatus \cup {"NONE"}, renegotiatedFrom : Contracts \cup {None}]
    BY <1>2 DEF ContractStatus, Live
  <2> QED BY <1>2, <1>6, <1>7, <1>10, <2>1, <2>2
<1>19. /\ kase' \in [Contracts -> CaseRow] /\ kase'[c] = SeenCase(p)
       /\ \A d \in Contracts \ {c} : kase'[d] = kase[d]
  BY <1>2, <1>5, <1>6, <1>10
<1>20. \A d \in Contracts \ {c, t.new} : /\ contract'[d] = contract[d]
                                         /\ installments'[d] = installments[d]
                                         /\ received'[d] = received[d]
  BY <1>10
<1>21. t.new # None => RowsOK(installments'[t.new], received'[t.new])
  BY <1>7, <1>15, <1>17
<1> QED
  BY <1>1, <1>2, <1>3, <1>7, <1>15, <1>16, <1>17, <1>18, <1>19, <1>20, <1>21 DEF fresh, none

\* A commit leaves the tables right, for what every other transaction has locked too.
LEMMA CommitStep ==
  ASSUME TInv, NEW p \in Procs, Commit(p)
  PROVE  TInv'
<1> DEFINE t == tx[p]
           c == t.c
<1>1. /\ t.next = "commit" /\ t \in Tx /\ ControlOK(t) /\ OpenTxOK(t) /\ c \in Contracts
      /\ contract[c].status # "NONE"
      /\ contract' \in [Contracts -> [status : ContractStatus \cup {"NONE"},
                                      renegotiatedFrom : Contracts \cup {None}]]
      /\ contract'[c].status \in ContractStatus
      /\ installments' \in [Contracts -> Seq(Installment)]
      /\ installments'[c] = SeenRows(p)
      /\ received' \in [Contracts -> Seq(Nat)]
      /\ Len(received'[c]) = Len(received[c])
      /\ \A n \in DOMAIN received[c] : received'[c][n] = received[c][n] + PaidOn(t, n)
      /\ kase' \in [Contracts -> CaseRow]
      /\ kase'[c] = SeenCase(p)
      /\ \A d \in Contracts \ {c} : kase'[d] = kase[d]
      /\ \A d \in Contracts \ {c, t.new} : /\ contract'[d] = contract[d]
                                           /\ installments'[d] = installments[d]
                                           /\ received'[d] = received[d]
      /\ t.new # None => /\ t.new \in Contracts \ {c} /\ contract[t.new].status = "NONE"
                         /\ contract'[t.new] = [status |-> "ACTIVE", renegotiatedFrom |-> c]
                         /\ RowsOK(installments'[t.new], received'[t.new])
      /\ today' = today /\ job' = job /\ tx' = [tx EXCEPT ![p] = Idle]
  BY CommitWrites
<1>2. /\ SeenRows(p) \in Seq(Installment)
      /\ Len(SeenRows(p)) = Len(installments[c])
      /\ DOMAIN SeenRows(p) = DOMAIN installments[c]
      /\ \A n \in DOMAIN installments[c] :
            /\ RowOK(SeenRows(p)[n], received[c][n] + PaidOn(t, n))
            /\ InstallmentRow(c, n) \notin t.written
                  => SeenRows(p)[n] = installments[c][n] /\ n # t.n
  BY <1>1, SeenRowsOK
<1>3. /\ DOMAIN received[c] = DOMAIN installments[c] /\ Len(received[c]) = Len(installments[c])
      /\ received[c] \in Seq(Nat)
  BY <1>1, OpenFacts DEF TInv, TablesOK, RowsOK
<1>4. None \notin Contracts
  BY LedgerAssumption
<1>5. RowsOK(installments'[c], received'[c])
  BY <1>1, <1>2, <1>3 DEF RowsOK
<1>6. kase'[c].status # "NONE" \/ kase'[c] = kase[c]
  BY <1>1 DEF SeenCase, ControlOK
<1>7. ASSUME NEW d \in Contracts
      PROVE  /\ RowsOK(installments'[d], received'[d])
             /\ contract[d].status # "NONE" => contract'[d].status # "NONE"
             /\ contract'[d].status = "NONE" => installments'[d] = <<>>
             /\ kase[d].status # "NONE" => kase'[d].status # "NONE"
             /\ kase'[d].status # "NONE" => contract'[d].status # "NONE"
  <2>1. /\ RowsOK(installments[d], received[d])
        /\ contract[d].status = "NONE" => installments[d] = <<>>
        /\ kase[d].status # "NONE" => contract[d].status # "NONE"
    BY DEF TInv, TablesOK
  <2>2. CASE d = c
    <3>1. contract'[d].status # "NONE"
      BY <1>1, <2>2 DEF ContractStatus, Live
    <3> QED BY <1>5, <1>6, <2>2, <3>1
  <2>3. CASE d # c /\ d = t.new
    <3>1. contract'[d].status = "ACTIVE" /\ kase'[d] = kase[d]
          /\ RowsOK(installments'[d], received'[d])
      BY <1>1, <1>4, <2>3
    <3> QED BY <3>1
  <2>4. CASE d # c /\ d # t.new
    <3>1. /\ contract'[d] = contract[d] /\ installments'[d] = installments[d]
          /\ received'[d] = received[d] /\ kase'[d] = kase[d]
      BY <1>1, <2>4
    <3> QED BY <2>1, <3>1
  <2> QED BY <2>2, <2>3, <2>4
<1>8. TablesOK'
  BY <1>1, <1>7 DEF TInv, TablesOK
<1>9. tx' \in [Procs -> Tx] /\ tx'[p] = Idle /\ \A q \in Procs \ {p} : tx'[q] = tx[q]
  BY <1>1, IdleOK DEF TInv
<1>10. ASSUME NEW q \in Procs PROVE TxOK(tx[q])'
  <2>1. CASE q = p
    <3>4. Idle.next = "begin"
      BY DEF Idle
    <3>1. TxOK(tx'[q]) /\ tx'[q].next = "begin"
      BY <1>9, <2>1, <3>4, IdleOK
    <3>2. tx'[q].next = "begin" /\ ControlOK(tx'[q])
      BY <3>1 DEF TxOK
    <3>3. ControlOK(tx[q])'
      BY <3>2 DEF ControlOK
    <3> QED BY <3>2, <3>3 DEF TxOK
  <2>2. CASE q # p /\ tx[q].next = "begin"
    BY <1>1, <1>9, <2>2, TxFrame
  <2>3. CASE q # p /\ tx[q].next # "begin"
    <3> DEFINE u == tx[q]
    <3>1. u \in Tx /\ OpenTxOK(u) /\ u.c \in Contracts /\ contract[u.c].status # "NONE"
      BY <2>3, OpenFacts DEF OpenTxOK
    <3>2. u.new # None => /\ u.new \in Contracts /\ contract[u.new].status = "NONE"
                          /\ u.new # c /\ u.new # t.new
      <4>1. u.new \in Contracts \cup {None} /\ (u.new # None => contract[u.new].status = "NONE")
        BY <3>1 DEF OpenTxOK, Tx
      <4>2. u.new # None => u.new # t.new
        BY <2>3 DEF TInv
      <4> QED BY <1>1, <4>1, <4>2
    <3>3. u.c # t.new
      BY <1>1, <1>4, <3>1
    <3>4. t.written \subseteq t.held /\ t.held \cap u.held = {}
      BY <1>1, <2>3 DEF OpenTxOK, LocksOK, TInv
    <3>5. ASSUME NEW n \in DOMAIN installments[u.c], InstallmentRow(u.c, n) \in u.held
          PROVE  /\ installments'[u.c][n] = installments[u.c][n]
                 /\ received'[u.c][n] = received[u.c][n]
      <4>1. CASE u.c # c
        BY <1>1, <3>1, <3>3, <4>1
      <4>2. CASE u.c = c
        <5>1. InstallmentRow(c, n) \notin t.written
          BY <3>4, <3>5, <4>2
        <5>2. SeenRows(p)[n] = installments[c][n] /\ n # t.n
          BY <1>2, <3>5, <4>2, <5>1
        <5>3. n \in DOMAIN received[c] /\ received[c][n] \in Nat
          BY <1>3, <3>5, <4>2, SeqIsFunction
        <5> QED BY <1>1, <4>2, <5>2, <5>3 DEF PaidOn
      <4> QED BY <4>1, <4>2
    <3>6. DOMAIN installments'[u.c] = DOMAIN installments[u.c]
      BY <1>1, <1>2, <3>1, <3>3
    <3>7. contract'[u.c].status # "NONE" /\ (kase[u.c].status # "NONE" => kase'[u.c].status # "NONE")
      BY <1>7, <3>1
    <3>8. u.new # None => contract'[u.new] = contract[u.new]
      BY <1>1, <3>2
    <3>9. tx'[q] = tx[q] /\ today' = today
      BY <1>1, <1>9, <2>3
    <3> QED BY <2>3, <3>5, <3>6, <3>7, <3>8, <3>9, TxFrame
  <2> QED BY <2>1, <2>2, <2>3
<1>11. ASSUME NEW q \in Procs, NEW r \in Procs, q # r
       PROVE  /\ tx'[q].held \cap tx'[r].held = {}
              /\ tx'[q].new # None => tx'[q].new # tx'[r].new
  BY <1>9, <1>11 DEF TInv, Idle
<1>12. job' \in [Batch -> JobRow] /\ \A b \in Batch : JobOK(job[b])'
  BY <1>1, <1>7, JobFrame
<1> QED BY <1>8, <1>9, <1>10, <1>11, <1>12 DEF TInv

\* Every statement of every transaction keeps the invariant.
LEMMA StatementKeepsInv ==
  ASSUME TInv, NEW p \in Procs, Statement(p)
  PROVE  TInv'
<1>1. ASSUME Rollback(p), job' = job PROVE TInv'
  BY <1>1, RollbackStep
<1>2. allocate(p) \/ consolidate(p) \/ countPayments(p) => TInv'
  BY <1>1, AllocateStep, ConsolidateStep, CountPaymentsStep
<1>3. lockInstallment(p) \/ recompute(p) \/ writeStatus(p) \/ readContract(p)
         \/ readInstallments(p) \/ flag(p) \/ writeCase(p) => TInv'
  BY LockInstallmentStep, RecomputeStep, WriteStatusStep, ReadContractStep,
     ReadInstallmentsStep, FlagStep, WriteCaseStep
<1>4. lockInstallments(p) \/ closeCase(p) \/ cancelInstallments(p) \/ Commit(p) => TInv'
  BY LockInstallmentsStep, CloseCaseStep, CancelInstallmentsStep, CommitStep
<1>5. writeStage(p) => TInv'
  BY WriteStageStep
<1> QED BY <1>2, <1>3, <1>4, <1>5 DEF Statement

-----------------------------------------------------------------------------
(* The invariant, and what it says of the money *)

\* At first, a case belongs to a contract.
LEMMA InitialCases ==
  ASSUME Init, NEW c \in Contracts, contract[c].status = "NONE"
  PROVE  installments[c] = <<>> /\ kase[c].status = "NONE"
<1>1. CASE Empty
  BY <1>1 DEF Empty, NoCase
<1>2. ASSUME NEW s \in Seeds, Seeded(s) PROVE installments[c] = <<>> /\ kase[c].status = "NONE"
  <2> DEFINE loan == createContractedLoan(s.loans[c], s.today)
  <2>1. CASE c \in DOMAIN s.loans
    <3>1. loan.status # "NONE"
      BY <2>1, SeededLoan
    <3>2. contract[c] = [status |-> loan.status, renegotiatedFrom |-> None]
      BY <1>2, <2>1 DEF Seeded
    <3> HIDE DEF loan
    <3> QED BY <3>1, <3>2
  <2>2. CASE c \notin DOMAIN s.loans
    <3>1. installments[c] = <<>> /\ kase[c] = NoCase
      BY <1>2, <2>2 DEF Seeded
    <3> QED BY <3>1 DEF NoCase
  <2> QED BY <2>1, <2>2
<1> QED BY <1>1, <1>2 DEF Init

\* At first no transaction is open.
LEMMA TxInitEstablishesInv ==
  TxInit => TInv
<1> SUFFICES ASSUME TxInit PROVE TInv
  OBVIOUS
<1>1. IInv
  BY InitEstablishesInv DEF TxInit
<1>2. /\ \A c \in Contracts : contract[c].status = "NONE" =>
            installments[c] = <<>> /\ kase[c].status = "NONE"
      /\ tx = [p \in Procs |-> Idle] /\ job = [b \in Batch |-> NoJob]
  BY InitialCases DEF TxInit
<1>3. TablesOK
  BY <1>1, <1>2 DEF TablesOK, IInv, ContractOK
<1>4. tx \in [Procs -> Tx] /\ \A p \in Procs : TxOK(tx[p]) /\ tx[p] = Idle
  BY <1>2, IdleOK
<1>5. NoJob \in JobRow /\ JobOK(NoJob)
  BY DEF NoJob, JobRow, JobOK
<1>6. job \in [Batch -> JobRow] /\ \A b \in Batch : JobOK(job[b])
  BY <1>2, <1>5
<1>7. Idle.held = {} /\ Idle.new = None
  BY DEF Idle
<1> HIDE DEF Idle
<1> QED BY <1>3, <1>4, <1>6, <1>7 DEF TInv

\* Every step keeps the invariant: transactions, the batch, and what runs beside them.
LEMMA TxNextKeepsInv ==
  TInv /\ [TxNext]_txVars => TInv'
<1> SUFFICES ASSUME TInv, [TxNext]_txVars PROVE TInv'
  OBVIOUS
<1>1. ASSUME NEW p \in Procs, Acquire(p) \/ AbortDeadlocked(p) \/ Abort(p) \/ Statement(p)
      PROVE  TInv'
  <2>1. AbortDeadlocked(p) \/ Abort(p) => Rollback(p) /\ job' = job
    BY DEF AbortDeadlocked, Abort
  <2> QED BY <1>1, <2>1, AcquireStep, RollbackStep, StatementKeepsInv
<1>2. ASSUME NEW p \in Clients, Begin(p) PROVE TInv'
  BY <1>2, BeginKeepsInv DEF Procs
<1>3. ASSUME NEW c \in Loans, NEW offer \in Offers, Create(c, offer) PROVE TInv'
  BY <1>3, CreateKeepsTx
<1>4. ASSUME NEW b \in Batch, Job(b) PROVE TInv'
  BY <1>4, JobKeepsInv
<1>5. ASSUME NEW c \in Contracts, CaseStatement(c) PROVE TInv'
  BY <1>5, CaseStatementStep
<1>6. CASE UNCHANGED txVars
  <2>1. /\ today' = today /\ contract' = contract /\ installments' = installments
        /\ received' = received /\ kase' = kase /\ tx' = tx /\ job' = job
    BY <1>6 DEF txVars
  <2> QED BY <2>1 DEF TInv, TablesOK, TxOK, ControlOK, OpenTxOK, LocksOK, WritesOK,
             RowWrittenOK, JobOK
<1> QED BY <1>1, <1>2, <1>3, <1>4, <1>5, <1>6, MidnightStep DEF TxNext

\* The inductive invariant of the interleaved transactions, for any number of clients
\* and of replicas of the batch.
THEOREM TxInvariant == TxSpec => []TInv
<1>1. TxInit => TInv
  BY TxInitEstablishesInv
<1>2. TInv /\ [TxNext]_txVars => TInv'
  BY TxNextKeepsInv
<1> QED BY <1>1, <1>2, PTL DEF TxSpec

\* A transaction only writes rows it has locked and waits for rows it has not, while
\* every table keeps its types.
THEOREM TxTypeCorrect == TxSpec => []TxTypeOK
<1>1. TInv => TxTypeOK
  <2> SUFFICES ASSUME TInv PROVE TxTypeOK
    OBVIOUS
  <2>1. TypeOK
    BY DEF TInv, TablesOK, TypeOK, RowsOK, CaseRow
  <2>2. ASSUME NEW p \in Procs
        PROVE  /\ tx[p].c \in Contracts \cup {None} /\ tx[p].written \subseteq tx[p].held
               /\ tx[p].held \cap tx[p].want = {}
    <3>1. tx[p] \in Tx /\ TxOK(tx[p])
      BY DEF TInv
    <3>2. CASE tx[p].next = "begin"
      BY <3>1, <3>2 DEF TxOK, ControlOK, Idle
    <3>3. CASE tx[p].next # "begin"
      BY <3>1, <3>3 DEF TxOK, OpenTxOK, LocksOK, Tx
    <3> QED BY <3>2, <3>3
  <2> QED BY <2>1, <2>2 DEF TxTypeOK
<1> QED BY <1>1, TxInvariant, PTL

\* The money ledger balances whatever the transactions and the batch do to each other.
THEOREM TxLedgerBalanced == TxSpec => []LedgerBalanced
<1>1. TInv => LedgerBalanced
  BY DEF TInv, TablesOK, LedgerBalanced, RowsOK, RowOK
<1> QED BY <1>1, TxInvariant, PTL

\* Concurrent payments never collect more charges than the contract allows.
THEOREM TxChargesWithinContract == TxSpec => []ChargesWithinContract
<1>1. TInv => ChargesWithinContract
  BY DEF TInv, TablesOK, ChargesWithinContract, RowsOK, RowOK, Rows
<1> QED BY <1>1, TxInvariant, PTL

\* Only the commits and the creation of a contract write installments and payments.
LEMMA WhoWrites ==
  ASSUME [TxNext]_txVars
  PROVE  \/ installments' = installments /\ received' = received
         \/ \E c \in Loans, offer \in Offers : Create(c, offer)
         \/ \E p \in Procs : Commit(p)
<1> DEFINE Same == installments' = installments /\ received' = received
<1>1. ASSUME NEW p \in Procs, NEW t, NEW next, NEW rows, Goto(p, t, next, rows) PROVE Same
  BY <1>1 DEF Goto, Committed
<1>2. ASSUME NEW p \in Procs, Rollback(p) PROVE Same
  BY <1>2 DEF Rollback, Committed
<1>3. ASSUME NEW p \in Procs, Acquire(p) \/ AbortDeadlocked(p) \/ Abort(p) PROVE Same
  BY <1>2, <1>3 DEF Acquire, AbortDeadlocked, Abort, Committed
<1>4. ASSUME NEW p \in Procs, Statement(p), ~Commit(p) PROVE Same
  <2>1. lockInstallment(p) \/ allocate(p) \/ recompute(p) \/ writeStatus(p) => Same
    BY <1>1, <1>2 DEF lockInstallment, allocate, recompute, writeStatus
  <2>2. readContract(p) \/ readInstallments(p) \/ flag(p) => Same
    BY <1>1 DEF readContract, readInstallments, flag
  <2>3. writeCase(p) \/ writeStage(p) => Same
    BY <1>1 DEF writeCase, writeStage
  <2>4. lockInstallments(p) \/ consolidate(p) \/ closeCase(p) => Same
    BY <1>1, <1>2 DEF lockInstallments, consolidate, closeCase
  <2>5. countPayments(p) \/ cancelInstallments(p) => Same
    BY <1>1, <1>2 DEF countPayments, cancelInstallments
  <2> QED BY <1>4, <2>1, <2>2, <2>3, <2>4, <2>5 DEF Statement
<1>5. ASSUME NEW p \in Clients, Begin(p) PROVE Same
  BY <1>1, <1>5 DEF Begin, beginRegister, beginSettle, beginRenegotiate, beginCancel, Procs
<1>6. ASSUME NEW b \in Batch, Job(b) PROVE Same
  BY <1>1, <1>6 DEF Job, refreshAll, refreshNext, listCases, escalateNext, endRun, Committed, Procs
<1>7. Midnight \/ (\E c \in Contracts : CaseStatement(c)) => Same
  BY DEF Midnight, NextDay, CaseStatement, addInteraction, addPromise, breakPromise
<1>8. UNCHANGED txVars => Same
  BY DEF txVars
<1> QED BY <1>3, <1>4, <1>5, <1>6, <1>7, <1>8 DEF TxNext

\* What any step makes of one installment and of the money received on it.
LEMMA RowStep ==
  ASSUME TInv, [TxNext]_txVars, NEW c \in Contracts, NEW n \in DOMAIN installments[c]
  PROVE  /\ ~IsOpen(installments[c][n]) =>
               \/ installments'[c][n].status = installments[c][n].status
               \/ installments'[c][n].status = "CANCELLED"
         /\ received'[c][n] # received[c][n] =>
               \E lag \in Backdating :
                  TotalOutstanding(installments[c][n], today - lag)
                    - TotalOutstanding(installments'[c][n], today - lag)
                  = received'[c][n] - received[c][n]
<1>1. RowsOK(installments[c], received[c]) /\ DOMAIN received[c] = DOMAIN installments[c]
      /\ contract[c].status # "NONE"
  <2>1. RowsOK(installments[c], received[c])
        /\ (contract[c].status = "NONE" => installments[c] = <<>>)
    BY DEF TInv, TablesOK
  <2>2. DOMAIN <<>> = {}
    OBVIOUS
  <2>3. DOMAIN received[c] = DOMAIN installments[c]
    BY <2>1, SeqIsFunction DEF RowsOK
  <2> QED BY <2>1, <2>2, <2>3
<1>2. n \in Nat \ {0} /\ received[c][n] \in Nat
  BY <1>1, SeqIsFunction DEF RowsOK
<1>3. CASE installments' = installments /\ received' = received
  BY <1>3
<1>4. ASSUME NEW d \in Loans, NEW offer \in Offers, Create(d, offer)
      PROVE  installments'[c] = installments[c] /\ received'[c] = received[c]
  <2>1. /\ contract[d].status = "NONE"
        /\ installments' = [installments EXCEPT ![d] =
              NewInstallments(offer.principal, offer.termMonths, today + offer.firstDueIn)]
        /\ received' = [received EXCEPT ![d] = Nothing(offer.termMonths)]
    BY <1>4 DEF Create, createFromProposal
  <2>2. d # c
    BY <1>1, <2>1
  <2>3. installments \in [Contracts -> Seq(Installment)] /\ received \in [Contracts -> Seq(Nat)]
    BY DEF TInv, TablesOK
  <2> QED BY <2>1, <2>2, <2>3
<1>5. ASSUME NEW p \in Procs, Commit(p), tx[p].c # c
      PROVE  installments'[c] = installments[c] /\ received'[c] = received[c]
  <2>1. c # tx[p].new
    BY <1>1, <1>5, CommitWrites, LedgerAssumption
  <2> QED BY <1>5, <2>1, CommitWrites
<1>6. ASSUME NEW p \in Procs, Commit(p), tx[p].c = c
      PROVE  /\ ~IsOpen(installments[c][n]) =>
                   \/ installments'[c][n].status = installments[c][n].status
                   \/ installments'[c][n].status = "CANCELLED"
             /\ received'[c][n] # received[c][n] =>
                   \E lag \in Backdating :
                      TotalOutstanding(installments[c][n], today - lag)
                        - TotalOutstanding(installments'[c][n], today - lag)
                      = received'[c][n] - received[c][n]
  <2> DEFINE t == tx[p]
  <2>1. /\ t.next = "commit" /\ t \in Tx /\ ControlOK(t) /\ installments'[c] = SeenRows(p)
        /\ received'[c][n] = received[c][n] + PaidOn(t, n)
    BY <1>1, <1>6, CommitWrites
  <2>2. CASE InstallmentRow(c, n) \in t.written
    <3>1. installments'[c][n] = t.rows[n]
          /\ RowWrittenOK(t, n, installments[c][n], received[c][n])
      BY <1>6, <2>1, <2>2, SeenRowsOK
    <3>2. received'[c][n] # received[c][n] => n = t.n /\ received'[c][n] - received[c][n] = t.pay
      BY <1>2, <2>1 DEF PaidOn, Tx
    <3>3. n = t.n => t.lag \in Backdating
      BY <1>2, <2>1 DEF ControlOK
    <3> QED BY <3>1, <3>2, <3>3 DEF RowWrittenOK
  <2>3. CASE InstallmentRow(c, n) \notin t.written
    <3>1. installments'[c][n] = installments[c][n] /\ n # t.n
      BY <1>6, <2>1, <2>3, SeenRowsOK
    <3>2. received'[c][n] = received[c][n]
      BY <1>2, <2>1, <3>1 DEF PaidOn
    <3> QED BY <3>1, <3>2
  <2> QED BY <2>2, <2>3
<1> QED BY <1>3, <1>4, <1>5, <1>6, WhoWrites

\* No race of the batch with a payment, a cancellation or a renegotiation opens again an
\* installment that was closed.
THEOREM ClosedInstallmentsNeverReopen == TxSpec => ClosedInstallmentsStayClosed
<1>1. TInv /\ [TxNext]_txVars =>
        [\A c \in Contracts : \A n \in DOMAIN installments[c] :
           ~IsOpen(installments[c][n]) =>
               \/ installments'[c][n].status = installments[c][n].status
               \/ installments'[c][n].status = "CANCELLED"]_txVars
  BY RowStep
<1> QED BY <1>1, TxInvariant, PTL DEF TxSpec, ClosedInstallmentsStayClosed

\* Of two payments at once, and of a payment beside the batch, each takes off what its
\* installment owes exactly the cents that it paid.
THEOREM TxPaymentsReduceDebt == TxSpec => PaymentsReduceDebt
<1>1. TInv /\ [TxNext]_txVars =>
        [\A c \in Contracts : \A n \in DOMAIN received[c] :
           received'[c][n] # received[c][n] =>
              \E lag \in Backdating :
                  TotalOutstanding(installments[c][n], today - lag)
                    - TotalOutstanding(installments'[c][n], today - lag)
                  = received'[c][n] - received[c][n]]_vars
  <2>1. TInv => \A c \in Contracts : DOMAIN received[c] = DOMAIN installments[c]
    BY SeqIsFunction DEF TInv, TablesOK, RowsOK
  <2> QED BY <2>1, RowStep
<1> QED BY <1>1, TxInvariant, PTL DEF TxSpec, PaymentsReduceDebt

-----------------------------------------------------------------------------
(***************************************************************************)
(* The transactions of ContractTx implement the steps of ContractLedger,   *)
(* for any number of clients.                                              *)
(*                                                                         *)
(* A transaction takes effect when it commits; until then its writes are   *)
(* its own.  StagesOK says of every statement of every open transaction    *)
(* what it sees and has decided by then, as a function of the committed    *)
(* rows of its contract: the rows of the ledger's step, half made.  Having *)
(* locked the contract, it finds those rows unchanged when it commits,     *)
(* since every other transaction locks the contract before it decides      *)
(* anything (ContractLocked), so that its commit is the ledger's step      *)
(* (CommitIsPayment and its like).  Before it has the lock, a payment only *)
(* needs the amount to be one that clients pay or no less than is owed,    *)
(* and an installment never comes to owe more (PaidUpOwesNoMore).          *)
(*                                                                         *)
(* Two things lock no contract and are left out by hypothesis.  The batch  *)
(* decides on a contract it has not locked (run tx_race).  And a refresh   *)
(* decides on a case it has not locked: a statement on that case beside it *)
(* is undone (CasesOverlap in ContractTx).                                 *)
(***************************************************************************)

(* What a transaction sees, and what it should see at each statement *)

SawStatus(t, status) == IF ContractRow(t.c) \in t.written THEN t.status ELSE status
SawRows(t, rows) ==
    [n \in DOMAIN rows |-> IF InstallmentRow(t.c, n) \in t.written THEN t.rows[n] ELSE rows[n]]
SawCase(t, k) == IF CaseRowOf(t.c) \in t.written THEN t.kase ELSE k

\* The rows a payment, a renegotiation and a cancellation make, and the closed case.
PaidRows(t, rows, day) ==
    [rows EXCEPT ![t.n] = AfterPayment(rows[t.n], t.pay, day - t.lag)]
RenegotiatedRows(rows) ==
    [n \in DOMAIN rows |-> IF IsOpen(rows[n]) THEN [rows[n] EXCEPT !.status = "RENEGOTIATED"]
                           ELSE rows[n]]
CancelledRows(rows) == [n \in DOMAIN rows |-> [rows[n] EXCEPT !.status = "CANCELLED"]]
ClosedCase(k) ==
    IF NothingToResolve(k) THEN k ELSE [k EXCEPT !.status = "RESOLVED", !.dunningStage = 0]

Balance(rows, day) ==
    MapThenSumSet(LAMBDA n : IF IsOverdue(rows[n], day) THEN TotalOutstanding(rows[n], day)
                             ELSE NonNeg(rows[n].principalDue
                                           - NonNeg(rows[n].amountPaid - rows[n].interestDue)),
                  OpenNumbers(rows))

\* The contract is locked by the statement that selects it FOR UPDATE.
FirstStatements == {"lockInstallment", "lockInstallments", "countPayments"}
ContractLocked(t) == IF t.next \in FirstStatements
                     THEN ContractRow(t.c) \in t.held \cup t.want
                     ELSE ContractRow(t.c) \in t.held

\* A payment is of an amount clients pay, or of all that is owed or was owed.
AmountOK(t, rows, day) ==
    t.pay \in PayAmounts \/ TotalOutstanding(rows[t.n], day - t.lag) <= t.pay

RegisterOK(t, status, rows, k, day) ==
    LET paid == PaidRows(t, rows, day)
        status1 == RecomputedStatus(status, paid)
        days == DaysOverdue(paid, day)
        sees(s, r, q) == SawStatus(t, status) = s /\ SawRows(t, rows) = r /\ SawCase(t, k) = q
    IN
    /\ AmountOK(t, rows, day)
    /\ t.next \notin {"lockInstallment", "allocate"} =>
          IsOpen(rows[t.n]) /\ t.pay <= TotalOutstanding(rows[t.n], day - t.lag)
    /\ t.next = "recompute" => sees(status, paid, k)
    /\ t.next \in {"readContract", "readInstallments", "flag"} => sees(status1, paid, k)
    /\ t.next \in {"readInstallments", "flag", "writeCase"} =>
          t.oldStatus = status1 /\ status1 \in Live
    /\ t.next = "flag" => t.overdue = OverdueNumbers(paid, day)
    /\ t.next \in {"flag", "writeCase"} => t.days = days
    /\ t.next = "writeCase" => t.oldCase = k /\ sees(status1, FlaggedRows(paid, day), k)
    /\ t.next = "writeStatus" /\ t.then = "readContract" =>
          /\ t.status = status1
          /\ SawRows(t, rows) = paid /\ SawCase(t, k) = k
    /\ t.next = "writeStatus" /\ t.then = "commit" =>
          /\ status1 \in Live /\ t.status = RefreshedStatus(status1, days)
          /\ SawRows(t, rows) = FlaggedRows(paid, day) /\ SawCase(t, k) = RefreshedCase(k, days)
    /\ t.next = "commit" =>
          IF status1 \in Live
          THEN sees(RefreshedStatus(status1, days), FlaggedRows(paid, day),
                    RefreshedCase(k, days))
          ELSE sees(status1, paid, k)

RenegotiateOK(t, status, rows, k, day) ==
    /\ t.next \in {"closeCase", "commit"} =>
          /\ status \in Live
          /\ t.pay = Balance(rows, day) /\ t.pay \in Nat \ {0}
          /\ SawStatus(t, status) = "RENEGOTIATED"
          /\ SawRows(t, rows) = RenegotiatedRows(rows)
    /\ t.next = "closeCase" =>
          /\ SawCase(t, k) = k
          /\ NothingToResolve(k) \/ CaseRowOf(t.c) \in t.held \cup t.want
    /\ t.next = "commit" => SawCase(t, k) = ClosedCase(k)

CancelOK(t, status, rows, sums, k) ==
    /\ t.next \in {"countPayments", "cancelInstallments", "commit"}
    /\ t.next \in {"cancelInstallments", "commit"} =>
          /\ \A n \in DOMAIN sums : ~(sums[n] > 0)
          /\ SawStatus(t, status) = "CANCELLED" /\ SawCase(t, k) = k
    /\ t.next = "commit" => SawRows(t, rows) = CancelledRows(rows)

StageOK(t, status, rows, sums, k, day) ==
    /\ ContractLocked(t)
    /\ t.n # 0 => RegisterOK(t, status, rows, k, day)
    /\ t.new # None => RenegotiateOK(t, status, rows, k, day)
    /\ t.n = 0 /\ t.new = None => CancelOK(t, status, rows, sums, k)

StagesOK ==
    \A p \in Procs : LET t == tx[p] IN
        t.next # "begin" => StageOK(t, contract[t.c].status, installments[t.c],
                                    received[t.c], kase[t.c], today)

-----------------------------------------------------------------------------
(* Records and moves *)

\* A record with the fields of a transaction.
AsTx(t) ==
    DOMAIN t = {"next", "then", "c", "n", "pay", "lag", "new", "term", "held", "want", "written",
                "status", "rows", "kase", "days", "overdue", "oldStatus", "oldCase"}

\* What a statement leaves of the record of its transaction.
LEMMA GotoFields ==
  ASSUME NEW p \in Procs, NEW w, NEW next, NEW rows, AsTx(w), tx \in [Procs -> Tx],
         Goto(p, w, next, rows)
  PROVE  LET v == tx'[p] IN
         /\ v.next = next /\ v.want = rows \ w.held
         /\ v.then = w.then /\ v.c = w.c /\ v.n = w.n /\ v.pay = w.pay /\ v.lag = w.lag
         /\ v.new = w.new /\ v.term = w.term /\ v.held = w.held /\ v.written = w.written
         /\ v.status = w.status /\ v.rows = w.rows /\ v.kase = w.kase /\ v.days = w.days
         /\ v.overdue = w.overdue /\ v.oldStatus = w.oldStatus /\ v.oldCase = w.oldCase
         /\ \A q \in Procs \ {p} : tx'[q] = tx[q]
         /\ UNCHANGED Committed
<1> DEFINE v == [w EXCEPT !.next = next, !.want = rows \ w.held]
<1>1. tx' = [tx EXCEPT ![p] = v] /\ UNCHANGED Committed
  BY DEF Goto
<1> HIDE DEF v
<1>2. tx'[p] = v /\ \A q \in Procs \ {p} : tx'[q] = tx[q]
  BY <1>1
<1>3. /\ v.next = next /\ v.want = rows \ w.held
      /\ v.then = w.then /\ v.c = w.c /\ v.n = w.n /\ v.pay = w.pay /\ v.lag = w.lag
      /\ v.new = w.new /\ v.term = w.term /\ v.held = w.held /\ v.written = w.written
      /\ v.status = w.status /\ v.rows = w.rows /\ v.kase = w.kase /\ v.days = w.days
      /\ v.overdue = w.overdue /\ v.oldStatus = w.oldStatus /\ v.oldCase = w.oldCase
  BY DEF AsTx, v
<1> QED BY <1>1, <1>2, <1>3

\* A step of p alone, that leaves the tables as they are.
LEMMA OwnStage ==
  ASSUME StagesOK, NEW p \in Procs, UNCHANGED Committed,
         \A q \in Procs \ {p} : tx'[q] = tx[q],
         LET v == tx'[p] IN
         v.next # "begin" => StageOK(v, contract[v.c].status, installments[v.c],
                                     received[v.c], kase[v.c], today)
  PROVE  StagesOK'
<1>1. /\ today' = today /\ contract' = contract /\ installments' = installments
      /\ received' = received /\ kase' = kase
  BY DEF Committed
<1> DEFINE Ok(t) == t.next # "begin" => StageOK(t, contract[t.c].status, installments[t.c],
                                                received[t.c], kase[t.c], today)
<1>2. ASSUME NEW q \in Procs PROVE Ok(tx'[q])
  <2>1. q # p => Ok(tx[q])
    BY DEF StagesOK
  <2> QED BY <2>1
<1>3. StagesOK' <=> \A q \in Procs : Ok(tx'[q])
  BY <1>1 DEF StagesOK
<1> QED BY <1>2, <1>3

\* The registration of a payment, as it stands.
LEMMA RegisterFacts ==
  ASSUME TInv, StagesOK, NEW p \in Procs,
         tx[p].n # 0 \/ tx[p].next \in RegisterStages \ {"commit"}
  PROVE  LET t == tx[p]
             c == t.c
         IN  /\ AsTx(t) /\ tx \in [Procs -> Tx] /\ t \in Tx /\ c \in Contracts
             /\ t.next # "begin" /\ t.new = None
             /\ t.n # 0 /\ t.n \in DOMAIN installments[c]
             /\ ContractLocked(t)
             /\ RegisterOK(t, contract[c].status, installments[c], kase[c], today)
<1> DEFINE t == tx[p]
<1>1. t.next # "begin"
  BY DEF TInv, TxOK, ControlOK, Idle, RegisterStages
<1>2. t \in Tx /\ t.c \in Contracts /\ ControlOK(t) /\ OpenTxOK(t)
  BY <1>1, OpenFacts
<1>3. StageOK(t, contract[t.c].status, installments[t.c], received[t.c], kase[t.c], today)
  BY <1>1 DEF StagesOK
<1>4. t.n # 0
  <2>1. t.next \in RegisterStages \ {"commit"} => t.new = None
    BY <1>2 DEF ControlOK, RegisterStages, RenegotiateStages
  <2> QED BY <1>3, <2>1 DEF StageOK, CancelOK, RegisterStages
<1>5. AsTx(t) /\ tx \in [Procs -> Tx]
  BY <1>2 DEF AsTx, Tx, TInv
<1> QED BY <1>1, <1>2, <1>3, <1>4, <1>5 DEF StageOK, ControlOK, OpenTxOK

\* What a transaction sees are its own writes over the tables.
LEMMA SawIsSeen ==
  ASSUME NEW p \in Procs
  PROVE  LET t == tx[p] IN
         /\ SeenStatus(p) = SawStatus(t, contract[t.c].status)
         /\ SeenRows(p) = SawRows(t, installments[t.c])
         /\ SeenCase(p) = SawCase(t, kase[t.c])
BY DEF SeenStatus, SeenRows, SeenCase, SawStatus, SawRows, SawCase

\* A statement of a payment, which goes on as w: what it sees if it writes nothing, and
\* what is left to show.
LEMMA RegisterGoesOn ==
  ASSUME TInv, StagesOK, NEW p \in Procs,
         tx[p].n # 0 \/ tx[p].next \in RegisterStages \ {"commit"}, tx[p].want = {},
         NEW w, NEW next, NEW need, AsTx(w), Goto(p, w, next, need),
         w.c = tx[p].c, w.n = tx[p].n, w.pay = tx[p].pay, w.lag = tx[p].lag,
         w.new = tx[p].new, w.held = tx[p].held, next \notin FirstStatements
  PROVE  LET t == tx[p]
             v == tx'[p]
             c == t.c
             rows == installments[c]
         IN  /\ v.next = next
             /\ v.c = c /\ v.n = t.n /\ v.pay = t.pay /\ v.lag = t.lag
             /\ v.then = w.then /\ v.written = w.written
             /\ v.status = w.status /\ v.rows = w.rows /\ v.kase = w.kase /\ v.days = w.days
             /\ v.overdue = w.overdue /\ v.oldStatus = w.oldStatus /\ v.oldCase = w.oldCase
             /\ PaidRows(v, rows, today) = PaidRows(t, rows, today)
             /\ AmountOK(v, rows, today)
             /\ w.written = t.written /\ w.rows = t.rows => SawRows(v, rows) = SawRows(t, rows)
             /\ w.written = t.written /\ w.kase = t.kase
                   => SawCase(v, kase[c]) = SawCase(t, kase[c])
             /\ w.written = t.written /\ w.status = t.status
                   => SawStatus(v, contract[c].status) = SawStatus(t, contract[c].status)
             /\ RegisterOK(v, contract[c].status, rows, kase[c], today) => StagesOK'
<1> DEFINE t == tx[p]
           v == tx'[p]
           c == t.c
           rows == installments[c]
<1>1. /\ tx \in [Procs -> Tx] /\ c \in Contracts /\ t.new = None /\ t.n # 0 /\ ContractLocked(t)
      /\ AmountOK(t, rows, today)
  BY RegisterFacts DEF RegisterOK
<1>2. /\ v.next = next /\ v.c = c /\ v.n = t.n /\ v.pay = t.pay /\ v.lag = t.lag
      /\ v.then = w.then /\ v.new = None /\ v.held = t.held /\ v.written = w.written
      /\ v.status = w.status /\ v.rows = w.rows /\ v.kase = w.kase /\ v.days = w.days
      /\ v.overdue = w.overdue /\ v.oldStatus = w.oldStatus /\ v.oldCase = w.oldCase
      /\ \A q \in Procs \ {p} : tx'[q] = tx[q]
      /\ UNCHANGED Committed
  BY <1>1, GotoFields
<1> HIDE DEF v
<1>3. PaidRows(v, rows, today) = PaidRows(t, rows, today) /\ AmountOK(v, rows, today)
  BY <1>1, <1>2 DEF PaidRows, AmountOK
<1>4. /\ w.written = t.written /\ w.rows = t.rows => SawRows(v, rows) = SawRows(t, rows)
      /\ w.written = t.written /\ w.kase = t.kase
            => SawCase(v, kase[c]) = SawCase(t, kase[c])
      /\ w.written = t.written /\ w.status = t.status
            => SawStatus(v, contract[c].status) = SawStatus(t, contract[c].status)
  BY <1>2 DEF SawRows, SawCase, SawStatus
<1>5. ContractLocked(v)
  BY <1>1, <1>2 DEF ContractLocked
<1>6. ASSUME RegisterOK(v, contract[c].status, rows, kase[c], today) PROVE StagesOK'
  <2>1. StageOK(v, contract[v.c].status, installments[v.c], received[v.c], kase[v.c], today)
    BY <1>1, <1>2, <1>5, <1>6 DEF StageOK
  <2> QED BY <1>2, <2>1, OwnStage DEF v
<1> QED BY <1>2, <1>3, <1>4, <1>6 DEF v

\* The payment waits for its installment next.
LEMMA LockInstallmentStage ==
  ASSUME TInv, StagesOK, NEW p \in Procs, lockInstallment(p)
  PROVE  StagesOK'
<1> DEFINE t == tx[p]
           v == tx'[p]
           c == t.c
<1>1. /\ t.next = "lockInstallment" /\ t.want = {}
      /\ Goto(p, t, "allocate", {InstallmentRow(c, t.n)})
  BY DEF lockInstallment, At, Waiting
<1>2. "lockInstallment" \in RegisterStages \ {"commit"} /\ "allocate" \notin FirstStatements
  BY DEF RegisterStages, FirstStatements
<1>3. AsTx(t)
  BY <1>1, <1>2, RegisterFacts
<1>4. /\ v.next = "allocate" /\ AmountOK(v, installments[c], today)
      /\ RegisterOK(v, contract[c].status, installments[c], kase[c], today) => StagesOK'
  BY <1>1, <1>2, <1>3, RegisterGoesOn
<1> QED BY <1>4 DEF RegisterOK

\* allocate writes the one row it paid on.
LEMMA AllocateStage ==
  ASSUME TInv, StagesOK, NEW p \in Procs, allocate(p)
  PROVE  StagesOK' \/ Rollback(p)
<1> DEFINE t == tx[p]
           v == tx'[p]
           c == t.c
           rows == installments[c]
           row == InstallmentRow(c, t.n)
           paid == PaidRows(t, rows, today)
           w == [t EXCEPT !.written = @ \cup {row}, !.rows = paid]
<1> SUFFICES ASSUME IsOpen(rows[t.n]), t.pay <= TotalOutstanding(rows[t.n], today - t.lag),
                    Goto(p, w, "recompute", {})
             PROVE  StagesOK'
  BY DEF allocate, PaidRows
<1>1. t.next = "allocate" /\ t.want = {}
  BY DEF allocate, At, Waiting
<1>2. "allocate" \in RegisterStages \ {"commit"} /\ "recompute" \notin FirstStatements
  BY DEF RegisterStages, FirstStatements
<1>3. AsTx(t) /\ t \in Tx /\ c \in Contracts /\ t.n \in DOMAIN rows /\ t.n # 0
  BY <1>1, <1>2, RegisterFacts
<1>4. t.written = {} /\ DOMAIN rows \subseteq Nat
  BY <1>1, OpenFacts DEF ControlOK
<1> HIDE DEF row, paid
<1>5. /\ AsTx(w) /\ w.c = c /\ w.n = t.n /\ w.pay = t.pay /\ w.lag = t.lag /\ w.new = t.new
      /\ w.held = t.held /\ w.written = {row} /\ w.rows = paid
  BY <1>3, <1>4 DEF AsTx
<1> HIDE DEF w
<1>6. /\ v.next = "recompute" /\ v.c = c /\ v.n = t.n /\ v.pay = t.pay /\ v.lag = t.lag
      /\ v.written = {row} /\ v.rows = paid
      /\ PaidRows(v, rows, today) = paid /\ AmountOK(v, rows, today)
      /\ RegisterOK(v, contract[c].status, rows, kase[c], today) => StagesOK'
  BY <1>1, <1>2, <1>5, RegisterGoesOn DEF paid
<1> HIDE DEF v
<1>7. /\ row # ContractRow(c) /\ row # CaseRowOf(c)
      /\ \A n \in DOMAIN rows : InstallmentRow(c, n) = row => n = t.n
  BY <1>3, <1>4, RowNames DEF row
<1>8. SawRows(v, rows) = paid
  <2>1. paid = [rows EXCEPT ![t.n] = paid[t.n]] /\ DOMAIN paid = DOMAIN rows
    BY <1>3 DEF paid, PaidRows
  <2>2. \A n \in DOMAIN rows : InstallmentRow(c, n) \notin v.written => paid[n] = rows[n]
    BY <1>6, <2>1 DEF row
  <2>3. paid = [n \in DOMAIN rows |-> paid[n]]
    BY <2>1
  <2>4. SawRows(v, rows) = [n \in DOMAIN rows |-> paid[n]]
    BY <1>6, <2>2 DEF SawRows
  <2> QED BY <2>3, <2>4
<1>9. SawStatus(v, contract[c].status) = contract[c].status /\ SawCase(v, kase[c]) = kase[c]
  BY <1>6, <1>7 DEF SawStatus, SawCase
<1>10. RegisterOK(v, contract[c].status, rows, kase[c], today)
  BY <1>6, <1>8, <1>9 DEF RegisterOK
<1> QED BY <1>6, <1>10

\* The status is recomputed from the rows with the payment.
LEMMA RecomputeStage ==
  ASSUME TInv, StagesOK, NEW p \in Procs, recompute(p)
  PROVE  StagesOK'
<1> DEFINE t == tx[p]
           v == tx'[p]
           c == t.c
           rows == installments[c]
           status == contract[c].status
           paid == PaidRows(t, rows, today)
           status1 == RecomputedStatus(status, paid)
           w == [t EXCEPT !.status = status1, !.then = "readContract"]
<1>1. t.next = "recompute" /\ t.want = {}
  BY DEF recompute, At, Waiting
<1>2. /\ "recompute" \in RegisterStages \ {"commit"}
      /\ "readContract" \notin FirstStatements /\ "writeStatus" \notin FirstStatements
  BY DEF RegisterStages, FirstStatements
<1>3. AsTx(t) /\ RegisterOK(t, status, rows, kase[c], today)
  BY <1>1, <1>2, RegisterFacts
<1>4. /\ IsOpen(rows[t.n]) /\ t.pay <= TotalOutstanding(rows[t.n], today - t.lag)
      /\ SawStatus(t, status) = status /\ SawRows(t, rows) = paid /\ SawCase(t, kase[c]) = kase[c]
  BY <1>1, <1>3 DEF RegisterOK
<1>5. SeenStatus(p) = status /\ SeenRows(p) = paid
  BY <1>4, SawIsSeen
<1> HIDE DEF status1, paid
<1>6. \/ Goto(p, t, "readContract", {}) /\ status1 = status
      \/ Goto(p, w, "writeStatus", {ContractRow(c)})
  BY <1>5 DEF recompute, status1
<1>7. CASE Goto(p, t, "readContract", {}) /\ status1 = status
  <2>1. /\ v.next = "readContract" /\ v.n = t.n /\ v.pay = t.pay /\ v.lag = t.lag
        /\ PaidRows(v, rows, today) = paid /\ AmountOK(v, rows, today)
        /\ SawRows(v, rows) = paid /\ SawCase(v, kase[c]) = kase[c]
        /\ SawStatus(v, status) = status1
        /\ RegisterOK(v, status, rows, kase[c], today) => StagesOK'
    BY <1>1, <1>2, <1>3, <1>4, <1>7, RegisterGoesOn DEF paid
  <2> HIDE DEF v
  <2>2. RegisterOK(v, status, rows, kase[c], today)
    BY <1>4, <2>1 DEF RegisterOK, status1
  <2> QED BY <2>1, <2>2
<1>8. CASE Goto(p, w, "writeStatus", {ContractRow(c)})
  <2>1. /\ AsTx(w) /\ w.c = c /\ w.n = t.n /\ w.pay = t.pay /\ w.lag = t.lag /\ w.new = t.new
        /\ w.held = t.held /\ w.written = t.written /\ w.rows = t.rows /\ w.kase = t.kase
        /\ w.status = status1 /\ w.then = "readContract"
    BY <1>3 DEF AsTx
  <2> HIDE DEF w
  <2>2. /\ v.next = "writeStatus" /\ v.n = t.n /\ v.pay = t.pay /\ v.lag = t.lag
        /\ v.then = "readContract" /\ v.status = status1
        /\ PaidRows(v, rows, today) = paid /\ AmountOK(v, rows, today)
        /\ SawRows(v, rows) = paid /\ SawCase(v, kase[c]) = kase[c]
        /\ RegisterOK(v, status, rows, kase[c], today) => StagesOK'
    BY <1>1, <1>2, <1>4, <1>8, <2>1, RegisterGoesOn DEF paid
  <2> HIDE DEF v
  <2>3. RegisterOK(v, status, rows, kase[c], today)
    BY <1>4, <2>2 DEF RegisterOK, status1
  <2> QED BY <2>2, <2>3
<1> QED BY <1>6, <1>7, <1>8

\* The update of the contract's status, for recomputeContractStatus and for the refresh.
LEMMA WriteStatusStage ==
  ASSUME TInv, StagesOK, NEW p \in Procs, writeStatus(p)
  PROVE  StagesOK'
<1> DEFINE t == tx[p]
           v == tx'[p]
           c == t.c
           rows == installments[c]
           status == contract[c].status
           row == ContractRow(c)
           w == [t EXCEPT !.written = @ \cup {row}]
<1>1. t.next = "writeStatus" /\ t.want = {} /\ Goto(p, w, t.then, {})
  BY DEF writeStatus, At, Waiting
<1>2. "writeStatus" \in RegisterStages \ {"commit"}
  BY DEF RegisterStages
<1>3. /\ AsTx(t) /\ t \in Tx /\ c \in Contracts /\ RegisterOK(t, status, rows, kase[c], today)
      /\ DOMAIN rows \subseteq Nat
  BY <1>1, <1>2, RegisterFacts, OpenFacts
<1>4. t.then \in {"readContract", "commit"} /\ t.then \notin FirstStatements
  BY <1>1, OpenFacts DEF ControlOK, FirstStatements
<1> HIDE DEF row
<1>5. /\ AsTx(w) /\ w.c = c /\ w.n = t.n /\ w.pay = t.pay /\ w.lag = t.lag /\ w.new = t.new
      /\ w.held = t.held /\ w.written = t.written \cup {row} /\ w.rows = t.rows
      /\ w.kase = t.kase /\ w.status = t.status
  BY <1>3 DEF AsTx
<1> HIDE DEF w
<1>6. /\ v.next = t.then /\ v.c = c /\ v.n = t.n /\ v.pay = t.pay /\ v.lag = t.lag
      /\ v.written = t.written \cup {row} /\ v.rows = t.rows /\ v.kase = t.kase
      /\ v.status = t.status
      /\ PaidRows(v, rows, today) = PaidRows(t, rows, today) /\ AmountOK(v, rows, today)
      /\ RegisterOK(v, status, rows, kase[c], today) => StagesOK'
  BY <1>1, <1>2, <1>4, <1>5, RegisterGoesOn
<1> HIDE DEF v
<1>7. row # CaseRowOf(c) /\ \A n \in DOMAIN rows : InstallmentRow(c, n) # row
  BY <1>3, RowNames DEF row
<1>8. /\ SawRows(v, rows) = SawRows(t, rows) /\ SawCase(v, kase[c]) = SawCase(t, kase[c])
      /\ SawStatus(v, status) = t.status
  BY <1>6, <1>7 DEF SawRows, SawCase, SawStatus, row
<1> DEFINE paid == PaidRows(t, rows, today)
           status1 == RecomputedStatus(status, paid)
           days == DaysOverdue(paid, today)
<1>9. IsOpen(rows[t.n]) /\ t.pay <= TotalOutstanding(rows[t.n], today - t.lag)
  BY <1>1, <1>3 DEF RegisterOK
<1>10. CASE t.then = "readContract"
  <2>1. t.status = status1 /\ SawRows(t, rows) = paid /\ SawCase(t, kase[c]) = kase[c]
    BY <1>1, <1>3, <1>10 DEF RegisterOK
  <2> HIDE DEF paid
  <2>2. RegisterOK(v, status, rows, kase[c], today)
    BY <1>6, <1>8, <1>9, <1>10, <2>1 DEF RegisterOK, paid
  <2> QED BY <1>6, <2>2
<1>11. CASE t.then = "commit"
  <2>1. /\ status1 \in Live /\ t.status = RefreshedStatus(status1, days)
        /\ SawRows(t, rows) = FlaggedRows(paid, today)
        /\ SawCase(t, kase[c]) = RefreshedCase(kase[c], days)
    BY <1>1, <1>3, <1>11 DEF RegisterOK
  <2>2. RegisterOK(v, status, rows, kase[c], today)
    BY <1>6, <1>8, <1>9, <1>11, <2>1 DEF RegisterOK
  <2> QED BY <1>6, <2>2
<1> QED BY <1>4, <1>10, <1>11

\* A refresh reads the status: that of the payment, or of its early return.
LEMMA ReadContractStage ==
  ASSUME TInv, StagesOK, NEW p \in Procs, readContract(p)
  PROVE  StagesOK'
<1> DEFINE t == tx[p]
           v == tx'[p]
           c == t.c
           rows == installments[c]
           status == contract[c].status
           paid == PaidRows(t, rows, today)
           status1 == RecomputedStatus(status, paid)
           next == IF status1 \in Live THEN "readInstallments" ELSE "commit"
           w == [t EXCEPT !.oldStatus = status1]
<1>1. t.next = "readContract" /\ t.want = {}
  BY DEF readContract, At, Waiting
<1>2. "readContract" \in RegisterStages \ {"commit"} /\ next \notin FirstStatements
  BY DEF RegisterStages, FirstStatements
<1>3. AsTx(t) /\ RegisterOK(t, status, rows, kase[c], today)
  BY <1>1, <1>2, RegisterFacts
<1>4. /\ IsOpen(rows[t.n]) /\ t.pay <= TotalOutstanding(rows[t.n], today - t.lag)
      /\ SawStatus(t, status) = status1 /\ SawRows(t, rows) = paid /\ SawCase(t, kase[c]) = kase[c]
  BY <1>1, <1>3 DEF RegisterOK
<1>5. Goto(p, w, next, {})
  BY <1>4, SawIsSeen DEF readContract
<1> HIDE DEF status1, paid
<1>6. /\ AsTx(w) /\ w.c = c /\ w.n = t.n /\ w.pay = t.pay /\ w.lag = t.lag /\ w.new = t.new
      /\ w.held = t.held /\ w.written = t.written /\ w.rows = t.rows
      /\ w.kase = t.kase /\ w.status = t.status /\ w.oldStatus = status1
  BY <1>3 DEF AsTx
<1> HIDE DEF w
<1>7. /\ v.next = next /\ v.n = t.n /\ v.pay = t.pay /\ v.lag = t.lag /\ v.oldStatus = status1
      /\ PaidRows(v, rows, today) = paid /\ AmountOK(v, rows, today)
      /\ SawRows(v, rows) = paid /\ SawCase(v, kase[c]) = kase[c]
      /\ SawStatus(v, status) = status1
      /\ RegisterOK(v, status, rows, kase[c], today) => StagesOK'
  BY <1>1, <1>2, <1>4, <1>5, <1>6, RegisterGoesOn DEF paid
<1> HIDE DEF v
<1>8. RegisterOK(v, status, rows, kase[c], today)
  BY <1>4, <1>7 DEF RegisterOK, status1
<1> QED BY <1>7, <1>8

\* A refresh lists what is overdue in the rows with the payment.
LEMMA ReadInstallmentsStage ==
  ASSUME TInv, StagesOK, NEW p \in Procs, readInstallments(p)
  PROVE  StagesOK'
<1> DEFINE t == tx[p]
           v == tx'[p]
           c == t.c
           rows == installments[c]
           status == contract[c].status
           paid == PaidRows(t, rows, today)
           status1 == RecomputedStatus(status, paid)
           overdue == OverdueNumbers(paid, today)
           days == DaysOverdue(paid, today)
           need == {InstallmentRow(c, n) : n \in overdue}
           w == [t EXCEPT !.overdue = overdue, !.days = days]
<1>1. t.next = "readInstallments" /\ t.want = {}
  BY DEF readInstallments, At, Waiting
<1>2. "readInstallments" \in RegisterStages \ {"commit"} /\ "flag" \notin FirstStatements
  BY DEF RegisterStages, FirstStatements
<1>3. AsTx(t) /\ RegisterOK(t, status, rows, kase[c], today)
  BY <1>1, <1>2, RegisterFacts
<1>4. /\ IsOpen(rows[t.n]) /\ t.pay <= TotalOutstanding(rows[t.n], today - t.lag)
      /\ SawStatus(t, status) = status1 /\ SawRows(t, rows) = paid /\ SawCase(t, kase[c]) = kase[c]
      /\ t.oldStatus = status1 /\ status1 \in Live
  BY <1>1, <1>3 DEF RegisterOK
<1>5. Goto(p, w, "flag", need)
  BY <1>4, SawIsSeen DEF readInstallments
<1> HIDE DEF status1, paid, overdue, days, need
<1>6. /\ AsTx(w) /\ w.c = c /\ w.n = t.n /\ w.pay = t.pay /\ w.lag = t.lag /\ w.new = t.new
      /\ w.held = t.held /\ w.written = t.written /\ w.rows = t.rows /\ w.oldStatus = t.oldStatus
      /\ w.kase = t.kase /\ w.status = t.status /\ w.overdue = overdue /\ w.days = days
  BY <1>3 DEF AsTx
<1> HIDE DEF w
<1>7. /\ v.next = "flag" /\ v.n = t.n /\ v.pay = t.pay /\ v.lag = t.lag
      /\ v.oldStatus = status1 /\ v.overdue = overdue /\ v.days = days
      /\ PaidRows(v, rows, today) = paid /\ AmountOK(v, rows, today)
      /\ SawRows(v, rows) = paid /\ SawCase(v, kase[c]) = kase[c]
      /\ SawStatus(v, status) = status1
      /\ RegisterOK(v, status, rows, kase[c], today) => StagesOK'
  BY <1>1, <1>2, <1>4, <1>5, <1>6, RegisterGoesOn DEF paid
<1> HIDE DEF v
<1>8. RegisterOK(v, status, rows, kase[c], today)
  BY <1>4, <1>7 DEF RegisterOK, status1, overdue, days
<1> QED BY <1>7, <1>8

\* flag: what was listed is still open, for the contract is locked.
LEMMA FlagStage ==
  ASSUME TInv, StagesOK, NEW p \in Procs, flag(p)
  PROVE  StagesOK'
<1> DEFINE t == tx[p]
           v == tx'[p]
           c == t.c
           rows == installments[c]
           status == contract[c].status
           paid == PaidRows(t, rows, today)
           status1 == RecomputedStatus(status, paid)
           overdue == OverdueNumbers(paid, today)
           days == DaysOverdue(paid, today)
           new == FlaggedRows(paid, today)
           k == kase[c]
           numbers == {InstallmentRow(c, n) : n \in overdue}
           need == IF days = 0 THEN IF NothingToResolve(k) THEN {} ELSE {CaseRowOf(c)}
                   ELSE {CaseRowOf(c)} \cup (IF k.status = "NONE" THEN {ContractRow(c)} ELSE {})
           w == [t EXCEPT !.written = @ \cup numbers, !.rows = new, !.oldCase = k]
<1>1. t.next = "flag" /\ t.want = {}
  BY DEF flag, At, Waiting
<1>2. "flag" \in RegisterStages \ {"commit"} /\ "writeCase" \notin FirstStatements
  BY DEF RegisterStages, FirstStatements
<1>3. /\ AsTx(t) /\ t \in Tx /\ c \in Contracts /\ RegisterOK(t, status, rows, k, today)
      /\ DOMAIN rows \subseteq Nat /\ t.n \in DOMAIN rows
  BY <1>1, <1>2, RegisterFacts, OpenFacts
<1>4. /\ IsOpen(rows[t.n]) /\ t.pay <= TotalOutstanding(rows[t.n], today - t.lag)
      /\ SawStatus(t, status) = status1 /\ SawRows(t, rows) = paid /\ SawCase(t, k) = k
      /\ t.oldStatus = status1 /\ status1 \in Live /\ t.overdue = overdue /\ t.days = days
  BY <1>1, <1>3 DEF RegisterOK
<1>5. /\ SeenRows(p) = paid /\ SeenCase(p) = k /\ DOMAIN paid = DOMAIN rows
      /\ overdue = {n \in overdue : IsOpen(paid[n])}
      /\ new = [n \in DOMAIN paid |-> IF n \in overdue THEN [paid[n] EXCEPT !.status = "OVERDUE"]
                                      ELSE paid[n]]
  <2>1. DOMAIN paid = DOMAIN rows
    BY DEF PaidRows
  <2>2. overdue = {n \in overdue : IsOpen(paid[n])}
    BY DEF OverdueNumbers, IsOverdue
  <2>3. new = [n \in DOMAIN paid |-> IF n \in overdue THEN [paid[n] EXCEPT !.status = "OVERDUE"]
                                     ELSE paid[n]]
    BY DEF FlaggedRows, OverdueNumbers
  <2> QED BY <1>4, <2>1, <2>2, <2>3, SawIsSeen
<1>6. Goto(p, w, "writeCase", need)
  <2> HIDE DEF paid, overdue, new, days, k
  <2> QED BY <1>4, <1>5 DEF flag
<1> HIDE DEF status1, paid, overdue, days, need, new, numbers
<1>7. /\ AsTx(w) /\ w.c = c /\ w.n = t.n /\ w.pay = t.pay /\ w.lag = t.lag /\ w.new = t.new
      /\ w.held = t.held /\ w.written = t.written \cup numbers /\ w.rows = new
      /\ w.oldStatus = t.oldStatus
      /\ w.kase = t.kase /\ w.status = t.status /\ w.days = t.days /\ w.oldCase = k
  BY <1>3 DEF AsTx
<1> HIDE DEF w
<1>8. /\ v.next = "writeCase" /\ v.c = c /\ v.n = t.n /\ v.pay = t.pay /\ v.lag = t.lag
      /\ v.written = t.written \cup numbers /\ v.rows = new
      /\ v.oldStatus = status1 /\ v.days = days /\ v.oldCase = k
      /\ v.status = t.status /\ v.kase = t.kase
      /\ PaidRows(v, rows, today) = paid /\ AmountOK(v, rows, today)
      /\ RegisterOK(v, status, rows, k, today) => StagesOK'
  BY <1>1, <1>2, <1>4, <1>6, <1>7, RegisterGoesOn DEF paid
<1> HIDE DEF v
<1>9. ContractRow(c) \notin numbers /\ CaseRowOf(c) \notin numbers
  <2>1. overdue \subseteq Nat
    BY <1>3, <1>5 DEF overdue, OverdueNumbers
  <2> QED BY <1>3, <2>1, RowNames DEF numbers
<1>10. SawStatus(v, status) = status1 /\ SawCase(v, k) = k
  BY <1>4, <1>8, <1>9 DEF SawStatus, SawCase
<1>11. SawRows(v, rows) = new
  <2>1. DOMAIN new = DOMAIN rows /\ new = [n \in DOMAIN rows |-> new[n]]
    BY <1>5
  <2>2. ASSUME NEW n \in DOMAIN rows, InstallmentRow(c, n) \notin v.written
        PROVE  new[n] = rows[n]
    <3>1. n \notin overdue /\ InstallmentRow(c, n) \notin t.written
      BY <1>8, <2>2 DEF numbers
    <3>2. new[n] = paid[n]
      BY <1>5, <3>1
    <3>3. paid[n] = rows[n]
      BY <1>4, <3>1 DEF SawRows
    <3> QED BY <3>2, <3>3
  <2>3. SawRows(v, rows) = [n \in DOMAIN rows |-> new[n]]
    BY <1>8, <2>2 DEF SawRows
  <2> QED BY <2>1, <2>3
<1>12. RegisterOK(v, status, rows, k, today)
  BY <1>4, <1>8, <1>10, <1>11 DEF RegisterOK, status1, days, new
<1> QED BY <1>8, <1>12

\* The case and the status a refresh decides are those of the ledger's refresh.
LEMMA WriteCaseStage ==
  ASSUME TInv, StagesOK, NEW p \in Procs, writeCase(p)
  PROVE  StagesOK'
<1> DEFINE t == tx[p]
           v == tx'[p]
           c == t.c
           rows == installments[c]
           status == contract[c].status
           paid == PaidRows(t, rows, today)
           status1 == RecomputedStatus(status, paid)
           status2 == RefreshedStatus(status1, DaysOverdue(paid, today))
           days == DaysOverdue(paid, today)
           new == FlaggedRows(paid, today)
           k == kase[c]
           case1 == RefreshedCase(k, days)
           t1 == IF days = 0 /\ NothingToResolve(k) THEN t
                 ELSE [t EXCEPT !.written = @ \cup {CaseRowOf(c)}, !.kase = case1]
<1>1. t.next = "writeCase" /\ t.want = {}
  BY DEF writeCase, At, Waiting
<1>2. /\ "writeCase" \in RegisterStages \ {"commit"}
      /\ "writeStatus" \notin FirstStatements /\ "commit" \notin FirstStatements
  BY DEF RegisterStages, FirstStatements
<1>3. /\ AsTx(t) /\ t \in Tx /\ c \in Contracts /\ RegisterOK(t, status, rows, k, today)
      /\ DOMAIN rows \subseteq Nat /\ k \in CaseRow
  BY <1>1, <1>2, RegisterFacts, OpenFacts
<1>4. /\ IsOpen(rows[t.n]) /\ t.pay <= TotalOutstanding(rows[t.n], today - t.lag)
      /\ SawStatus(t, status) = status1 /\ SawRows(t, rows) = new /\ SawCase(t, k) = k
      /\ t.oldStatus = status1 /\ status1 \in Live /\ t.oldCase = k /\ t.days = days
  BY <1>1, <1>3 DEF RegisterOK
<1>5. days \in Nat
  BY <1>3, <1>4 DEF Tx
<1> HIDE DEF days
<1>6. /\ days = 0 /\ NothingToResolve(k) => case1 = k
      /\ days > 0 => case1 = [k EXCEPT !.status = RefreshedCase(k, days).status,
                                       !.daysOverdue = days]
  <2> DEFINE s == IF k.status \in ActiveCase THEN k.status ELSE "OPEN"
             j == [k EXCEPT !.status = s, !.daysOverdue = days]
  <2>1. days = 0 /\ NothingToResolve(k) => case1 = k
    BY <1>5 DEF RefreshedCase, NothingToResolve
  <2>2. days > 0 => case1 = j
    BY <1>5 DEF RefreshedCase
  <2> HIDE DEF s, case1, k
  <2>3. j.status = s
    BY <1>3 DEF CaseRow
  <2>4. days > 0 => case1.status = s
    BY <2>2, <2>3
  <2> QED BY <2>1, <2>2, <2>4 DEF case1
<1>7. \/ Goto(p, t1, "commit", {}) /\ status2 = status1
      \/ Goto(p, [t1 EXCEPT !.status = status2, !.then = "commit"],
              "writeStatus", {ContractRow(c)})
  <2>1. SeenCase(p) = k
    BY <1>4, SawIsSeen
  <2>2. t1 = IF t.days = 0 /\ NothingToResolve(t.oldCase) THEN t
             ELSE [t EXCEPT !.written = @ \cup {CaseRowOf(c)},
                            !.kase = IF t.days = 0 THEN RefreshedCase(t.oldCase, t.days)
                                     ELSE [SeenCase(p) EXCEPT
                                             !.status = RefreshedCase(t.oldCase, t.days).status,
                                             !.daysOverdue = t.days]]
    <3> HIDE DEF k, case1
    <3>1. days = 0 \/ days > 0
      BY <1>5
    <3>2. CASE days = 0
      BY <1>4, <3>2 DEF case1
    <3>3. CASE days > 0
      <4>1. t.days = days /\ t.oldCase = k
        BY <1>4
      <4>2. [SeenCase(p) EXCEPT !.status = RefreshedCase(t.oldCase, t.days).status,
                                !.daysOverdue = t.days] = case1
        BY <1>6, <2>1, <3>3, <4>1
      <4>3. ~(days = 0)
        BY <3>3
      <4> QED BY <4>1, <4>2, <4>3
    <3> QED BY <3>1, <3>2, <3>3
  <2>3. status2 = RefreshedStatus(t.oldStatus, t.days)
    BY <1>4 DEF days
  <2> HIDE DEF t1, status2
  <2> QED BY <1>4, <2>2, <2>3 DEF writeCase
<1> HIDE DEF status1, status2, paid, new, case1, k
<1>8. /\ AsTx(t1) /\ t1.c = c /\ t1.n = t.n /\ t1.pay = t.pay /\ t1.lag = t.lag
      /\ t1.new = t.new /\ t1.held = t.held /\ t1.rows = t.rows /\ t1.status = t.status
      /\ \/ t1.written = t.written /\ t1.kase = t.kase /\ case1 = k
         \/ t1.written = t.written \cup {CaseRowOf(c)} /\ t1.kase = case1
  BY <1>3, <1>6 DEF AsTx
<1> HIDE DEF t1
<1>9. CaseRowOf(c) # ContractRow(c) /\ \A n \in DOMAIN rows : InstallmentRow(c, n) # CaseRowOf(c)
  BY <1>3, RowNames
<1>10. ASSUME NEW u, u.c = c, u.written = t1.written, u.kase = t1.kase, u.rows = t1.rows
       PROVE  /\ SawCase(u, k) = case1 /\ SawRows(u, rows) = new
              /\ u.status = t.status => SawStatus(u, status) = status1
  <2>1. SawCase(u, k) = case1
    BY <1>4, <1>8, <1>10 DEF SawCase
  <2>2. SawRows(u, rows) = SawRows(t, rows)
    BY <1>8, <1>9, <1>10 DEF SawRows
  <2>3. u.status = t.status => SawStatus(u, status) = SawStatus(t, status)
    BY <1>8, <1>9, <1>10 DEF SawStatus
  <2> QED BY <1>4, <2>1, <2>2, <2>3
<1>11. CASE Goto(p, t1, "commit", {}) /\ status2 = status1
  <2>1. /\ v.next = "commit" /\ v.c = c /\ v.n = t.n /\ v.pay = t.pay /\ v.lag = t.lag
        /\ v.written = t1.written /\ v.kase = t1.kase /\ v.rows = t1.rows /\ v.status = t.status
        /\ PaidRows(v, rows, today) = paid /\ AmountOK(v, rows, today)
        /\ RegisterOK(v, status, rows, kase[c], today) => StagesOK'
    BY <1>1, <1>2, <1>8, <1>11, RegisterGoesOn DEF paid
  <2> HIDE DEF v
  <2>2. SawCase(v, k) = case1 /\ SawRows(v, rows) = new /\ SawStatus(v, status) = status2
    BY <1>10, <1>11, <2>1
  <2>3. RegisterOK(v, status, rows, k, today)
    BY <1>4, <2>1, <2>2 DEF RegisterOK, status1, status2, days, new, case1
  <2> QED BY <2>1, <2>3 DEF k
<1>12. CASE Goto(p, [t1 EXCEPT !.status = status2, !.then = "commit"],
                 "writeStatus", {ContractRow(c)})
  <2> DEFINE w == [t1 EXCEPT !.status = status2, !.then = "commit"]
  <2>1. /\ AsTx(w) /\ w.c = c /\ w.n = t.n /\ w.pay = t.pay /\ w.lag = t.lag
        /\ w.new = t.new /\ w.held = t.held /\ w.rows = t1.rows /\ w.status = status2
        /\ w.written = t1.written /\ w.kase = t1.kase /\ w.then = "commit"
    BY <1>8 DEF AsTx
  <2>2. Goto(p, w, "writeStatus", {ContractRow(c)})
    BY <1>12
  <2> HIDE DEF w
  <2>3. /\ v.next = "writeStatus" /\ v.c = c /\ v.n = t.n /\ v.pay = t.pay /\ v.lag = t.lag
        /\ v.written = t1.written /\ v.kase = t1.kase /\ v.rows = t1.rows /\ v.status = status2
        /\ v.then = "commit"
        /\ PaidRows(v, rows, today) = paid /\ AmountOK(v, rows, today)
        /\ RegisterOK(v, status, rows, kase[c], today) => StagesOK'
    BY <1>1, <1>2, <2>1, <2>2, RegisterGoesOn DEF paid
  <2> HIDE DEF v
  <2>4. SawCase(v, k) = case1 /\ SawRows(v, rows) = new
    BY <1>10, <2>3
  <2>5. RegisterOK(v, status, rows, k, today)
    BY <1>4, <2>3, <2>4 DEF RegisterOK, status1, status2, days, new, case1
  <2> QED BY <2>3, <2>5 DEF k
<1> QED BY <1>7, <1>11, <1>12

\* The balance of the ledger, on a day that is named.
LEMMA BalanceToday ==
  ASSUME NEW rows
  PROVE  ConsolidatedBalance(rows) = Balance(rows, today)
BY DEF ConsolidatedBalance, ConsolidatedPart, Balance

\* A renegotiation or a cancellation, as it stands.
LEMMA OtherFacts ==
  ASSUME TInv, StagesOK, NEW p \in Procs, tx[p].n = 0, tx[p].next # "begin"
  PROVE  LET t == tx[p]
             c == t.c
         IN  /\ AsTx(t) /\ tx \in [Procs -> Tx] /\ t \in Tx /\ c \in Contracts
             /\ DOMAIN installments[c] \subseteq Nat
             /\ ContractLocked(t)
             /\ t.new # None =>
                   RenegotiateOK(t, contract[c].status, installments[c], kase[c], today)
             /\ t.new = None =>
                   CancelOK(t, contract[c].status, installments[c], received[c], kase[c])
<1> DEFINE t == tx[p]
<1>1. t \in Tx /\ t.c \in Contracts /\ DOMAIN installments[t.c] \subseteq Nat
  BY OpenFacts
<1>2. StageOK(t, contract[t.c].status, installments[t.c], received[t.c], kase[t.c], today)
  BY DEF StagesOK
<1>3. AsTx(t) /\ tx \in [Procs -> Tx]
  BY <1>1 DEF AsTx, Tx, TInv
<1> QED BY <1>1, <1>2, <1>3 DEF StageOK

\* A statement of a renegotiation or a cancellation, which goes on as w.
LEMMA OtherGoesOn ==
  ASSUME TInv, StagesOK, NEW p \in Procs, tx[p].n = 0, tx[p].next # "begin", tx[p].want = {},
         NEW w, NEW next, NEW need, AsTx(w), Goto(p, w, next, need),
         w.c = tx[p].c, w.n = 0, w.new = tx[p].new, w.held = tx[p].held,
         next \notin FirstStatements
  PROVE  LET t == tx[p]
             v == tx'[p]
             c == t.c
         IN  /\ v.next = next /\ v.want = need \ t.held /\ v.held = t.held
             /\ v.c = c /\ v.new = t.new /\ v.pay = w.pay /\ v.written = w.written
             /\ v.status = w.status /\ v.rows = w.rows /\ v.kase = w.kase
             /\ /\ t.new # None =>
                      RenegotiateOK(v, contract[c].status, installments[c], kase[c], today)
                /\ t.new = None =>
                      CancelOK(v, contract[c].status, installments[c], received[c], kase[c])
                => StagesOK'
<1> DEFINE t == tx[p]
           v == tx'[p]
           c == t.c
<1>1. tx \in [Procs -> Tx] /\ ContractLocked(t)
  BY OtherFacts
<1>2. /\ v.next = next /\ v.want = need \ t.held /\ v.held = t.held
      /\ v.c = c /\ v.n = 0 /\ v.new = t.new /\ v.pay = w.pay /\ v.written = w.written
      /\ v.status = w.status /\ v.rows = w.rows /\ v.kase = w.kase
      /\ \A q \in Procs \ {p} : tx'[q] = tx[q]
      /\ UNCHANGED Committed
  BY <1>1, GotoFields
<1> HIDE DEF v
<1>3. ContractLocked(v)
  BY <1>1, <1>2 DEF ContractLocked
<1>4. ASSUME t.new # None =>
                RenegotiateOK(v, contract[c].status, installments[c], kase[c], today),
             t.new = None =>
                CancelOK(v, contract[c].status, installments[c], received[c], kase[c])
      PROVE  StagesOK'
  <2>1. StageOK(v, contract[v.c].status, installments[v.c], received[v.c], kase[v.c], today)
    BY <1>2, <1>3, <1>4 DEF StageOK
  <2> QED BY <1>2, <2>1, OwnStage DEF v
<1> QED BY <1>2, <1>4 DEF v

\* A renegotiation waits for the installments next.
LEMMA LockInstallmentsStage ==
  ASSUME TInv, StagesOK, NEW p \in Procs, lockInstallments(p)
  PROVE  StagesOK'
<1> DEFINE t == tx[p]
           v == tx'[p]
           c == t.c
           need == {InstallmentRow(c, n) : n \in DOMAIN installments[c]}
<1>1. /\ t.next = "lockInstallments" /\ t.want = {} /\ Goto(p, t, "consolidate", need)
  BY DEF lockInstallments, At, Waiting
<1>2. t.new # None /\ t.n = 0 /\ "consolidate" \notin FirstStatements
  BY <1>1, OpenFacts DEF ControlOK, FirstStatements
<1>3. AsTx(t)
  BY <1>1, <1>2, OtherFacts
<1> HIDE DEF need
<1>4. /\ v.next = "consolidate"
      /\ RenegotiateOK(v, contract[c].status, installments[c], kase[c], today) => StagesOK'
  BY <1>1, <1>2, <1>3, OtherGoesOn
<1> QED BY <1>4 DEF RenegotiateOK

\* consolidate closes the open installments and no others.
LEMMA ConsolidateStage ==
  ASSUME TInv, StagesOK, NEW p \in Procs, consolidate(p)
  PROVE  StagesOK' \/ Rollback(p)
<1> DEFINE t == tx[p]
           v == tx'[p]
           c == t.c
           rows == installments[c]
           status == contract[c].status
           k == kase[c]
           owed == Balance(rows, today)
           numbers == {InstallmentRow(c, n) : n \in OpenNumbers(rows)}
           new == [n \in DOMAIN rows |-> [rows[n] EXCEPT !.status = "RENEGOTIATED"]]
           need == IF NothingToResolve(k) THEN {} ELSE {CaseRowOf(c)}
           w == [t EXCEPT !.pay = owed, !.status = "RENEGOTIATED",
                          !.written = {ContractRow(c)} \cup numbers, !.rows = new]
<1> SUFFICES ASSUME status \in Live, owed \in Nat \ {0}, Goto(p, w, "closeCase", need)
             PROVE  StagesOK'
  BY BalanceToday DEF consolidate
<1>1. t.next = "consolidate" /\ t.want = {}
  BY DEF consolidate, At, Waiting
<1>2. t.new # None /\ t.n = 0 /\ "closeCase" \notin FirstStatements
  BY <1>1, OpenFacts DEF ControlOK, FirstStatements
<1>3. AsTx(t) /\ t \in Tx /\ c \in Contracts /\ DOMAIN rows \subseteq Nat
  BY <1>1, <1>2, OtherFacts
<1> HIDE DEF owed, numbers, new, need
<1>4. /\ AsTx(w) /\ w.c = c /\ w.n = 0 /\ w.new = t.new /\ w.held = t.held /\ w.pay = owed
      /\ w.status = "RENEGOTIATED" /\ w.written = {ContractRow(c)} \cup numbers /\ w.rows = new
  BY <1>2, <1>3 DEF AsTx
<1> HIDE DEF w
<1>5. /\ v.next = "closeCase" /\ v.want = need \ t.held /\ v.held = t.held /\ v.c = c
      /\ v.pay = owed /\ v.written = {ContractRow(c)} \cup numbers
      /\ v.status = "RENEGOTIATED" /\ v.rows = new
      /\ RenegotiateOK(v, status, rows, k, today) => StagesOK'
  BY <1>1, <1>2, <1>4, OtherGoesOn
<1> HIDE DEF v
<1>6. CaseRowOf(c) \notin v.written
  <2>1. OpenNumbers(rows) \subseteq Nat
    BY <1>3 DEF OpenNumbers
  <2> QED BY <1>3, <1>5, <2>1, RowNames DEF numbers
<1>7. SawStatus(v, status) = "RENEGOTIATED" /\ SawCase(v, k) = k
  BY <1>5, <1>6 DEF SawStatus, SawCase
<1>8. SawRows(v, rows) = RenegotiatedRows(rows)
  <2>1. ASSUME NEW n \in DOMAIN rows
        PROVE  InstallmentRow(c, n) \in v.written <=> IsOpen(rows[n])
    <3>1. InstallmentRow(c, n) # ContractRow(c)
          /\ \A m \in DOMAIN rows : InstallmentRow(c, m) = InstallmentRow(c, n) => m = n
      BY <1>3, RowNames
    <3>2. OpenNumbers(rows) \subseteq DOMAIN rows
      BY DEF OpenNumbers
    <3>3. InstallmentRow(c, n) \in v.written <=> n \in OpenNumbers(rows)
      BY <1>5, <3>1, <3>2 DEF numbers
    <3> QED BY <3>3 DEF OpenNumbers
  <2>2. \A n \in DOMAIN rows : v.rows[n] = [rows[n] EXCEPT !.status = "RENEGOTIATED"]
    BY <1>5 DEF new
  <2> QED BY <1>5, <2>1, <2>2 DEF SawRows, RenegotiatedRows
<1>9. NothingToResolve(k) \/ CaseRowOf(c) \in v.held \cup v.want
  BY <1>5 DEF need
<1>10. RenegotiateOK(v, status, rows, k, today)
  BY <1>5, <1>7, <1>8, <1>9 DEF RenegotiateOK, owed
<1> QED BY <1>5, <1>10

\* closeCase has locked the case it resolves.
LEMMA CloseCaseStage ==
  ASSUME TInv, StagesOK, NEW p \in Procs, closeCase(p)
  PROVE  StagesOK'
<1> DEFINE t == tx[p]
           v == tx'[p]
           c == t.c
           rows == installments[c]
           status == contract[c].status
           k == kase[c]
           case1 == [k EXCEPT !.status = "RESOLVED", !.dunningStage = 0]
           w == IF NothingToResolve(k) THEN t
                ELSE [t EXCEPT !.written = @ \cup {CaseRowOf(c)}, !.kase = case1]
<1>1. t.next = "closeCase" /\ t.want = {}
  BY DEF closeCase, At, Waiting
<1>2. t.new # None /\ t.n = 0 /\ "commit" \notin FirstStatements
  BY <1>1, OpenFacts DEF ControlOK, FirstStatements
<1>3. /\ AsTx(t) /\ t \in Tx /\ c \in Contracts /\ DOMAIN rows \subseteq Nat
      /\ RenegotiateOK(t, status, rows, k, today)
  BY <1>1, <1>2, OtherFacts
<1>4. /\ status \in Live /\ t.pay = Balance(rows, today) /\ t.pay \in Nat \ {0}
      /\ SawStatus(t, status) = "RENEGOTIATED" /\ SawRows(t, rows) = RenegotiatedRows(rows)
      /\ SawCase(t, k) = k
      /\ NothingToResolve(k) \/ CaseRowOf(c) \in t.held
  BY <1>1, <1>3 DEF RenegotiateOK
<1>5. Goto(p, w, "commit", {})
  BY <1>4 DEF closeCase
<1> HIDE DEF k, case1
<1>6. /\ AsTx(w) /\ w.c = c /\ w.n = 0 /\ w.new = t.new /\ w.held = t.held /\ w.pay = t.pay
      /\ w.status = t.status /\ w.rows = t.rows
      /\ \/ NothingToResolve(k) /\ w.written = t.written /\ w.kase = t.kase
         \/ /\ ~NothingToResolve(k) /\ w.written = t.written \cup {CaseRowOf(c)}
            /\ w.kase = case1
  BY <1>2, <1>3 DEF AsTx
<1> HIDE DEF w
<1>7. /\ v.next = "commit" /\ v.c = c /\ v.pay = t.pay /\ v.written = w.written
      /\ v.status = t.status /\ v.rows = t.rows /\ v.kase = w.kase
      /\ RenegotiateOK(v, status, rows, k, today) => StagesOK'
  BY <1>1, <1>2, <1>5, <1>6, OtherGoesOn DEF k
<1> HIDE DEF v
<1>8. CaseRowOf(c) # ContractRow(c) /\ \A n \in DOMAIN rows : InstallmentRow(c, n) # CaseRowOf(c)
  BY <1>3, RowNames
<1>9. /\ SawStatus(v, status) = SawStatus(t, status) /\ SawRows(v, rows) = SawRows(t, rows)
      /\ SawCase(v, k) = ClosedCase(k)
  BY <1>4, <1>6, <1>7, <1>8 DEF SawStatus, SawRows, SawCase, ClosedCase, case1
<1>10. RenegotiateOK(v, status, rows, k, today)
  BY <1>4, <1>7, <1>9 DEF RenegotiateOK
<1> QED BY <1>7, <1>10

\* countPayments, which goes on without a payment.
LEMMA CountPaymentsStage ==
  ASSUME TInv, StagesOK, NEW p \in Procs, countPayments(p)
  PROVE  StagesOK' \/ Rollback(p)
<1> DEFINE t == tx[p]
           v == tx'[p]
           c == t.c
           rows == installments[c]
           status == contract[c].status
           need == {InstallmentRow(c, n) : n \in DOMAIN rows}
           w == [t EXCEPT !.written = {ContractRow(c)}, !.status = "CANCELLED"]
<1> SUFFICES ASSUME ~HasPayments(c), Goto(p, w, "cancelInstallments", need) PROVE StagesOK'
  BY DEF countPayments
<1>1. t.next = "countPayments" /\ t.want = {}
  BY DEF countPayments, At, Waiting
<1>2. t.new = None /\ t.n = 0 /\ "cancelInstallments" \notin FirstStatements
  BY <1>1, OpenFacts DEF ControlOK, FirstStatements, RegisterStages, RenegotiateStages
<1>3. AsTx(t) /\ c \in Contracts
  BY <1>1, <1>2, OtherFacts
<1> HIDE DEF need
<1>4. /\ AsTx(w) /\ w.c = c /\ w.n = 0 /\ w.new = t.new /\ w.held = t.held
      /\ w.status = "CANCELLED" /\ w.written = {ContractRow(c)}
  BY <1>2, <1>3 DEF AsTx
<1> HIDE DEF w
<1>5. /\ v.next = "cancelInstallments" /\ v.c = c /\ v.written = {ContractRow(c)}
      /\ v.status = "CANCELLED"
      /\ CancelOK(v, status, rows, received[c], kase[c]) => StagesOK'
  BY <1>1, <1>2, <1>4, OtherGoesOn
<1> HIDE DEF v
<1>6. CaseRowOf(c) # ContractRow(c)
  BY <1>3, RowNames
<1>7. CancelOK(v, status, rows, received[c], kase[c])
  BY <1>5, <1>6 DEF CancelOK, SawStatus, SawCase, HasPayments
<1> QED BY <1>5, <1>7

\* cancelInstallments writes every installment.
LEMMA CancelInstallmentsStage ==
  ASSUME TInv, StagesOK, NEW p \in Procs, cancelInstallments(p)
  PROVE  StagesOK'
<1> DEFINE t == tx[p]
           v == tx'[p]
           c == t.c
           rows == installments[c]
           status == contract[c].status
           k == kase[c]
           numbers == {InstallmentRow(c, n) : n \in DOMAIN rows}
           new == CancelledRows(rows)
           w == [t EXCEPT !.written = @ \cup numbers, !.rows = new]
<1>1. /\ t.next = "cancelInstallments" /\ t.want = {} /\ Goto(p, w, "commit", {})
  BY DEF cancelInstallments, At, Waiting, CancelledRows
<1>2. t.new = None /\ t.n = 0 /\ "commit" \notin FirstStatements
  BY <1>1, OpenFacts DEF ControlOK, FirstStatements, RegisterStages, RenegotiateStages
<1>3. /\ AsTx(t) /\ t \in Tx /\ c \in Contracts /\ DOMAIN rows \subseteq Nat
      /\ CancelOK(t, status, rows, received[c], k)
  BY <1>1, <1>2, OtherFacts
<1>4. /\ \A n \in DOMAIN received[c] : ~(received[c][n] > 0)
      /\ SawStatus(t, status) = "CANCELLED" /\ SawCase(t, k) = k
  BY <1>1, <1>3 DEF CancelOK
<1> HIDE DEF numbers, new
<1>5. /\ AsTx(w) /\ w.c = c /\ w.n = 0 /\ w.new = t.new /\ w.held = t.held
      /\ w.status = t.status /\ w.kase = t.kase
      /\ w.written = t.written \cup numbers /\ w.rows = new
  BY <1>2, <1>3 DEF AsTx
<1> HIDE DEF w
<1>6. /\ v.next = "commit" /\ v.c = c /\ v.written = t.written \cup numbers
      /\ v.status = t.status /\ v.kase = t.kase /\ v.rows = new
      /\ CancelOK(v, status, rows, received[c], kase[c]) => StagesOK'
  BY <1>1, <1>2, <1>5, OtherGoesOn
<1> HIDE DEF v
<1>7. CaseRowOf(c) \notin numbers /\ ContractRow(c) \notin numbers
  BY <1>3, RowNames DEF numbers
<1>8. SawStatus(v, status) = "CANCELLED" /\ SawCase(v, k) = k
  BY <1>4, <1>6, <1>7 DEF SawStatus, SawCase
<1>9. SawRows(v, rows) = new
  BY <1>6 DEF SawRows, numbers, new, CancelledRows
<1>10. CancelOK(v, status, rows, received[c], k)
  BY <1>4, <1>6, <1>8, <1>9 DEF CancelOK, new
<1> QED BY <1>6, <1>10

-----------------------------------------------------------------------------
(* Beginning, waiting and ending *)

\* A transaction that begins, with its contract to be locked first.
LEMMA BeginGoesOn ==
  ASSUME TInv, StagesOK, NEW p \in Procs, NEW w, NEW next \in FirstStatements,
         AsTx(w), w.held = {}, Goto(p, w, next, {ContractRow(w.c)})
  PROVE  LET v == tx'[p]
             c == w.c
         IN  /\ v.next = next /\ v.c = c /\ v.n = w.n /\ v.pay = w.pay /\ v.lag = w.lag
             /\ v.new = w.new
             /\ /\ w.n # 0 =>
                      RegisterOK(v, contract[c].status, installments[c], kase[c], today)
                /\ w.new # None =>
                      RenegotiateOK(v, contract[c].status, installments[c], kase[c], today)
                /\ w.n = 0 /\ w.new = None =>
                      CancelOK(v, contract[c].status, installments[c], received[c], kase[c])
                => StagesOK'
<1> DEFINE v == tx'[p]
           c == w.c
<1>1. /\ v.next = next /\ v.c = c /\ v.n = w.n /\ v.pay = w.pay /\ v.lag = w.lag
      /\ v.new = w.new /\ v.held = {} /\ v.want = {ContractRow(c)}
      /\ \A q \in Procs \ {p} : tx'[q] = tx[q]
      /\ UNCHANGED Committed
  <2>1. tx \in [Procs -> Tx]
    BY DEF TInv
  <2> QED BY <2>1, GotoFields
<1> HIDE DEF v
<1>2. ContractLocked(v)
  BY <1>1 DEF ContractLocked
<1>3. ASSUME w.n # 0 => RegisterOK(v, contract[c].status, installments[c], kase[c], today),
             w.new # None =>
                RenegotiateOK(v, contract[c].status, installments[c], kase[c], today),
             w.n = 0 /\ w.new = None =>
                CancelOK(v, contract[c].status, installments[c], received[c], kase[c])
      PROVE  StagesOK'
  <2>1. StageOK(v, contract[v.c].status, installments[v.c], received[v.c], kase[v.c], today)
    BY <1>1, <1>2, <1>3 DEF StageOK
  <2> QED BY <1>1, <2>1, OwnStage DEF v
<1> QED BY <1>1, <1>3 DEF v

\* Whatever a client begins: a payment asks for an amount clients pay, or for what is
\* owed on the installment at that moment.
LEMMA BeginStage ==
  ASSUME TInv, StagesOK, NEW p \in Procs, Begin(p)
  PROVE  StagesOK'
<1>1. /\ AsTx(Idle) /\ Idle.n = 0 /\ Idle.new = None /\ Idle.held = {}
      /\ "lockInstallment" \in FirstStatements /\ "lockInstallments" \in FirstStatements
      /\ "countPayments" \in FirstStatements
  BY DEF AsTx, Idle, FirstStatements
<1> HIDE DEF Idle
<1>2. ASSUME NEW c \in Contracts, NEW n \in DOMAIN installments[c], NEW lag \in Backdating,
             NEW pay, beginRegister(p, c, n, pay, lag),
             pay \in PayAmounts \/ pay = TotalOutstanding(installments[c][n], today - lag)
      PROVE  StagesOK'
  <2> DEFINE w == [Idle EXCEPT !.c = c, !.n = n, !.pay = pay, !.lag = lag]
             v == tx'[p]
  <2>1. /\ AsTx(w) /\ w.c = c /\ w.n = n /\ w.pay = pay /\ w.lag = lag /\ w.held = {}
        /\ w.new = None
    BY <1>1 DEF AsTx
  <2>2. Goto(p, w, "lockInstallment", {ContractRow(w.c)})
    BY <1>2, <2>1 DEF beginRegister
  <2> HIDE DEF w
  <2>3. n # 0
    <3>1. installments[c] \in Seq(Installment)
      BY DEF TInv, TablesOK
    <3> QED BY <3>1, SeqIsFunction
  <2>4. /\ v.next = "lockInstallment" /\ v.c = c /\ v.n = n /\ v.pay = pay /\ v.lag = lag
        /\ RegisterOK(v, contract[c].status, installments[c], kase[c], today) => StagesOK'
    BY <1>1, <2>1, <2>2, <2>3, BeginGoesOn
  <2> HIDE DEF v
  <2>5. AmountOK(v, installments[c], today)
    <3>1. pay = TotalOutstanding(installments[c][n], today - lag) => pay \in Nat
      <4>1. installments[c][n] \in Installment /\ today \in Nat /\ lag \in Nat
        BY SeqIsFunction, LedgerAssumption DEF TInv, TablesOK
      <4> QED BY <4>1, TotalNat
    <3> QED BY <1>2, <2>4, <3>1 DEF AmountOK
  <2>6. RegisterOK(v, contract[c].status, installments[c], kase[c], today)
    BY <2>4, <2>5 DEF RegisterOK
  <2> QED BY <2>4, <2>6
<1>3. ASSUME NEW c \in Contracts, NEW new \in Contracts, NEW term \in Terms,
             beginRenegotiate(p, c, new, term)
      PROVE  StagesOK'
  <2> DEFINE w == [Idle EXCEPT !.c = c, !.new = new, !.term = term]
             v == tx'[p]
  <2>1. AsTx(w) /\ w.c = c /\ w.n = 0 /\ w.held = {} /\ w.new = new /\ new # None
    BY <1>1, LedgerAssumption DEF AsTx
  <2>2. Goto(p, w, "lockInstallments", {ContractRow(w.c)})
    BY <1>3, <2>1 DEF beginRenegotiate
  <2> HIDE DEF w
  <2>3. /\ v.next = "lockInstallments"
        /\ RenegotiateOK(v, contract[c].status, installments[c], kase[c], today) => StagesOK'
    BY <1>1, <2>1, <2>2, BeginGoesOn
  <2> QED BY <2>3 DEF RenegotiateOK
<1>4. ASSUME NEW c \in Contracts, beginCancel(p, c)
      PROVE  StagesOK'
  <2> DEFINE w == [Idle EXCEPT !.c = c]
             v == tx'[p]
  <2>1. AsTx(w) /\ w.c = c /\ w.n = 0 /\ w.held = {} /\ w.new = None
    BY <1>1 DEF AsTx
  <2>2. Goto(p, w, "countPayments", {ContractRow(w.c)})
    BY <1>4, <2>1 DEF beginCancel
  <2> HIDE DEF w
  <2>3. /\ v.next = "countPayments"
        /\ CancelOK(v, contract[c].status, installments[c], received[c], kase[c]) => StagesOK'
    BY <1>1, <2>1, <2>2, BeginGoesOn
  <2> QED BY <2>3 DEF CancelOK
<1> QED BY <1>2, <1>3, <1>4 DEF Begin, beginSettle

\* A transaction that ends without a commit leaves nothing to see.
LEMMA RollbackStage ==
  ASSUME TInv, StagesOK, NEW p \in Procs, Rollback(p)
  PROVE  StagesOK'
<1>1. tx' = [tx EXCEPT ![p] = Idle] /\ UNCHANGED Committed
  BY DEF Rollback
<1>2. Idle.next = "begin" /\ tx \in [Procs -> Tx]
  BY DEF Idle, TInv
<1> HIDE DEF Idle
<1>3. tx'[p].next = "begin" /\ \A q \in Procs \ {p} : tx'[q] = tx[q]
  BY <1>1, <1>2
<1> QED BY <1>1, <1>3, OwnStage

\* A lock that is granted changes nothing of what the transaction sees.
LEMMA AcquireStage ==
  ASSUME TInv, StagesOK, NEW p \in Procs, Acquire(p)
  PROVE  StagesOK'
<1> DEFINE t == tx[p]
           v == tx'[p]
<1>1. t \in Tx /\ tx \in [Procs -> Tx]
  BY DEF TInv
<1>2. PICK row \in t.want :
         tx' = [tx EXCEPT ![p].want = @ \ {row}, ![p].held = @ \cup {row}]
  BY DEF Acquire
<1>3. UNCHANGED Committed
  BY DEF Acquire
<1>4. /\ v.want = t.want \ {row} /\ v.held = t.held \cup {row}
      /\ v.next = t.next /\ v.then = t.then /\ v.c = t.c /\ v.n = t.n /\ v.pay = t.pay
      /\ v.lag = t.lag /\ v.new = t.new /\ v.term = t.term /\ v.written = t.written
      /\ v.status = t.status /\ v.rows = t.rows /\ v.kase = t.kase /\ v.days = t.days
      /\ v.overdue = t.overdue /\ v.oldStatus = t.oldStatus /\ v.oldCase = t.oldCase
      /\ \A q \in Procs \ {p} : tx'[q] = tx[q]
  <2> DEFINE w == [t EXCEPT !.want = @ \ {row}, !.held = @ \cup {row}]
  <2>1. tx' = [tx EXCEPT ![p] = w]
    BY <1>1, <1>2
  <2>2. /\ w.want = t.want \ {row} /\ w.held = t.held \cup {row}
        /\ w.next = t.next /\ w.then = t.then /\ w.c = t.c /\ w.n = t.n /\ w.pay = t.pay
        /\ w.lag = t.lag /\ w.new = t.new /\ w.term = t.term /\ w.written = t.written
        /\ w.status = t.status /\ w.rows = t.rows /\ w.kase = t.kase /\ w.days = t.days
        /\ w.overdue = t.overdue /\ w.oldStatus = t.oldStatus /\ w.oldCase = t.oldCase
    BY <1>1 DEF Tx
  <2> HIDE DEF w
  <2>3. v = w /\ \A q \in Procs \ {p} : tx'[q] = tx[q]
    BY <1>1, <2>1
  <2> QED BY <2>2, <2>3
<1> HIDE DEF v
<1> DEFINE status == contract[t.c].status
           rows == installments[t.c]
           k == kase[t.c]
<1>5. /\ PaidRows(v, rows, today) = PaidRows(t, rows, today)
      /\ SawStatus(v, status) = SawStatus(t, status) /\ SawRows(v, rows) = SawRows(t, rows)
      /\ SawCase(v, k) = SawCase(t, k)
  BY <1>4 DEF PaidRows, SawStatus, SawRows, SawCase
<1>6. CASE t.next # "begin"
  <2>1. StageOK(t, status, rows, received[t.c], k, today)
    BY <1>6 DEF StagesOK
  <2> HIDE DEF status, rows, k
  <2>2. ContractLocked(t) => ContractLocked(v)
    BY <1>4 DEF ContractLocked
  <2>3. RegisterOK(t, status, rows, k, today) => RegisterOK(v, status, rows, k, today)
    BY <1>4, <1>5 DEF RegisterOK, AmountOK, status, rows, k
  <2>4. RenegotiateOK(t, status, rows, k, today) => RenegotiateOK(v, status, rows, k, today)
    BY <1>4, <1>5 DEF RenegotiateOK, status, rows, k
  <2>5. CancelOK(t, status, rows, received[t.c], k) => CancelOK(v, status, rows, received[t.c], k)
    BY <1>4, <1>5 DEF CancelOK, status, rows, k
  <2>6. StageOK(v, status, rows, received[t.c], k, today)
    BY <1>4, <2>1, <2>2, <2>3, <2>4, <2>5 DEF StageOK
  <2> QED BY <1>3, <1>4, <2>6, OwnStage DEF v, status, rows, k
<1>7. CASE t.next = "begin"
  BY <1>3, <1>4, <1>7, OwnStage DEF v
<1> QED BY <1>6, <1>7

-----------------------------------------------------------------------------
(* A commit is one step of the ledger *)

\* The rows of a transaction that commits, and what they pay up.
CommittedRows(t, status, rows, day) ==
    LET paid == PaidRows(t, rows, day) IN
    IF t.n # 0 THEN IF RecomputedStatus(status, paid) \in Live THEN FlaggedRows(paid, day) ELSE paid
    ELSE IF t.new # None THEN RenegotiatedRows(rows) ELSE CancelledRows(rows)

\* A transaction that is about to commit sees what the ledger's step writes.
LEMMA CommitSees ==
  ASSUME TInv, StagesOK, NEW p \in Procs, tx[p].next = "commit"
  PROVE  LET t == tx[p]
             c == t.c
             rows == installments[c]
             status == contract[c].status
             paid == PaidRows(t, rows, today)
             status1 == RecomputedStatus(status, paid)
             days == DaysOverdue(paid, today)
         IN
         /\ c \in Contracts /\ t.n \in DOMAIN rows \cup {0}
         /\ SeenRows(p) = CommittedRows(t, status, rows, today)
         /\ t.n # 0 =>
               /\ t.new = None /\ t.lag \in Backdating /\ AmountOK(t, rows, today)
               /\ t.pay > 0 /\ IsOpen(rows[t.n]) /\ t.pay <= TotalOutstanding(rows[t.n], today - t.lag)
               /\ IF status1 \in Live
                  THEN SeenStatus(p) = RefreshedStatus(status1, days)
                       /\ SeenCase(p) = RefreshedCase(kase[c], days)
                  ELSE SeenStatus(p) = status1 /\ SeenCase(p) = kase[c]
         /\ t.new # None =>
               /\ t.n = 0 /\ t.new \in Contracts \ {c} /\ t.term \in Terms
               /\ status \in Live /\ contract[t.new].status = "NONE"
               /\ t.pay = ConsolidatedBalance(rows) /\ t.pay \in Nat \ {0}
               /\ today + t.term.firstDueIn \in Nat
               /\ SeenStatus(p) = "RENEGOTIATED" /\ SeenCase(p) = ClosedCase(kase[c])
         /\ t.n = 0 /\ t.new = None =>
               /\ status # "NONE" /\ ~HasPayments(c)
               /\ SeenStatus(p) = "CANCELLED" /\ SeenCase(p) = kase[c]
<1> DEFINE t == tx[p]
           c == t.c
           rows == installments[c]
           status == contract[c].status
           k == kase[c]
<1>1. t.next # "begin"
  OBVIOUS
<1>2. /\ t \in Tx /\ ControlOK(t) /\ OpenTxOK(t) /\ c \in Contracts
  BY <1>1, OpenFacts
<1>3. StageOK(t, status, rows, received[c], k, today)
  BY <1>1 DEF StagesOK
<1>4. /\ SeenStatus(p) = SawStatus(t, status) /\ SeenRows(p) = SawRows(t, rows)
      /\ SeenCase(p) = SawCase(t, k)
  BY SawIsSeen
<1>5. t.n \in DOMAIN rows \cup {0} /\ status # "NONE"
  BY <1>2 DEF OpenTxOK
<1>6. CASE t.n # 0
  <2>1. RegisterOK(t, status, rows, k, today)
    BY <1>3, <1>6 DEF StageOK
  <2>2. t.new = None /\ t.lag \in Backdating /\ t.pay > 0
    BY <1>2, <1>6 DEF ControlOK
  <2> DEFINE paid == PaidRows(t, rows, today)
             status1 == RecomputedStatus(status, paid)
             days == DaysOverdue(paid, today)
  <2>3. /\ AmountOK(t, rows, today) /\ IsOpen(rows[t.n])
        /\ t.pay <= TotalOutstanding(rows[t.n], today - t.lag)
        /\ IF status1 \in Live
           THEN /\ SawStatus(t, status) = RefreshedStatus(status1, days)
                /\ SawRows(t, rows) = FlaggedRows(paid, today)
                /\ SawCase(t, k) = RefreshedCase(k, days)
           ELSE SawStatus(t, status) = status1 /\ SawRows(t, rows) = paid /\ SawCase(t, k) = k
    BY <2>1 DEF RegisterOK
  <2> HIDE DEF paid, status1, days
  <2>4. CommittedRows(t, status, rows, today)
           = IF status1 \in Live THEN FlaggedRows(paid, today) ELSE paid
    BY <1>6 DEF CommittedRows, paid, status1
  <2> QED BY <1>2, <1>4, <1>5, <1>6, <2>2, <2>3, <2>4 DEF paid, status1, days
<1>7. CASE t.n = 0 /\ t.new # None
  <2>1. RenegotiateOK(t, status, rows, k, today)
    BY <1>3, <1>7 DEF StageOK
  <2>2. /\ status \in Live /\ t.pay = Balance(rows, today) /\ t.pay \in Nat \ {0}
        /\ SawStatus(t, status) = "RENEGOTIATED" /\ SawRows(t, rows) = RenegotiatedRows(rows)
        /\ SawCase(t, k) = ClosedCase(k)
    BY <2>1 DEF RenegotiateOK
  <2>3. /\ t.new \in Contracts \ {c} /\ t.term \in Terms /\ contract[t.new].status = "NONE"
        /\ today + t.term.firstDueIn \in Nat
    BY <1>2, <1>7 DEF ControlOK, OpenTxOK, Tx
  <2>4. t.pay = ConsolidatedBalance(rows)
    BY <2>2, BalanceToday
  <2>5. CommittedRows(t, status, rows, today) = RenegotiatedRows(rows)
    BY <1>7 DEF CommittedRows
  <2> QED BY <1>2, <1>4, <1>5, <1>7, <2>2, <2>3, <2>4, <2>5
<1>8. CASE t.n = 0 /\ t.new = None
  <2>1. CancelOK(t, status, rows, received[c], k)
    BY <1>3, <1>8 DEF StageOK
  <2>2. /\ ~HasPayments(c) /\ SawStatus(t, status) = "CANCELLED" /\ SawCase(t, k) = k
        /\ SawRows(t, rows) = CancelledRows(rows)
    BY <2>1 DEF CancelOK, HasPayments
  <2>3. CommittedRows(t, status, rows, today) = CancelledRows(rows)
    BY <1>8 DEF CommittedRows
  <2> QED BY <1>2, <1>4, <1>5, <1>8, <2>2, <2>3
<1> QED BY <1>6, <1>7, <1>8

\* The tables that a commit leaves, as updates of the tables it found.
LEMMA CommitUpdates ==
  ASSUME TInv, NEW p \in Procs, Commit(p)
  PROVE  LET t == tx[p]
             c == t.c
         IN
         /\ kase' = [kase EXCEPT ![c] = SeenCase(p)] /\ today' = today
         /\ t.new = None =>
               /\ contract' = [contract EXCEPT ![c].status = SeenStatus(p)]
               /\ installments' = [installments EXCEPT ![c] = SeenRows(p)]
               /\ t.n # 0 => received' = [received EXCEPT ![c][t.n] = @ + t.pay]
               /\ t.n = 0 => received' = received
         /\ t.new # None /\ t.n = 0 =>
               /\ contract' = [contract EXCEPT ![c].status = SeenStatus(p),
                                   ![t.new] = [status |-> "ACTIVE", renegotiatedFrom |-> c]]
               /\ installments' = [installments EXCEPT ![c] = SeenRows(p),
                     ![t.new] = NewInstallments(t.pay, t.term.termMonths,
                                                today + t.term.firstDueIn)]
               /\ received' = [received EXCEPT ![t.new] = Nothing(t.term.termMonths)]
<1> DEFINE t == tx[p]
           c == t.c
           fresh == NewInstallments(t.pay, t.term.termMonths, today + t.term.firstDueIn)
           none == Nothing(t.term.termMonths)
           link == [status |-> "ACTIVE", renegotiatedFrom |-> c]
<1>1. /\ kase' = [kase EXCEPT ![c] = SeenCase(p)] /\ today' = today
      /\ contract' = [d \in Contracts |->
            IF d = c THEN [contract[d] EXCEPT !.status = SeenStatus(p)]
            ELSE IF d = t.new THEN link ELSE contract[d]]
      /\ installments' = [d \in Contracts |->
            IF d = c THEN SeenRows(p) ELSE IF d = t.new THEN fresh ELSE installments[d]]
      /\ received' = [d \in Contracts |->
            IF d = c /\ t.n # 0 THEN [received[d] EXCEPT ![t.n] = @ + t.pay]
            ELSE IF d = t.new THEN none ELSE received[d]]
  BY DEF Commit
<1>2. /\ c \in Contracts /\ (t.new # None => t.new \in Contracts \ {c})
      /\ None \notin Contracts
  BY CommitWrites, LedgerAssumption
<1>3. /\ contract = [d \in Contracts |-> contract[d]]
      /\ installments = [d \in Contracts |-> installments[d]]
      /\ received = [d \in Contracts |-> received[d]]
  BY DEF TInv, TablesOK
<1> HIDE DEF fresh, none, link
<1>4. CASE t.new = None
  <2>1. /\ contract' = [contract EXCEPT ![c].status = SeenStatus(p)]
        /\ installments' = [installments EXCEPT ![c] = SeenRows(p)]
    BY <1>1, <1>2, <1>3, <1>4
  <2>2. t.n # 0 => received' = [received EXCEPT ![c][t.n] = @ + t.pay]
    BY <1>1, <1>2, <1>3, <1>4
  <2>3. t.n = 0 => received' = received
    BY <1>1, <1>2, <1>3, <1>4
  <2> QED BY <1>1, <1>4, <2>1, <2>2, <2>3
<1>5. CASE t.new # None
  <2>1. /\ contract' = [contract EXCEPT ![c].status = SeenStatus(p), ![t.new] = link]
        /\ installments' = [installments EXCEPT ![c] = SeenRows(p), ![t.new] = fresh]
    BY <1>1, <1>2, <1>3, <1>5
  <2>2. t.n = 0 => received' = [received EXCEPT ![t.new] = none]
    BY <1>1, <1>2, <1>3, <1>5
  <2> QED BY <1>1, <1>5, <2>1, <2>2 DEF fresh, none, link
<1> QED BY <1>4, <1>5

\* A payment that commits is register, of an amount clients pay or of all that is owed.
LEMMA CommitIsPayment ==
  ASSUME TInv, StagesOK, NEW p \in Procs, Commit(p), tx[p].n # 0
  PROVE  Pay(tx[p].c)
<1> DEFINE t == tx[p]
           c == t.c
           n == t.n
           rows == installments[c]
           status == contract[c].status
           paid == PaidRows(t, rows, today)
           status1 == RecomputedStatus(status, paid)
           owed == TotalOutstanding(rows[n], today - t.lag)
<1>1. t.next = "commit"
  BY DEF Commit, At
<1>2. /\ n \in DOMAIN rows /\ t.new = None /\ t.lag \in Backdating
      /\ AmountOK(t, rows, today) /\ t.pay > 0 /\ IsOpen(rows[n]) /\ t.pay <= owed
      /\ SeenRows(p) = CommittedRows(t, status, rows, today)
      /\ IF status1 \in Live
         THEN SeenStatus(p) = RefreshedStatus(status1, DaysOverdue(paid, today))
              /\ SeenCase(p) = RefreshedCase(kase[c], DaysOverdue(paid, today))
         ELSE SeenStatus(p) = status1 /\ SeenCase(p) = kase[c]
  BY <1>1, CommitSees
<1>3. /\ c \in Contracts /\ rows[n] \in Installment /\ t.pay \in Nat
      /\ today \in Nat /\ t.lag \in Nat
  BY <1>1, <1>2, OpenFacts, LedgerAssumption DEF RowOK, Tx
<1>4. /\ kase' = [kase EXCEPT ![c] = SeenCase(p)] /\ today' = today
      /\ contract' = [contract EXCEPT ![c].status = SeenStatus(p)]
      /\ installments' = [installments EXCEPT ![c] = SeenRows(p)]
      /\ received' = [received EXCEPT ![c][n] = @ + t.pay]
  BY <1>2, CommitUpdates
<1>5. kase \in [Contracts -> CaseRow]
  BY DEF TInv, TablesOK
<1>6. RefreshWrites(c, status1, paid)
  <2>1. CASE status1 \in Live
    <3>1. SeenRows(p) = FlaggedRows(paid, today)
      BY <1>2, <2>1 DEF CommittedRows
    <3> HIDE DEF paid, status1
    <3> QED BY <1>2, <1>4, <2>1, <3>1 DEF RefreshWrites
  <2>2. CASE status1 \notin Live
    <3>1. SeenRows(p) = paid
      BY <1>2, <2>2 DEF CommittedRows
    <3>2. kase' = kase
      BY <1>2, <1>4, <1>5, <2>2
    <3> HIDE DEF paid, status1
    <3> QED BY <1>2, <1>4, <2>2, <3>1, <3>2 DEF RefreshWrites
  <2> QED BY <2>1, <2>2
<1>7. register(c, n, t.pay, t.lag)
  BY <1>2, <1>4, <1>6 DEF register, PaidRows
<1>8. CASE t.pay \in PayAmounts
  BY <1>2, <1>7, <1>8 DEF Pay
<1>9. CASE owed <= t.pay
  <2>1. owed \in Nat
    BY <1>3, TotalNat
  <2> HIDE DEF owed
  <2>2. t.pay = owed
    BY <1>2, <1>3, <1>9, <2>1
  <2>3. settleInstallment(c, n, t.lag)
    BY <1>7, <2>2 DEF settleInstallment, owed
  <2> QED BY <1>2, <2>3 DEF Pay
<1> QED BY <1>2, <1>8, <1>9 DEF AmountOK

\* A renegotiation that commits is renegotiate, of the balance that was owed.
LEMMA CommitIsRenegotiation ==
  ASSUME TInv, StagesOK, NEW p \in Procs, Commit(p), tx[p].new # None
  PROVE  \E new \in Contracts \ {tx[p].c}, term \in Terms : renegotiate(tx[p].c, new, term)
<1> DEFINE t == tx[p]
           c == t.c
           rows == installments[c]
           status == contract[c].status
<1>1. t.next = "commit"
  BY DEF Commit, At
<1>2. /\ c \in Contracts /\ t.n = 0 /\ t.new \in Contracts \ {c} /\ t.term \in Terms
      /\ status \in Live /\ contract[t.new].status = "NONE"
      /\ t.pay = ConsolidatedBalance(rows) /\ t.pay \in Nat \ {0}
      /\ today + t.term.firstDueIn \in Nat
      /\ SeenStatus(p) = "RENEGOTIATED" /\ SeenCase(p) = ClosedCase(kase[c])
      /\ SeenRows(p) = CommittedRows(t, status, rows, today)
  BY <1>1, CommitSees
<1>3. SeenRows(p) = RenegotiatedRows(rows)
  BY <1>2 DEF CommittedRows
<1>4. /\ kase' = [kase EXCEPT ![c] = ClosedCase(kase[c])] /\ today' = today
      /\ contract' = [contract EXCEPT ![c].status = "RENEGOTIATED",
                          ![t.new] = [status |-> "ACTIVE", renegotiatedFrom |-> c]]
      /\ installments' = [installments EXCEPT ![c] = RenegotiatedRows(rows),
            ![t.new] = NewInstallments(ConsolidatedBalance(rows), t.term.termMonths,
                                       today + t.term.firstDueIn)]
      /\ received' = [received EXCEPT ![t.new] = Nothing(t.term.termMonths)]
  BY <1>2, <1>3, CommitUpdates
<1>5. kase \in [Contracts -> CaseRow]
  BY DEF TInv, TablesOK
<1>6. kase' = IF kase[c].status \in {"NONE", "RESOLVED", "WRITTEN_OFF"} THEN kase
              ELSE [kase EXCEPT ![c].status = "RESOLVED", ![c].dunningStage = 0]
  <2>1. CASE NothingToResolve(kase[c])
    BY <1>4, <1>5, <2>1 DEF ClosedCase, NothingToResolve
  <2>2. CASE ~NothingToResolve(kase[c])
    <3>1. kase' = [kase EXCEPT ![c] = [kase[c] EXCEPT !.status = "RESOLVED", !.dunningStage = 0]]
      BY <1>4, <2>2 DEF ClosedCase
    <3>2. kase' = [kase EXCEPT ![c].status = "RESOLVED", ![c].dunningStage = 0]
      BY <1>2, <1>5, <3>1
    <3> QED BY <2>2, <3>2 DEF NothingToResolve
  <2> QED BY <2>1, <2>2
<1>7. installments' = [installments EXCEPT
         ![c] = [n \in DOMAIN @ |-> IF IsOpen(@[n])
                                    THEN [@[n] EXCEPT !.status = "RENEGOTIATED"]
                                    ELSE @[n]],
         ![t.new] = NewInstallments(ConsolidatedBalance(rows), t.term.termMonths,
                                    today + t.term.firstDueIn)]
  BY <1>4 DEF RenegotiatedRows
<1>8. renegotiate(c, t.new, t.term)
  BY <1>2, <1>4, <1>6, <1>7 DEF renegotiate
<1> QED BY <1>2, <1>8

\* A cancellation that commits is cancel.
LEMMA CommitIsCancellation ==
  ASSUME TInv, StagesOK, NEW p \in Procs, Commit(p), tx[p].n = 0, tx[p].new = None
  PROVE  cancel(tx[p].c)
<1> DEFINE t == tx[p]
           c == t.c
           rows == installments[c]
<1>1. t.next = "commit"
  BY DEF Commit, At
<1>2. /\ contract[c].status # "NONE" /\ ~HasPayments(c)
      /\ SeenStatus(p) = "CANCELLED" /\ SeenCase(p) = kase[c]
      /\ SeenRows(p) = CommittedRows(t, contract[c].status, rows, today)
  BY <1>1, CommitSees
<1>3. SeenRows(p) = CancelledRows(rows)
  BY <1>2 DEF CommittedRows
<1>4. /\ kase' = [kase EXCEPT ![c] = kase[c]] /\ today' = today
      /\ contract' = [contract EXCEPT ![c].status = "CANCELLED"]
      /\ installments' = [installments EXCEPT ![c] = CancelledRows(rows)]
      /\ received' = received
  BY <1>2, <1>3, CommitUpdates
<1>5. kase' = kase
  BY <1>4 DEF TInv, TablesOK
<1>6. installments' = [installments EXCEPT
          ![c] = [n \in DOMAIN @ |-> [@[n] EXCEPT !.status = "CANCELLED"]]]
  BY <1>4 DEF CancelledRows
<1> QED BY <1>2, <1>4, <1>5, <1>6 DEF cancel

-----------------------------------------------------------------------------
(* What the others have locked, and what they are waiting for *)

\* Every commit leaves each installment of its contract owing no more than before.
LEMMA CommitPaysUp ==
  ASSUME TInv, StagesOK, NEW p \in Procs, Commit(p), NEW n \in DOMAIN installments[tx[p].c]
  PROVE  LET i == installments[tx[p].c][n]
             j == installments'[tx[p].c][n]
         IN i \in Installment /\ j \in Installment /\ PaidUp(i, j)
<1> DEFINE t == tx[p]
           c == t.c
           rows == installments[c]
           status == contract[c].status
           paid == PaidRows(t, rows, today)
           i == rows[n]
<1>1. t.next = "commit" /\ installments'[c] = SeenRows(p)
  BY CommitWrites
<1>2. /\ SeenRows(p) = CommittedRows(t, status, rows, today)
      /\ t.n # 0 => t.n \in DOMAIN rows /\ t.lag \in Backdating
  BY <1>1, CommitSees
<1>3. /\ i \in Installment /\ today \in Nat /\ t.pay \in Nat
      /\ SeenRows(p)[n] \in Installment
  <2>1. /\ \A m \in DOMAIN rows : RowOK(rows[m], received[c][m])
        /\ today \in Nat /\ t \in Tx
    BY <1>1, OpenFacts
  <2>2. RowOK(SeenRows(p)[n], received[c][n] + PaidOn(t, n))
    BY <1>1, SeenRowsOK
  <2> QED BY <2>1, <2>2 DEF RowOK, Tx
<1>4. \A s : PaidUp(i, [i EXCEPT !.status = s])
  <2> HIDE DEF i
  <2>1. today \in Int
    BY <1>3
  <2> QED BY <1>3, <2>1, PaymentPaysUp
<1>5. PaidUp(i, i)
  <2>1. i.amountPaid \in Nat /\ i.lateFee \in Nat /\ i.lateInterest \in Nat
    BY <1>3 DEF Installment
  <2> HIDE DEF i
  <2> QED BY <2>1 DEF PaidUp
<1>6. CASE t.n # 0
  <2> DEFINE j == paid[n]
  <2>1. IF n = t.n THEN j = AfterPayment(i, t.pay, today - t.lag) ELSE j = i
    BY <1>2, <1>6 DEF PaidRows
  <2>2. PaidUp(i, j)
    <3>1. today - t.lag \in Int
      <4>1. t.lag \in Nat
        BY <1>2, <1>6, LedgerAssumption
      <4> QED BY <1>3, <4>1
    <3>2. n = t.n => PaidUp(i, AfterPayment(i, t.pay, today - t.lag))
      BY <1>3, <3>1, PaymentPaysUp
    <3> QED BY <1>5, <2>1, <3>2
  <2>3. DOMAIN paid = DOMAIN rows
    BY DEF PaidRows
  <2>4. FlaggedRows(paid, today)[n] \in {j, [j EXCEPT !.status = "OVERDUE"]}
    BY <2>3 DEF FlaggedRows
  <2>5. SeenRows(p)[n] \in {j, [j EXCEPT !.status = "OVERDUE"]}
    BY <1>2, <1>6, <2>4 DEF CommittedRows
  <2>6. PaidUp(i, [j EXCEPT !.status = "OVERDUE"])
    <3> DEFINE f == [j EXCEPT !.status = "OVERDUE"]
    <3>1. /\ f.dueDay = j.dueDay /\ f.amountDue = j.amountDue /\ f.amountPaid = j.amountPaid
          /\ f.lateFee = j.lateFee /\ f.lateInterest = j.lateInterest
      OBVIOUS
    <3> HIDE DEF f, j, i
    <3> QED BY <2>2, <3>1 DEF PaidUp, f
  <2> QED BY <1>1, <1>3, <2>2, <2>5, <2>6
<1>7. CASE t.n = 0
  <2>1. SeenRows(p)[n] \in {i, [i EXCEPT !.status = "RENEGOTIATED"],
                               [i EXCEPT !.status = "CANCELLED"]}
    BY <1>2, <1>7 DEF CommittedRows, RenegotiatedRows, CancelledRows
  <2> QED BY <1>1, <1>3, <1>4, <1>5, <2>1
<1> QED BY <1>6, <1>7

\* A transaction goes on as before when the tables change, if its contract is left alone,
\* or if it has yet to lock it and its payment is still enough.
LEMMA StageFrame ==
  ASSUME TInv, StagesOK, NEW q \in Procs, tx'[q] = tx[q], today' = today,
         tx[q].next # "begin" =>
            LET t == tx[q] IN
            \/ /\ contract'[t.c] = contract[t.c] /\ installments'[t.c] = installments[t.c]
               /\ received'[t.c] = received[t.c] /\ kase'[t.c] = kase[t.c]
            \/ /\ t.next \in FirstStatements
               /\ t.n # 0 /\ AmountOK(t, installments[t.c], today)
                     => AmountOK(t, installments'[t.c], today)
  PROVE  LET v == tx'[q] IN
         v.next # "begin" => StageOK(v, contract'[v.c].status, installments'[v.c],
                                     received'[v.c], kase'[v.c], today')
<1> DEFINE t == tx[q]
<1> SUFFICES ASSUME t.next # "begin"
             PROVE  StageOK(t, contract'[t.c].status, installments'[t.c], received'[t.c],
                            kase'[t.c], today)
  OBVIOUS
<1>1. StageOK(t, contract[t.c].status, installments[t.c], received[t.c], kase[t.c], today)
  BY DEF StagesOK
<1>2. CASE /\ contract'[t.c] = contract[t.c] /\ installments'[t.c] = installments[t.c]
           /\ received'[t.c] = received[t.c] /\ kase'[t.c] = kase[t.c]
  BY <1>1, <1>2
<1>3. CASE /\ t.next \in FirstStatements
           /\ t.n # 0 /\ AmountOK(t, installments[t.c], today)
                 => AmountOK(t, installments'[t.c], today)
  <2>1. ControlOK(t)
    BY OpenFacts
  <2>2. ContractLocked(t)
    BY <1>1 DEF StageOK
  <2>3. t.n # 0 => RegisterOK(t, contract'[t.c].status, installments'[t.c], kase'[t.c], today)
    <3>1. t.n # 0 => t.next = "lockInstallment"
      BY <1>3, <2>1 DEF ControlOK, FirstStatements, RegisterStages
    <3>2. t.n # 0 => AmountOK(t, installments'[t.c], today)
      BY <1>1, <1>3 DEF StageOK, RegisterOK
    <3> QED BY <3>1, <3>2 DEF RegisterOK
  <2>4. t.new # None =>
          RenegotiateOK(t, contract'[t.c].status, installments'[t.c], kase'[t.c], today)
    BY <1>3 DEF RenegotiateOK, FirstStatements
  <2>5. t.n = 0 /\ t.new = None =>
          CancelOK(t, contract'[t.c].status, installments'[t.c], received'[t.c], kase'[t.c])
    <3>1. t.n = 0 /\ t.new = None => t.next = "countPayments"
      BY <1>1, <1>3 DEF StageOK, CancelOK, FirstStatements
    <3> QED BY <3>1 DEF CancelOK
  <2> QED BY <2>2, <2>3, <2>4, <2>5 DEF StageOK
<1> QED BY <1>2, <1>3

\* The stages of all transactions, when the tables change and one of them ends.
LEMMA StagesAfter ==
  ASSUME \A q \in Procs : LET v == tx'[q] IN
            v.next # "begin" => StageOK(v, contract'[v.c].status, installments'[v.c],
                                        received'[v.c], kase'[v.c], today')
  PROVE  StagesOK'
BY DEF StagesOK

\* A commit: nobody else has locked its contract, and who waits for it finds payments
\* that ask for no more than is owed then.
LEMMA CommitStage ==
  ASSUME TInv, StagesOK, NEW p \in Procs, Commit(p)
  PROVE  StagesOK'
<1> DEFINE t == tx[p]
           c == t.c
<1>1. /\ t.next = "commit" /\ c \in Contracts /\ today' = today /\ tx' = [tx EXCEPT ![p] = Idle]
      /\ \A d \in Contracts \ {c} : kase'[d] = kase[d]
      /\ \A d \in Contracts \ {c, t.new} : /\ contract'[d] = contract[d]
                                           /\ installments'[d] = installments[d]
                                           /\ received'[d] = received[d]
      /\ t.new # None => contract[t.new].status = "NONE"
  BY CommitWrites
<1>2. tx \in [Procs -> Tx] /\ Idle.next = "begin"
  BY DEF TInv, Idle
<1>3. ContractRow(c) \in t.held
  <2>1. StageOK(t, contract[c].status, installments[c], received[c], kase[c], today)
    BY <1>1 DEF StagesOK
  <2> QED BY <1>1, <2>1 DEF StageOK, ContractLocked, FirstStatements
<1>4. ASSUME NEW q \in Procs
      PROVE  LET v == tx'[q] IN
             v.next # "begin" => StageOK(v, contract'[v.c].status, installments'[v.c],
                                         received'[v.c], kase'[v.c], today')
  <2>1. CASE q = p
    <3> HIDE DEF Idle
    <3>1. tx'[q].next = "begin"
      BY <1>1, <1>2, <2>1
    <3> QED BY <3>1
  <2>2. CASE q # p
    <3> DEFINE w == tx[q]
    <3>1. tx'[q] = w
      BY <1>1, <1>2, <2>2
    <3>2. ASSUME w.next # "begin"
          PROVE  \/ /\ contract'[w.c] = contract[w.c] /\ installments'[w.c] = installments[w.c]
                    /\ received'[w.c] = received[w.c] /\ kase'[w.c] = kase[w.c]
                 \/ /\ w.next \in FirstStatements
                    /\ w.n # 0 /\ AmountOK(w, installments[w.c], today)
                          => AmountOK(w, installments'[w.c], today)
      <4>1. /\ w.c \in Contracts /\ contract[w.c].status # "NONE" /\ w \in Tx
            /\ w.n \in DOMAIN installments[w.c] \cup {0} /\ ControlOK(w)
            /\ ContractLocked(w) /\ today \in Nat
        <5>1. w.c \in Contracts /\ OpenTxOK(w) /\ w \in Tx /\ ControlOK(w) /\ today \in Nat
          BY <3>2, OpenFacts
        <5>2. ContractLocked(w)
          BY <3>2 DEF StagesOK, StageOK
        <5> QED BY <5>1, <5>2 DEF OpenTxOK
      <4>2. w.c # t.new
        BY <1>1, <4>1, LedgerAssumption
      <4>3. CASE w.c # c
        BY <1>1, <4>1, <4>2, <4>3
      <4>4. CASE w.c = c
        <5>1. ContractRow(c) \notin w.held
          BY <1>3, <2>2 DEF TInv
        <5>2. w.next \in FirstStatements
          BY <4>1, <4>4, <5>1 DEF ContractLocked
        <5>3. ASSUME w.n # 0, AmountOK(w, installments[w.c], today)
              PROVE  AmountOK(w, installments'[w.c], today)
          <6> DEFINE i == installments[c][w.n]
                     j == installments'[c][w.n]
                     day == today - w.lag
          <6>1. i \in Installment /\ j \in Installment /\ PaidUp(i, j)
            BY <4>1, <4>4, <5>3, CommitPaysUp
          <6>2. day \in Int /\ w.pay \in Nat
            <7>1. w.lag \in Nat /\ w.pay \in Nat
              BY <4>1, <5>3, LedgerAssumption DEF ControlOK, Tx
            <7> QED BY <4>1, <7>1
          <6>3. TotalOutstanding(j, day) <= TotalOutstanding(i, day)
            <7> HIDE DEF i, j, day
            <7> QED BY <6>1, <6>2, PaidUpOwesNoMore
          <6>4. TotalOutstanding(j, day) \in Nat /\ TotalOutstanding(i, day) \in Nat
            <7> HIDE DEF i, j, day
            <7> QED BY <6>1, <6>2, TotalNat
          <6>5. w.pay \in PayAmounts \/ TotalOutstanding(i, day) <= w.pay
            BY <4>4, <5>3 DEF AmountOK
          <6> HIDE DEF i, j
          <6>6. w.pay \in PayAmounts \/ TotalOutstanding(j, day) <= w.pay
            BY <6>2, <6>3, <6>4, <6>5
          <6> QED BY <4>4, <6>6 DEF AmountOK, i, j
        <5> QED BY <5>2, <5>3
      <4> QED BY <4>3, <4>4
    <3> QED BY <1>1, <3>1, <3>2, StageFrame
  <2> QED BY <2>1, <2>2
<1> QED BY <1>4, StagesAfter

-----------------------------------------------------------------------------
(* The refinement *)

\* Every statement of a request: none of them is the dunning ladder's.
LEMMA StatementKeepsStages ==
  ASSUME TInv, StagesOK, NEW p \in Procs, Statement(p)
  PROVE  StagesOK'
<1>1. Rollback(p) => StagesOK'
  BY RollbackStage
<1>2. allocate(p) \/ consolidate(p) \/ countPayments(p) => StagesOK'
  BY <1>1, AllocateStage, ConsolidateStage, CountPaymentsStage
<1>3. lockInstallment(p) \/ recompute(p) \/ writeStatus(p) \/ readContract(p)
         \/ readInstallments(p) \/ flag(p) \/ writeCase(p) => StagesOK'
  BY LockInstallmentStage, RecomputeStage, WriteStatusStage, ReadContractStage,
     ReadInstallmentsStage, FlagStage, WriteCaseStage
<1>4. lockInstallments(p) \/ closeCase(p) \/ cancelInstallments(p) \/ Commit(p) => StagesOK'
  BY LockInstallmentsStage, CloseCaseStage, CancelInstallmentsStage, CommitStage
<1>5. ~writeStage(p)
  <2> SUFFICES ASSUME tx[p].next = "writeStage" PROVE FALSE
    BY DEF writeStage, At
  <2>1. ControlOK(tx[p])
    BY OpenFacts
  <2>2. tx[p].n = 0 /\ tx[p].new = None
    BY <2>1 DEF ControlOK, RegisterStages, RenegotiateStages
  <2> QED BY <2>2 DEF StagesOK, StageOK, CancelOK
<1> QED BY <1>2, <1>3, <1>4, <1>5 DEF Statement

\* Contracts are made, and cases written, away from the transactions that are open.
LEMMA ElsewhereStage ==
  ASSUME TInv, StagesOK, ~CasesOverlap,
         \/ \E c \in Loans, offer \in Offers : Create(c, offer)
         \/ \E c \in Contracts : CaseStatement(c)
  PROVE  StagesOK'
<1> DEFINE Kept(d) == /\ contract'[d] = contract[d] /\ installments'[d] = installments[d]
                      /\ received'[d] = received[d] /\ kase'[d] = kase[d]
<1>1. tx' = tx /\ today' = today
  BY DEF Create, createFromProposal, CaseStatement, addInteraction, addPromise, breakPromise
<1>2. /\ contract = [d \in Contracts |-> contract[d]] /\ kase = [d \in Contracts |-> kase[d]]
      /\ installments = [d \in Contracts |-> installments[d]]
      /\ received = [d \in Contracts |-> received[d]]
  BY DEF TInv, TablesOK
<1>3. ASSUME NEW q \in Procs, tx[q].next # "begin" PROVE Kept(tx[q].c)
  <2>1. tx[q].c \in Contracts /\ contract[tx[q].c].status # "NONE"
    BY <1>3, OpenFacts DEF OpenTxOK
  <2>2. ASSUME NEW c \in Loans, NEW offer \in Offers, Create(c, offer) PROVE Kept(tx[q].c)
    <3>1. contract[c].status = "NONE" /\ kase' = kase
      BY <2>2 DEF Create, createFromProposal
    <3>2. tx[q].c # c
      BY <2>1, <3>1
    <3>3. /\ contract' = [contract EXCEPT ![c] = [status |-> "ACTIVE", renegotiatedFrom |-> None]]
          /\ installments' = [installments EXCEPT ![c] =
                NewInstallments(offer.principal, offer.termMonths, today + offer.firstDueIn)]
          /\ received' = [received EXCEPT ![c] = Nothing(offer.termMonths)]
      BY <2>2 DEF Create, createFromProposal
    <3> QED BY <1>2, <2>1, <3>1, <3>2, <3>3
  <2>3. ASSUME NEW c \in Contracts, CaseStatement(c) PROVE Kept(tx[q].c)
    <3>1. tx[q].c # c /\ UNCHANGED <<contract, installments, received>>
      BY <2>3 DEF CaseStatement, addInteraction, addPromise, breakPromise
    <3>2. kase'[tx[q].c] = kase[tx[q].c]
      BY <1>2, <2>1, <2>3, <3>1 DEF CaseStatement, addInteraction, addPromise, breakPromise
    <3> QED BY <3>1, <3>2
  <2> QED BY <2>2, <2>3
<1>4. ASSUME NEW q \in Procs
      PROVE  LET v == tx'[q] IN
             v.next # "begin" => StageOK(v, contract'[v.c].status, installments'[v.c],
                                         received'[v.c], kase'[v.c], today')
  BY <1>1, <1>3, StageFrame
<1> QED BY <1>4, StagesAfter

\* Every step keeps the stages.
LEMMA TxNextKeepsStages ==
  ASSUME TInv, StagesOK, Batch = {}, ~CasesOverlap, [TxNext]_txVars
  PROVE  StagesOK'
<1>1. ASSUME NEW p \in Procs, Acquire(p) \/ AbortDeadlocked(p) \/ Abort(p) \/ Statement(p)
      PROVE  StagesOK'
  <2>1. AbortDeadlocked(p) \/ Abort(p) => Rollback(p)
    BY DEF AbortDeadlocked, Abort
  <2> QED BY <1>1, <2>1, AcquireStage, RollbackStage, StatementKeepsStages
<1>2. ASSUME NEW p \in Clients, Begin(p) PROVE StagesOK'
  BY <1>2, BeginStage DEF Procs
<1>3. CASE \/ \E c \in Loans, offer \in Offers : Create(c, offer)
           \/ \E c \in Contracts : CaseStatement(c)
  BY <1>3, ElsewhereStage
<1>4. CASE Midnight
  <2>1. \A p \in Procs : tx'[p].next = "begin"
    BY <1>4 DEF Midnight, Idle
  <2> QED BY <2>1, StagesAfter
<1>5. CASE UNCHANGED txVars
  <2>1. /\ today' = today /\ contract' = contract /\ installments' = installments
        /\ received' = received /\ kase' = kase /\ tx' = tx
    BY <1>5 DEF txVars
  <2>2. \A q \in Procs : LET v == tx'[q] IN
            v.next # "begin" => StageOK(v, contract'[v.c].status, installments'[v.c],
                                        received'[v.c], kase'[v.c], today')
    BY <2>1 DEF StagesOK
  <2> QED BY <2>2, StagesAfter
<1> QED BY <1>1, <1>2, <1>3, <1>4, <1>5 DEF TxNext

\* Commits, case statements, creations and midnight are steps of the ledger; all other
\* statements leave the tables as they are.
LEMMA TxStepIsLedgerStep ==
  ASSUME TInv, StagesOK, Batch = {}, [TxNext]_txVars
  PROVE  [Next]_vars
<1>1. UNCHANGED Committed => UNCHANGED vars
  BY DEF Committed, vars
<1>2. ASSUME NEW p \in Procs, Commit(p) PROVE Next
  <2>1. tx[p].c \in Contracts
    BY <1>2, CommitWrites
  <2>2. CASE tx[p].n # 0
    BY <1>2, <2>1, <2>2, CommitIsPayment DEF Next
  <2>3. CASE tx[p].new # None
    BY <1>2, <2>1, <2>3, CommitIsRenegotiation DEF Next
  <2>4. CASE tx[p].n = 0 /\ tx[p].new = None
    BY <1>2, <2>1, <2>4, CommitIsCancellation DEF Next
  <2> QED BY <2>2, <2>3, <2>4
<1>3. ASSUME NEW p \in Procs, NEW t, NEW next, NEW rows, Goto(p, t, next, rows)
      PROVE  UNCHANGED Committed
  BY <1>3 DEF Goto
<1>4. ASSUME NEW p \in Procs, Acquire(p) \/ AbortDeadlocked(p) \/ Abort(p)
      PROVE  UNCHANGED Committed
  BY <1>4 DEF Acquire, AbortDeadlocked, Abort, Rollback, Committed
<1>5. ASSUME NEW p \in Procs, Statement(p), ~Commit(p)
      PROVE  UNCHANGED Committed
  <2>1. Rollback(p) => UNCHANGED Committed
    BY DEF Rollback
  <2>2. lockInstallment(p) \/ allocate(p) \/ recompute(p) \/ writeStatus(p) => UNCHANGED Committed
    BY <1>3, <2>1 DEF lockInstallment, allocate, recompute, writeStatus
  <2>3. readContract(p) \/ readInstallments(p) \/ flag(p) => UNCHANGED Committed
    BY <1>3 DEF readContract, readInstallments, flag
  <2>4. writeCase(p) \/ writeStage(p) => UNCHANGED Committed
    BY <1>3 DEF writeCase, writeStage
  <2>5. lockInstallments(p) \/ consolidate(p) \/ closeCase(p) => UNCHANGED Committed
    BY <1>3, <2>1 DEF lockInstallments, consolidate, closeCase
  <2>6. countPayments(p) \/ cancelInstallments(p) => UNCHANGED Committed
    BY <1>3, <2>1 DEF countPayments, cancelInstallments
  <2> QED BY <1>5, <2>2, <2>3, <2>4, <2>5, <2>6 DEF Statement
<1>6. ASSUME NEW p \in Clients, Begin(p) PROVE UNCHANGED Committed
  BY <1>3, <1>6 DEF Begin, beginRegister, beginSettle, beginRenegotiate, beginCancel, Procs
<1>7. Midnight => Next
  BY DEF Midnight, Next
<1>8. ASSUME NEW c \in Contracts, CaseStatement(c) PROVE Next
  BY <1>8 DEF CaseStatement, Next
<1>9. ASSUME NEW c \in Loans, NEW offer \in Offers, Create(c, offer) PROVE Next
  BY <1>9 DEF Create, Next
<1>10. UNCHANGED txVars => UNCHANGED vars
  BY DEF txVars, vars
<1> QED BY <1>1, <1>2, <1>4, <1>5, <1>6, <1>7, <1>8, <1>9, <1>10 DEF TxNext

\* Payments, renegotiations and cancellations implement the ledger's steps, for any number
\* of clients, contracts, installments and amounts, and whichever of them dies: the lock on
\* the contract makes each transaction one step to everybody else.
THEOREM TransactionsImplementLedger ==
  ASSUME Batch = {}, ~CasesOverlap
  PROVE  TxSpec => ImplementsLedger
<1>1. TxInit => Init /\ StagesOK
  BY DEF TxInit, StagesOK, Idle
<1>2. TInv /\ StagesOK /\ [TxNext]_txVars => StagesOK' /\ [Next]_vars
  BY TxNextKeepsStages, TxStepIsLedgerStep
<1> QED BY <1>1, <1>2, TxInvariant, PTL DEF TxSpec, ImplementsLedger, Spec

\* So what the ledger promises of whole transactions holds of their interleaved
\* statements: the status of a contract agrees with its installments, a debt is owed once,
\* default is arrears, and a closed contract stays closed.
THEOREM LockedTransactionsKeepLedger ==
  ASSUME Batch = {}, ~CasesOverlap
  PROVE  TxSpec => /\ []StatusMatchesInstallments /\ []DebtOwedOnce
                   /\ []DefaultMatchesArrears /\ ClosedStaysClosed
<1>1. TxSpec => Spec
  BY TransactionsImplementLedger DEF ImplementsLedger
<1> QED BY <1>1, StatusAgreesWithInstallments, DebtIsOwedOnce, DefaultIsArrears,
           ClosedContractsStayClosed, PTL
=============================================================================
