--------------------------- MODULE PaymentProofs ---------------------------
(***************************************************************************)
(* What PaymentRequests promises, for any number of keys, clerks, requests *)
(* under way, losses, contracts and amounts.                               *)
(*                                                                         *)
(* PInv adds to the ledger's invariant what a request is allowed to rely   *)
(* on at each of its stages (PostOK).  A settlement asks for what was owed *)
(* on the day it was priced for; since an installment never comes to owe   *)
(* more on the same day (PaidUpOwesNoMore), the amount still covers that   *)
(* day when the transaction runs, and it refuses more than is owed.  What  *)
(* may be missing is what a later day adds: the request without a date     *)
(* looks at the clock twice.                                               *)
(***************************************************************************)
EXTENDS PaymentRequests, ContractLedgerProofs

-----------------------------------------------------------------------------
(* The invariant *)

DialogRow == [key : Keys \cup {NoKey}, settle : BOOLEAN, c : Contracts \cup {None}, n : Nat,
              due : Nat, dated : BOOLEAN, day : Int, isSubmitting : BOOLEAN]
PostRow == [next : {"free", "preview", "receive", "transact", "replay", "answer"},
            clerk : Clerks \cup {None}, key : Keys \cup {NoKey}, settle : BOOLEAN,
            c : Contracts \cup {None}, n : Nat, pay : Nat, dated : BOOLEAN, day : Int,
            paidAt : Int, heard : BOOLEAN, answer : {"none", "paid", "error"}]
PaymentRow == [c : Contracts \cup {None}, n : Nat, amount : Nat, day : Int]

\* A dialog is open on an installment that exists, with a key that was drawn.
DialogOK(d, drawn, rows) ==
    /\ d \in DialogRow
    /\ d # NoDialog => d.key \in drawn /\ d.c \in Contracts /\ d.n \in DOMAIN rows[d.c]

\* A request is as far as its checks, its payment is dated as it asked for, and a
\* settlement that was priced asks for no less than is owed on the day it was priced for.
PostOK(t, drawn, charged, rows, day) ==
    /\ t \in PostRow
    /\ t # NoPost =>
          /\ t.next # "free" /\ t.clerk \in Clerks /\ t.key \in drawn
          /\ t.next # "answer" => t.c \in Contracts /\ t.n \in DOMAIN rows[t.c]
          /\ t.next \in {"transact", "replay"} =>
                t.pay > 0 /\ t.paidAt <= day /\ (t.dated => t.paidAt = t.day)
          /\ t.next = "replay" \/ t.answer = "paid" => charged[t.key] # NoPayment
          /\ t.settle /\ t.next \in {"receive", "transact"} =>
                TotalOutstanding(rows[t.c][t.n], t.day) <= t.pay

PInv ==
    /\ IInv
    /\ payment \in [Keys -> PaymentRow]
    /\ unused \subseteq Keys /\ told \subseteq Keys /\ losses \in 0..MaxLosses
    /\ dialog \in [Clerks -> DialogRow]
    /\ post \in [Posts -> PostRow]
    /\ \A w \in Clerks : DialogOK(dialog[w], Keys \ unused, installments)
    /\ \A q \in Posts : PostOK(post[q], Keys \ unused, payment, installments, today)

-----------------------------------------------------------------------------
(* What the ledger's steps leave to the requests under way *)

\* What an installment owes is a whole number of cents.
LEMMA TotalNat ==
  ASSUME NEW i \in Installment, NEW day \in Int
  PROVE  TotalOutstanding(i, day) \in Nat
<1>1. DaysLate(i, day) \in Nat
  BY DEF DaysLate, NonNeg, Installment
<1>2. computeOutstanding(i, DaysLate(i, day)) \in [base : Nat, fine : Nat, interest : Nat]
  BY <1>1, OutstandingNat
<1> QED BY <1>2 DEF TotalOutstanding

\* Every installment is still there, and paid up.
PaysUp(rows, rows1) ==
    \A c \in Contracts : \A n \in DOMAIN rows[c] :
        n \in DOMAIN rows1[c] /\ PaidUp(rows[c][n], rows1[c][n])

\* Nothing changes, or the status only.
LEMMA StatusPaysUp ==
  ASSUME NEW i \in Installment
  PROVE  PaidUp(i, i) /\ \A s : PaidUp(i, [i EXCEPT !.status = s])
<1>1. i.amountPaid \in Nat /\ i.lateFee \in Nat /\ i.lateInterest \in Nat
  BY DEF Installment
<1>2. PaidUp(i, i)
  BY <1>1 DEF PaidUp
<1>3. ASSUME NEW s PROVE PaidUp(i, [i EXCEPT !.status = s])
  <2> DEFINE j == [i EXCEPT !.status = s]
  <2>1. /\ j.dueDay = i.dueDay /\ j.amountDue = i.amountDue /\ j.amountPaid = i.amountPaid
        /\ j.lateFee = i.lateFee /\ j.lateInterest = i.lateInterest
    OBVIOUS
  <2> HIDE DEF j
  <2>2. PaidUp(i, j)
    BY <1>1, <2>1 DEF PaidUp
  <2> QED BY <2>2 DEF j
<1> QED BY <1>2, <1>3

\* A refresh flags rows; it does not change what is owed of them.
LEMMA RefreshPaysUp ==
  ASSUME IInv, NEW d \in Contracts, NEW status, NEW rows \in Seq(Installment),
         RefreshWrites(d, status, rows),
         \A n \in DOMAIN installments[d] :
            n \in DOMAIN rows /\ PaidUp(installments[d][n], rows[n])
  PROVE  PaysUp(installments, installments')
<1> SUFFICES ASSUME NEW c \in Contracts, NEW n \in DOMAIN installments[c]
             PROVE  n \in DOMAIN installments'[c]
                    /\ PaidUp(installments[c][n], installments'[c][n])
  BY DEF PaysUp
<1>1. installments[c][n] \in Installment
  BY DEF IInv, ContractOK, RowsOK, RowOK
<1>2. CASE c # d
  BY <1>1, <1>2, RefreshWritesFrame, StatusPaysUp
<1>3. CASE c = d
  <2>1. installments'[d] = rows \/ installments'[d] = FlaggedRows(rows, today)
    BY RefreshWritesFrame
  <2>2. n \in DOMAIN rows /\ PaidUp(installments[d][n], rows[n])
    BY <1>3
  <2>3. /\ n \in DOMAIN FlaggedRows(rows, today)
        /\ FlaggedRows(rows, today)[n] \in {rows[n], [rows[n] EXCEPT !.status = "OVERDUE"]}
    BY <2>2 DEF FlaggedRows
  <2> DEFINE f == [rows[n] EXCEPT !.status = "OVERDUE"]
  <2>4. PaidUp(installments[d][n], f)
    <3> DEFINE i == installments[d][n]
               j == rows[n]
    <3>1. j \in Installment
      BY <2>2
    <3>2. /\ f.dueDay = j.dueDay /\ f.amountDue = j.amountDue /\ f.amountPaid = j.amountPaid
          /\ f.lateFee = j.lateFee /\ f.lateInterest = j.lateInterest
      BY <3>1 DEF Installment
    <3>3. PaidUp(i, j)
      BY <2>2
    <3> HIDE DEF i, j, f
    <3>4. PaidUp(i, f)
      BY <3>2, <3>3 DEF PaidUp
    <3> QED BY <3>4 DEF i
  <2> QED BY <1>3, <2>1, <2>2, <2>3, <2>4
<1> QED BY <1>2, <1>3

\* A payment pays up the installment it is made on.
LEMMA RegisterPaysUp ==
  ASSUME IInv, NEW c \in Contracts, NEW n \in DOMAIN installments[c],
         NEW pay \in Nat, NEW lag \in Int, register(c, n, pay, lag)
  PROVE  PaysUp(installments, installments')
<1> DEFINE i == installments[c][n]
           j == AfterPayment(i, pay, today - lag)
           rows == [installments[c] EXCEPT ![n] = j]
<1>1. /\ pay > 0 /\ pay <= TotalOutstanding(i, today - lag)
      /\ RefreshWrites(c, RecomputedStatus(contract[c].status, rows), rows)
  BY DEF register
<1>2. /\ today - lag \in Int /\ installments[c] \in Seq(Installment)
      /\ RowOK(i, received[c][n]) /\ i \in Installment
  BY DEF IInv, ContractOK, RowsOK, RowOK
<1>3. PaidUp(i, j)
  BY <1>2, PaymentPaysUp
<1>4. j \in Installment
  <2>1. RowOK(j, received[c][n] + pay)
    BY <1>1, <1>2, PaymentKeepsRow
  <2> QED BY <2>1 DEF RowOK
<1>5. \A m \in DOMAIN installments[c] : PaidUp(installments[c][m], installments[c][m])
  BY <1>2, StatusPaysUp DEF IInv, ContractOK, RowsOK, RowOK
<1> HIDE DEF j
<1>6. rows \in Seq(Installment) /\ DOMAIN rows = DOMAIN installments[c]
  BY <1>2, <1>4
<1>7. \A m \in DOMAIN installments[c] : m \in DOMAIN rows /\ PaidUp(installments[c][m], rows[m])
  BY <1>3, <1>5, <1>6
<1> HIDE DEF rows, i
<1> QED BY <1>1, <1>6, <1>7, RefreshPaysUp

\* A contract that does not exist has no installments; nobody can have asked to pay one.
LEMMA NoRowsYet ==
  ASSUME IInv, NEW c \in Contracts, contract[c].status = "NONE"
  PROVE  installments[c] = <<>> /\ received[c] = <<>>
<1>1. RowsOK(installments[c], received[c]) /\ installments[c] = <<>>
  BY DEF IInv, ContractOK, StatusOK
<1>2. Len(received[c]) = 0 /\ received[c] \in Seq(Nat)
  BY <1>1 DEF RowsOK
<1> QED BY <1>1, <1>2

\* What else happens to the tables keeps the ledger's invariant, leaves installments paid
\* up, and credits nothing to a contract that exists.
LEMMA ElsewhereStep ==
  ASSUME IInv, Elsewhere
  PROVE  /\ IInv' /\ PaysUp(installments, installments') /\ today' >= today
         /\ \/ received' = received
            \/ \E c \in Contracts, m \in Nat :
                  received[c] = <<>> /\ received' = [received EXCEPT ![c] = Nothing(m)]
<1> DEFINE Credits == \/ received' = received
                      \/ \E c \in Contracts, m \in Nat :
                            received[c] = <<>> /\ received' = [received EXCEPT ![c] = Nothing(m)]
           Goal == /\ IInv' /\ PaysUp(installments, installments') /\ today' >= today /\ Credits
<1> SUFFICES Goal
  OBVIOUS
<1>1. today \in Nat /\ \A c \in Contracts : installments[c] \in Seq(Installment)
  BY DEF IInv
<1>2. \A c \in Contracts : \A n \in DOMAIN installments[c] :
         /\ installments[c][n] \in Installment
         /\ PaidUp(installments[c][n], installments[c][n])
         /\ \A s : PaidUp(installments[c][n], [installments[c][n] EXCEPT !.status = s])
  BY StatusPaysUp DEF IInv, ContractOK, RowsOK, RowOK
<1>3. CASE NextDay
  <2>1. IInv'
    BY <1>3, NextDayStep
  <2>2. today' >= today /\ UNCHANGED <<installments, received>>
    BY <1>1, <1>3, LedgerAssumption DEF NextDay
  <2> QED BY <1>2, <2>1, <2>2 DEF PaysUp
<1>4. ASSUME NEW c \in Loans, NEW offer \in Offers, createFromProposal(c, offer)
      PROVE  Goal
  <2>1. c \in Contracts /\ offer.termMonths \in Nat
    BY LedgerAssumption
  <2>2. IInv'
    BY <1>4, <2>1, CreateStep
  <2>3. installments[c] = <<>> /\ received[c] = <<>>
    BY <1>4, <2>1, NoRowsYet DEF createFromProposal
  <2>4. /\ today' = today
        /\ \A d \in Contracts \ {c} : installments'[d] = installments[d]
        /\ received' = [received EXCEPT ![c] = Nothing(offer.termMonths)]
    BY <1>4 DEF createFromProposal, IInv
  <2>5. DOMAIN installments[c] = {}
    <3>1. DOMAIN <<>> = {}
      OBVIOUS
    <3> QED BY <2>3, <3>1
  <2>6. PaysUp(installments, installments')
    BY <1>2, <2>4, <2>5 DEF PaysUp
  <2>7. Credits
    BY <2>1, <2>3, <2>4
  <2> HIDE DEF Credits
  <2> QED BY <1>1, <2>2, <2>4, <2>6, <2>7
<1>5. ASSUME NEW c \in Contracts, cancel(c)
      PROVE  Goal
  <2>1. IInv'
    BY <1>5, CancelStep
  <2>2. /\ today' = today /\ received' = received
        /\ \A d \in Contracts \ {c} : installments'[d] = installments[d]
        /\ installments'[c] = [n \in DOMAIN installments[c] |->
                                 [installments[c][n] EXCEPT !.status = "CANCELLED"]]
    BY <1>5 DEF cancel, IInv
  <2>3. ASSUME NEW d \in Contracts, NEW n \in DOMAIN installments[d]
        PROVE  n \in DOMAIN installments'[d] /\ PaidUp(installments[d][n], installments'[d][n])
    <3>1. CASE d = c
      <4>1. /\ n \in DOMAIN installments'[d]
            /\ installments'[d][n] = [installments[d][n] EXCEPT !.status = "CANCELLED"]
        BY <2>2, <3>1
      <4>2. PaidUp(installments[d][n], [installments[d][n] EXCEPT !.status = "CANCELLED"])
        BY <1>2
      <4> QED BY <4>1, <4>2
    <3>2. CASE d # c
      BY <1>2, <2>2, <3>2
    <3> QED BY <3>1, <3>2
  <2>4. PaysUp(installments, installments')
    BY <2>3 DEF PaysUp
  <2> QED BY <1>1, <2>1, <2>2, <2>4
<1>6. ASSUME NEW c \in Contracts, refreshContract(c)
      PROVE  Goal
  <2>1. IInv'
    BY <1>6, RefreshStep
  <2>2. /\ today' = today /\ received' = received
        /\ RefreshWrites(c, contract[c].status, installments[c])
    BY <1>6 DEF refreshContract
  <2>3. PaysUp(installments, installments')
    BY <1>1, <1>2, <2>2, RefreshPaysUp
  <2> QED BY <1>1, <2>1, <2>2, <2>3
<1>7. ASSUME NEW c \in Contracts, NEW new \in Contracts \ {c}, NEW term \in Terms,
             renegotiate(c, new, term)
      PROVE  Goal
  <2>1. IInv' /\ term.termMonths \in Nat
    BY <1>7, RenegotiateStep, LedgerAssumption
  <2>2. installments[new] = <<>> /\ received[new] = <<>>
    BY <1>7, NoRowsYet DEF renegotiate
  <2>3. /\ today' = today
        /\ received' = [received EXCEPT ![new] = Nothing(term.termMonths)]
        /\ \A d \in Contracts \ {c, new} : installments'[d] = installments[d]
        /\ installments'[c] = [n \in DOMAIN installments[c] |->
                                 IF IsOpen(installments[c][n])
                                 THEN [installments[c][n] EXCEPT !.status = "RENEGOTIATED"]
                                 ELSE installments[c][n]]
    BY <1>7 DEF renegotiate, IInv
  <2>4. DOMAIN installments[new] = {}
    <3>1. DOMAIN <<>> = {}
      OBVIOUS
    <3> QED BY <2>2, <3>1
  <2>5. ASSUME NEW d \in Contracts, NEW n \in DOMAIN installments[d]
        PROVE  n \in DOMAIN installments'[d] /\ PaidUp(installments[d][n], installments'[d][n])
    <3>1. CASE d = c
      <4>1. n \in DOMAIN installments'[d]
        BY <2>3, <3>1
      <4>2. installments'[d][n] \in
               {installments[d][n], [installments[d][n] EXCEPT !.status = "RENEGOTIATED"]}
        BY <2>3, <3>1
      <4>3. PaidUp(installments[d][n], [installments[d][n] EXCEPT !.status = "RENEGOTIATED"])
        BY <1>2
      <4> QED BY <1>2, <4>1, <4>2, <4>3
    <3>2. CASE d # c
      BY <1>2, <2>3, <2>4, <3>2
    <3> QED BY <3>1, <3>2
  <2>6. PaysUp(installments, installments')
    BY <2>5 DEF PaysUp
  <2>7. Credits
    BY <2>1, <2>2, <2>3
  <2> HIDE DEF Credits
  <2> QED BY <1>1, <2>1, <2>3, <2>6, <2>7
<1> HIDE DEF Goal
<1> QED BY <1>3, <1>4, <1>5, <1>6, <1>7 DEF Elsewhere

\* Requests under way and dialogs stand it that contracts come to exist, are paid and
\* closed, that more keys are drawn and charged, and that days pass.
LEMMA PostStays ==
  ASSUME NEW t, NEW drawn, NEW drawn1, NEW charged, NEW charged1, NEW rows, NEW rows1,
         NEW day \in Int, NEW day1 \in Int,
         PostOK(t, drawn, charged, rows, day), drawn \subseteq drawn1, day <= day1,
         \A k \in drawn : charged[k] # NoPayment => charged1[k] # NoPayment,
         \A c \in Contracts : rows[c] \in Seq(Installment) /\ rows1[c] \in Seq(Installment),
         PaysUp(rows, rows1)
  PROVE  PostOK(t, drawn1, charged1, rows1, day1)
<1> SUFFICES ASSUME t # NoPost PROVE PostOK(t, drawn1, charged1, rows1, day1)
  BY DEF PostOK
<1>1. /\ t \in PostRow /\ t.next # "free" /\ t.clerk \in Clerks /\ t.key \in drawn
      /\ t.next # "answer" => t.c \in Contracts /\ t.n \in DOMAIN rows[t.c]
      /\ t.next \in {"transact", "replay"} =>
            t.pay > 0 /\ t.paidAt <= day /\ (t.dated => t.paidAt = t.day)
      /\ t.next = "replay" \/ t.answer = "paid" => charged[t.key] # NoPayment
      /\ t.settle /\ t.next \in {"receive", "transact"} =>
            TotalOutstanding(rows[t.c][t.n], t.day) <= t.pay
  BY DEF PostOK
<1>2. t.next # "answer" => /\ t.c \in Contracts /\ t.n \in DOMAIN rows[t.c]
                          /\ t.n \in DOMAIN rows1[t.c]
                          /\ PaidUp(rows[t.c][t.n], rows1[t.c][t.n])
  BY <1>1 DEF PaysUp
<1>3. t.day \in Int /\ t.paidAt \in Int /\ t.pay \in Nat
  BY <1>1 DEF PostRow
<1>4. ASSUME t.settle, t.next \in {"receive", "transact"}
      PROVE  TotalOutstanding(rows1[t.c][t.n], t.day) <= t.pay
  <2>1. rows[t.c][t.n] \in Installment /\ rows1[t.c][t.n] \in Installment
    BY <1>2, <1>4
  <2>2. /\ TotalOutstanding(rows[t.c][t.n], t.day) \in Nat
        /\ TotalOutstanding(rows1[t.c][t.n], t.day) \in Nat
        /\ TotalOutstanding(rows1[t.c][t.n], t.day) <= TotalOutstanding(rows[t.c][t.n], t.day)
    BY <1>2, <1>3, <1>4, <2>1, TotalNat, PaidUpOwesNoMore
  <2> QED BY <1>1, <1>3, <1>4, <2>2
<1>5. t.next \in {"transact", "replay"} =>
         t.pay > 0 /\ t.paidAt <= day1 /\ (t.dated => t.paidAt = t.day)
  BY <1>1, <1>3
<1> QED BY <1>1, <1>2, <1>4, <1>5 DEF PostOK

\* The same of all of them at once.
LEMMA EverythingElseStays ==
  ASSUME PInv, IInv', PaysUp(installments, installments'), today' >= today,
         UNCHANGED <<unused, dialog>>,
         \A k \in Keys : payment[k] # NoPayment => payment'[k] # NoPayment
  PROVE  /\ \A w \in Clerks : DialogOK(dialog'[w], Keys \ unused', installments')
         /\ \A q \in Posts : PostOK(post[q], Keys \ unused', payment', installments', today')
<1>1. /\ today \in Int /\ today' \in Int
      /\ \A c \in Contracts : installments[c] \in Seq(Installment)
                              /\ installments'[c] \in Seq(Installment)
  BY DEF PInv, IInv
<1>2. ASSUME NEW w \in Clerks
      PROVE  DialogOK(dialog'[w], Keys \ unused', installments')
  BY DEF PInv, DialogOK, PaysUp
<1>3. ASSUME NEW q \in Posts
      PROVE  PostOK(post[q], Keys \ unused', payment', installments', today')
  <2>1. PostOK(post[q], Keys \ unused, payment, installments, today)
    BY DEF PInv
  <2> QED BY <1>1, <2>1, PostStays
<1> QED BY <1>2, <1>3

-----------------------------------------------------------------------------
(* Dialogs and submissions *)

\* What the steps of a request do to the dialogs: nothing, or one of them is closed, or
\* its button is disabled or enabled.
DialogsStay ==
    \/ dialog' = dialog
    \/ \E v \in Clerks :
          \/ dialog' = [dialog EXCEPT ![v] = NoDialog]
          \/ /\ dialog[v] # NoDialog
             /\ \E b \in BOOLEAN : dialog' = [dialog EXCEPT ![v].isSubmitting = b]

\* That leaves every dialog as it should be.
LEMMA DialogsStayOK ==
  ASSUME PInv, DialogsStay
  PROVE  /\ dialog' \in [Clerks -> DialogRow]
         /\ \A w \in Clerks : DialogOK(dialog'[w], Keys \ unused, installments)
<1>1. NoDialog \in DialogRow
  BY DEF NoDialog, DialogRow
<1>2. \A w \in Clerks : dialog[w] \in DialogRow
  BY DEF PInv
<1>3. ASSUME NEW w \in Clerks
      PROVE  /\ dialog'[w] \in DialogRow
             /\ DialogOK(dialog'[w], Keys \ unused, installments)
  <2>1. CASE dialog'[w] = dialog[w]
    BY <1>2, <2>1 DEF PInv
  <2>2. CASE dialog'[w] = NoDialog
    BY <1>1, <2>2 DEF DialogOK
  <2>3. ASSUME dialog[w] # NoDialog, NEW b \in BOOLEAN,
               dialog'[w] = [dialog[w] EXCEPT !.isSubmitting = b]
        PROVE  /\ dialog'[w] \in DialogRow
               /\ DialogOK(dialog'[w], Keys \ unused, installments)
    <3>1. /\ dialog'[w] \in DialogRow
          /\ dialog'[w].key = dialog[w].key /\ dialog'[w].c = dialog[w].c
          /\ dialog'[w].n = dialog[w].n
      BY <1>2, <2>3 DEF DialogRow
    <3> QED BY <2>3, <3>1 DEF PInv, DialogOK
  <2>4. \/ dialog'[w] = dialog[w] \/ dialog'[w] = NoDialog
        \/ /\ dialog[w] # NoDialog
           /\ \E b \in BOOLEAN : dialog'[w] = [dialog[w] EXCEPT !.isSubmitting = b]
    BY DEF DialogsStay, PInv
  <2> QED BY <2>1, <2>2, <2>3, <2>4
<1>4. dialog' = [w \in Clerks |-> dialog'[w]]
  BY DEF DialogsStay, PInv
<1> QED BY <1>3, <1>4

\* A step of a request that does not touch the tables.
LEMMA DeskStep ==
  ASSUME PInv, DialogsStay, NEW q \in Posts, NEW t,
         PostOK(t, Keys \ unused, payment, installments, today),
         post' = [post EXCEPT ![q] = t],
         told' \subseteq Keys, losses' \in 0..MaxLosses, UNCHANGED <<vars, payment, unused>>
  PROVE  PInv'
<1>1. IInv'
  BY DEF PInv, IInv, DebtOwedOnce, Rows, vars
<1>2. /\ dialog' \in [Clerks -> DialogRow]
      /\ \A w \in Clerks : DialogOK(dialog'[w], Keys \ unused, installments)
  BY DialogsStayOK
<1>3. t \in PostRow
  BY DEF PostOK
<1>4. post' \in [Posts -> PostRow]
  BY <1>3 DEF PInv
<1>5. \A r \in Posts : PostOK(post'[r], Keys \ unused, payment, installments, today)
  BY DEF PInv
<1> QED BY <1>1, <1>2, <1>4, <1>5 DEF PInv, vars

\* What a request carries, but for where it is, what it asks for and its dates.
SameRequest(u, t) ==
    /\ u.clerk = t.clerk /\ u.key = t.key /\ u.settle = t.settle /\ u.c = t.c /\ u.n = t.n
    /\ u.dated = t.dated /\ u.answer = t.answer

\* The ways the handlers move a request on.
LEMMA GotoMoves ==
  ASSUME NEW t \in PostRow, NEW next \in {"preview", "receive", "transact", "replay", "answer"}
  PROVE  LET u == [t EXCEPT !.next = next] IN
         /\ u \in PostRow /\ SameRequest(u, t) /\ u.next = next
         /\ u.pay = t.pay /\ u.day = t.day /\ u.paidAt = t.paidAt
BY DEF PostRow, SameRequest

Priced(t, sum, day) == [[t EXCEPT !.pay = sum, !.day = day] EXCEPT !.next = "receive"]

LEMMA PricedMoves ==
  ASSUME NEW t \in PostRow, NEW sum \in Nat, NEW day \in Int
  PROVE  LET u == Priced(t, sum, day) IN
         /\ u \in PostRow /\ SameRequest(u, t) /\ u.next = "receive"
         /\ u.pay = sum /\ u.day = day /\ u.paidAt = t.paidAt
BY DEF PostRow, SameRequest, Priced

LEMMA DatedMoves ==
  ASSUME NEW t \in PostRow, NEW day \in Int
  PROVE  LET u == [[t EXCEPT !.paidAt = day] EXCEPT !.next = "transact"] IN
         /\ u \in PostRow /\ SameRequest(u, t) /\ u.next = "transact"
         /\ u.pay = t.pay /\ u.day = t.day /\ u.paidAt = day
BY DEF PostRow, SameRequest

\* An answer that says "paid" only of a key that was charged is in order.
Answered(t, said) ==
    [[NoPost EXCEPT !.clerk = t.clerk, !.key = t.key, !.heard = t.heard, !.answer = said]
        EXCEPT !.next = "answer"]

LEMMA AnsweredOK ==
  ASSUME NEW t \in PostRow, NEW said \in {"none", "paid", "error"}, NEW drawn, NEW charged,
         NEW rows, NEW day, t.clerk \in Clerks, t.key \in drawn,
         said = "paid" => charged[t.key] # NoPayment
  PROVE  PostOK(Answered(t, said), drawn, charged, rows, day)
<1> DEFINE u == Answered(t, said)
<1>0. NoPost \in PostRow
  BY DEF NoPost, PostRow
<1>1. /\ u \in PostRow /\ u.next = "answer" /\ u.answer = said
      /\ u.clerk = t.clerk /\ u.key = t.key
  <2>1. t.clerk \in Clerks /\ t.key \in Keys \cup {NoKey} /\ t.heard \in BOOLEAN
    BY DEF PostRow
  <2> QED BY <1>0, <2>1 DEF PostRow, Answered
<1> HIDE DEF u
<1>2. PostOK(u, drawn, charged, rows, day)
  BY <1>1 DEF PostOK
<1> QED BY <1>2 DEF u

\* A toast enables the button of a dialog that is still open.
LEMMA ReleasedStays ==
  ASSUME PInv, NEW q \in Posts, post[q] # NoPost, dialog' = Released(q)
  PROVE  DialogsStay
<1>1. post[q].clerk \in Clerks /\ post[q].key \in Keys
  BY DEF PInv, PostOK
<1>2. dialog[post[q].clerk].key = post[q].key => dialog[post[q].clerk] # NoDialog
  BY <1>1, PaymentAssumption DEF NoDialog
<1> QED BY <1>1, <1>2 DEF Released, DialogsStay

\* A request that ends leaves nothing under way.
LEMMA RequestEnds ==
  ASSUME PInv, DialogsStay, NEW q \in Posts, post' = [post EXCEPT ![q] = NoPost],
         told' \subseteq Keys, losses' \in 0..MaxLosses, UNCHANGED <<vars, payment, unused>>
  PROVE  PInv'
<1>1. NoPost \in PostRow
  BY DEF NoPost, PostRow
<1>2. PostOK(NoPost, Keys \ unused, payment, installments, today)
  BY <1>1 DEF PostOK
<1> QED BY <1>2, DeskStep

-----------------------------------------------------------------------------
(* The handlers keep the invariant *)

\* The request as it waits for its handler.
LEMMA Waiting ==
  ASSUME PInv, NEW q \in Posts, post[q].next # "free"
  PROVE  LET t == post[q] IN
         /\ t \in PostRow /\ t # NoPost /\ t.clerk \in Clerks /\ t.key \in Keys \ unused
         /\ t.pay \in Nat /\ t.day \in Int /\ t.paidAt \in Int /\ t.dated \in BOOLEAN
         /\ t.answer \in {"none", "paid", "error"}
         /\ t.answer = "paid" \/ t.next = "replay" => Persisted(t.key)
         /\ t.next # "answer" =>
               /\ t.c \in Contracts /\ t.n \in DOMAIN installments[t.c]
               /\ installments[t.c][t.n] \in Installment
               /\ \A day \in Int : TotalOutstanding(installments[t.c][t.n], day) \in Nat
         /\ t.settle /\ t.next \in {"receive", "transact"} =>
               TotalOutstanding(installments[t.c][t.n], t.day) <= t.pay
         /\ t.next \in {"transact", "replay"} =>
               t.pay > 0 /\ t.paidAt <= today /\ (t.dated => t.paidAt = t.day)
<1> DEFINE t == post[q]
<1>1. t \in PostRow /\ t.next # "free" /\ PostOK(t, Keys \ unused, payment, installments, today)
  BY DEF PInv
<1> HIDE DEF t
<1>2. t # NoPost
  BY <1>1 DEF NoPost
<1>3. /\ t.clerk \in Clerks /\ t.key \in Keys \ unused
      /\ t.next # "answer" => t.c \in Contracts /\ t.n \in DOMAIN installments[t.c]
      /\ t.next \in {"transact", "replay"} =>
            t.pay > 0 /\ t.paidAt <= today /\ (t.dated => t.paidAt = t.day)
      /\ t.next = "replay" \/ t.answer = "paid" => Persisted(t.key)
      /\ t.settle /\ t.next \in {"receive", "transact"} =>
            TotalOutstanding(installments[t.c][t.n], t.day) <= t.pay
  BY <1>1, <1>2 DEF PostOK, Persisted
<1>4. /\ t.pay \in Nat /\ t.day \in Int /\ t.paidAt \in Int /\ t.dated \in BOOLEAN
      /\ t.answer \in {"none", "paid", "error"}
  BY <1>1 DEF PostRow
<1>5. t.next # "answer" => installments[t.c][t.n] \in Installment
  BY <1>3 DEF PInv, IInv
<1>6. t.next # "answer" =>
         \A day \in Int : TotalOutstanding(installments[t.c][t.n], day) \in Nat
  BY <1>5, TotalNat
<1> QED BY <1>1, <1>2, <1>3, <1>4, <1>5, <1>6 DEF t

\* A request that goes on, within the API.
LEMMA RequestGoesOn ==
  ASSUME PInv, NEW q \in Posts, NEW u,
         PostOK(u, Keys \ unused, payment, installments, today),
         post' = [post EXCEPT ![q] = u], UNCHANGED <<vars, payment, Server>>
  PROVE  PInv'
<1>1. DialogsStay /\ told' \subseteq Keys /\ losses' \in 0..MaxLosses
  BY DEF DialogsStay, PInv, Server
<1>2. UNCHANGED <<vars, payment, unused>>
  BY DEF Server
<1> QED BY <1>1, <1>2, DeskStep

\* One that is answered, from wherever it is.
LEMMA RequestAnswered ==
  ASSUME PInv, NEW q \in Posts, post[q].next # "free", NEW said \in {"error", "paid"},
         said = "paid" => Persisted(post[q].key), Answer(q, said),
         UNCHANGED <<vars, payment, Server>>
  PROVE  PInv'
<1>1. post[q] \in PostRow /\ post[q].clerk \in Clerks /\ post[q].key \in Keys \ unused
  BY Waiting
<1>2. post' = [post EXCEPT ![q] = Answered(post[q], said)]
  BY DEF Answer, Goto, Answered
<1>3. PostOK(Answered(post[q], said), Keys \ unused, payment, installments, today)
  BY <1>1, AnsweredOK DEF Persisted
<1> QED BY <1>2, <1>3, RequestGoesOn

\* The date of a payment is a day.
LEMMA DateOfDay ==
  ASSUME PInv, NEW q \in Posts, post[q].next # "free"
  PROVE  DateOf(post[q]) \in Int /\ (post[q].dated => DateOf(post[q]) = post[q].day)
<1>1. post[q].day \in Int
  BY Waiting
<1>2. today \in Int
  BY DEF PInv, IInv
<1> QED BY <1>1, <1>2 DEF DateOf

\* settleInstallment's preview.
LEMMA PreviewStep ==
  ASSUME PInv, NEW q \in Posts, previewCharges(q)
  PROVE  PInv'
<1> DEFINE t == post[q]
           day == DateOf(t)
           sum == TotalOutstanding(installments[t.c][t.n], day)
           u == Priced(t, sum, day)
<1>1. t.next = "preview" /\ post' = [post EXCEPT ![q] = u] /\ UNCHANGED <<vars, payment, Server>>
  BY DEF previewCharges, Goto, Priced
<1>2. day \in Int
  BY <1>1, DateOfDay
<1>3. /\ t \in PostRow /\ t.clerk \in Clerks /\ t.key \in Keys \ unused
      /\ t.c \in Contracts /\ t.n \in DOMAIN installments[t.c]
      /\ t.answer = "paid" => Persisted(t.key)
      /\ sum \in Nat
  <2> HIDE DEF day
  <2> QED BY <1>1, <1>2, Waiting
<1> HIDE DEF day
<1>4. sum <= sum /\ sum = TotalOutstanding(installments[t.c][t.n], day)
  BY <1>3
<1> HIDE DEF sum
<1>5. /\ u \in PostRow /\ SameRequest(u, t) /\ u.next = "receive"
      /\ u.pay = sum /\ u.day = day
  BY <1>2, <1>3, PricedMoves
<1> HIDE DEF u, t
<1>6. PostOK(u, Keys \ unused, payment, installments, today)
  BY <1>3, <1>4, <1>5 DEF PostOK, SameRequest, Persisted
<1> QED BY <1>1, <1>6, RequestGoesOn

\* The checks before the transaction, and the replay of a key that was charged.
LEMMA ReceiveStep ==
  ASSUME PInv, NEW q \in Posts, receive(q)
  PROVE  PInv'
<1> DEFINE t == post[q]
           day == DateOf(t)
           u == [[t EXCEPT !.paidAt = day] EXCEPT !.next = "transact"]
<1>1. t.next = "receive" /\ UNCHANGED <<vars, payment, Server>>
  BY DEF receive
<1>2. day \in Int /\ (t.dated => day = t.day)
  BY <1>1, DateOfDay
<1>3. /\ t \in PostRow /\ t.clerk \in Clerks /\ t.key \in Keys \ unused
      /\ t.c \in Contracts /\ t.n \in DOMAIN installments[t.c]
      /\ t.pay \in Nat /\ (t.answer = "paid" => Persisted(t.key))
      /\ t.settle => TotalOutstanding(installments[t.c][t.n], t.day) <= t.pay
  BY <1>1, Waiting
<1>4. today \in Int
  BY DEF PInv, IInv
<1>5. \/ Answer(q, "error")
      \/ (Persisted(t.key) /\ Answer(q, "paid"))
      \/ (t.pay > 0 /\ day <= today /\ post' = [post EXCEPT ![q] = u])
  BY <1>2, <1>3, <1>4 DEF receive, Goto
<1>6. CASE t.pay > 0 /\ day <= today /\ post' = [post EXCEPT ![q] = u]
  <2> HIDE DEF day
  <2>1. /\ u \in PostRow /\ SameRequest(u, t) /\ u.next = "transact"
        /\ u.pay = t.pay /\ u.day = t.day /\ u.paidAt = day
    BY <1>2, <1>3, DatedMoves
  <2> HIDE DEF u, t
  <2>2. PostOK(u, Keys \ unused, payment, installments, today)
    BY <1>2, <1>3, <1>6, <2>1 DEF PostOK, SameRequest, Persisted
  <2> QED BY <1>1, <1>6, <2>2, RequestGoesOn
<1>7. CASE Answer(q, "error") \/ (Persisted(t.key) /\ Answer(q, "paid"))
  BY <1>1, <1>7, RequestAnswered
<1> HIDE DEF t, u, day
<1> QED BY <1>5, <1>6, <1>7

\* The unique index, the checks of the transaction, and the fallback after P2002.
LEMMA RefusalStep ==
  ASSUME PInv, NEW q \in Posts, conflict(q) \/ reject(q) \/ replay(q)
  PROVE  PInv'
<1> DEFINE t == post[q]
<1>1. t.next \in {"transact", "replay"} /\ UNCHANGED <<vars, payment, Server>>
  BY DEF conflict, reject, replay
<1>2. CASE conflict(q)
  <2> DEFINE u == [t EXCEPT !.next = "replay"]
  <2>1. post' = [post EXCEPT ![q] = u] /\ Persisted(t.key)
    BY <1>2 DEF conflict, Goto
  <2>2. /\ t \in PostRow /\ t.clerk \in Clerks /\ t.key \in Keys \ unused
        /\ t.c \in Contracts /\ t.n \in DOMAIN installments[t.c]
        /\ t.pay > 0 /\ t.paidAt <= today /\ (t.dated => t.paidAt = t.day)
    BY <1>1, Waiting
  <2>3. /\ u \in PostRow /\ SameRequest(u, t) /\ u.next = "replay"
        /\ u.pay = t.pay /\ u.day = t.day /\ u.paidAt = t.paidAt
    BY <2>2, GotoMoves
  <2> HIDE DEF u, t
  <2>4. PostOK(u, Keys \ unused, payment, installments, today)
    BY <2>1, <2>2, <2>3 DEF PostOK, SameRequest, Persisted
  <2> QED BY <1>1, <2>1, <2>4, RequestGoesOn
<1>3. CASE Answer(q, "error") \/ (Persisted(t.key) /\ Answer(q, "paid"))
  BY <1>1, <1>3, RequestAnswered
<1>4. conflict(q) \/ Answer(q, "error") \/ (Persisted(t.key) /\ Answer(q, "paid"))
  <2>1. CASE reject(q)
    BY <2>1 DEF reject
  <2>2. CASE replay(q) /\ Persisted(t.key)
    BY <2>2 DEF replay
  <2>3. CASE replay(q) /\ ~Persisted(t.key)
    BY <2>3 DEF replay
  <2> QED BY <2>1, <2>2, <2>3
<1> HIDE DEF t
<1> QED BY <1>2, <1>3, <1>4

\* What the client makes of an answer, or of hearing none.
LEMMA AnswerStep ==
  ASSUME PInv, NEW q \in Posts, answer(q)
  PROVE  PInv'
<1>1. /\ post[q].next = "answer" /\ post' = [post EXCEPT ![q] = NoPost]
      /\ UNCHANGED <<vars, payment, unused, losses>>
  BY DEF answer
<1>2. post[q].clerk \in Clerks /\ post[q].key \in Keys /\ post[q] # NoPost
  BY <1>1, Waiting
<1>3. DialogsStay /\ told' \subseteq Keys
  <2>1. CASE /\ told' = told \cup {post[q].key}
             /\ dialog' = [dialog EXCEPT ![post[q].clerk] = NoDialog]
    BY <1>2, <2>1 DEF DialogsStay, PInv
  <2>2. CASE told' = told /\ dialog' = Released(q)
    BY <1>2, <2>2, ReleasedStays DEF PInv
  <2> QED BY <2>1, <2>2 DEF answer
<1>4. losses' \in 0..MaxLosses
  BY <1>1 DEF PInv
<1> QED BY <1>1, <1>3, <1>4, RequestEnds

LEMMA LoseRequestStep ==
  ASSUME PInv, NEW q \in Posts, loseRequest(q)
  PROVE  PInv'
<1>1. /\ post' = [post EXCEPT ![q] = NoPost] /\ DialogsStay /\ told' \subseteq Keys
      /\ UNCHANGED <<vars, payment, unused>>
  BY ReleasedStays DEF loseRequest, PInv
<1>2. losses' \in 0..MaxLosses
  BY PaymentAssumption DEF loseRequest, PInv
<1> QED BY <1>1, <1>2, RequestEnds

LEMMA LoseConnectionStep ==
  ASSUME PInv, NEW q \in Posts, loseConnection(q)
  PROVE  PInv'
<1> DEFINE t == post[q]
           u == [t EXCEPT !.heard = FALSE]
<1>1. t \in PostRow /\ PostOK(t, Keys \ unused, payment, installments, today)
  BY DEF PInv
<1>2. t # NoPost
  BY DEF loseConnection, NoPost
<1>3. post' = [post EXCEPT ![q] = u] /\ UNCHANGED <<vars, payment, unused>>
  BY <1>1 DEF loseConnection, PInv
<1>4. /\ u \in PostRow /\ SameRequest(u, t) /\ u.next = t.next /\ u.pay = t.pay
      /\ u.day = t.day /\ u.paidAt = t.paidAt
  BY <1>1 DEF PostRow, SameRequest
<1> HIDE DEF u
<1>5. PostOK(u, Keys \ unused, payment, installments, today)
  <2> HIDE DEF t
  <2> QED BY <1>1, <1>2, <1>4 DEF PostOK, SameRequest
<1>6. DialogsStay
  BY <1>2, ReleasedStays DEF loseConnection
<1>7. told' \subseteq Keys /\ losses' \in 0..MaxLosses
  BY PaymentAssumption DEF loseConnection, PInv
<1> HIDE DEF t
<1> QED BY <1>3, <1>5, <1>6, <1>7, DeskStep

\* A request takes the key and the installment of the dialog it comes from.
LEMMA SubmitStep ==
  ASSUME PInv, NEW w \in Clerks, NEW pay \in Nat, submit(w, pay)
  PROVE  PInv'
<1> DEFINE d == dialog[w]
           u == [next |-> IF d.settle THEN "preview" ELSE "receive",
                 clerk |-> w, key |-> d.key, settle |-> d.settle,
                 c |-> d.c, n |-> d.n, pay |-> pay,
                 dated |-> d.dated, day |-> d.day, paidAt |-> 0,
                 heard |-> TRUE, answer |-> "none"]
<1>1. FreePost \in Posts
  BY Zenon DEF submit, FreePost
<1>2. /\ d # NoDialog /\ post' = [post EXCEPT ![FreePost] = u]
      /\ dialog' = [dialog EXCEPT ![w].isSubmitting = TRUE]
      /\ UNCHANGED <<vars, payment, unused, told, losses>>
  BY DEF submit
<1>3. d \in DialogRow /\ DialogOK(d, Keys \ unused, installments)
  BY DEF PInv
<1>4. DialogsStay
  BY <1>2 DEF DialogsStay
<1> HIDE DEF d
<1>5. u \in PostRow /\ d.settle \in BOOLEAN
  BY <1>3 DEF DialogRow, PostRow
<1>6. /\ u.next = IF d.settle THEN "preview" ELSE "receive"
      /\ u.clerk = w /\ u.key = d.key /\ u.settle = d.settle /\ u.c = d.c /\ u.n = d.n
      /\ u.answer = "none"
  OBVIOUS
<1> HIDE DEF u
<1>7. PostOK(u, Keys \ unused, payment, installments, today)
  <2>1. d.key \in Keys \ unused /\ d.c \in Contracts /\ d.n \in DOMAIN installments[d.c]
    BY <1>2, <1>3 DEF DialogOK
  <2>2. u.next \in {"preview", "receive"} /\ (u.settle => u.next = "preview")
    BY <1>5, <1>6
  <2> QED BY <1>5, <1>6, <2>1, <2>2 DEF PostOK
<1>8. told' \subseteq Keys /\ losses' \in 0..MaxLosses
  BY <1>2 DEF PInv
<1> QED BY <1>1, <1>2, <1>4, <1>7, <1>8, DeskStep

LEMMA CloseDialogStep ==
  ASSUME PInv, NEW w \in Clerks, closeDialog(w)
  PROVE  PInv'
<1>1. PICK q \in Posts : TRUE
  BY PaymentAssumption
<1>2. DialogsStay /\ post' = [post EXCEPT ![q] = post[q]] /\ UNCHANGED <<vars, payment, unused>>
  BY DEF closeDialog, DialogsStay, PInv
<1>3. /\ PostOK(post[q], Keys \ unused, payment, installments, today)
      /\ told' \subseteq Keys /\ losses' \in 0..MaxLosses
  BY DEF closeDialog, PInv
<1> QED BY <1>2, <1>3, DeskStep

\* A dialog opens with a key of its own.
LEMMA OpenDialogStep ==
  ASSUME PInv, NEW w \in Clerks, NEW c \in Loans, NEW n \in DOMAIN installments[c],
         NEW day \in Int, NEW dated \in BOOLEAN, NEW settle \in BOOLEAN,
         openDialog(w, c, n, day, dated, settle)
  PROVE  PInv'
<1> DEFINE due == TotalOutstanding(installments[c][n], day)
           d == [key |-> NewKey, settle |-> settle, c |-> c, n |-> n, due |-> due,
                 dated |-> dated, day |-> day, isSubmitting |-> FALSE]
<1>1. /\ unused # {} /\ dialog' = [dialog EXCEPT ![w] = d] /\ unused' = unused \ {NewKey}
      /\ UNCHANGED <<vars, payment, post, told, losses>>
  BY DEF openDialog
<1>2. NewKey \in unused
  BY <1>1, Zenon DEF NewKey
<1>3. unused \subseteq Keys /\ NewKey \in Keys /\ NewKey \notin Keys \ unused
      /\ Keys \ unused \subseteq Keys \ unused' /\ NewKey \in Keys \ unused'
  BY <1>1, <1>2 DEF PInv
<1>4. c \in Contracts /\ n \in Nat /\ due \in Nat
  <2>1. c \in Contracts
    BY LedgerAssumption
  <2>2. installments[c] \in Seq(Installment)
    BY <2>1 DEF PInv, IInv
  <2>3. n \in Nat /\ installments[c][n] \in Installment
    BY <2>2
  <2> QED BY <2>1, <2>3, TotalNat
<1> HIDE DEF due
<1>5. /\ d \in DialogRow /\ d.key = NewKey /\ d.c = c /\ d.n = n
  BY <1>3, <1>4 DEF DialogRow
<1> HIDE DEF d
<1>6. IInv'
  BY <1>1 DEF PInv, IInv, DebtOwedOnce, Rows, vars
<1>7. dialog' \in [Clerks -> DialogRow]
  BY <1>1, <1>5 DEF PInv
<1>8. ASSUME NEW v \in Clerks
      PROVE  DialogOK(dialog'[v], Keys \ unused', installments)
  <2>1. DialogOK(d, Keys \ unused', installments)
    BY <1>3, <1>4, <1>5 DEF DialogOK
  <2>2. DialogOK(dialog[v], Keys \ unused', installments)
    BY <1>3 DEF PInv, DialogOK
  <2>3. dialog'[v] \in {d, dialog[v]}
    BY <1>1 DEF PInv
  <2> QED BY <2>1, <2>2, <2>3
<1>9. ASSUME NEW q \in Posts
      PROVE  PostOK(post[q], Keys \ unused', payment, installments, today)
  <2>1. PostOK(post[q], Keys \ unused, payment, installments, today)
    BY DEF PInv
  <2>2. \A k : k \in Keys \ unused => k \in Keys \ unused'
    BY <1>3
  <2> QED BY <2>1, <2>2 DEF PostOK
<1>10. /\ installments' = installments /\ today' = today /\ payment' = payment /\ post' = post
       /\ told' = told /\ losses' = losses
  BY <1>1 DEF vars
<1>11. /\ payment \in [Keys -> PaymentRow] /\ post \in [Posts -> PostRow]
       /\ unused' \subseteq Keys /\ told \subseteq Keys /\ losses \in 0..MaxLosses
  BY <1>1 DEF PInv
<1> QED BY <1>6, <1>7, <1>8, <1>9, <1>10, <1>11 DEF PInv

\* The transaction: the row, and the installment it is for.
LEMMA PersistStep ==
  ASSUME PInv, NEW q \in Posts, persist(q)
  PROVE  /\ PInv'
         /\ LET t == post[q]
                charge == [c |-> t.c, n |-> t.n, amount |-> t.pay, day |-> t.paidAt]
            IN /\ payment' = [payment EXCEPT ![t.key] = charge] /\ charge # NoPayment
               /\ t.c \in Contracts /\ t.n \in DOMAIN installments[t.c]
               /\ t.key \in Keys /\ t.pay \in Nat /\ t.paidAt \in Int
<1> DEFINE t == post[q]
           charge == [c |-> t.c, n |-> t.n, amount |-> t.pay, day |-> t.paidAt]
           u == Answered(t, "paid")
           lag == today - t.paidAt
<1>1. /\ t.next = "transact" /\ payment[t.key] = NoPayment
      /\ register(t.c, t.n, t.pay, lag)
      /\ payment' = [payment EXCEPT ![t.key] = charge]
      /\ post' = [post EXCEPT ![q] = u] /\ UNCHANGED <<unused, dialog, told, losses>>
  BY DEF persist, Persisted, Answer, Answered, Goto, Server
<1>2. /\ t \in PostRow /\ t.clerk \in Clerks /\ t.key \in Keys \ unused
      /\ t.c \in Contracts /\ t.n \in DOMAIN installments[t.c]
      /\ t.pay \in Nat /\ t.pay > 0 /\ t.paidAt \in Int
  BY <1>1, Waiting
<1>3. lag \in Int /\ today' = today /\ today \in Int
  BY <1>1, <1>2 DEF register, PInv, IInv
<1> HIDE DEF lag, t
<1>4. IInv' /\ PaysUp(installments, installments')
  BY <1>1, <1>2, <1>3, RegisterStep, RegisterPaysUp DEF PInv
<1>5. t.c \in Contracts \cup {None} /\ t.n \in Nat
  BY <1>2 DEF PostRow
<1>6. charge \in PaymentRow /\ charge.amount = t.pay
  BY <1>2, <1>5 DEF PaymentRow
<1>7. charge # NoPayment
  BY <1>2, <1>6 DEF NoPayment
<1> HIDE DEF charge
<1>8. payment' \in [Keys -> PaymentRow] /\ payment'[t.key] # NoPayment
      /\ \A k \in Keys : payment[k] # NoPayment => payment'[k] # NoPayment
  BY <1>1, <1>2, <1>6, <1>7 DEF PInv
<1>9. /\ \A w \in Clerks : DialogOK(dialog'[w], Keys \ unused', installments')
      /\ \A r \in Posts : PostOK(post[r], Keys \ unused', payment', installments', today')
  <2>1. today' >= today /\ UNCHANGED <<unused, dialog>>
    BY <1>1, <1>3
  <2> QED BY <1>4, <1>8, <2>1, EverythingElseStays
<1>10. PostOK(u, Keys \ unused', payment', installments', today')
  <2>1. t.key \in Keys \ unused'
    BY <1>1, <1>2
  <2> QED BY <1>2, <1>8, <2>1, AnsweredOK
<1> HIDE DEF u
<1>11. post' \in [Posts -> PostRow]
       /\ \A r \in Posts : PostOK(post'[r], Keys \ unused', payment', installments', today')
  BY <1>1, <1>9, <1>10 DEF PInv, PostOK
<1>12. /\ unused' \subseteq Keys /\ told' \subseteq Keys /\ losses' \in 0..MaxLosses
       /\ dialog' \in [Clerks -> DialogRow]
  BY <1>1 DEF PInv
<1>13. PInv'
  BY <1>4, <1>8, <1>9, <1>11, <1>12 DEF PInv
<1> QED BY <1>1, <1>2, <1>7, <1>13 DEF t, charge

\* Contracts come and go, and days pass.
LEMMA ElsewhereKeepsInv ==
  ASSUME PInv, Elsewhere
  PROVE  PInv'
<1>1. IInv' /\ PaysUp(installments, installments') /\ today' >= today
  BY ElsewhereStep DEF PInv
<1>2. UNCHANGED <<payment, unused, dialog, post, told, losses>>
  BY DEF Elsewhere, desk
<1>3. /\ \A w \in Clerks : DialogOK(dialog'[w], Keys \ unused', installments')
      /\ \A q \in Posts : PostOK(post[q], Keys \ unused', payment', installments', today')
  BY <1>1, <1>2, EverythingElseStays
<1> QED BY <1>1, <1>2, <1>3 DEF PInv

\* At first nothing is on its way.
LEMMA PaymentInitEstablishesInv ==
  ASSUME PaymentInit
  PROVE  PInv
<1>1. IInv
  BY InitEstablishesInv DEF PaymentInit
<1>2. NoPayment \in PaymentRow /\ NoDialog \in DialogRow /\ NoPost \in PostRow
  BY DEF NoPayment, PaymentRow, NoDialog, DialogRow, NoPost, PostRow
<1>3. /\ payment = [k \in Keys |-> NoPayment] /\ unused = Keys
      /\ dialog = [w \in Clerks |-> NoDialog] /\ post = [q \in Posts |-> NoPost]
      /\ told = {} /\ losses = 0
  BY DEF PaymentInit
<1>4. /\ \A w \in Clerks : DialogOK(dialog[w], Keys \ unused, installments)
      /\ \A q \in Posts : PostOK(post[q], Keys \ unused, payment, installments, today)
  BY <1>2, <1>3 DEF DialogOK, PostOK
<1>5. losses \in 0..MaxLosses
  BY <1>3, PaymentAssumption
<1> QED BY <1>1, <1>2, <1>3, <1>4, <1>5 DEF PInv

LEMMA PaymentNextKeepsInv ==
  ASSUME PInv, [PaymentNext]_payVars
  PROVE  PInv'
<1>1. CASE Elsewhere
  BY <1>1, ElsewhereKeepsInv
<1>2. ASSUME NEW w \in Clerks, NEW c \in Loans, NEW day \in PayDays, NEW dated \in BOOLEAN,
             NEW settle \in BOOLEAN, NEW n \in DOMAIN installments[c],
             openDialog(w, c, n, day, dated, settle)
      PROVE  PInv'
  <2>1. day \in Int
    BY LedgerAssumption, PaymentAssumption DEF PInv, IInv, PayDays
  <2> QED BY <1>2, <2>1, OpenDialogStep
<1>3. ASSUME NEW w \in Clerks, Retry(w)
      PROVE  PInv'
  <2>1. dialog[w].due \in Nat
    BY DEF PInv, DialogRow
  <2>2. PICK pay \in Nat : submit(w, pay)
    BY <1>3, <2>1, LedgerAssumption DEF Retry
  <2> QED BY <2>2, SubmitStep
<1>4. ASSUME NEW w \in Clerks, closeDialog(w)
      PROVE  PInv'
  BY <1>4, CloseDialogStep
<1>5. ASSUME NEW q \in Posts, Serve(q) \/ loseConnection(q) \/ loseRequest(q)
      PROVE  PInv'
  BY <1>5, PreviewStep, ReceiveStep, PersistStep, RefusalStep, AnswerStep,
     LoseConnectionStep, LoseRequestStep DEF Serve
<1>6. CASE UNCHANGED payVars
  <2>1. UNCHANGED <<vars, payment, unused, dialog, post, told, losses>>
    BY <1>6 DEF payVars, vars, desk
  <2>2. IInv'
    BY <2>1 DEF PInv, IInv, DebtOwedOnce, Rows, vars
  <2> QED BY <2>1, <2>2 DEF PInv, vars
<1> QED BY <1>1, <1>2, <1>3, <1>4, <1>5, <1>6 DEF PaymentNext

-----------------------------------------------------------------------------
(* What PaymentRequests promises *)

\* The ledger's invariant, and what every request may rely on at its stage, hold whatever
\* is lost, repeated or run at once: a retried payment never corrupts the tables.
THEOREM PaymentInvariant == PaymentSpec => []PInv
<1>1. PaymentInit => PInv
  BY PaymentInitEstablishesInv
<1>2. PInv /\ [PaymentNext]_payVars => PInv'
  BY PaymentNextKeepsInv
<1> QED BY <1>1, <1>2, PTL DEF PaymentSpec

\* Rows, dialogs and requests keep their types; a request past its checks is for money and
\* not dated in the future, and says "paid" only of a payment that exists.
THEOREM PaymentsTypeCorrect == PaymentSpec => []PaymentTypeOK
<1>1. ASSUME PInv PROVE PaymentTypeOK
  <2>1. ASSUME NEW w \in Clerks
        PROVE  dialog[w] = NoDialog \/ dialog[w].key \in Keys \ unused
    BY <1>1 DEF PInv, DialogOK
  <2>2. ASSUME NEW q \in Posts, post[q] # NoPost
        PROVE  /\ post[q].key \in Keys \ unused
               /\ post[q].next \in {"preview", "receive", "transact", "replay", "answer"}
               /\ post[q].next \in {"transact", "replay"} =>
                     post[q].pay > 0 /\ post[q].paidAt <= today
               /\ post[q].next = "replay" \/ post[q].answer = "paid" => Persisted(post[q].key)
    BY <1>1, <2>2 DEF PInv, PostOK, PostRow, Persisted
  <2>3. /\ payment \in [Keys -> PaymentRow] /\ unused \subseteq Keys /\ told \subseteq Keys
        /\ losses \in 0..MaxLosses
    BY <1>1 DEF PInv
  <2> QED BY <2>1, <2>2, <2>3 DEF PaymentTypeOK, PaymentRow
<1> QED BY <1>1, PaymentInvariant, PTL

\* The steps of the desk that the promise does not speak of.
LEMMA DeskIsSilent ==
  ASSUME \/ \E w \in Clerks : \/ \E c \in Loans, day \in PayDays, dated \in BOOLEAN, settle \in BOOLEAN :
                                    \E n \in DOMAIN installments[c] :
                                       openDialog(w, c, n, day, dated, settle)
                              \/ Retry(w) \/ closeDialog(w)
         \/ \E q \in Posts : \/ previewCharges(q) \/ receive(q) \/ conflict(q) \/ reject(q)
                             \/ replay(q) \/ loseConnection(q) \/ loseRequest(q)
  PROVE  UNCHANGED <<payment, received, told>>
BY DEF openDialog, Retry, submit, closeDialog, previewCharges, receive, conflict, reject,
       replay, loseConnection, loseRequest, Server, vars

\* A step of the payments API is a step of its promise: a charge, a success that is told,
\* a contract that comes to exist, or nothing that concerns it.
LEMMA PaymentStepKeepsPromise ==
  ASSUME PInv, [PaymentNext]_payVars
  PROVE  [Promise!Next]_(Promise!promised)
<1> USE DEF Promise!promised
<1>1. ASSUME UNCHANGED <<payment, received, told>>
      PROVE  [Promise!Next]_(Promise!promised)
  BY <1>1
<1>2. CASE Elsewhere
  <2>1. UNCHANGED <<payment, told>>
    BY <1>2 DEF Elsewhere, desk
  <2>2. ASSUME NEW c \in Contracts, NEW m \in Nat,
               received[c] = <<>>, received' = [received EXCEPT ![c] = Nothing(m)]
        PROVE  Promise!Next
    <3>1. received'[c] = Nothing(m)
      BY <2>2 DEF PInv, IInv
    <3>2. \A i \in DOMAIN received'[c] : received'[c][i] = 0
      BY <3>1 DEF Nothing
    <3>3. received' = [received EXCEPT ![c] = received'[c]]
      BY <2>2, <3>1
    <3>4. Promise!Open(c)
      BY <2>1, <2>2, <3>2, <3>3 DEF Promise!Open
    <3> QED BY <3>4 DEF Promise!Next
  <2>3. \/ received' = received
        \/ \E c \in Contracts, m \in Nat :
              received[c] = <<>> /\ received' = [received EXCEPT ![c] = Nothing(m)]
    BY <1>2, ElsewhereStep DEF PInv
  <2> QED BY <2>1, <2>2, <2>3
<1>3. ASSUME NEW q \in Posts, persist(q)
      PROVE  Promise!Next
  <2> DEFINE t == post[q]
             charge == [c |-> t.c, n |-> t.n, amount |-> t.pay, day |-> t.paidAt]
  <2>1. /\ payment' = [payment EXCEPT ![t.key] = charge] /\ t.key \in Keys
        /\ charge.c = t.c /\ charge.n = t.n /\ charge.amount = t.pay
    BY <1>3, PersistStep
  <2>2. /\ payment[t.key] = NoPayment /\ UNCHANGED told /\ t.pay > 0
        /\ received' = [received EXCEPT ![t.c][t.n] = @ + t.pay]
    BY <1>3 DEF persist, Persisted, register, Server
  <2> HIDE DEF t, charge
  <2>3. payment'[t.key] = charge
    BY <2>1 DEF PInv
  <2>4. Promise!Charge(t.key, payment'[t.key])
    BY <2>1, <2>2, <2>3 DEF Promise!Charge
  <2> QED BY <2>1, <2>4 DEF Promise!Next
<1>4. ASSUME NEW q \in Posts, answer(q)
      PROVE  [Promise!Next]_(Promise!promised)
  <2>1. post[q].next = "answer" /\ UNCHANGED <<payment, received>>
    BY <1>4 DEF answer, vars
  <2>2. CASE told' = told
    BY <2>1, <2>2, <1>1
  <2>3. CASE told' = told \cup {post[q].key} /\ post[q].answer = "paid"
    <3>1. post[q].key \in Keys /\ payment[post[q].key] # NoPayment
      BY <2>1, <2>3, Waiting DEF Persisted
    <3>2. Promise!Tell(post[q].key)
      BY <2>1, <2>3, <3>1 DEF Promise!Tell
    <3> QED BY <3>1, <3>2 DEF Promise!Next
  <2> QED BY <1>4, <2>2, <2>3 DEF answer
<1>5. CASE UNCHANGED payVars
  BY <1>1, <1>5 DEF payVars, desk
<1> QED BY <1>1, <1>2, <1>3, <1>4, <1>5, DeskIsSilent DEF PaymentNext, Serve

\* The payments API implements its promise, for any number of clerks, keys, requests and
\* losses: a key is charged at most once, the installment is credited with exactly that,
\* and success is told only of a charge that was made.
THEOREM PaymentsImplementPromise == PaymentSpec => ImplementsPromise
<1>1. PaymentInit => Promise!Init
  <2>1. PaymentInit => received \in [Contracts -> Seq(Nat)]
    BY PaymentInitEstablishesInv DEF PInv, IInv
  <2> QED BY <2>1 DEF PaymentInit, Promise!Init
<1>2. PInv /\ [PaymentNext]_payVars => [Promise!Next]_(Promise!promised)
  BY PaymentStepKeepsPromise
<1> QED BY <1>1, <1>2, PaymentInvariant, PTL DEF PaymentSpec, ImplementsPromise, Promise!Spec

\* Paying all that is owed pays the installment.
LEMMA FullPaymentPays ==
  ASSUME NEW i \in Installment, NEW day \in Int, NEW pay \in Nat,
         pay = TotalOutstanding(i, day)
  PROVE  AfterPayment(i, pay, day).status = "PAID"
<1> DEFINE o == computeOutstanding(i, DaysLate(i, day))
           a == Allocate(i, pay, day)
<1>1. DaysLate(i, day) \in Nat
  BY DEF DaysLate, NonNeg, Installment
<1>2. o \in [base : Nat, fine : Nat, interest : Nat] /\ o.base = BaseOutstanding(i)
  BY <1>1, OutstandingNat DEF computeOutstanding
<1>3. pay = o.base + o.fine + o.interest
  BY DEF TotalOutstanding
<1>4. /\ a.mora \in Nat /\ a.fine \in Nat /\ a.base \in Nat
      /\ a.mora + a.fine + a.base = pay
      /\ a.mora <= o.interest /\ a.fine <= o.fine /\ a.base <= o.base
  BY AllocationExact, TotalNat
<1> HIDE DEF o, a
<1>5. o.base \in Nat /\ o.fine \in Nat /\ o.interest \in Nat
  BY <1>2
<1>6. a.base = BaseOutstanding(i)
  BY <1>2, <1>3, <1>4, <1>5
<1>7. i.amountPaid \in Nat /\ i.amountDue \in Nat
  BY DEF Installment
<1>8. i.amountPaid + a.base >= i.amountDue
  BY <1>6, <1>7 DEF BaseOutstanding, NonNeg
<1> QED BY <1>8 DEF AfterPayment, Installment, a

\* A settlement that is booked pays what was previewed for it, and that still covers all
\* that is owed on the day it was priced for: whatever came between the preview and the
\* transaction, what stays owed on the day the payment is dated is no more than came to
\* be owed from the one day to the other, and if they are the same day the installment is
\* paid.  A request with a date of its own is priced and dated for the same day.
THEOREM SettlementsPayUpToMidnight == PaymentSpec => SettlesUpToMidnight
<1> DEFINE Settled(q) ==
             LET t == post[q]
                 i == installments[t.c][t.n]
                 rest == installments'[t.c][t.n]
             IN t.settle /\ post'[q] # t /\ payment' # payment =>
                   /\ TotalOutstanding(rest, t.paidAt)
                         <= TotalOutstanding(i, t.paidAt) - TotalOutstanding(i, t.day)
                   /\ t.dated \/ t.paidAt = t.day => rest.status = "PAID"
           Settles == \A q \in Posts : Settled(q)
<1>1. ASSUME PInv, [PaymentNext]_payVars, NEW q \in Posts
      PROVE  Settled(q)
  <2>1. SUFFICES ASSUME post[q].settle, post'[q] # post[q], payment' # payment
                 PROVE  Settled(q)
    OBVIOUS
  <2> DEFINE t == post[q]
             i == installments[t.c][t.n]
             j == AfterPayment(i, t.pay, t.paidAt)
             rows == [installments[t.c] EXCEPT ![t.n] = j]
             rest == installments'[t.c][t.n]
  <2>2. persist(q)
    <3>1. PICK r \in Posts : persist(r)
      BY <1>1, <2>1, DeskIsSilent
         DEF PaymentNext, Serve, Elsewhere, desk, answer, payVars
    <3>2. post' = [post EXCEPT ![r] = post'[r]]
      BY <1>1, <3>1 DEF persist, Answer, Goto, PInv
    <3>3. r = q
      BY <1>1, <2>1, <3>2 DEF PInv
    <3> QED BY <3>1, <3>3
  <2>3. /\ t.next = "transact" /\ IsOpen(i) /\ t.pay <= TotalOutstanding(i, t.paidAt)
        /\ register(t.c, t.n, t.pay, today - t.paidAt)
    BY <2>2 DEF persist, Payable
  <2>4. /\ t.c \in Contracts /\ t.n \in DOMAIN installments[t.c] /\ i \in Installment
        /\ t.pay \in Nat /\ t.pay > 0 /\ t.day \in Int /\ t.paidAt \in Int
        /\ TotalOutstanding(i, t.day) \in Nat /\ TotalOutstanding(i, t.paidAt) \in Nat
        /\ TotalOutstanding(i, t.day) <= t.pay /\ (t.dated => t.paidAt = t.day)
    BY <1>1, <2>1, <2>3, Waiting
  <2>5. today - (today - t.paidAt) = t.paidAt
    BY <1>1, <2>4 DEF PInv, IInv
  <2>6. RefreshWrites(t.c, RecomputedStatus(contract[t.c].status, rows), rows)
    BY <2>3, <2>5 DEF register
  <2>7. installments'[t.c] = rows \/ installments'[t.c] = FlaggedRows(rows, today)
    <3> HIDE DEF t, rows
    <3> QED BY <1>1, <2>4, <2>6, RefreshWritesFrame DEF PInv
  <2>8. /\ j \in Installment /\ TotalOutstanding(j, t.paidAt) \in Int
        /\ TotalOutstanding(i, t.paidAt) - TotalOutstanding(j, t.paidAt) = t.pay
    <3>1. RowOK(i, received[t.c][t.n])
      BY <1>1, <2>4 DEF PInv, IInv, ContractOK, RowsOK
    <3> HIDE DEF i, t
    <3>2. RowOK(j, received[t.c][t.n] + t.pay)
      BY <2>3, <2>4, <3>1, PaymentKeepsRow
    <3>3. j \in Installment
      BY <3>2 DEF RowOK
    <3> HIDE DEF j
    <3>4. TotalOutstanding(j, t.paidAt) \in Nat
      BY <2>4, <3>3, TotalNat
    <3>5. TotalOutstanding(i, t.paidAt) - TotalOutstanding(j, t.paidAt) = t.pay
      BY <2>3, <2>4, <3>1, PaymentReducesDebtExactly DEF j, RowOK
    <3> QED BY <3>3, <3>4, <3>5
  <2>9. /\ t.n \in DOMAIN rows /\ rows[t.n] = j
        /\ rest \in {j, [j EXCEPT !.status = "OVERDUE"]}
        /\ j.status = "PAID" => rest = j
    <3>1. t.n \in DOMAIN rows /\ rows[t.n] = j
      <4> HIDE DEF j, i, t
      <4> QED BY <2>4
    <3> HIDE DEF rows, j, t
    <3> QED BY <2>7, <3>1 DEF FlaggedRows, IsOverdue, IsOpen, Closed
  <2> HIDE DEF j, rows
  <2>10. TotalOutstanding(rest, t.paidAt) = TotalOutstanding(j, t.paidAt)
    <3> DEFINE f == [j EXCEPT !.status = "OVERDUE"]
    <3>1. /\ f.dueDay = j.dueDay /\ f.amountDue = j.amountDue /\ f.amountPaid = j.amountPaid
          /\ f.lateFee = j.lateFee /\ f.lateInterest = j.lateInterest
      BY <2>8 DEF Installment
    <3> HIDE DEF f
    <3>2. TotalOutstanding(f, t.paidAt) = TotalOutstanding(j, t.paidAt)
      BY <3>1 DEF TotalOutstanding, computeOutstanding, BaseOutstanding, DaysLate
    <3> QED BY <2>9, <3>2 DEF f
  <2>11. TotalOutstanding(rest, t.paidAt)
            <= TotalOutstanding(i, t.paidAt) - TotalOutstanding(i, t.day)
    <3> HIDE DEF i, t, rest
    <3> QED BY <2>4, <2>8, <2>10
  <2>12. ASSUME t.dated \/ t.paidAt = t.day PROVE rest.status = "PAID"
    <3>1. t.pay = TotalOutstanding(i, t.paidAt)
      BY <2>3, <2>4, <2>12
    <3>2. j.status = "PAID"
      <4> HIDE DEF i, t
      <4> QED BY <2>4, <3>1, FullPaymentPays DEF j
    <3> QED BY <2>9, <3>2
  <2> QED BY <2>11, <2>12
<1>2. ASSUME PInv, [PaymentNext]_payVars PROVE Settles
  BY <1>1, <1>2
<1>3. SettlesUpToMidnight <=> [][Settles]_payVars
  BY PTL DEF SettlesUpToMidnight
<1> HIDE DEF Settles
<1> QED BY <1>2, <1>3, PaymentInvariant, PTL DEF PaymentSpec
=============================================================================
