--------------------------- MODULE PaymentRequests ---------------------------
(***************************************************************************)
(* Payments from the form that a clerk fills in to the row they become:    *)
(* the payment dialog of the web client with its idempotency key, clients  *)
(* of POST /payments/installments/:id/settle that keep a key likewise, the *)
(* requests under way in the API, and the answers and connections that get *)
(* lost between them.  The transaction inside PaymentsService.register is  *)
(* one step of ContractLedger, which ContractTx justifies; what surrounds  *)
(* it (the preview, the lookup of the key, the unique index, the answer)   *)
(* takes steps of its own.                                                 *)
(***************************************************************************)
EXTENDS ContractLedger

CONSTANTS
    Keys,       \* idempotency keys: crypto.randomUUID() never repeats one
    NoKey,
    Clerks,     \* who fills in payment dialogs
    Posts,      \* bound: requests under way at once
    MaxLosses,  \* bound: answers and requests that get lost
    UtcAhead    \* days by which the date a dialog proposes may be ahead of the API's

ASSUME PaymentAssumption ==
    /\ NoKey \notin Keys
    /\ Posts # {}
    /\ MaxLosses \in Nat
    /\ UtcAhead \in {0, 1}

VARIABLES
    payment,    \* Payment rows by idempotencyKey
    unused,     \* keys nobody drew yet
    dialog,     \* what each clerk has on screen
    post,       \* requests under way
    told,       \* keys for which success was reported
    losses      \* what the network has lost so far

desk == <<payment, unused, dialog, post, told, losses>>
payVars == <<today, contract, installments, received, kase, desk>>

NoPayment == [c |-> None, n |-> 0, amount |-> 0, day |-> 0]
NoDialog == [key |-> NoKey, settle |-> FALSE, c |-> None, n |-> 0, due |-> 0,
             dated |-> FALSE, day |-> 0, isSubmitting |-> FALSE]
NoPost == [next |-> "free", clerk |-> None, key |-> NoKey, settle |-> FALSE,
           c |-> None, n |-> 0, pay |-> 0, dated |-> FALSE, day |-> 0, paidAt |-> 0,
           heard |-> FALSE, answer |-> "none"]

PaymentInit ==
    /\ Init
    /\ payment = [k \in Keys |-> NoPayment]
    /\ unused = Keys
    /\ dialog = [w \in Clerks |-> NoDialog]
    /\ post = [q \in Posts |-> NoPost]
    /\ told = {}
    /\ losses = 0

Persisted(k) == payment[k] # NoPayment

-----------------------------------------------------------------------------
(* The payment dialog *)

\* crypto.randomUUID(): which of the keys nobody drew makes no difference.
NewKey == CHOOSE key \in unused : TRUE

\* Pagar is offered on installments that are still open.  The dialog draws its key,
\* proposes a date and asks what is due on it; other clients may send no date at all
\* (paidAt is optional), and go by today until then.
openDialog(w, c, n, day, dated, settle) ==
    /\ dialog[w] = NoDialog
    /\ unused # {}
    /\ IsOpen(installments[c][n])
    /\ dated \/ day = today
    /\ dialog' = [dialog EXCEPT ![w] =
          [key |-> NewKey, settle |-> settle, c |-> c, n |-> n,
           due |-> TotalOutstanding(installments[c][n], day),
           dated |-> dated, day |-> day, isSubmitting |-> FALSE]]
    /\ unused' = unused \ {NewKey}
    /\ UNCHANGED <<vars, payment, post, told, losses>>

\* Requests under way are told apart by what they carry only.
FreePost == CHOOSE q \in Posts : post[q] = NoPost

\* The button is disabled while a submission is under way, and only then.
submit(w, pay) ==
    /\ dialog[w] # NoDialog /\ ~dialog[w].isSubmitting
    /\ \E q \in Posts : post[q] = NoPost
    /\ pay > 0 \/ dialog[w].settle
    /\ post' = [post EXCEPT ![FreePost] =
          [next |-> IF dialog[w].settle THEN "preview" ELSE "receive",
           clerk |-> w, key |-> dialog[w].key, settle |-> dialog[w].settle,
           c |-> dialog[w].c, n |-> dialog[w].n, pay |-> pay,
           dated |-> dialog[w].dated, day |-> dialog[w].day, paidAt |-> 0,
           heard |-> TRUE, answer |-> "none"]]
    /\ dialog' = [dialog EXCEPT ![w].isSubmitting = TRUE]
    /\ UNCHANGED <<vars, payment, unused, told, losses>>

\* Cancelar, also while a submission is under way: the key is forgotten with the dialog.
closeDialog(w) ==
    /\ dialog[w] # NoDialog
    /\ dialog' = [dialog EXCEPT ![w] = NoDialog]
    /\ UNCHANGED <<vars, payment, unused, post, told, losses>>

\* What the clerk sees of a request that failed: a toast; the dialog may submit again.
Released(q) ==
    LET w == post[q].clerk IN
    IF post[q].heard /\ dialog[w].key = post[q].key
    THEN [dialog EXCEPT ![w].isSubmitting = FALSE] ELSE dialog

\* Success closes whatever dialog is open by then (onClose).
answer(q) ==
    /\ post[q].next = "answer"
    /\ post' = [post EXCEPT ![q] = NoPost]
    /\ IF post[q].heard /\ post[q].answer = "paid"
       THEN /\ told' = told \cup {post[q].key}
            /\ dialog' = [dialog EXCEPT ![post[q].clerk] = NoDialog]
       ELSE told' = told /\ dialog' = Released(q)
    /\ UNCHANGED <<vars, payment, unused, losses>>

\* The connection drops: the client reports an error, the API goes on.
loseConnection(q) ==
    /\ post[q].heard /\ losses < MaxLosses
    /\ dialog' = Released(q)
    /\ post' = [post EXCEPT ![q].heard = FALSE]
    /\ losses' = losses + 1
    /\ UNCHANGED <<vars, payment, unused, told>>

\* The API dies or never gets the request: a transaction under way is undone.
loseRequest(q) ==
    /\ post[q] # NoPost /\ losses < MaxLosses
    /\ dialog' = Released(q)
    /\ post' = [post EXCEPT ![q] = NoPost]
    /\ losses' = losses + 1
    /\ UNCHANGED <<vars, payment, unused, told>>

-----------------------------------------------------------------------------
(* PaymentsService *)

Goto(q, t, next) == post' = [post EXCEPT ![q] = [t EXCEPT !.next = next]]
Answer(q, a) ==
    Goto(q, [NoPost EXCEPT !.clerk = post[q].clerk, !.key = post[q].key,
                           !.heard = post[q].heard, !.answer = a], "answer")
Server == <<unused, dialog, told, losses>>

\* dto.paidAt, or the clock as it is when this line of the code is reached.
DateOf(t) == IF t.dated THEN t.day ELSE today

\* Wrong on purpose: the whole of the installment is asked for, whatever was paid on it.
previewChargesUnpaid(q) ==
    LET t == post[q]
        i == installments[t.c][t.n]
    IN /\ t.next = "preview"
       /\ Goto(q, [t EXCEPT !.pay = i.amountDue, !.day = DateOf(t)], "receive")
       /\ UNCHANGED <<vars, payment, Server>>

\* settleInstallment reads what is due on its date, or by its own look at the clock,
\* outside the transaction and before the lookup.
previewCharges(q) ==
    LET t == post[q] IN
    /\ t.next = "preview"
    /\ Goto(q, [t EXCEPT !.pay = TotalOutstanding(installments[t.c][t.n], DateOf(t)),
                         !.day = DateOf(t)], "receive")
    /\ UNCHANGED <<vars, payment, Server>>

\* Wrong on purpose: the key is not looked up before the transaction.
receiveWithoutLookup(q) ==
    LET t == post[q] IN
    /\ t.next = "receive"
    /\ IF t.pay <= 0 \/ DateOf(t) > today THEN Answer(q, "error")
       ELSE Goto(q, [t EXCEPT !.paidAt = DateOf(t)], "transact")
    /\ UNCHANGED <<vars, payment, Server>>

\* Wrong on purpose: the date may lie in the future.
receiveAnyDate(q) ==
    LET t == post[q] IN
    /\ t.next = "receive"
    /\ IF t.pay <= 0 THEN Answer(q, "error")
       ELSE IF Persisted(t.key) THEN Answer(q, "paid")
       ELSE Goto(q, [t EXCEPT !.paidAt = DateOf(t)], "transact")
    /\ UNCHANGED <<vars, payment, Server>>

\* register fixes the date of the payment, with a look at the clock of its own if none
\* was sent; amount and date are checked, then a prior payment of the key is replayed.
receive(q) ==
    LET t == post[q] IN
    /\ t.next = "receive"
    /\ IF t.pay <= 0 \/ DateOf(t) > today THEN Answer(q, "error")
       ELSE IF Persisted(t.key) THEN Answer(q, "paid")
       ELSE Goto(q, [t EXCEPT !.paidAt = DateOf(t)], "transact")
    /\ UNCHANGED <<vars, payment, Server>>

\* What the transaction insists on before it writes.
Payable(t) ==
    LET i == installments[t.c][t.n] IN
    IsOpen(i) /\ t.pay <= TotalOutstanding(i, t.paidAt)

\* Wrong on purpose: nothing makes the key of a Payment row unique.
persistAnyKey(q) ==
    LET t == post[q] IN
    /\ t.next = "transact" /\ Payable(t)
    /\ register(t.c, t.n, t.pay, today - t.paidAt)
    /\ payment' = [payment EXCEPT ![t.key] =
          [c |-> t.c, n |-> t.n, amount |-> t.pay, day |-> t.paidAt]]
    /\ Answer(q, "paid")
    /\ UNCHANGED Server

\* The transaction commits: the Payment row and the installment together.
persist(q) ==
    LET t == post[q] IN
    /\ t.next = "transact" /\ Payable(t) /\ ~Persisted(t.key)
    /\ register(t.c, t.n, t.pay, today - t.paidAt)
    /\ payment' = [payment EXCEPT ![t.key] =
          [c |-> t.c, n |-> t.n, amount |-> t.pay, day |-> t.paidAt]]
    /\ Answer(q, "paid")
    /\ UNCHANGED Server

\* P2002: the insert comes after the checks, and fails on the unique index.
conflict(q) ==
    LET t == post[q] IN
    /\ t.next = "transact" /\ Payable(t) /\ Persisted(t.key)
    /\ Goto(q, t, "replay")
    /\ UNCHANGED <<vars, payment, Server>>

\* BadRequest: closed meanwhile, or more than is owed.
reject(q) ==
    /\ post[q].next = "transact" /\ ~Payable(post[q])
    /\ Answer(q, "error")
    /\ UNCHANGED <<vars, payment, Server>>

replay(q) ==
    /\ post[q].next = "replay"
    /\ Answer(q, IF Persisted(post[q].key) THEN "paid" ELSE "error")
    /\ UNCHANGED <<vars, payment, Server>>

Serve(q) ==
    previewCharges(q) \/ receive(q) \/ persist(q) \/ conflict(q) \/ reject(q) \/ replay(q)
        \/ answer(q)

-----------------------------------------------------------------------------
\* The rest of the system goes on: days pass, contracts come and go.
Elsewhere ==
    /\ \/ NextDay
       \/ \E c \in Loans, offer \in Offers : createFromProposal(c, offer)
       \/ \E c \in Contracts :
             \/ cancel(c)
             \/ refreshContract(c)
             \/ \E new \in Contracts \ {c}, term \in Terms : renegotiate(c, new, term)
    /\ UNCHANGED desk

PayDays == {today - lag : lag \in Backdating} \cup {today + UtcAhead}

\* The amount due is proposed; anything may be typed over it.
Retry(w) ==
    \E pay \in IF dialog[w].settle THEN {0} ELSE PayAmounts \cup {dialog[w].due} :
        submit(w, pay)

PaymentNext ==
    \/ Elsewhere
    \/ \E w \in Clerks :
        \/ \E c \in Loans, day \in PayDays, dated \in BOOLEAN, settle \in BOOLEAN :
              \E n \in DOMAIN installments[c] : openDialog(w, c, n, day, dated, settle)
        \/ Retry(w)
        \/ closeDialog(w)
    \/ \E q \in Posts : Serve(q) \/ loseConnection(q) \/ loseRequest(q)

PaymentSpec == PaymentInit /\ [][PaymentNext]_payVars

\* The API serves every request (weak fairness of Serve(q), which is enabled as long as
\* there is a request), and a clerk who was told of an error tries again.
FairPaymentSpec ==
    /\ PaymentSpec
    /\ \A q \in Posts : []<>(post[q] = NoPost) \/ []<><<Serve(q)>>_payVars
    /\ \A w \in Clerks : SF_payVars(Retry(w))

-----------------------------------------------------------------------------
(* Correctness *)

\* Rows, dialogs and requests have their fields; a request past its checks is for
\* money, is not dated in the future, and says "paid" only of a payment that exists.
PaymentTypeOK ==
    /\ payment \in [Keys -> [c : Contracts \cup {None}, n : Nat, amount : Nat, day : Int]]
    /\ unused \subseteq Keys
    /\ told \subseteq Keys
    /\ losses \in 0..MaxLosses
    /\ \A w \in Clerks : dialog[w] = NoDialog \/ dialog[w].key \in Keys \ unused
    /\ \A q \in Posts : LET t == post[q] IN t # NoPost =>
          /\ t.key \in Keys \ unused
          /\ t.next \in {"preview", "receive", "transact", "replay", "answer"}
          /\ t.next \in {"transact", "replay"} => t.pay > 0 /\ t.paidAt <= today
          /\ t.next = "replay" \/ t.answer = "paid" => Persisted(t.key)

\* The payments API implements its promise: whatever is lost, repeated or run twice
\* at once, a key is charged at most once, the installment's received sum moves with
\* that charge alone, and the client is told of success only when it was made.
Promise == INSTANCE IdempotentPayments
              WITH Accounts <- Contracts, NoCharge <- NoPayment,
                   charged <- payment, credited <- received
ImplementsPromise == Promise!Spec

\* What becomes of "pays the full outstanding amount (base + charges)" (settleInstallment),
\* although the amount is read before the transaction, and other payments, a
\* renegotiation, a retry or midnight may come between.  A settlement that is booked
\* leaves of the installment no more than what came to be owed on it between the two
\* looks at the clock; with a date of its own, or no midnight between, it leaves it paid.
\* (Without a date and across midnight it does not: a day's charges stay owed.)
SettlesUpToMidnight ==
    [][\A q \in Posts :
          LET t == post[q]
              i == installments[t.c][t.n]
              rest == installments'[t.c][t.n]
          IN t.settle /\ post'[q] # t /\ payment' # payment =>
                /\ TotalOutstanding(rest, t.paidAt)
                      <= TotalOutstanding(i, t.paidAt) - TotalOutstanding(i, t.day)
                /\ t.dated \/ t.paidAt = t.day => rest.status = "PAID"]_payVars

\* A lost answer is recovered by retrying: a clerk whose payment was persisted, and who
\* keeps the dialog and submits again, is told of it in the end.
LostAnswersAreRecovered ==
    \A w \in Clerks, k \in Keys :
        dialog[w].key = k /\ ~dialog[w].settle /\ Persisted(k)
          /\ (dialog[w].dated => dialog[w].day <= today)
            ~> k \in told \/ dialog[w].key # k

\* "a retried submission with the same key is a no-op replay" (payment.dto.ts:36), and
\* of two at once the loser returns "the already-persisted payment instead of erroring"
\* (payments.service.ts:169).  The code does not keep this.
RetriesAreReplayed ==
    \A q \in Posts : post[q].answer = "error" => ~Persisted(post[q].key)
=============================================================================
