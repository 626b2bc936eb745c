------------------------- MODULE IdempotentPayments -------------------------
(***************************************************************************)
(* What the payments API promises to whoever sends an idempotency key with *)
(* a payment ("a retried submission with the same key is a no-op replay    *)
(* (prevents double charge)", payment.dto.ts): however often a submission  *)
(* is repeated, whatever is lost on the way, a key is charged at most once, *)
(* the installment is credited with exactly that charge, and success is    *)
(* only ever reported for a charge that was made.                          *)
(***************************************************************************)
EXTENDS Integers, Sequences

CONSTANTS
    Keys,       \* idempotency keys
    Accounts,   \* contracts
    NoCharge    \* the key was not charged

VARIABLES
    charged,    \* what each key was charged: [c, n, amount, day] or NoCharge
    credited,   \* what each installment of each contract was credited with
    told        \* keys whose sender was told of success

promised == <<charged, credited, told>>

\* What was credited before the first key is nobody's charge (seed.ts draws no keys).
Init ==
    /\ charged = [k \in Keys |-> NoCharge]
    /\ credited \in [Accounts -> Seq(Nat)]
    /\ told = {}

\* A contract comes to exist.
Open(c) ==
    /\ credited[c] = <<>>
    /\ credited' = [credited EXCEPT ![c] = credited'[c]]
    /\ \A i \in DOMAIN credited'[c] : credited'[c][i] = 0
    /\ UNCHANGED <<charged, told>>

Charge(k, charge) ==
    /\ charged[k] = NoCharge
    /\ charge.amount > 0
    /\ charged' = [charged EXCEPT ![k] = charge]
    /\ credited' = [credited EXCEPT ![charge.c][charge.n] = @ + charge.amount]
    /\ UNCHANGED told

Tell(k) ==
    /\ charged[k] # NoCharge
    /\ told' = told \cup {k}
    /\ UNCHANGED <<charged, credited>>

Next ==
    \/ \E c \in Accounts : Open(c)
    \/ \E k \in Keys : Tell(k) \/ Charge(k, charged'[k])

Spec == Init /\ [][Next]_promised

\* Success is only reported for a charge that was made.
ToldIsCharged == \A k \in told : charged[k] # NoCharge

\* A charge is final: it is not repeated, changed or taken back.
ChargedOnce == [][\A k \in Keys : charged[k] # NoCharge => charged'[k] = charged[k]]_charged
=============================================================================
