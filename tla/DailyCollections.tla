-------------------------- MODULE DailyCollections --------------------------
(***************************************************************************)
(* The daily collections cycle (CollectionsService.runDailyCollections)    *)
(* beside everything else that goes on: the run reads a list of contracts, *)
(* of cases and of promises, and works each off item by item while         *)
(* payments are registered, cases are worked on and promises are made and  *)
(* decided.  Runs are started by the scheduler and by POST                 *)
(* /collections/run, on one instance or several, and may fail anywhere.    *)
(* The rows are those of ContractLedger, with the payments kept one by one *)
(* and the promises and the ladder's interactions added.                   *)
(***************************************************************************)
EXTENDS ContractLedger

CONSTANTS
    Jobs,           \* requests that run the cycle: the cron job and POSTs
    Instance,       \* the API instance each of them runs on
    Promises,       \* bound: PaymentPromise rows that may come to exist
    PromiseAmounts, \* amounts promised, in cents
    PromiseDays,    \* how many days from today payment is promised
    StaffStatuses,  \* bound: statuses that staff give a case by hand
    StaffDecisions, \* bound: statuses that staff give a promise by hand
    MaxDeciding,    \* bound: updatePromise requests under way at once
    MaxPaid,        \* bound: how many installments of a contract are paid
    MaxFailures,    \* bound: runs that fail
    MaxActions      \* bound: staff leaves a case the ladder acted on that often alone

ASSUME CollectionsAssumption ==
    /\ DOMAIN Instance = Jobs
    /\ PromiseAmounts \subseteq Nat \ {0}
    /\ PromiseDays \subseteq Nat
    /\ StaffStatuses \subseteq CaseStatus
    /\ StaffDecisions \subseteq {"KEPT", "BROKEN", "CANCELLED"}
    /\ {MaxDeciding, MaxPaid, MaxFailures, MaxActions} \subseteq Nat

VARIABLES
    paid,       \* Payment rows in the order of their creation; a dated one has been
                \* pinned to noon of its day, the others to the moment they were booked
    promise,    \* PaymentPromise rows
    deciding,   \* updatePromise requests that have read a pending promise
    actions,    \* how many interactions the ladder has created for each case
    running,    \* CollectionsService.running of each instance
    job,        \* where each run is, and what is left of the list it read
    failures

cycle == <<running, job, failures>>
desk == <<paid, promise, deciding>>
collVars == <<vars, desk, actions, cycle>>

Instances == {Instance[j] : j \in Jobs}
Decided == {"KEPT", "BROKEN", "CANCELLED"}
NoPromise == [status |-> "NONE", c |-> None, amount |-> 0, promisedDay |-> 0,
              day |-> 0, afternoon |-> FALSE, since |-> 0]
NoItem == [p |-> None, case |-> "NONE", paidWithin |-> 0]
Idle == [at |-> "idle", todo |-> {}, day |-> 0, item |-> NoItem]

CollInit ==
    /\ Empty
    /\ paid = <<>>
    /\ promise = [p \in Promises |-> NoPromise]
    /\ deciding = {}
    /\ actions = [c \in Contracts |-> 0]
    /\ running = [i \in Instances |-> FALSE]
    /\ job = [j \in Jobs |-> Idle]
    /\ failures = 0

-----------------------------------------------------------------------------
(* The daily cycle *)

\* Jobs of an instance are told apart by where they are only.
IdleJobs(i) == {j \in Jobs : Instance[j] = i /\ job[j] = Idle}

\* Wrong on purpose: a run may start beside another one.
startUnguarded(i) ==
    /\ IdleJobs(i) # {}
    /\ running' = [running EXCEPT ![i] = TRUE]
    /\ job' = [job EXCEPT ![CHOOSE j \in IdleJobs(i) : TRUE] =
          [Idle EXCEPT !.at = "arrears",
                       !.todo = {c \in Contracts : contract[c].status \in Live}]]
    /\ UNCHANGED <<vars, desk, actions, failures>>

\* runDailyCollections, skipped if this instance runs one; refreshAll lists the contracts.
startRun(i) ==
    /\ ~running[i] /\ IdleJobs(i) # {}
    /\ running' = [running EXCEPT ![i] = TRUE]
    /\ job' = [job EXCEPT ![CHOOSE j \in IdleJobs(i) : TRUE] =
          [Idle EXCEPT !.at = "arrears",
                       !.todo = {c \in Contracts : contract[c].status \in Live}]]
    /\ UNCHANGED <<vars, desk, actions, failures>>

TakeOff(j, x) == job' = [job EXCEPT ![j].todo = @ \ {x}]
Proceed(j, at, list) == job' = [job EXCEPT ![j] = [@ EXCEPT !.at = at, !.todo = list]]

\* One contract of the list; one that was closed meanwhile is left alone.
refreshNext(j) ==
    /\ job[j].at = "arrears"
    /\ \E c \in job[j].todo :
        /\ IF contract[c].status \in Live THEN refreshContract(c) ELSE UNCHANGED vars
        /\ TakeOff(j, c)
    /\ UNCHANGED <<desk, actions, running, failures>>

\* Its refresh failed: the error is logged and the loop goes on.
refreshFails(j) ==
    /\ job[j].at = "arrears" /\ failures < MaxFailures
    /\ \E c \in job[j].todo : TakeOff(j, c)
    /\ failures' = failures + 1
    /\ UNCHANGED <<vars, desk, actions, running>>

\* applyDunningLadder reads id, daysOverdue and dunningStage of the active cases.
listCases(j) ==
    /\ job[j].at = "arrears" /\ job[j].todo = {}
    /\ Proceed(j, "ladder",
          {[c |-> c, days |-> kase[c].daysOverdue, stage |-> kase[c].dunningStage] :
              c \in {d \in Contracts : kase[d].status \notin {"NONE", "RESOLVED", "WRITTEN_OFF"}
                                       /\ kase[d].daysOverdue > 0}})
    /\ UNCHANGED <<vars, desk, actions, running, failures>>

\* Wrong on purpose: a stage is only reached from the one before it.
escalateOneStage(j) ==
    /\ job[j].at = "ladder"
    /\ \E x \in job[j].todo :
        LET target == dunningStageFor(x.days) IN
        /\ TakeOff(j, x)
        /\ IF target # x.stage + 1 THEN UNCHANGED <<vars, actions>>
           ELSE /\ actions' = [actions EXCEPT ![x.c] = @ + 1]
                /\ kase' = [kase EXCEPT ![x.c].dunningStage = target]
                /\ UNCHANGED <<today, contract, installments, received>>
    /\ UNCHANGED <<desk, running, failures>>

\* One case of the list, as it was when the list was read: the interaction and the
\* stage are written together, whatever became of the case meanwhile.
escalateNext(j) ==
    /\ job[j].at = "ladder"
    /\ \E x \in job[j].todo :
        LET target == dunningStageFor(x.days) IN
        /\ TakeOff(j, x)
        /\ IF target <= x.stage THEN UNCHANGED <<vars, actions>>
           ELSE /\ actions' = [actions EXCEPT ![x.c] = @ + 1]
                /\ kase' = [kase EXCEPT ![x.c].dunningStage = target]
                /\ UNCHANGED <<today, contract, installments, received>>
    /\ UNCHANGED <<desk, running, failures>>

\* Wrong on purpose: only promises whose case is in PROMISE are looked at.
listPromisesOfCases(j) ==
    /\ job[j].at = "ladder" /\ job[j].todo = {}
    /\ job' = [job EXCEPT ![j] = [@ EXCEPT !.at = "promises", !.day = today,
          !.todo = {[p |-> p, case |-> kase[promise[p].c].status, paidWithin |-> 0] :
                       p \in {q \in Promises : promise[q].status = "PENDING"
                                  /\ kase[promise[q].c].status = "PROMISE"}}]]
    /\ UNCHANGED <<vars, desk, actions, running, failures>>

\* reconcilePromises fixes its day, then reads the pending promises with their cases.
listPromises(j) ==
    /\ job[j].at = "ladder" /\ job[j].todo = {}
    /\ job' = [job EXCEPT ![j] = [@ EXCEPT !.at = "promises", !.day = today,
          !.todo = {[p |-> p, case |-> kase[promise[p].c].status, paidWithin |-> 0] :
                       p \in {q \in Promises : promise[q].status = "PENDING"}}]]
    /\ UNCHANGED <<vars, desk, actions, running, failures>>

\* Whether payment n was made since promise p, by their times: noon of its day for a
\* payment that was given a date, the moment it was booked for one that was not.
FirstDay(p) == p.day + (IF p.afternoon THEN 1 ELSE 0)
MadeSince(n, p) == IF paid[n].dated THEN FirstDay(p) <= paid[n].paidAt ELSE p.since < n

SumPaid(rows) == MapThenSumSet(LAMBDA n : paid[n].amount, rows)

\* Wrong on purpose: the cutoff is the beginning of the promised day.
PaidBefore(p) ==
    SumPaid({n \in DOMAIN paid : /\ paid[n].c = p.c
                                 /\ MadeSince(n, p)
                                 /\ paid[n].paidAt < p.promisedDay})

\* payment.aggregate: paidAt from the creation of the promise to the end of its day.
PaidWithin(p) ==
    SumPaid({n \in DOMAIN paid : /\ paid[n].c = p.c
                                 /\ MadeSince(n, p)
                                 /\ paid[n].paidAt < p.promisedDay + 1})

sumPayments(j) ==
    /\ job[j].at = "promises"
    /\ \E x \in job[j].todo :
        job' = [job EXCEPT ![j] = [job[j] EXCEPT !.at = "reconcile", !.todo = job[j].todo \ {x},
                   !.item = [x EXCEPT !.paidWithin = PaidWithin(promise[x.p])]]]
    /\ UNCHANGED <<vars, desk, actions, running, failures>>

\* KEPT, BROKEN or neither: the writes look at what was read only.
reconcile(j) ==
    LET x == job[j].item
        c == promise[x.p].c
        kept == x.case = "RESOLVED" \/ x.paidWithin >= promise[x.p].amount
        broken == ~kept /\ promise[x.p].promisedDay < job[j].day
    IN /\ job[j].at = "reconcile"
       /\ job' = [job EXCEPT ![j] = [@ EXCEPT !.at = "promises", !.item = NoItem]]
       /\ promise' = IF kept THEN [promise EXCEPT ![x.p].status = "KEPT"]
                     ELSE IF broken THEN [promise EXCEPT ![x.p].status = "BROKEN"] ELSE promise
       /\ IF broken /\ kase[c].status = "PROMISE" THEN breakPromise(c) ELSE UNCHANGED vars
       /\ UNCHANGED <<paid, deciding, actions, running, failures>>

\* Wrong on purpose: the flag is left set when a run fails.
EndKeepsFlag(j) ==
    /\ job' = [job EXCEPT ![j] = Idle]
    /\ UNCHANGED <<vars, desk, actions, running>>

\* finally: the flag is cleared however the run ends.
End(j) ==
    /\ job' = [job EXCEPT ![j] = Idle]
    /\ running' = [running EXCEPT ![Instance[j]] = FALSE]
    /\ UNCHANGED <<vars, desk, actions>>

endRun(j) ==
    /\ job[j].at = "promises" /\ job[j].todo = {}
    /\ End(j)
    /\ UNCHANGED failures

\* A statement outside the loop of refreshAll throws, or the instance is restarted:
\* what the run has committed stays.
failRun(j) ==
    /\ job[j] # Idle /\ failures < MaxFailures
    /\ End(j)
    /\ failures' = failures + 1

Step(j) ==
    \/ refreshNext(j) \/ listCases(j) \/ escalateNext(j)
    \/ listPromises(j) \/ sumPayments(j) \/ reconcile(j) \/ endRun(j)

-----------------------------------------------------------------------------
(* Promises, and the other handlers *)

\* The time of the day matters for the creation of a promise only.
makePromise(p, amount, days) ==
    \E c \in Contracts, afternoon \in BOOLEAN :
        /\ promise[p] = NoPromise
        /\ addPromise(c)
        /\ promise' = [promise EXCEPT ![p] =
              [status |-> "PENDING", c |-> c, amount |-> amount,
               promisedDay |-> today + days, day |-> today, afternoon |-> afternoon,
               since |-> Len(paid)]]
        /\ UNCHANGED <<paid, deciding, actions, cycle>>

\* updatePromise: reads and checks, then writes, as two statements.
readPromise(p, status) ==
    /\ promise[p].status = "PENDING"
    /\ Cardinality(deciding) < MaxDeciding
    /\ deciding' = deciding \cup {[p |-> p, status |-> status]}
    /\ UNCHANGED <<vars, paid, promise, actions, cycle>>

updatePromise(x) ==
    /\ x \in deciding
    /\ deciding' = deciding \ {x}
    /\ promise' = [promise EXCEPT ![x.p].status = x.status]
    /\ UNCHANGED <<vars, paid, actions, cycle>>

\* A payment is dated by whoever registers it (the web client always does), or now.
payInstallment(c, n, lag, dated) ==
    /\ n <= MaxPaid
    /\ dated \/ lag = 0
    /\ settleInstallment(c, n, lag)
    /\ paid' = Append(paid, [c |-> c, paidAt |-> today - lag, dated |-> dated,
                             createdAt |-> today,
                             amount |-> received'[c][n] - received[c][n]])
    /\ UNCHANGED <<promise, deciding, actions, cycle>>

\* Bounded: only the contracts that proposals made are paid or cancelled here, those that
\* a renegotiation made are not.
Elsewhere ==
    /\ \/ NextDay
       \/ \E c \in Loans, offer \in Offers : createFromProposal(c, offer)
       \/ \E c \in Loans : cancel(c)
       \/ \E c \in Contracts : addInteraction(c)
       \/ \E c \in Contracts, new \in Contracts, term \in Terms :
             new # c /\ renegotiate(c, new, term)
       \/ \E c \in Contracts, status \in StaffStatuses :
             actions[c] < MaxActions /\ updateCaseStatus(c, status)
    /\ UNCHANGED <<desk, actions, cycle>>

CollNext ==
    \/ Elsewhere
    \/ \E c \in Loans, lag \in Backdating, dated \in BOOLEAN :
          \E n \in DOMAIN installments[c] : payInstallment(c, n, lag, dated)
    \/ \E p \in Promises, amount \in PromiseAmounts, days \in PromiseDays :
          makePromise(p, amount, days)
    \/ \E p \in Promises, status \in StaffDecisions : readPromise(p, status)
    \/ \E x \in deciding : updatePromise(x)
    \/ \E i \in Instances : startRun(i)
    \/ \E j \in Jobs : Step(j) \/ refreshFails(j) \/ failRun(j)

CollSpec == CollInit /\ [][CollNext]_collVars

\* The cycle is started every day, and what was started goes on.
FairCollSpec ==
    /\ CollSpec
    /\ \A i \in Instances : WF_collVars(startRun(i))
    /\ \A j \in Jobs : WF_collVars(Step(j))

-----------------------------------------------------------------------------
(* Correctness *)

\* Rows and lists have their fields, every promise is on a case, and an instance is
\* marked as running exactly while one of its jobs is.
CollTypeOK ==
    /\ \A n \in DOMAIN paid : paid[n].amount \in Nat \ {0} /\ paid[n].paidAt <= paid[n].createdAt
    /\ \A p \in Promises : promise[p] # NoPromise =>
          /\ promise[p].status \in {"PENDING"} \cup Decided
          /\ kase[promise[p].c].status # "NONE"
    /\ actions \in [Contracts -> Nat]
    /\ \A i \in Instances :
          Cardinality({j \in Jobs : Instance[j] = i /\ job[j] # Idle})
              = IF running[i] THEN 1 ELSE 0

\* "dunningStage makes this idempotent, each stage fires at most once": with all jobs on
\* one instance, and although the list of cases is stale while it is worked off, an
\* action is only ever generated for a stage above the one the case is at.
EscalatesOnce ==
    [][\A c \in Contracts : actions'[c] # actions[c] =>
          kase'[c].dunningStage > kase[c].dunningStage]_collVars

\* A resolved case restarts the ladder ("if this contract ever falls overdue again the
\* dunning ladder restarts from stage 1"): with every handler that may resolve a case, and
\* the run, at work at once, a step that resolves one clears its stage, and nothing else
\* brings a stage down.  What the code does not keep is that it stays cleared: a list
\* of cases read before writes the old stage back after (escalateNext).
ResolvingRestartsLadder ==
    [][\A c \in Contracts :
          /\ kase'[c].status = "RESOLVED" /\ kase[c].status # "RESOLVED" =>
                kase'[c].dunningStage = 0
          /\ kase'[c].dunningStage < kase[c].dunningStage =>
                kase'[c].status = "RESOLVED" /\ kase'[c].dunningStage = 0]_collVars

\* The ladder catches up with the days overdue a case shows, in spite of days without a
\* run, of runs that fail and of stale lists, unless the case is resolved or written off.
LadderCatchesUp ==
    \A c \in Loans :
        dunningStageFor(kase[c].daysOverdue) > kase[c].dunningStage
            ~> \/ dunningStageFor(kase[c].daysOverdue) <= kase[c].dunningStage
               \/ kase[c].status \in {"RESOLVED", "WRITTEN_OFF"}

\* The payments that could fulfil promise p: booked after it was made, dated on its day or
\* later and by the promised day, and booked by then.
Fulfilling(p) ==
    {n \in DOMAIN paid :
        /\ promise[p].since < n /\ paid[n].c = promise[p].c
        /\ promise[p].day <= paid[n].paidAt /\ paid[n].paidAt <= promise[p].promisedDay
        /\ paid[n].createdAt <= promise[p].promisedDay}

\* Those of them that the date pinned to noon puts before a promise of that afternoon.
PinnedBefore(p) ==
    {n \in DOMAIN paid :
        paid[n].dated /\ paid[n].paidAt = promise[p].day /\ promise[p].afternoon}

\* Who paid as promised is not called a defaulter ("made after the promise and on/before
\* the promised day"): whatever happens while the run works off its list, it breaks no
\* promise that payments of its days cover - but for those of the very day the promise
\* was made in the afternoon of, if given a date: noon of that day is before the
\* promise, and the code loses them.
PaidLaterIsNotBroken ==
    [][\A p \in Promises :
          job' # job /\ promise'[p].status = "BROKEN" /\ promise[p].status # "BROKEN"
              => SumPaid(Fulfilling(p) \ PinnedBefore(p)) < promise[p].amount]_collVars

\* No promise stays open for ever: past its day the cycle decides it, in spite of runs
\* that fail.
PromisesAreDecided ==
    \A p \in Promises :
        promise[p].status = "PENDING" /\ promise[p].promisedDay < today
            ~> promise[p].status \in Decided
=============================================================================
