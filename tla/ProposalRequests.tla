-------------------------- MODULE ProposalRequests --------------------------
(***************************************************************************)
(* The handlers of ProposalsService, AnalysisService and                   *)
(* ContractsService.createFromProposal, several at once.  Each reads and   *)
(* checks first and writes later; analyze and decide lock the proposal and *)
(* read it again, createFromProposal leans on the unique index of          *)
(* Contract.proposalId, and submit and cancel write what they decided on   *)
(* without a lock.                                                         *)
(*                                                                         *)
(* The lifecycle's variables are the committed rows.  A request holds the  *)
(* proposal row, or the index entry, that it wrote or locked, until its    *)
(* transaction ends; others that need it wait.  A new contract refers to   *)
(* its proposal, so that FOR UPDATE and the entry exclude each other too.  *)
(* The lock on the year's numbers, which orders the creation of contracts  *)
(* further, is left out.                                                   *)
(***************************************************************************)
EXTENDS ProposalLifecycle

CONSTANTS
    Requests,       \* requests being served at once
    None,           \* no proposal
    Customers,
    CustomerOf,     \* the customer of each proposal
    Serial          \* bound: the handlers that overlap with no other request on
                    \* the same proposal

ASSUME RequestAssumption ==
    /\ None \notin Proposals
    /\ CustomerOf \in [Proposals -> Customers]

VARIABLES
    customer,       \* Customer.status
    delinquent,     \* customers with a contract in default or an overdue installment
    events,         \* the ProposalEvent rows of each proposal, as they were made
    req             \* the request each server task is serving

requestVars == <<status, analysis, contracts, customer, delinquent, events, req>>
Rows == <<status, analysis, contracts, customer, delinquent, events>>

CustomerTransitions ==
    [PROSPECT |-> {"ACTIVE", "INACTIVE", "BLOCKED"},
     ACTIVE   |-> {"INACTIVE", "BLOCKED"},
     INACTIVE |-> {"ACTIVE", "BLOCKED"},
     BLOCKED  |-> {"ACTIVE", "INACTIVE"}]

\* op: the handler; at: its next statement; from: the status it read; to, outcome,
\* amount: what it is about to write; row, entry: whether it holds the proposal row
\* and the index entry of a new contract.
Idle == [op |-> "none", at |-> "idle", p |-> None, from |-> "NONE", to |-> "NONE",
         outcome |-> NoAnalysis, amount |-> 0, row |-> FALSE, entry |-> FALSE]

Statements == {"changeStatus", "lockProposal", "evaluate", "commitAnalysis",
               "insertContract", "changeStatusRead", "lockRow", "commitContract"}
Request == [op : {"none", "submit", "cancel", "analyze", "decide", "contract"},
            at : Statements \cup {"idle"}, p : Proposals \cup {None},
            from : ProposalStatus, to : ProposalStatus,
            outcome : Analysis, amount : Nat, row : BOOLEAN, entry : BOOLEAN]

RequestInit ==
    /\ LifecycleInit
    /\ customer = [c \in Customers |-> "PROSPECT"]
    /\ delinquent = {}
    /\ events = [p \in Proposals |-> <<>>]
    /\ req = [r \in Requests |-> Idle]

-----------------------------------------------------------------------------
RowFree(r) == \A q \in Requests \ {r} : req[q].row => req[q].p # req[r].p
EntryFree(r) == \A q \in Requests \ {r} : req[q].entry => req[q].p # req[r].p

\* Task r is free to serve op on p.
Start(r, op, p) ==
    /\ req[r].at = "idle"
    /\ \A q \in Requests : req[q].p = p => {op, req[q].op} \cap Serial = {}

\* A statement that reads, locks, or writes what only the commit publishes.
Goto(r, t) == req' = [req EXCEPT ![r] = t] /\ UNCHANGED Rows

\* Wrong on purpose: the lock outlives the request.
EndKeepsLock(r) == req' = [req EXCEPT ![r] = [Idle EXCEPT !.row = req[r].row]]

\* The answer, and the end of the transaction.
End(r) == req' = [req EXCEPT ![r] = Idle]

\* An event row, written with the status it tells about.
writeStatus(p, from, to) ==
    /\ status' = [status EXCEPT ![p] = to]
    /\ events' = [events EXCEPT ![p] = Append(@, <<from, to>>)]

Blocked(p) == customer[CustomerOf[p]] = "BLOCKED"

-----------------------------------------------------------------------------
(* ProposalsService *)

create(p) ==
    /\ status[p] = "NONE" /\ ~Blocked(p)
    /\ writeStatus(p, "NONE", "DRAFT")
    /\ UNCHANGED <<analysis, contracts, customer, delinquent, req>>

\* submit and cancel: changeStatus outside any transaction.
changeStatusRead(r, op, p, to) ==
    /\ Start(r, op, p)
    /\ status[p] # "NONE" /\ to \in Transitions[status[p]]
    /\ Goto(r, [Idle EXCEPT !.op = op, !.p = p, !.from = status[p], !.to = to,
                            !.at = "changeStatus"])

submit(r, p) == changeStatusRead(r, "submit", p, "UNDER_REVIEW")
cancel(r, p) == changeStatusRead(r, "cancel", p, "CANCELLED")

changeStatusWrite(r) ==
    /\ req[r].at = "changeStatus"
    /\ RowFree(r)
    /\ writeStatus(req[r].p, req[r].from, req[r].to)
    /\ End(r)
    /\ UNCHANGED <<analysis, contracts, customer, delinquent>>

-----------------------------------------------------------------------------
(* AnalysisService *)

analyze(r, p) ==
    /\ Start(r, "analyze", p)
    /\ status[p] = "UNDER_REVIEW" /\ ~Blocked(p)
    /\ Goto(r, [Idle EXCEPT !.op = "analyze", !.p = p, !.at = "lockProposal"])

decide(r, p, outcome) ==
    /\ Start(r, "decide", p)
    /\ status[p] = "UNDER_REVIEW" /\ ~Blocked(p)
    /\ Goto(r, [Idle EXCEPT !.op = "decide", !.p = p, !.outcome = outcome,
                            !.at = "lockProposal"])

\* Wrong on purpose: the status is not read again under the lock.
lockProposalTrusting(r) ==
    /\ req[r].at = "lockProposal"
    /\ RowFree(r) /\ EntryFree(r)
    /\ Goto(r, [req[r] EXCEPT !.row = TRUE, !.at = "evaluate"])

\* SELECT ... FOR UPDATE, and the status read again.
lockProposal(r) ==
    /\ req[r].at = "lockProposal"
    /\ RowFree(r) /\ EntryFree(r)
    /\ Goto(r, IF status[req[r].p] = "UNDER_REVIEW"
               THEN [req[r] EXCEPT !.row = TRUE, !.at = "evaluate"]
               ELSE Idle)

\* The outcomes of evaluateCredit for a proposal of a customer in this state: a
\* delinquent customer is rejected; an automatic approval is of the whole amount.
EvaluateCredit(p) ==
    IF CustomerOf[p] \in delinquent
    THEN {[decision |-> "REJECTED", approvedAmount |-> 0]}
    ELSE {o \in Outcomes(p) : o.decision = "APPROVED" => o.approvedAmount = Requested[p]}

\* hasActiveDelinquency and the decision.
evaluate(r) ==
    LET p == req[r].p IN
    /\ req[r].at = "evaluate"
    /\ IF req[r].op = "analyze"
       THEN \E outcome \in EvaluateCredit(p) :
               Goto(r, [req[r] EXCEPT !.outcome = outcome, !.at = "commitAnalysis"])
       ELSE Goto(r, IF req[r].outcome.decision = "APPROVED" /\ CustomerOf[p] \in delinquent
                    THEN Idle
                    ELSE [req[r] EXCEPT !.at = "commitAnalysis"])

\* The analysis row and, unless a human is to decide, changeStatus; COMMIT.
commitAnalysis(r) ==
    LET p == req[r].p
        to == req[r].outcome.decision
    IN /\ req[r].at = "commitAnalysis"
       /\ IF to = "MANUAL_REVIEW" \/ to = status[p]
          THEN /\ analysis' = [analysis EXCEPT ![p] = req[r].outcome]
               /\ UNCHANGED <<status, events>>
          ELSE IF to \in Transitions[status[p]]
          THEN /\ analysis' = [analysis EXCEPT ![p] = req[r].outcome]
               /\ writeStatus(p, status[p], to)
          ELSE UNCHANGED <<analysis, status, events>>
       /\ End(r)
       /\ UNCHANGED <<contracts, customer, delinquent>>

-----------------------------------------------------------------------------
(* ContractsService.createFromProposal *)

\* Wrong on purpose: the figures of the proposal, as it was requested.
createFromProposalRequested(r, p) ==
    /\ Start(r, "contract", p)
    /\ status[p] = "APPROVED" /\ analysis[p].decision = "APPROVED" /\ ~Blocked(p)
    /\ contracts[p] = <<>>
    /\ Goto(r, [Idle EXCEPT !.op = "contract", !.p = p,
                            !.amount = Requested[p], !.at = "insertContract"])

\* The proposal, its analysis, the customer and the contract, read before the
\* transaction.
createFromProposal(r, p) ==
    /\ Start(r, "contract", p)
    /\ status[p] = "APPROVED" /\ analysis[p].decision = "APPROVED" /\ ~Blocked(p)
    /\ contracts[p] = <<>>
    /\ Goto(r, [Idle EXCEPT !.op = "contract", !.p = p,
                            !.amount = analysis[p].approvedAmount, !.at = "insertContract"])

\* Wrong on purpose: no unique index on Contract.proposalId.
insertContractTwice(r) ==
    /\ req[r].at = "insertContract"
    /\ Goto(r, [req[r] EXCEPT !.entry = TRUE, !.at = "changeStatusRead"])

\* Wrong on purpose: no end to the retries.
insertContractForever(r) ==
    /\ req[r].at = "insertContract"
    /\ EntryFree(r) /\ RowFree(r)
    /\ contracts[req[r].p] = <<>>
    /\ Goto(r, [req[r] EXCEPT !.entry = TRUE, !.at = "changeStatusRead"])

\* The INSERT waits for a concurrent one of the same proposal, then fails on the
\* unique index, retries and all, if that one committed.
insertContract(r) ==
    /\ req[r].at = "insertContract"
    /\ EntryFree(r) /\ RowFree(r)
    /\ Goto(r, IF contracts[req[r].p] = <<>>
               THEN [req[r] EXCEPT !.entry = TRUE, !.at = "changeStatusRead"]
               ELSE Idle)

\* changeStatus inside the transaction reads the proposal again.
contractStatusRead(r) ==
    LET p == req[r].p IN
    /\ req[r].at = "changeStatusRead"
    /\ Goto(r, IF status[p] = "CONTRACTED"
               THEN [req[r] EXCEPT !.at = "commitContract", !.to = "NONE"]
               ELSE IF "CONTRACTED" \in Transitions[status[p]]
               THEN [req[r] EXCEPT !.at = "lockRow", !.from = status[p], !.to = "CONTRACTED"]
               ELSE Idle)

contractStatusWrite(r) ==
    /\ req[r].at = "lockRow"
    /\ RowFree(r)
    /\ Goto(r, [req[r] EXCEPT !.row = TRUE, !.at = "commitContract"])

\* Wrong on purpose: the status without its event.
commitContractSilently(r) ==
    LET p == req[r].p
        c == CustomerOf[p]
    IN /\ req[r].at = "commitContract"
       /\ contracts' = [contracts EXCEPT ![p] = Append(@, req[r].amount)]
       /\ status' = [status EXCEPT ![p] = "CONTRACTED"]
       /\ customer' = [customer EXCEPT ![c] = IF @ = "PROSPECT" THEN "ACTIVE" ELSE @]
       /\ End(r)
       /\ UNCHANGED <<analysis, delinquent, events>>

\* The contract, the status it read a legal way to, the customer's activation; COMMIT.
commitContract(r) ==
    LET p == req[r].p
        c == CustomerOf[p]
    IN /\ req[r].at = "commitContract"
       /\ contracts' = [contracts EXCEPT ![p] = Append(@, req[r].amount)]
       /\ IF req[r].to = "NONE" THEN UNCHANGED <<status, events>>
          ELSE writeStatus(p, req[r].from, req[r].to)
       /\ customer' = [customer EXCEPT ![c] = IF @ = "PROSPECT" THEN "ACTIVE" ELSE @]
       /\ End(r)
       /\ UNCHANGED <<analysis, delinquent>>

-----------------------------------------------------------------------------
\* The request fails: an error, a lost connection, a crash of the server.
Abort(r) == req[r].at # "idle" /\ End(r) /\ UNCHANGED Rows

\* CustomersService.updateStatus, by a request that nobody overlaps with.
updateCustomerStatus(c, s) ==
    /\ s \in CustomerTransitions[customer[c]]
    /\ customer' = [customer EXCEPT ![c] = s]
    /\ UNCHANGED <<status, analysis, contracts, delinquent, events, req>>

\* A contract of c falls overdue, or c has paid: the collections cycle.
arrearsChange(c) ==
    /\ \E p \in Proposals : CustomerOf[p] = c /\ contracts[p] # <<>>
    /\ delinquent' = IF c \in delinquent THEN delinquent \ {c} ELSE delinquent \cup {c}
    /\ UNCHANGED <<status, analysis, contracts, customer, events, req>>

Statement(r) ==
    \/ changeStatusWrite(r)
    \/ lockProposal(r) \/ evaluate(r) \/ commitAnalysis(r)
    \/ insertContract(r) \/ contractStatusRead(r) \/ contractStatusWrite(r)
    \/ commitContract(r)

RequestNext ==
    \/ \E p \in Proposals : create(p)
    \/ \E r \in Requests, p \in Proposals :
          \/ submit(r, p) \/ cancel(r, p)
          \/ analyze(r, p)
          \/ \E outcome \in {o \in Outcomes(p) : o.decision # "MANUAL_REVIEW"} :
                decide(r, p, outcome)
          \/ createFromProposal(r, p)
    \/ \E r \in Requests : Statement(r) \/ Abort(r)
    \/ \E c \in Customers : arrearsChange(c)
    \/ \E c \in Customers, s \in DOMAIN CustomerTransitions : updateCustomerStatus(c, s)

RequestSpec == RequestInit /\ [][RequestNext]_requestVars

\* The server runs what it can run; PostgreSQL queues the waiters of a row.
FairRequestSpec == RequestSpec /\ \A r \in Requests : SF_requestVars(Statement(r))

-----------------------------------------------------------------------------
(* Correctness *)

\* Types; a task that serves nobody has nothing locked.
RequestTypeOK ==
    /\ LifecycleTypeOK
    /\ customer \in [Customers -> DOMAIN CustomerTransitions]
    /\ delinquent \subseteq Customers
    /\ events \in [Proposals -> Seq(ProposalStatus \X ProposalStatus)]
    /\ req \in [Requests -> Request]
    /\ \A r \in Requests : req[r].at = "idle" <=> req[r].p = None
    /\ \A r \in Requests : req[r].row \/ req[r].entry => req[r].at # "idle"

\* To everybody else, each request is one step of the lifecycle, or none.
ImplementsLifecycle == LifecycleSpec

\* The ProposalEvent rows tell the history of the proposal: each starts from the
\* status the one before ended in, and the last one ends in the status it has.
EventsTellTheHistory ==
    \A p \in Proposals :
        /\ events[p] # <<>> => events[p][Len(events[p])][2] = status[p]
        /\ \A n \in 2..Len(events[p]) : events[p][n][1] = events[p][n-1][2]

\* Every request answers, in spite of rows locked by others.
EveryRequestEnds ==
    \A r \in Requests : req[r].at # "idle" ~> req[r].at = "idle"
=============================================================================
