--------------------------- MODULE ProposalProofs ---------------------------
(***************************************************************************)
(* Theorems about ProposalLifecycle and ProposalRequests, for any number   *)
(* of proposals, customers and requests.                                   *)
(*                                                                         *)
(* OneContractPerProposal rests on the unique index alone, whatever        *)
(* overlaps with what.  That the requests implement the lifecycle needs    *)
(* submit and cancel, which write without a lock, not to overlap with      *)
(* another request on the same proposal.                                   *)
(***************************************************************************)
EXTENDS ProposalRequests, TLAPS

\* The statuses, and what the proofs use of the table of transitions.
LEMMA TransitionFacts ==
    /\ ProposalStatus = {"NONE", "DRAFT", "UNDER_REVIEW", "APPROVED", "REJECTED",
                         "CANCELLED", "CONTRACTED"}
    /\ \A s \in ProposalStatus : Transitions[s] \subseteq ProposalStatus \ {"NONE"}
    /\ \A s \in ProposalStatus : "CONTRACTED" \in Transitions[s] <=> s = "APPROVED"
    /\ \A s \in ProposalStatus : "APPROVED" \in Transitions[s] <=> s = "UNDER_REVIEW"
    /\ \A s \in ProposalStatus : "REJECTED" \in Transitions[s] <=> s = "UNDER_REVIEW"
    /\ Transitions["CONTRACTED"] = {}
    /\ "DRAFT" \in Transitions["NONE"]
BY DEF ProposalStatus, Transitions

\* The outcomes of an analysis are analyses.
LEMMA OutcomeFacts ==
    ASSUME NEW p \in Proposals
    PROVE  /\ Outcomes(p) \subseteq Analysis
           /\ NoAnalysis \in Analysis
           /\ \A o \in Outcomes(p) : /\ o.decision \in Decisions
                                     /\ o.approvedAmount \in Nat
BY RequestedAssumption DEF Outcomes, Analysis, NoAnalysis, Decisions

-----------------------------------------------------------------------------
(* The lifecycle *)

LifecycleInv ==
    /\ LifecycleTypeOK
    /\ OneContractPerProposal
    /\ ContractFollowsApproval

\* No proposal has been made, none has a contract.
LEMMA LifecycleInitially == LifecycleInit => LifecycleInv
<1> SUFFICES ASSUME LifecycleInit PROVE LifecycleInv
    OBVIOUS
<1>1. NoAnalysis \in Analysis
  BY DEF NoAnalysis, Analysis, Decisions
<1>2. LifecycleTypeOK
  BY <1>1, TransitionFacts DEF LifecycleInit, LifecycleTypeOK
<1>3. OneContractPerProposal /\ ContractFollowsApproval
  BY DEF LifecycleInit, OneContractPerProposal, ContractFollowsApproval
<1> QED BY <1>2, <1>3 DEF LifecycleInv

\* A proposal under review has no contract yet, and an approved one gets its first.
LEMMA LifecycleStep ==
    ASSUME LifecycleInv, [LifecycleNext]_lifecycleVars
    PROVE  LifecycleInv'
<1> USE DEF LifecycleInv
<1>1. CASE UNCHANGED lifecycleVars
  BY <1>1 DEF lifecycleVars, LifecycleTypeOK, OneContractPerProposal,
              ContractFollowsApproval
<1>2. ASSUME NEW p \in Proposals, NEW toStatus \in ProposalStatus,
             changeStatus(p, toStatus)
      PROVE  LifecycleInv'
  <2>1. /\ status' = [status EXCEPT ![p] = toStatus]
        /\ UNCHANGED <<analysis, contracts>>
        /\ toStatus \in {"DRAFT", "UNDER_REVIEW", "CANCELLED"}
        /\ status[p] # "CONTRACTED"
    BY <1>2, TransitionFacts DEF changeStatus, move
  <2>2. LifecycleTypeOK'
    BY <2>1 DEF LifecycleTypeOK
  <2>3. (OneContractPerProposal /\ ContractFollowsApproval)'
    BY <2>1 DEF LifecycleTypeOK, OneContractPerProposal, ContractFollowsApproval
  <2> QED BY <2>2, <2>3
<1>3. ASSUME NEW p \in Proposals, NEW outcome \in Outcomes(p),
             recordAnalysis(p, outcome)
      PROVE  LifecycleInv'
  <2>1. /\ status[p] = "UNDER_REVIEW"
        /\ analysis' = [analysis EXCEPT ![p] = outcome]
        /\ status' = [status EXCEPT ![p] = IF outcome.decision = "MANUAL_REVIEW"
                                           THEN @ ELSE outcome.decision]
        /\ UNCHANGED contracts
    BY <1>3 DEF recordAnalysis, move, LifecycleTypeOK
  <2>2. outcome.decision \in {"APPROVED", "REJECTED", "MANUAL_REVIEW"}
    BY OutcomeFacts DEF Decisions
  <2>3. LifecycleTypeOK'
    BY <2>1, <2>2, OutcomeFacts, TransitionFacts DEF LifecycleTypeOK
  <2>4. (OneContractPerProposal /\ ContractFollowsApproval)'
    BY <2>1, <2>2 DEF LifecycleTypeOK, OneContractPerProposal, ContractFollowsApproval
  <2> QED BY <2>3, <2>4
<1>4. ASSUME NEW p \in Proposals, contractProposal(p)
      PROVE  LifecycleInv'
  <2> DEFINE amount == analysis[p].approvedAmount
  <2>1. /\ status[p] = "APPROVED"
        /\ status' = [status EXCEPT ![p] = "CONTRACTED"]
        /\ contracts' = [contracts EXCEPT ![p] = Append(@, amount)]
        /\ UNCHANGED analysis
    BY <1>4 DEF contractProposal, move
  <2>2. contracts[p] = <<>> /\ amount \in Nat
    BY <2>1, TransitionFacts DEF LifecycleTypeOK, ContractFollowsApproval, Analysis
  <2>3. contracts' = [contracts EXCEPT ![p] = <<amount>>]
    BY <2>1, <2>2 DEF LifecycleTypeOK
  <2>4. <<amount>> \in Seq(Nat) /\ Len(<<amount>>) = 1 /\ <<amount>> # <<>>
    BY <2>2
  <2>5. LifecycleTypeOK'
    BY <2>1, <2>3, <2>4, TransitionFacts DEF LifecycleTypeOK
  <2>6. OneContractPerProposal'
    BY <2>3, <2>4 DEF LifecycleTypeOK, OneContractPerProposal
  <2>7. ContractFollowsApproval'
    BY <2>1, <2>3, <2>4 DEF LifecycleTypeOK, ContractFollowsApproval
  <2> QED BY <2>5, <2>6, <2>7
<1> QED BY <1>1, <1>2, <1>3, <1>4 DEF LifecycleNext

\* What the lifecycle promises: one contract for each proposal, of the amount that an
\* approval stands for.
THEOREM LifecycleCorrect ==
    LifecycleSpec => [](LifecycleTypeOK /\ OneContractPerProposal /\ ContractFollowsApproval)
<1>1. LifecycleInv => LifecycleTypeOK /\ OneContractPerProposal /\ ContractFollowsApproval
  BY DEF LifecycleInv
<1> QED BY <1>1, LifecycleInitially, LifecycleStep, PTL DEF LifecycleSpec

\* The lifecycle's statuses follow the table of transitions.
THEOREM LifecycleFollowsTransitions == LifecycleSpec => FollowsTransitions
<1>1. ASSUME LifecycleInv, [LifecycleNext]_lifecycleVars
      PROVE  [\A p \in Proposals :
                 status'[p] # status[p] => status'[p] \in Transitions[status[p]]]_lifecycleVars
  <2> SUFFICES ASSUME NEW p \in Proposals, status'[p] # status[p],
                      NEW d \in Proposals,
                      \/ \E s \in ProposalStatus : changeStatus(d, s)
                      \/ \E outcome \in Outcomes(d) : recordAnalysis(d, outcome)
                      \/ contractProposal(d)
               PROVE  status'[p] \in Transitions[status[p]]
    BY <1>1 DEF LifecycleNext, lifecycleVars
  <2>1. \E s : s \in Transitions[status[d]] /\ status' = [status EXCEPT ![d] = s]
    BY DEF changeStatus, recordAnalysis, contractProposal, move
  <2> QED BY <1>1, <2>1 DEF LifecycleInv, LifecycleTypeOK
<1> QED BY <1>1, LifecycleInitially, LifecycleStep, PTL DEF LifecycleSpec, FollowsTransitions

-----------------------------------------------------------------------------
(* The requests: what holds whatever overlaps with what *)

ContractStatements == {"insertContract", "changeStatusRead", "lockRow", "commitContract"}
AfterInsert == ContractStatements \ {"insertContract"}

\* What a request has gathered so far.
Serving(t) ==
    /\ t \in Request
    /\ t.at = "idle" <=> t.p = None
    /\ t.row \/ t.entry => t.at # "idle"
    /\ t.at \in {"lockProposal", "evaluate"} => t.op \in {"analyze", "decide"}
    /\ t.op = "decide" \/ t.at = "commitAnalysis" => t.outcome \in Outcomes(t.p)
    /\ t.at \in AfterInsert <=> t.entry
    /\ t.at \in ContractStatements <=> t.op = "contract"
    /\ t.at = "changeStatus" <=> t.op \in {"submit", "cancel"}

\* The entry of an uncommitted contract is the only one, and none is committed.
EntriesOK ==
    /\ \A r \in Requests : req[r].entry => contracts[req[r].p] = <<>>
    /\ \A r, q \in Requests :
          r # q /\ req[r].entry /\ req[q].entry => req[r].p # req[q].p

RequestInv ==
    /\ RequestTypeOK
    /\ \A r \in Requests : Serving(req[r])
    /\ EntriesOK
    /\ OneContractPerProposal

\* A task that serves nobody.
LEMMA IdleServing == Serving(Idle)
<1>1. NoAnalysis \in Analysis
  BY DEF NoAnalysis, Analysis, Decisions
<1> QED BY <1>1, TransitionFacts DEF Serving, Idle, Request, ContractStatements, AfterInsert

\* A fresh database and idle tasks.
LEMMA RequestsInitially == RequestInit => RequestInv
<1> SUFFICES ASSUME RequestInit PROVE RequestInv
    OBVIOUS
<1>1. LifecycleInv
  BY LifecycleInitially DEF RequestInit
<1>2. \A r \in Requests : Serving(req[r]) /\ req[r] = Idle
  BY IdleServing DEF RequestInit
<1>3. RequestTypeOK
  <2>1. customer \in [Customers -> DOMAIN CustomerTransitions]
    BY DEF RequestInit, CustomerTransitions
  <2>2. events \in [Proposals -> Seq(ProposalStatus \X ProposalStatus)]
    BY DEF RequestInit
  <2>3. delinquent \subseteq Customers /\ req \in [Requests -> Request]
    BY <1>2 DEF RequestInit, Serving
  <2> QED BY <1>1, <1>2, <2>1, <2>2, <2>3 DEF RequestTypeOK, LifecycleInv, Serving
<1>4. EntriesOK
  BY <1>2 DEF EntriesOK, Idle
<1> QED BY <1>1, <1>2, <1>3, <1>4 DEF RequestInv, LifecycleInv

\* A request moves on, and takes an entry only if there is neither an entry nor a
\* contract.
LEMMA MovingOn ==
    ASSUME RequestInv, NEW r \in Requests, NEW t, Serving(t),
           req' = [req EXCEPT ![r] = t],
           UNCHANGED <<status, analysis, contracts, customer, delinquent, events>>,
           t.entry => /\ contracts[t.p] = <<>>
                      /\ \A q \in Requests \ {r} : req[q].entry => req[q].p # t.p
    PROVE  RequestInv'
<1>1. \A q \in Requests : req'[q] = IF q = r THEN t ELSE req[q]
  BY DEF RequestInv, RequestTypeOK
<1>2. \A q \in Requests : Serving(req'[q])
  BY <1>1 DEF RequestInv
<1>3. (\A q \in Requests : Serving(req[q]))'
  BY <1>2
<1>4. RequestTypeOK'
  BY <1>2 DEF RequestInv, RequestTypeOK, LifecycleTypeOK, Serving
<1>5. EntriesOK'
  BY <1>1 DEF RequestInv, EntriesOK
<1> QED BY <1>3, <1>4, <1>5 DEF RequestInv, OneContractPerProposal

\* A request ends without having changed a row.
LEMMA GivingUp ==
    ASSUME RequestInv, NEW r \in Requests, End(r), UNCHANGED Rows
    PROVE  RequestInv'
<1>1. ~Idle.entry
  BY DEF Idle
<1> QED BY <1>1, IdleServing, MovingOn DEF End, Rows

\* The facts that a request in service stands on.
LEMMA ServedProposal ==
    ASSUME RequestInv, NEW r \in Requests, req[r].at # "idle"
    PROVE  req[r].p \in Proposals /\ Serving(req[r])
BY DEF RequestInv, Serving, Request

\* An event and a status of the enumeration keep the rows typed.
LEMMA WriteStatusTyped ==
    ASSUME RequestInv, NEW p \in Proposals, NEW from \in ProposalStatus,
           NEW to \in ProposalStatus, writeStatus(p, from, to)
    PROVE  /\ status' \in [Proposals -> ProposalStatus]
           /\ events' \in [Proposals -> Seq(ProposalStatus \X ProposalStatus)]
<1>1. <<from, to>> \in ProposalStatus \X ProposalStatus
  OBVIOUS
<1>2. Append(events[p], <<from, to>>) \in Seq(ProposalStatus \X ProposalStatus)
  BY <1>1 DEF RequestInv, RequestTypeOK
<1> QED BY <1>2 DEF writeStatus, RequestInv, RequestTypeOK, LifecycleTypeOK

\* A request ends with a status, an event, an analysis and a customer written.
LEMMA CommittedStep ==
    ASSUME RequestInv, NEW r \in Requests,
           req' = [req EXCEPT ![r] = Idle],
           status' \in [Proposals -> ProposalStatus],
           events' \in [Proposals -> Seq(ProposalStatus \X ProposalStatus)],
           customer' \in [Customers -> DOMAIN CustomerTransitions],
           analysis' \in [Proposals -> Analysis],
           \A p \in Proposals : analysis'[p] \in Outcomes(p) \cup {NoAnalysis},
           UNCHANGED <<contracts, delinquent>>
    PROVE  RequestInv'
<1>1. \A q \in Requests : req'[q] = IF q = r THEN Idle ELSE req[q]
  BY DEF RequestInv, RequestTypeOK
<1>2. \A q \in Requests : Serving(req'[q])
  BY <1>1, IdleServing DEF RequestInv
<1>3. (\A q \in Requests : Serving(req[q]))'
  BY <1>2
<1>4. RequestTypeOK'
  BY <1>2 DEF RequestInv, RequestTypeOK, LifecycleTypeOK, Serving
<1>5. ~Idle.entry
  BY DEF Idle
<1>6. EntriesOK'
  BY <1>1, <1>5 DEF RequestInv, EntriesOK
<1> QED BY <1>3, <1>4, <1>6 DEF RequestInv, OneContractPerProposal

\* The statements of ProposalsService.
LEMMA ProposalStepKeepsInv ==
    ASSUME RequestInv, NEW r \in Requests, NEW p \in Proposals,
           create(p) \/ submit(r, p) \/ cancel(r, p) \/ changeStatusWrite(r)
    PROVE  RequestInv'
<1>1. CASE create(p)
  <2>1. UNCHANGED <<analysis, contracts, customer, delinquent, req>>
    BY <1>1 DEF create
  <2>2. /\ status' \in [Proposals -> ProposalStatus]
        /\ events' \in [Proposals -> Seq(ProposalStatus \X ProposalStatus)]
    BY <1>1, TransitionFacts, WriteStatusTyped DEF create
  <2> QED BY <2>1, <2>2 DEF RequestInv, RequestTypeOK, LifecycleTypeOK, EntriesOK,
                            OneContractPerProposal, Serving
<1>2. ASSUME NEW op \in {"submit", "cancel"}, NEW to \in ProposalStatus,
             changeStatusRead(r, op, p, to)
      PROVE  RequestInv'
  <2> DEFINE t == [Idle EXCEPT !.op = op, !.p = p, !.from = status[p], !.to = to,
                               !.at = "changeStatus"]
  <2>1. status[p] \in ProposalStatus
    BY DEF RequestInv, RequestTypeOK, LifecycleTypeOK
  <2>2. Serving(t) /\ ~t.entry
    <3>1. NoAnalysis \in Analysis
      BY OutcomeFacts
    <3> QED BY <2>1, <3>1, RequestAssumption
            DEF Serving, Idle, Request, Statements, ContractStatements, AfterInsert
  <2>3. req' = [req EXCEPT ![r] = t] /\ UNCHANGED Rows
    BY <1>2 DEF changeStatusRead, Goto
  <2> HIDE DEF t
  <2> QED BY <2>2, <2>3, MovingOn DEF Rows
<1>3. CASE changeStatusWrite(r)
  <2> DEFINE d == req[r].p
  <2>1. /\ d \in Proposals
        /\ req[r].from \in ProposalStatus /\ req[r].to \in ProposalStatus
    BY <1>3, ServedProposal DEF changeStatusWrite, Serving, Request
  <2>2. writeStatus(d, req[r].from, req[r].to)
    BY <1>3 DEF changeStatusWrite
  <2>3. /\ status' \in [Proposals -> ProposalStatus]
        /\ events' \in [Proposals -> Seq(ProposalStatus \X ProposalStatus)]
    BY <2>1, <2>2, WriteStatusTyped
  <2>4. req' = [req EXCEPT ![r] = Idle] /\ UNCHANGED <<analysis, contracts, customer, delinquent>>
    BY <1>3 DEF changeStatusWrite, End
  <2>5. /\ customer' \in [Customers -> DOMAIN CustomerTransitions]
        /\ analysis' \in [Proposals -> Analysis]
        /\ \A e \in Proposals : analysis'[e] \in Outcomes(e) \cup {NoAnalysis}
    BY <2>4 DEF RequestInv, RequestTypeOK, LifecycleTypeOK
  <2> QED BY <2>3, <2>4, <2>5, CommittedStep
<1>4. \A s \in {"UNDER_REVIEW", "CANCELLED"} : s \in ProposalStatus
  BY TransitionFacts
<1> QED BY <1>1, <1>2, <1>3, <1>4 DEF submit, cancel

\* The statements of AnalysisService.
LEMMA AnalysisStepKeepsInv ==
    ASSUME RequestInv, NEW r \in Requests, NEW p \in Proposals,
           \/ analyze(r, p) \/ \E outcome \in Outcomes(p) : decide(r, p, outcome)
           \/ lockProposal(r) \/ evaluate(r) \/ commitAnalysis(r)
    PROVE  RequestInv'
<1> DEFINE d == req[r].p
<1>1. CASE analyze(r, p)
  <2> DEFINE t == [Idle EXCEPT !.op = "analyze", !.p = p, !.at = "lockProposal"]
  <2>1. NoAnalysis \in Analysis /\ "NONE" \in ProposalStatus
    BY OutcomeFacts, TransitionFacts
  <2>2. Serving(t) /\ ~t.entry
    BY <2>1, RequestAssumption
       DEF Serving, Idle, Request, Statements, ContractStatements, AfterInsert
  <2>3. req' = [req EXCEPT ![r] = t] /\ UNCHANGED Rows
    BY <1>1 DEF analyze, Goto
  <2> HIDE DEF t
  <2> QED BY <2>2, <2>3, MovingOn DEF Rows
<1>2. ASSUME NEW o \in Outcomes(p), decide(r, p, o)
      PROVE  RequestInv'
  <2> DEFINE t == [Idle EXCEPT !.op = "decide", !.p = p, !.outcome = o,
                               !.at = "lockProposal"]
  <2>1. o \in Analysis /\ "NONE" \in ProposalStatus
    BY OutcomeFacts, TransitionFacts
  <2>2. t \in Request
    BY <2>1 DEF Idle, Request, Statements
  <2>3. /\ t.op = "decide" /\ t.at = "lockProposal" /\ t.p = p /\ t.outcome = o
        /\ ~t.entry /\ ~t.row
    BY DEF Idle
  <2>4. req' = [req EXCEPT ![r] = t] /\ UNCHANGED Rows
    BY <1>2 DEF decide, Goto
  <2> HIDE DEF t
  <2>5. Serving(t)
    BY <2>2, <2>3, RequestAssumption DEF Serving, ContractStatements, AfterInsert
  <2> QED BY <2>3, <2>4, <2>5, MovingOn DEF Rows
<1>3. CASE lockProposal(r)
  <2> DEFINE t == [req[r] EXCEPT !.row = TRUE, !.at = "evaluate"]
  <2>1. Serving(req[r]) /\ req[r].at = "lockProposal" /\ UNCHANGED Rows /\ ~req[r].entry
    BY <1>3, ServedProposal
       DEF lockProposal, Goto, Serving, ContractStatements, AfterInsert
  <2>2. Serving(t) /\ t.entry = req[r].entry /\ t.p = req[r].p
    BY <2>1 DEF Serving, Request, Statements, ContractStatements, AfterInsert
  <2>3. req' = [req EXCEPT ![r] = t] \/ req' = [req EXCEPT ![r] = Idle]
    BY <1>3 DEF lockProposal, Goto
  <2> HIDE DEF t
  <2> QED BY <2>1, <2>2, <2>3, MovingOn, GivingUp DEF Rows, End
<1>4. CASE evaluate(r)
  <2> DEFINE t(o) == [req[r] EXCEPT !.outcome = o, !.at = "commitAnalysis"]
  <2>1. Serving(req[r]) /\ d \in Proposals /\ req[r].at = "evaluate" /\ UNCHANGED Rows
    BY <1>4, ServedProposal DEF evaluate, Goto
  <2>2. ASSUME NEW o \in Outcomes(d)
        PROVE  Serving(t(o)) /\ t(o).entry = req[r].entry /\ t(o).p = d
    <3>1. o \in Analysis
      BY <2>1, OutcomeFacts
    <3>2. t(o) \in Request
      BY <2>1, <3>1 DEF Serving, Request, Statements
    <3>3. /\ t(o).op = req[r].op /\ t(o).p = d /\ t(o).at = "commitAnalysis"
          /\ t(o).outcome = o /\ t(o).row = req[r].row /\ t(o).entry = req[r].entry
      BY <2>1 DEF Serving, Request
    <3> HIDE DEF t
    <3> QED BY <2>1, <3>2, <3>3 DEF Serving, ContractStatements, AfterInsert
  <2>3. EvaluateCredit(d) \subseteq Outcomes(d)
    BY <2>1 DEF EvaluateCredit, Outcomes
  <2>4. req[r].op # "analyze" => /\ req[r].outcome \in Outcomes(d)
                                 /\ [req[r] EXCEPT !.at = "commitAnalysis"]
                                      = t(req[r].outcome)
    BY <2>1 DEF Serving, Request
  <2>5. \/ \E o \in Outcomes(d) : req' = [req EXCEPT ![r] = t(o)]
        \/ req' = [req EXCEPT ![r] = Idle]
    <3>1. CASE req[r].op = "analyze"
      <4>1. PICK o \in EvaluateCredit(d) : req' = [req EXCEPT ![r] = t(o)]
        BY <1>4, <3>1 DEF evaluate, Goto
      <4> HIDE DEF t
      <4> QED BY <2>3, <4>1
    <3>2. CASE req[r].op # "analyze"
      <4>1. \/ req' = [req EXCEPT ![r] = [req[r] EXCEPT !.at = "commitAnalysis"]]
            \/ req' = [req EXCEPT ![r] = Idle]
        BY <1>4, <3>2 DEF evaluate, Goto
      <4>2. req' = [req EXCEPT ![r] = t(req[r].outcome)] \/ req' = [req EXCEPT ![r] = Idle]
        BY <2>4, <3>2, <4>1
      <4> HIDE DEF t
      <4> QED BY <2>4, <3>2, <4>2
    <3> QED BY <3>1, <3>2
  <2>6. ~req[r].entry
    BY <2>1 DEF Serving, ContractStatements, AfterInsert
  <2> HIDE DEF t
  <2> QED BY <2>1, <2>2, <2>5, <2>6, MovingOn, GivingUp DEF Rows, End
<1>5. CASE commitAnalysis(r)
  <2> DEFINE to == req[r].outcome.decision
  <2>1. /\ d \in Proposals /\ req[r].outcome \in Outcomes(d)
        /\ status[d] \in ProposalStatus
    BY <1>5, ServedProposal
       DEF commitAnalysis, Serving, RequestInv, RequestTypeOK, LifecycleTypeOK
  <2>2. /\ req' = [req EXCEPT ![r] = Idle]
        /\ UNCHANGED <<contracts, customer, delinquent>>
        /\ analysis' = [analysis EXCEPT ![d] = req[r].outcome] \/ UNCHANGED analysis
        /\ \/ to \in Transitions[status[d]] /\ writeStatus(d, status[d], to)
           \/ UNCHANGED <<status, events>>
    BY <1>5 DEF commitAnalysis, End
  <2>3. /\ status' \in [Proposals -> ProposalStatus]
        /\ events' \in [Proposals -> Seq(ProposalStatus \X ProposalStatus)]
    <3>1. CASE to \in Transitions[status[d]] /\ writeStatus(d, status[d], to)
      <4>1. to \in ProposalStatus
        BY <2>1, <3>1, TransitionFacts
      <4> HIDE DEF to, d
      <4> QED BY <2>1, <3>1, <4>1, WriteStatusTyped
    <3>2. CASE UNCHANGED <<status, events>>
      BY <3>2 DEF RequestInv, RequestTypeOK, LifecycleTypeOK
    <3> QED BY <2>2, <3>1, <3>2
  <2>4. /\ analysis' \in [Proposals -> Analysis]
        /\ \A e \in Proposals : analysis'[e] \in Outcomes(e) \cup {NoAnalysis}
    BY <2>1, <2>2, OutcomeFacts DEF RequestInv, RequestTypeOK, LifecycleTypeOK
  <2>5. customer' \in [Customers -> DOMAIN CustomerTransitions]
    BY <2>2 DEF RequestInv, RequestTypeOK
  <2> QED BY <2>2, <2>3, <2>4, <2>5, CommittedStep
<1> QED BY <1>1, <1>2, <1>3, <1>4, <1>5

\* The statements of createFromProposal.
LEMMA ContractStepKeepsInv ==
    ASSUME RequestInv, NEW r \in Requests, NEW p \in Proposals,
           \/ createFromProposal(r, p)
           \/ insertContract(r) \/ contractStatusRead(r) \/ contractStatusWrite(r)
           \/ commitContract(r)
    PROVE  RequestInv'
<1> DEFINE d == req[r].p
<1>1. CASE createFromProposal(r, p)
  <2> DEFINE t == [Idle EXCEPT !.op = "contract", !.p = p,
                               !.amount = analysis[p].approvedAmount,
                               !.at = "insertContract"]
  <2>1. analysis[p].approvedAmount \in Nat /\ "NONE" \in ProposalStatus /\ NoAnalysis \in Analysis
    BY OutcomeFacts, TransitionFacts DEF RequestInv, RequestTypeOK, LifecycleTypeOK, Analysis
  <2>2. Serving(t) /\ ~t.entry
    BY <2>1, RequestAssumption
       DEF Serving, Idle, Request, Statements, ContractStatements, AfterInsert
  <2>3. req' = [req EXCEPT ![r] = t] /\ UNCHANGED Rows
    BY <1>1 DEF createFromProposal, Goto
  <2> HIDE DEF t
  <2> QED BY <2>2, <2>3, MovingOn DEF Rows
<1>2. CASE insertContract(r)
  <2> DEFINE t == [req[r] EXCEPT !.entry = TRUE, !.at = "changeStatusRead"]
  <2>1. Serving(req[r]) /\ d \in Proposals /\ req[r].at = "insertContract" /\ UNCHANGED Rows
    BY <1>2, ServedProposal DEF insertContract, Goto
  <2>2. Serving(t) /\ t.p = d
    BY <2>1 DEF Serving, Request, Statements, ContractStatements, AfterInsert
  <2>3. \/ req' = [req EXCEPT ![r] = t] /\ contracts[d] = <<>>
        \/ req' = [req EXCEPT ![r] = Idle]
    BY <1>2 DEF insertContract, Goto
  <2>4. \A q \in Requests \ {r} : req[q].entry => req[q].p # d
    BY <1>2 DEF insertContract, EntryFree
  <2> HIDE DEF t
  <2> QED BY <2>1, <2>2, <2>3, <2>4, MovingOn, GivingUp DEF Rows, End
<1>3. CASE contractStatusRead(r)
  <2> DEFINE t == [req[r] EXCEPT !.at = "commitContract", !.to = "NONE"]
  <2> DEFINE u == [req[r] EXCEPT !.at = "lockRow", !.from = status[d], !.to = "CONTRACTED"]
  <2>1. Serving(req[r]) /\ d \in Proposals /\ req[r].at = "changeStatusRead" /\ UNCHANGED Rows
    BY <1>3, ServedProposal DEF contractStatusRead, Goto
  <2>2. /\ status[d] \in ProposalStatus
        /\ {"NONE", "CONTRACTED"} \subseteq ProposalStatus
    BY <2>1, TransitionFacts DEF RequestInv, RequestTypeOK, LifecycleTypeOK
  <2>3. /\ Serving(t) /\ t.entry = req[r].entry /\ t.p = d
        /\ Serving(u) /\ u.entry = req[r].entry /\ u.p = d
    BY <2>1, <2>2 DEF Serving, Request, Statements, ContractStatements, AfterInsert
  <2>4. \/ req' = [req EXCEPT ![r] = t] \/ req' = [req EXCEPT ![r] = u]
        \/ req' = [req EXCEPT ![r] = Idle]
    BY <1>3 DEF contractStatusRead, Goto
  <2>5. req[r].entry => /\ contracts[d] = <<>>
                        /\ \A q \in Requests \ {r} : req[q].entry => req[q].p # d
    BY DEF RequestInv, EntriesOK
  <2> HIDE DEF t, u
  <2> QED BY <2>1, <2>3, <2>4, <2>5, MovingOn, GivingUp DEF Rows, End
<1>4. CASE contractStatusWrite(r)
  <2> DEFINE t == [req[r] EXCEPT !.row = TRUE, !.at = "commitContract"]
  <2>1. Serving(req[r]) /\ d \in Proposals /\ req[r].at = "lockRow" /\ UNCHANGED Rows
    BY <1>4, ServedProposal DEF contractStatusWrite, Goto
  <2>2. Serving(t) /\ t.entry = req[r].entry /\ t.p = d
    BY <2>1 DEF Serving, Request, Statements, ContractStatements, AfterInsert
  <2>3. req' = [req EXCEPT ![r] = t]
    BY <1>4 DEF contractStatusWrite, Goto
  <2>4. req[r].entry => /\ contracts[d] = <<>>
                        /\ \A q \in Requests \ {r} : req[q].entry => req[q].p # d
    BY DEF RequestInv, EntriesOK
  <2> HIDE DEF t
  <2> QED BY <2>1, <2>2, <2>3, <2>4, MovingOn DEF Rows
<1>5. CASE commitContract(r)
  <2> DEFINE c == CustomerOf[d]
  <2>1. /\ d \in Proposals /\ req[r].amount \in Nat /\ req[r].entry
        /\ req[r].from \in ProposalStatus /\ req[r].to \in ProposalStatus
    BY <1>5, ServedProposal DEF commitContract, Serving, Request, AfterInsert, ContractStatements
  <2>2. contracts[d] = <<>> /\ contracts \in [Proposals -> Seq(Nat)]
    BY <2>1 DEF RequestInv, EntriesOK, RequestTypeOK, LifecycleTypeOK
  <2>3. contracts' = [contracts EXCEPT ![d] = <<req[r].amount>>]
    BY <1>5, <2>2 DEF commitContract
  <2>4. /\ <<req[r].amount>> \in Seq(Nat) /\ Len(<<req[r].amount>>) = 1
    BY <2>1
  <2>5. contracts' \in [Proposals -> Seq(Nat)] /\ OneContractPerProposal'
    <3> DEFINE one == <<req[r].amount>>
    <3>1. one \in Seq(Nat) /\ Len(one) = 1 /\ contracts' = [contracts EXCEPT ![d] = one]
      BY <2>3, <2>4
    <3> HIDE DEF one
    <3>2. \A e \in Proposals : contracts'[e] = IF e = d THEN one ELSE contracts[e]
      BY <2>2, <3>1
    <3>3. \A e \in Proposals : Len(contracts[e]) <= 1
      BY DEF RequestInv, OneContractPerProposal
    <3>4. ASSUME NEW e \in Proposals
          PROVE  Len(contracts'[e]) <= 1
      <4>1. CASE e = d
        <5>1. contracts'[e] = one
          BY <3>2, <4>1
        <5>2. Len(contracts'[e]) = 1
          BY <3>1, <5>1, Zenon
        <5> QED BY <5>2
      <4>2. CASE e # d
        BY <3>2, <3>3, <4>2
      <4> QED BY <4>1, <4>2
    <3> QED BY <2>2, <3>1, <3>4 DEF OneContractPerProposal
  <2>6. /\ status' \in [Proposals -> ProposalStatus]
        /\ events' \in [Proposals -> Seq(ProposalStatus \X ProposalStatus)]
    <3>1. CASE writeStatus(d, req[r].from, req[r].to)
      BY <2>1, <3>1, WriteStatusTyped
    <3>2. CASE UNCHANGED <<status, events>>
      BY <3>2 DEF RequestInv, RequestTypeOK, LifecycleTypeOK
    <3> QED BY <1>5, <3>1, <3>2 DEF commitContract
  <2>7. customer' \in [Customers -> DOMAIN CustomerTransitions]
    <3>1. "ACTIVE" \in DOMAIN CustomerTransitions
      BY DEF CustomerTransitions
    <3> QED BY <1>5, <2>1, <3>1, RequestAssumption
            DEF commitContract, RequestInv, RequestTypeOK
  <2>8. req' = [req EXCEPT ![r] = Idle] /\ UNCHANGED <<analysis, delinquent>>
    BY <1>5 DEF commitContract, End
  <2>9. \A q \in Requests : req'[q] = IF q = r THEN Idle ELSE req[q]
    BY <2>8 DEF RequestInv, RequestTypeOK
  <2>10. \A q \in Requests : Serving(req'[q])
    BY <2>9, IdleServing DEF RequestInv
  <2>11. (\A q \in Requests : Serving(req[q]))'
    BY <2>10
  <2>12. RequestTypeOK'
    BY <2>5, <2>6, <2>7, <2>8, <2>10 DEF RequestInv, RequestTypeOK, LifecycleTypeOK, Serving
  <2>13. EntriesOK'
    <3>1. ~Idle.entry
      BY DEF Idle
    <3>2. ASSUME NEW q \in Requests, req'[q].entry
          PROVE  q # r /\ req'[q] = req[q] /\ req[q].p # d
      BY <2>1, <2>9, <3>1, <3>2 DEF RequestInv, EntriesOK
    <3> QED BY <2>3, <3>2 DEF RequestInv, EntriesOK
  <2> QED BY <2>5, <2>11, <2>12, <2>13 DEF RequestInv
<1> QED BY <1>1, <1>2, <1>3, <1>4, <1>5

\* No step of a request, an operator or the collections cycle breaks the invariant.
LEMMA RequestStep ==
    ASSUME RequestInv, [RequestNext]_requestVars
    PROVE  RequestInv'
<1>1. CASE UNCHANGED requestVars
  BY <1>1 DEF requestVars, RequestInv, RequestTypeOK, LifecycleTypeOK, EntriesOK,
              OneContractPerProposal, Serving
<1>2. ASSUME NEW p \in Proposals, create(p)
      PROVE  RequestInv'
  <2>1. CASE Requests = {}
    <3>1. UNCHANGED <<analysis, contracts, customer, delinquent, req>>
      BY <1>2 DEF create
    <3>2. /\ status' \in [Proposals -> ProposalStatus]
          /\ events' \in [Proposals -> Seq(ProposalStatus \X ProposalStatus)]
      BY <1>2, TransitionFacts, WriteStatusTyped DEF create
    <3> QED BY <3>1, <3>2 DEF RequestInv, RequestTypeOK, LifecycleTypeOK, EntriesOK,
                              OneContractPerProposal, Serving
  <2>2. CASE Requests # {}
    BY <1>2, <2>2, ProposalStepKeepsInv
  <2> QED BY <2>1, <2>2
<1>3. ASSUME NEW r \in Requests, NEW p \in Proposals,
             \/ submit(r, p) \/ cancel(r, p) \/ analyze(r, p)
             \/ \E outcome \in {o \in Outcomes(p) : o.decision # "MANUAL_REVIEW"} :
                   decide(r, p, outcome)
             \/ createFromProposal(r, p)
      PROVE  RequestInv'
  BY <1>3, ProposalStepKeepsInv, AnalysisStepKeepsInv, ContractStepKeepsInv
<1>4. ASSUME NEW r \in Requests, Statement(r)
      PROVE  RequestInv'
  <2>1. req[r].at # "idle"
    BY <1>4 DEF Statement, changeStatusWrite, lockProposal, evaluate, commitAnalysis,
                insertContract, contractStatusRead, contractStatusWrite, commitContract
  <2>2. req[r].p \in Proposals
    BY <2>1, ServedProposal
  <2> QED BY <1>4, <2>2, ProposalStepKeepsInv, AnalysisStepKeepsInv, ContractStepKeepsInv
          DEF Statement
<1>5. ASSUME NEW r \in Requests, Abort(r)
      PROVE  RequestInv'
  BY <1>5, GivingUp DEF Abort
<1>6. ASSUME NEW c \in Customers,
             \/ arrearsChange(c)
             \/ \E s \in DOMAIN CustomerTransitions : updateCustomerStatus(c, s)
      PROVE  RequestInv'
  <2>1. UNCHANGED <<status, analysis, contracts, events, req>>
    BY <1>6 DEF arrearsChange, updateCustomerStatus
  <2>2. /\ customer' \in [Customers -> DOMAIN CustomerTransitions]
        /\ delinquent' \subseteq Customers
    BY <1>6 DEF arrearsChange, updateCustomerStatus, RequestInv, RequestTypeOK
  <2> QED BY <2>1, <2>2 DEF RequestInv, RequestTypeOK, LifecycleTypeOK, EntriesOK,
                            OneContractPerProposal, Serving
<1> QED BY <1>1, <1>2, <1>3, <1>4, <1>5, <1>6 DEF RequestNext

\* Types of the requests' tables and of what a request holds.
THEOREM RequestsTyped == RequestSpec => []RequestTypeOK
<1>1. RequestInv => RequestTypeOK
  BY DEF RequestInv
<1> QED BY <1>1, RequestsInitially, RequestStep, PTL DEF RequestSpec

\* A proposal becomes at most one contract, whatever requests overlap and in whatever
\* order they run: createFromProposal reads before its transaction, so that the unique
\* index of Contract.proposalId alone decides.
THEOREM ContractedOnce == RequestSpec => []OneContractPerProposal
<1>1. RequestInv => OneContractPerProposal
  BY DEF RequestInv
<1> QED BY <1>1, RequestsInitially, RequestStep, PTL DEF RequestSpec

-----------------------------------------------------------------------------
(* The requests: submit and cancel alone on their proposal *)

Alone == {"submit", "cancel"} \subseteq Serial

\* What a request has read still stands.
Current(t) ==
    t.at # "idle" =>
        /\ status[t.p] # "NONE"
        /\ t.at = "changeStatus" =>
              /\ t.from = status[t.p]
              /\ t.to \in Transitions[t.from] \cap {"UNDER_REVIEW", "CANCELLED"}
        /\ t.at \in {"evaluate", "commitAnalysis"} => t.row /\ status[t.p] = "UNDER_REVIEW"
        /\ t.op = "contract" => t.amount = analysis[t.p].approvedAmount
        /\ t.at = "insertContract" => status[t.p] \in {"APPROVED", "CONTRACTED"}
        /\ t.entry => status[t.p] = "APPROVED"
        /\ t.at \in {"lockRow", "commitContract"} => t.from = "APPROVED" /\ t.to = "CONTRACTED"

\* Two requests that may be at the same proposal at the same time.
Apart(t, u) ==
    t.p = u.p /\ t.p # None =>
        /\ {t.op, u.op} \cap Serial = {}
        /\ ~(t.row /\ u.row)

SerialInv ==
    /\ RequestInv
    /\ LifecycleInv
    /\ \A r \in Requests : Current(req[r])
    /\ \A r, q \in Requests : r # q => Apart(req[r], req[q])

\* A fresh database and idle tasks.
LEMMA SerialInitially == RequestInit => SerialInv
<1> SUFFICES ASSUME RequestInit PROVE SerialInv
    OBVIOUS
<1>1. RequestInv /\ LifecycleInv
  BY RequestsInitially, LifecycleInitially DEF RequestInit
<1>2. \A r \in Requests : req[r] = Idle
  BY DEF RequestInit
<1>3. Idle.at = "idle" /\ Idle.p = None
  BY DEF Idle
<1> QED BY <1>1, <1>2, <1>3 DEF SerialInv, Current, Apart

\* A request that moves on disturbs nobody.
LEMMA MovingOnAlone ==
    ASSUME SerialInv, RequestInv', NEW r \in Requests, NEW t,
           req' = [req EXCEPT ![r] = t], UNCHANGED lifecycleVars,
           Current(t), \A q \in Requests \ {r} : Apart(t, req[q])
    PROVE  SerialInv' /\ [LifecycleNext]_lifecycleVars
<1>1. \A q \in Requests : req'[q] = IF q = r THEN t ELSE req[q]
  BY DEF SerialInv, RequestInv, RequestTypeOK
<1>2. LifecycleInv'
  BY LifecycleStep DEF SerialInv
<1>3. \A q \in Requests : Current(req'[q])
  BY <1>1 DEF SerialInv
<1>4. (\A q \in Requests : Current(req[q]))'
  BY <1>3 DEF Current, lifecycleVars
<1>5. \A q, o \in Requests : q # o => Apart(req'[q], req'[o])
  <2> SUFFICES ASSUME NEW q \in Requests, NEW o \in Requests, q # o
               PROVE  Apart(req'[q], req'[o])
      OBVIOUS
  <2>1. CASE q = r
    BY <1>1, <2>1
  <2>2. CASE o = r
    <3>1. Apart(t, req[q])
      BY <2>2
    <3>2. Apart(req[q], t)
      BY <3>1 DEF Apart
    <3> QED BY <1>1, <2>2, <3>2
  <2>3. CASE q # r /\ o # r
    BY <1>1, <2>3 DEF SerialInv
  <2> QED BY <2>1, <2>2, <2>3
<1>6. (\A q, o \in Requests : q # o => Apart(req[q], req[o]))'
  BY <1>5 DEF Apart
<1> QED BY <1>2, <1>4, <1>6 DEF SerialInv

\* A request that ends without a write disturbs nobody.
LEMMA GivingUpAlone ==
    ASSUME SerialInv, RequestInv', NEW r \in Requests,
           req' = [req EXCEPT ![r] = Idle], UNCHANGED lifecycleVars
    PROVE  SerialInv' /\ [LifecycleNext]_lifecycleVars
<1>1. Idle.at = "idle" /\ Idle.p = None
  BY DEF Idle
<1>2. Current(Idle) /\ \A q \in Requests : Apart(Idle, req[q])
  BY <1>1 DEF Current, Apart
<1> QED BY <1>2, MovingOnAlone

\* A request that commits a step of the lifecycle, and leaves standing what the others
\* on its proposal have read.
LEMMA CommittingAlone ==
    ASSUME SerialInv, RequestInv', NEW r \in Requests, NEW d \in Proposals,
           req' = [req EXCEPT ![r] = Idle], LifecycleNext,
           \A p \in Proposals \ {d} : status'[p] = status[p] /\ analysis'[p] = analysis[p],
           \A q \in Requests \ {r} : req[q].p = d => Current(req[q])'
    PROVE  SerialInv'
<1>1. \A q \in Requests : req'[q] = IF q = r THEN Idle ELSE req[q]
  BY DEF SerialInv, RequestInv, RequestTypeOK
<1>2. LifecycleInv'
  BY LifecycleStep DEF SerialInv
<1>3. Idle.at = "idle" /\ Idle.p = None
  BY DEF Idle
<1>4. ASSUME NEW q \in Requests
      PROVE  Current(req[q])'
  <2>1. CASE q = r
    BY <1>1, <1>3, <2>1 DEF Current
  <2>2. CASE q # r /\ req[q].p = d
    BY <2>2
  <2>3. CASE q # r /\ req[q].p # d
    <3>1. req'[q] = req[q] /\ Current(req[q])
      BY <1>1, <2>3 DEF SerialInv
    <3>2. CASE req[q].at = "idle"
      BY <3>1, <3>2 DEF Current
    <3>3. CASE req[q].at # "idle"
      <4>1. req[q].p \in Proposals \ {d}
        BY <2>3, <3>3, ServedProposal DEF SerialInv
      <4>2. status'[req[q].p] = status[req[q].p] /\ analysis'[req[q].p] = analysis[req[q].p]
        BY <4>1
      <4> QED BY <3>1, <4>2 DEF Current
    <3> QED BY <3>2, <3>3
  <2> QED BY <2>1, <2>2, <2>3
<1>5. (\A q, o \in Requests : q # o => Apart(req[q], req[o]))'
  BY <1>1, <1>3 DEF SerialInv, Apart
<1> QED BY <1>2, <1>4, <1>5 DEF SerialInv

\* A request starts on a proposal only where it overlaps with nobody it must not.
LEMMA StartingApart ==
    ASSUME NEW r \in Requests, NEW op, NEW p \in Proposals, Start(r, op, p),
           NEW t, t.op = op, t.p = p, ~t.row
    PROVE  \A q \in Requests \ {r} : Apart(t, req[q])
BY DEF Start, Apart

\* submit and cancel implement a change of status of the lifecycle.
LEMMA ProposalStepImplements ==
    ASSUME Alone, SerialInv, RequestInv', NEW r \in Requests, NEW p \in Proposals,
           submit(r, p) \/ cancel(r, p) \/ changeStatusWrite(r)
    PROVE  SerialInv' /\ [LifecycleNext]_lifecycleVars
<1>1. ASSUME NEW op \in {"submit", "cancel"}, NEW to \in {"UNDER_REVIEW", "CANCELLED"},
             changeStatusRead(r, op, p, to)
      PROVE  SerialInv' /\ [LifecycleNext]_lifecycleVars
  <2> DEFINE t == [Idle EXCEPT !.op = op, !.p = p, !.from = status[p], !.to = to,
                               !.at = "changeStatus"]
  <2>1. /\ t.op = op /\ t.p = p /\ t.from = status[p] /\ t.to = to
        /\ t.at = "changeStatus" /\ ~t.row /\ ~t.entry
    BY DEF Idle
  <2>2. /\ req' = [req EXCEPT ![r] = t] /\ UNCHANGED lifecycleVars /\ Start(r, op, p)
        /\ status[p] # "NONE" /\ to \in Transitions[status[p]]
    BY <1>1 DEF changeStatusRead, Goto, Rows, lifecycleVars
  <2> HIDE DEF t
  <2>3. Current(t)
    BY <2>1, <2>2 DEF Current
  <2>4. \A q \in Requests \ {r} : Apart(t, req[q])
    BY <2>1, <2>2, StartingApart
  <2> QED BY <2>2, <2>3, <2>4, MovingOnAlone
<1>2. CASE changeStatusWrite(r)
  <2> DEFINE d == req[r].p
  <2> DEFINE to == req[r].to
  <2>1. /\ d \in Proposals /\ Serving(req[r]) /\ Current(req[r])
        /\ req[r].at = "changeStatus"
    BY <1>2, ServedProposal DEF changeStatusWrite, SerialInv
  <2>2. req[r].op \in Serial
    BY <2>1 DEF Serving, Alone
  <2>3. to \in Transitions[status[d]] /\ to \in {"UNDER_REVIEW", "CANCELLED"}
    BY <2>1 DEF Current
  <2>4. /\ req' = [req EXCEPT ![r] = Idle] /\ UNCHANGED <<analysis, contracts>>
        /\ status' = [status EXCEPT ![d] = to]
    BY <1>2 DEF changeStatusWrite, writeStatus, End
  <2>5. changeStatus(d, to) /\ to \in ProposalStatus
    BY <2>3, <2>4, TransitionFacts DEF changeStatus, move
  <2>6. LifecycleNext
    BY <2>1, <2>5 DEF LifecycleNext
  <2>7. \A q \in Requests \ {r} : req[q].p # d
    BY <2>1, <2>2, RequestAssumption DEF SerialInv, Apart
  <2>8. \A e \in Proposals \ {d} : status'[e] = status[e] /\ analysis'[e] = analysis[e]
    BY <2>4 DEF SerialInv, LifecycleInv, LifecycleTypeOK
  <2>9. \A q \in Requests \ {r} : req[q].p = d => Current(req[q])'
    BY <2>7
  <2> HIDE DEF to
  <2> QED BY <2>1, <2>4, <2>6, <2>8, <2>9, CommittingAlone
<1> QED BY <1>1, <1>2 DEF submit, cancel

\* analyze and decide implement the recording of an analysis.
LEMMA AnalysisStepImplements ==
    ASSUME Alone, SerialInv, RequestInv', NEW r \in Requests, NEW p \in Proposals,
           \/ analyze(r, p) \/ \E outcome \in Outcomes(p) : decide(r, p, outcome)
           \/ lockProposal(r) \/ evaluate(r) \/ commitAnalysis(r)
    PROVE  SerialInv' /\ [LifecycleNext]_lifecycleVars
<1> DEFINE d == req[r].p
<1>1. CASE analyze(r, p)
  <2> DEFINE t == [Idle EXCEPT !.op = "analyze", !.p = p, !.at = "lockProposal"]
  <2>1. t.op = "analyze" /\ t.p = p /\ t.at = "lockProposal" /\ ~t.row /\ ~t.entry
    BY DEF Idle
  <2>2. /\ req' = [req EXCEPT ![r] = t] /\ UNCHANGED lifecycleVars
        /\ Start(r, "analyze", p) /\ status[p] = "UNDER_REVIEW"
    BY <1>1 DEF analyze, Goto, Rows, lifecycleVars
  <2> HIDE DEF t
  <2>3. Current(t)
    BY <2>1, <2>2 DEF Current
  <2>4. \A q \in Requests \ {r} : Apart(t, req[q])
    BY <2>1, <2>2, StartingApart
  <2> QED BY <2>2, <2>3, <2>4, MovingOnAlone
<1>2. ASSUME NEW o \in Outcomes(p), decide(r, p, o)
      PROVE  SerialInv' /\ [LifecycleNext]_lifecycleVars
  <2> DEFINE t == [Idle EXCEPT !.op = "decide", !.p = p, !.outcome = o,
                               !.at = "lockProposal"]
  <2>1. t.op = "decide" /\ t.p = p /\ t.at = "lockProposal" /\ ~t.row /\ ~t.entry
    BY DEF Idle
  <2>2. /\ req' = [req EXCEPT ![r] = t] /\ UNCHANGED lifecycleVars
        /\ Start(r, "decide", p) /\ status[p] = "UNDER_REVIEW"
    BY <1>2 DEF decide, Goto, Rows, lifecycleVars
  <2> HIDE DEF t
  <2>3. Current(t)
    BY <2>1, <2>2 DEF Current
  <2>4. \A q \in Requests \ {r} : Apart(t, req[q])
    BY <2>1, <2>2, StartingApart
  <2> QED BY <2>2, <2>3, <2>4, MovingOnAlone
<1>3. CASE lockProposal(r)
  <2> DEFINE t == [req[r] EXCEPT !.row = TRUE, !.at = "evaluate"]
  <2>1. /\ Serving(req[r]) /\ Current(req[r]) /\ req[r].at = "lockProposal"
        /\ UNCHANGED lifecycleVars
    BY <1>3, ServedProposal DEF lockProposal, Goto, Rows, lifecycleVars, SerialInv
  <2>2. /\ t.op = req[r].op /\ t.p = d /\ t.at = "evaluate" /\ t.row
        /\ t.entry = req[r].entry
    BY <2>1 DEF Serving, Request
  <2>3. ~req[r].entry /\ req[r].op # "contract" /\ req[r].op \in {"analyze", "decide"}
    BY <2>1 DEF Serving, ContractStatements, AfterInsert
  <2>4. \/ req' = [req EXCEPT ![r] = t] /\ status[d] = "UNDER_REVIEW"
        \/ req' = [req EXCEPT ![r] = Idle]
    BY <1>3 DEF lockProposal, Goto
  <2>5. \A q \in Requests \ {r} : req[q].row => req[q].p # d
    BY <1>3 DEF lockProposal, RowFree
  <2> HIDE DEF t
  <2>6. status[d] = "UNDER_REVIEW" => Current(t)
    BY <2>2, <2>3 DEF Current
  <2>7. \A q \in Requests \ {r} : Apart(t, req[q])
    BY <2>2, <2>5 DEF SerialInv, Apart
  <2> QED BY <2>1, <2>4, <2>6, <2>7, MovingOnAlone, GivingUpAlone
<1>4. CASE evaluate(r)
  <2>1. /\ Serving(req[r]) /\ Current(req[r]) /\ req[r].at = "evaluate"
        /\ UNCHANGED lifecycleVars
    BY <1>4, ServedProposal DEF evaluate, Goto, Rows, lifecycleVars, SerialInv
  <2>2. PICK t : /\ req' = [req EXCEPT ![r] = t]
                 /\ \/ t = Idle
                    \/ t = [req[r] EXCEPT !.at = "commitAnalysis"]
                    \/ \E o : t = [req[r] EXCEPT !.outcome = o, !.at = "commitAnalysis"]
    BY <1>4 DEF evaluate, Goto
  <2>3. ~req[r].entry /\ req[r].op # "contract"
    BY <2>1 DEF Serving, ContractStatements, AfterInsert
  <2>4. ASSUME t # Idle
        PROVE  /\ t.op = req[r].op /\ t.p = d /\ t.at = "commitAnalysis"
               /\ t.row = req[r].row /\ t.entry = req[r].entry
    BY <2>1, <2>2, <2>4 DEF Serving, Request
  <2>5. t # Idle => Current(t)
    BY <2>1, <2>3, <2>4 DEF Current
  <2>6. t # Idle => \A q \in Requests \ {r} : Apart(t, req[q])
    BY <2>4 DEF SerialInv, Apart
  <2> QED BY <2>1, <2>2, <2>5, <2>6, MovingOnAlone, GivingUpAlone
<1>5. CASE commitAnalysis(r)
  <2> DEFINE outcome == req[r].outcome
  <2>1. /\ d \in Proposals /\ Serving(req[r]) /\ Current(req[r])
        /\ req[r].at = "commitAnalysis"
    BY <1>5, ServedProposal DEF commitAnalysis, SerialInv
  <2>2. /\ outcome \in Outcomes(d) /\ req[r].row /\ status[d] = "UNDER_REVIEW"
        /\ outcome.decision \in {"APPROVED", "REJECTED", "MANUAL_REVIEW"}
    BY <2>1, OutcomeFacts DEF Serving, Current, Decisions
  <2>3. outcome.decision # "MANUAL_REVIEW" => outcome.decision \in Transitions["UNDER_REVIEW"]
    BY <2>2, TransitionFacts
  <2>4. /\ req' = [req EXCEPT ![r] = Idle] /\ UNCHANGED contracts
        /\ analysis' = [analysis EXCEPT ![d] = outcome]
        /\ IF outcome.decision = "MANUAL_REVIEW" THEN UNCHANGED status
           ELSE status' = [status EXCEPT ![d] = outcome.decision]
    BY <1>5, <2>2, <2>3 DEF commitAnalysis, writeStatus, End
  <2>5. recordAnalysis(d, outcome)
    BY <2>2, <2>3, <2>4 DEF recordAnalysis, move
  <2>6. LifecycleNext
    BY <2>1, <2>2, <2>5 DEF LifecycleNext
  <2>7. \A e \in Proposals \ {d} : status'[e] = status[e] /\ analysis'[e] = analysis[e]
    BY <2>4 DEF SerialInv, LifecycleInv, LifecycleTypeOK
  <2>8. status'[d] # "NONE"
    BY <2>2, <2>4 DEF SerialInv, LifecycleInv, LifecycleTypeOK
  <2>9. ASSUME NEW q \in Requests \ {r}, req[q].p = d
        PROVE  Current(req[q])'
    <3>1. req'[q] = req[q]
      BY <2>4
    <3>2. Serving(req[q]) /\ Current(req[q]) /\ Apart(req[q], req[r]) /\ req[q].at # "idle"
      BY <2>9, <2>1, RequestAssumption DEF SerialInv, RequestInv, Serving
    <3>3. ~req[q].row /\ req[q].op \notin Serial
      BY <2>1, <2>2, <2>9, <3>2, RequestAssumption DEF Apart
    <3>4. /\ req[q].at \notin {"changeStatus", "evaluate", "commitAnalysis"}
          /\ ~req[q].entry /\ req[q].at # "insertContract"
      BY <2>2, <2>9, <3>2, <3>3 DEF Current, Serving, Alone
    <3>5. req[q].at \notin ContractStatements
      BY <3>2, <3>4 DEF Serving, ContractStatements, AfterInsert
    <3>6. req[q].op # "contract" /\ req[q].at \notin {"lockRow", "commitContract"}
      BY <3>2, <3>5 DEF Serving, ContractStatements
    <3> QED BY <2>8, <2>9, <3>1, <3>4, <3>6 DEF Current
  <2> QED BY <2>1, <2>4, <2>6, <2>7, <2>9, CommittingAlone
<1> QED BY <1>1, <1>2, <1>3, <1>4, <1>5

\* createFromProposal implements the contracting of a proposal.
LEMMA ContractStepImplements ==
    ASSUME Alone, SerialInv, RequestInv', NEW r \in Requests, NEW p \in Proposals,
           \/ createFromProposal(r, p)
           \/ insertContract(r) \/ contractStatusRead(r) \/ contractStatusWrite(r)
           \/ commitContract(r)
    PROVE  SerialInv' /\ [LifecycleNext]_lifecycleVars
<1> DEFINE d == req[r].p
<1>1. CASE createFromProposal(r, p)
  <2> DEFINE t == [Idle EXCEPT !.op = "contract", !.p = p,
                               !.amount = analysis[p].approvedAmount,
                               !.at = "insertContract"]
  <2>1. /\ t.op = "contract" /\ t.p = p /\ t.amount = analysis[p].approvedAmount
        /\ t.at = "insertContract" /\ ~t.row /\ ~t.entry
    BY DEF Idle
  <2>2. /\ req' = [req EXCEPT ![r] = t] /\ UNCHANGED lifecycleVars
        /\ Start(r, "contract", p) /\ status[p] = "APPROVED"
    BY <1>1 DEF createFromProposal, Goto, Rows, lifecycleVars
  <2> HIDE DEF t
  <2>3. Current(t)
    BY <2>1, <2>2 DEF Current
  <2>4. \A q \in Requests \ {r} : Apart(t, req[q])
    BY <2>1, <2>2, StartingApart
  <2> QED BY <2>2, <2>3, <2>4, MovingOnAlone
<1>2. CASE insertContract(r)
  <2> DEFINE t == [req[r] EXCEPT !.entry = TRUE, !.at = "changeStatusRead"]
  <2>1. /\ d \in Proposals /\ Serving(req[r]) /\ Current(req[r])
        /\ req[r].at = "insertContract" /\ UNCHANGED lifecycleVars
    BY <1>2, ServedProposal DEF insertContract, Goto, Rows, lifecycleVars, SerialInv
  <2>2. /\ t.op = req[r].op /\ t.p = d /\ t.at = "changeStatusRead" /\ t.entry
        /\ t.row = req[r].row /\ t.amount = req[r].amount
    BY <2>1 DEF Serving, Request
  <2>3. \/ req' = [req EXCEPT ![r] = t] /\ contracts[d] = <<>>
        \/ req' = [req EXCEPT ![r] = Idle]
    BY <1>2 DEF insertContract, Goto
  <2> HIDE DEF t
  <2>4. contracts[d] = <<>> => status[d] = "APPROVED"
    BY <2>1 DEF Current, SerialInv, LifecycleInv, ContractFollowsApproval
  <2>5. contracts[d] = <<>> => Current(t)
    BY <2>1, <2>2, <2>4 DEF Current
  <2>6. \A q \in Requests \ {r} : Apart(t, req[q])
    BY <2>2 DEF SerialInv, Apart
  <2> QED BY <2>1, <2>3, <2>5, <2>6, MovingOnAlone, GivingUpAlone
<1>3. CASE contractStatusRead(r)
  <2> DEFINE t == [req[r] EXCEPT !.at = "lockRow", !.from = status[d], !.to = "CONTRACTED"]
  <2>1. /\ d \in Proposals /\ Serving(req[r]) /\ Current(req[r])
        /\ req[r].at = "changeStatusRead" /\ UNCHANGED lifecycleVars
    BY <1>3, ServedProposal DEF contractStatusRead, Goto, Rows, lifecycleVars, SerialInv
  <2>2. /\ t.op = req[r].op /\ t.p = d /\ t.at = "lockRow" /\ t.entry = req[r].entry
        /\ t.row = req[r].row /\ t.amount = req[r].amount
        /\ t.from = status[d] /\ t.to = "CONTRACTED"
    BY <2>1 DEF Serving, Request
  <2>3. status[d] = "APPROVED"
    BY <2>1 DEF Serving, Current, ContractStatements, AfterInsert
  <2>4. req' = [req EXCEPT ![r] = t]
    BY <1>3, <2>3, TransitionFacts DEF contractStatusRead, Goto
  <2> HIDE DEF t
  <2>5. Current(t)
    BY <2>1, <2>2, <2>3 DEF Current
  <2>6. \A q \in Requests \ {r} : Apart(t, req[q])
    BY <2>2 DEF SerialInv, Apart
  <2> QED BY <2>1, <2>4, <2>5, <2>6, MovingOnAlone
<1>4. CASE contractStatusWrite(r)
  <2> DEFINE t == [req[r] EXCEPT !.row = TRUE, !.at = "commitContract"]
  <2>1. /\ d \in Proposals /\ Serving(req[r]) /\ Current(req[r])
        /\ req[r].at = "lockRow" /\ UNCHANGED lifecycleVars
    BY <1>4, ServedProposal DEF contractStatusWrite, Goto, Rows, lifecycleVars, SerialInv
  <2>2. /\ t.op = req[r].op /\ t.p = d /\ t.at = "commitContract" /\ t.entry = req[r].entry
        /\ t.row /\ t.amount = req[r].amount
        /\ t.from = req[r].from /\ t.to = req[r].to
    BY <2>1 DEF Serving, Request
  <2>3. req' = [req EXCEPT ![r] = t]
    BY <1>4 DEF contractStatusWrite, Goto
  <2>4. \A q \in Requests \ {r} : req[q].row => req[q].p # d
    BY <1>4 DEF contractStatusWrite, RowFree
  <2> HIDE DEF t
  <2>5. Current(t)
    BY <2>1, <2>2 DEF Current
  <2>6. \A q \in Requests \ {r} : Apart(t, req[q])
    BY <2>2, <2>4 DEF SerialInv, Apart
  <2> QED BY <2>1, <2>3, <2>5, <2>6, MovingOnAlone
<1>5. CASE commitContract(r)
  <2>1. /\ d \in Proposals /\ Serving(req[r]) /\ Current(req[r])
        /\ req[r].at = "commitContract"
    BY <1>5, ServedProposal DEF commitContract, SerialInv
  <2>2. req[r].entry /\ req[r].op = "contract"
    BY <2>1 DEF Serving, ContractStatements, AfterInsert
  <2>3. /\ status[d] = "APPROVED" /\ req[r].amount = analysis[d].approvedAmount
        /\ req[r].from = "APPROVED" /\ req[r].to = "CONTRACTED"
    BY <2>1, <2>2 DEF Current
  <2>4. /\ req' = [req EXCEPT ![r] = Idle] /\ UNCHANGED analysis
        /\ contracts' = [contracts EXCEPT ![d] = Append(@, analysis[d].approvedAmount)]
        /\ status' = [status EXCEPT ![d] = "CONTRACTED"]
    BY <1>5, <2>3 DEF commitContract, writeStatus, End
  <2>5. contractProposal(d)
    BY <2>3, <2>4, TransitionFacts DEF contractProposal, move
  <2>6. LifecycleNext
    BY <2>1, <2>5 DEF LifecycleNext
  <2>7. /\ \A e \in Proposals \ {d} : status'[e] = status[e] /\ analysis'[e] = analysis[e]
        /\ status'[d] = "CONTRACTED" /\ analysis'[d] = analysis[d]
    BY <2>1, <2>4 DEF SerialInv, LifecycleInv, LifecycleTypeOK
  <2>8. ASSUME NEW q \in Requests \ {r}, req[q].p = d
        PROVE  Current(req[q])'
    <3>1. req'[q] = req[q]
      BY <2>4
    <3>2. Serving(req[q]) /\ Current(req[q]) /\ Apart(req[q], req[r]) /\ req[q].at # "idle"
      BY <2>1, <2>8, RequestAssumption DEF SerialInv, RequestInv, Serving
    <3>3. ~req[q].entry
      BY <2>2, <2>8 DEF SerialInv, RequestInv, EntriesOK
    <3>4. req[q].op \notin Serial
      BY <2>1, <2>8, <3>2, RequestAssumption DEF Apart
    <3>5. /\ req[q].at \notin {"changeStatus", "evaluate", "commitAnalysis"}
          /\ req[q].at \notin {"lockRow", "commitContract"}
      BY <2>3, <2>8, <3>2, <3>3, <3>4
         DEF Current, Serving, Alone, ContractStatements, AfterInsert
    <3> QED BY <2>7, <2>8, <3>1, <3>2, <3>3, <3>5 DEF Current
  <2>9. \A e \in Proposals \ {d} : status'[e] = status[e] /\ analysis'[e] = analysis[e]
    BY <2>7
  <2>10. req' = [req EXCEPT ![r] = Idle]
    BY <2>4
  <2> QED BY <2>1, <2>6, <2>8, <2>9, <2>10, CommittingAlone
<1> QED BY <1>1, <1>2, <1>3, <1>4, <1>5

\* Every step of the requests is a step of the lifecycle, or none.
LEMMA SerialStep ==
    ASSUME Alone, SerialInv, [RequestNext]_requestVars
    PROVE  SerialInv' /\ [LifecycleNext]_lifecycleVars
<1>1. RequestInv'
  BY RequestStep DEF SerialInv
<1>2. CASE UNCHANGED <<status, analysis, contracts, req>>
  <2>1. UNCHANGED lifecycleVars
    BY <1>2 DEF lifecycleVars
  <2>2. LifecycleInv'
    BY <2>1, LifecycleStep DEF SerialInv
  <2> QED BY <1>1, <1>2, <2>1, <2>2 DEF SerialInv, Current, Apart
<1>3. ASSUME NEW p \in Proposals, create(p)
      PROVE  SerialInv' /\ [LifecycleNext]_lifecycleVars
  <2>1. /\ status[p] = "NONE" /\ status' = [status EXCEPT ![p] = "DRAFT"]
        /\ UNCHANGED <<analysis, contracts, req>>
    BY <1>3 DEF create, writeStatus
  <2>2. changeStatus(p, "DRAFT") /\ "DRAFT" \in ProposalStatus
    BY <2>1, TransitionFacts DEF changeStatus, move
  <2>3. LifecycleNext
    BY <2>2 DEF LifecycleNext
  <2>4. LifecycleInv'
    BY <2>3, LifecycleStep DEF SerialInv
  <2>5. ASSUME NEW q \in Requests
        PROVE  Current(req[q])'
    <3>1. Current(req[q]) /\ (req[q].at # "idle" => req[q].p \in Proposals \ {p})
      BY <2>1, ServedProposal DEF SerialInv, Current
    <3>2. req[q].at # "idle" => status'[req[q].p] = status[req[q].p]
      BY <2>1, <3>1 DEF SerialInv, LifecycleInv, LifecycleTypeOK
    <3> QED BY <2>1, <3>1, <3>2 DEF Current
  <2>6. (\A q, o \in Requests : q # o => Apart(req[q], req[o]))'
    BY <2>1 DEF SerialInv, Apart
  <2> QED BY <1>1, <2>3, <2>4, <2>5, <2>6 DEF SerialInv
<1>4. ASSUME NEW r \in Requests, NEW p \in Proposals,
             \/ submit(r, p) \/ cancel(r, p) \/ analyze(r, p)
             \/ \E outcome \in {o \in Outcomes(p) : o.decision # "MANUAL_REVIEW"} :
                   decide(r, p, outcome)
             \/ createFromProposal(r, p)
      PROVE  SerialInv' /\ [LifecycleNext]_lifecycleVars
  BY <1>1, <1>4, ProposalStepImplements, AnalysisStepImplements, ContractStepImplements
<1>5. ASSUME NEW r \in Requests, Statement(r)
      PROVE  SerialInv' /\ [LifecycleNext]_lifecycleVars
  <2>1. req[r].at # "idle"
    BY <1>5 DEF Statement, changeStatusWrite, lockProposal, evaluate, commitAnalysis,
                insertContract, contractStatusRead, contractStatusWrite, commitContract
  <2>2. req[r].p \in Proposals
    BY <2>1, ServedProposal DEF SerialInv
  <2> QED BY <1>1, <1>5, <2>2, ProposalStepImplements, AnalysisStepImplements,
             ContractStepImplements DEF Statement
<1>6. ASSUME NEW r \in Requests, Abort(r)
      PROVE  SerialInv' /\ [LifecycleNext]_lifecycleVars
  BY <1>1, <1>6, GivingUpAlone DEF Abort, End, Rows, lifecycleVars
<1>7. ASSUME NEW c \in Customers,
             \/ arrearsChange(c)
             \/ \E s \in DOMAIN CustomerTransitions : updateCustomerStatus(c, s)
      PROVE  SerialInv' /\ [LifecycleNext]_lifecycleVars
  BY <1>2, <1>7 DEF arrearsChange, updateCustomerStatus
<1>8. CASE UNCHANGED requestVars
  BY <1>2, <1>8 DEF requestVars
<1> QED BY <1>3, <1>4, <1>5, <1>6, <1>7, <1>8 DEF RequestNext

\* Analyses, decisions and contracts may overlap as they like, with any number of
\* requests: as long as submit and cancel are alone on their proposal, the API shows
\* nothing but the lifecycle, one transition at a time.
THEOREM RequestsImplementLifecycle ==
    ASSUME {"submit", "cancel"} \subseteq Serial
    PROVE  RequestSpec => ImplementsLifecycle
<1>1. Alone
  BY DEF Alone
<1>2. SerialInv /\ [RequestNext]_requestVars => SerialInv' /\ [LifecycleNext]_lifecycleVars
  BY <1>1, SerialStep
<1>3. RequestInit => LifecycleInit
  BY DEF RequestInit
<1> QED BY <1>2, <1>3, SerialInitially, PTL DEF RequestSpec, ImplementsLifecycle, LifecycleSpec

\* With it, the money lent is what the standing approval says.
THEOREM ContractsFollowApproval ==
    ASSUME {"submit", "cancel"} \subseteq Serial
    PROVE  RequestSpec => []ContractFollowsApproval
<1>1. Alone
  BY DEF Alone
<1>2. SerialInv /\ [RequestNext]_requestVars => SerialInv'
  BY <1>1, SerialStep
<1>3. SerialInv => ContractFollowsApproval
  BY DEF SerialInv, LifecycleInv
<1> QED BY <1>2, <1>3, SerialInitially, PTL DEF RequestSpec

-----------------------------------------------------------------------------
(* The history that the ProposalEvent rows tell *)

\* An event from the status that the proposal has continues its history.
LEMMA Telling ==
    ASSUME RequestInv, EventsTellTheHistory, NEW p \in Proposals,
           NEW to \in ProposalStatus, writeStatus(p, status[p], to)
    PROVE  EventsTellTheHistory'
<1> DEFINE e == <<status[p], to>>
           n == Len(events[p])
<1>1. /\ events[p] \in Seq(ProposalStatus \X ProposalStatus)
      /\ status[p] \in ProposalStatus
  BY DEF RequestInv, RequestTypeOK, LifecycleTypeOK
<1>2. e \in ProposalStatus \X ProposalStatus
  BY <1>1
<1>3. /\ status'[p] = to /\ events'[p] = Append(events[p], e)
      /\ \A d \in Proposals \ {p} : status'[d] = status[d] /\ events'[d] = events[d]
  BY DEF writeStatus, RequestInv, RequestTypeOK, LifecycleTypeOK
<1>4. /\ n \in Nat /\ Len(events'[p]) = n + 1 /\ events'[p][n + 1] = e
      /\ \A k \in 1..n : events'[p][k] = events[p][k]
  BY <1>1, <1>2, <1>3
<1>5. events'[p][Len(events'[p])][2] = status'[p]
  BY <1>3, <1>4
<1>6. ASSUME NEW k \in 2..Len(events'[p])
      PROVE  events'[p][k][1] = events'[p][k-1][2]
  <2>1. k \in 2..n + 1 /\ k - 1 \in 1..n
    BY <1>4
  <2>2. CASE k \in 2..n
    <3>1. events'[p][k] = events[p][k] /\ events'[p][k-1] = events[p][k-1]
      BY <1>4, <2>1, <2>2
    <3> QED BY <2>2, <3>1 DEF EventsTellTheHistory
  <2>3. CASE k = n + 1
    <3>1. events[p] # <<>> /\ k - 1 = n
      BY <1>1, <1>4, <2>1, <2>3
    <3>2. events[p][n][2] = status[p]
      BY <3>1 DEF EventsTellTheHistory
    <3> QED BY <1>4, <2>1, <2>3, <3>1, <3>2
  <2> QED BY <1>4, <2>1, <2>2, <2>3
<1>7. ASSUME NEW d \in Proposals
      PROVE  /\ events'[d] # <<>> => events'[d][Len(events'[d])][2] = status'[d]
             /\ \A k \in 2..Len(events'[d]) : events'[d][k][1] = events'[d][k-1][2]
  <2>1. CASE d = p
    BY <1>5, <1>6, <2>1
  <2>2. CASE d # p
    BY <1>3, <2>2 DEF EventsTellTheHistory
  <2> QED BY <2>1, <2>2
<1> QED BY <1>7 DEF EventsTellTheHistory

\* What a statement writes as the status it comes from is the status it finds.
LEMMA StatementTells ==
    ASSUME SerialInv, NEW r \in Requests, Statement(r)
    PROVE  \/ UNCHANGED <<status, events>>
           \/ \E p \in Proposals, to \in ProposalStatus : writeStatus(p, status[p], to)
<1> DEFINE d == req[r].p
<1>1. req[r].at # "idle"
  BY DEF Statement, changeStatusWrite, lockProposal, evaluate, commitAnalysis,
         insertContract, contractStatusRead, contractStatusWrite, commitContract
<1>2. d \in Proposals /\ Serving(req[r]) /\ Current(req[r])
  BY <1>1, ServedProposal DEF SerialInv
<1>3. req[r].to \in ProposalStatus /\ status[d] \in ProposalStatus
  BY <1>2 DEF Serving, Request, SerialInv, LifecycleInv, LifecycleTypeOK
<1>4. CASE changeStatusWrite(r)
  <2>1. req[r].from = status[d] /\ writeStatus(d, req[r].from, req[r].to)
    BY <1>2, <1>4 DEF changeStatusWrite, Current
  <2> QED BY <1>2, <1>3, <2>1
<1>5. CASE commitAnalysis(r)
  <2> DEFINE to == req[r].outcome.decision
  <2>1. \/ UNCHANGED <<status, events>>
        \/ to \in Transitions[status[d]] /\ writeStatus(d, status[d], to)
    BY <1>5 DEF commitAnalysis
  <2>2. to \in Transitions[status[d]] => to \in ProposalStatus
    BY <1>3, TransitionFacts
  <2> QED BY <1>2, <2>1, <2>2
<1>6. CASE commitContract(r)
  <2>1. req[r].entry
    BY <1>2, <1>6 DEF commitContract, Serving, AfterInsert, ContractStatements
  <2>2. req[r].from = status[d] /\ req[r].to # "NONE"
    BY <1>1, <1>2, <1>6, <2>1 DEF commitContract, Current
  <2>3. writeStatus(d, req[r].from, req[r].to)
    BY <1>6, <2>2 DEF commitContract
  <2> QED BY <1>2, <1>3, <2>2, <2>3
<1>7. CASE \/ lockProposal(r) \/ evaluate(r) \/ insertContract(r)
           \/ contractStatusRead(r) \/ contractStatusWrite(r)
  BY <1>7 DEF lockProposal, evaluate, insertContract, contractStatusRead,
              contractStatusWrite, Goto, Rows
<1> QED BY <1>4, <1>5, <1>6, <1>7 DEF Statement

\* Every step of the requests tells its event from the status it finds, or none.
LEMMA HistoryStep ==
    ASSUME SerialInv, EventsTellTheHistory, [RequestNext]_requestVars
    PROVE  EventsTellTheHistory'
<1>1. CASE UNCHANGED <<status, events>>
  BY <1>1 DEF EventsTellTheHistory
<1>2. ASSUME NEW p \in Proposals, create(p)
      PROVE  EventsTellTheHistory'
  <2>1. writeStatus(p, status[p], "DRAFT") /\ "DRAFT" \in ProposalStatus
    BY <1>2, TransitionFacts DEF create
  <2> QED BY <2>1, Telling DEF SerialInv
<1>3. ASSUME NEW r \in Requests, Statement(r)
      PROVE  EventsTellTheHistory'
  BY <1>1, <1>3, StatementTells, Telling DEF SerialInv
<1>4. ASSUME NEW r \in Requests, NEW p \in Proposals,
             \/ submit(r, p) \/ cancel(r, p) \/ analyze(r, p)
             \/ \E outcome \in {o \in Outcomes(p) : o.decision # "MANUAL_REVIEW"} :
                   decide(r, p, outcome)
             \/ createFromProposal(r, p)
      PROVE  EventsTellTheHistory'
  <2>1. UNCHANGED Rows
    BY <1>4 DEF submit, cancel, changeStatusRead, analyze, decide, createFromProposal, Goto
  <2> QED BY <1>1, <2>1 DEF Rows
<1>5. ASSUME NEW r \in Requests, Abort(r)
      PROVE  EventsTellTheHistory'
  BY <1>1, <1>5 DEF Abort, Rows
<1>6. ASSUME NEW c \in Customers,
             \/ arrearsChange(c)
             \/ \E s \in DOMAIN CustomerTransitions : updateCustomerStatus(c, s)
      PROVE  EventsTellTheHistory'
  BY <1>1, <1>6 DEF arrearsChange, updateCustomerStatus
<1>7. CASE UNCHANGED requestVars
  BY <1>1, <1>7 DEF requestVars
<1> QED BY <1>2, <1>3, <1>4, <1>5, <1>6, <1>7 DEF RequestNext

\* The timeline of a proposal is the path it took: as long as submit and cancel, whose
\* event repeats a status read earlier, are alone on their proposal, no event starts
\* anywhere but where the one before it ended.
THEOREM EventsTellHistory ==
    ASSUME {"submit", "cancel"} \subseteq Serial
    PROVE  RequestSpec => []EventsTellTheHistory
<1>1. Alone
  BY DEF Alone
<1>2. SerialInv /\ EventsTellTheHistory /\ [RequestNext]_requestVars
      => (SerialInv /\ EventsTellTheHistory)'
  BY <1>1, SerialStep, HistoryStep
<1>3. RequestInit => EventsTellTheHistory
  <2> SUFFICES ASSUME RequestInit PROVE EventsTellTheHistory
      OBVIOUS
  <2>1. \A p \in Proposals : events[p] = <<>>
    BY DEF RequestInit
  <2>2. Len(<<>>) = 0 /\ 2..0 = {}
    OBVIOUS
  <2> QED BY <2>1, <2>2 DEF EventsTellTheHistory
<1> QED BY <1>2, <1>3, SerialInitially, PTL DEF RequestSpec

=============================================================================
