------------------------- MODULE ProposalLifecycle -------------------------
(***************************************************************************)
(* What the API promises about credit proposals: the transitions of        *)
(* proposals.service.ts, one at a time, each together with the analysis or *)
(* the contract that goes with it.  ProposalRequests is how the handlers   *)
(* get there, several at once.                                             *)
(***************************************************************************)
EXTENDS Naturals, Sequences

CONSTANTS
    Proposals,  \* rows of the CreditProposal table that may come to exist
    Requested   \* the amount each of them requests

ASSUME RequestedAssumption == Requested \in [Proposals -> Nat \ {0}]

VARIABLES
    status,     \* CreditProposal.status
    analysis,   \* the CreditAnalysis row of each proposal
    contracts   \* the amounts of the Contract rows made from each proposal

lifecycleVars == <<status, analysis, contracts>>

Transitions ==
    [NONE         |-> {"DRAFT"},
     DRAFT        |-> {"UNDER_REVIEW", "CANCELLED"},
     UNDER_REVIEW |-> {"APPROVED", "REJECTED", "CANCELLED"},
     APPROVED     |-> {"CONTRACTED", "CANCELLED"},
     REJECTED     |-> {},
     CANCELLED    |-> {},
     CONTRACTED   |-> {}]

ProposalStatus == DOMAIN Transitions
Decisions == {"APPROVED", "REJECTED", "MANUAL_REVIEW"}
NoAnalysis == [decision |-> "NONE", approvedAmount |-> 0]
Analysis == [decision : Decisions \cup {NoAnalysis.decision}, approvedAmount : Nat]
Outcomes(p) ==
    [decision : {"APPROVED"}, approvedAmount : 1..Requested[p]]
        \cup [decision : {"REJECTED", "MANUAL_REVIEW"}, approvedAmount : {0}]

LifecycleInit ==
    /\ status = [p \in Proposals |-> "NONE"]
    /\ analysis = [p \in Proposals |-> NoAnalysis]
    /\ contracts = [p \in Proposals |-> <<>>]

\* A transition of the table that touches nothing else.
move(p, toStatus) ==
    /\ toStatus \in Transitions[status[p]]
    /\ status' = [status EXCEPT ![p] = toStatus]

\* create, submit and cancel.
changeStatus(p, toStatus) ==
    /\ toStatus \in {"DRAFT", "UNDER_REVIEW", "CANCELLED"}
    /\ move(p, toStatus)
    /\ UNCHANGED <<analysis, contracts>>

\* analyze and decide: the analysis row and the status it leads to.
recordAnalysis(p, outcome) ==
    /\ status[p] = "UNDER_REVIEW"
    /\ analysis' = [analysis EXCEPT ![p] = outcome]
    /\ IF outcome.decision = "MANUAL_REVIEW" THEN UNCHANGED status
       ELSE move(p, outcome.decision)
    /\ UNCHANGED contracts

\* createFromProposal: one contract, of the approved amount.
contractProposal(p) ==
    /\ status[p] = "APPROVED"
    /\ move(p, "CONTRACTED")
    /\ contracts' = [contracts EXCEPT ![p] = Append(@, analysis[p].approvedAmount)]
    /\ UNCHANGED analysis

LifecycleNext ==
    \E p \in Proposals :
        \/ \E toStatus \in ProposalStatus : changeStatus(p, toStatus)
        \/ \E outcome \in Outcomes(p) : recordAnalysis(p, outcome)
        \/ contractProposal(p)

LifecycleSpec == LifecycleInit /\ [][LifecycleNext]_lifecycleVars

-----------------------------------------------------------------------------
(* Correctness *)

\* Types; an analysis is one that the rules or an analyst can make of its proposal.
LifecycleTypeOK ==
    /\ status \in [Proposals -> ProposalStatus]
    /\ analysis \in [Proposals -> Analysis]
    /\ \A p \in Proposals : analysis[p] \in Outcomes(p) \cup {NoAnalysis}
    /\ contracts \in [Proposals -> Seq(Nat)]

\* A proposal becomes at most one contract, however many requests ask for it.
OneContractPerProposal ==
    \A p \in Proposals : Len(contracts[p]) <= 1

\* Money is lent on an approval that stands: a proposal is CONTRACTED exactly when
\* its contract exists, of the amount its analysis approved; what is APPROVED or
\* REJECTED is so by its analysis.
ContractFollowsApproval ==
    \A p \in Proposals :
        /\ status[p] = "CONTRACTED" <=> contracts[p] # <<>>
        /\ contracts[p] # <<>> => contracts[p] = <<analysis[p].approvedAmount>>
        /\ status[p] \in {"APPROVED", "CONTRACTED"} => analysis[p].decision = "APPROVED"
        /\ status[p] = "REJECTED" => analysis[p].decision = "REJECTED"

\* Statuses follow the table of transitions ("Validated state-machine transition",
\* proposals.service.ts:263).
FollowsTransitions ==
    [][\A p \in Proposals :
          status'[p] # status[p] => status'[p] \in Transitions[status[p]]]_lifecycleVars
=============================================================================
