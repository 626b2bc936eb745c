------------------------- MODULE MCProposalRequests -------------------------
(* Small instances of ProposalRequests: proposals of one customer. *)
EXTENDS ProposalRequests

Twos == [p \in Proposals |-> 2]
OneCustomer == [p \in Proposals |-> CHOOSE c \in Customers : TRUE]
=============================================================================
