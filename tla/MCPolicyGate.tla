---------------------------- MODULE MCPolicyGate ----------------------------
(* Policies that exercise the gate: deny policies with and without a         *)
(* condition, consent after them, two capabilities that require each other.  *)
EXTENDS PolicyGate

MCCaps == {"write", "read", "confirm"}
MCStageRequires == {"write", "confirm"}
Deny == [kind |-> "deny", conditional |-> TRUE, requires |-> <<>>]
Inert == [kind |-> "deny", conditional |-> FALSE, requires |-> <<>>]
Before(caps) == [kind |-> "before", conditional |-> FALSE, requires |-> caps]

MCPolicies ==
  [write   |-> <<Before(<<"read", "confirm">>), Deny, Inert, Deny>>,
   confirm |-> <<Deny, Before(<<"read">>)>>,
   read    |-> <<Before(<<"confirm">>)>>]
=============================================================================
