---------------------------- MODULE MCAuthScope ----------------------------
(* Instances of AuthScope: the guests and configurations of MCServer.       *)
EXTENDS AuthScope, MCServer

MCCid == [g \in Guests |-> IF g = "front" THEN 3 ELSE 4]

Agent(m) == [server_port |-> 900, client_port |-> 901, request |-> m]

\* Both guests are configured for the VM "front", which is the one's under
\* one policy and the other's under the other.  The last is refused by
\* from_file.
MCAgents == {Agent(FrontWeb), [Agent(FrontWeb) EXCEPT !.server_port = 1000]}

\* The guest's address and one that only strangers have.
TwoPeers == {[cid |-> 3, port |-> 901], [cid |-> 4, port |-> 901]}

OwnAgent == {Agent(FrontWeb)}

\* A policy with a validity beyond the last date: the handler of a stranger's
\* request for it panics.
Endless == {[Original EXCEPT !.vms.back.entities.db.validity_days = 365 * 7976]}

\* Two policies that give the same entities different grants.
MCPolicies == {Original, Moved}

=============================================================================
