------------------------------ MODULE MCGateway ------------------------------
(* Gateway on a small instance: two tenants of one model, a vendor provider *)
(* and an agent that is registered a second time while requests run.       *)
EXTENDS Gateway, TLC

CONSTANTS r1, r2, acme, globex, flash, gemini, agent

TwoRequests == {r1, r2}
TwoTenants == {acme, globex}
OneModel == {flash}
AllClients == TwoTenants \X OneModel
TwoProviders == {gemini, agent}
AgentOnly == {agent}

SlotsAndTenants == Permutations(TwoRequests) \cup Permutations(TwoTenants)

=============================================================================
