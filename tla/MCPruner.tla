------------------------------ MODULE MCPruner ------------------------------
(* Pruner on turns of 5 to 54 tokens: short ones, of which one differs     *)
(* from another only in where a separator would be, and one in where a     *)
(* length would; a pair (question, answer) whose exact sum is the 55 that  *)
(* doubles round up to 56; and an essay that hardly leaves room for        *)
(* another.                                                                *)
EXTENDS Pruner, TLC

Says == [ok |-> <<<<"o">>>>, yes |-> <<<<"o">>, <<"o">>>>, yesyes |-> <<<<"o", "|", "o">>>>,
         mimic |-> <<<<"o", "2", ":", "o">>>>,
         question |-> <<<<"q">>>>, answer |-> <<<<"a">>>>, essay |-> <<<<"e">>>>]
RoleAndTexts == [t \in DOMAIN Says |-> <<<<"u">>>> \o Says[t]]
AllTurns == DOMAIN Says
Length == [u |-> 4, o |-> 2, q |-> 24, a |-> 144, e |-> 180]
              @@ ("|" :> 1 @@ "2" :> 1 @@ ":" :> 1)

Systems == {NoSystem, 4}

=============================================================================
