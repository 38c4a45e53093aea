----------------------------- MODULE MCContents -----------------------------
(* The two parts that work on contents: Pruner on the way in, Translation  *)
(* on the way out.  They share no state and call one another nowhere, so a *)
(* behaviour is all of one or all of the other: `part' says which, and the *)
(* part that is not looked at stays as it began.                           *)
EXTENDS MCPruner, MCTranslation

VARIABLE part

contents == <<vars, translationVars, part>>

ContentsInit ==
    /\ Init /\ TranslationInit
    /\ part \in {"request", "answer"}
    /\ part = "request" => vendor = "agent"
    /\ part = "answer" => system = NoSystem /\ budget = 15

ContentsNext ==
    /\ \/ part = "request" /\ Next /\ UNCHANGED translationVars
       \/ part = "answer" /\ TranslationNext /\ UNCHANGED vars
    /\ UNCHANGED part

ContentsSpec == ContentsInit /\ [][ContentsNext]_contents

=============================================================================
