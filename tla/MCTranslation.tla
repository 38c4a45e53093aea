---------------------------- MODULE MCTranslation ----------------------------
(* Translation for every kind of upstream, with the events that matter:    *)
(* texts and none, reasons to finish that map to each other and to others, *)
(* usage in one part, in two, and again.                                   *)
EXTENDS Translation

MCSseFrames ==
    {Plain(k) : k \in {"bare", "noise", "comment", "blank", "done"}}
        \cup {Frame("chunk", <<"a">>, "none", NoUsage),
              Frame("chunk", <<"b">>, "length", <<1, 2, 3>>),
              Frame("chunk", <<>>, "tool_calls", NoUsage),
              Frame("bare", <<>>, "none", <<1, 3, 4>>)}

MCSdkFrames ==
    {Frame("start", <<>>, "none", <<1, 2>>), Frame("text", <<"a">>, "none", NoUsage),
     Plain("text"), Plain("thinking"), Plain("ping"),
     Frame("delta", <<>>, "none", <<0, 1>>), Frame("delta", <<>>, "refusal", <<0, 2>>),
     Frame("delta", <<>>, "end_turn", <<4, 1>>), Frame("delta", <<>>, "end_turn", NoUsage)}

MCAgentFrames ==
    {Frame("text", <<"a">>, "none", NoUsage), Frame("text", <<"b">>, "none", NoUsage),
     Plain("text"), Plain("other"), Plain("step")}

=============================================================================
