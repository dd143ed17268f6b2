--------------------------- MODULE MCAgentProcesses ---------------------------
(***************************************************************************)
(* AgentProcesses with what agy may report: groups whose names, models and *)
(* buckets point to one family, to two, to each other's or to none; some   *)
(* are malformed.                                                          *)
(***************************************************************************)
EXTENDS AgentProcesses

Bucket(window, id, left, reset) ==
  [window |-> window, id |-> id, name |-> {}, left |-> left, reset |-> reset]

Group(label, name, models, buckets) ==
  [form |-> "whole", label |-> label, name |-> name, models |-> models, buckets |-> buckets]

Gemini(left5, left7) ==
  Group("gemini models", {"gemini"}, {{"gemini"}},
        <<Bucket("seven_day", {"gemini"}, left7, Now + 5),
          Bucket("five_hour", {"gemini"}, left5, Unknown)>>)

Argon(left) ==
  Group("gemini 4 argon", {"gemini", "argon"}, {},
        <<Bucket("seven_day", {"gemini", "argon"}, left, Unknown)>>)

\* Lists the model of Argon next to its own.
Ultra == Group("gemini flash", {"gemini", "slug"}, {{"gemini"}, {"gemini", "argon"}},
               <<Bucket("five_hour", {}, 3, Now), Bucket("five_hour", {}, 1, Now),
                 Bucket("seven_day", {}, 4, Now + 1)>>)

ThirdPool(left) ==
  Group("claude and gpt models", {"claude", "gpt"}, {{"claude"}, {"gpt"}},
        <<Bucket("five_hour", {"third"}, left, Unknown), Bucket("7d", {"third"}, 4, Now + 9),
          Bucket("seven_day", {"third"}, 3, Now + 9)>>)

\* Only its buckets tell whose group it is.
Pool == Group("pool", {}, {}, <<Bucket("seven_day", {"third"}, 4, Now + 14),
                                Bucket("five_hour", {"third"}, 4, Unknown)>>)

GptPool == Group("premium", {}, {{"gpt"}}, <<Bucket("7d", {"gpt"}, 4, Now + 14)>>)

Unrecognized == Group("others", {}, {}, <<Bucket("seven_day", {}, 2, Unknown)>>)

Partner == Group("third party", {"third"}, {}, <<Bucket("five_hour", {}, 4, Unknown)>>)

As(form, group) == [group EXCEPT !.form = form]

Groups ==
  {Gemini(4, 3), Gemini(1, 4), Gemini(3, 0), Argon(3), Argon(0), Ultra, ThirdPool(3), ThirdPool(0),
   Pool, GptPool, Unrecognized, Partner, As("malformed", Gemini(4, 3)), As("malformed", Pool),
   As("nameless", Gemini(4, 3))}

SomeReplies ==
  {<<>>, <<Gemini(4, 3), ThirdPool(3), Argon(3)>>, <<Unrecognized, Unrecognized, Argon(3)>>}
    \cup {<<g>> : g \in Groups} \cup {<<g, h>> : g \in Groups, h \in Groups}

Noise     == [event |-> "noise", groups |-> <<>>]
NoData    == [event |-> "no_data", groups |-> <<>>]
Data(raw) == [event |-> "data", groups |-> raw]

SomeLines == << {Noise, NoData} \cup {Data(raw) : raw \in SomeReplies},
                {Noise, NoData, Data(<<Gemini(1, 4)>>)} >>

Texts == {{}, {"gemini"}, {"gemini", "argon"}, {"claude"}, {"gpt", "slug"}, {"claude", "gpt"}}

SomeModels == [agent \in {"agy", "codex", "claude"} |->
                 CASE agent = "agy"    -> Texts
                   [] agent = "codex"  -> {"none"}
                   [] agent = "claude" -> {"none", "opus", "sonnet", "haiku"}]

Policy(fiveHourMax, pacing, max, group) ==
  [fiveHourMax |-> fiveHourMax, weekly |-> [pacing |-> pacing, max |-> max], group |-> group]

SomePolicies ==
  {Policy(4, "none", 4, "none"), Policy(3, "off", 3, "none"), Policy(3, "daily", 4, "none"),
   Policy(2, "daily", 3, "pool"), Policy(3, "off", 4, "claude and gpt models")}

\* About the boundaries of the days and of the weeks before and after Now.
SomeResets == {Unknown} \cup {Now + d : d \in {-15, -14, -13, -1, 0, 1, 2, 5, 13, 14, 15}}

CodexUsages ==
  {[agent |-> "codex", allowed |-> flag # "denied", limitReached |-> flag = "account",
    primary |-> [used |-> five, limitReached |-> flag = "primary"],
    secondary |-> [used |-> seven, limitReached |-> FALSE], reset |-> reset] :
     flag \in {"none", "denied", "account", "primary"}, five \in {0, 2, 3, 4}, seven \in 0..4,
     reset \in SomeResets}

ClaudeLimits == {{}} \cup {{[active |-> a, used |-> 4, model |-> m]} :
                            a \in BOOLEAN, m \in {"any", "opus", "haiku"}}

ClaudeUsages ==
  {[agent |-> "claude", five_hour |-> five, seven_day |-> seven, seven_day_opus |-> opus,
    seven_day_sonnet |-> sonnet, limits |-> limits,
    reset |-> IF seven = Unknown THEN Unknown ELSE Now + 5] :
     five \in {Unknown, 2, 3, 4}, seven \in {Unknown, 1, 4}, opus \in {Unknown, 3, 4},
     sonnet \in {Unknown, 4}, limits \in ClaudeLimits}

SomeHttpUsages == CodexUsages \cup ClaudeUsages

=============================================================================
