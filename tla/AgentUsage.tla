------------------------------ MODULE AgentUsage ------------------------------
(***************************************************************************)
(* From the usage of an agent to its gauges and its gate: the usage of agy *)
(* comes of AgyCommand, that of codex and claude of their HTTP APIs.       *)
(***************************************************************************)
EXTENDS AgyCommand, UsageGate

CONSTANTS
  HttpUsages,   \* usages of codex and claude
  Models,       \* for each agent, its models
  Policies,     \* policies of registry agents
  LastResets,   \* last known resets, Unknown among them
  Now           \* the time of a decision

ASSUME TimesAssumption == Now \in Nat /\ LastResets \subseteq Nat \cup {Unknown}

ASSUME PoliciesAssumption ==
  Policies \subseteq [fiveHourMax : Nat, weekly : [pacing : {"none", "off", "daily"}, max : Nat],
                      group : STRING]

Percentage == Nat \cup {Unknown}

\* The payloads that pass the checks of their shape.
CodexUsage ==
  LET Part == [used : Nat, limitReached : BOOLEAN]
  IN [agent : {"codex"}, allowed : BOOLEAN, limitReached : BOOLEAN, primary : Part,
      secondary : Part, reset : Nat \cup {Unknown}]

ClaudeUsage ==
  LET Limit == [active : BOOLEAN, used : Nat, model : STRING]
  IN [agent : {"claude"}, five_hour : Percentage, seven_day : Percentage,
      seven_day_opus : Percentage, seven_day_sonnet : Percentage, limits : SUBSET Limit,
      reset : Nat \cup {Unknown}]

ASSUME HttpUsagesAssumption == HttpUsages \subseteq CodexUsage \cup ClaudeUsage

UsageInit == AgyInit /\ usage \in HttpUsages \cup {Nothing}

UsageNext == usage.agent = "agy" /\ AgyNext

UsageSpec == UsageInit /\ [][UsageNext]_agyVars

-----------------------------------------------------------------------------
(* Properties.                                                             *)

FromAgy  == usage.agent = "agy" /\ verdict = "ok"
FromHttp == usage.agent # "agy"

Open(u, model, policy, known) == Available(u, model, policy, known, Now)

\* The best match owns a family, and among equals the first (lines 434-452).
OwnerIsBest ==
  FromAgy =>
    \A f \in Families :
      LET groups == usage.groups
          listing == {i \in DOMAIN groups : f \in groups[i].families}
          o == Owner(groups, f)
      IN /\ IF listing = {} THEN o = 0 ELSE o \in listing
         /\ \A i \in listing :
              /\ Score(groups[i], f) <= Score(groups[o], f)
              /\ i < o => Score(groups[i], f) < Score(groups[o], f)

Shown(window, scope) ==
  {s.left : s \in {t \in Samples(usage.groups) : t.window = window /\ t.scope = scope}}

\* What the gauges show of a family is what its gate goes by, once for each window;
\* so an open gate has headroom on the dashboard, too (usage-proxy.ts:316-357).
GateAndGaugesAgree ==
  FromAgy =>
    /\ \A f \in Families, window \in {"five_hour", "seven_day"} :
         LET bucket == FamilyWindow(usage.groups, f, window)
         IN Shown(window, f) = (IF bucket = NoBucket THEN {} ELSE {bucket.left})
    /\ \A model \in Models["agy"], policy \in Policies, known \in LastResets :
         policy.group = "none" /\ Open(usage, model, policy, known) =>
           \E f \in Families :
             /\ AgyFamily(model) = {f}
             /\ \E left \in Shown("seven_day", f) : left > 0
             /\ f = "argon" \/ \E left \in Shown("five_hour", f) :
                                 left > 0 /\ left > Full - policy.fiveHourMax

\* What only the buckets of a group say of a family: that it is listed at all, or
\* that the group matches it better than one that has it among its models.
TiedByBuckets(group, family) ==
  /\ family \notin group.name
  /\ \/ ResolveFamilies(group.name, group.models, <<>>) = {}
     \/ \E b \in ToSet(group.buckets) : family \in b.id

\* A reply with a malformed group opens no gate that the whole group closes: its
\* families close instead (agy-usage.ts:240-241).  The one exception is a family that
\* passes to another group because only the lost buckets put this one before it.
MalformedNeverOpens ==
  FromAgy =>
    LET raw == written[FirstResult(written)].groups
        With(groups) == [agent |-> "agy", groups |-> NormalizeGroups(groups)]
        Malformed(i) == [raw EXCEPT ![i].form = "malformed"]
        OwnerIn(groups, f) == Owner(NormalizeGroups(groups), f)
        PassesOn(i, f) == /\ TiedByBuckets(raw[i], f)
                          /\ OwnerIn(Malformed(i), f) \notin {0, OwnerIn(raw, f)}
    IN \A i \in DOMAIN raw, model \in Models["agy"], policy \in Policies, known \in LastResets :
         raw[i].form = "whole" /\ Open(With(Malformed(i)), model, policy, known) =>
           \/ Open(With(raw), model, policy, known)
           \/ policy.group = "none" /\ \E f \in AgyFamily(model) : PassesOn(i, f)

\* The usages in which one window has spent a part more.
SpentMore ==
  CASE usage.agent = "codex"  -> {[usage EXCEPT !.primary.used = @ + 1],
                                  [usage EXCEPT !.secondary.used = @ + 1]}
    [] usage.agent = "claude" -> {[usage EXCEPT ![w] = @ + 1] :
                                    w \in {v \in {"five_hour", "seven_day", "seven_day_opus",
                                                  "seven_day_sonnet"} : usage[v] # Unknown}}
    [] usage.agent = "agy"    -> UNION {{[usage EXCEPT !.groups[i].buckets[b].left = @ - 1] :
                                           b \in {c \in DOMAIN usage.groups[i].buckets :
                                                    usage.groups[i].buckets[c].left > 0}} :
                                        i \in DOMAIN usage.groups}

\* The policies that keep a part more in reserve.
Stricter(policy) ==
  {[policy EXCEPT !.fiveHourMax = @ - 1], [policy EXCEPT !.weekly.max = @ - 1],
   [policy EXCEPT !.weekly.pacing = IF @ = "none" THEN "off" ELSE "daily"]}

\* The gate is monotone: it is opened neither by spending more, up to a limit and
\* past it, nor by a stricter policy.
GateIsMonotone ==
  FromAgy \/ FromHttp =>
    \A model \in Models[usage.agent], policy \in Policies, known \in LastResets :
      /\ \A more \in SpentMore :
           Open(more, model, policy, known) => Open(usage, model, policy, known)
      /\ \A strict \in Stricter(policy) :
           Open(usage, model, strict, known) => Open(usage, model, policy, known)

\* The days of the week that ends with `next` that have begun; its first has, and
\* there are no more than seven.
DaysBegun(next) == Cardinality({d \in 0..6 : d = 0 \/ next - Week + d * Day <= Now})

\* The first reset after now that a known one foretells, if it is not too far.
Foretold(known) ==
  {t \in {known, known + Week} : known # Unknown /\ Now < t /\ t <= Now + Week}

\* Each day that has begun adds a seventh of the budget, and the gate closes when
\* it is used up, not after; without any idea of the week it stays closed.
PaceIsTheBudget ==
  usage.agent = "codex" =>
    \A policy \in Policies, known \in LastResets :
      policy.weekly.pacing = "daily" =>
        LET resets == IF usage.reset # Unknown THEN {usage.reset} ELSE Foretold(known)
        IN OverPace(usage.secondary.used, usage.reset, policy.weekly, known, Now)
             <=> \A next \in resets :
                   usage.secondary.used * 7 >= policy.weekly.max * DaysBegun(next)

=============================================================================
