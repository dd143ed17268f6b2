------------------------------ MODULE UsageGate ------------------------------
(***************************************************************************)
(* agents/agent-usage-evaluator.ts: may a runner of a registry agent start *)
(* now?  A usage payload of the sidecar and the policy of the agent give a *)
(* verdict; the first reason to refuse is the one that is told.            *)
(*                                                                         *)
(* Percentages are parts of Full and times have Day units to the day.  A   *)
(* payload has passed the checks of its shape; one that fails them gets    *)
(* usage_unavailable.                                                      *)
(***************************************************************************)
EXTENDS AgyQuota

Day  == 2
Week == 7 * Day

-----------------------------------------------------------------------------
(* weeklyPace.                                                             *)

\* The reset that ends the current week: the one of the payload, or what the last
\* known one says of this week.
NextReset(reset, known, now) ==
  IF reset # Unknown THEN reset
  ELSE IF known = Unknown \/ now - known >= Week \/ known - now > Week THEN Unknown
  ELSE IF known > now THEN known ELSE known + Week

\* Fault: the day of the reset itself is counted as the last one of its week.
DayOfWeekRounded(next, now) == Min({6, Max({0, ((now - (next - Week) + Day - 1) \div Day)})})

\* The index of the day, within bounds although the reset may be long past or far
\* in the future.
DayOfWeek(next, now) == Min({6, Max({0, (now - (next - Week)) \div Day})})

\* The cumulative budget, in sevenths: a share for each day that has begun.
Allowed7(reset, weekly, known, now) ==
  IF weekly.pacing = "off" THEN 7 * weekly.max
  ELSE LET next == NextReset(reset, known, now)
       IN IF next = Unknown THEN 0 ELSE (DayOfWeek(next, now) + 1) * weekly.max

OverPace(used, reset, weekly, known, now) ==
  used = Unknown \/ 7 * used >= Allowed7(reset, weekly, known, now)

-----------------------------------------------------------------------------
(* evaluateAgentUsage, by adapter: the reasons to refuse, in their order.  *)

Reason(code, holds) == [code |-> code, holds |-> holds]

\* Fault: only the part that touches the reserve closes the gate.
ReserveTouched(used, policy) == policy.fiveHourMax < Full /\ used = policy.fiveHourMax

\* A reserve of zero is none: then the limit itself is left to the provider.
ReserveReached(used, policy) == policy.fiveHourMax < Full /\ used >= policy.fiveHourMax

CodexReasons(usage, policy) ==
  << Reason("provider_blocked",  ~usage.allowed),
     Reason("quota_limit",       usage.primary.limitReached),
     Reason("five_hour_reserve", ReserveReached(usage.primary.used, policy)),
     Reason("quota_limit",       usage.secondary.limitReached),
     Reason("quota_limit",       usage.limitReached) >>

\* The windows of a Claude model: its account's, and those of its own family.
ClaudeWindows(usage, model) ==
  <<usage.five_hour, usage.seven_day>>
    \o (IF model = "opus" THEN <<usage.seven_day_opus>> ELSE <<>>)
    \o (IF model = "sonnet" THEN <<usage.seven_day_sonnet>> ELSE <<>>)

\* A limit counts when it is active, reached, and not one of another model; without
\* a model every limit counts.  Whether two texts name one model is abstract here.
LimitApplies(limit, model) ==
  limit.active /\ limit.used >= Full /\ (limit.model = "any" \/ model \in {"none", limit.model})

ClaudeReasons(usage, policy, model) ==
  LET windows == ClaudeWindows(usage, model)
  IN << Reason("quota_limit",       usage.five_hour >= Full),
        Reason("five_hour_reserve", usage.five_hour # Unknown
                                      /\ ReserveReached(usage.five_hour, policy)),
        Reason("quota_limit",       \E i \in DOMAIN windows : windows[i] >= Full),
        Reason("missing_window",    \A i \in DOMAIN windows : windows[i] = Unknown),
        Reason("quota_limit",       \E l \in usage.limits : LimitApplies(l, model)) >>

\* windowOf, for a group that the policy names: also by its raw name.
GroupWindow(group, window) ==
  LET bucket == FirstOf(group.buckets, window)
  IN IF bucket = NoBucket /\ window = "seven_day" THEN FirstOf(group.buckets, "7d") ELSE bucket

BucketReasons(bucket, policy) ==
  << Reason("quota_limit",       bucket # NoBucket /\ bucket.left = 0),
     Reason("five_hour_reserve", /\ bucket # NoBucket /\ bucket.window = "five_hour"
                                 /\ ReserveReached(Full - bucket.left, policy)) >>

\* Only Argon has no five-hour window.
WindowReasons(fiveHour, sevenDay, weeklyOnly, policy) ==
  <<Reason("missing_window", sevenDay = NoBucket \/ (~weeklyOnly /\ fiveHour = NoBucket))>>
    \o BucketReasons(fiveHour, policy) \o BucketReasons(sevenDay, policy)

\* The group of the policy, or the family of the model and what its owner says.
AgyFamily(model) == ResolveFamilies(model, {}, <<>>)

AgyGroup(groups, policy) == SelectInSeq(groups, LAMBDA g : g.label = policy.group)

AgyWindow(groups, model, policy, window) ==
  IF policy.group # "none"
  THEN LET i == AgyGroup(groups, policy)
       IN IF i = 0 THEN NoBucket ELSE GroupWindow(groups[i], window)
  ELSE IF Cardinality(AgyFamily(model)) # 1 THEN NoBucket
  ELSE FamilyWindow(groups, CHOOSE f \in AgyFamily(model) : TRUE, window)

AgyObserved(groups, model, policy) ==
  << Reason("missing_window",    groups = <<>>),
     Reason("family_unobserved", policy.group # "none" /\ AgyGroup(groups, policy) = 0),
     Reason("family_unknown",    policy.group = "none" /\ AgyFamily(model) = {}),
     Reason("family_ambiguous",  policy.group = "none" /\ Cardinality(AgyFamily(model)) > 1),
     Reason("family_unobserved", policy.group = "none"
                                   /\ \A f \in AgyFamily(model) : Owner(groups, f) = 0) >>

AgyReasons(groups, model, policy) ==
  LET weeklyOnly == IF policy.group = "none" THEN AgyFamily(model) = {"argon"}
                    ELSE \E i \in {AgyGroup(groups, policy)} \ {0} : groups[i].families = {"argon"}
  IN AgyObserved(groups, model, policy)
       \o WindowReasons(AgyWindow(groups, model, policy, "five_hour"),
                        AgyWindow(groups, model, policy, "seven_day"), weeklyOnly, policy)

-----------------------------------------------------------------------------
(* The verdict.                                                            *)

\* What the weekly pace looks at: the account's week, or the family's for agy.
WeeklyUsed(usage, model, policy) ==
  CASE usage.agent = "codex"  -> usage.secondary.used
    [] usage.agent = "claude" -> usage.seven_day
    [] usage.agent = "agy"    ->
         LET bucket == AgyWindow(usage.groups, model, policy, "seven_day")
         IN IF bucket = NoBucket THEN Unknown ELSE Full - bucket.left

WeeklyReset(usage, model, policy) ==
  IF usage.agent = "agy" THEN AgyWindow(usage.groups, model, policy, "seven_day").reset
  ELSE usage.reset

PaceReason(usage, model, policy, known, now) ==
  Reason("weekly_pace",
         /\ policy.weekly.pacing # "none"
         /\ OverPace(WeeklyUsed(usage, model, policy), WeeklyReset(usage, model, policy),
                     policy.weekly, known, now))

Reasons(usage, model, policy, known, now) ==
  (CASE usage.agent = "codex"  -> CodexReasons(usage, policy)
     [] usage.agent = "claude" -> ClaudeReasons(usage, policy, model)
     [] usage.agent = "agy"    -> AgyReasons(usage.groups, model, policy))
  \o <<PaceReason(usage, model, policy, known, now)>>

ReasonCode(usage, model, policy, known, now) ==
  LET reasons == Reasons(usage, model, policy, known, now)
      first   == SelectInSeq(reasons, LAMBDA r : r.holds)
  IN IF first = 0 THEN "available" ELSE reasons[first].code

Available(usage, model, policy, known, now) ==
  ReasonCode(usage, model, policy, known, now) = "available"

=============================================================================
