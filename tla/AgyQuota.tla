------------------------------- MODULE AgyQuota -------------------------------
(***************************************************************************)
(* agents/agy-usage.ts: what the groups of an agy /usage reply become, and *)
(* the samples that agents/usage-proxy.ts exports of them.                 *)
(*                                                                         *)
(* A text (the name of a group, of a model or of a bucket) counts by what  *)
(* the code looks for in it: the families it mentions, "third" for the     *)
(* words for third parties, and "slug" when it is, as a whole, the name of *)
(* a model in MODEL_SLUG_MAP; the family there is one that it mentions.    *)
(***************************************************************************)
EXTENDS Integers, SequencesExt

Families == {"gemini", "argon", "claude", "gpt"}

\* A quota in parts of a whole one: remaining_fraction is left/Full.
Full == 4

\* null and undefined, of a number or a time.
Unknown == -1

NoBucket == [window |-> "none", id |-> {}, name |-> {}, left |-> Full, reset |-> Unknown]

-----------------------------------------------------------------------------
(* The families of a group (resolveAgyFamilies).                           *)

\* A model of Argon has Gemini in its name, too.
MentionedIn(text) ==
  (IF "argon" \in text THEN {"argon"} ELSE text \cap {"gemini"})
    \cup (text \cap {"claude", "gpt"})

ThirdParty(text) == IF "third" \in text THEN {"claude", "gpt"} ELSE {}

FirstNonEmpty(sets) == FoldLeft(LAMBDA s, t : IF s = {} THEN t ELSE s, {}, sets)

\* Of the models, then of the name; of the buckets only if these say nothing.
ResolveFamilies(name, models, buckets) ==
  LET listed   == UNION {MentionedIn(m) : m \in models}
      slug     == IF "slug" \in name THEN MentionedIn(name) ELSE {}
      named    == MentionedIn(name) \ (IF "argon" \in listed THEN {"gemini"} ELSE {})
      inBucket == UNION {b.id \cup b.name : b \in ToSet(buckets)}
  IN FirstNonEmpty(<<listed \cup slug \cup named, ThirdParty(name),
                     MentionedIn(inBucket), ThirdParty(inBucket)>>)

-----------------------------------------------------------------------------
(* Groups of a reply.                                                      *)

FirstOf(buckets, window) ==
  LET i == SelectInSeq(buckets, LAMBDA b : b.window = window)
  IN IF i = 0 THEN NoBucket ELSE buckets[i]

\* Fault: a malformed group is dropped.
RecognizedWhole(group) == group.form = "whole"

\* A malformed group with a name stays, without its buckets, so that its families
\* close.
Recognized(group) == group.form \in {"whole", "malformed"}

NormalizeGroup(group) ==
  LET buckets == IF group.form = "whole" THEN group.buckets ELSE <<>>
  IN [label    |-> group.label,
      name     |-> group.name,
      buckets  |-> buckets,
      families |-> ResolveFamilies(group.name, group.models, buckets)]

NormalizeGroups(raw) ==
  FoldLeft(LAMBDA groups, g : IF Recognized(g) THEN Append(groups, NormalizeGroup(g)) ELSE groups,
           <<>>, raw)

\* How well a group matches a family: by its name, by a bucket, or by a model.
Score(group, family) ==
  IF family \in group.name THEN 2
  ELSE IF \E b \in ToSet(group.buckets) : family \in b.id THEN 1 ELSE 0

\* Fault: a later group takes over when it matches as well.
BetterOrEqual(group, other, family) == Score(group, family) >= Score(other, family)

Better(group, other, family) == Score(group, family) > Score(other, family)

\* agyFamilyGroups: the group that owns a family, 0 if there is none.
Owner(groups, family) ==
  FoldLeftDomain(LAMBDA best, i :
                   IF /\ family \in groups[i].families
                      /\ best = 0 \/ Better(groups[i], groups[best], family)
                   THEN i ELSE best,
                 0, groups)

\* buildFamilyMap: the windows of a family, as the gate reads them.
FamilyWindow(groups, family, window) ==
  LET o == Owner(groups, family)
  IN IF o = 0 THEN NoBucket ELSE FirstOf(groups[o].buckets, window)

-----------------------------------------------------------------------------
(* The samples of the usage gauges (usageSamples).                         *)

\* Fault: every group that lists a family counts for it.
ScopesOfAll(groups, i) ==
  IF groups[i].families # {} THEN groups[i].families ELSE {groups[i].label}

ScopesOf(groups, i) ==
  IF groups[i].families # {} THEN {f \in groups[i].families : Owner(groups, f) = i}
  ELSE {groups[i].label}

\* One sample for each window and scope: the first one.
Samples(groups) ==
  LET Sources == UNION {{i} \X DOMAIN groups[i].buckets : i \in DOMAIN groups}
      Before(s, t) == s[1] < t[1] \/ (s[1] = t[1] /\ s[2] < t[2])
      BucketAt(s) == groups[s[1]].buckets[s[2]]
      First(s, scope) ==
        \A t \in Sources :
          Before(t, s) /\ BucketAt(t).window = BucketAt(s).window => scope \notin ScopesOf(groups, t[1])
  IN UNION {{[window |-> BucketAt(s).window, scope |-> scope, left |-> BucketAt(s).left] :
               scope \in {c \in ScopesOf(groups, s[1]) : First(s, c)}} : s \in Sources}

=============================================================================
