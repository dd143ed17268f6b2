---------------------------- MODULE BoundedGauges ----------------------------
(***************************************************************************)
(* What the gauges of a PromClient promise: a gauge shows a table of       *)
(* series, never more than its limit.  A call on an open gauge takes       *)
(* effect as a whole, or not at all when it would exceed the limit; a      *)
(* closed gauge shows what it showed.                                      *)
(***************************************************************************)
EXTENDS Naturals, FiniteSets

CONSTANTS
  Names,   \* gauges
  Series,  \* label sets
  Values,  \* values of a sample
  Limit    \* the series limit of each gauge

VARIABLES
  shown,   \* the table each gauge shows
  open,    \* the gauges that take calls
  call     \* the last call

Empty == [s \in {} |-> 0]

Tables == UNION { [S -> Values] : S \in {S \in SUBSET Series : IsFiniteSet(S)} }

Calls ==
       [op : {"set"}, name : Names, series : Series, value : Values]
  \cup [op : {"remove"}, name : Names, series : Series]
  \cup [op : {"clear"}, name : Names]
  \cup [op : {"replace"}, name : Names, table : Tables]

NoCall == [op |-> "none"]

\* What a call makes of a table.
Effect(table, c) ==
  CASE c.op = "set"     -> [s \in DOMAIN table \cup {c.series} |->
                                IF s = c.series THEN c.value ELSE table[s]]
    [] c.op = "remove"  -> [s \in DOMAIN table \ {c.series} |-> table[s]]
    [] c.op = "clear"   -> Empty
    [] c.op = "replace" -> c.table

Init == shown = [n \in Names |-> Empty] /\ open = {} /\ call = NoCall

Open(n) == open' = open \cup {n} /\ UNCHANGED <<shown, call>>

CloseAll == open' = {} /\ UNCHANGED <<shown, call>>

Perform(c) ==
  LET table == Effect(shown[c.name], c) IN
  /\ call' = c
  /\ shown' = IF c.name \in open /\ Cardinality(DOMAIN table) <= Limit[c.name]
                THEN [shown EXCEPT ![c.name] = table] ELSE shown
  /\ UNCHANGED open

Next == (\E n \in Names : Open(n)) \/ CloseAll \/ (\E c \in Calls : Perform(c))

Spec == Init /\ [][Next]_<<shown, open, call>>

=============================================================================
