----------------------------- MODULE PromClient ------------------------------
(***************************************************************************)
(* prometheus-client/: the instruments of a PromClient, made through a     *)
(* MetricRegistry or directly, and its older observable metrics, which the *)
(* workers and the HTTP server use.                                        *)
(*                                                                         *)
(* Every call runs to its end before another begins.  A call that throws   *)
(* after changing nothing is no step here; whether a series over the limit *)
(* is dropped or thrown makes no difference to the state.                  *)
(***************************************************************************)
EXTENDS Naturals, FiniteSets

CONSTANTS
  Names,         \* names instruments are asked for under
  TotalOf,       \* the name each of them has as a counter, with "_total"
  Shapes,        \* help, unit, label names and boundaries of an instrument
  Series,        \* label sets of an instrument, as labelKey tells them apart
  Values,        \* values of a sample
  SeriesLimit,   \* the series limit of each name
  LegacyNames,   \* names of the observable metrics, each of one kind
  MaxValue       \* bound on a counted value

ASSUME NamesAssumption == TotalOf \in [Names -> Names]
ASSUME LimitAssumption == SeriesLimit \in [Names -> Nat \ {0}]
ASSUME LegacyAssumption == Values \subseteq 0..MaxValue /\ 0 \in Values /\ MaxValue \in Nat

VARIABLES
  definitions,   \* PromClient.definitions, by emitted name
  instruments,   \* MetricRegistry.instruments, by emitted name
  samples,       \* GaugeMetric.samples of each gauge
  series,        \* InstrumentContext.series of each instrument
  legacy,        \* PromClient.legacyMetrics
  observables,   \* how many observables export each of these
  isShutdown,
  call           \* history: the last call of a gauge

typedVars  == <<definitions, instruments, samples, series, call>>
legacyVars == <<legacy, observables>>
vars       == <<typedVars, legacyVars, isShutdown>>

Kinds == {"counter", "gauge", "histogram"}

Definition == [kind : Kinds, shape : Shapes]

Empty == [s \in {} |-> 0]

Tables == UNION { [S -> Values] : S \in {S \in SUBSET Series : IsFiniteSet(S)} }

\* The function with one more entry, or with this one changed.
Put(f, x, y) == [z \in DOMAIN f \cup {x} |-> IF z = x THEN y ELSE f[z]]

PartialFunctions(S, T) == UNION { [D -> T] : D \in SUBSET S }

TypeOK ==
  /\ definitions \in PartialFunctions(Names, Definition)
  /\ instruments \in PartialFunctions(Names, Definition)
  /\ samples \in [Names -> Tables]
  /\ series \in [Names -> SUBSET Series]
  /\ legacy \in [LegacyNames -> PartialFunctions(Series, 0..MaxValue)]
  /\ observables \in [LegacyNames -> Nat]
  /\ isShutdown \in BOOLEAN

NoCall == [op |-> "none"]

Init ==
  /\ definitions = Empty
  /\ instruments = Empty
  /\ samples = [n \in Names |-> Empty]
  /\ series = [n \in Names |-> {}]
  /\ legacy = [n \in LegacyNames |-> Empty]
  /\ observables = [n \in LegacyNames |-> 0]
  /\ isShutdown = FALSE
  /\ call = NoCall

-----------------------------------------------------------------------------
(* Definitions.                                                            *)

EmittedName(n, kind) == IF kind = "counter" THEN TotalOf[n] ELSE n

\* A name is defined once, whatever its definition.
RegisterDefinition(n, d) ==
  /\ ~isShutdown
  /\ n \notin DOMAIN definitions
  /\ definitions' = Put(definitions, n, d)

CreateDirectly(n, d) ==
  /\ RegisterDefinition(EmittedName(n, d.kind), d)
  /\ UNCHANGED <<instruments, samples, series, call, legacyVars, isShutdown>>

\* A name the registry knows gives its instrument, or a conflict.
GetOrCreate(n, d) ==
  LET key == EmittedName(n, d.kind) IN
  /\ key \notin DOMAIN instruments
  /\ RegisterDefinition(key, d)
  /\ instruments' = Put(instruments, key, d)
  /\ UNCHANGED <<samples, series, call, legacyVars, isShutdown>>

IsGauge(n) == n \in DOMAIN definitions /\ definitions[n].kind = "gauge"

-----------------------------------------------------------------------------
(* Observations.                                                           *)

\* A known series, or room for a new one.
AcceptSeries(n, s) == s \in series[n] \/ Cardinality(series[n]) < SeriesLimit[n]

\* Counters and histograms keep their series for ever.
Observe(n, s) ==
  /\ n \in DOMAIN definitions /\ ~IsGauge(n)
  /\ ~isShutdown
  /\ AcceptSeries(n, s)
  /\ series' = [series EXCEPT ![n] = @ \cup {s}]
  /\ UNCHANGED <<definitions, instruments, samples, call, legacyVars, isShutdown>>

Set(n, s, v) ==
  IF s \in DOMAIN samples[n] \/ AcceptSeries(n, s)
    THEN /\ series' = IF s \in DOMAIN samples[n] THEN series
                      ELSE [series EXCEPT ![n] = @ \cup {s}]
         /\ samples' = [samples EXCEPT ![n] = Put(@, s, v)]
    ELSE UNCHANGED <<samples, series>>

Remove(n, s) ==
  /\ series' = [series EXCEPT ![n] = @ \ {s}]
  /\ samples' = [samples EXCEPT ![n] = [t \in DOMAIN @ \ {s} |-> @[t]]]

Clear(n) ==
  /\ samples' = [samples EXCEPT ![n] = Empty]
  /\ series' = [series EXCEPT ![n] = {}]

\* Fault: the samples the candidate leaves out stay.
ReplaceGiven(n, candidate) ==
  IF Cardinality(DOMAIN candidate \cup DOMAIN samples[n]) <= SeriesLimit[n]
    THEN /\ samples' = [samples EXCEPT ![n] = [s \in DOMAIN candidate \cup DOMAIN @ |-> IF s \in DOMAIN candidate THEN candidate[s] ELSE @[s]]]
         /\ series' = [series EXCEPT ![n] = @ \cup DOMAIN candidate]
    ELSE UNCHANGED <<samples, series>>

\* The candidate replaces the samples only when all of it fits.
Replace(n, candidate) ==
  IF Cardinality(DOMAIN candidate) <= SeriesLimit[n]
    THEN /\ samples' = [samples EXCEPT ![n] = candidate]
         /\ series' = [series EXCEPT ![n] = DOMAIN candidate]
    ELSE UNCHANGED <<samples, series>>

\* A call of a gauge; after the shutdown it throws.
GaugeCall(n, c, Effect) ==
  /\ IsGauge(n)
  /\ call' = c
  /\ IF isShutdown THEN UNCHANGED <<samples, series>> ELSE Effect
  /\ UNCHANGED <<definitions, instruments, legacyVars, isShutdown>>

CallGauge(n) ==
  \/ \E s \in Series, v \in Values :
       GaugeCall(n, [op |-> "set", name |-> n, series |-> s, value |-> v], Set(n, s, v))
  \/ \E s \in Series :
       GaugeCall(n, [op |-> "remove", name |-> n, series |-> s], Remove(n, s))
  \/ GaugeCall(n, [op |-> "clear", name |-> n], Clear(n))
  \/ \E t \in Tables :
       GaugeCall(n, [op |-> "replace", name |-> n, table |-> t], Replace(n, t))

-----------------------------------------------------------------------------
(* Observable metrics.                                                     *)

\* The first registration of a name also creates what exports it.
RegisterLegacyObservable(n, s) ==
  /\ ~isShutdown
  /\ s \notin DOMAIN legacy[n]
  /\ legacy' = [legacy EXCEPT ![n] = Put(@, s, 0)]
  /\ observables' = [observables EXCEPT ![n] = IF @ = 0 THEN 1 ELSE @]
  /\ UNCHANGED <<typedVars, isShutdown>>

UpdateMetric(n, s, v) ==
  /\ ~isShutdown
  /\ s \in DOMAIN legacy[n]
  /\ legacy' = [legacy EXCEPT ![n][s] = v]
  /\ UNCHANGED <<typedVars, observables, isShutdown>>

IncrementMetric(n, s) ==
  /\ ~isShutdown
  /\ s \in DOMAIN legacy[n] /\ legacy[n][s] < MaxValue
  /\ legacy' = [legacy EXCEPT ![n][s] = @ + 1]
  /\ UNCHANGED <<typedVars, observables, isShutdown>>

Shutdown ==
  /\ isShutdown' = TRUE
  /\ UNCHANGED <<typedVars, legacyVars>>

Next ==
  \/ \E n \in Names, d \in Definition : CreateDirectly(n, d) \/ GetOrCreate(n, d)
  \/ \E n \in Names, s \in Series : Observe(n, s)
  \/ \E n \in Names : CallGauge(n)
  \/ \E n \in LegacyNames, s \in Series :
       \/ RegisterLegacyObservable(n, s)
       \/ IncrementMetric(n, s)
       \/ \E v \in Values : UpdateMetric(n, s, v)
  \/ Shutdown

Spec == Init /\ [][Next]_vars

-----------------------------------------------------------------------------
(* Properties.                                                             *)

\* However series come and go, the slots in use are those of the samples a gauge
\* shows, and no instrument has more of them than its limit.
SlotsAccounted ==
  \A n \in Names :
    /\ Cardinality(series[n]) <= SeriesLimit[n]
    /\ IsGauge(n) => series[n] = DOMAIN samples[n]

\* A scrape lists each registered observable series exactly once, however many
\* of one name there are.
ScrapedOnce ==
  \A n \in LegacyNames : DOMAIN legacy[n] # {} => observables[n] = 1

OpenGauges == IF isShutdown THEN {} ELSE {n \in Names : IsGauge(n)}

Gauges == INSTANCE BoundedGauges WITH Limit <- SeriesLimit, shown <- samples, open <- OpenGauges

\* The gauges keep their promise: a set, a removal and a replacement take effect
\* as a whole, or not at all when the limit or the shutdown forbids it.
ImplementsBoundedGauges == Gauges!Spec

=============================================================================
