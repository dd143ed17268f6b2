-------------------------- MODULE PromClient_proof ---------------------------
(***************************************************************************)
(* Proofs about PromClient, for every set of names, shapes and series and  *)
(* every limit.                                                            *)
(*                                                                         *)
(* The slots agree with the samples because both start empty with the      *)
(* definition (UndefinedIsEmpty) and every call changes them together.     *)
(***************************************************************************)
EXTENDS PromClient, FiniteSetTheorems, TLAPS

\* An instrument that is not defined yet has no series and shows nothing.
UndefinedIsEmpty ==
  \A n \in Names : n \notin DOMAIN definitions => series[n] = {} /\ DOMAIN samples[n] = {}

SeriesFinite == \A n \in Names : IsFiniteSet(series[n])

OneObservable == \A n \in LegacyNames : observables[n] \in {0, 1}

Inv ==
  /\ TypeOK
  /\ SeriesFinite
  /\ UndefinedIsEmpty
  /\ SlotsAccounted
  /\ OneObservable
  /\ ScrapedOnce

-----------------------------------------------------------------------------
(* Tables and partial functions.                                           *)

LEMMA TableDomain ==
  ASSUME NEW t \in Tables
  PROVE  /\ DOMAIN t \subseteq Series /\ IsFiniteSet(DOMAIN t)
         /\ t \in [DOMAIN t -> Values]
BY DEF Tables

LEMMA TableOf ==
  ASSUME NEW S, S \subseteq Series, IsFiniteSet(S), NEW t \in [S -> Values]
  PROVE  t \in Tables
BY DEF Tables

LEMMA EmptyTable == Empty \in Tables /\ DOMAIN Empty = {}
<1>1. IsFiniteSet({})
  BY FS_EmptySet
<1>2. Empty \in [{} -> Values] /\ DOMAIN Empty = {}
  BY DEF Empty
<1> QED
  BY <1>1, <1>2, TableOf

LEMMA PutTable ==
  ASSUME NEW t \in Tables, NEW s \in Series, NEW v \in Values
  PROVE  Put(t, s, v) \in Tables /\ DOMAIN Put(t, s, v) = DOMAIN t \cup {s}
<1>1. DOMAIN t \cup {s} \subseteq Series /\ IsFiniteSet(DOMAIN t \cup {s})
  BY TableDomain, FS_AddElement
<1>2. Put(t, s, v) \in [DOMAIN t \cup {s} -> Values]
  BY TableDomain DEF Put
<1> QED
  BY <1>1, <1>2, TableOf DEF Put

LEMMA RemoveFromTable ==
  ASSUME NEW t \in Tables, NEW s \in Series
  PROVE  [u \in DOMAIN t \ {s} |-> t[u]] \in Tables
<1>1. DOMAIN t \ {s} \subseteq Series /\ IsFiniteSet(DOMAIN t \ {s})
  BY TableDomain, FS_RemoveElement
<1>2. [u \in DOMAIN t \ {s} |-> t[u]] \in [DOMAIN t \ {s} -> Values]
  BY TableDomain
<1> QED
  BY <1>1, <1>2, TableOf

LEMMA PutPartial ==
  ASSUME NEW S, NEW T, NEW f \in PartialFunctions(S, T), NEW x \in S, NEW y \in T
  PROVE  Put(f, x, y) \in PartialFunctions(S, T)
<1>1. DOMAIN f \subseteq S /\ f \in [DOMAIN f -> T]
  BY DEF PartialFunctions
<1>2. Put(f, x, y) \in [DOMAIN f \cup {x} -> T]
  BY <1>1 DEF Put
<1>3. DOMAIN f \cup {x} \in SUBSET S
  BY <1>1
<1> QED
  BY <1>2, <1>3 DEF PartialFunctions

LEMMA EmptyPartial ==
  ASSUME NEW S, NEW T
  PROVE  Empty \in PartialFunctions(S, T)
<1>1. Empty \in [{} -> T]
  BY DEF Empty
<1> QED
  BY <1>1 DEF PartialFunctions

-----------------------------------------------------------------------------
(* The invariant.                                                          *)

LEMMA InvInitial == Init => Inv
<1> SUFFICES ASSUME Init PROVE Inv
  OBVIOUS
<1>1. Empty \in Tables /\ DOMAIN Empty = {}
  BY EmptyTable
<1>2. /\ definitions \in PartialFunctions(Names, Definition)
      /\ instruments \in PartialFunctions(Names, Definition)
  BY EmptyPartial DEF Init
<1>3. legacy \in [LegacyNames -> PartialFunctions(Series, 0..MaxValue)]
  BY EmptyPartial DEF Init
<1>4. samples \in [Names -> Tables] /\ series \in [Names -> SUBSET Series]
  BY <1>1 DEF Init
<1>5. TypeOK
  BY <1>2, <1>3, <1>4 DEF Init, TypeOK
<1>6. IsFiniteSet({}) /\ Cardinality({}) = 0
  BY FS_EmptySet
<1>7. SeriesFinite /\ UndefinedIsEmpty
  BY <1>1, <1>6 DEF Init, SeriesFinite, UndefinedIsEmpty
<1>8. SlotsAccounted
  BY <1>1, <1>6, LimitAssumption DEF Init, SlotsAccounted, IsGauge
<1>9. OneObservable /\ ScrapedOnce
  BY <1>1 DEF Init, OneObservable, ScrapedOnce
<1> QED
  BY <1>5, <1>7, <1>8, <1>9 DEF Inv

\* A new definition finds its name without series.
LEMMA DefinitionKeepsInv ==
  ASSUME Inv, NEW n \in Names, NEW d \in Definition, RegisterDefinition(n, d),
         instruments' \in PartialFunctions(Names, Definition),
         UNCHANGED <<samples, series, call, legacyVars, isShutdown>>
  PROVE  Inv'
<1>1. definitions' = Put(definitions, n, d) /\ n \notin DOMAIN definitions
  BY DEF RegisterDefinition
<1>2. /\ definitions' \in PartialFunctions(Names, Definition)
      /\ DOMAIN definitions' = DOMAIN definitions \cup {n}
      /\ \A m \in DOMAIN definitions : definitions'[m] = definitions[m]
  <2>1. definitions \in PartialFunctions(Names, Definition)
    BY DEF Inv, TypeOK
  <2>2. Put(definitions, n, d) \in PartialFunctions(Names, Definition)
    BY <2>1, PutPartial
  <2>3. /\ DOMAIN Put(definitions, n, d) = DOMAIN definitions \cup {n}
        /\ Put(definitions, n, d)[n] = d
        /\ \A z \in DOMAIN definitions \ {n} : Put(definitions, n, d)[z] = definitions[z]
    BY DEF Put
  <2> QED
    BY <1>1, <2>2, <2>3
<1>3. TypeOK'
  BY <1>2 DEF Inv, TypeOK, legacyVars
<1>4. SeriesFinite' /\ UndefinedIsEmpty'
  BY <1>2 DEF Inv, SeriesFinite, UndefinedIsEmpty
<1>5. series[n] = {} /\ DOMAIN samples[n] = {}
  BY <1>1 DEF Inv, UndefinedIsEmpty
<1>6. SlotsAccounted'
  BY <1>2, <1>5 DEF Inv, SlotsAccounted, IsGauge
<1>7. OneObservable' /\ ScrapedOnce'
  BY DEF Inv, OneObservable, ScrapedOnce, legacyVars
<1> QED
  BY <1>3, <1>4, <1>6, <1>7 DEF Inv

\* A call that leaves the slots of one gauge equal to the series it shows, and
\* within its limit, keeps the invariant.
LEMMA TableKeepsInv ==
  ASSUME Inv, NEW n \in Names, IsGauge(n), NEW t \in Tables,
         Cardinality(DOMAIN t) <= SeriesLimit[n],
         samples' = [samples EXCEPT ![n] = t],
         series' = [series EXCEPT ![n] = DOMAIN t],
         UNCHANGED <<definitions, instruments, legacyVars, isShutdown>>
  PROVE  Inv'
<1>1. DOMAIN t \subseteq Series /\ IsFiniteSet(DOMAIN t)
  BY TableDomain
<1>2. samples \in [Names -> Tables] /\ series \in [Names -> SUBSET Series]
  BY DEF Inv, TypeOK
<1>3. samples'[n] = t /\ series'[n] = DOMAIN t
  BY <1>2
<1>4. \A m \in Names \ {n} : samples'[m] = samples[m] /\ series'[m] = series[m]
  BY <1>2
<1>5. TypeOK'
  BY <1>1, <1>2 DEF Inv, TypeOK, legacyVars
<1>6. SeriesFinite'
  BY <1>1, <1>3, <1>4 DEF Inv, SeriesFinite
<1>7. UndefinedIsEmpty'
  BY <1>4 DEF Inv, UndefinedIsEmpty, IsGauge
<1>8. SlotsAccounted'
  BY <1>3, <1>4 DEF Inv, SlotsAccounted, IsGauge
<1>9. OneObservable' /\ ScrapedOnce'
  BY DEF Inv, OneObservable, ScrapedOnce, legacyVars
<1> QED
  BY <1>5, <1>6, <1>7, <1>8, <1>9 DEF Inv

LEMMA UnchangedKeepsInv ==
  ASSUME Inv, UNCHANGED <<definitions, instruments, samples, series, legacyVars, isShutdown>>
  PROVE  Inv'
BY DEF Inv, TypeOK, SeriesFinite, UndefinedIsEmpty, SlotsAccounted, IsGauge,
       OneObservable, ScrapedOnce, legacyVars

-----------------------------------------------------------------------------
(* What the calls of a gauge do.                                           *)

\* The call gives the gauge this table, slots and all, or changes nothing.
Takes(n, t) ==
  IF ~isShutdown /\ Cardinality(DOMAIN t) <= SeriesLimit[n]
    THEN samples' = [samples EXCEPT ![n] = t] /\ series' = [series EXCEPT ![n] = DOMAIN t]
    ELSE UNCHANGED <<samples, series>>

\* The slots of a gauge are the series it shows.
LEMMA GaugeSlots ==
  ASSUME Inv, NEW n \in Names, IsGauge(n)
  PROVE  /\ samples[n] \in Tables /\ series[n] = DOMAIN samples[n]
         /\ IsFiniteSet(series[n])
         /\ Cardinality(series[n]) \in Nat /\ SeriesLimit[n] \in Nat \ {0}
         /\ Cardinality(series[n]) <= SeriesLimit[n]
         /\ samples \in [Names -> Tables] /\ series \in [Names -> SUBSET Series]
<1>1. IsFiniteSet(series[n])
  BY DEF Inv, SeriesFinite
<1>2. Cardinality(series[n]) \in Nat
  BY <1>1, FS_CardinalityType
<1> QED
  BY <1>1, <1>2, LimitAssumption DEF Inv, TypeOK, SlotsAccounted

LEMMA SetTakes ==
  ASSUME Inv, NEW n \in Names, IsGauge(n), NEW s \in Series, NEW v \in Values,
         IF isShutdown THEN UNCHANGED <<samples, series>> ELSE Set(n, s, v)
  PROVE  Takes(n, Put(samples[n], s, v)) /\ Put(samples[n], s, v) \in Tables
<1> DEFINE t == Put(samples[n], s, v)
<1>1. t \in Tables /\ DOMAIN t = series[n] \cup {s}
  <2>1. samples[n] \in Tables /\ series[n] = DOMAIN samples[n]
    BY GaugeSlots
  <2> QED
    BY <2>1, PutTable
<1>2. CASE isShutdown
  BY <1>1, <1>2 DEF Takes
<1>3. CASE ~isShutdown /\ s \in series[n]
  <2>1. DOMAIN t = series[n] /\ Cardinality(DOMAIN t) <= SeriesLimit[n]
    BY <1>1, <1>3, GaugeSlots
  <2>2. series' = series /\ samples' = [samples EXCEPT ![n] = t]
    BY <1>3, GaugeSlots DEF Set
  <2>3. series' = [series EXCEPT ![n] = DOMAIN t]
    BY <2>1, <2>2, GaugeSlots
  <2> QED
    BY <1>1, <1>3, <2>1, <2>2, <2>3 DEF Takes
<1>4. CASE ~isShutdown /\ s \notin series[n]
  <2>1. Cardinality(DOMAIN t) = Cardinality(series[n]) + 1
    BY <1>1, <1>4, GaugeSlots, FS_AddElement
  <2>2. Cardinality(DOMAIN t) <= SeriesLimit[n] <=> Cardinality(series[n]) < SeriesLimit[n]
    BY <2>1, GaugeSlots
  <2>3. AcceptSeries(n, s) <=> Cardinality(DOMAIN t) <= SeriesLimit[n]
    BY <1>4, <2>2 DEF AcceptSeries
  <2>4. CASE AcceptSeries(n, s)
    BY <1>1, <1>4, <2>3, <2>4, GaugeSlots DEF Set, Takes
  <2>5. CASE ~AcceptSeries(n, s)
    BY <1>1, <1>4, <2>3, <2>5, GaugeSlots DEF Set, Takes
  <2> QED
    BY <2>4, <2>5
<1> QED
  BY <1>2, <1>3, <1>4

LEMMA RemoveTakes ==
  ASSUME Inv, NEW n \in Names, IsGauge(n), NEW s \in Series,
         IF isShutdown THEN UNCHANGED <<samples, series>> ELSE Remove(n, s)
  PROVE  LET t == [u \in DOMAIN samples[n] \ {s} |-> samples[n][u]]
         IN  Takes(n, t) /\ t \in Tables
<1> DEFINE t == [u \in DOMAIN samples[n] \ {s} |-> samples[n][u]]
<1>1. t \in Tables /\ DOMAIN t = series[n] \ {s}
  BY GaugeSlots, RemoveFromTable
<1>2. Cardinality(DOMAIN t) <= Cardinality(series[n]) /\ Cardinality(DOMAIN t) \in Nat
  BY <1>1, GaugeSlots, FS_Subset, FS_CardinalityType
<1>3. Cardinality(DOMAIN t) <= SeriesLimit[n]
  BY <1>2, GaugeSlots
<1>4. CASE isShutdown
  BY <1>1, <1>4 DEF Takes
<1>5. CASE ~isShutdown
  BY <1>1, <1>3, <1>5, GaugeSlots DEF Remove, Takes
<1> QED
  BY <1>4, <1>5

LEMMA ClearTakes ==
  ASSUME Inv, NEW n \in Names, IsGauge(n),
         IF isShutdown THEN UNCHANGED <<samples, series>> ELSE Clear(n)
  PROVE  Takes(n, Empty) /\ Empty \in Tables
<1>1. Empty \in Tables /\ DOMAIN Empty = {} /\ Cardinality({}) = 0
  BY EmptyTable, FS_EmptySet
<1>2. Cardinality(DOMAIN Empty) <= SeriesLimit[n]
  BY <1>1, GaugeSlots
<1> QED
  BY <1>1, <1>2 DEF Clear, Takes

LEMMA ReplaceTakes ==
  ASSUME Inv, NEW n \in Names, NEW t \in Tables,
         IF isShutdown THEN UNCHANGED <<samples, series>> ELSE Replace(n, t)
  PROVE  Takes(n, t)
BY DEF Replace, Takes

\* The abstract specification counts and bounds tables as this one does.
LEMMA SameCardinality == \A S : Gauges!Cardinality(S) = Cardinality(S)
BY DEF Gauges!Cardinality, Cardinality

LEMMA SameTables == Gauges!Tables = Tables
<1>1. \A S : Gauges!IsFiniteSet(S) <=> IsFiniteSet(S)
  BY DEF Gauges!IsFiniteSet, IsFiniteSet
<1> QED
  BY <1>1 DEF Gauges!Tables, Tables

\* Every call of a gauge is a call of the abstract one, and has its effect.
LEMMA CallTakes ==
  ASSUME Inv, NEW n \in Names, CallGauge(n)
  PROVE  /\ IsGauge(n)
         /\ UNCHANGED <<definitions, instruments, legacyVars, isShutdown>>
         /\ \E c \in Gauges!Calls :
              /\ c.name = n /\ call' = c
              /\ Takes(n, Gauges!Effect(samples[n], c))
              /\ Gauges!Effect(samples[n], c) \in Tables
<1>1. CASE \E s \in Series, v \in Values :
             GaugeCall(n, [op |-> "set", name |-> n, series |-> s, value |-> v], Set(n, s, v))
  <2>1. PICK s \in Series, v \in Values :
          GaugeCall(n, [op |-> "set", name |-> n, series |-> s, value |-> v], Set(n, s, v))
    BY <1>1
  <2> DEFINE c == [op |-> "set", name |-> n, series |-> s, value |-> v]
  <2>2. /\ IsGauge(n) /\ call' = c
        /\ IF isShutdown THEN UNCHANGED <<samples, series>> ELSE Set(n, s, v)
        /\ UNCHANGED <<definitions, instruments, legacyVars, isShutdown>>
    BY <2>1 DEF GaugeCall
  <2>3. c \in Gauges!Calls /\ Gauges!Effect(samples[n], c) = Put(samples[n], s, v)
    BY DEF Gauges!Calls, Gauges!Effect, Put
  <2> QED
    BY <2>2, <2>3, SetTakes
<1>2. CASE \E s \in Series : GaugeCall(n, [op |-> "remove", name |-> n, series |-> s], Remove(n, s))
  <2>1. PICK s \in Series : GaugeCall(n, [op |-> "remove", name |-> n, series |-> s], Remove(n, s))
    BY <1>2
  <2> DEFINE c == [op |-> "remove", name |-> n, series |-> s]
  <2>2. /\ IsGauge(n) /\ call' = c
        /\ IF isShutdown THEN UNCHANGED <<samples, series>> ELSE Remove(n, s)
        /\ UNCHANGED <<definitions, instruments, legacyVars, isShutdown>>
    BY <2>1 DEF GaugeCall
  <2>3. /\ c \in Gauges!Calls
        /\ Gauges!Effect(samples[n], c) = [u \in DOMAIN samples[n] \ {s} |-> samples[n][u]]
    BY DEF Gauges!Calls, Gauges!Effect
  <2> QED
    BY <2>2, <2>3, RemoveTakes
<1>3. CASE GaugeCall(n, [op |-> "clear", name |-> n], Clear(n))
  <2> DEFINE c == [op |-> "clear", name |-> n]
  <2>2. /\ IsGauge(n) /\ call' = c
        /\ IF isShutdown THEN UNCHANGED <<samples, series>> ELSE Clear(n)
        /\ UNCHANGED <<definitions, instruments, legacyVars, isShutdown>>
    BY <1>3 DEF GaugeCall
  <2>3. c \in Gauges!Calls /\ Gauges!Effect(samples[n], c) = Empty
    BY DEF Gauges!Calls, Gauges!Effect, Gauges!Empty, Empty
  <2> QED
    BY <2>2, <2>3, ClearTakes
<1>4. CASE \E t \in Tables : GaugeCall(n, [op |-> "replace", name |-> n, table |-> t], Replace(n, t))
  <2>1. PICK t \in Tables : GaugeCall(n, [op |-> "replace", name |-> n, table |-> t], Replace(n, t))
    BY <1>4
  <2> DEFINE c == [op |-> "replace", name |-> n, table |-> t]
  <2>2. /\ IsGauge(n) /\ call' = c
        /\ IF isShutdown THEN UNCHANGED <<samples, series>> ELSE Replace(n, t)
        /\ UNCHANGED <<definitions, instruments, legacyVars, isShutdown>>
    BY <2>1 DEF GaugeCall
  <2>3. c \in Gauges!Calls /\ Gauges!Effect(samples[n], c) = t
    <3>2. c \in Gauges!Calls
      BY SameTables DEF Gauges!Calls
    <3>3. Gauges!Effect(samples[n], c) = t
      BY DEF Gauges!Effect
    <3> QED
      BY <3>2, <3>3
  <2> QED
    BY <2>2, <2>3, ReplaceTakes
<1> QED
  BY <1>1, <1>2, <1>3, <1>4 DEF CallGauge

-----------------------------------------------------------------------------
(* Steps.                                                                  *)

LEMMA DefinitionSteps ==
  ASSUME Inv, NEW n \in Names, NEW d \in Definition, CreateDirectly(n, d) \/ GetOrCreate(n, d)
  PROVE  \E k \in Names :
           /\ RegisterDefinition(k, d)
           /\ instruments' \in PartialFunctions(Names, Definition)
           /\ UNCHANGED <<samples, series, call, legacyVars, isShutdown>>
<1> DEFINE k == EmittedName(n, d.kind)
<1>1. k \in Names
  BY NamesAssumption DEF EmittedName
<1>2. RegisterDefinition(k, d) /\ UNCHANGED <<samples, series, call, legacyVars, isShutdown>>
  BY DEF CreateDirectly, GetOrCreate
<1>3. instruments \in PartialFunctions(Names, Definition)
  BY DEF Inv, TypeOK
<1>4. Put(instruments, k, d) \in PartialFunctions(Names, Definition)
  BY <1>1, <1>3, PutPartial
<1>5. instruments' = instruments \/ instruments' = Put(instruments, k, d)
  BY DEF CreateDirectly, GetOrCreate
<1> QED
  BY <1>1, <1>2, <1>3, <1>4, <1>5

LEMMA ObserveKeepsInv ==
  ASSUME Inv, NEW n \in Names, NEW s \in Series, Observe(n, s)
  PROVE  Inv'
<1>1. /\ n \in DOMAIN definitions /\ ~IsGauge(n) /\ AcceptSeries(n, s)
      /\ series' = [series EXCEPT ![n] = @ \cup {s}]
      /\ UNCHANGED <<definitions, instruments, samples, call, legacyVars, isShutdown>>
  BY DEF Observe
<1>2. series \in [Names -> SUBSET Series]
  BY DEF Inv, TypeOK
<1>3. /\ series'[n] = series[n] \cup {s}
      /\ \A m \in Names \ {n} : series'[m] = series[m]
  BY <1>1, <1>2
<1>4. TypeOK'
  BY <1>1, <1>2 DEF Inv, TypeOK, legacyVars
<1>5. IsFiniteSet(series[n]) /\ IsFiniteSet(series'[n])
  BY <1>3, FS_AddElement DEF Inv, SeriesFinite
<1>6. SeriesFinite'
  BY <1>3, <1>5 DEF Inv, SeriesFinite
<1>7. UndefinedIsEmpty'
  BY <1>1, <1>3 DEF Inv, UndefinedIsEmpty
<1>8. Cardinality(series'[n]) <= SeriesLimit[n]
  <2>1. Cardinality(series[n]) <= SeriesLimit[n] /\ SeriesLimit[n] \in Nat
    BY LimitAssumption DEF Inv, SlotsAccounted
  <2>2. CASE s \in series[n]
    <3>1. series'[n] = series[n]
      BY <1>3, <2>2
    <3> QED
      BY <2>1, <3>1
  <2>3. CASE s \notin series[n]
    <3>1. Cardinality(series'[n]) = Cardinality(series[n]) + 1
      BY <1>3, <1>5, <2>3, FS_AddElement
    <3>2. Cardinality(series[n]) \in Nat /\ Cardinality(series[n]) < SeriesLimit[n]
      BY <1>1, <1>5, <2>3, FS_CardinalityType DEF AcceptSeries
    <3> QED
      BY <2>1, <3>1, <3>2
  <2> QED
    BY <2>2, <2>3
<1>9. SlotsAccounted'
  BY <1>1, <1>3, <1>8 DEF Inv, SlotsAccounted, IsGauge
<1>10. OneObservable' /\ ScrapedOnce'
  BY <1>1 DEF Inv, OneObservable, ScrapedOnce, legacyVars
<1> QED
  BY <1>4, <1>6, <1>7, <1>9, <1>10 DEF Inv

LEMMA CallKeepsInv ==
  ASSUME Inv, NEW n \in Names, CallGauge(n)
  PROVE  Inv'
<1>1. PICK t \in Tables : Takes(n, t)
  BY CallTakes
<1>2. IsGauge(n) /\ UNCHANGED <<definitions, instruments, legacyVars, isShutdown>>
  BY CallTakes
<1>3. CASE ~isShutdown /\ Cardinality(DOMAIN t) <= SeriesLimit[n]
  BY <1>1, <1>2, <1>3, TableKeepsInv DEF Takes
<1>4. CASE ~(~isShutdown /\ Cardinality(DOMAIN t) <= SeriesLimit[n])
  BY <1>1, <1>2, <1>4, UnchangedKeepsInv DEF Takes
<1> QED
  BY <1>3, <1>4

LEMMA LegacyKeepsInv ==
  ASSUME Inv, NEW n \in LegacyNames, NEW f \in PartialFunctions(Series, 0..MaxValue),
         legacy' = [legacy EXCEPT ![n] = f],
         \/ observables' = [observables EXCEPT ![n] = IF @ = 0 THEN 1 ELSE @]
         \/ observables' = observables /\ DOMAIN legacy[n] # {},
         UNCHANGED <<typedVars, isShutdown>>
  PROVE  Inv'
<1>1. /\ legacy \in [LegacyNames -> PartialFunctions(Series, 0..MaxValue)]
      /\ observables \in [LegacyNames -> Nat]
  BY DEF Inv, TypeOK
<1>2. \A m \in LegacyNames : observables[m] \in {0, 1}
  BY DEF Inv, OneObservable
<1>3. \A m \in LegacyNames : m # n => legacy'[m] = legacy[m] /\ observables'[m] = observables[m]
  BY <1>1
<1>4. observables'[n] = 1 /\ observables' \in [LegacyNames -> Nat]
  BY <1>1, <1>2 DEF Inv, ScrapedOnce
<1>5. legacy' \in [LegacyNames -> PartialFunctions(Series, 0..MaxValue)]
  BY <1>1
<1>6. TypeOK'
  BY <1>4, <1>5 DEF Inv, TypeOK, typedVars
<1>7. OneObservable' /\ ScrapedOnce'
  BY <1>2, <1>3, <1>4 DEF Inv, OneObservable, ScrapedOnce
<1>8. SeriesFinite' /\ UndefinedIsEmpty' /\ SlotsAccounted'
  BY DEF Inv, SeriesFinite, UndefinedIsEmpty, SlotsAccounted, IsGauge, typedVars
<1> QED
  BY <1>6, <1>7, <1>8 DEF Inv

LEMMA ObservableSteps ==
  ASSUME Inv, NEW n \in LegacyNames, NEW s \in Series,
         \/ RegisterLegacyObservable(n, s)
         \/ IncrementMetric(n, s)
         \/ \E v \in Values : UpdateMetric(n, s, v)
  PROVE  Inv'
<1>1. /\ legacy \in [LegacyNames -> PartialFunctions(Series, 0..MaxValue)]
      /\ legacy[n] \in PartialFunctions(Series, 0..MaxValue)
      /\ MaxValue \in Nat /\ 0 \in 0..MaxValue /\ Values \subseteq 0..MaxValue
  BY LegacyAssumption DEF Inv, TypeOK
<1>2. CASE RegisterLegacyObservable(n, s)
  <2>1. Put(legacy[n], s, 0) \in PartialFunctions(Series, 0..MaxValue)
    BY <1>1, PutPartial
  <2>2. /\ legacy' = [legacy EXCEPT ![n] = Put(legacy[n], s, 0)]
        /\ observables' = [observables EXCEPT ![n] = IF @ = 0 THEN 1 ELSE @]
        /\ UNCHANGED <<typedVars, isShutdown>>
    BY <1>2 DEF RegisterLegacyObservable
  <2> QED
    BY <2>1, <2>2, LegacyKeepsInv
<1>3. ASSUME NEW v \in 0..MaxValue, s \in DOMAIN legacy[n],
             legacy' = [legacy EXCEPT ![n][s] = v],
             UNCHANGED <<typedVars, observables, isShutdown>>
      PROVE  Inv'
  <2> DEFINE f == [legacy[n] EXCEPT ![s] = v]
  <2>1. f \in PartialFunctions(Series, 0..MaxValue)
    BY <1>1 DEF PartialFunctions
  <2>2. legacy' = [legacy EXCEPT ![n] = f]
    BY <1>1, <1>3
  <2>3. observables' = observables /\ DOMAIN legacy[n] # {}
    BY <1>3
  <2>4. UNCHANGED <<typedVars, isShutdown>>
    BY <1>3
  <2> HIDE DEF f
  <2> QED
    BY <2>1, <2>2, <2>3, <2>4, LegacyKeepsInv
<1>4. CASE IncrementMetric(n, s)
  <2>1. /\ s \in DOMAIN legacy[n] /\ legacy[n][s] < MaxValue
        /\ legacy' = [legacy EXCEPT ![n][s] = legacy[n][s] + 1]
        /\ UNCHANGED <<typedVars, observables, isShutdown>>
    BY <1>4 DEF IncrementMetric
  <2>2. legacy[n][s] \in 0..MaxValue
    BY <1>1, <2>1 DEF PartialFunctions
  <2>3. legacy[n][s] + 1 \in 0..MaxValue
    BY <1>1, <2>1, <2>2
  <2> QED
    BY <1>3, <2>1, <2>3
<1>5. CASE \E v \in Values : UpdateMetric(n, s, v)
  BY <1>1, <1>3, <1>5 DEF UpdateMetric
<1> QED
  BY <1>2, <1>4, <1>5

LEMMA ShutdownKeepsInv ==
  ASSUME Inv, Shutdown
  PROVE  Inv'
BY DEF Inv, Shutdown, TypeOK, SeriesFinite, UndefinedIsEmpty, SlotsAccounted, IsGauge,
       OneObservable, ScrapedOnce, typedVars, legacyVars

LEMMA InvInductive == Inv /\ [Next]_vars => Inv'
<1> SUFFICES ASSUME Inv, [Next]_vars PROVE Inv'
  OBVIOUS
<1>1. ASSUME NEW n \in Names, NEW d \in Definition, CreateDirectly(n, d) \/ GetOrCreate(n, d)
      PROVE  Inv'
  BY <1>1, DefinitionSteps, DefinitionKeepsInv
<1>2. ASSUME NEW n \in Names, NEW s \in Series, Observe(n, s) PROVE Inv'
  BY <1>2, ObserveKeepsInv
<1>3. ASSUME NEW n \in Names, CallGauge(n) PROVE Inv'
  BY <1>3, CallKeepsInv
<1>4. ASSUME NEW n \in LegacyNames, NEW s \in Series,
             \/ RegisterLegacyObservable(n, s)
             \/ IncrementMetric(n, s)
             \/ \E v \in Values : UpdateMetric(n, s, v)
      PROVE  Inv'
  BY <1>4, ObservableSteps
<1>5. CASE Shutdown
  BY <1>5, ShutdownKeepsInv
<1>6. CASE UNCHANGED vars
  BY <1>6, UnchangedKeepsInv DEF vars, typedVars
<1> QED
  BY <1>1, <1>2, <1>3, <1>4, <1>5, <1>6 DEF Next

LEMMA InvAlways == Spec => []Inv
BY InvInitial, InvInductive, PTL DEF Spec

\* The state keeps its shape: a sample belongs to a series, a name to one definition.
THEOREM TypeCorrect == Spec => []TypeOK
BY InvAlways, PTL DEF Inv

\* No slot leaks and no limit is passed, for any limits and any number of series.
THEOREM Slots == Spec => []SlotsAccounted
BY InvAlways, PTL DEF Inv

\* A registered observable series is exported once.
THEOREM Scraped == Spec => []ScrapedOnce
BY InvAlways, PTL DEF Inv

-----------------------------------------------------------------------------
(* The gauges implement BoundedGauges.                                     *)

LEMMA RefinesInit == Init => Gauges!Init
BY DEF Init, Gauges!Init, Gauges!Empty, Empty, Gauges!NoCall, NoCall, OpenGauges, IsGauge

\* A gauge is defined by opening it; any other definition is no step of the gauges.
LEMMA DefinitionOpens ==
  ASSUME Inv, NEW k \in Names, NEW d \in Definition, RegisterDefinition(k, d),
         UNCHANGED <<samples, series, call, legacyVars, isShutdown>>
  PROVE  Gauges!Open(k) \/ UNCHANGED <<samples, OpenGauges, call>>
<1>1. ~isShutdown /\ k \notin DOMAIN definitions /\ definitions' = Put(definitions, k, d)
  BY DEF RegisterDefinition
<1>3. /\ DOMAIN definitions' = DOMAIN definitions \cup {k} /\ definitions'[k] = d
      /\ \A m \in DOMAIN definitions : definitions'[m] = definitions[m]
  <2>1. /\ DOMAIN Put(definitions, k, d) = DOMAIN definitions \cup {k}
        /\ Put(definitions, k, d)[k] = d
        /\ \A z \in DOMAIN definitions \ {k} : Put(definitions, k, d)[z] = definitions[z]
    BY DEF Put
  <2> QED
    BY <1>1, <2>1
<1>4. \A m \in Names : IsGauge(m)' <=> IsGauge(m) \/ (m = k /\ d.kind = "gauge")
  BY <1>1, <1>3 DEF IsGauge
<1>5. OpenGauges' = IF d.kind = "gauge" THEN OpenGauges \cup {k} ELSE OpenGauges
  BY <1>1, <1>4 DEF OpenGauges
<1> QED
  BY <1>5 DEF Gauges!Open

\* A call of a gauge is the same call of the abstract one.
LEMMA CallPerforms ==
  ASSUME Inv, NEW n \in Names, CallGauge(n)
  PROVE  \E c \in Gauges!Calls : Gauges!Perform(c)
<1>1. PICK c \in Gauges!Calls :
        /\ c.name = n /\ call' = c
        /\ Takes(n, Gauges!Effect(samples[n], c))
  BY CallTakes
<1>2. IsGauge(n) /\ UNCHANGED <<definitions, isShutdown>>
  BY CallTakes
<1>3. OpenGauges' = OpenGauges /\ (n \in OpenGauges <=> ~isShutdown)
  BY <1>2 DEF OpenGauges, IsGauge
<1>4. samples' = IF n \in OpenGauges /\ Gauges!Cardinality(DOMAIN Gauges!Effect(samples[n], c)) <= SeriesLimit[n]
                   THEN [samples EXCEPT ![n] = Gauges!Effect(samples[n], c)] ELSE samples
  BY <1>1, <1>3, SameCardinality DEF Takes
<1> QED
  BY <1>1, <1>3, <1>4 DEF Gauges!Perform

LEMMA RefinesNext == Inv /\ [Next]_vars => [Gauges!Next]_<<samples, OpenGauges, call>>
<1> SUFFICES ASSUME Inv, [Next]_vars PROVE [Gauges!Next]_<<samples, OpenGauges, call>>
  OBVIOUS
<1>1. ASSUME NEW n \in Names, NEW d \in Definition, CreateDirectly(n, d) \/ GetOrCreate(n, d)
      PROVE  [Gauges!Next]_<<samples, OpenGauges, call>>
  BY <1>1, DefinitionSteps, DefinitionOpens DEF Gauges!Next
<1>2. ASSUME NEW n \in Names, CallGauge(n)
      PROVE  [Gauges!Next]_<<samples, OpenGauges, call>>
  BY <1>2, CallPerforms DEF Gauges!Next
<1>3. CASE Shutdown
  <2>1. OpenGauges' = {} /\ UNCHANGED <<samples, call>>
    BY <1>3 DEF Shutdown, OpenGauges, typedVars
  <2> QED
    BY <2>1 DEF Gauges!Next, Gauges!CloseAll
<1>4. ASSUME UNCHANGED <<definitions, samples, call, isShutdown>>
      PROVE  [Gauges!Next]_<<samples, OpenGauges, call>>
  BY <1>4 DEF OpenGauges, IsGauge
<1>5. CASE \/ \E n \in Names, s \in Series : Observe(n, s)
           \/ \E n \in LegacyNames, s \in Series :
                \/ RegisterLegacyObservable(n, s)
                \/ IncrementMetric(n, s)
                \/ \E v \in Values : UpdateMetric(n, s, v)
           \/ UNCHANGED vars
  BY <1>4, <1>5 DEF Observe, RegisterLegacyObservable, IncrementMetric, UpdateMetric, vars, typedVars
<1> QED
  BY <1>1, <1>2, <1>3, <1>5 DEF Next

\* The gauges of a PromClient implement BoundedGauges, whatever else it holds.
THEOREM Refinement == Spec => ImplementsBoundedGauges
BY InvAlways, RefinesInit, RefinesNext, PTL DEF Spec, ImplementsBoundedGauges, Gauges!Spec

=============================================================================
