-------------------------- MODULE GateInputsProofs ---------------------------
(* Whatever file and environment the gate is started with, a configuration    *)
(* that load_config accepts is one the rest of the specification is about;    *)
(* and whatever it then reads, what it makes of it is right.                  *)
EXTENDS GateInputs, FoldProofs

Tier == [kv_pct : Int \cup {NaN}, max_context : Int, timeout_s : Int]

KnobsTyped(knobs) ==
  /\ \A k \in DOMAIN knobs : knobs[k] \in Int \cup {NaN}
  /\ \A k \in DOMAIN knobs \cap IntKnobs : knobs[k] \in Int

BackendTyped(b) ==
  /\ b.name \in Names
  /\ b.port \in Int
  /\ b.models \in Seq(Models)
  /\ b.default \in BOOLEAN
  /\ b.thresholds = None \/ b.thresholds \in Seq(Tier)
  /\ DOMAIN b.knobs \subseteq BackendKnobs
  /\ KnobsTyped(b.knobs)

BackendsTyped(backends) ==
  /\ IsSequence(backends)
  /\ backends = [i \in 1..Len(backends) |-> backends[i]]
  /\ \A i \in DOMAIN backends : BackendTyped(backends[i])

RoutingTyped(routing) ==
  /\ DOMAIN routing \subseteq Models
  /\ \A m \in DOMAIN routing :
       LET e == routing[m]
       IN  /\ e \in [policy : Policies, order : Seq(Names), threshold_tokens : Nat \cup {None}]
           /\ e.order # <<>>
           /\ Distinct(e.order)
           /\ e.policy = "large_small" <=> e.threshold_tokens # None

\* What load_config has at any time, in range or not.
DataTyped(d) ==
  /\ DOMAIN d.knobs = Knobs
  /\ KnobsTyped(d.knobs)
  /\ d.thresholds \in Seq(Tier)
  /\ BackendsTyped(d.backends)
  /\ RoutingTyped(d.routing)

LoadInv ==
  /\ file # None => IsLayer(file)
  /\ IsLayer(env)
  /\ DataTyped(data)
  /\ stage = "accepted" => Valid(data)

-----------------------------------------------------------------------------
(* The parsers return what DataTyped says, of a layer they accept.            *)

LEMMA KnobValuesTyped ==
  ASSUME NEW knobs, NEW keys, IsKnobs(knobs, keys), KnobsParse(knobs)
  PROVE  DOMAIN KnobValues(knobs) \subseteq keys /\ KnobsTyped(KnobValues(knobs))
<1>1. ASSUME NEW k \in DOMAIN knobs
      PROVE  /\ knobs[k].value \in Int \cup {NaN}
             /\ k \in IntKnobs => knobs[k].value \in Int
  <2>1. knobs[k] \in Raw
    BY DEF IsKnobs
  <2>2. k \in IntKnobs => knobs[k].type = "int"
    BY DEF KnobsParse, IsInt
  <2> QED BY <2>1, <2>2 DEF Raw
<1> QED BY <1>1 DEF KnobValues, KnobsTyped, IsKnobs

LEMMA TierValuesTyped ==
  ASSUME NEW tiers, tiers \in Seq(RawTier), TiersParse(tiers)
  PROVE  TierValues(tiers) \in Seq(Tier)
<1>1. ASSUME NEW i \in DOMAIN tiers
      PROVE  [kv_pct |-> tiers[i].kv_pct.value, max_context |-> tiers[i].max_context.value,
              timeout_s |-> tiers[i].timeout_s.value] \in Tier
  <2>1. tiers[i] \in RawTier
    OBVIOUS
  <2>2. tiers[i].kv_pct \in Raw /\ tiers[i].max_context \in Raw /\ tiers[i].timeout_s \in Raw
    BY <2>1 DEF RawTier
  <2>3. tiers[i].max_context.type = "int" /\ tiers[i].timeout_s.type = "int"
    BY DEF TiersParse, IsInt
  <2>4. tiers[i].max_context.value \in Int /\ tiers[i].timeout_s.value \in Int
    BY <2>2, <2>3 DEF Raw
  <2>5. tiers[i].kv_pct.value \in Int \cup {NaN}
    BY <2>2 DEF Raw
  <2> QED BY <2>4, <2>5 DEF Tier
<1>2. Len(tiers) \in Nat /\ DOMAIN tiers = 1..Len(tiers)
  OBVIOUS
<1> QED BY <1>1, <1>2 DEF TierValues

LEMMA ParsedBackendsTyped ==
  ASSUME NEW entries, IsSequence(entries), BackendsParse(entries),
         \A i \in DOMAIN entries : IsEntry(entries[i])
  PROVE  BackendsTyped(ParsedBackends(entries))
<1> DEFINE parsed == ParsedBackends(entries)
<1>1. /\ Len(entries) \in Nat /\ DOMAIN entries = 1..Len(entries)
      /\ DOMAIN parsed = 1..Len(entries)
  BY DEF IsSequence, ParsedBackends
<1>2. /\ Len(parsed) = Len(entries)
      /\ parsed = [i \in 1..Len(parsed) |-> parsed[i]]
  BY <1>1 DEF ParsedBackends
<1>3. ASSUME NEW i \in DOMAIN entries PROVE BackendTyped(parsed[i])
  <2> DEFINE e == entries[i]
  <2>1. /\ e.name # None /\ IsInt(e.port) /\ OptionalTiersParse(e.thresholds)
        /\ KnobsParse(e.knobs)
    BY DEF BackendsParse
  <2>2. IsEntry(e)
    OBVIOUS
  <2>3. e.port.value \in Int
    BY <2>1, <2>2 DEF IsEntry, Raw, IsInt
  <2>4. DOMAIN KnobValues(e.knobs) \subseteq BackendKnobs /\ KnobsTyped(KnobValues(e.knobs))
    BY <2>1, <2>2, KnobValuesTyped DEF IsEntry
  <2>5. OptionalTierValues(e.thresholds) = None \/ OptionalTierValues(e.thresholds) \in Seq(Tier)
    BY <2>1, <2>2, TierValuesTyped DEF IsEntry, OptionalTierValues, OptionalTiersParse
  <2>6. parsed[i] = [name |-> e.name, port |-> e.port.value, models |-> e.models,
                     default |-> e.default, thresholds |-> OptionalTierValues(e.thresholds),
                     knobs |-> KnobValues(e.knobs)]
    BY DEF ParsedBackends
  <2> HIDE DEF e, parsed
  <2> QED BY <2>1, <2>2, <2>3, <2>4, <2>5, <2>6 DEF BackendTyped, IsEntry
<1> QED BY <1>1, <1>2, <1>3 DEF BackendsTyped, IsSequence

LEMMA ParsedRoutingTyped ==
  ASSUME NEW routing, RoutingParses(routing), DOMAIN routing \subseteq Models,
         \A m \in DOMAIN routing : routing[m] \in RawSpec
  PROVE  RoutingTyped(ParsedRouting(routing))
<1>1. ASSUME NEW m \in DOMAIN routing
      PROVE  LET e == [routing[m] EXCEPT !.threshold_tokens = IF @ = None THEN None ELSE @.value]
             IN  /\ e \in [policy : Policies, order : Seq(Names), threshold_tokens : Nat \cup {None}]
                 /\ e.order # <<>>
                 /\ Distinct(e.order)
                 /\ e.policy = "large_small" <=> e.threshold_tokens # None
  <2> DEFINE r == routing[m]
             t == r.threshold_tokens
  <2>1. r \in RawSpec
    OBVIOUS
  <2>2. /\ r.policy \in Policies /\ r.order # <<>> /\ Distinct(r.order)
        /\ t # None => IsInt(t) /\ t.value >= 1
        /\ r.policy = "large_small" <=> t # None
    BY DEF RoutingParses
  <2>3. t # None => t.value \in Nat /\ t.value # None
    <3>1. t \in Raw \cup {None}
      BY <2>1 DEF RawSpec
    <3>2. t # None => t.value \in Int
      BY <3>1, <2>2 DEF Raw, IsInt
    <3> QED BY <3>2, <2>2, RawAssumption
  <2>4. [r EXCEPT !.threshold_tokens = IF @ = None THEN None ELSE @.value]
          = [policy |-> r.policy, order |-> r.order,
             threshold_tokens |-> IF t = None THEN None ELSE t.value]
    BY <2>1 DEF RawSpec
  <2>5. r.order \in Seq(Names)
    BY <2>1 DEF RawSpec
  <2> HIDE DEF r, t
  <2> QED BY <2>2, <2>3, <2>4, <2>5 DEF r, t
<1>2. DOMAIN ParsedRouting(routing) = DOMAIN routing
  BY DEF ParsedRouting
<1> QED BY <1>1, <1>2 DEF RoutingTyped, ParsedRouting

LEMMA DefaultsTyped == DataTyped(Defaults)
<1>1. DOMAIN Defaults.knobs = Knobs
  BY DEF Defaults, Knobs, IntKnobs, NumberKnobs
<1>2. \A k \in Knobs : Defaults.knobs[k] \in Int
  BY DEF Defaults, Knobs, IntKnobs, NumberKnobs
<1>3. KnobsTyped(Defaults.knobs)
  BY <1>1, <1>2 DEF KnobsTyped
<1>4. Defaults.thresholds \in Seq(Tier) /\ BackendsTyped(Defaults.backends)
  BY DEF Defaults, BackendsTyped, IsSequence
<1>5. RoutingTyped(Defaults.routing)
  BY DEF Defaults, RoutingTyped
<1> QED BY <1>1, <1>3, <1>4, <1>5 DEF DataTyped

LEMMA OverlayTyped ==
  ASSUME NEW d, DataTyped(d), NEW layer, IsLayer(layer), LayerParses(layer)
  PROVE  DataTyped(Overlay(d, layer))
<1> DEFINE o == Overlay(d, layer)
<1>1. DOMAIN o.knobs = Knobs /\ KnobsTyped(o.knobs)
  <2>1. KnobsTyped(KnobValues(layer.knobs))
    BY KnobValuesTyped DEF IsLayer, LayerParses
  <2>2. \A k \in Knobs : o.knobs[k] = IF k \in DOMAIN layer.knobs THEN KnobValues(layer.knobs)[k]
                                      ELSE d.knobs[k]
    BY DEF Overlay, KnobValues
  <2>3. DOMAIN o.knobs = Knobs /\ DOMAIN KnobValues(layer.knobs) = DOMAIN layer.knobs
    BY DEF Overlay, KnobValues
  <2>4. DOMAIN d.knobs = Knobs /\ KnobsTyped(d.knobs)
    BY DEF DataTyped
  <2> HIDE DEF o
  <2> QED BY <2>1, <2>2, <2>3, <2>4 DEF KnobsTyped
<1>2. o.thresholds \in Seq(Tier)
  BY TierValuesTyped DEF Overlay, IsLayer, LayerParses, OptionalTiersParse, DataTyped
<1>3. BackendsTyped(o.backends)
  BY ParsedBackendsTyped DEF Overlay, IsLayer, LayerParses, DataTyped
<1>4. RoutingTyped(o.routing)
  BY ParsedRoutingTyped DEF Overlay, IsLayer, LayerParses, DataTyped
<1> HIDE DEF o
<1> QED BY <1>1, <1>2, <1>3, <1>4 DEF DataTyped, o

-----------------------------------------------------------------------------
(* What the ranges and the types together say of the resolved configuration.  *)

LEMMA IndexOf ==
  ASSUME NEW b \in BackendNames(data)
  PROVE  Index(b) \in DOMAIN data.backends /\ data.backends[Index(b)].name = b
BY DEF BackendNames, Index

LEMMA EffectiveInRange ==
  ASSUME DataTyped(data), Valid(data), NEW i \in DOMAIN data.backends, NEW k \in BackendKnobs
  PROVE  /\ Effective(data, i, k) \in Int \cup {NaN}
         /\ k \in IntKnobs => Effective(data, i, k) \in Int
         /\ InRange(k, Effective(data, i, k))
<1>1. BackendTyped(data.backends[i]) /\ KnobsTyped(data.knobs) /\ DOMAIN data.knobs = Knobs
  BY DEF DataTyped, BackendsTyped
<1>2. \A j \in DOMAIN data.backends[i].knobs : InRange(j, data.backends[i].knobs[j])
  BY DEF Valid, ValidBackendList
<1>3. \A j \in Knobs : InRange(j, data.knobs[j])
  BY DEF Valid
<1>4. BackendKnobs \subseteq Knobs
  BY DEF BackendKnobs, Knobs, IntKnobs, NumberKnobs
<1> QED BY <1>1, <1>2, <1>3, <1>4 DEF Effective, BackendTyped, KnobsTyped

LEMMA BackendsServable ==
  ASSUME DataTyped(data), Valid(data)
  PROVE  Running!ValidBackends
<1> DEFINE n == Len(data.backends)
           names == [i \in DOMAIN data.backends |-> data.backends[i].name]
<1>1. /\ n \in Nat /\ DOMAIN data.backends = 1..n
      /\ data.backends = [i \in 1..n |-> data.backends[i]]
      /\ \A i \in 1..n : BackendTyped(data.backends[i])
  BY DEF DataTyped, BackendsTyped, IsSequence
<1>2. /\ data.backends # <<>>
      /\ \A i, j \in 1..n : data.backends[i].name = data.backends[j].name => i = j
      /\ \A i, j \in 1..n : data.backends[i].default /\ data.backends[j].default => i = j
  BY <1>1 DEF Valid, ValidBackendList
<1>3. names \in Seq(BackendNames(data)) /\ DOMAIN names = 1..n
  BY <1>1 DEF BackendNames
<1>4. n # 0
  BY <1>1, <1>2
<1>5. names # <<>>
  BY <1>3, <1>4, <1>1
<1>6. Listed(names) = BackendNames(data)
  BY <1>1 DEF Listed, BackendNames
<1>7. \A i, j \in DOMAIN names : names[i] = names[j] => i = j
  BY <1>1, <1>2
<1>8. \A b, c \in {b \in BackendNames(data) : data.backends[Index(b)].default} : b = c
  BY <1>1, <1>2, IndexOf
<1>9. [b \in BackendNames(data) |-> Listed(data.backends[Index(b)].models)]
        \in [BackendNames(data) -> SUBSET Models]
  BY <1>1, IndexOf DEF BackendTyped, Listed
<1> HIDE DEF names, n
<1> QED BY <1>3, <1>5, <1>6, <1>7, <1>8, <1>9
    DEF Running!ValidBackends, Running!Listed, Running!NoRepeats, Listed, names

LEMMA TiersServable ==
  ASSUME NEW tiers, tiers \in Seq(Tier), ValidTiers(tiers)
  PROVE  /\ Listed(tiers) \subseteq [kv_pct : 0..100, max_context : Nat \ {0}, timeout_s : Nat \ {0}]
         /\ \A s, t \in Listed(tiers) : s.kv_pct = t.kv_pct => s = t
<1>1. ASSUME NEW i \in DOMAIN tiers
      PROVE  tiers[i] \in [kv_pct : 0..100, max_context : Nat \ {0}, timeout_s : Nat \ {0}]
  <2>1. tiers[i] \in Tier
    OBVIOUS
  <2>2. tiers[i].kv_pct \in Int \cup {NaN} /\ tiers[i].max_context \in Int
          /\ tiers[i].timeout_s \in Int
    BY <2>1 DEF Tier
  <2>3. \A v \in Int \cup {NaN} : v # NaN /\ 0 <= v /\ v <= 100 => v \in 0..100
    OBVIOUS
  <2>4. tiers[i].kv_pct # NaN /\ 0 <= tiers[i].kv_pct /\ tiers[i].kv_pct <= 100
    BY DEF ValidTiers, Finite
  <2>5. tiers[i].kv_pct \in 0..100
    BY <2>2, <2>3, <2>4
  <2>6. tiers[i].max_context \in Nat \ {0} /\ tiers[i].timeout_s \in Nat \ {0}
    BY <2>2 DEF ValidTiers
  <2>7. tiers[i] = [kv_pct |-> tiers[i].kv_pct, max_context |-> tiers[i].max_context,
                    timeout_s |-> tiers[i].timeout_s]
    BY <2>1 DEF Tier
  <2> HIDE DEF Tier
  <2> QED BY <2>5, <2>6, <2>7
<1>2. \A i, j \in DOMAIN tiers : tiers[i].kv_pct = tiers[j].kv_pct => i = j
  BY DEF ValidTiers
<1> QED BY <1>1, <1>2 DEF Listed

LEMMA KnobsServable ==
  ASSUME DataTyped(data), Valid(data)
  PROVE  Running!ValidKnobs
<1>1. ASSUME NEW b \in BackendNames(data)
      PROVE  /\ KnobOf("target_kv_cache_pct")[b] \in 1..100
             /\ KnobOf("token_margin")[b] \in Nat /\ KnobOf("token_margin")[b] >= 1
             /\ KnobOf("retry_min_s")[b] \in Nat /\ 1 <= KnobOf("retry_min_s")[b]
             /\ KnobOf("retry_max_s")[b] \in Nat
             /\ KnobOf("retry_min_s")[b] <= KnobOf("retry_max_s")[b]
  <2> DEFINE i == Index(b)
  <2>1. i \in DOMAIN data.backends
    BY IndexOf
  <2> HIDE DEF i
  <2>2. \A k \in BackendKnobs :
          /\ Effective(data, i, k) \in Int \cup {NaN}
          /\ k \in IntKnobs => Effective(data, i, k) \in Int
          /\ InRange(k, Effective(data, i, k))
    BY <2>1, EffectiveInRange
  <2>3. Effective(data, i, "target_kv_cache_pct") \in 1..100
    BY <2>2 DEF BackendKnobs, InRange, Finite
  <2>4. Effective(data, i, "token_margin") \in Nat /\ Effective(data, i, "token_margin") >= 1
    BY <2>2 DEF BackendKnobs, InRange, Finite, NumberKnobs
  <2>5. Effective(data, i, "retry_min_s") \in Nat /\ Effective(data, i, "retry_min_s") >= 1
    BY <2>2 DEF BackendKnobs, InRange, NumberKnobs, IntKnobs
  <2>6. Effective(data, i, "retry_max_s") \in Int
    BY <2>2 DEF BackendKnobs, IntKnobs
  <2>7. Effective(data, i, "retry_max_s") >= Effective(data, i, "retry_min_s")
    BY <2>1 DEF Valid, ValidBackendList, RetryPairs
  <2> QED BY <2>3, <2>4, <2>5, <2>6, <2>7 DEF KnobOf, i
<1>2. ASSUME NEW b \in BackendNames(data)
      PROVE  /\ TiersOf(b) \subseteq Running!Tier
             /\ \A s, t \in TiersOf(b) : s.kv_pct = t.kv_pct => s = t
  <2>1. Index(b) \in DOMAIN data.backends
    BY IndexOf
  <2>2. data.thresholds \in Seq(Tier) /\ ValidTiers(data.thresholds)
    BY DEF DataTyped, Valid
  <2>3. LET own == data.backends[Index(b)].thresholds
        IN  own # None => own \in Seq(Tier) /\ ValidTiers(own)
    BY <2>1 DEF DataTyped, BackendsTyped, BackendTyped, Valid, ValidBackendList
  <2> QED BY <2>2, <2>3, TiersServable DEF TiersOf, Running!Tier
<1>3. /\ KnobOf("token_margin") \in [BackendNames(data) -> Nat]
      /\ KnobOf("retry_min_s") \in [BackendNames(data) -> Nat]
      /\ KnobOf("retry_max_s") \in [BackendNames(data) -> Nat]
      /\ KnobOf("target_kv_cache_pct") \in [BackendNames(data) -> 1..100]
  BY <1>1 DEF KnobOf
<1> QED BY <1>1, <1>2, <1>3 DEF Running!ValidKnobs

LEMMA RoutingServable ==
  ASSUME DataTyped(data), Valid(data)
  PROVE  Running!ValidRouting
<1>1. RoutingTyped(data.routing)
  BY DEF DataTyped
<1>2. ASSUME NEW m \in DOMAIN data.routing
      PROVE  data.routing[m] \in Running!RoutingSpec
  <2> DEFINE e == data.routing[m]
  <2>1. e \in [policy : Policies, order : Seq(Names), threshold_tokens : Nat \cup {None}]
    BY <1>1 DEF RoutingTyped
  <2>2. Listed(e.order) \subseteq BackendNames(data)
    BY DEF Valid, ValidRoutingSection
  <2>3. e.order \in Seq(BackendNames(data))
    <3>1. e.order \in Seq(Names)
      BY <2>1
    <3>2. \A i \in 1..Len(e.order) : e.order[i] \in BackendNames(data)
      BY <3>1, <2>2 DEF Listed
    <3> QED BY <3>1, <3>2
  <2> HIDE DEF e
  <2> QED BY <2>1, <2>3 DEF e, Running!RoutingSpec, Running!Policies, Running!NatOrNone, Policies
<1> QED BY <1>1, <1>2 DEF Running!ValidRouting, Running!NoRepeats, RoutingTyped, Distinct

-----------------------------------------------------------------------------
(* The load.                                                                  *)

LEMMA LoadInvStep ==
  ASSUME LoadInv, [LoadNext]_loadVars
  PROVE  LoadInv'
<1>1. CASE MergesFile
  BY <1>1, OverlayTyped DEF MergesFile, Merges, LoadInv
<1>2. CASE FindsNoFile
  BY <1>2 DEF FindsNoFile, LoadInv
<1>3. CASE AppliesEnv
  BY <1>3, OverlayTyped DEF AppliesEnv, Merges, LoadInv
<1>4. CASE Validates
  BY <1>4 DEF Validates, LoadInv
<1>5. CASE UNCHANGED loadVars
  BY <1>5 DEF loadVars, LoadInv
<1> QED BY <1>1, <1>2, <1>3, <1>4, <1>5 DEF LoadNext

LEMMA LoadedServable == LoadInv => AcceptedIsServable
  BY BackendsServable, KnobsServable, RoutingServable DEF LoadInv, AcceptedIsServable

\* The configuration alone, before anything is polled or requested.
LEMMA LoadServable == LoadSpec => []AcceptedIsServable
<1>1. LoadInit => LoadInv
  BY DefaultsTyped, LoadAssumption DEF LoadInit, LoadInv
<1>2. LoadInv /\ [LoadNext]_loadVars => LoadInv'
  BY LoadInvStep
<1> QED BY <1>1, <1>2, LoadedServable, PTL DEF LoadSpec

-----------------------------------------------------------------------------
(* What a poll makes of a metrics body.                                       *)

LEMMA MaxIsGreatest ==
  ASSUME NEW S, IsFiniteSet(S), S # {}, S \subseteq Int
  PROVE  Max(S) \in S /\ Max(S) \in Int /\ \A y \in S : y <= Max(S)
<1>1. PICK x \in S : \A y \in S : y <= x
  BY FiniteIntBounds
<1>2. \A y \in S : x >= y
  BY <1>1
<1>3. Max(S) \in S /\ \A y \in S : Max(S) >= y
  BY <1>2 DEF Max
<1> QED
  BY <1>3

\* The finite samples of a family, and their values.
LEMMA SamplesFacts ==
  ASSUME NEW body, IsExposed(body), NEW family
  PROVE  LET samples == FiniteSamples(body, family)
         IN  /\ \A T \in SUBSET samples : IsFiniteSet(Values(T)) /\ Values(T) \subseteq Int
             /\ IsFiniteSet(samples)
<1> DEFINE samples == FiniteSamples(body, family)
<1>1. IsFiniteSet(samples)
  <2>1. CASE family \in DOMAIN body
    <3>1. samples \subseteq body[family] /\ IsFiniteSet(body[family])
      BY <2>1 DEF FiniteSamples, IsExposed
    <3> QED BY <3>1, FS_Subset
  <2>2. CASE family \notin DOMAIN body
    BY <2>2, FS_EmptySet DEF FiniteSamples
  <2> QED BY <2>1, <2>2
<1>2. \A s \in samples : s.value \in Int
  BY DEF FiniteSamples, IsExposed, Finite
<1> HIDE DEF samples
<1>3. ASSUME NEW T \in SUBSET samples
      PROVE  IsFiniteSet(Values(T)) /\ Values(T) \subseteq Int
  <2> DEFINE h == [s \in T |-> s.value]
  <2>1. Values(T) = {h[s] : s \in T}
    BY DEF Values
  <2>2. IsFiniteSet(T)
    BY <1>1, FS_Subset
  <2>3. IsFiniteSet(Values(T))
    <3> HIDE DEF h
    <3> QED BY <2>1, <2>2, FiniteImage
  <2> QED BY <1>2, <2>3 DEF Values
<1> QED
  BY <1>1, <1>3 DEF samples

\* The greatest of the usages by model is the usage.
LEMMA ByModelFacts ==
  ASSUME NEW body, IsExposed(body), NEW family
  PROVE  LET samples == FiniteSamples(body, family)
             by      == ByModelFrom(body, family)
         IN  /\ DOMAIN by = {} <=> samples = {}
             /\ \A m \in DOMAIN by : by[m] \in Int
             /\ samples # {} => /\ MaxOrNone(Values(samples)) = SetMax(by)
                                /\ SetMax(by) \in Int
<1> DEFINE samples == FiniteSamples(body, family)
           by      == ByModelFrom(body, family)
           of(m)   == {s \in samples : s.model = m}
           all     == {by[m] : m \in DOMAIN by}
<1>1. /\ IsFiniteSet(samples) /\ IsFiniteSet(Values(samples)) /\ Values(samples) \subseteq Int
      /\ \A m : IsFiniteSet(Values(of(m))) /\ Values(of(m)) \subseteq Int
  <2>1. samples \in SUBSET samples /\ \A m : of(m) \in SUBSET samples
    OBVIOUS
  <2> HIDE DEF of, samples
  <2> QED BY <2>1, SamplesFacts DEF samples
<1>2. DOMAIN by = {s.model : s \in samples} /\ \A m \in DOMAIN by : by[m] = Max(Values(of(m)))
  BY DEF ByModelFrom
<1> HIDE DEF by, samples
<1>3. ASSUME NEW m \in DOMAIN by
      PROVE  by[m] \in Values(of(m)) /\ by[m] \in Int /\ \A v \in Values(of(m)) : v <= by[m]
  <2>1. Values(of(m)) # {}
    BY <1>2 DEF Values
  <2> HIDE DEF of
  <2> QED BY <1>1, <1>2, <2>1, MaxIsGreatest
<1>4. ASSUME samples # {}
      PROVE  /\ MaxOrNone(Values(samples)) = SetMax(by)
             /\ SetMax(by) \in Int
  <2>1. Values(samples) # {} /\ DOMAIN by # {}
    BY <1>2, <1>4 DEF Values
  <2>2. IsFiniteSet(all)
    <3> DEFINE h == [s \in samples |-> s.model]
    <3>1. IsFiniteSet({h[s] : s \in samples}) /\ {h[s] : s \in samples} = DOMAIN by
      <4>1. {h[s] : s \in samples} = DOMAIN by
        BY <1>2
      <4> HIDE DEF h
      <4> QED BY <1>1, <4>1, FiniteImage
    <3>2. IsFiniteSet(DOMAIN by)
      BY <3>1
    <3> QED BY <3>2, FiniteImage
  <2>3. all # {} /\ all \subseteq Int
    BY <1>3, <2>1
  <2>4. Max(all) \in all /\ Max(all) \in Int /\ \A y \in all : y <= Max(all)
    <3> HIDE DEF all
    <3> QED BY <2>2, <2>3, MaxIsGreatest
  <2>5. /\ Max(Values(samples)) \in Values(samples) /\ Max(Values(samples)) \in Int
        /\ \A y \in Values(samples) : y <= Max(Values(samples))
    BY <1>1, <2>1, MaxIsGreatest
  <2>6. Max(all) <= Max(Values(samples))
    <3>1. PICK m \in DOMAIN by : Max(all) = by[m]
      BY <2>4
    <3>2. by[m] \in Values(samples)
      BY <1>3 DEF Values
    <3> QED BY <2>5, <3>1, <3>2
  <2>7. Max(Values(samples)) <= Max(all)
    <3>1. PICK s \in samples : Max(Values(samples)) = s.value
      BY <2>5 DEF Values
    <3>2. s.model \in DOMAIN by /\ s.value \in Values(of(s.model))
      BY <1>2 DEF Values
    <3>3. s.value <= by[s.model] /\ by[s.model] \in all
      BY <1>3, <3>2
    <3>4. by[s.model] <= Max(all) /\ by[s.model] \in Int
      BY <1>3, <2>4, <3>2, <3>3
    <3> QED BY <2>4, <2>5, <3>1, <3>3, <3>4
  <2>8. Max(all) = Max(Values(samples))
    <3> HIDE DEF all
    <3> QED BY <2>4, <2>5, <2>6, <2>7
  <2> QED BY <2>1, <2>4, <2>8 DEF MaxOrNone, SetMax
<1> QED
  BY <1>2, <1>3, <1>4 DEF by, samples

\* A sample's two readings of the usage agree, and its capacity is a number of
\* tokens.
LEMMA ParsedFacts ==
  ASSUME NEW body, IsExposed(body)
  PROVE  LET sample == Parsed(body)
         IN  /\ sample.usage \in Int \cup {None}
             /\ DOMAIN sample.by_model = {} <=> sample.usage = None
             /\ sample.usage # None => SetMax(sample.by_model) = sample.usage
             /\ \A m \in DOMAIN sample.by_model : sample.by_model[m] \in Int
             /\ sample.capacity \in Nat \cup {None}
<1>1. /\ Usage(body) \in Int \cup {None}
      /\ DOMAIN UsageByModel(body) = {} <=> Usage(body) = None
      /\ Usage(body) # None => SetMax(UsageByModel(body)) = Usage(body)
      /\ \A m \in DOMAIN UsageByModel(body) : UsageByModel(body)[m] \in Int
  <2>1. CASE DetectEngine(body) = "unknown"
    BY <2>1 DEF Usage, UsageByModel, NoSeries
  <2>2. CASE DetectEngine(body) # "unknown"
    <3> DEFINE family  == UsageFamily(body)
               samples == FiniteSamples(body, family)
               by      == ByModelFrom(body, family)
    <3>1. Usage(body) = MaxOrNone(Values(samples)) /\ UsageByModel(body) = by
      BY <2>2 DEF Usage, UsageByModel
    <3>2. /\ DOMAIN by = {} <=> samples = {}
          /\ \A m \in DOMAIN by : by[m] \in Int
          /\ samples # {} => MaxOrNone(Values(samples)) = SetMax(by) /\ SetMax(by) \in Int
      BY ByModelFacts
    <3>3. samples = {} => MaxOrNone(Values(samples)) = None
      BY DEF MaxOrNone, Values
    <3> HIDE DEF family, samples, by
    <3> QED BY <3>1, <3>2, <3>3, RawAssumption
  <2> QED BY <2>1, <2>2
<1>2. Capacity(body) \in Nat \cup {None}
  <2>1. ASSUME NEW family
        PROVE  WholeTokens(PositiveIn(body, family)) \in Nat \cup {None}
    <3> DEFINE values == PositiveIn(body, family)
    <3>1. /\ IsFiniteSet(Values(FiniteSamples(body, family)))
          /\ Values(FiniteSamples(body, family)) \subseteq Int
      BY SamplesFacts
    <3>2. IsFiniteSet(values) /\ values \subseteq Nat \ {0}
      BY <3>1, FS_Subset DEF PositiveIn
    <3> HIDE DEF values
    <3>3. values # {} => Max(values) \in Nat \ {0}
      <4>1. values \subseteq Int
        BY <3>2
      <4>2. values # {} => Max(values) \in values
        BY <3>2, <4>1, MaxIsGreatest
      <4> QED BY <3>2, <4>2
    <3>4. ASSUME NEW n \in Nat PROVE n \div Unit \in Nat
      BY UnitAssumption
    <3>5. WholeTokens(values) \in Nat \cup {None}
      BY <3>3, <3>4 DEF WholeTokens
    <3> QED BY <3>5 DEF values
  <2> DEFINE families == CapacityFamilies(DetectEngine(body))
             first    == PositiveIn(body, families[1])
             second   == PositiveIn(body, families[2])
  <2>2. Capacity(body) \in {None, WholeTokens(first), WholeTokens(second)}
    BY DEF Capacity
  <2> QED BY <2>1, <2>2
<1> QED
  BY <1>1, <1>2 DEF Parsed

-----------------------------------------------------------------------------
(* What a scrape makes of the polls.                                          *)

ExpositionInv ==
  /\ ExpositionTypeOK
  /\ DOMAIN by_model = Backends
  /\ \A b \in Backends : \A m \in DOMAIN by_model[b] : by_model[b][m] \in Int
  /\ OneUsage
  /\ current => kv_usage = Merged

LEMMA PollsStep ==
  ASSUME ExpositionInv, NEW b, Polls(b)
  PROVE  ExpositionInv'
<1>1. PICK body \in Bodies :
        LET sample == Parsed(body)
        IN  /\ by_model' = [by_model EXCEPT ![b] =
                 IF DOMAIN sample.by_model = {} THEN @ ELSE sample.by_model]
            /\ value' = [value EXCEPT ![b] =
                 IF DOMAIN sample.by_model # {} THEN SetMax(sample.by_model)
                 ELSE IF sample.usage # None THEN sample.usage ELSE @]
            /\ capacity' = [capacity EXCEPT ![b] =
                 IF sample.capacity = None THEN @ ELSE sample.capacity]
            /\ anchored' = [anchored EXCEPT ![b] =
                 IF sample.usage = None THEN @ ELSE sample.usage]
            /\ current' = FALSE
            /\ UNCHANGED <<kv_usage, kv_models>>
  BY DEF Polls
<1> DEFINE sample == Parsed(body)
<1>2. /\ sample.usage \in Int \cup {None}
      /\ DOMAIN sample.by_model = {} <=> sample.usage = None
      /\ sample.usage # None => SetMax(sample.by_model) = sample.usage
      /\ \A m \in DOMAIN sample.by_model : sample.by_model[m] \in Int
      /\ sample.capacity \in Nat \cup {None}
  BY ParsedFacts, ExpositionAssumption
<1> HIDE DEF sample
<1>3. /\ value' = [value EXCEPT ![b] = IF sample.usage = None THEN @ ELSE sample.usage]
      /\ anchored' = [anchored EXCEPT ![b] = IF sample.usage = None THEN @ ELSE sample.usage]
  BY <1>1, <1>2 DEF sample
<1>4. /\ value \in [Backends -> Int \cup {None}] /\ anchored \in [Backends -> Int \cup {None}]
      /\ capacity \in [Backends -> Nat \cup {None}]
      /\ \A d \in Backends : value[d] = anchored[d]
  BY DEF ExpositionInv, ExpositionTypeOK, OneUsage
<1>5. /\ value' \in [Backends -> Int \cup {None}] /\ anchored' \in [Backends -> Int \cup {None}]
      /\ \A d \in Backends : value'[d] = anchored'[d]
  BY <1>2, <1>3, <1>4
<1>6. capacity' = [capacity EXCEPT ![b] = IF sample.capacity = None THEN @ ELSE sample.capacity]
  BY <1>1 DEF sample
<1>7. capacity' \in [Backends -> Nat \cup {None}]
  BY <1>2, <1>4, <1>6
<1>8. /\ DOMAIN by_model' = Backends
      /\ \A d \in Backends : \A m \in DOMAIN by_model'[d] : by_model'[d][m] \in Int
  <2>1. by_model' = [by_model EXCEPT ![b] =
          IF DOMAIN sample.by_model = {} THEN @ ELSE sample.by_model]
    BY <1>1 DEF sample
  <2>2. DOMAIN by_model' = Backends
    BY <2>1 DEF ExpositionInv
  <2>3. ASSUME NEW d \in Backends
        PROVE  by_model'[d] = by_model[d] \/ by_model'[d] = sample.by_model
    BY <2>1 DEF ExpositionInv
  <2> QED BY <1>2, <2>2, <2>3 DEF ExpositionInv
<1>9. current' = FALSE /\ kv_models' = DOMAIN kv_usage'
  BY <1>1 DEF ExpositionInv, ExpositionTypeOK
<1> QED
  BY <1>5, <1>7, <1>8, <1>9 DEF ExpositionInv, ExpositionTypeOK, OneUsage

LEMMA ScrapesStep ==
  ASSUME ExpositionInv, Scrapes
  PROVE  ExpositionInv'
<1> DEFINE by == Merged
<1>1. /\ kv_usage' = [m \in (DOMAIN kv_usage \ (kv_models \ DOMAIN by)) \cup DOMAIN by |->
                        IF m \in DOMAIN by THEN by[m] ELSE kv_usage[m]]
      /\ kv_models' = DOMAIN by
      /\ current' = TRUE /\ UNCHANGED <<value, by_model, capacity, anchored>>
  BY DEF Scrapes, SetKvUsage
<1>2. by = [m \in DOMAIN by |-> by[m]] /\ kv_models = DOMAIN kv_usage
  BY DEF Merged, ExpositionInv, ExpositionTypeOK
<1>3. Merged' = by
  BY <1>1 DEF Merged
<1> HIDE DEF by
<1>4. kv_usage' = by
  <2>1. (DOMAIN kv_usage \ (kv_models \ DOMAIN by)) \cup DOMAIN by = DOMAIN by
    BY <1>2
  <2> QED BY <1>1, <1>2, <2>1
<1> QED
  BY <1>1, <1>3, <1>4 DEF ExpositionInv, ExpositionTypeOK, OneUsage

LEMMA GaugeFromMerged == ExpositionInv => GaugeIsTheFullest
<1> SUFFICES ASSUME ExpositionInv, current PROVE GaugeIsTheFullest
  BY DEF GaugeIsTheFullest
<1> DEFINE having(m) == {b \in Backends : m \in DOMAIN by_model[b]}
           told(m)   == {by_model[b][m] : b \in having(m)}
<1>1. /\ DOMAIN kv_usage = UNION {DOMAIN by_model[b] : b \in Backends}
      /\ \A m \in DOMAIN kv_usage : kv_usage[m] = Max(told(m))
  BY DEF ExpositionInv, Merged
<1>2. ASSUME NEW m \in DOMAIN kv_usage
      PROVE  kv_usage[m] \in told(m) /\ \A v \in told(m) : v <= kv_usage[m]
  <2>1. told(m) # {} /\ told(m) \subseteq Int
    BY <1>1 DEF ExpositionInv
  <2>2. IsFiniteSet(told(m))
    <3> DEFINE h == [b \in having(m) |-> by_model[b][m]]
    <3>1. IsFiniteSet(having(m))
      BY ExpositionAssumption, FS_Subset
    <3>2. told(m) = {h[b] : b \in having(m)}
      OBVIOUS
    <3> HIDE DEF h, told, having
    <3> QED BY <3>1, <3>2, FiniteImage
  <2> HIDE DEF told
  <2> QED BY <1>1, <2>1, <2>2, MaxIsGreatest
<1> QED
  BY <1>1, <1>2 DEF GaugeIsTheFullest

-----------------------------------------------------------------------------
(* What an estimate counts.                                                   *)

\* The texts of one message.
TextsIn(items, i) ==
  IF items[i].is = "text" THEN {<<i, 0, items[i].length>>}
  ELSE IF items[i].is = "parts"
  THEN {<<i, j, items[i].parts[j].length>> : j \in {j \in DOMAIN items[i].parts : items[i].parts[j].text}}
  ELSE {}

LEMMA TextsInFacts ==
  ASSUME NEW items \in Seq(Content), NEW i \in DOMAIN items,
         NEW f, \A t \in TextsIn(items, i) : f[t] = t[3]
  PROVE  /\ IsFiniteSet(TextsIn(items, i))
         /\ \A t \in TextsIn(items, i) : t[1] = i /\ t[3] \in Nat
         /\ SumFunctionOnSet(f, TextsIn(items, i)) = ContentChars(items[i])
<1>1. items[i] \in Content
  OBVIOUS
<1>2. CASE items[i].is = "text"
  <2> DEFINE t == <<i, 0, items[i].length>>
  <2>1. TextsIn(items, i) = {t} /\ t[1] = i /\ t[3] = items[i].length
    BY <1>2 DEF TextsIn
  <2>2. items[i].length \in Nat /\ ContentChars(items[i]) = items[i].length
    BY <1>1, <1>2 DEF Content, ContentChars
  <2> HIDE DEF t
  <2>3. f[t] = items[i].length /\ f[t] \in Int
    BY <2>1, <2>2
  <2>4. SumFunctionOnSet(f, {t}) = items[i].length
    BY <2>3, SumSingleton
  <2> QED BY <2>1, <2>2, <2>4, FS_Singleton
<1>3. CASE items[i].is = "parts"
  <2> DEFINE parts == items[i].parts
             cut   == {j \in DOMAIN parts : parts[j].text}
             h     == [j \in cut |-> <<i, j, parts[j].length>>]
             g     == [j \in DOMAIN parts |-> IF parts[j].text THEN parts[j].length ELSE 0]
  <2>1. parts \in Seq(TextPart) /\ ContentChars(items[i]) = SumFunctionOnSet(g, DOMAIN g)
    BY <1>1, <1>3 DEF Content, ContentChars, SumFunction
  <2>2. IsFiniteSet(DOMAIN parts) /\ \A j \in DOMAIN parts : parts[j] \in TextPart
    BY <2>1, FS_Interval
  <2>3. \A j \in DOMAIN parts : parts[j].length \in Nat /\ parts[j].text \in BOOLEAN
    BY <2>2 DEF TextPart
  <2>4. TextsIn(items, i) = {h[j] : j \in cut}
    BY <1>3 DEF TextsIn
  <2> HIDE DEF parts
  <2>5. /\ DOMAIN g = DOMAIN parts /\ \A j \in DOMAIN parts : g[j] \in Int
        /\ \A j \in DOMAIN parts \ cut : g[j] = 0
        /\ \A j \in cut : g[j] = parts[j].length
        /\ cut \in SUBSET DOMAIN parts
    BY <2>3
  <2>6. IsFiniteSet(cut)
    BY <2>2, <2>5, FS_Subset
  <2>7. \A j \in cut : h[j][1] = i /\ h[j][2] = j /\ h[j][3] = parts[j].length
    OBVIOUS
  <2> HIDE DEF g, h, cut
  <2>8. \A j \in cut : f[h[j]] = g[j] /\ f[h[j]] \in Int
    BY <2>4, <2>5, <2>7
  <2>9. \A j, k \in cut : h[j] = h[k] => j = k
    BY <2>7
  <2>10. SumFunctionOnSet(f, {h[j] : j \in cut}) = SumFunctionOnSet(g, cut)
    BY <2>6, <2>8, <2>9, SumRenamed
  <2>11. SumFunctionOnSet(g, DOMAIN parts) = SumFunctionOnSet(g, cut)
    BY <2>2, <2>5, SumOfNonZero
  <2>12. IsFiniteSet({h[j] : j \in cut})
    BY <2>6, FiniteImage
  <2>13. \A t \in TextsIn(items, i) : t[1] = i /\ t[3] \in Nat
    BY <2>3, <2>4, <2>5, <2>7
  <2> QED BY <2>1, <2>4, <2>5, <2>10, <2>11, <2>12, <2>13
<1>4. CASE items[i].is = "other"
  BY <1>4, FS_EmptySet, SumEmpty DEF TextsIn, ContentChars
<1> QED
  BY <1>1, <1>2, <1>3, <1>4 DEF Content

\* A text counts in the estimate wherever it stands.
LEMMA TextsSum ==
  ASSUME NEW body, IsBody(body), Readable(body), PromptChars(body) # None
  PROVE  /\ SumFunction([t \in Texts(body) |-> t[3]]) = PromptChars(body)
         /\ PromptChars(body) \in Nat
<1> DEFINE f == [t \in Texts(body) |-> t[3]]
<1>1. SumFunction(f) = SumFunctionOnSet(f, Texts(body))
  BY DEF SumFunction
<1>2. CASE body.messages # None
  <2> DEFINE items == body.messages.items
             F     == [i \in DOMAIN items |-> TextsIn(items, i)]
             g     == [i \in DOMAIN items |-> ContentChars(items[i])]
  <2>1. /\ body.messages.is = "list" /\ items \in Seq(Content)
        /\ PromptChars(body) = SumFunctionOnSet(g, DOMAIN items)
    BY <1>2, RawAssumption DEF PromptChars, IsBody, SumFunction
  <2>2. Texts(body) = UNION {F[i] : i \in DOMAIN items}
    <3>1. Texts(body) =
            {<<i, 0, items[i].length>> : i \in {i \in DOMAIN items : items[i].is = "text"}}
              \cup UNION {{<<i, j, items[i].parts[j].length>> :
                             j \in {j \in DOMAIN items[i].parts : items[i].parts[j].text}} :
                               i \in {i \in DOMAIN items : items[i].is = "parts"}}
      BY <1>2 DEF Texts
    <3> HIDE DEF items
    <3>2. ASSUME NEW t, NEW i \in DOMAIN items
          PROVE  t \in F[i] <=>
                   \/ items[i].is = "text" /\ t = <<i, 0, items[i].length>>
                   \/ /\ items[i].is = "parts"
                      /\ \E j \in DOMAIN items[i].parts :
                           items[i].parts[j].text /\ t = <<i, j, items[i].parts[j].length>>
      BY DEF TextsIn
    <3>3. ASSUME NEW t
          PROVE  t \in Texts(body) <=> \E i \in DOMAIN items : t \in F[i]
      <4> HIDE DEF F
      <4> QED BY <3>1, <3>2
    <3> QED BY <3>3
  <2>3. IsFiniteSet(DOMAIN items)
    BY <2>1, FS_Interval
  <2>4. ASSUME NEW i \in DOMAIN items
        PROVE  /\ IsFiniteSet(F[i])
               /\ \A t \in F[i] : t[1] = i /\ t[3] \in Nat /\ f[t] = t[3]
               /\ SumFunctionOnSet(f, F[i]) = g[i]
    <3>1. \A t \in TextsIn(items, i) : f[t] = t[3]
      BY <2>2
    <3> HIDE DEF f, items
    <3> QED BY <2>1, <3>1, TextsInFacts
  <2> HIDE DEF f, F, g, items
  <2>5. \A i, j \in DOMAIN items : i # j => F[i] \cap F[j] = {}
    BY <2>4
  <2>6. \A i \in DOMAIN items : \A t \in F[i] : f[t] \in Int
    BY <2>4
  <2>7. SumFunctionOnSet(f, UNION {F[i] : i \in DOMAIN items}) = SumFunctionOnSet(g, DOMAIN items)
    BY <2>3, <2>4, <2>5, <2>6, SumOfSums
  <2>8. SumFunctionOnSet(f, Texts(body)) \in Nat
    <3>1. IsFiniteSet(Texts(body))
      BY <2>2, <2>3, <2>4, FiniteUnion
    <3>2. \A t \in Texts(body) : f[t] \in Nat /\ f[t] \in Int
      BY <2>2, <2>4
    <3> QED BY <3>1, <3>2, SumType
  <2> QED BY <1>1, <2>1, <2>2, <2>7, <2>8 DEF f
<1>3. CASE body.messages = None
  <2>1. /\ body.prompt # None
        /\ \/ body.prompt.is = "text" /\ PromptChars(body) = body.prompt.length
           \/ /\ body.prompt.is # "text" /\ body.prompt.is = "list"
              /\ None \notin Range(body.prompt.pieces)
              /\ PromptChars(body) = SumFunction(body.prompt.pieces)
    BY <1>3 DEF PromptChars
  <2>2. CASE body.prompt.is = "text"
    <3> DEFINE t == <<1, 0, body.prompt.length>>
    <3>1. Texts(body) = {t} /\ t[3] = body.prompt.length /\ body.prompt.length \in Nat
      BY <1>3, <2>1, <2>2 DEF Texts, IsBody
    <3>2. f[t] = body.prompt.length
      BY <3>1
    <3> HIDE DEF t, f
    <3>3. SumFunctionOnSet(f, {t}) = body.prompt.length
      BY <3>1, <3>2, SumSingleton
    <3> QED BY <1>1, <2>1, <2>2, <3>1, <3>3 DEF f
  <2>3. CASE body.prompt.is # "text"
    <3> DEFINE pieces == body.prompt.pieces
               h      == [i \in DOMAIN pieces |-> <<i, 0, pieces[i]>>]
    <3>1. /\ pieces \in Seq(Nat \cup {None}) /\ None \notin Range(pieces)
          /\ PromptChars(body) = SumFunctionOnSet(pieces, DOMAIN pieces)
      BY <2>1, <2>3 DEF IsBody, SumFunction
    <3>2. IsFiniteSet(DOMAIN pieces) /\ \A i \in DOMAIN pieces : pieces[i] \in Nat
      <4> HIDE DEF pieces
      <4>1. DOMAIN pieces = 1..Len(pieces) /\ Len(pieces) \in Nat
        BY <3>1
      <4>2. IsFiniteSet(1..Len(pieces))
        BY <4>1, FS_Interval
      <4>3. \A i \in DOMAIN pieces : pieces[i] \in Range(pieces)
        BY DEF Range
      <4>4. \A i \in DOMAIN pieces : pieces[i] \in Nat \cup {None}
        BY <3>1, <4>1
      <4>5. \A i \in DOMAIN pieces : pieces[i] # None
        BY <3>1, <4>3
      <4> QED BY <4>1, <4>2, <4>4, <4>5
    <3>3. Texts(body) = {h[i] : i \in DOMAIN pieces}
      BY <1>3, <2>3 DEF Texts
    <3> HIDE DEF pieces
    <3>4. \A i \in DOMAIN pieces : h[i][1] = i /\ h[i][3] = pieces[i]
      OBVIOUS
    <3>5. \A i \in DOMAIN pieces : f[h[i]] = h[i][3]
      BY <3>3
    <3> HIDE DEF f, h
    <3>6. \A i, j \in DOMAIN pieces : h[i] = h[j] => i = j
      BY <3>4
    <3>7. \A i \in DOMAIN pieces : f[h[i]] \in Int /\ pieces[i] = f[h[i]]
      BY <3>2, <3>4, <3>5
    <3>8. SumFunctionOnSet(f, {h[i] : i \in DOMAIN pieces}) = SumFunctionOnSet(pieces, DOMAIN pieces)
      BY <3>2, <3>6, <3>7, SumRenamed
    <3>9. SumFunctionOnSet(pieces, DOMAIN pieces) \in Nat
      BY <3>2, SumType
    <3> QED BY <1>1, <3>1, <3>3, <3>8, <3>9 DEF f
  <2> QED BY <2>2, <2>3
<1> QED
  BY <1>2, <1>3

\* Negated floor division rounds up.
LEMMA TokensRoundUp ==
  ASSUME NEW chars \in Nat, NEW k \in Nat \ {0}
  PROVE  LET n == Tokens(chars, k)
         IN  n \in Nat /\ n * k >= chars /\ (n > 0 => (n - 1) * k < chars)
<1> DEFINE d == (-chars) \div k
           m == (-chars) % k
           n == -d
<1>1. d \in Int /\ m \in 0..(k - 1) /\ -chars = k * d + m
  OBVIOUS
<1>2. Tokens(chars, k) = n
  BY DEF Tokens
<1> HIDE DEF d, m
<1>3. n * k = -(k * d) /\ (n - 1) * k = -(k * d) - k /\ k * d \in Int
  BY <1>1
<1>4. n * k >= chars /\ (n - 1) * k < chars
  BY <1>1, <1>3
<1>5. n \in Nat
  <2>1. CASE d <= 0
    BY <1>1, <2>1
  <2>2. CASE d >= 1
    <3>1. k * d >= k
      BY <1>1, <2>2
    <3> QED BY <1>1, <1>3, <3>1
  <2> QED BY <1>1, <2>1, <2>2
<1> HIDE DEF n
<1> QED
  BY <1>2, <1>4, <1>5

LEMMA HeadroomNat ==
  ASSUME NEW body, IsBody(body), Readable(body), NEW default \in Nat
  PROVE  Headroom(body, default) \in Nat
<1>1. \A raw : (raw # None => raw \in Raw) /\ Limits(raw) => raw.value \in Nat
  BY DEF Limits, IsInt, Raw
<1> QED
  BY <1>1 DEF Headroom, IsBody

LEMMA EstimateFacts ==
  ASSUME NEW body, IsBody(body), NEW k \in Nat \ {0}, NEW default \in Nat,
         EstimateContextTokens(body, k, default) # None
  PROVE  LET text == SumFunction([t \in Texts(body) |-> t[3]])
             room == EstimateContextTokens(body, k, default) - Headroom(body, default)
         IN  /\ EstimateContextTokens(body, k, default) \in Nat
             /\ room * k >= text
             /\ room > 0 => (room - 1) * k < text
<1> DEFINE chars == PromptChars(body)
           n     == Tokens(chars, k)
           h     == Headroom(body, default)
<1>1. Readable(body) /\ chars # None /\ EstimateContextTokens(body, k, default) = n + h
  BY DEF EstimateContextTokens
<1>2. SumFunction([t \in Texts(body) |-> t[3]]) = chars /\ chars \in Nat
  BY <1>1, TextsSum
<1>3. h \in Nat
  BY <1>1, HeadroomNat
<1> HIDE DEF chars, h
<1>4. n \in Nat /\ n * k >= chars /\ (n > 0 => (n - 1) * k < chars)
  BY <1>2, TokensRoundUp
<1> HIDE DEF n
<1>5. (n + h) - h = n /\ n + h \in Nat
  BY <1>3, <1>4
<1> QED
  BY <1>1, <1>2, <1>4, <1>5 DEF h

-----------------------------------------------------------------------------
(* The gate's inputs.                                                         *)

RequestInv ==
  /\ request \in Requests \cup {None}
  /\ model \in Models \cup {"unknown", None}
  /\ is_stream \in BOOLEAN \cup {None}
  /\ raised \in BOOLEAN
  /\ ctx_tokens # None =>
       /\ stage = "accepted" /\ request \in Requests
       /\ ctx_tokens = EstimateContextTokens(request, data.knobs["chars_per_token"],
                                             data.knobs["default_max_tokens"])

InputsInv ==
  /\ stage \in {"defaults", "merged", "overridden", "accepted", "refused"}
  /\ LoadInv
  /\ ExpositionInv
  /\ RequestInv

LEMMA KnobsInUse ==
  ASSUME LoadInv, stage = "accepted"
  PROVE  /\ data.knobs["chars_per_token"] \in Nat \ {0}
         /\ data.knobs["default_max_tokens"] \in Nat
<1>1. {"chars_per_token", "default_max_tokens"} \subseteq Knobs \cap IntKnobs
  BY DEF Knobs, IntKnobs
<1>2. \A k \in {"chars_per_token", "default_max_tokens"} :
        data.knobs[k] \in Int /\ InRange(k, data.knobs[k])
  BY <1>1 DEF LoadInv, DataTyped, KnobsTyped, Valid
<1> QED
  BY <1>2 DEF InRange, NumberKnobs

LEMMA InputsInit == Init => InputsInv
<1> SUFFICES ASSUME Init PROVE InputsInv
  OBVIOUS
<1>1. LoadInv /\ stage = "defaults"
  BY DefaultsTyped, LoadAssumption DEF Init, LoadInit, LoadInv
<1>2. ExpositionInv
  BY DEF Init, ExpositionInit, ExpositionInv, ExpositionTypeOK, OneUsage, NoSeries
<1>3. RequestInv
  BY DEF Init, RequestInv
<1> QED
  BY <1>1, <1>2, <1>3 DEF InputsInv

LEMMA InputsStep == InputsInv /\ [Next]_vars => InputsInv'
<1> SUFFICES ASSUME InputsInv, [Next]_vars PROVE InputsInv'
  OBVIOUS
<1>1. UNCHANGED expositionVars => ExpositionInv'
  BY DEF InputsInv, ExpositionInv, ExpositionTypeOK, OneUsage, Merged, expositionVars
<1>2. UNCHANGED loadVars => LoadInv' /\ stage' = stage /\ data' = data
  BY DEF InputsInv, LoadInv, loadVars
<1>3. UNCHANGED requestVars /\ stage' = stage /\ data' = data => RequestInv'
  BY DEF InputsInv, RequestInv, requestVars
<1>4. CASE Loads
  <2>1. LoadInv'
    BY <1>4, LoadInvStep DEF Loads, InputsInv
  <2>2. stage # "accepted" /\ stage' \in {"merged", "overridden", "accepted", "refused"}
    BY <1>4 DEF Loads, LoadNext, MergesFile, FindsNoFile, AppliesEnv, Validates, Merges
  <2>3. RequestInv'
    BY <1>4, <2>2 DEF Loads, InputsInv, RequestInv, requestVars
  <2> QED BY <1>1, <1>4, <2>1, <2>2, <2>3 DEF Loads, InputsInv
<1>5. CASE PollsBackend
  <2>1. ExpositionInv'
    BY <1>5, PollsStep DEF PollsBackend, InputsInv
  <2> QED BY <1>2, <1>3, <1>5, <2>1 DEF PollsBackend, InputsInv
<1>6. CASE Exposes
  <2>1. ExpositionInv'
    BY <1>6, ScrapesStep DEF Exposes, InputsInv
  <2> QED BY <1>2, <1>3, <1>6, <2>1 DEF Exposes, InputsInv
<1>7. ASSUME NEW body \in Requests, Reads(body) PROVE InputsInv'
  <2>1. /\ IsBody(body) /\ (Readable(body) => body.model \in Models \cup {None})
    BY RequestsAssumption
  <2>2. model' \in Models \cup {"unknown", None} /\ raised' \in BOOLEAN
    BY <1>7, <2>1 DEF Reads, RequestModel
  <2>3. is_stream' \in BOOLEAN \cup {None}
    BY <1>7, <2>1 DEF Reads, IsStreaming, IsBody, Readable
  <2>4. /\ request' = body /\ stage' = "accepted" /\ stage = "accepted"
        /\ \/ ctx_tokens' = None
           \/ ctx_tokens' = EstimateContextTokens(body, data'.knobs["chars_per_token"],
                                                  data'.knobs["default_max_tokens"])
    BY <1>7 DEF Reads, loadVars
  <2>5. RequestInv'
    BY <2>2, <2>3, <2>4 DEF RequestInv
  <2> QED BY <1>1, <1>2, <1>7, <2>5 DEF Reads, InputsInv
<1>8. CASE UNCHANGED vars
  BY <1>1, <1>2, <1>3, <1>8 DEF vars, InputsInv
<1> QED
  BY <1>4, <1>5, <1>6, <1>7, <1>8 DEF Next

LEMMA Inputs == Spec => []InputsInv
  BY InputsInit, InputsStep, PTL DEF Spec

LEMMA InputsCounted == InputsInv => TypeOK /\ EstimateCovers
<1> SUFFICES ASSUME InputsInv PROVE TypeOK /\ EstimateCovers
  OBVIOUS
<1>1. ASSUME ctx_tokens # None
      PROVE  /\ ctx_tokens \in Nat
             /\ LET chars_per_token == data.knobs["chars_per_token"]
                    text == SumFunction([t \in Texts(request) |-> t[3]])
                    room == ctx_tokens - Headroom(request, data.knobs["default_max_tokens"])
                IN  /\ room * chars_per_token >= text
                    /\ room > 0 => (room - 1) * chars_per_token < text
  <2>1. /\ stage = "accepted" /\ request \in Requests
        /\ ctx_tokens = EstimateContextTokens(request, data.knobs["chars_per_token"],
                                              data.knobs["default_max_tokens"])
    BY <1>1 DEF InputsInv, RequestInv
  <2>2. IsBody(request)
    BY <2>1, RequestsAssumption
  <2>3. /\ data.knobs["chars_per_token"] \in Nat \ {0}
        /\ data.knobs["default_max_tokens"] \in Nat
    BY <2>1, KnobsInUse DEF InputsInv
  <2> QED BY <1>1, <2>1, <2>2, <2>3, EstimateFacts
<1>2. TypeOK
  BY <1>1 DEF TypeOK, InputsInv, RequestInv, ExpositionInv
<1> QED
  BY <1>1, <1>2 DEF EstimateCovers

\* Types hold for every file, environment, metrics body and request body: what
\* the gate keeps of a body's usage, capacity and size is a number in range.
THEOREM InputsTypeCorrect == Spec => []TypeOK
  BY Inputs, InputsCounted, PTL

\* Whatever file and environment the gate is started with: a configuration that
\* is accepted, in whatever way it was mixed from the two, resolves to backends,
\* knobs and a routing section that satisfy every assumption admission, routing
\* and the pollers are specified under, and no poll or request changes it
\* (config.py:678-706, app.py:417-458).
THEOREM AcceptedIsServableAlways == Spec => []AcceptedIsServable
<1>1. InputsInv => AcceptedIsServable
  BY LoadedServable DEF InputsInv
<1> QED
  BY <1>1, Inputs, PTL

\* Whatever engine, gauges and series a metrics body has, and however polls of
\* different backends follow each other: the usage the tiered layer reads is the
\* one the counter is anchored with (metrics.py:228-289 and 420-433,
\* poller.py:384-398).
THEOREM OneUsageAlways == Spec => []OneUsage
<1>1. InputsInv => OneUsage
  BY DEF InputsInv, ExpositionInv
<1> QED
  BY <1>1, Inputs, PTL

\* For any number of backends and models: a scrape's gauge is the fullest
\* backend of each model some backend reports, and of no other (app.py:967-978,
\* stats.py:262-275).
THEOREM GaugeIsTheFullestAlways == Spec => []GaugeIsTheFullest
<1>1. InputsInv => GaugeIsTheFullest
  BY GaugeFromMerged DEF InputsInv
<1> QED
  BY <1>1, Inputs, PTL

\* However the text of a request is cut into messages, parts and pieces, and
\* whatever configuration was accepted: the estimate has room for all of it and
\* the completion, and for not one token more (tokens.py:40-128).
THEOREM EstimateCoversAlways == Spec => []EstimateCovers
<1>1. InputsInv => EstimateCovers
  BY InputsCounted
<1> QED
  BY <1>1, Inputs, PTL
=============================================================================
