-------------------------- MODULE MotorOutput_proofs --------------------------
(***************************************************************************)
(* What holds of the wires of the motors for every number of channels,     *)
(* every setting and every order of interrupts and steps of the loop.      *)
(***************************************************************************)
EXTENDS MotorOutput, FiniteSetTheorems, WellFoundedInduction, TLAPS

-----------------------------------------------------------------------------
(* Least and greatest of finitely many numbers. *)

(* Of finitely many there is one whose number is the least: the set of     *)
(* those below it is minimal by inclusion.                                 *)
LEMMA LeastExists ==
  ASSUME NEW S, IsFiniteSet(S), S # {}, NEW f \in [S -> Int]
  PROVE  \E o \in S : \A p \in S : f[o] <= f[p]
<1> DEFINE Below(o) == {p \in S : f[p] < f[o]}
           Family == {Below(o) : o \in S}
           Smaller == StrictSubsetOrdering(S)
<1>1. IsWellFoundedOn(Smaller, FiniteSubsetsOf(S))
  BY FS_StrictSubsetOrderingWellFounded
<1>2. Family \subseteq FiniteSubsetsOf(S)
  <2> SUFFICES ASSUME NEW o \in S PROVE Below(o) \in FiniteSubsetsOf(S)
    OBVIOUS
  <2> DEFINE D == Below(o)
  <2>1. D \subseteq S
    OBVIOUS
  <2> HIDE DEF D
  <2>2. D \in FiniteSubsetsOf(S)
    BY <2>1, FS_Subset, Zenon DEF FiniteSubsetsOf
  <2> QED BY <2>2 DEF D
<1>3. Family # {}
  <2>1. PICK o \in S : TRUE
    OBVIOUS
  <2>2. Below(o) \in Family
    OBVIOUS
  <2> HIDE DEF Family
  <2> QED BY <2>2
<1>4. PICK B \in Family : \A C \in Family : ~(<<C, B>> \in Smaller)
  <2> HIDE DEF Family, Smaller
  <2> QED BY <1>1, <1>2, <1>3, WFMin
<1>5. PICK o \in S : B = Below(o)
  BY <1>4
<1>6. ASSUME NEW p \in S, f[p] < f[o] PROVE FALSE
  <2>1. Below(p) \subseteq Below(o)
    BY <1>6
  <2>2. p \in Below(o) /\ p \notin Below(p)
    BY <1>6
  <2>3. <<Below(p), Below(o)>> \in Smaller
    BY <2>1, <2>2 DEF StrictSubsetOrdering
  <2> QED BY <1>4, <1>5, <2>3
<1> QED BY <1>6

LEMMA GreatestExists ==
  ASSUME NEW S, IsFiniteSet(S), S # {}, NEW f \in [S -> Int]
  PROVE  \E o \in S : \A p \in S : f[p] <= f[o]
<1> DEFINE g == [o \in S |-> -f[o]]
<1>1. g \in [S -> Int]
  OBVIOUS
<1>2. PICK o \in S : \A p \in S : g[o] <= g[p]
  BY <1>1, LeastExists
<1>3. ASSUME NEW p \in S PROVE f[p] <= f[o]
  BY <1>2
<1> QED BY <1>3

(* The pulses of the slots of S, or of what a frame was made of. *)
LEMMA MinOf ==
  ASSUME NEW S, IsFiniteSet(S), S # {}, NEW f, \A o \in S : f[o] \in Int
  PROVE  LET m == Min({f[o] : o \in S})
         IN  /\ m \in Int /\ \A o \in S : m <= f[o]
             /\ \E o \in S : m = f[o]
<1> DEFINE g == [o \in S |-> f[o]]
           V == {f[o] : o \in S}
<1>1. PICK o \in S : \A p \in S : g[o] <= g[p]
  <2>1. g \in [S -> Int]
    OBVIOUS
  <2> HIDE DEF g
  <2> QED BY <2>1, LeastExists
<1>2. f[o] \in V /\ \A y \in V : f[o] <= y
  BY <1>1
<1>3. Min(V) \in V /\ \A y \in V : Min(V) <= y
  BY <1>2 DEF Min
<1> QED BY <1>3

LEMMA MaxOf ==
  ASSUME NEW S, IsFiniteSet(S), S # {}, NEW f, \A o \in S : f[o] \in Int
  PROVE  LET m == Max({f[o] : o \in S})
         IN  /\ m \in Int /\ \A o \in S : f[o] <= m
             /\ \E o \in S : m = f[o]
<1> DEFINE g == [o \in S |-> f[o]]
           V == {f[o] : o \in S}
<1>1. PICK o \in S : \A p \in S : g[p] <= g[o]
  <2>1. g \in [S -> Int]
    OBVIOUS
  <2> HIDE DEF g
  <2> QED BY <2>1, GreatestExists
<1>2. f[o] \in V /\ \A y \in V : y <= f[o]
  BY <1>1
<1>3. Max(V) \in V /\ \A y \in V : y <= Max(V)
  BY <1>2 DEF Max
<1> QED BY <1>3

-----------------------------------------------------------------------------
(* Periods, and what a slot of the list stands for. *)

LEMMA OutputsFinite == IsFiniteSet(Outputs) /\ Cardinality(Outputs) = Channels
<1>1. Channels \in Nat /\ Channels >= 1
  BY MotorAssumption
<1>2. 0 \in Int /\ Channels - 1 \in Int
  BY <1>1
<1>3. /\ IsFiniteSet(0..(Channels - 1))
      /\ Cardinality(0..(Channels - 1)) =
           IF 0 > Channels - 1 THEN 0 ELSE (Channels - 1) - 0 + 1
  BY <1>2, FS_Interval
<1> QED BY <1>1, <1>3 DEF Outputs

LEMMA SubsetsFinite ==
  ASSUME NEW S \in SUBSET Outputs
  PROVE  /\ IsFiniteSet(S)
         /\ Cardinality(S) \in Int /\ 0 <= Cardinality(S) /\ Cardinality(S) <= Channels
<1>1. IsFiniteSet(S) /\ Cardinality(S) <= Channels
  BY OutputsFinite, FS_Subset
<1>2. Cardinality(S) \in Nat
  BY <1>1, FS_CardinalityType
<1> QED BY <1>1, <1>2

LEMMA QuotientType ==
  ASSUME NEW n \in Int, NEW d \in Int, d > 0
  PROVE  n \div d \in Int
BY Z3

LEMMA ClampType ==
  ASSUME NEW x \in Int, NEW lo \in Int, NEW hi \in Int
  PROVE  Clamp(x, lo, hi) \in Int
BY DEF Clamp

(* The period of a rate, in microseconds. *)
Period(r) == 1000000 \div r

LEMMA ShortestPeriod ==
  ASSUME NEW r \in Int, r >= 50, r <= 8000
  PROVE  Period(r) \in Int /\ Period(r) >= 125
<1> DEFINE q == 1000000 \div r
           past == (q + 1) * r
           most == 125 * r
<1>1. q \in Int /\ past \in Int /\ most \in Int
  BY Z3
<1>2. 1000000 < past
  BY Z3
<1>3. most <= 1000000
  BY Z3
<1>4. q <= 124 => past <= most
  <2> HIDE DEF q
  <2> QED BY <1>1, Z3
<1> QED
  <2> HIDE DEF past, most, q
  <2>1. q >= 125
    BY <1>1, <1>2, <1>3, <1>4, Z3
  <2>2. q \in Int /\ q >= 125
    BY <1>1, <2>1, Z3
  <2> USE DEF q
  <2> QED BY <2>2, Z3 DEF Period

LEMMA PeriodBounds ==
  ASSUME TypeOK
  PROVE  /\ cfg \in Settings
         /\ Interval \in Int /\ Interval >= 10000
         /\ IntervalMin \in Int /\ IntervalMax \in Int
         /\ 0 <= IntervalMin /\ IntervalMin < IntervalMax
<1>1. cfg \in Settings
  BY MotorAssumption DEF TypeOK
<1>2. PICK r \in Int : Clamp(cfg.rate, 50, 8000) = r /\ r >= 50 /\ r <= 8000
  <2>1. cfg.rate \in Int
    BY <1>1 DEF Settings
  <2> QED BY <2>1, SMT DEF Clamp
<1>3. Interval \in Int /\ Interval >= 10000
  <2>1. Period(r) \in Int /\ Period(r) >= 125
    BY <1>2, ShortestPeriod, SMT
  <2>2. Interval = Period(r) * 80
    BY <1>2, SMT DEF Interval, UsToTicksReal, TicksPerUs, Period
  <2> QED BY <2>1, <2>2, SMT
<1>4. /\ IntervalMin \in Int /\ IntervalMax \in Int
      /\ 0 <= IntervalMin /\ IntervalMin < IntervalMax
  BY <1>3 DEF IntervalMin, IntervalMax
<1> QED BY <1>1, <1>3, <1>4

(* A pulse in ticks; that of a brushed motor is not below nothing. *)
LEMMA TicksType ==
  ASSUME TypeOK, NEW t \in Int
  PROVE  UsToTicks(t) \in Int /\ (protocol = "BRUSHED" => UsToTicks(t) >= 0)
<1>1. ASSUME NEW x \in Int, NEW lo \in Int, NEW hi \in Int
      PROVE  MapTo(x, lo, hi) \in Int
  <2>1. (x - 1000) * (hi - lo) \in Int
    OBVIOUS
  <2> QED BY <2>1 DEF MapTo
<1>2. /\ Interval \in Int /\ Interval >= 0
      /\ \A n \in Int : UsToTicksReal(n) \in Int
  BY PeriodBounds DEF UsToTicksReal, TicksPerUs
<1>3. Clamp(t, 1000, 2000) \in Int /\ Clamp(t, 1000, 2000) >= 1000
  BY DEF Clamp
<1>4. UsToTicks(t) \in Int
  <2>1. MapTo(Clamp(t, 1000, 2000), 0, Interval) \in Int
    BY <1>1, <1>2, <1>3
  <2> QED BY <1>1, <1>2, <2>1 DEF UsToTicks
<1>5. ASSUME NEW x \in Int, x >= 1000 PROVE MapTo(x, 0, Interval) >= 0
  <2> DEFINE n == (x - 1000) * (Interval - 0)
  <2>1. n \in Int /\ n >= 0
    BY <1>2, <1>5, Z3
  <2>2. n \div 1000 >= 0
    <3> HIDE DEF n
    <3> QED BY <2>1
  <2> QED BY <2>1, <2>2 DEF MapTo
<1>6. protocol = "BRUSHED" => UsToTicks(t) >= 0
  <2>1. MapTo(Clamp(t, 1000, 2000), 0, Interval) >= 0
    BY <1>3, <1>5
  <2> QED BY <2>1 DEF UsToTicks, Digital
<1> QED BY <1>4, <1>6

-----------------------------------------------------------------------------
(* The mixer gives every output a number. *)

LEMMA RatesType ==
  ASSUME NEW o \in Driven, NEW a \in Axes
  PROVE  Mixer.rate[a][o + 1] \in Int
<1>1. o \in Int /\ 0 <= o /\ o < Mixer.count
  BY MotorAssumption DEF Driven, Outputs
<1>2. CASE Mixer \in {QuadX, QuadX1234, Tricopter}
  <2>1. o + 1 \in 1..4
    BY <1>1, <1>2 DEF QuadX, QuadX1234, Tricopter
  <2>2. /\ QuadX.rate[a] \in [1..4 -> Int]
        /\ QuadX1234.rate[a] \in [1..4 -> Int]
        /\ Tricopter.rate[a] \in [1..4 -> Int]
    BY DEF QuadX, QuadX1234, Tricopter, Axes
  <2> QED BY <1>2, <2>1, <2>2
<1>3. CASE Mixer = Gimbal
  <2>1. o + 1 \in 1..4
    BY <1>1, <1>3 DEF Gimbal
  <2>2. Gimbal.rate[a] \in [1..4 -> Int]
    BY DEF Gimbal, Axes
  <2> QED BY <1>3, <2>1, <2>2
<1>4. CASE Mixer.count = 0
  BY <1>1, <1>4
<1>5. Mixer \in {QuadX, QuadX1234, Tricopter, Gimbal} \/ Mixer.count = 0
  BY DEF Mixer, GetMixer
<1> QED BY <1>2, <1>3, <1>4, <1>5

LEMMA StabilizedType ==
  ASSUME TypeOK, NEW o
  PROVE  Stabilized(o) \in Int
<1>1. ASSUME NEW a \in Axes, o \in Driven PROVE Share(a, o) \in Int
  <2>1. flight.src[a] \in Int
    BY DEF TypeOK, Flights
  <2>2. Mixer.rate[a][o + 1] \in Int
    BY <1>1, RatesType
  <2> QED BY <2>1, <2>2 DEF Share
<1>2. CASE o \in Driven
  <2>1. Share("roll", o) \in Int /\ Share("pitch", o) \in Int /\ Share("yaw", o) \in Int
    BY <1>1, <1>2 DEF Axes
  <2>2. Turned(o) \in Int
    BY <2>1 DEF Turned
  <2> QED BY <1>2, <2>1, <2>2 DEF Stabilized
<1>3. CASE o \notin Driven
  BY <1>3 DEF Stabilized
<1> QED BY <1>2, <1>3

LEMMA SpreadType == TypeOK => Spread \in Int
<1> SUFFICES ASSUME TypeOK PROVE Spread \in Int
  OBVIOUS
<1> DEFINE S == Driven \cup {Channels}
           f == [o \in S |-> Stabilized(o)]
           asks == {0} \cup {Stabilized(o) : o \in Driven}
<1>1. Channels \in Nat /\ Channels \notin Driven
  BY MotorAssumption DEF Driven, Outputs
<1>2. Stabilized(Channels) = 0
  BY <1>1 DEF Stabilized
<1>3. IsFiniteSet(S) /\ S # {}
  <2>1. IsFiniteSet(Driven)
    <3>1. Driven \in SUBSET Outputs
      BY DEF Driven
    <3> QED BY <3>1, SubsetsFinite
  <2> QED BY <2>1, FS_AddElement
<1>4. \A o \in S : f[o] \in Int
  BY StabilizedType
<1>5. asks = {f[o] : o \in S}
  BY <1>2
<1>6. Min({f[o] : o \in S}) \in Int /\ Max({f[o] : o \in S}) \in Int
  <2> HIDE DEF S, f
  <2> QED BY <1>3, <1>4, MinOf, MaxOf
<1>7. Min(asks) \in Int /\ Max(asks) \in Int
  BY <1>5, <1>6
<1> QED
  <2> HIDE DEF asks
  <2>1. Max(asks) - Min(asks) \in Int
    BY <1>7
  <2> USE DEF asks
  <2> QED BY <2>1 DEF Spread

LEMMA LimitType == TypeOK => LimitThrust(flight.src.thrust * Percent) \in Int
<1> SUFFICES ASSUME TypeOK PROVE LimitThrust(flight.src.thrust * Percent) \in Int
  OBVIOUS
<1> DEFINE thrust == flight.src.thrust * Percent
           limit == cfg.limitPercent
<1>1. cfg \in Settings
  BY PeriodBounds
<1>2. flight.src.thrust \in Int
  BY DEF TypeOK, Flights, Axes
<1>3. thrust \in Int /\ limit \in Int /\ cfg.limitType \in {"NONE", "SCALE", "CLIP"}
  BY <1>1, <1>2 DEF Settings, Percent
<1>4. (thrust + Full) * limit \in Int /\ 2 * limit * Full \in Int
  <2> HIDE DEF thrust
  <2> QED BY <1>3 DEF Full
<1>5. ((thrust + Full) * limit) \div 100 - Full \in Int
  <2> DEFINE n == (thrust + Full) * limit
  <2>1. n \in Int
    BY <1>4
  <2> HIDE DEF n
  <2>2. n \div 100 - Full \in Int
    BY <2>1 DEF Full
  <2> USE DEF n
  <2> QED BY <2>2
<1>6. Clamp(thrust, -Full, (2 * limit * Full) \div 100 - Full) \in Int
  <2> HIDE DEF thrust
  <2>1. (2 * limit * Full) \div 100 - Full \in Int
    BY <1>3 DEF Full
  <2> QED BY <1>3, <2>1, ClampType DEF Full
<1> QED BY <1>3, <1>5, <1>6 DEF LimitThrust

LEMMA ThrustType ==
  ASSUME TypeOK, NEW spread \in Int
  PROVE  Thrust(spread) \in Int
<1> DEFINE thrust == LimitThrust(flight.src.thrust * Percent)
<1>1. thrust \in Int
  BY LimitType
<1>2. spread \div 2 - Full \in Int /\ Full - spread \div 2 \in Int
  BY DEF Full
<1>3. Clamp(thrust, spread \div 2 - Full, Full - spread \div 2) \in Int
  BY <1>1, <1>2, ClampType
<1> QED BY <1>1, <1>3 DEF Thrust

LEMMA MixedType == TypeOK => Mixed \in [Outputs -> Int]
<1> SUFFICES ASSUME TypeOK PROVE Mixed \in [Outputs -> Int]
  OBVIOUS
<1> DEFINE spread == Spread
           thrust == Thrust(spread)
           scaled(x) == IF flight.air /\ spread > 2 * Full
                        THEN (x * 2 * Full) \div spread ELSE x
           lift(o) == IF o \in Driven THEN (thrust * Mixer.rate["thrust"][o + 1]) \div 100
                      ELSE 0
<1>1. spread \in Int /\ thrust \in Int
  BY SpreadType, ThrustType
<1>2. ASSUME NEW o \in Outputs PROVE scaled(Stabilized(o)) + lift(o) \in Int
  <2>1. Stabilized(o) \in Int
    BY StabilizedType
  <2>2. scaled(Stabilized(o)) \in Int
    <3> HIDE DEF spread
    <3> DEFINE x == Stabilized(o)
    <3>1. x * 2 * Full \in Int
      BY <2>1 DEF Full
    <3>2. spread > 2 * Full => (x * 2 * Full) \div spread \in Int
      <4> DEFINE n == x * 2 * Full
      <4>1. n \in Int
        BY <3>1
      <4> HIDE DEF n
      <4>2. ASSUME spread > 2 * Full PROVE n \div spread \in Int
        <5>1. spread > 0 /\ spread \in Int
          BY <1>1, <4>2, SMT DEF Full
        <5> HIDE DEF thrust, scaled, lift
        <5> QED BY <4>1, <5>1, QuotientType
      <4> USE DEF n
      <4> QED BY <4>2
    <3> QED BY <2>1, <3>2, SMT
  <2>3. lift(o) \in Int
    <3> HIDE DEF thrust
    <3>1. CASE o \in Driven
      <4> DEFINE n == thrust * Mixer.rate["thrust"][o + 1]
      <4>1. Mixer.rate["thrust"][o + 1] \in Int
        BY <3>1, RatesType DEF Axes
      <4>2. n \in Int
        BY <1>1, <4>1
      <4> HIDE DEF n
      <4>3. n \div 100 \in Int
        BY <4>2
      <4> USE DEF n
      <4> QED BY <3>1, <4>3
    <3> QED BY <3>1
  <2> HIDE DEF scaled, lift
  <2> QED BY <2>2, <2>3
<1>3. Mixed = [o \in Outputs |-> scaled(Stabilized(o)) + lift(o)]
  BY DEF Mixed
<1> HIDE DEF scaled, lift
<1> QED BY <1>2, <1>3

LEMMA OutputType ==
  ASSUME TypeOK, NEW o \in Outputs, NEW mixed \in [Outputs -> Int]
  PROVE  Output(o, mixed) \in Int
<1> DEFINE limit == cfg.motorLimit
<1>1. /\ limit \in Int /\ MinThrottle \in Int /\ MaxThrottle \in Int
      /\ disarmed[o] \in Int /\ mixed[o] \in Int
  <2>1. /\ limit \in Int /\ cfg.idle \in Throttles
        /\ cfg.minThrottle \in Throttles /\ cfg.maxThrottle \in Throttles
    BY PeriodBounds DEF Settings
  <2>2. Throttles \subseteq Int
    BY DEF Throttles
  <2>3. MinThrottle \in Int /\ MaxThrottle \in Int
    <3>1. cfg.idle \in Int /\ cfg.minThrottle \in Int /\ cfg.maxThrottle \in Int
      BY <2>1, <2>2, Zenon
    <3> QED BY <3>1, SMT DEF MinThrottle, MaxThrottle
  <2>4. disarmed[o] \in Int /\ mixed[o] \in Int
    BY DEF TypeOK, Pulses
  <2> QED BY <2>1, <2>3, <2>4
<1>2. Stopped(o) \in Int
  BY <1>1 DEF Stopped, Neutral
<1>3. LimitOutput(mixed[o], o) \in Int
  <2>1. limit * Full \in Int /\ 2 * limit * Full \in Int
    BY <1>1 DEF Full
  <2>2. /\ -(limit * Full) \div 100 \in Int /\ (limit * Full) \div 100 \in Int
        /\ (2 * limit * Full) \div 100 \in Int
    BY <1>1 DEF Full
  <2>3. Clamp(mixed[o], -(limit * Full) \div 100, (limit * Full) \div 100) \in Int
    BY <1>1, <2>2, ClampType
  <2>4. Clamp(mixed[o] + Full, 0, (2 * limit * Full) \div 100) - Full \in Int
    <3>1. mixed[o] + Full \in Int
      BY <1>1 DEF Full
    <3>2. Clamp(mixed[o] + Full, 0, (2 * limit * Full) \div 100) \in Int
      BY <2>2, <3>1, ClampType
    <3> QED BY <3>2 DEF Full
  <2> QED BY <1>1, <2>3, <2>4 DEF LimitOutput
<1>4. ASSUME NEW x \in Int PROVE ServoPulse(x) \in Int
  <2>1. Neutral + Round(x * 500, Full) \in Int
    BY DEF Round, Neutral, Full
  <2> QED BY <2>1, ClampType DEF ServoPulse
<1>5. ASSUME NEW x \in Int PROVE MotorPulse(x) \in Int
  <2> DEFINE n == (Clamp(x, -Full, Full) + Full) * (MaxThrottle - MinThrottle)
  <2>1. Clamp(x, -Full, Full) \in Int
    BY ClampType DEF Full
  <2>2. n \in Int
    BY <1>1, <2>1 DEF Full
  <2> HIDE DEF n
  <2>3. MinThrottle + Round(n, 2 * Full) \in Int
    BY <1>1, <2>2 DEF Round, Full
  <2> USE DEF n
  <2> QED BY <2>3 DEF MotorPulse
<1> QED BY <1>2, <1>3, <1>4, <1>5 DEF Output

-----------------------------------------------------------------------------
(* The groups of pulses that end together. *)

LEMMA Ends ==
  ASSUME TypeOK, NEW S \in SUBSET Outputs, S # {}
  PROVE  /\ Least(S) \in Int /\ \A o \in S : Least(S) <= asked[o]
         /\ Greatest(S) \in Int /\ \A o \in S : asked[o] <= Greatest(S)
         /\ \E o \in S : Least(S) = asked[o]
         /\ \E o \in S : Greatest(S) = asked[o]
<1>1. IsFiniteSet(S)
  BY SubsetsFinite
<1>2. \A o \in S : asked[o] \in Int
  BY DEF TypeOK, Pulses
<1>3. LET m == Min({asked[o] : o \in S})
      IN  m \in Int /\ (\A o \in S : m <= asked[o]) /\ \E o \in S : m = asked[o]
  BY <1>1, <1>2, MinOf
<1>4. LET m == Max({asked[o] : o \in S})
      IN  m \in Int /\ (\A o \in S : asked[o] <= m) /\ \E o \in S : m = asked[o]
  BY <1>1, <1>2, MaxOf
<1> QED BY <1>3, <1>4 DEF Least, Greatest

(* A group is what is left up to some pulse. *)
LEMMA GroupIsFirst ==
  ASSUME TypeOK, left # {}
  PROVE  /\ Group \subseteq left /\ Group # {}
         /\ \A o \in left : \A p \in Group : asked[o] <= asked[p] => o \in Group
         /\ \A o \in Group : \A p \in left \ Group : asked[o] < asked[p]
<1>1. left \in SUBSET Outputs /\ \A o \in Outputs : asked[o] \in Int
  BY DEF TypeOK, Pulses
<1>2. Group \subseteq left
  BY DEF Group
<1>3. PICK o \in left : Least(left) = asked[o]
  BY <1>1, Ends
<1>4. o \in Group
  <2>1. \A q \in left : ~(Least(left) < asked[q] /\ asked[q] <= asked[o])
    <3>1. asked[o] \in Int
      BY <1>1, <1>3
    <3> QED BY <1>1, <1>3, <3>1
  <2> QED BY <1>3, <2>1 DEF Group
<1>5. ASSUME NEW r \in left, NEW p \in Group, asked[r] <= asked[p]
      PROVE  r \in Group
  <2>1. Least(left) \in Int
    BY <1>1, Ends
  <2>2. ASSUME NEW q \in left, Least(left) < asked[q], asked[q] <= asked[r]
        PROVE  Follows(q, left)
    <3>1. asked[q] <= asked[p]
      <4>1. asked[q] \in Int /\ asked[r] \in Int /\ asked[p] \in Int
        BY <1>1, <1>2
      <4> QED BY <1>5, <2>2, <4>1
    <3> QED BY <1>5, <2>2, <3>1 DEF Group
  <2> QED BY <2>2 DEF Group
<1>6. ASSUME NEW r \in Group, NEW p \in left \ Group PROVE asked[r] < asked[p]
  <2>1. asked[r] \in Int /\ asked[p] \in Int
    BY <1>1, <1>2
  <2>2. ~(asked[p] <= asked[r])
    BY <1>5
  <2> QED BY <2>1, <2>2
<1> QED BY <1>2, <1>4, <1>5, <1>6

(***************************************************************************)
(* Each pulse of a group is within DeltaMin of a shorter one of the group, *)
(* so that as many as are not longer than it bound how far it is from the  *)
(* first.                                                                  *)
(***************************************************************************)
LEMMA GroupIsNarrow ==
  ASSUME TypeOK, left # {}
  PROVE  Greatest(Group) - Least(left) <= (Cardinality(Group) - 1) * DeltaMin
<1> DEFINE Upto(o) == {p \in Group : asked[p] <= asked[o]}
           Room(o) == (Cardinality(Upto(o)) - 1) * DeltaMin
           Far == {o \in Group : asked[o] - Least(left) > Room(o)}
<1>1. /\ left \in SUBSET Outputs /\ Group \in SUBSET Outputs /\ Group \subseteq left
      /\ \A o \in Outputs : asked[o] \in Int
  BY DEF TypeOK, Pulses, Group
<1>2. /\ Least(left) \in Int /\ \A o \in left : Least(left) <= asked[o]
  BY <1>1, Ends
<1>3. IsFiniteSet(Group) /\ DeltaMin \in Nat
  BY <1>1, SubsetsFinite, MotorAssumption
<1>4. ASSUME NEW o \in Group
      PROVE  /\ IsFiniteSet(Upto(o)) /\ o \in Upto(o)
             /\ Cardinality(Upto(o)) \in Int /\ Cardinality(Upto(o)) >= 1
             /\ Room(o) \in Int
  <2>1. Upto(o) \in SUBSET Group /\ o \in Upto(o)
    <3>1. asked[o] <= asked[o]
      BY <1>1
    <3> QED BY <3>1
  <2>2. IsFiniteSet(Upto(o)) /\ Upto(o) # {}
    BY <1>3, <2>1, FS_Subset
  <2>3. Cardinality(Upto(o)) \in Nat /\ Cardinality(Upto(o)) # 0
    BY <2>2, FS_CardinalityType, FS_EmptySet
  <2> HIDE DEF Upto
  <2>4. Room(o) \in Int
    BY <1>3, <2>3
  <2> QED BY <2>1, <2>2, <2>3, <2>4
<1>5. Far = {}
  <2> SUFFICES ASSUME Far # {} PROVE FALSE
    OBVIOUS
  <2>1. PICK o \in Far : \A p \in Far : asked[o] <= asked[p]
    <3>1. Far \in SUBSET Outputs
      BY <1>1
    <3> HIDE DEF Far
    <3>2. /\ \E o \in Far : Least(Far) = asked[o]
          /\ \A o \in Far : Least(Far) <= asked[o]
      BY <3>1, Ends
    <3> QED BY <3>2
  <2>2. /\ o \in Group /\ asked[o] - Least(left) > Room(o) /\ asked[o] \in Int
        /\ Room(o) \in Int
    BY <1>1, <1>4, <2>1
  <2>3. Room(o) >= 0
    <3> DEFINE n == Cardinality(Upto(o))
    <3>1. n \in Int /\ n >= 1
      BY <1>4, <2>2
    <3> HIDE DEF n
    <3>2. (n - 1) * DeltaMin >= 0
      BY <1>3, <3>1, Z3
    <3> USE DEF n
    <3> QED BY <3>2
  <2>4. Least(left) < asked[o]
    <3> HIDE DEF Room, Far
    <3> QED BY <1>2, <2>2, <2>3
  <2>5. PICK r \in left : asked[r] < asked[o] /\ asked[o] - asked[r] <= DeltaMin
    <3>1. asked[o] <= asked[o] /\ o \in left
      BY <1>1, <2>2
    <3>2. Follows(o, left)
      BY <2>2, <2>4, <3>1 DEF Group
    <3> QED BY <3>2 DEF Follows
  <2>6. r \in Group /\ asked[r] \in Int /\ Room(r) \in Int
    <3>1. asked[r] \in Int /\ asked[r] <= asked[o]
      BY <1>1, <2>2, <2>5
    <3>2. r \in Group
      BY <2>2, <3>1, GroupIsFirst
    <3> QED BY <1>4, <3>1, <3>2
  <2>7. r \notin Far
    BY <2>1, <2>2, <2>5, <2>6
  <2>8. asked[r] - Least(left) <= Room(r)
    <3>1. ~(asked[r] - Least(left) > Room(r))
      BY <2>6, <2>7
    <3> HIDE DEF Room, Far
    <3> QED BY <1>2, <2>6, <3>1
  <2>9. Cardinality(Upto(r)) <= Cardinality(Upto(o)) - 1
    <3>1. Upto(r) \in SUBSET (Upto(o) \ {o})
      BY <1>1, <2>2, <2>5, <2>6
    <3>2. /\ IsFiniteSet(Upto(o) \ {o})
          /\ Cardinality(Upto(o) \ {o}) = Cardinality(Upto(o)) - 1
      <4> HIDE DEF Upto
      <4> QED BY <1>4, <2>2, FS_RemoveElement
    <3> HIDE DEF Upto
    <3> QED BY <3>1, <3>2, FS_Subset
  <2>10. Room(r) <= Room(o) - DeltaMin
    <3> DEFINE m == Cardinality(Upto(r))
               n == Cardinality(Upto(o))
    <3>1. m \in Int /\ n \in Int
      BY <1>4, <2>2, <2>6
    <3>2. m <= n - 1
      BY <2>9
    <3> HIDE DEF m, n
    <3>3. (m - 1) * DeltaMin <= (n - 1) * DeltaMin - DeltaMin
      BY <1>3, <3>1, <3>2, Z3
    <3> USE DEF m, n
    <3> QED BY <3>3
  <2> HIDE DEF Room, Far
  <2> QED BY <1>2, <1>3, <2>2, <2>5, <2>6, <2>8, <2>10
<1>6. PICK g \in Group : Greatest(Group) = asked[g]
  BY <1>1, GroupIsFirst, Ends
<1>7. Upto(g) = Group
  <2>1. \A p \in Group : asked[p] <= Greatest(Group)
    BY <1>1, <1>6, Ends
  <2> QED BY <1>6, <2>1
<1>8. asked[g] - Least(left) <= Room(g)
  <2>1. ~(asked[g] - Least(left) > Room(g))
    BY <1>5, <1>6
  <2>2. asked[g] \in Int /\ Room(g) \in Int
    BY <1>1, <1>4, <1>6
  <2> HIDE DEF Room, Far
  <2> QED BY <1>2, <2>1, <2>2
<1> QED BY <1>6, <1>7, <1>8

-----------------------------------------------------------------------------
(* Types. *)

Places == {"attach", "pulse", "idle", "write", "apply"}

LEMMA AdvanceType ==
  ASSUME TypeOK, NEW next \in Places, Advance(next)
  PROVE  at' \in Outputs /\ pc' \in Places
<1>1. Channels \in Nat \ {0} /\ at \in 0..(Channels - 1) /\ pc \in Places
  BY MotorAssumption DEF TypeOK, Outputs, Places
<1> QED BY <1>1 DEF Advance, Outputs

LEMMA SpendType ==
  ASSUME NEW ticks \in Int, NEW high \in [Outputs -> BOOLEAN],
         NEW widths \in [Outputs -> Int], Spend(ticks, high, widths)
  PROVE  level' \in [Outputs -> BOOLEAN] /\ width' \in [Outputs -> Int]
<1>1. ASSUME NEW o \in Outputs PROVE widths[o] + (IF high[o] THEN ticks ELSE 0) \in Int
  OBVIOUS
<1> QED BY <1>1 DEF Spend

(* The delays of the interrupt. *)
LEMMA DelayTypes ==
  ASSUME TypeOK
  PROVE  /\ Active # {} => Min({Pulse(o) : o \in Active}) \in Int
         /\ Group # left => Least(left \ Group) - Greatest(Group) \in Int
         /\ (Group = left) => Pause \in Int
<1>1. Active # {} => Min({Pulse(o) : o \in Active}) \in Int
  <2> DEFINE f == [o \in Outputs |-> Pulse(o)]
  <2>1. /\ Active \in SUBSET Outputs /\ \A o \in Active : f[o] \in Int
        /\ \A o \in Active : f[o] = Pulse(o)
    BY DEF Active, TypeOK, Pulse, Pulses
  <2>2. IsFiniteSet(Active)
    BY <2>1, SubsetsFinite
  <2>3. {f[o] : o \in Active} = {Pulse(o) : o \in Active}
    BY <2>1
  <2> HIDE DEF f
  <2>4. Active # {} => Min({f[o] : o \in Active}) \in Int
    BY <2>1, <2>2, MinOf
  <2> QED BY <2>3, <2>4
<1>2. ASSUME Group # left PROVE Least(left \ Group) - Greatest(Group) \in Int
  <2>1. left # {}
    BY <1>2 DEF Group
  <2>2. Group \subseteq left /\ Group # {} /\ left \in SUBSET Outputs
    BY <2>1, GroupIsFirst DEF TypeOK
  <2>3. left \ Group \in SUBSET Outputs /\ left \ Group # {} /\ Group \in SUBSET Outputs
    BY <1>2, <2>2
  <2>4. Least(left \ Group) \in Int /\ Greatest(Group) \in Int
    BY <2>2, <2>3, Ends
  <2> QED BY <2>4
<1>3. Pause \in Int
  <2>1. Interval \in Int /\ MinTicks \in Int
    BY PeriodBounds, WaitAssumption
  <2>2. left # {} => Greatest(left) \in Int
    BY Ends DEF TypeOK
  <2>3. \A a, b \in Int : Max({a, b}) \in {a, b}
    <3> SUFFICES ASSUME NEW a \in Int, NEW b \in Int PROVE Max({a, b}) \in {a, b}
      OBVIOUS
    <3>1. \E x \in {a, b} : \A y \in {a, b} : x >= y
      OBVIOUS
    <3> QED BY <3>1 DEF Max
  <2>4. left # {} => Max({Interval - Greatest(left), MinTicks}) \in Int
    <3> SUFFICES ASSUME left # {}
                 PROVE  Max({Interval - Greatest(left), MinTicks}) \in Int
      OBVIOUS
    <3>1. Interval - Greatest(left) \in Int
      BY <2>1, <2>2
    <3> QED BY <2>1, <2>3, <3>1
  <2> QED BY <2>1, <2>4 DEF Pause
<1> QED BY <1>1, <1>2, <1>3

LEMMA TypeInit == Init => TypeOK
<1> SUFFICES ASSUME Init PROVE TypeOK
  OBVIOUS
<1>1. 0 \in Outputs
  BY MotorAssumption DEF Outputs
<1>2. flight \in Flights
  BY DEF Init, Flights
<1>3. disarmed \in [Outputs -> Int]
  BY DEF Init, DefaultDisarmed, Neutral, MinCommand
<1>4. slots \in [Outputs -> [pin : BOOLEAN, pulse : Int]]
  BY DEF Init, NoSlot, Slot
<1>5. Zero \in [Outputs -> Int] /\ Low \in [Outputs -> BOOLEAN]
  BY DEF Zero, Low
<1>6. isr \in {"off", "armed", "running"}
  BY DEF Init
<1>7. /\ cfg \in Configs /\ protocol = cfg.protocol /\ us = Zero /\ saturated = FALSE
      /\ pc = "attach" /\ at = 0 /\ busy = FALSE /\ asked = Zero /\ left = {}
      /\ level = Low /\ width = Zero /\ whole = TRUE /\ fits = TRUE /\ loud = FALSE
  BY DEF Init
<1> QED BY <1>1, <1>2, <1>3, <1>4, <1>5, <1>6, <1>7 DEF TypeOK, Pulses

LEMMA TypeStep ==
  ASSUME TypeOK, [Next]_vars
  PROVE  TypeOK'
<1> USE DEF Pulses
<1>1. CASE Attach
  <2>1. at' \in Outputs /\ pc' \in Places
    BY <1>1, AdvanceType DEF Attach, Places, TypeOK
  <2>2. slots' \in [Outputs -> [pin : BOOLEAN, pulse : Int]]
    <3>1. slots' = slots \/ slots' = [slots EXCEPT ![at].pin = TRUE]
      BY <1>1, Zenon DEF Attach
    <3>2. slots \in [Outputs -> [pin : BOOLEAN, pulse : Int]] /\ at \in Outputs
      BY Zenon DEF TypeOK
    <3> QED BY <3>1, <3>2
  <2> QED BY <1>1, <2>1, <2>2 DEF Attach, TypeOK, wires, Places
<1>2. CASE AttachPulse
  <2>1. at' \in Outputs /\ pc' \in Places
    <3>1. \/ at + 1 < Channels /\ at' = at + 1 /\ pc' = "attach"
          \/ at' = 0 /\ pc' = "idle"
      BY <1>2, Zenon DEF AttachPulse
    <3>2. at \in 0..(Channels - 1) /\ Channels \in Nat \ {0}
      BY MotorAssumption DEF TypeOK, Outputs
    <3> QED BY <3>1, <3>2 DEF Places, Outputs
  <2>2. UsToTicks(1000) \in Int
    BY TicksType
  <2>3. slots' \in [Outputs -> [pin : BOOLEAN, pulse : Int]]
    BY <1>2, <2>2 DEF AttachPulse, TypeOK
  <2>4. level' \in [Outputs -> BOOLEAN]
    BY <1>2 DEF AttachPulse, TypeOK
  <2>5. whole' \in BOOLEAN
    BY <1>2, Zenon DEF AttachPulse, TypeOK
  <2> QED BY <1>2, <2>1, <2>3, <2>4, <2>5 DEF AttachPulse, TypeOK, Places
<1>3. CASE Fly
  <2>1. flight' \in Flights
    BY <1>3, PeriodBounds DEF Fly, Settings
  <2> QED BY <1>3, <2>1 DEF Fly, TypeOK, driver, wires
<1>4. CASE SetMotor
  <2>1. disarmed' \in [Outputs -> Int]
    <3>1. TestPulses \subseteq Int
      <4>1. Throttles \subseteq Int
        BY DEF Throttles
      <4> QED BY <4>1, MotorAssumption
    <3> QED BY <1>4, <3>1 DEF SetMotor
  <2> QED BY <1>4, <2>1 DEF SetMotor, TypeOK, driver, wires
<1>5. CASE Reload
  <2>1. disarmed' \in [Outputs -> Int]
    BY <1>5 DEF Reload, DefaultDisarmed, Neutral, MinCommand
  <2> QED BY <1>5, <2>1 DEF Reload, TypeOK, driver, wires
<1>6. CASE MotorDisable
  BY <1>6 DEF MotorDisable, TypeOK, loop, Low
<1>7. CASE Update
  <2>1. us' \in [Outputs -> Int]
    BY <1>7, MixedType, OutputType DEF Update
  <2>2. saturated' \in BOOLEAN
    BY <1>7, Zenon DEF Update, Saturates
  <2>3. 0 \in Outputs
    BY MotorAssumption DEF Outputs
  <2> QED BY <1>7, <2>1, <2>2, <2>3 DEF Update, TypeOK, driver, wires
<1>8. CASE Write
  <2>1. at' \in Outputs /\ pc' \in Places
    BY <1>8, AdvanceType DEF Write, Places, TypeOK
  <2>2. UsToTicks(us[at]) \in Int
    BY TicksType DEF TypeOK
  <2>3. slots' \in [Outputs -> [pin : BOOLEAN, pulse : Int]]
    BY <1>8, <2>2 DEF Write, TypeOK
  <2> QED BY <1>8, <2>1, <2>3 DEF Write, TypeOK, wires, Places
<1>9. CASE Apply
  <2>1. loud' \in BOOLEAN
    BY <1>9, Zenon DEF Apply, TypeOK
  <2>2. isr' \in {"off", "armed", "running"}
    BY <1>9 DEF Apply, TypeOK
  <2>3. /\ pc' = "idle" /\ us' = Zero
        /\ UNCHANGED <<cfg, flight, disarmed, saturated, at, slots, busy, asked, left,
                       protocol, level, width, whole, fits>>
    BY <1>9, Zenon DEF Apply
  <2>4. Zero \in [Outputs -> Int]
    BY DEF Zero
  <2> QED BY <2>1, <2>2, <2>3, <2>4 DEF TypeOK
<1>10. CASE BeginFrame
  <2> DEFINE ticks == IF Active = {} THEN 0 ELSE Min({Pulse(o) : o \in Active})
             high == [o \in Outputs |-> level[o] \/ o \in Begun]
  <2>1. ticks \in Int
    BY DelayTypes
  <2>2. high \in [Outputs -> BOOLEAN] /\ Zero \in [Outputs -> Int]
    BY DEF Zero
  <2>3. Spend(ticks, high, Zero) /\ Wait(ticks, "running")
    BY <1>10 DEF BeginFrame
  <2>4. level' \in [Outputs -> BOOLEAN] /\ width' \in [Outputs -> Int]
    <3> HIDE DEF ticks, high
    <3> QED BY <2>1, <2>2, <2>3, SpendType
  <2>5. isr' \in {"off", "armed", "running"}
    BY <2>3 DEF Wait
  <2>6. asked' \in [Outputs -> Int] /\ left' \subseteq Outputs
    BY <1>10 DEF BeginFrame, Active, Pulse, TypeOK
  <2> QED BY <1>10, <2>4, <2>5, <2>6 DEF BeginFrame, TypeOK, loop
<1>11. CASE EndPulses
  <2> DEFINE ticks == Least(left \ Group) - Greatest(Group)
             high == [o \in Outputs |-> level[o] /\ o \notin Group \cap Ended]
  <2>1. ticks \in Int
    BY <1>11, DelayTypes DEF EndPulses
  <2>2. high \in [Outputs -> BOOLEAN] /\ width \in [Outputs -> Int]
    BY DEF TypeOK
  <2>3. Spend(ticks, high, width) /\ Wait(ticks, "running")
    BY <1>11 DEF EndPulses
  <2>4. level' \in [Outputs -> BOOLEAN] /\ width' \in [Outputs -> Int]
    <3> HIDE DEF ticks, high
    <3> QED BY <2>1, <2>2, <2>3, SpendType
  <2>5. isr' \in {"off", "armed", "running"}
    BY <2>3 DEF Wait
  <2> QED BY <1>11, <2>4, <2>5 DEF EndPulses, TypeOK, loop
<1>12. CASE EndFrame
  <2>1. level' \in [Outputs -> BOOLEAN]
    BY <1>12 DEF EndFrame
  <2>2. fits' \in BOOLEAN
    BY <1>12, Zenon DEF EndFrame
  <2>3. loud' \in BOOLEAN
    BY <1>12, Zenon DEF EndFrame
  <2>4. isr' \in {"off", "armed", "running"}
    BY <1>12 DEF EndFrame, Wait
  <2>5. /\ busy' = FALSE /\ left' = {} /\ asked' = Zero /\ width' = Zero
        /\ UNCHANGED <<cfg, protocol, flight, disarmed, us, saturated, pc, at, slots, whole>>
    BY <1>12, Zenon DEF EndFrame, loop
  <2>6. Zero \in [Outputs -> Int]
    BY DEF Zero
  <2> QED BY <2>1, <2>2, <2>3, <2>4, <2>5, <2>6 DEF TypeOK
<1>13. CASE UNCHANGED vars
  BY <1>13 DEF vars, loop, driver, wires, TypeOK
<1> QED BY <1>1, <1>2, <1>3, <1>4, <1>5, <1>6, <1>7, <1>8, <1>9, <1>10, <1>11, <1>12, <1>13
        DEF Next, Handle

(* Pulses, slots and wires are what they are taken to be. *)
THEOREM TypeCorrect == Spec => []TypeOK
BY TypeInit, TypeStep, PTL DEF Spec

-----------------------------------------------------------------------------
(***************************************************************************)
(* A wire that is high is watched.  But for brushed motors a high wire has *)
(* its end among the pulses left, so that the end of a frame leaves none;  *)
(* and the frames of brushed motors follow each other without an end.      *)
(***************************************************************************)
Watched ==
  /\ isr = "off" => \A o \in Outputs : ~level[o]
  /\ protocol \notin Analog => isr = "off"
  /\ protocol # "BRUSHED" => \A o \in Outputs : level[o] => (busy /\ o \in left)

LEMMA WatchedInit == Init => Watched
BY DEF Init, Watched, Low

(* The pause of an asynchronous frame is worth an interrupt. *)
LEMMA PauseIsLong ==
  ASSUME TypeOK, Async
  PROVE  /\ Pause > WaitEdge
         /\ left # {} => Pause >= Interval - Greatest(left)
<1>1. /\ Interval \in Int /\ Interval >= 10000
      /\ WaitEdge \in Int /\ MinTicks \in Int /\ WaitEdge < MinTicks /\ WaitEdge < 10000
  BY PeriodBounds, WaitAssumption
<1>2. CASE left = {}
  BY <1>1, <1>2 DEF Pause
<1>3. CASE left # {}
  <2> DEFINE rest == Interval - Greatest(left)
             V == {rest, MinTicks}
  <2>1. rest \in Int
    BY <1>1, <1>3, Ends DEF TypeOK
  <2> HIDE DEF rest
  <2>2. \E x \in V : \A y \in V : x >= y
    BY <1>1, <2>1
  <2>3. Max(V) \in V /\ \A y \in V : Max(V) >= y
    BY <2>2 DEF Max
  <2>4. Max(V) > WaitEdge /\ Max(V) >= rest
    BY <1>1, <2>1, <2>3
  <2>5. Pause = Max(V)
    BY <1>3 DEF Pause, rest
  <2> USE DEF rest
  <2> QED BY <2>4, <2>5
<1> QED BY <1>2, <1>3

LEMMA WatchedStep ==
  ASSUME TypeOK, Watched, [Next]_vars
  PROVE  Watched'
<1>1. CASE AttachPulse
  <2>1. \A o \in Outputs : level'[o] => level[o]
    BY <1>1 DEF AttachPulse, TypeOK
  <2> QED BY <1>1, <2>1 DEF AttachPulse, Watched
<1>2. CASE Attach
  BY <1>2 DEF Attach, Watched, wires
<1>3. CASE Fly \/ SetMotor \/ Reload \/ Update \/ UNCHANGED vars
  <2>1. UNCHANGED <<isr, level, protocol, busy, left>>
    BY <1>3, Zenon DEF Fly, SetMotor, Reload, Update, driver, wires, vars
  <2> QED BY <2>1 DEF Watched
<1>4. CASE MotorDisable
  <2>1. isr' = "off" /\ level' = Low
    BY <1>4 DEF MotorDisable, Watched
  <2> QED BY <2>1 DEF Watched, Low
<1>5. CASE Write
  BY <1>5 DEF Write, Watched, wires
<1>6. CASE Apply
  <2>1. UNCHANGED <<level, protocol, busy, left>> /\ (isr' = isr \/ isr' = "armed")
    BY <1>6, Zenon DEF Apply
  <2>2. protocol \notin Analog => isr' = isr
    BY <1>6 DEF Apply
  <2> QED BY <2>1, <2>2 DEF Watched
<1>7. CASE BeginFrame
  <2>1. isr = "armed" /\ isr' # "off" /\ protocol' = protocol /\ busy' /\ left' = Active
    BY <1>7, Zenon DEF BeginFrame, Wait
  <2>2. \A o \in Outputs : level'[o] => level[o] \/ o \in Begun
    BY <1>7 DEF BeginFrame, Spend
  <2>3. ~busy /\ Begun \subseteq Active
    BY <1>7, Zenon DEF BeginFrame, Begun
  <2> QED BY <2>1, <2>2, <2>3 DEF Watched
<1>8. CASE EndPulses
  <2>1. isr # "off" /\ isr' # "off" /\ UNCHANGED <<protocol, busy>> /\ left' = left \ Group
    BY <1>8, Zenon DEF EndPulses, Wait
  <2>2. \A o \in Outputs : level'[o] <=> level[o] /\ o \notin Group \cap Ended
    BY <1>8 DEF EndPulses, Spend
  <2>3. protocol # "BRUSHED" => Ended = Outputs
    BY DEF Ended
  <2> QED BY <2>1, <2>2, <2>3 DEF Watched
<1>9. CASE EndFrame
  <2>1. /\ isr # "off" /\ Group = left /\ ~busy' /\ protocol' = protocol
        /\ Wait(Pause, "off")
    BY <1>9, Zenon DEF EndFrame
  <2>2. level' = [o \in Outputs |-> level[o] /\ o \notin Group \cap Ended]
    BY <1>9, Zenon DEF EndFrame
  <2>3. \A o \in Outputs : level'[o] => level[o] /\ o \notin Group \cap Ended
    BY <2>2
  <2>4. protocol # "BRUSHED" => Ended = Outputs
    BY DEF Ended
  <2>5. protocol # "BRUSHED" => \A o \in Outputs : ~level'[o]
    BY <2>1, <2>3, <2>4 DEF Watched
  <2>6. protocol = "BRUSHED" => isr' # "off"
    <3> SUFFICES ASSUME protocol = "BRUSHED" PROVE isr' # "off"
      OBVIOUS
    <3>1. Pause > WaitEdge
      BY PauseIsLong DEF Async
    <3> QED BY <2>1, <3>1 DEF Wait
  <2>7. protocol \in Analog
    BY <2>1 DEF Watched
  <2> QED BY <2>1, <2>5, <2>6, <2>7 DEF Watched
<1> QED BY <1>1, <1>2, <1>3, <1>4, <1>5, <1>6, <1>7, <1>8, <1>9 DEF Next, Handle

LEMMA WatchedAlways == Spec => [](TypeOK /\ Watched)
<1>1. TypeOK /\ Watched /\ [Next]_vars => (TypeOK /\ Watched)'
  BY TypeStep, WatchedStep
<1> QED BY <1>1, TypeInit, WatchedInit, PTL DEF Spec

(***************************************************************************)
(* No motor is left running because the handler did not ask to be called   *)
(* again: for every number of channels, protocol, rate and order of        *)
(* interrupts and steps of the loop, a high wire has an interrupt to come. *)
(***************************************************************************)
THEOREM HighStaysWatched == Spec => []HighIsWatched
<1>1. TypeOK /\ Watched => HighIsWatched
  BY DEF Watched, HighIsWatched
<1> QED BY <1>1, WatchedAlways, PTL

-----------------------------------------------------------------------------
(***************************************************************************)
(* The pulses.  In a frame e ticks have been played.  They are never more  *)
(* than the shortest pulse left, and less by at most DeltaMin for every    *)
(* pulse that has ended, since groups are narrow.  A wire that is high has *)
(* been so for e ticks; one that is low before its end was left out; one   *)
(* whose end has come is low after what was meant, or fills the period.    *)
(***************************************************************************)
Short(o) == protocol = "BRUSHED" /\ asked[o] <= IntervalMin

Long(o) == protocol = "BRUSHED" /\ asked[o] >= IntervalMax

Lost == (Channels - Cardinality(left)) * DeltaMin

InFrame(e) ==
  /\ left # {} => (e <= Least(left) /\ Least(left) - Lost <= e)
  /\ \A o \in left : IF level[o] THEN width[o] = e ELSE Short(o) /\ width[o] = 0
  /\ \A o \in Outputs \ left :
       IF level[o] THEN left # {} /\ Long(o) /\ width[o] = e ELSE Meant(o, width[o])

FrameInv ==
  /\ \A o \in Outputs : level[o] => slots[o].pin
  /\ protocol = "BRUSHED" => \A o \in Outputs : slots[o].pulse >= 0 /\ asked[o] >= 0
  /\ fits
  /\ (busy /\ whole /\ isr # "off") => \E e \in Int : InFrame(e)

LEMMA FrameInit == Init => FrameInv
<1> SUFFICES ASSUME Init PROVE FrameInv
  OBVIOUS
<1>1. \A o \in Outputs : ~level[o]
  BY DEF Init, Low
<1>2. \A o \in Outputs : slots[o].pulse = 0 /\ asked[o] = 0
  BY DEF Init, NoSlot, Slot, Zero
<1>3. fits /\ ~busy
  BY DEF Init
<1> QED BY <1>1, <1>2, <1>3 DEF FrameInv

LEMMA SlackType ==
  ASSUME TypeOK
  PROVE  /\ Slack \in Int /\ Slack >= 0 /\ Lost \in Int /\ Lost >= 0
         /\ left # {} => Lost + (Cardinality(left) - 1) * DeltaMin <= Slack
<1> DEFINE n == Cardinality(left)
<1>1. Channels \in Nat /\ DeltaMin \in Nat
  BY MotorAssumption
<1>2. n \in Int /\ 0 <= n /\ n <= Channels
  BY SubsetsFinite DEF TypeOK
<1> HIDE DEF n
<1>3. Channels * DeltaMin \in Int /\ Channels * DeltaMin >= 0
  BY <1>1, Z3
<1>4. (Channels - n) * DeltaMin \in Int /\ (Channels - n) * DeltaMin >= 0
  BY <1>1, <1>2, Z3
<1>5. (Channels - n) * DeltaMin + (n - 1) * DeltaMin <= Channels * DeltaMin
  BY <1>1, <1>2, Z3
<1> USE DEF n
<1> QED BY <1>3, <1>4, <1>5 DEF Slack, Lost

(* What has been played when the first group ends is what its pulses ask for. *)
LEMMA GroupFits ==
  ASSUME TypeOK, left # {}, NEW e \in Int, InFrame(e), NEW o \in Group
  PROVE  /\ e <= asked[o]
         /\ asked[o] - Slack <= e
         /\ Greatest(Group) - Slack <= e
         /\ o \in Ended => Meant(o, e)
<1> DEFINE n == Cardinality(left)
           g == Cardinality(Group)
<1>1. /\ left \in SUBSET Outputs /\ Group \subseteq left /\ Group \in SUBSET Outputs
      /\ o \in Outputs /\ asked[o] \in Int
  BY GroupIsFirst DEF TypeOK, Pulses
<1>2. /\ Least(left) \in Int /\ Least(left) <= asked[o]
      /\ Greatest(Group) \in Int /\ asked[o] <= Greatest(Group)
  <2>1. Group # {}
    BY GroupIsFirst
  <2> QED BY <1>1, <2>1, Ends
<1>3. n \in Int /\ g \in Int /\ g <= n
  <2>1. IsFiniteSet(left) /\ n \in Int /\ g \in Int
    BY <1>1, SubsetsFinite
  <2>2. g <= n
    BY <1>1, <2>1, FS_Subset
  <2> QED BY <2>1, <2>2
<1>4. (g - 1) * DeltaMin <= (n - 1) * DeltaMin
      /\ (g - 1) * DeltaMin \in Int /\ (n - 1) * DeltaMin \in Int
  <2>1. DeltaMin \in Nat
    BY MotorAssumption
  <2> HIDE DEF n, g
  <2> QED BY <1>3, <2>1, Z3
<1>5. Greatest(Group) - Least(left) <= (g - 1) * DeltaMin
  BY GroupIsNarrow
<1>6. e <= Least(left) /\ Least(left) - Lost <= e
  BY DEF InFrame
<1>7. /\ Slack \in Int /\ Lost \in Int
      /\ Lost + (n - 1) * DeltaMin <= Slack
  BY SlackType
<1>8. e <= asked[o] /\ asked[o] - Slack <= e /\ Greatest(Group) - Slack <= e
  <2> DEFINE a == (g - 1) * DeltaMin
             b == (n - 1) * DeltaMin
  <2>1. a <= b /\ a \in Int /\ b \in Int
    BY <1>4
  <2>2. Greatest(Group) - Least(left) <= a /\ Lost + b <= Slack
    BY <1>5, <1>7
  <2> HIDE DEF a, b
  <2> QED BY <1>1, <1>2, <1>6, <1>7, <2>1, <2>2
<1>9. ASSUME o \in Ended PROVE Meant(o, e)
  <2>1. ~(protocol = "BRUSHED" /\ asked[o] >= IntervalMax)
    BY <1>1, <1>9 DEF Ended
  <2>2. e \in (asked[o] - Slack)..asked[o]
    BY <1>1, <1>7, <1>8
  <2> QED BY <1>8, <2>1, <2>2 DEF Meant
<1> QED BY <1>8, <1>9

LEMMA FrameKept ==
  ASSUME UNCHANGED <<cfg, protocol, asked, left, width, level>>
  PROVE  \A e \in Int : InFrame(e) => InFrame(e)'
BY DEF InFrame, Short, Long, Lost, Meant, Slack, Least, IntervalMin, IntervalMax, Interval

(* Steps that leave the list and the wires alone. *)
LEMMA FrameAside ==
  ASSUME FrameInv,
         UNCHANGED <<cfg, protocol, asked, left, width, level, busy, fits>>,
         whole' => whole, (busy /\ isr' # "off") => isr # "off",
         \A o \in Outputs : slots[o].pin => slots'[o].pin,
         protocol = "BRUSHED" => \A o \in Outputs : slots'[o].pulse >= 0
  PROVE  FrameInv'
<1>1. (busy' /\ whole' /\ isr' # "off") => \E e \in Int : InFrame(e)'
  <2> SUFFICES ASSUME busy', whole', isr' # "off" PROVE \E e \in Int : InFrame(e)'
    OBVIOUS
  <2>1. PICK e \in Int : InFrame(e)
    BY DEF FrameInv
  <2>2. InFrame(e)'
    BY <2>1, FrameKept
  <2> QED BY <2>1, <2>2
<1>2. \A o \in Outputs : level'[o] => slots'[o].pin
  BY DEF FrameInv
<1>3. protocol' = "BRUSHED" => \A o \in Outputs : slots'[o].pulse >= 0 /\ asked'[o] >= 0
  BY DEF FrameInv
<1>4. fits'
  BY DEF FrameInv
<1> QED BY <1>1, <1>2, <1>3, <1>4 DEF FrameInv

(* The first item: every pulse but the left out ones begins. *)
LEMMA FrameBegins ==
  ASSUME TypeOK, Watched, FrameInv, BeginFrame
  PROVE  FrameInv'
<1> DEFINE ticks == IF Active = {} THEN 0 ELSE Min({Pulse(o) : o \in Active})
<1>0. PICK e \in Int : e = ticks
  <2>1. ticks \in Int
    BY DelayTypes
  <2> HIDE DEF ticks
  <2> QED BY <2>1
<1>1. /\ ~busy /\ left' = Active /\ UNCHANGED <<cfg, protocol, slots, fits>>
      /\ asked' = [o \in Outputs |-> IF o \in Active THEN Pulse(o) ELSE 0]
  BY Zenon DEF BeginFrame
<1>2. \A o \in Outputs : level'[o] <=> (level[o] \/ o \in Begun)
  BY DEF BeginFrame, Spend
<1>3. \A o \in Outputs : width'[o] = IF level'[o] THEN e ELSE 0
  <2>1. \A o \in Outputs : width'[o] = Zero[o] + IF level'[o] THEN ticks ELSE 0
    BY DEF BeginFrame, Spend
  <2>2. \A o \in Outputs : Zero[o] = 0
    BY DEF Zero
  <2> HIDE DEF ticks
  <2> QED BY <1>0, <2>1, <2>2
<1>4. /\ Active \in SUBSET Outputs /\ Begun \subseteq Active
      /\ \A o \in Outputs : o \in Active <=> slots[o].pin
  BY DEF Active, Begun
<1>5. \A o \in Outputs : level[o] => o \in Active
  BY <1>4 DEF FrameInv
<1>6. \A o \in Outputs \ Active : asked'[o] = 0 /\ ~level'[o] /\ width'[o] = 0
  BY <1>1, <1>2, <1>3, <1>4, <1>5
<1>7. \A o \in Active : asked'[o] = Pulse(o) /\ Pulse(o) \in Int
  BY <1>1, <1>4 DEF Pulse, TypeOK, Pulses
<1>8. \A o \in Active : ~level'[o] => Short(o)' /\ width'[o] = 0
  <2> SUFFICES ASSUME NEW o \in Active, ~level'[o] PROVE Short(o)' /\ width'[o] = 0
    OBVIOUS
  <2>1. o \notin Begun /\ width'[o] = 0
    BY <1>2, <1>3, <1>4
  <2>2. protocol = "BRUSHED" /\ Pulse(o) <= IntervalMin
    BY <2>1 DEF Begun
  <2>3. IntervalMin' = IntervalMin
    BY <1>1 DEF IntervalMin, Interval
  <2> QED BY <1>1, <1>7, <2>1, <2>2, <2>3 DEF Short
<1>9. \A o \in Outputs \ Active : Meant(o, width[o])'
  <2> SUFFICES ASSUME NEW o \in Outputs \ Active PROVE Meant(o, width[o])'
    OBVIOUS
  <2>1. /\ asked'[o] = 0 /\ width'[o] = 0 /\ Slack' \in Int /\ Slack' >= 0
        /\ IntervalMin' \in Int /\ IntervalMin' >= 0
        /\ IntervalMax' \in Int /\ IntervalMax' > 0
    <3>1. Slack' = Slack /\ IntervalMin' = IntervalMin /\ IntervalMax' = IntervalMax
      BY <1>1 DEF Slack, IntervalMin, IntervalMax, Interval
    <3> QED BY <1>6, <3>1, SlackType, PeriodBounds
  <2>2. 0 \in (0 - Slack')..0
    BY <2>1
  <2> QED BY <2>1, <2>2 DEF Meant
<1>10. Active # {} => (e <= Least(left)' /\ Least(left)' - Lost' <= e)
  <2> SUFFICES ASSUME Active # {}
               PROVE  e <= Least(left)' /\ Least(left)' - Lost' <= e
    OBVIOUS
  <2>1. {asked'[o] : o \in left'} = {Pulse(o) : o \in Active}
    BY <1>1, <1>7
  <2>2. Least(left)' = e
    BY <1>0, <2>1 DEF Least
  <2>3. Lost' \in Int /\ Lost' >= 0
    <3> DEFINE n == Cardinality(Active)
    <3>1. /\ n \in Int /\ 0 <= n /\ n <= Channels
          /\ Channels \in Nat /\ DeltaMin \in Nat
      BY <1>4, SubsetsFinite, MotorAssumption
    <3>2. Lost' = (Channels - n) * DeltaMin
      BY <1>1 DEF Lost
    <3> HIDE DEF n
    <3>3. (Channels - n) * DeltaMin \in Int /\ (Channels - n) * DeltaMin >= 0
      BY <3>1, Z3
    <3> QED BY <3>2, <3>3
  <2>4. PICK l \in Int : Lost' = l /\ l >= 0
    BY <2>3
  <2>5. e <= e /\ e - l <= e
    <3> HIDE DEF ticks
    <3> QED BY <1>0, <2>4
  <2> HIDE DEF ticks
  <2> QED BY <2>2, <2>4, <2>5
<1>11. InFrame(e)'
  <2>1. left' = Active
    BY <1>1
  <2>2. \A o \in Active : level'[o] => width'[o] = e
    BY <1>3, <1>4
  <2> HIDE DEF ticks
  <2> QED BY <1>6, <1>8, <1>9, <1>10, <2>1, <2>2 DEF InFrame
<1>12. \A o \in Outputs : level'[o] => slots'[o].pin
  BY <1>1, <1>2, <1>4, <1>5
<1>13. protocol' = "BRUSHED" => \A o \in Outputs : slots'[o].pulse >= 0 /\ asked'[o] >= 0
  <2> SUFFICES ASSUME protocol = "BRUSHED", NEW o \in Outputs
               PROVE  slots'[o].pulse >= 0 /\ asked'[o] >= 0
    BY <1>1
  <2>1. slots[o].pulse >= 0
    BY DEF FrameInv
  <2> QED BY <1>1, <2>1 DEF Pulse
<1>14. fits'
  BY <1>1 DEF FrameInv
<1> QED
  <2> HIDE DEF ticks
  <2> QED BY <1>11, <1>12, <1>13, <1>14 DEF FrameInv

(* An item within a frame: one group ends, the next one's turn is waited for. *)
LEMMA FrameGoesOn ==
  ASSUME TypeOK, Watched, FrameInv, EndPulses
  PROVE  FrameInv'
<1> DEFINE rest == left \ Group
           ticks == Least(rest) - Greatest(Group)
<1>1. /\ isr # "off" /\ busy /\ Group # left /\ left' = rest
      /\ UNCHANGED <<cfg, protocol, slots, asked, busy, whole, fits>>
  BY Zenon DEF EndPulses
<1>2. \A o \in Outputs : level'[o] <=> level[o] /\ o \notin Group \cap Ended
  BY DEF EndPulses, Spend
<1>3. left \in SUBSET Outputs /\ left # {} /\ Group \subseteq left /\ Group # {} /\ rest # {}
  <2>1. left # {}
    BY <1>1 DEF Group
  <2> QED BY <1>1, <2>1, GroupIsFirst DEF TypeOK
<1>4. /\ Least(left) \in Int /\ Least(rest) \in Int /\ Greatest(Group) \in Int
      /\ Least(left) <= Greatest(Group)
  <2>1. rest \in SUBSET Outputs /\ Group \in SUBSET Outputs
    BY <1>3
  <2>2. PICK o \in Group : Greatest(Group) = asked[o]
    BY <1>3, <2>1, Ends
  <2>3. Least(left) <= asked[o]
    BY <1>3, <2>2, Ends
  <2> HIDE DEF rest
  <2> QED BY <1>3, <2>1, <2>2, <2>3, Ends
<1>5. \A o \in Outputs : width[o] \in Int
  BY DEF TypeOK
<1>6. \A o \in Outputs : width'[o] = IF level'[o] THEN width[o] + ticks ELSE width[o]
  <2>1. \A o \in Outputs : width'[o] = width[o] + IF level'[o] THEN ticks ELSE 0
    BY DEF EndPulses, Spend
  <2> HIDE DEF ticks
  <2> QED BY <1>5, <2>1
<1>7. /\ \A o \in Outputs : level'[o] => slots'[o].pin
      /\ protocol' = "BRUSHED" => \A o \in Outputs : slots'[o].pulse >= 0 /\ asked'[o] >= 0
      /\ fits'
  BY <1>1, <1>2 DEF FrameInv
<1>8. CASE ~whole
  BY <1>1, <1>7, <1>8 DEF FrameInv
<1>9. CASE whole
  <2>1. PICK e \in Int : InFrame(e)
    BY <1>1, <1>9 DEF FrameInv
  <2>2. PICK f \in Int : f = e + ticks
    <3>1. ticks \in Int
      BY <1>4
    <3> HIDE DEF ticks
    <3> QED BY <3>1
  <2>3. f <= Least(left)' /\ Least(left)' - Lost' <= f
    <3> DEFINE n == Cardinality(left)
               g == Cardinality(Group)
               r == Cardinality(rest)
    <3>1. /\ n \in Int /\ g \in Int /\ r \in Int /\ r = n - g /\ n <= Channels
          /\ Channels \in Int /\ DeltaMin \in Nat
      <4>1. /\ IsFiniteSet(left) /\ n \in Int /\ n <= Channels /\ g \in Int
        BY <1>3, SubsetsFinite
      <4>2. r = n - Cardinality(left \cap Group)
        BY <4>1, FS_Difference
      <4>3. left \cap Group = Group
        BY <1>3
      <4> HIDE DEF n, r
      <4> QED BY <4>1, <4>2, <4>3, MotorAssumption
    <3>2. Lost = (Channels - n) * DeltaMin /\ Lost' = (Channels - r) * DeltaMin
      BY <1>1 DEF Lost
    <3>3. Least(left)' = Least(rest)
      BY <1>1 DEF Least
    <3>4. Greatest(Group) - Least(left) <= (g - 1) * DeltaMin
      BY <1>3, GroupIsNarrow
    <3>5. e <= Least(left) /\ Least(left) - Lost <= e
      BY <1>3, <2>1 DEF InFrame
    <3> HIDE DEF n, g, r, rest
    <3>6. /\ (Channels - n) * DeltaMin + (g - 1) * DeltaMin <= (Channels - r) * DeltaMin
          /\ (Channels - n) * DeltaMin \in Int /\ (g - 1) * DeltaMin \in Int
          /\ (Channels - r) * DeltaMin \in Int
      BY <3>1, Z3
    <3>7. f = e + (Least(rest) - Greatest(Group))
      BY <2>2
    <3> DEFINE a == (Channels - n) * DeltaMin
               b == (g - 1) * DeltaMin
               c == (Channels - r) * DeltaMin
    <3>8. /\ a + b <= c /\ a \in Int /\ b \in Int /\ c \in Int
          /\ Lost = a /\ Lost' = c /\ Greatest(Group) - Least(left) <= b
      BY <3>2, <3>4, <3>6
    <3> HIDE DEF a, b, c, ticks
    <3> QED BY <1>4, <2>1, <2>2, <3>3, <3>5, <3>7, <3>8
  <2>4. \A o \in Outputs : /\ Short(o)' <=> Short(o)
                           /\ Long(o)' <=> Long(o)
                           /\ \A x : Meant(o, x)' <=> Meant(o, x)
    BY <1>1 DEF Short, Long, Meant, Slack, IntervalMin, IntervalMax, Interval
  <2>5. ASSUME NEW o \in rest
        PROVE  IF level'[o] THEN width'[o] = f ELSE Short(o)' /\ width'[o] = 0
    <3>1. o \in Outputs /\ o \in left /\ (level'[o] <=> level[o])
      BY <1>2, <1>3
    <3>2. IF level[o] THEN width[o] = e ELSE Short(o) /\ width[o] = 0
      BY <2>1, <3>1 DEF InFrame
    <3> HIDE DEF ticks, rest
    <3> QED BY <1>6, <2>2, <2>4, <3>1, <3>2
  <2>6. ASSUME NEW o \in Outputs \ rest
        PROVE  IF level'[o] THEN Long(o)' /\ width'[o] = f ELSE Meant(o, width[o])'
    <3>1. CASE o \in Group
      <4>1. o \in left /\ o \in Outputs
        BY <1>3, <3>1
      <4>2. IF level[o] THEN width[o] = e ELSE Short(o) /\ width[o] = 0
        BY <2>1, <4>1 DEF InFrame
      <4>3. CASE level[o] /\ o \in Ended
        <5>1. ~level'[o] /\ width'[o] = e
          BY <1>2, <1>6, <3>1, <4>1, <4>2, <4>3
        <5>2. Meant(o, e)
          BY <1>3, <2>1, <3>1, <4>3, GroupFits
        <5> QED BY <2>4, <5>1, <5>2
      <4>4. CASE level[o] /\ o \notin Ended
        <5>1. Long(o)
          BY <4>1, <4>4 DEF Ended, Long
        <5>2. level'[o]
          BY <1>2, <4>1, <4>4
        <5> HIDE DEF ticks
        <5> QED BY <1>6, <2>2, <2>4, <4>1, <4>2, <4>4, <5>1, <5>2
      <4>5. CASE ~level[o]
        <5>1. ~level'[o] /\ width'[o] = 0
          BY <1>2, <1>6, <4>1, <4>2, <4>5
        <5>2. Short(o)
          BY <4>2, <4>5
        <5>3. Meant(o, 0)
          <6>1. /\ protocol = "BRUSHED" /\ asked[o] <= IntervalMin /\ asked[o] >= 0
                /\ asked[o] \in Int
            BY <4>1, <5>2 DEF Short, FrameInv, TypeOK, Pulses
          <6>2. ~(asked[o] >= IntervalMax)
            BY <6>1, PeriodBounds
          <6> QED BY <6>1, <6>2 DEF Meant
        <5> QED BY <2>4, <5>1, <5>3
      <4> QED BY <4>3, <4>4, <4>5
    <3>2. CASE o \notin Group
      <4>1. o \in Outputs \ left /\ (level'[o] <=> level[o])
        BY <1>2, <3>2
      <4>2. IF level[o] THEN left # {} /\ Long(o) /\ width[o] = e ELSE Meant(o, width[o])
        BY <2>1, <4>1 DEF InFrame
      <4>3. level[o] => width'[o] = f
        <5> HIDE DEF ticks
        <5> QED BY <1>6, <2>2, <4>1, <4>2
      <4>4. ~level[o] => width'[o] = width[o]
        BY <1>6, <4>1
      <4> QED BY <2>4, <4>1, <4>2, <4>3, <4>4
    <3> QED BY <3>1, <3>2
  <2>7. InFrame(f)'
    <3> HIDE DEF rest, ticks
    <3> QED BY <1>1, <1>3, <2>3, <2>5, <2>6 DEF InFrame
  <2> QED BY <1>7, <2>7 DEF FrameInv
<1> QED BY <1>8, <1>9

(* The last item: what was played is what was asked. *)
LEMMA FrameEnds ==
  ASSUME TypeOK, Watched, FrameInv, EndFrame
  PROVE  FrameInv'
<1> DEFINE high == [o \in Outputs |-> level[o] /\ o \notin Group \cap Ended]
           had == [o \in Outputs |-> width[o] + IF high[o] THEN Pause ELSE 0]
<1>1. /\ isr # "off" /\ busy /\ Group = left /\ ~busy' /\ asked' = Zero
      /\ UNCHANGED <<cfg, protocol, slots, whole>>
      /\ level' = high
  BY Zenon DEF EndFrame
<1>2. fits' = (whole => \A o \in Outputs : Meant(o, had[o]))
  BY Zenon DEF EndFrame
<1>3. \A o \in Outputs : high[o] <=> level[o] /\ o \notin Group \cap Ended
  OBVIOUS
<1>4. Pause \in Int
  BY <1>1, DelayTypes
<1>5. \A o \in Outputs : had[o] = IF high[o] THEN width[o] + Pause ELSE width[o]
  <2>1. \A o \in Outputs : width[o] \in Int
    BY DEF TypeOK
  <2>2. \A o \in Outputs : had[o] = width[o] + IF high[o] THEN Pause ELSE 0
    OBVIOUS
  <2> HIDE DEF had, high
  <2> QED BY <1>4, <2>1, <2>2
<1> HIDE DEF had
<1>6. ASSUME whole, NEW o \in Outputs PROVE Meant(o, had[o])
  <2>1. PICK e \in Int : InFrame(e)
    BY <1>1, <1>6 DEF FrameInv
  (* A long pulse fills the period. *)
  <2>2. ASSUME left # {}, Long(o) PROVE Meant(o, e + Pause)
    <3>1. left \in SUBSET Outputs /\ \E p \in left : TRUE
      BY <2>2 DEF TypeOK
    <3>2. PICK p \in left : TRUE
      BY <3>1
    <3>3. Greatest(left) - Slack <= e /\ Greatest(left) \in Int /\ Slack \in Int
      BY <1>1, <2>1, <2>2, <3>1, <3>2, GroupFits, Ends, SlackType
    <3>4. Pause >= Interval - Greatest(left)
      BY <2>2, PauseIsLong DEF Long, Async
    <3>5. Interval \in Int
      BY PeriodBounds
    <3>6. e + Pause >= Interval - Slack
      BY <1>4, <2>1, <3>3, <3>4, <3>5
    <3>7. protocol = "BRUSHED" /\ asked[o] >= IntervalMax /\ ~(asked[o] <= IntervalMin)
      <4>1. asked[o] \in Int
        BY DEF TypeOK, Pulses
      <4> QED BY <2>2, <4>1, PeriodBounds DEF Long
    <3> QED BY <3>6, <3>7 DEF Meant
  <2>3. CASE o \in left
    <3>1. IF level[o] THEN width[o] = e ELSE Short(o) /\ width[o] = 0
      BY <2>1, <2>3 DEF InFrame
    <3>2. CASE level[o] /\ o \in Ended
      <4>1. had[o] = e
        BY <1>1, <1>3, <1>5, <2>3, <3>1, <3>2
      <4>2. left # {} /\ o \in Group
        BY <1>1, <2>3
      <4>3. Meant(o, e)
        BY <2>1, <3>2, <4>2, GroupFits
      <4> QED BY <4>1, <4>3
    <3>3. CASE level[o] /\ o \notin Ended
      <4>1. Long(o) /\ left # {}
        BY <2>3, <3>3 DEF Ended, Long
      <4>2. had[o] = e + Pause
        BY <1>3, <1>5, <3>1, <3>3
      <4> QED BY <2>2, <4>1, <4>2
    <3>4. CASE ~level[o]
      <4>1. had[o] = 0 /\ Short(o)
        BY <1>3, <1>5, <3>1, <3>4
      <4>2. /\ protocol = "BRUSHED" /\ asked[o] <= IntervalMin /\ asked[o] >= 0
            /\ asked[o] \in Int
        BY <4>1 DEF Short, FrameInv, TypeOK, Pulses
      <4>3. ~(asked[o] >= IntervalMax)
        BY <4>2, PeriodBounds
      <4> QED BY <4>1, <4>2, <4>3 DEF Meant
    <3> QED BY <3>2, <3>3, <3>4
  <2>4. CASE o \notin left
    <3>1. IF level[o] THEN left # {} /\ Long(o) /\ width[o] = e ELSE Meant(o, width[o])
      BY <2>1, <2>4 DEF InFrame
    <3>2. high[o] <=> level[o]
      BY <1>1, <1>3, <2>4
    <3> QED BY <1>5, <2>2, <3>1, <3>2
  <2> QED BY <2>3, <2>4
<1>7. fits'
  BY <1>2, <1>6
<1>8. \A o \in Outputs : level'[o] => slots'[o].pin
  BY <1>1, <1>3 DEF FrameInv
<1>9. protocol' = "BRUSHED" => \A o \in Outputs : slots'[o].pulse >= 0 /\ asked'[o] >= 0
  BY <1>1 DEF FrameInv, Zero
<1> QED BY <1>1, <1>7, <1>8, <1>9 DEF FrameInv

LEMMA FrameStep ==
  ASSUME TypeOK, Watched, FrameInv, [Next]_vars
  PROVE  FrameInv'
<1>1. \A o \in Outputs : protocol = "BRUSHED" => slots[o].pulse >= 0
  BY DEF FrameInv
<1>2. CASE Attach
  <2>1. UNCHANGED <<cfg, protocol, asked, left, width, level, busy, fits, whole, isr>>
    BY <1>2 DEF Attach, wires
  <2>2. \A o \in Outputs : /\ slots[o].pin => slots'[o].pin
                           /\ slots'[o].pulse = slots[o].pulse
    BY <1>2 DEF Attach, TypeOK
  <2> QED BY <1>1, <2>1, <2>2, FrameAside
<1>3. CASE AttachPulse
  <2>1. /\ at \in Outputs /\ UNCHANGED <<cfg, protocol, asked, left, width, busy, fits, isr>>
        /\ level' = [level EXCEPT ![at] = FALSE] /\ (whole' => whole /\ ~level[at])
        /\ slots' = [slots EXCEPT ![at].pulse = UsToTicks(1000)]
    BY <1>3 DEF AttachPulse, TypeOK
  <2>2. UsToTicks(1000) \in Int /\ (protocol = "BRUSHED" => UsToTicks(1000) >= 0)
    BY TicksType
  <2>3. \A o \in Outputs : slots'[o].pin = slots[o].pin
    BY <2>1 DEF TypeOK
  <2>4. protocol = "BRUSHED" => \A o \in Outputs : slots'[o].pulse >= 0
    BY <1>1, <2>1, <2>2 DEF TypeOK
  <2>5. CASE level[at]
    <3>1. \A o \in Outputs : level'[o] => level[o]
      BY <2>1 DEF TypeOK
    <3> QED BY <2>1, <2>3, <2>4, <2>5, <3>1 DEF FrameInv
  <2>6. CASE ~level[at]
    <3>1. level' = level
      BY <2>1, <2>6 DEF TypeOK
    <3> QED BY <2>1, <2>3, <2>4, <3>1, FrameAside
  <2> QED BY <2>5, <2>6
<1>4. CASE Fly \/ SetMotor \/ Reload \/ Update \/ UNCHANGED vars
  <2>1. UNCHANGED <<cfg, protocol, asked, left, width, level, busy, fits, whole, isr, slots>>
    BY <1>4, Zenon DEF Fly, SetMotor, Reload, Update, driver, wires, vars
  <2> QED BY <1>1, <2>1, FrameAside
<1>5. CASE MotorDisable
  <2>1. isr' = "off" /\ level' = Low /\ protocol' = "DISABLED" /\ UNCHANGED fits
    BY <1>5 DEF MotorDisable, Watched
  <2> QED BY <2>1 DEF FrameInv, Low
<1>6. CASE Write
  <2>1. /\ UNCHANGED <<cfg, protocol, asked, left, width, level, busy, fits, whole, isr>>
        /\ slots' = slots \/ slots' = [slots EXCEPT ![at].pulse = UsToTicks(us[at])]
    BY <1>6 DEF Write, wires
  <2>2. UsToTicks(us[at]) \in Int /\ (protocol = "BRUSHED" => UsToTicks(us[at]) >= 0)
    BY TicksType DEF TypeOK, Pulses
  <2>3. \A o \in Outputs : slots'[o].pin = slots[o].pin
    BY <2>1 DEF TypeOK
  <2>4. protocol = "BRUSHED" => \A o \in Outputs : slots'[o].pulse >= 0
    BY <1>1, <2>1, <2>2 DEF TypeOK
  <2> QED BY <2>1, <2>3, <2>4, FrameAside
<1>7. CASE Apply
  <2>1. UNCHANGED <<cfg, protocol, asked, left, width, level, busy, fits, whole, slots>>
    BY <1>7, Zenon DEF Apply
  <2>2. (busy /\ isr' # "off") => isr # "off"
    BY <1>7 DEF Apply
  <2> QED BY <1>1, <2>1, <2>2, FrameAside
<1> QED BY <1>2, <1>3, <1>4, <1>5, <1>6, <1>7, FrameBegins, FrameGoesOn, FrameEnds
        DEF Next, Handle

(***************************************************************************)
(* What the loop writes while a frame is on the wires changes nothing of   *)
(* it: for every number of channels, protocol, rate and order of           *)
(* interrupts and steps of the loop, each pulse is as long as was asked    *)
(* when the frame began, but for what its group may lose.                  *)
(***************************************************************************)
THEOREM PulsesAreAsked == Spec => []PulseIsAsked
<1>1. FrameInv => PulseIsAsked
  BY DEF FrameInv, PulseIsAsked
<1>2. TypeOK /\ Watched /\ FrameInv /\ [Next]_vars => (TypeOK /\ Watched /\ FrameInv)'
  BY TypeStep, WatchedStep, FrameStep
<1> QED BY <1>1, <1>2, TypeInit, WatchedInit, FrameInit, PTL DEF Spec

-----------------------------------------------------------------------------
(* Air mode: what rounding costs, and a product of two bounded numbers. *)

LEMMA RoundedShare ==
  ASSUME NEW a \in Int
  PROVE  LET r == Round(a, 2 * Full)
         IN  r \in Int /\ 40000 * r <= 2 * a + 20000 /\ 2 * a + 20000 < 40000 * r + 40000
BY Z3 DEF Round, Full

LEMMA QuotientBounds ==
  ASSUME NEW n \in Int, NEW d \in Int, d > 0
  PROVE  LET q == n \div d IN q \in Int /\ q * d <= n /\ n < q * d + d
BY Z3

LEMMA PositiveProduct ==
  ASSUME NEW x \in Int, NEW y \in Int, x >= 0, y >= 0
  PROVE  x * y \in Int /\ x * y >= 0
BY Z3

LEMMA ProductWithin ==
  ASSUME NEW x \in Int, NEW y \in Int, NEW m \in Int, NEW n \in Int,
         -m <= x, x <= m, -n <= y, y <= n
  PROVE  /\ x * y \in Int /\ m * n \in Int
         /\ -(m * n) <= x * y /\ x * y <= m * n
<1>1. /\ (m - x) * (n + y) >= 0 /\ (m + x) * (n - y) >= 0
      /\ (m - x) * (n - y) >= 0 /\ (m + x) * (n + y) >= 0
  BY PositiveProduct
<1>2. (m - x) * (n + y) + (m + x) * (n - y) = 2 * (m * n) - 2 * (x * y)
  BY Z3
<1>3. (m - x) * (n - y) + (m + x) * (n + y) = 2 * (m * n) + 2 * (x * y)
  BY Z3
<1> QED BY <1>1, <1>2, <1>3, Z3

(* Within the limits: the difference of two motors' pulses, against what   *)
(* is asked.                                                               *)
Unscaled(s, t, c, r) ==
  (Round((s + c) * r, 2 * Full) - Round((t + c) * r, 2 * Full)) * 2 * Full - (s - t) * r

LEMMA SharesWithin ==
  ASSUME NEW s \in Int, NEW t \in Int, NEW c \in Int, NEW r \in Int
  PROVE  /\ Unscaled(s, t, c, r) \in Int
         /\ -20000 <= Unscaled(s, t, c, r) /\ Unscaled(s, t, c, r) <= 20000
<1> DEFINE a == (s + c) * r
           b == (t + c) * r
           p == Round(a, 2 * Full)
           q == Round(b, 2 * Full)
<1>1. a \in Int /\ b \in Int /\ a - b = (s - t) * r /\ (s - t) * r \in Int
  BY Z3
<1>2. /\ p \in Int /\ 40000 * p <= 2 * a + 20000 /\ 2 * a + 20000 < 40000 * p + 40000
      /\ q \in Int /\ 40000 * q <= 2 * b + 20000 /\ 2 * b + 20000 < 40000 * q + 40000
  <2> HIDE DEF a, b
  <2> QED BY <1>1, RoundedShare
<1> QED
  <2> DEFINE error == (p - q) * 2 * Full - (s - t) * r
  <2>1. error \in Int /\ -20000 <= error /\ error <= 20000
    <3> HIDE DEF a, b, p, q
    <3> QED BY <1>1, <1>2, Z3 DEF Full
  <2> QED BY <2>1 DEF Unscaled

(* Beyond them: what is asked is scaled to what there is, 2 * Full.        *)
Rescaled(s, t, u, r) ==
  (Round(((s * 2 * Full) \div u + Full) * r, 2 * Full)
     - Round(((t * 2 * Full) \div u + Full) * r, 2 * Full)) * u - (s - t) * r

LEMMA SharesScaled ==
  ASSUME NEW s \in Int, NEW t \in Int, NEW r \in Int, -1000 <= r, r <= 1000,
         NEW u \in Int, u > 0
  PROVE  LET error == Rescaled(s, t, u, r)
         IN  error \in Int /\ -(2 * u) <= error /\ error <= 2 * u
<1> DEFINE y == (s * 2 * Full) \div u
           z == (t * 2 * Full) \div u
           a == (y + Full) * r
           b == (z + Full) * r
           p == Round(a, 2 * Full)
           q == Round(b, 2 * Full)
           i == s * 2 * Full - y * u
           j == t * 2 * Full - z * u
           k == 2 * a + 20000 - 40000 * p
           l == 2 * b + 20000 - 40000 * q
<1>1. y \in Int /\ z \in Int /\ i \in Int /\ j \in Int /\ 0 <= i /\ i < u /\ 0 <= j /\ j < u
  <2>1. s * 2 * Full \in Int /\ t * 2 * Full \in Int
    BY DEF Full
  <2>2. \A n \in Int : LET m == n \div u IN m \in Int /\ m * u <= n /\ n < m * u + u
    BY QuotientBounds
  <2>3. /\ y \in Int /\ y * u <= s * 2 * Full /\ s * 2 * Full < y * u + u
        /\ z \in Int /\ z * u <= t * 2 * Full /\ t * 2 * Full < z * u + u
    BY <2>1, <2>2
  <2>4. y * u \in Int /\ z * u \in Int
    <3> HIDE DEF y, z
    <3> QED BY <2>3
  <2> HIDE DEF y, z
  <2> QED BY <2>1, <2>3, <2>4, Z3
<1>2. a \in Int /\ b \in Int
  <2> HIDE DEF y, z
  <2> QED BY <1>1 DEF Full
<1>3. /\ p \in Int /\ q \in Int /\ k \in Int /\ l \in Int
      /\ 0 <= k /\ k < 40000 /\ 0 <= l /\ l < 40000
  <2>1. /\ p \in Int /\ 40000 * p <= 2 * a + 20000 /\ 2 * a + 20000 < 40000 * p + 40000
        /\ q \in Int /\ 40000 * q <= 2 * b + 20000 /\ 2 * b + 20000 < 40000 * q + 40000
    <3> HIDE DEF a, b
    <3> QED BY <1>2, RoundedShare
  <2> HIDE DEF a, b, p, q
  <2> QED BY <1>2, <2>1, Z3
<1>4. /\ (i - j) * r \in Int /\ -(1000 * u) <= (i - j) * r /\ (i - j) * r <= 1000 * u
      /\ (k - l) * u \in Int /\ -(40000 * u) <= (k - l) * u /\ (k - l) * u <= 40000 * u
  <2> HIDE DEF i, j, k, l
  <2>1. /\ i - j \in Int /\ -u <= i - j /\ i - j <= u
        /\ k - l \in Int /\ -40000 <= k - l /\ k - l <= 40000
    BY <1>1, <1>3
  <2>2. (i - j) * r \in Int /\ -(u * 1000) <= (i - j) * r /\ (i - j) * r <= u * 1000
    BY <2>1, ProductWithin
  <2>3. (k - l) * u \in Int /\ -(40000 * u) <= (k - l) * u /\ (k - l) * u <= 40000 * u
    BY <2>1, ProductWithin
  <2> QED BY <2>2, <2>3
<1> DEFINE error == (p - q) * u - (s - t) * r
<1>5. 40000 * error = -(2 * ((i - j) * r)) - (k - l) * u
  <2>1. a - b = (y - z) * r
    <3> HIDE DEF y, z
    <3> QED BY <1>1, Z3 DEF Full
  <2>2. 40000 * (p - q) = 2 * ((y - z) * r) - (k - l)
    <3>1. 40000 * (p - q) = 2 * (a - b) - (k - l)
      <4> HIDE DEF a, b, p, q
      <4> QED BY <1>2, <1>3, Z3
    <3> QED BY <2>1, <3>1
  <2>3. (y - z) * u = 20000 * (s - t) - (i - j)
    <3> HIDE DEF y, z
    <3> QED BY <1>1, Z3 DEF Full
  <2> HIDE DEF a, b, p, q, y, z, i, j, k, l
  <2>4. 40000 * error = (40000 * (p - q)) * u - 40000 * ((s - t) * r)
    BY <1>3, Z3
  <2>5. (40000 * (p - q)) * u = 2 * (((y - z) * u) * r) - (k - l) * u
    BY <1>1, <1>3, <2>2, Z3
  <2>6. ((y - z) * u) * r = 20000 * ((s - t) * r) - (i - j) * r
    BY <1>1, <2>3, Z3
  <2> QED BY <1>1, <1>3, <1>4, <2>4, <2>5, <2>6, Z3
<1>6. error \in Int
  <2> HIDE DEF p, q
  <2> QED BY <1>3
<1>7. -(2 * u) <= error /\ error <= 2 * u
  <2> DEFINE g == (i - j) * r
             h == (k - l) * u
  <2>1. g \in Int /\ h \in Int /\ 40000 * error = -(2 * g) - h
        /\ -(1000 * u) <= g /\ g <= 1000 * u /\ -(40000 * u) <= h /\ h <= 40000 * u
    BY <1>4, <1>5
  <2> HIDE DEF error, g, h
  <2> QED BY <1>6, <2>1, Z3
<1> QED BY <1>6, <1>7 DEF Rescaled

(***************************************************************************)
(* What a balanced quad asks for is spread evenly around nothing, so that  *)
(* the thrust that air mode leaves, or the scale, keeps every motor within *)
(* its limits, and no limit cuts a difference off.                         *)
(***************************************************************************)
AirQuad ==
  /\ flight.air /\ ~Stop /\ Mixer \in {QuadX, QuadX1234} /\ Balanced
  /\ cfg.motorLimit = 100 /\ cfg.servos = {}

Error(pulse, o, p) ==
  (pulse[o] - pulse[p]) * Max({Spread, 2 * Full})
    - (Stabilized(o) - Stabilized(p)) * (MaxThrottle - MinThrottle)

KeepsControl(pulse) ==
  AirQuad =>
    \A o, p \in Driven :
      Error(pulse, o, p) \in (-2 * Max({Spread, 2 * Full}))..(2 * Max({Spread, 2 * Full}))

LEMMA QuadFacts ==
  ASSUME TypeOK, AirQuad
  PROVE  /\ IsFiniteSet(Driven)
         /\ \A o \in Driven : o \in Outputs /\ Mixer.rate["thrust"][o + 1] = 100
<1>1. IsFiniteSet(Driven)
  <2>1. Driven \in SUBSET Outputs
    BY DEF Driven
  <2> QED BY <2>1, SubsetsFinite
<1>2. ASSUME NEW o \in Driven PROVE o \in Outputs /\ Mixer.rate["thrust"][o + 1] = 100
  <2>1. o \in Outputs /\ o < Mixer.count
    BY DEF Driven
  <2>2. o \in Int /\ 0 <= o /\ o < 4
    BY <2>1, MotorAssumption DEF Outputs, AirQuad, QuadX, QuadX1234
  <2>3. o + 1 \in 1..4
    BY <2>2
  <2>4. Mixer.rate["thrust"] = <<100, 100, 100, 100>>
    BY DEF AirQuad, QuadX, QuadX1234
  <2> QED BY <2>1, <2>3, <2>4
<1> QED BY <1>1, <1>2

LEMMA ClampWithin ==
  ASSUME NEW x \in Int, NEW lo \in Int, NEW hi \in Int, lo <= hi
  PROVE  lo <= Clamp(x, lo, hi) /\ Clamp(x, lo, hi) <= hi
BY DEF Clamp

(* The greatest of what the motors are asked is half of the spread. *)
LEMMA EvenSpread ==
  ASSUME TypeOK, AirQuad
  PROVE  \E m \in Int : /\ m >= 0 /\ Spread = 2 * m
                        /\ \A o \in Driven : -m <= Stabilized(o) /\ Stabilized(o) <= m
<1> DEFINE S == Driven \cup {Channels}
           f == [o \in S |-> Stabilized(o)]
           asks == {0} \cup {Stabilized(o) : o \in Driven}
<1>1. Stabilized(Channels) = 0
  BY MotorAssumption DEF Stabilized, Driven, Outputs
<1>2. IsFiniteSet(S) /\ S # {}
  BY QuadFacts, FS_AddElement
<1>3. \A o \in S : f[o] \in Int
  BY StabilizedType
<1>4. asks = {f[o] : o \in S}
  BY <1>1
<1>5. /\ Max(asks) \in Int /\ \A x \in asks : x <= Max(asks)
      /\ Max(asks) \in asks
  <2> HIDE DEF S, f, asks
  <2>1. LET m == Max({f[o] : o \in S})
        IN  m \in Int /\ (\A o \in S : f[o] <= m) /\ \E o \in S : m = f[o]
    BY <1>2, <1>3, MaxOf
  <2> QED BY <1>4, <2>1
<1>6. /\ Min(asks) \in Int /\ \A x \in asks : Min(asks) <= x
      /\ Min(asks) \in asks
  <2> HIDE DEF S, f, asks
  <2>1. LET m == Min({f[o] : o \in S})
        IN  m \in Int /\ (\A o \in S : m <= f[o]) /\ \E o \in S : m = f[o]
    BY <1>2, <1>3, MinOf
  <2> QED BY <1>4, <2>1
<1>7. \A x \in asks : x \in Int /\ -x \in asks
  <2> SUFFICES ASSUME NEW x \in asks PROVE x \in Int /\ -x \in asks
    OBVIOUS
  <2>1. CASE x = 0
    <3>1. 0 \in asks
      OBVIOUS
    <3> HIDE DEF asks
    <3>2. x \in Int /\ x <= 0 /\ x >= 0
      BY <2>1
    <3>3. \A v \in Int : v <= 0 /\ v >= 0 => -v <= 0 /\ -v >= 0
      OBVIOUS
    <3>4. -x \in Int /\ -x <= 0 /\ -x >= 0
      BY <3>2, <3>3
    <3> QED BY <3>1, <3>2, <3>4
  <2>2. CASE x # 0
    <3>1. PICK o \in Driven : x = Stabilized(o)
      BY <2>2
    <3>2. PICK p \in Driven : Stabilized(p) = -Stabilized(o)
      BY <3>1 DEF AirQuad, Balanced
    <3>3. Stabilized(p) \in asks /\ -x = Stabilized(p)
      BY <3>1, <3>2
    <3>4. -x \in asks
      BY <3>3
    <3> QED BY <3>1, <3>4, StabilizedType
  <2> QED BY <2>1, <2>2
<1>8. Min(asks) = -Max(asks) /\ Max(asks) >= 0
  <2>1. 0 \in asks
    OBVIOUS
  <2> DEFINE g == Max(asks)
             l == Min(asks)
  <2>2. g \in Int /\ l \in Int /\ -g \in asks /\ -l \in asks
    BY <1>5, <1>6, <1>7
  <2>3. l <= -g /\ -l <= g /\ 0 <= g
    BY <1>5, <1>6, <2>1, <2>2
  <2> HIDE DEF g, l
  <2>4. l = -g /\ g >= 0
    BY <2>2, <2>3
  <2> USE DEF g, l
  <2> QED BY <2>4
<1>9. \A o \in Driven : -Max(asks) <= Stabilized(o) /\ Stabilized(o) <= Max(asks)
  <2> SUFFICES ASSUME NEW o \in Driven
               PROVE  -Max(asks) <= Stabilized(o) /\ Stabilized(o) <= Max(asks)
    OBVIOUS
  <2>1. Stabilized(o) \in asks
    OBVIOUS
  <2> HIDE DEF asks
  <2> QED BY <1>5, <1>6, <1>8, <2>1
<1>10. Spread = 2 * Max(asks)
  <2>1. Spread = Max(asks) - Min(asks)
    BY DEF Spread
  <2> HIDE DEF asks
  <2> QED BY <1>5, <1>8, <2>1
<1> HIDE DEF asks
<1> QED BY <1>5, <1>8, <1>9, <1>10

(* The greater of two numbers. *)
LEMMA GreaterOf ==
  ASSUME NEW x \in Int, NEW y \in Int
  PROVE  Max({x, y}) = IF x < y THEN y ELSE x
<1>1. \E z \in {x, y} : \A v \in {x, y} : v <= z
  OBVIOUS
<1> DEFINE S == {x, y}
           g == Max(S)
<1>2. g \in S /\ \A v \in S : v <= g
  BY <1>1 DEF Max
<1> HIDE DEF g
<1>3. g = IF x < y THEN y ELSE x
  BY <1>2
<1> USE DEF g
<1> QED BY <1>3

(* What the mixer asks of a motor is within its limits, so that its pulse  *)
(* is the share of the throttle's range.                                   *)
LEMMA PulseOf ==
  ASSUME TypeOK, AirQuad, NEW m \in Int, m >= 0, Spread = 2 * m, NEW o \in Driven,
         -m <= Stabilized(o), Stabilized(o) <= m
  PROVE  LET x == IF m > Full THEN (Stabilized(o) * 2 * Full) \div (2 * m)
                  ELSE Stabilized(o) + Thrust(Spread)
         IN  /\ x \in Int
             /\ Output(o, Mixed) =
                  MinThrottle + Round((x + Full) * (MaxThrottle - MinThrottle), 2 * Full)
<1> DEFINE s == Stabilized(o)
           t == Thrust(Spread)
           y == (s * 2 * Full) \div (2 * m)
           x == IF m > Full THEN y ELSE s + t
<1>1. t \in Int /\ s \in Int
  BY SpreadType, ThrustType, StabilizedType
<1>2. IF m > Full THEN t = 0 ELSE m - Full <= t /\ t <= Full - m
  <2>1. CASE m > Full
    <3>1. Spread > 2 * Full
      BY <2>1 DEF Full
    <3> QED BY <2>1, <3>1 DEF Thrust, AirQuad
  <2>2. CASE ~(m > Full)
    <3>1. ~(Spread > 2 * Full) /\ Spread \div 2 = m
      BY <2>2, Z3 DEF Full
    <3> DEFINE asked_ == LimitThrust(flight.src.thrust * Percent)
    <3>2. t = Clamp(asked_, m - Full, Full - m) /\ asked_ \in Int
      BY <3>1, LimitType DEF Thrust, AirQuad
    <3>3. m - Full \in Int /\ Full - m \in Int /\ m - Full <= Full - m
      BY <2>2 DEF Full
    <3> HIDE DEF asked_, t
    <3> QED BY <2>2, <3>2, <3>3, ClampWithin
  <2> QED BY <2>1, <2>2
<1>3. m > Full => y \in Int /\ -Full <= y /\ y <= Full
  <2> SUFFICES ASSUME m > Full PROVE y \in Int /\ -Full <= y /\ y <= Full
    OBVIOUS
  <2>1. s * 2 * Full \in Int /\ 2 * m \in Int /\ 2 * m > 0
    BY <1>1 DEF Full
  <2>2. y \in Int /\ y * (2 * m) <= s * 2 * Full /\ s * 2 * Full < y * (2 * m) + 2 * m
    BY <2>1, QuotientBounds
  <2> HIDE DEF y, s
  <2>3. y <= Full
    <3> SUFFICES ASSUME y >= Full + 1 PROVE FALSE
      BY <2>2 DEF Full
    <3>1. (y - Full - 1) * (2 * m) >= 0
      BY <2>1, <2>2, PositiveProduct DEF Full
    <3> QED BY <1>1, <2>1, <2>2, <3>1, Z3 DEF Full, s
  <2>4. -Full <= y
    <3> SUFFICES ASSUME y <= -Full - 1 PROVE FALSE
      BY <2>2 DEF Full
    <3>1. (-Full - 1 - y) * (2 * m) >= 0
      BY <2>1, <2>2, PositiveProduct DEF Full
    <3> QED BY <1>1, <2>1, <2>2, <3>1, Z3 DEF Full, s
  <2> QED BY <2>2, <2>3, <2>4
<1>4. x \in Int /\ -Full <= x /\ x <= Full
  <2> HIDE DEF s, t, y
  <2>1. CASE m > Full
    BY <1>3, <2>1
  <2>2. CASE ~(m > Full)
    BY <1>1, <1>2, <2>2 DEF Full, s
  <2> QED BY <2>1, <2>2
<1>5. Mixed[o] = x
  <2>1. o \in Outputs /\ Mixer.rate["thrust"][o + 1] = 100
    BY QuadFacts
  <2>2. (t * 100) \div 100 = t
    <3> HIDE DEF t
    <3> QED BY <1>1, Z3
  <2>3. Spread > 2 * Full <=> m > Full
    BY DEF Full
  <2>4. Mixed[o] = (IF flight.air /\ Spread > 2 * Full THEN (s * 2 * Full) \div Spread ELSE s)
                      + (t * 100) \div 100
    BY <2>1 DEF Mixed
  <2>5. Mixed[o] = (IF m > Full THEN y ELSE s) + t
    BY <2>2, <2>3, <2>4 DEF AirQuad
  <2> HIDE DEF s, t, y
  <2> QED BY <1>1, <1>2, <1>3, <2>5
<1>6. Output(o, Mixed) = MotorPulse(x)
  <2>1. LimitOutput(Mixed[o], o) = x
    BY <1>5 DEF LimitOutput, AirQuad
  <2> QED BY <2>1 DEF Output, AirQuad
<1>7. Clamp(x, -Full, Full) = x
  <2> HIDE DEF x
  <2> QED BY <1>4 DEF Clamp, Full
<1> QED BY <1>4, <1>6, <1>7 DEF MotorPulse

LEMMA OutputKeepsControl ==
  ASSUME TypeOK, NEW pulse, \A o \in Outputs : pulse[o] = Output(o, Mixed)
  PROVE  KeepsControl(pulse)
<1> SUFFICES ASSUME AirQuad, NEW o \in Driven, NEW p \in Driven
             PROVE  Error(pulse, o, p) \in (-2 * Max({Spread, 2 * Full}))..
                                             (2 * Max({Spread, 2 * Full}))
  BY DEF KeepsControl
<1>1. PICK m \in Int : /\ m >= 0 /\ Spread = 2 * m
                       /\ \A q \in Driven : -m <= Stabilized(q) /\ Stabilized(q) <= m
  BY EvenSpread
<1> DEFINE s == Stabilized(o)
           z == Stabilized(p)
           r == MaxThrottle - MinThrottle
           unit == Max({Spread, 2 * Full})
           t == Thrust(Spread)
           lo == MinThrottle
           scaled(v) == (v * 2 * Full) \div (2 * m)
<1>2. /\ lo \in Int /\ r \in Int /\ -1000 <= r /\ r <= 1000
  <2>1. cfg \in Settings
    BY PeriodBounds
  <2>2. cfg.idle \in Throttles /\ cfg.minThrottle \in Throttles /\ cfg.maxThrottle \in Throttles
    BY <2>1 DEF Settings
  <2>3. 2000 \in Throttles
    BY DEF Throttles
  <2>4. lo \in Throttles /\ MaxThrottle \in Throttles
    BY <2>2, <2>3 DEF MinThrottle, MaxThrottle
  <2>5. \A x \in Throttles : x \in Int /\ 1000 <= x /\ x <= 2000
    BY DEF Throttles
  <2> DEFINE hi == MaxThrottle
  <2>6. lo \in Int /\ 1000 <= lo /\ lo <= 2000 /\ hi \in Int /\ 1000 <= hi /\ hi <= 2000
    BY <2>4, <2>5
  <2> HIDE DEF lo, hi
  <2>7. hi - lo \in Int /\ -1000 <= hi - lo /\ hi - lo <= 1000
    BY <2>6
  <2> USE DEF lo, hi
  <2> QED BY <2>6, <2>7
<1>3. unit = IF m > Full THEN 2 * m ELSE 2 * Full
  <2>1. unit = IF Spread < 2 * Full THEN 2 * Full ELSE Spread
    BY <1>1, GreaterOf DEF Full
  <2> HIDE DEF unit
  <2> QED BY <1>1, <2>1 DEF Full
<1>4. o \in Outputs /\ p \in Outputs /\ s \in Int /\ z \in Int /\ t \in Int
  BY QuadFacts, StabilizedType, SpreadType, ThrustType
<1>5. CASE m > Full
  <2>1. /\ pulse[o] = lo + Round((scaled(s) + Full) * r, 2 * Full)
        /\ pulse[p] = lo + Round((scaled(z) + Full) * r, 2 * Full)
    BY <1>1, <1>4, <1>5, PulseOf
  <2>2. Round((scaled(s) + Full) * r, 2 * Full) \in Int
        /\ Round((scaled(z) + Full) * r, 2 * Full) \in Int
    <3>1. scaled(s) \in Int /\ scaled(z) \in Int
      <4>1. 2 * m > 0 /\ 2 * m \in Int /\ s * 2 * Full \in Int /\ z * 2 * Full \in Int
        BY <1>4, <1>5 DEF Full
      <4> QED BY <4>1, QuotientType
    <3> HIDE DEF scaled, r, s, z
    <3>2. (scaled(s) + Full) * r \in Int /\ (scaled(z) + Full) * r \in Int
      BY <1>2, <3>1 DEF Full
    <3> QED BY <3>2, RoundedShare
  <2> DEFINE a == Round((scaled(s) + Full) * r, 2 * Full)
             b == Round((scaled(z) + Full) * r, 2 * Full)
  <2>3. LET error == (a - b) * (2 * m) - (s - z) * r
        IN  error \in Int /\ -(2 * (2 * m)) <= error /\ error <= 2 * (2 * m)
    <3>1. 2 * m \in Int /\ 2 * m > 0
      BY <1>5 DEF Full
    <3> HIDE DEF s, z, r
    <3>2. LET error == Rescaled(s, z, 2 * m, r)
          IN  error \in Int /\ -(2 * (2 * m)) <= error /\ error <= 2 * (2 * m)
      BY <1>2, <1>4, <3>1, SharesScaled
    <3> QED BY <3>2 DEF Rescaled
  <2>4. Error(pulse, o, p) = (pulse[o] - pulse[p]) * unit - (s - z) * r
    BY DEF Error
  <2> HIDE DEF a, b, s, z, r, unit, lo
  <2>5. pulse[o] - pulse[p] = a - b
    BY <1>2, <2>1, <2>2 DEF a, b
  <2>6. Error(pulse, o, p) \in (-2 * unit)..(2 * unit)
    BY <1>3, <1>5, <2>3, <2>4, <2>5
  <2> USE DEF unit
  <2> QED BY <2>6
<1>6. CASE ~(m > Full)
  <2>1. /\ pulse[o] = lo + Round(((s + t) + Full) * r, 2 * Full)
        /\ pulse[p] = lo + Round(((z + t) + Full) * r, 2 * Full)
    BY <1>1, <1>4, <1>6, PulseOf
  <2> DEFINE c == t + Full
             a == Round((s + c) * r, 2 * Full)
             b == Round((z + c) * r, 2 * Full)
  <2>2. /\ c \in Int /\ (s + t) + Full = s + c /\ (z + t) + Full = z + c
        /\ (s + c) * r \in Int /\ (z + c) * r \in Int
    <3> HIDE DEF s, z, t, r
    <3> QED BY <1>2, <1>4 DEF Full
  <2>3. pulse[o] = lo + a /\ pulse[p] = lo + b
    BY <2>1, <2>2
  <2>4. a \in Int /\ b \in Int
    <3> HIDE DEF s, z, c, r
    <3> QED BY <2>2, RoundedShare
  <2>5. LET error == (a - b) * 2 * Full - (s - z) * r
        IN  error \in Int /\ -20000 <= error /\ error <= 20000
    <3> HIDE DEF s, z, c, r
    <3>1. s \in Int /\ z \in Int /\ c \in Int /\ r \in Int
      BY <1>2, <1>4, <2>2
    <3>2. Unscaled(s, z, c, r) \in Int /\ -20000 <= Unscaled(s, z, c, r)
          /\ Unscaled(s, z, c, r) <= 20000
      BY <3>1, SharesWithin
    <3> QED BY <3>2 DEF Unscaled
  <2>6. Error(pulse, o, p) = (pulse[o] - pulse[p]) * unit - (s - z) * r
    BY DEF Error
  <2> HIDE DEF a, b, s, z, r, unit, lo
  <2>7. pulse[o] - pulse[p] = a - b
    BY <1>2, <2>3, <2>4
  <2>8. (a - b) * 2 * Full = (a - b) * unit
    BY <1>3, <1>6, <2>4, Z3 DEF Full
  <2>9. Error(pulse, o, p) \in (-2 * unit)..(2 * unit)
    <3> DEFINE error == (a - b) * 2 * Full - (s - z) * r
    <3>1. error \in Int /\ -20000 <= error /\ error <= 20000 /\ Error(pulse, o, p) = error
      BY <2>5, <2>6, <2>7, <2>8
    <3> HIDE DEF error
    <3> QED BY <1>3, <1>6, <3>1 DEF Full
  <2> USE DEF unit
  <2> QED BY <2>9
<1> QED BY <1>5, <1>6

LEMMA ControlIsShown == AirModeKeepsControl <=> (pc = "write" => KeepsControl(us))
BY DEF AirModeKeepsControl, KeepsControl, Error, AirQuad

(* It is a matter of the flight and the settings, and of the pulses.       *)
LEMMA ControlIsFlight ==
  ASSUME UNCHANGED <<cfg, flight>>, NEW pulse, KeepsControl(pulse)
  PROVE  KeepsControl(pulse)'
<1>1. Mixer' = Mixer /\ Driven' = Driven
  BY DEF Mixer, Driven
<1>2. \A o : Stabilized(o)' = Stabilized(o)
  BY <1>1 DEF Stabilized, Turned, Share
<1>3. Spread' = Spread
  BY <1>1, <1>2 DEF Spread
<1>4. AirQuad' = AirQuad
  BY <1>1, <1>2 DEF AirQuad, Balanced, Stop
<1>5. MaxThrottle' = MaxThrottle /\ MinThrottle' = MinThrottle
  BY DEF MaxThrottle, MinThrottle
<1>6. \A o, p : Error(pulse, o, p)' = Error(pulse, o, p)
  BY <1>2, <1>3, <1>5 DEF Error
<1> QED BY <1>1, <1>3, <1>4, <1>6 DEF KeepsControl

LEMMA ControlInit == Init => AirModeKeepsControl
BY DEF Init, AirModeKeepsControl

LEMMA ControlStep ==
  TypeOK /\ AirModeKeepsControl /\ [Next]_vars => AirModeKeepsControl'
<1> SUFFICES ASSUME TypeOK, AirModeKeepsControl, [Next]_vars PROVE AirModeKeepsControl'
  OBVIOUS
<1>1. ASSUME UNCHANGED <<cfg, flight>>,
             \E pulse : pulse = us' /\ (pc' = "write" => KeepsControl(pulse))
      PROVE  AirModeKeepsControl'
  <2>1. PICK pulse : pulse = us' /\ (pc' = "write" => KeepsControl(pulse))
    BY <1>1
  <2>2. KeepsControl(pulse) => KeepsControl(pulse)'
    BY <1>1, ControlIsFlight
  <2>3. KeepsControl(pulse)' <=> KeepsControl(us)'
    BY <2>1 DEF KeepsControl, Error
  <2>4. AirModeKeepsControl' <=> (pc' = "write" => KeepsControl(us)')
    BY DEF AirModeKeepsControl, KeepsControl, Error, AirQuad
  <2> QED BY <2>1, <2>2, <2>3, <2>4
<1>2. CASE UNCHANGED <<cfg, flight, us>> /\ (pc' = "write" => pc = "write")
  BY <1>1, <1>2, ControlIsShown
<1>3. CASE Update
  <2>1. us' = [o \in Outputs |-> Output(o, Mixed)] /\ UNCHANGED <<cfg, flight>>
    BY <1>3 DEF Update
  <2>2. KeepsControl([o \in Outputs |-> Output(o, Mixed)])
    BY OutputKeepsControl
  <2> QED BY <1>1, <2>1, <2>2
<1>4. CASE Fly \/ Apply
  BY <1>4 DEF Fly, Apply, Loop, AirModeKeepsControl
<1>5. CASE Attach \/ AttachPulse \/ SetMotor \/ Reload \/ MotorDisable \/ Write
  BY <1>2, <1>5 DEF Attach, AttachPulse, SetMotor, Reload, MotorDisable, Write, Loop, Advance, loop
<1>6. CASE Handle \/ UNCHANGED vars
  BY <1>2, <1>6
  DEF Handle, BeginFrame, EndPulses, EndFrame, Spend, Wait, vars, loop, driver, wires
<1> QED BY <1>3, <1>4, <1>5, <1>6 DEF Next

(***************************************************************************)
(* Air mode keeps the differences between the motors of a quad in the      *)
(* proportion the controllers ask for, whatever they ask, as long as it is *)
(* spread evenly around nothing, and whatever the throttle and its limits: *)
(* the scale, the thrust that is left and the rounding to a pulse together *)
(* cost less than two pulses.                                              *)
(***************************************************************************)
THEOREM AirModeControls == Spec => []AirModeKeepsControl
BY TypeInit, TypeStep, ControlInit, ControlStep, PTL DEF Spec

=============================================================================
