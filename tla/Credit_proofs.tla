---------------------------- MODULE Credit_proofs ----------------------------
(***************************************************************************)
(* What a peer is credited for: proofs about module RelayQuality, for any  *)
(* unit, any half life, any movement of the clock and any number of        *)
(* observations, and about module AnnouncementTable, for any number of     *)
(* peers and blocks and any limits.  And what it gains by it: proofs about *)
(* the list of module HighBandwidthPeers.                                  *)
(***************************************************************************)
EXTENDS AnnouncementTable, HighBandwidthPeers, RelayQuality, Basics_proofs

(***************************************************************************)
(* Multiplying by a decay factor keeps the order and amplifies nothing.    *)
(***************************************************************************)
LEMMA ScaledLemma ==
    ASSUME NEW x \in Nat, NEW y \in Nat, x <= y, NEW f \in 0 .. UNIT
    PROVE  /\ Scaled(x, f) \in Nat
           /\ Scaled(x, f) <= Scaled(y, f)
           /\ Scaled(x, f) <= x
<1> USE UnitAssumption
<1>1. x * f \in Nat /\ y * f \in Nat /\ x * UNIT \in Nat
  OBVIOUS
<1>2. x * f <= y * f
  OBVIOUS
<1>3. x * f <= x * UNIT
  OBVIOUS
<1>4. \A a \in Nat : a \div UNIT \in Nat
  OBVIOUS
<1>5. \A a, b \in Nat : a <= b => a \div UNIT <= b \div UNIT
  OBVIOUS
<1>6. (x * UNIT) \div UNIT = x
  OBVIOUS
<1> QED BY <1>1, <1>2, <1>3, <1>4, <1>5, <1>6 DEF Scaled

Signal == [m_sum : Nat, m_weight : Nat, m_last_update : {0} \cup Times]

Event == {ValidatedAnnouncement} \cup {RequestedBlockResult(b) : b \in BOOLEAN}
           \cup {CompactBlockResult(o) : o \in {"direct", "after_blocktxn", "fallback"}}
           \cup {FullBlockSource(b) : b \in BOOLEAN}

(***************************************************************************)
(* DecayFactor is in [0, 1] whichever way the clock went since the last    *)
(* update of the signal.                                                   *)
(***************************************************************************)
LEMMA FactorLemma ==
    ASSUME NEW s \in Signal, NEW t \in Times
    PROVE  DecayFactor(s, t) \in 0 .. UNIT
<1>1. CASE s.m_last_update = 0 \/ t <= s.m_last_update
  BY <1>1, UnitAssumption DEF DecayFactor
<1>2. CASE ~ (s.m_last_update = 0 \/ t <= s.m_last_update)
  <2>1. s.m_last_update \in Times /\ s.m_last_update \in Nat /\ t \in Nat
    BY <1>2, BoundAssumption, Zenon DEF Signal
  <2>2. t - s.m_last_update \in Nat
    BY <1>2, <2>1
  <2>3. t - s.m_last_update \in Spans
    BY <2>1, <2>2 DEF Spans
  <2> QED BY <1>2, <2>3, FactorAssumption DEF DecayFactor
<1> QED BY <1>1, <1>2

(***************************************************************************)
(* Observe keeps the sum of a signal below its weight, and the weight      *)
(* grows by one unit at most.                                              *)
(***************************************************************************)
LEMMA ObserveLemma ==
    ASSUME NEW s \in Signal, s.m_sum <= s.m_weight, NEW v \in Int, NEW t \in Times
    PROVE  /\ Observe(s, v, t) \in Signal
           /\ Observe(s, v, t).m_sum <= Observe(s, v, t).m_weight
           /\ Observe(s, v, t).m_weight <= s.m_weight + UNIT
<1> DEFINE f == DecayFactor(s, t)
<1> DEFINE c == Clamp(v, 0, UNIT)
<1>1. f \in 0 .. UNIT
  BY FactorLemma
<1>2. s.m_sum \in Nat /\ s.m_weight \in Nat
  BY DEF Signal
<1>3. c \in Nat /\ c <= UNIT /\ UNIT \in Nat
  BY UnitAssumption DEF Clamp
<1> HIDE DEF f, c
<1>4. /\ Scaled(s.m_sum, f) \in Nat
      /\ Scaled(s.m_sum, f) <= Scaled(s.m_weight, f)
  BY <1>1, <1>2, ScaledLemma
<1>5. Scaled(s.m_weight, f) \in Nat /\ Scaled(s.m_weight, f) <= s.m_weight
  BY <1>1, <1>2, ScaledLemma
<1>6. Observe(s, v, t) = [m_sum |-> Scaled(s.m_sum, f) + c,
                          m_weight |-> Scaled(s.m_weight, f) + UNIT,
                          m_last_update |-> t]
  BY DEF Observe, DecayTo, f, c
<1>7. Scaled(s.m_sum, f) + c <= Scaled(s.m_weight, f) + UNIT
  BY <1>4, <1>5, <1>3
<1>8. Scaled(s.m_weight, f) + UNIT <= s.m_weight + UNIT
  BY <1>2, <1>5, <1>3
<1>9. Observe(s, v, t) \in Signal
  BY <1>4, <1>5, <1>6, <1>3 DEF Signal
<1> QED BY <1>6, <1>7, <1>8, <1>9

(***************************************************************************)
(* The values observed are in [0, 1], so the std::clamp of Observe never   *)
(* changes one.                                                            *)
(***************************************************************************)
LEMMA EventLemma ==
    ASSUME NEW event \in Event, NEW k \in DOMAIN event
    PROVE  event[k] \in 0 .. UNIT
<1>1. UNIT \in 0 .. UNIT /\ 0 \in 0 .. UNIT /\ UNIT \div 2 \in 0 .. UNIT
  BY UnitAssumption
<1>2. CASE event = ValidatedAnnouncement
  BY <1>1, <1>2 DEF ValidatedAnnouncement
<1>3. ASSUME NEW b \in BOOLEAN, event = RequestedBlockResult(b)
      PROVE  event[k] \in 0 .. UNIT
  BY <1>1, <1>3 DEF RequestedBlockResult
<1>4. ASSUME NEW o \in {"direct", "after_blocktxn", "fallback"}, event = CompactBlockResult(o)
      PROVE  event[k] \in 0 .. UNIT
  BY <1>1, <1>4 DEF CompactBlockResult
<1>5. ASSUME NEW b \in BOOLEAN, event = FullBlockSource(b)
      PROVE  event[k] \in 0 .. UNIT
  BY <1>1, <1>5 DEF FullBlockSource
<1> QED BY <1>2, <1>3, <1>4, <1>5 DEF Event

(***************************************************************************)
(* Every step is an observation of an event, or moves the clock.           *)
(***************************************************************************)
LEMMA NextLemma ==
    ASSUME QualityNext
    PROVE  (\E event \in Event : Record(event)) \/ (\E t \in Times : SetClock(t))
BY Zenon DEF QualityNext, Event, ObserveValidatedAnnouncement, ObserveRequestedBlockResult,
       ObserveCompactBlockResult, ObserveValidFullBlockSource, ObserveInvalidFullBlockSource

QualityInv == QualityTypeOK /\ SignalsBounded

(***************************************************************************)
(* What an observation does to each of the signals.                        *)
(***************************************************************************)
LEMMA RecordLemma ==
    ASSUME QualityInv, NEW event \in Event, Record(event), NEW k \in Kinds
    PROVE  /\ signal'[k] \in Signal
           /\ signal'[k].m_sum <= signal'[k].m_weight
           /\ signal'[k].m_weight <= signal[k].m_weight + UNIT
<1>1. /\ signal[k] \in Signal /\ signal[k].m_sum <= signal[k].m_weight
      /\ signal[k].m_weight \in Nat /\ now \in Times
  BY DEF QualityInv, QualityTypeOK, SignalsBounded, Signal
<1>2. signal'[k] = IF k \in DOMAIN event THEN Observe(signal[k], event[k], now) ELSE signal[k]
  BY DEF Record
<1>3. CASE k \in DOMAIN event
  <2>1. event[k] \in 0 .. UNIT
    BY <1>3, EventLemma
  <2> QED BY <1>1, <1>2, <1>3, <2>1, ObserveLemma
<1>4. CASE k \notin DOMAIN event
  BY <1>1, <1>2, <1>4, UnitAssumption
<1> QED BY <1>3, <1>4

(***************************************************************************)
(* Every step preserves the invariant.                                     *)
(***************************************************************************)
LEMMA QualityStep ==
    ASSUME QualityInv, [QualityNext]_qualityVars
    PROVE  QualityInv'
<1>1. ASSUME NEW event \in Event, Record(event) PROVE QualityInv'
  <2>1. made \in Nat /\ made' = made + 1 /\ now' = now /\ now \in Times
    BY <1>1 DEF Record, QualityInv, QualityTypeOK
  <2>2. \A k \in Kinds : signal'[k] \in Signal
    BY <1>1, RecordLemma
  <2>3. signal' \in [Kinds -> Signal]
    BY <1>1, <2>2 DEF Record
  <2>4. \A k \in Kinds : signal'[k].m_sum <= signal'[k].m_weight
    BY <1>1, RecordLemma
  <2>5. SignalsBounded'
    BY <2>4 DEF SignalsBounded
  <2> QED BY <2>1, <2>3, <2>5 DEF QualityInv, QualityTypeOK, Signal
<1>2. ASSUME NEW t \in Times, SetClock(t) PROVE QualityInv'
  BY <1>2 DEF SetClock, QualityInv, QualityTypeOK, SignalsBounded
<1>3. CASE UNCHANGED qualityVars
  BY <1>3 DEF qualityVars, QualityInv, QualityTypeOK, SignalsBounded
<1> QED BY <1>1, <1>2, <1>3, NextLemma

(***************************************************************************)
(* The signals are well formed and bounded in every behaviour.             *)
(***************************************************************************)
THEOREM QualityInvariant == QualitySpec => []QualityInv
<1>1. QualityInit => QualityInv
  <2> SUFFICES ASSUME QualityInit PROVE QualityInv
    OBVIOUS
  <2>1. now \in Times /\ made = 0 /\ signal = [k \in Kinds |-> NewSignal]
    BY DEF QualityInit
  <2>2. NewSignal \in Signal /\ NewSignal.m_sum = 0 /\ NewSignal.m_weight = 0
    BY DEF NewSignal, Signal
  <2>3. QualityTypeOK
    BY <2>1, <2>2 DEF QualityTypeOK, Signal
  <2>4. SignalsBounded
    BY <2>1, <2>2 DEF SignalsBounded
  <2> QED BY <2>3, <2>4 DEF QualityInv
<1>2. QualityInv /\ [QualityNext]_qualityVars => QualityInv'
  BY QualityStep
<1> QED BY <1>1, <1>2, PTL DEF QualitySpec

(***************************************************************************)
(* DecayingSignal stays an aggregate of values in [0, 1], whatever the     *)
(* clock does between the observations.                                    *)
(***************************************************************************)
THEOREM SignalsAlwaysBounded == QualitySpec => []SignalsBounded
<1>1. QualityInv => SignalsBounded
  BY DEF QualityInv
<1> QED BY <1>1, QualityInvariant, PTL

(***************************************************************************)
(* DecayFactor amplifies no evidence, also when the clock is set back.     *)
(***************************************************************************)
THEOREM EvidenceNeverAmplified == QualitySpec => NeverAmplified
<1> DEFINE Step ==
      \A k \in Kinds : signal'[k].m_weight <= signal[k].m_weight + (made' - made) * UNIT
<1>1. QualityInv /\ [QualityNext]_qualityVars => [Step]_qualityVars
  <2> SUFFICES ASSUME QualityInv, QualityNext, NEW k \in Kinds
               PROVE  signal'[k].m_weight <= signal[k].m_weight + (made' - made) * UNIT
    OBVIOUS
  <2>1. signal[k].m_weight \in Nat /\ made \in Nat /\ UNIT \in Nat
    BY UnitAssumption DEF QualityInv, QualityTypeOK
  <2>2. ASSUME NEW event \in Event, Record(event)
        PROVE  signal'[k].m_weight <= signal[k].m_weight + (made' - made) * UNIT
    <3>1. signal'[k].m_weight <= signal[k].m_weight + UNIT
      BY <2>2, RecordLemma
    <3>2. (made' - made) * UNIT = UNIT
      BY <2>1, <2>2 DEF Record
    <3> QED BY <3>1, <3>2
  <2>3. ASSUME NEW t \in Times, SetClock(t)
        PROVE  signal'[k].m_weight <= signal[k].m_weight + (made' - made) * UNIT
    <3>1. signal' = signal /\ made' = made
      BY <2>3 DEF SetClock
    <3>2. (made' - made) * UNIT = 0
      BY <2>1, <3>1
    <3> QED BY <2>1, <3>1, <3>2
  <2> QED BY <2>2, <2>3, NextLemma
<1> QED BY <1>1, QualityInvariant, PTL DEF QualitySpec, NeverAmplified

(***************************************************************************)
(* An event adds one unit at most to the weight of a signal.               *)
(***************************************************************************)
WeightsCounted == \A k \in Kinds : signal[k].m_weight <= made * UNIT

LEMMA WeightsStep ==
    ASSUME QualityInv, WeightsCounted, [QualityNext]_qualityVars
    PROVE  WeightsCounted'
<1>1. made \in Nat /\ UNIT \in Nat
  BY UnitAssumption DEF QualityInv, QualityTypeOK
<1>2. ASSUME NEW event \in Event, Record(event) PROVE WeightsCounted'
  <2> SUFFICES ASSUME NEW k \in Kinds PROVE signal'[k].m_weight <= made' * UNIT
    BY Zenon DEF WeightsCounted
  <2>1. signal[k].m_weight \in Nat /\ signal[k].m_weight <= made * UNIT
    BY DEF QualityInv, QualityTypeOK, WeightsCounted
  <2>2. signal'[k] \in Signal /\ signal'[k].m_weight <= signal[k].m_weight + UNIT
    BY <1>2, RecordLemma
  <2>3. made' * UNIT = made * UNIT + UNIT
    BY <1>1, <1>2 DEF Record
  <2>4. signal'[k].m_weight \in Nat /\ made * UNIT \in Nat
    BY <1>1, <2>2 DEF Signal
  <2> QED BY <1>1, <2>1, <2>2, <2>3, <2>4
<1>3. ASSUME NEW t \in Times, SetClock(t) PROVE WeightsCounted'
  BY <1>3 DEF SetClock, WeightsCounted
<1>4. CASE UNCHANGED qualityVars
  BY <1>4 DEF qualityVars, WeightsCounted
<1> QED BY <1>2, <1>3, <1>4, NextLemma

(***************************************************************************)
(* It takes MIN_EFFECTIVE_OBSERVATIONS events to pass HasEnoughEvidence,   *)
(* at any reading of the clock.                                            *)
(***************************************************************************)
LEMMA EnoughTakesEvents ==
    ASSUME QualityInv, WeightsCounted, NEW t \in Times, EnoughObservations(t)
    PROVE  made >= MIN_EFFECTIVE_OBSERVATIONS
<1> USE UnitAssumption, BoundAssumption
<1> DEFINE s == signal["evidence"]
           f == DecayFactor(s, t)
<1>1. s \in Signal /\ s.m_weight \in Nat /\ made \in Nat
  BY DEF Kinds, QualityInv, QualityTypeOK, Signal
<1>2. f \in 0 .. UNIT
  BY <1>1, FactorLemma
<1>3. Scaled(s.m_weight, f) >= MIN_EFFECTIVE_OBSERVATIONS * UNIT
  BY DEF EnoughObservations, EffectiveObservations, EffectiveWeight
<1>4. s.m_weight <= made * UNIT
  BY DEF WeightsCounted, Kinds
<1> HIDE DEF s, f
<1>5. Scaled(s.m_weight, f) \in Nat /\ Scaled(s.m_weight, f) <= s.m_weight
  BY <1>1, <1>2, ScaledLemma
<1>6. MIN_EFFECTIVE_OBSERVATIONS * UNIT <= made * UNIT
  BY <1>1, <1>3, <1>4, <1>5
<1>7. \A m, n \in Nat : m * UNIT <= n * UNIT => m <= n
  OBVIOUS
<1> QED BY <1>1, <1>6, <1>7

(***************************************************************************)
(* Division rounds down.                                                   *)
(***************************************************************************)
LEMMA DivLemma ==
    ASSUME NEW a \in Nat, NEW b \in Nat \ {0}
    PROVE  /\ a \div b \in Nat
           /\ (a \div b) * b <= a
           /\ \A q \in Nat : q * b <= a => q <= a \div b
<1>1. a \div b \in Nat
  OBVIOUS
<1>2. (a \div b) * b <= a /\ a < (a \div b + 1) * b
  OBVIOUS
<1>3. ASSUME NEW q \in Nat, q * b <= a, ~ (q <= a \div b) PROVE FALSE
  <2> DEFINE d == a \div b
  <2>1. d \in Nat /\ a < (d + 1) * b
    BY <1>1, <1>2
  <2> HIDE DEF d
  <2>2. d + 1 <= q
    BY <1>1, <1>3, <2>1 DEF d
  <2>3. (d + 1) * b <= q * b
    BY <2>1, <2>2
  <2>4. (d + 1) * b \in Nat /\ q * b \in Nat
    BY <2>1
  <2> QED BY <1>3, <2>1, <2>3, <2>4
<1> QED BY <1>1, <1>2, <1>3

(***************************************************************************)
(* Scaling a sum is scaling the terms, up to one rounding.                 *)
(***************************************************************************)
LEMMA ScaledSum ==
    ASSUME NEW x \in Nat, NEW y \in Nat, NEW f \in 0 .. UNIT
    PROVE  /\ Scaled(x + y, f) \in Nat /\ Scaled(x, f) \in Nat /\ Scaled(y, f) \in Nat
           /\ Scaled(x + y, f) <= Scaled(x, f) + Scaled(y, f) + 1
<1>1. x + y \in Nat /\ x * f \in Nat /\ y * f \in Nat /\ (x + y) * f = x * f + y * f
  BY UnitAssumption
<1>2. Scaled(x + y, f) \in Nat /\ Scaled(x, f) \in Nat /\ Scaled(y, f) \in Nat
  BY <1>1, ScaledLemma
<1>3. \A a, b \in Nat : (a + b) \div UNIT <= a \div UNIT + b \div UNIT + 1
  BY UnitAssumption
<1> QED BY <1>1, <1>2, <1>3 DEF Scaled

(***************************************************************************)
(* Decaying twice leaves no more than decaying once, up to the rounding of *)
(* the factors, of which each observation in the weight has one.           *)
(***************************************************************************)
LEMMA ScaledTwice ==
    ASSUME NEW w \in Nat, NEW m \in Nat, w <= m * UNIT,
           NEW f \in 0 .. UNIT, NEW g \in 0 .. UNIT, NEW h \in 0 .. UNIT,
           f * g <= UNIT * (h + 1)
    PROVE  Scaled(Scaled(w, f), g) <= Scaled(w, h) + m
<1> DEFINE x == Scaled(w, f)
           y == Scaled(x, g)
<1>1. UNIT \in Nat \ {0} /\ f \in Nat /\ g \in Nat /\ h \in Nat
  BY UnitAssumption
<1>2. x \in Nat /\ x * UNIT <= w * f
  <2>1. w * f \in Nat
    BY <1>1
  <2> QED BY <1>1, <2>1, DivLemma DEF Scaled
<1> HIDE DEF x
<1>3. y \in Nat /\ y * UNIT <= x * g
  <2>1. x * g \in Nat
    BY <1>1, <1>2
  <2> QED BY <1>1, <2>1, DivLemma DEF Scaled
<1> HIDE DEF y
<1>4. y * UNIT <= w * h + m * UNIT
  <2>1. (y * UNIT) * UNIT <= (x * g) * UNIT
    BY <1>1, <1>2, <1>3
  <2>2. (x * UNIT) * g <= (w * f) * g
    BY <1>1, <1>2
  <2>3. w * (f * g) <= w * (UNIT * (h + 1))
    BY <1>1
  <2>4. /\ (x * g) * UNIT = (x * UNIT) * g
        /\ (w * f) * g = w * (f * g)
        /\ w * (UNIT * (h + 1)) = (w * h + w) * UNIT
    BY <1>1, <1>2
  <2>5. (y * UNIT) * UNIT <= (w * h + w) * UNIT
    <3>1. /\ (y * UNIT) * UNIT \in Nat /\ (x * g) * UNIT \in Nat /\ (x * UNIT) * g \in Nat
          /\ (w * f) * g \in Nat /\ w * (f * g) \in Nat /\ w * (UNIT * (h + 1)) \in Nat
          /\ (w * h + w) * UNIT \in Nat
      BY <1>1, <1>2, <1>3
    <3> QED BY <2>1, <2>2, <2>3, <2>4, <3>1
  <2>6. \A a, b \in Nat : a * UNIT <= b * UNIT => a <= b
    BY <1>1
  <2>7. y * UNIT \in Nat /\ w * h \in Nat /\ m * UNIT \in Nat /\ w * h + w \in Nat
    BY <1>1, <1>3
  <2>8. y * UNIT <= w * h + w
    BY <2>5, <2>6, <2>7
  <2> QED BY <2>7, <2>8
<1>5. w * h \in Nat /\ Scaled(w, h) \in Nat
  BY <1>1, ScaledLemma
<1>6. CASE y <= m
  BY <1>3, <1>5, <1>6 DEF y, x
<1>7. CASE ~ (y <= m)
  <2>1. y - m \in Nat
    BY <1>3, <1>7
  <2>2. (y - m) * UNIT = y * UNIT - m * UNIT
    BY <1>1, <1>3
  <2>3. (y - m) * UNIT <= w * h
    BY <1>1, <1>3, <1>4, <1>5, <2>2
  <2>4. y - m <= Scaled(w, h)
    BY <1>1, <1>5, <2>1, <2>3, DivLemma DEF Scaled
  <2> QED BY <1>3, <1>5, <2>4 DEF y, x
<1> QED BY <1>6, <1>7

(***************************************************************************)
(* The decay of a signal from a reading n of the clock at which it was     *)
(* updated to a reading t.                                                 *)
(***************************************************************************)
Since(n, t) == IF t <= n THEN UNIT ELSE Exp2(t - n)

(***************************************************************************)
(* A signal that DecayTo brings to n on the way to t decays no less than   *)
(* one that is not touched, up to the rounding of a factor, wherever its   *)
(* last update lies.                                                       *)
(***************************************************************************)
LEMMA FactorsLemma ==
    ASSUME NEW s \in Signal, NEW n \in Times, NEW t \in Times
    PROVE  /\ Since(n, t) \in 0 .. UNIT
           /\ DecayFactor(s, n) * Since(n, t) <= UNIT * (DecayFactor(s, t) + 1)
<1> DEFINE u == s.m_last_update
<1>1. UNIT \in Nat \ {0} /\ n \in Nat /\ t \in Nat
  BY UnitAssumption, BoundAssumption
<1>2. DecayFactor(s, n) \in 0 .. UNIT /\ DecayFactor(s, t) \in 0 .. UNIT
  BY FactorLemma
<1>3. ASSUME NEW a \in Times, NEW b \in Times, b < a PROVE a - b \in Spans
  <2>1. a \in Nat /\ b \in Nat
    BY BoundAssumption
  <2>2. a - b \in Nat
    BY <1>3, <2>1
  <2> QED BY <2>2 DEF Spans
<1>4. Since(n, t) \in 0 .. UNIT
  BY <1>1, <1>3, FactorAssumption DEF Since
<1>5. \A a, b, c \in 0 .. UNIT : a <= c \/ b <= c => a * b <= UNIT * (c + 1)
  <2> SUFFICES ASSUME NEW a \in 0 .. UNIT, NEW b \in 0 .. UNIT, NEW c \in 0 .. UNIT,
                      a <= c \/ b <= c
               PROVE  a * b <= UNIT * (c + 1)
    OBVIOUS
  <2>1. a * b <= UNIT * c
    BY <1>1
  <2>2. UNIT * (c + 1) = UNIT * c + UNIT /\ UNIT * c \in Nat /\ a * b \in Nat
    BY <1>1
  <2> QED BY <1>1, <2>1, <2>2
<1>6. CASE u = 0 \/ t <= u
  <2>1. DecayFactor(s, t) = UNIT
    BY <1>6 DEF DecayFactor
  <2> QED BY <1>2, <1>4, <1>5, <2>1
<1>7. CASE ~ (u = 0 \/ t <= u)
  <2>1. u \in Times /\ u \in Nat /\ u < t /\ u # 0
    <3>1. u \in Times
      BY <1>7, Zenon DEF Signal
    <3>2. u \in Nat
      BY <3>1, BoundAssumption, Zenon
    <3> QED BY <1>1, <1>7, <3>1, <3>2
  <2>2. DecayFactor(s, t) = Exp2(t - u) /\ t - u \in Spans
    BY <1>3, <1>7, <2>1 DEF DecayFactor
  <2>3. CASE n <= u
    <3>1. n < t /\ t - n \in Spans /\ t - u <= t - n
      BY <1>1, <1>3, <2>1, <2>3
    <3>2. Since(n, t) <= DecayFactor(s, t)
      BY <1>1, <2>2, <3>1, HalfLifeAssumption DEF Since
    <3> QED BY <1>2, <1>4, <1>5, <3>2
  <2>4. CASE u < n
    <3>1. DecayFactor(s, n) = Exp2(n - u) /\ n - u \in Spans
      BY <1>1, <1>3, <2>1, <2>4 DEF DecayFactor
    <3>2. CASE t <= n
      <4>1. t - u <= n - u
        BY <1>1, <2>1, <3>2
      <4>2. DecayFactor(s, n) <= DecayFactor(s, t)
        BY <2>2, <3>1, <4>1, HalfLifeAssumption
      <4> QED BY <1>2, <1>4, <1>5, <4>2
    <3>3. CASE ~ (t <= n)
      <4>1. t - n \in Spans /\ (n - u) + (t - n) = t - u
        BY <1>1, <1>3, <2>1, <3>3
      <4>2. Exp2(n - u) * Exp2(t - n) <= UNIT * (Exp2(t - u) + 1)
        BY <2>2, <3>1, <4>1, HalfLifeAssumption
      <4> QED BY <1>4, <2>2, <3>1, <3>3, <4>2 DEF Since
    <3> QED BY <3>2, <3>3
  <2> QED BY <1>1, <2>1, <2>3, <2>4
<1> QED BY <1>6, <1>7

\* The signals that m_evidence is the total of.
Sources == {"valid_announcements", "requested_block_success", "compact_quality",
            "invalid_block_rate"}

\* What a signal weighs once an event is recorded.
Gained(event, k) ==
    EffectiveWeight(signal[k], now) + (IF k \in DOMAIN event THEN UNIT ELSE 0)

(***************************************************************************)
(* AddEvidence is called for every event, beside the Observe of a signal.  *)
(***************************************************************************)
LEMMA SourceLemma ==
    ASSUME NEW event \in Event
    PROVE  "evidence" \in DOMAIN event /\ \E k \in Sources : k \in DOMAIN event
BY DEF Event, Sources, ValidatedAnnouncement, RequestedBlockResult, CompactBlockResult,
       FullBlockSource

(***************************************************************************)
(* At any later reading of the clock a signal weighs what it gained,       *)
(* decayed since the event, or more, up to one rounding for each           *)
(* observation; and exactly that if the event was observed in it.          *)
(***************************************************************************)
LEMMA GainedLemma ==
    ASSUME QualityInv, WeightsCounted, NEW event \in Event, Record(event),
           NEW k \in Kinds, NEW t \in Times
    PROVE  /\ Gained(event, k) \in Nat
           /\ Scaled(Gained(event, k), Since(now, t)) <= EffectiveWeight(signal'[k], t) + made
           /\ k \in DOMAIN event =>
                 EffectiveWeight(signal'[k], t) = Scaled(Gained(event, k), Since(now, t))
<1> DEFINE s == signal[k]
           f == DecayFactor(s, now)
           g == Since(now, t)
           w == s.m_weight
<1>1. s \in Signal /\ w \in Nat /\ now \in Times /\ made \in Nat /\ w <= made * UNIT
  BY DEF QualityInv, QualityTypeOK, Signal, WeightsCounted
<1>2. f \in 0 .. UNIT /\ g \in 0 .. UNIT /\ DecayFactor(s, t) \in 0 .. UNIT
  BY <1>1, FactorLemma, FactorsLemma, Zenon
<1>3. Scaled(w, f) \in Nat
  BY <1>1, <1>2, ScaledLemma
<1>4. signal'[k] = IF k \in DOMAIN event THEN Observe(s, event[k], now) ELSE s
  BY DEF Record
<1>5. CASE k \in DOMAIN event
  <2>1. Gained(event, k) = Scaled(w, f) + UNIT
    BY <1>5, Zenon DEF Gained, EffectiveWeight
  <2>2. signal'[k].m_weight = Scaled(w, f) + UNIT /\ signal'[k].m_last_update = now
    BY <1>4, <1>5 DEF Observe, DecayTo
  <2>3. now # 0
    BY <1>1, BoundAssumption
  <2>4. DecayFactor(signal'[k], t) = g
    BY <2>2, <2>3, Zenon DEF DecayFactor, Since
  <2>5. EffectiveWeight(signal'[k], t) = Scaled(Gained(event, k), g)
    BY <2>1, <2>2, <2>4, Zenon DEF EffectiveWeight
  <2>6. Gained(event, k) \in Nat
    BY <1>3, <2>1, UnitAssumption
  <2>7. Scaled(Gained(event, k), g) \in Nat
    BY <1>2, <2>6, ScaledLemma
  <2> QED BY <1>1, <2>5, <2>6, <2>7
<1>6. CASE k \notin DOMAIN event
  <2>1. Gained(event, k) = Scaled(w, f)
    BY <1>3, <1>6 DEF Gained, EffectiveWeight
  <2>2. EffectiveWeight(signal'[k], t) = Scaled(w, DecayFactor(s, t))
    BY <1>4, <1>6, Zenon DEF EffectiveWeight
  <2>3. f * g <= UNIT * (DecayFactor(s, t) + 1)
    BY <1>1, FactorsLemma, Zenon
  <2>4. Scaled(Scaled(w, f), g) <= Scaled(w, DecayFactor(s, t)) + made
    BY <1>1, <1>2, <2>3, ScaledTwice, Zenon
  <2> QED BY <1>3, <1>6, <2>1, <2>2, <2>4, Zenon
<1> QED BY <1>5, <1>6, Zenon

(***************************************************************************)
(* The same for the sum of the four signals and what they fell short by.   *)
(***************************************************************************)
LEMMA ScaledTotal ==
    ASSUME NEW a \in Nat, NEW b \in Nat, NEW c \in Nat, NEW d \in Nat, NEW r \in Nat,
           NEW f \in 0 .. UNIT
    PROVE  Scaled(a + b + c + d + r, f)
              <= Scaled(a, f) + Scaled(b, f) + Scaled(c, f) + Scaled(d, f) + r + 4
<1>1. a + b \in Nat /\ a + b + c \in Nat /\ a + b + c + d \in Nat
  OBVIOUS
<1>2. /\ Scaled(a + b, f) \in Nat /\ Scaled(a, f) \in Nat /\ Scaled(b, f) \in Nat
      /\ Scaled(a + b, f) <= Scaled(a, f) + Scaled(b, f) + 1
  BY ScaledSum, Zenon
<1>3. /\ Scaled(a + b + c, f) \in Nat /\ Scaled(c, f) \in Nat
      /\ Scaled(a + b + c, f) <= Scaled(a + b, f) + Scaled(c, f) + 1
  BY <1>1, ScaledSum, Zenon
<1>4. /\ Scaled(a + b + c + d, f) \in Nat /\ Scaled(d, f) \in Nat
      /\ Scaled(a + b + c + d, f) <= Scaled(a + b + c, f) + Scaled(d, f) + 1
  BY <1>1, ScaledSum, Zenon
<1>5. /\ Scaled(a + b + c + d + r, f) \in Nat /\ Scaled(r, f) \in Nat
      /\ Scaled(a + b + c + d + r, f) <= Scaled(a + b + c + d, f) + Scaled(r, f) + 1
  BY <1>1, ScaledSum, Zenon
<1>6. Scaled(r, f) <= r
  BY ScaledLemma
<1> QED BY <1>2, <1>3, <1>4, <1>5, <1>6

(***************************************************************************)
(* The inductive invariant behind EvidenceBacked: the signals make up for  *)
(* the evidence at every reading of the clock, not only at the present     *)
(* one, since the next event may come after the clock is set back.         *)
(***************************************************************************)
EvidenceMatched(t) ==
    EffectiveObservations(t) <=
        EffectiveWeight(signal["valid_announcements"], t)
      + EffectiveWeight(signal["requested_block_success"], t)
      + EffectiveWeight(signal["compact_quality"], t)
      + EffectiveWeight(signal["invalid_block_rate"], t)
      + Rounding

EvidenceInv == QualityInv /\ WeightsCounted /\ \A t \in Times : EvidenceMatched(t)

(***************************************************************************)
(* No event adds to the evidence what it does not add to a signal.         *)
(***************************************************************************)
LEMMA MatchedStep ==
    ASSUME EvidenceInv, NEW event \in Event, Record(event), NEW t \in Times
    PROVE  EvidenceMatched(t)'
<1> DEFINE g == Since(now, t)
           v == "valid_announcements"
           q == "requested_block_success"
           c == "compact_quality"
           i == "invalid_block_rate"
           G(k) == Gained(event, k)
           W(k) == EffectiveWeight(signal[k], now)
           After(k) == EffectiveWeight(signal'[k], t)
<1>1. QualityInv /\ WeightsCounted /\ now \in Times /\ made \in Nat /\ UNIT \in Nat
  BY UnitAssumption DEF EvidenceInv, QualityInv, QualityTypeOK
<1>2. signal'["evidence"] \in Signal /\ \A k \in Kinds : signal[k] \in Signal /\ signal'[k] \in Signal
  BY <1>1, RecordLemma DEF Kinds, QualityInv, QualityTypeOK, Signal
<1>3. {v, q, c, i, "evidence"} \subseteq Kinds
  BY DEF Kinds
<1>4. \A k \in Kinds : W(k) \in Nat /\ After(k) \in Nat
  <2> SUFFICES ASSUME NEW k \in Kinds PROVE W(k) \in Nat /\ After(k) \in Nat
    BY Zenon
  <2>1. /\ signal[k].m_weight \in Nat /\ DecayFactor(signal[k], now) \in 0 .. UNIT
        /\ signal'[k].m_weight \in Nat /\ DecayFactor(signal'[k], t) \in 0 .. UNIT
    BY <1>1, <1>2, FactorLemma DEF Signal
  <2> QED BY <2>1, ScaledLemma DEF EffectiveWeight
<1>5. \A k \in Kinds : G(k) \in Nat /\ Scaled(G(k), g) <= After(k) + made
  BY <1>1, GainedLemma, Zenon
<1>6. After("evidence") = Scaled(G("evidence"), g) /\ G("evidence") = W("evidence") + UNIT
  BY <1>1, <1>3, GainedLemma, SourceLemma, Zenon DEF Gained
<1>7. \A k \in Kinds : G(k) = W(k) \/ G(k) = W(k) + UNIT
  BY <1>4 DEF Gained
<1>8. \E k \in {v, q, c, i} : G(k) = W(k) + UNIT
  BY SourceLemma, Zenon DEF Gained, Sources
<1>9. g \in 0 .. UNIT
  BY <1>1, <1>2, <1>3, FactorsLemma, Zenon
<1>10. W("evidence") <= W(v) + W(q) + W(c) + W(i) + Rounding
  BY <1>1, Zenon DEF EvidenceInv, EvidenceMatched, EffectiveObservations
<1>11. Rounding \in Nat /\ Rounding' = Rounding + 4 * made + 4
  <2>1. made' = made + 1
    BY DEF Record
  <2> QED BY <1>1, <2>1 DEF Rounding
<1>12. EvidenceMatched(t)' <=> After("evidence") <= After(v) + After(q) + After(c) + After(i) + Rounding'
  BY Zenon DEF EvidenceMatched, EffectiveObservations, EffectiveWeight, DecayFactor
<1> HIDE DEF g, v, q, c, i, G, W, After
<1>13. /\ G(v) \in Nat /\ G(q) \in Nat /\ G(c) \in Nat /\ G(i) \in Nat
       /\ W(v) \in Nat /\ W(q) \in Nat /\ W(c) \in Nat /\ W(i) \in Nat
       /\ After(v) \in Nat /\ After(q) \in Nat /\ After(c) \in Nat /\ After(i) \in Nat
       /\ G("evidence") \in Nat /\ W("evidence") \in Nat
  BY <1>3, <1>4, <1>5, Zenon
<1>14. G("evidence") <= G(v) + G(q) + G(c) + G(i) + Rounding
  <2>1. /\ G(v) >= W(v) /\ G(q) >= W(q) /\ G(c) >= W(c) /\ G(i) >= W(i)
    BY <1>1, <1>3, <1>7, <1>13
  <2>2. G(v) + G(q) + G(c) + G(i) >= W(v) + W(q) + W(c) + W(i) + UNIT
    BY <1>1, <1>8, <1>13, <2>1
  <2> QED BY <1>1, <1>6, <1>10, <1>11, <1>13, <2>2
<1>15. Scaled(G("evidence"), g) <= Scaled(G(v) + G(q) + G(c) + G(i) + Rounding, g)
  <2>1. G(v) + G(q) + G(c) + G(i) + Rounding \in Nat
    BY <1>11, <1>13
  <2> QED BY <1>9, <1>13, <1>14, <2>1, ScaledLemma, Zenon
<1>16. Scaled(G(v) + G(q) + G(c) + G(i) + Rounding, g)
         <= Scaled(G(v), g) + Scaled(G(q), g) + Scaled(G(c), g) + Scaled(G(i), g) + Rounding + 4
  BY <1>9, <1>11, <1>13, ScaledTotal, Zenon
<1>17. /\ Scaled(G(v), g) <= After(v) + made /\ Scaled(G(q), g) <= After(q) + made
       /\ Scaled(G(c), g) <= After(c) + made /\ Scaled(G(i), g) <= After(i) + made
  BY <1>3, <1>5, Zenon
<1>18. /\ Scaled(G(v), g) \in Nat /\ Scaled(G(q), g) \in Nat
       /\ Scaled(G(c), g) \in Nat /\ Scaled(G(i), g) \in Nat
       /\ Scaled(G("evidence"), g) \in Nat
       /\ Scaled(G(v) + G(q) + G(c) + G(i) + Rounding, g) \in Nat
  <2>1. G(v) + G(q) + G(c) + G(i) + Rounding \in Nat
    BY <1>11, <1>13
  <2>2. \A x \in Nat : Scaled(x, g) \in Nat
    BY <1>9, ScaledLemma
  <2> QED BY <1>13, <2>1, <2>2, Zenon
<1> QED BY <1>1, <1>6, <1>11, <1>12, <1>13, <1>15, <1>16, <1>17, <1>18

(***************************************************************************)
(* The evidence is there at every reading of the clock, for any factors of *)
(* a half life and any unit they are rounded to, however the clock moves   *)
(* between the events.                                                     *)
(***************************************************************************)
THEOREM EvidenceAlwaysBacked == QualitySpec => []EvidenceBacked
<1>1. QualityInit => WeightsCounted /\ \A t \in Times : EvidenceMatched(t)
  <2> SUFFICES ASSUME QualityInit
               PROVE  WeightsCounted /\ \A t \in Times : EvidenceMatched(t)
    OBVIOUS
  <2>1. /\ made = 0
        /\ \A k \in Kinds : signal[k].m_weight = 0 /\ signal[k].m_last_update = 0
    BY DEF QualityInit, NewSignal
  <2>2. WeightsCounted
    BY <2>1, UnitAssumption DEF WeightsCounted
  <2>3. Scaled(0, UNIT) = 0
    BY UnitAssumption DEF Scaled
  <2>4. \A k \in Kinds, t \in Times : EffectiveWeight(signal[k], t) = 0
    BY <2>1, <2>3, Zenon DEF EffectiveWeight, DecayFactor
  <2>5. \A t \in Times : EvidenceMatched(t)
    BY <2>1, <2>4 DEF EvidenceMatched, EffectiveObservations, Rounding, Kinds
  <2> QED BY <2>2, <2>5
<1>2. EvidenceInv /\ QualityInv' /\ [QualityNext]_qualityVars => EvidenceInv'
  <2> SUFFICES ASSUME EvidenceInv, QualityInv', [QualityNext]_qualityVars
               PROVE  EvidenceInv'
    OBVIOUS
  <2>1. WeightsCounted'
    BY WeightsStep, Zenon DEF EvidenceInv
  <2>2. ASSUME NEW event \in Event, Record(event), NEW t \in Times PROVE EvidenceMatched(t)'
    BY <2>2, MatchedStep, Zenon
  <2>3. ASSUME signal' = signal, made' = made, NEW t \in Times PROVE EvidenceMatched(t)'
    <3>1. EvidenceMatched(t)
      BY Zenon DEF EvidenceInv
    <3>2. \A k \in Kinds : EffectiveWeight(signal[k], t)' = EffectiveWeight(signal[k], t)
      BY <2>3, Zenon DEF EffectiveWeight, DecayFactor
    <3>3. Rounding' = Rounding
      BY <2>3, Zenon DEF Rounding
    <3> QED BY <3>1, <3>2, <3>3 DEF EvidenceMatched, EffectiveObservations, Kinds
  <2>4. (\E event \in Event : Record(event)) \/ (signal' = signal /\ made' = made)
    BY NextLemma DEF SetClock, qualityVars
  <2> QED BY <2>1, <2>2, <2>3, <2>4, Zenon DEF EvidenceInv
<1>3. EvidenceInv => EvidenceBacked
  BY EnoughTakesEvents, Zenon DEF EvidenceInv, EvidenceBacked, EvidenceMatched
<1>4. QualityInit /\ QualityInv => EvidenceInv
  BY <1>1, Zenon DEF EvidenceInv
<1> QED BY <1>2, <1>3, <1>4, QualityInvariant, PTL DEF QualitySpec

(***************************************************************************)
(* One more full mark never lowers a mean, and one more zero never raises  *)
(* it.                                                                     *)
(***************************************************************************)
LEMMA MeanLemma ==
    ASSUME NEW sum \in Nat, NEW weight \in Nat \ {0}, sum <= weight
    PROVE  /\ (100 * sum) \div weight \in 0 .. 100
           /\ (100 * (sum + UNIT)) \div (weight + UNIT) >= (100 * sum) \div weight
           /\ (100 * sum) \div (weight + UNIT) <= (100 * sum) \div weight
<1> USE UnitAssumption
<1> DEFINE q == (100 * sum) \div weight
           r == (100 * sum) \div (weight + UNIT)
<1>1. q \in Nat /\ q * weight <= 100 * sum /\ \A n \in Nat : n * weight <= 100 * sum => n <= q
  BY DivLemma
<1>2. r \in Nat /\ r * (weight + UNIT) <= 100 * sum
  <2>1. 100 * sum \in Nat /\ weight + UNIT \in Nat \ {0}
    OBVIOUS
  <2> QED BY <2>1, DivLemma, Zenon
<1>3. \A n \in Nat : n * (weight + UNIT) <= 100 * (sum + UNIT)
          => n <= (100 * (sum + UNIT)) \div (weight + UNIT)
  BY DivLemma
<1> HIDE DEF q, r
<1>4. q <= 100
  <2> SUFFICES ASSUME q >= 101 PROVE FALSE
    BY <1>1
  <2>1. 101 * weight <= q * weight
    BY <1>1
  <2> QED BY <1>1, <2>1
<1>5. q * (weight + UNIT) <= 100 * (sum + UNIT)
  <2>1. q * (weight + UNIT) = q * weight + q * UNIT
    BY <1>1
  <2>2. q * UNIT <= 100 * UNIT
    BY <1>1, <1>4
  <2>3. q * weight \in Nat /\ q * UNIT \in Nat
    BY <1>1
  <2> QED BY <1>1, <2>1, <2>2, <2>3
<1>6. r * weight <= 100 * sum
  <2>1. r * (weight + UNIT) = r * weight + r * UNIT
    BY <1>2
  <2>2. r * weight \in Nat /\ r * UNIT \in Nat
    BY <1>2
  <2> QED BY <1>2, <2>1, <2>2
<1>7. r <= q
  BY <1>1, <1>2, <1>6
<1>8. q <= (100 * (sum + UNIT)) \div (weight + UNIT)
  BY <1>1, <1>3, <1>5
<1>9. q \in 0 .. 100
  BY <1>1, <1>4
<1> QED BY <1>7, <1>8, <1>9, <1>1, <1>2 DEF q, r

(***************************************************************************)
(* What one more observation does to the mean and the weight of a signal,  *)
(* read at the time it is made: the signal has just been decayed, so both  *)
(* are of what it had plus the value observed.                             *)
(***************************************************************************)
LEMMA ObservedLemma ==
    ASSUME NEW s \in Signal, s.m_sum <= s.m_weight, NEW t \in Times, NEW fallback \in 0 .. 100
    PROVE  /\ Mean(s, t, fallback) \in 0 .. 100
           /\ EffectiveWeight(s, t) \in Nat
           /\ \A v \in 0 .. UNIT :
                EffectiveWeight(Observe(s, v, t), t) = EffectiveWeight(s, t) + UNIT
           /\ Mean(Observe(s, UNIT, t), t, fallback) \in Int
           /\ Mean(Observe(s, UNIT, t), t, fallback) >= Mean(s, t, fallback)
           /\ Mean(Observe(s, 0, t), t, fallback) \in Int
           /\ Mean(Observe(s, 0, t), t, fallback) <= Mean(s, t, fallback)
<1> USE UnitAssumption
<1> DEFINE f == DecayFactor(s, t)
           S == Scaled(s.m_sum, f)
           W == Scaled(s.m_weight, f)
<1>1. f \in 0 .. UNIT /\ s.m_sum \in Nat /\ s.m_weight \in Nat
  BY FactorLemma DEF Signal
<1> HIDE DEF f
<1>2. S \in Nat /\ W \in Nat /\ S <= W
  BY <1>1, ScaledLemma
<1>3. EffectiveWeight(s, t) = W /\ Scaled(s.m_sum, DecayFactor(s, t)) = S
  BY DEF EffectiveWeight, f
<1>4. \A v \in 0 .. UNIT : Observe(s, v, t) = [m_sum |-> S + v, m_weight |-> W + UNIT,
                                               m_last_update |-> t]
  BY DEF Observe, DecayTo, Clamp, f
<1> HIDE DEF S, W
<1>5. \A n \in Nat : Scaled(n, UNIT) = n
  BY DEF Scaled
<1>6. ASSUME NEW v \in 0 .. UNIT
      PROVE  /\ EffectiveWeight(Observe(s, v, t), t) = W + UNIT
             /\ Mean(Observe(s, v, t), t, fallback) = (100 * (S + v)) \div (W + UNIT)
  <2> DEFINE o == Observe(s, v, t)
  <2>1. o.m_sum = S + v /\ o.m_weight = W + UNIT /\ o.m_last_update = t
    BY <1>4
  <2> HIDE DEF o
  <2>2. DecayFactor(o, t) = UNIT
    BY <2>1, BoundAssumption DEF DecayFactor
  <2>3. S + v \in Nat /\ W + UNIT \in Nat /\ W + UNIT > 0
    BY <1>2
  <2>4. EffectiveWeight(o, t) = W + UNIT /\ Scaled(o.m_sum, DecayFactor(o, t)) = S + v
    BY <1>5, <2>1, <2>2, <2>3 DEF EffectiveWeight
  <2>5. ~ (EffectiveWeight(o, t) <= 0)
    BY <2>3, <2>4
  <2>6. Mean(o, t, fallback) = (100 * (S + v)) \div (W + UNIT)
    BY <2>4, <2>5 DEF Mean
  <2> QED BY <2>4, <2>6 DEF o
<1>7. UNIT \in 0 .. UNIT /\ 0 \in 0 .. UNIT
  OBVIOUS
<1>8. CASE W = 0
  <2>1. S = 0 /\ W + UNIT = UNIT /\ S + UNIT = UNIT
    BY <1>2, <1>8
  <2>2. Mean(s, t, fallback) = fallback
    BY <1>3, <1>8 DEF Mean
  <2>3. Mean(Observe(s, UNIT, t), t, fallback) = (100 * UNIT) \div UNIT
    BY <1>6, <1>7, <2>1
  <2>4. Mean(Observe(s, 0, t), t, fallback) = (100 * 0) \div UNIT
    BY <1>6, <1>7, <2>1
  <2>5. (100 * UNIT) \div UNIT = 100 /\ (100 * 0) \div UNIT = 0
    OBVIOUS
  <2> QED BY <1>2, <1>3, <1>6, <2>2, <2>3, <2>4, <2>5
<1>9. CASE W # 0
  <2>1. /\ W \in Nat \ {0} /\ S \in Nat /\ S <= W
    BY <1>2, <1>9
  <2>2. Mean(s, t, fallback) = (100 * S) \div W
    BY <1>3, <2>1 DEF Mean
  <2>3. /\ (100 * S) \div W \in 0 .. 100
        /\ (100 * (S + UNIT)) \div (W + UNIT) >= (100 * S) \div W
        /\ (100 * S) \div (W + UNIT) <= (100 * S) \div W
    BY <2>1, MeanLemma, Zenon
  <2>4. /\ W + UNIT \in Nat \ {0} /\ 100 * (S + UNIT) \in Nat /\ 100 * S \in Nat
    BY <2>1
  <2>5. (100 * (S + UNIT)) \div (W + UNIT) \in Nat /\ (100 * S) \div (W + UNIT) \in Nat
    BY <2>4, DivLemma
  <2>6. Mean(Observe(s, UNIT, t), t, fallback) = (100 * (S + UNIT)) \div (W + UNIT)
    BY <1>6, <1>7
  <2>7. Mean(Observe(s, 0, t), t, fallback) = (100 * S) \div (W + UNIT)
    BY <1>6, <1>7, <1>2
  <2> QED BY <1>2, <1>3, <1>6, <2>2, <2>3, <2>5, <2>6, <2>7
<1> QED BY <1>8, <1>9

(***************************************************************************)
(* The parts of the score, before the clamp.                               *)
(***************************************************************************)
Announced(w) == Min({100, (100 * w) \div (FullAnnouncements * UNIT)})

Total(a, b, c, d, e, context) ==
    Clamp(30 * a + 25 * b + 15 * c
            + 15 * context.chain_freshness + 10 * context.availability + 5 * context.latency
            - 50 * d - 100 * e, -10000, 10000)

(***************************************************************************)
(* More announcements never lower their part of the score.                 *)
(***************************************************************************)
LEMMA AnnouncedLemma ==
    ASSUME NEW w \in Nat, NEW x \in Nat, w <= x
    PROVE  Announced(w) \in Int /\ Announced(x) \in Int /\ Announced(w) <= Announced(x)
<1> DEFINE u == FullAnnouncements * UNIT
           lower == (100 * w) \div u
           upper == (100 * x) \div u
<1>1. u \in Nat \ {0} /\ 100 * w \in Nat /\ 100 * x \in Nat /\ 100 * w <= 100 * x
  BY UnitAssumption, BoundAssumption
<1> HIDE DEF u
<1>2. lower \in Nat /\ lower * u <= 100 * w
  BY <1>1, DivLemma
<1>3. upper \in Nat /\ \A q \in Nat : q * u <= 100 * x => q <= upper
  BY <1>1, DivLemma
<1> HIDE DEF lower, upper
<1>4. lower <= upper
  <2>1. lower * u \in Nat
    BY <1>1, <1>2
  <2>2. lower * u <= 100 * x
    BY <1>1, <1>2, <2>1
  <2> QED BY <1>2, <1>3, <2>2
<1>5. ASSUME NEW n \in Nat PROVE Min({100, n}) = IF n <= 100 THEN n ELSE 100
  BY DEF Min
<1>6. Announced(w) = Min({100, lower}) /\ Announced(x) = Min({100, upper})
  BY DEF Announced, lower, upper, u
<1> QED BY <1>2, <1>3, <1>4, <1>5, <1>6

(***************************************************************************)
(* The score follows its parts.                                            *)
(***************************************************************************)
LEMMA TotalLemma ==
    ASSUME NEW a \in Int, NEW b \in Int, NEW c \in Int, NEW d \in Int, NEW e \in Int,
           NEW a2 \in Int, NEW b2 \in Int, NEW c2 \in Int, NEW d2 \in Int, NEW e2 \in Int,
           a <= a2, b <= b2, c <= c2, d >= d2, e >= e2
    PROVE  /\ Total(a, b, c, d, e, Context) <= Total(a2, b2, c2, d2, e2, Context)
           /\ Total(a, b, c, d, e, Context) \in Int
           /\ Total(a2, b2, c2, d2, e2, Context) \in Int
BY DEF Total, Clamp, Context

(***************************************************************************)
(* The observations move the score in their own direction, in every        *)
(* history of observations and of the clock.                               *)
(***************************************************************************)
THEOREM ScoreAlwaysFollowsObservations == QualitySpec => ScoreFollowsObservations
<1> DEFINE Down == (ObserveRequestedBlockResult(FALSE) \/ ObserveInvalidFullBlockSource)
                     => Score(Context, now)' <= Score(Context, now)
           Up == (ObserveRequestedBlockResult(TRUE) \/ ObserveValidFullBlockSource \/
                  ObserveValidatedAnnouncement \/ ObserveCompactBlockResult("direct"))
                     => Score(Context, now)' >= Score(Context, now)
           announced == Announced(EffectiveWeight(signal["valid_announcements"], now))
           delivered == Mean(signal["requested_block_success"], now, 50)
           compact == Mean(signal["compact_quality"], now, 50)
           stalled == Mean(signal["stall_rate"], now, 0)
           invalid == Mean(signal["invalid_block_rate"], now, 0)
<1>1. ASSUME QualityInv PROVE Down /\ Up
  <2>1. \A k \in Kinds : signal[k] \in Signal /\ signal[k].m_sum <= signal[k].m_weight
    BY <1>1 DEF QualityInv, QualityTypeOK, SignalsBounded, Signal
  <2>2. now \in Times
    BY <1>1 DEF QualityInv, QualityTypeOK
  <2>3. Score(Context, now) = Total(announced, delivered, compact, stalled, invalid, Context)
    BY DEF Score, Total, Announced, ValidatedAnnouncements
  <2>4. Score(Context, now)' = Total(announced', delivered', compact', stalled', invalid', Context)
    BY DEF Score, Total, Announced, ValidatedAnnouncements
  <2>5. ASSUME NEW k \in Kinds, NEW fallback \in 0 .. 100
        PROVE  /\ Mean(signal[k], now, fallback) \in Int
               /\ EffectiveWeight(signal[k], now) \in Nat
               /\ EffectiveWeight(Observe(signal[k], UNIT, now), now)
                    = EffectiveWeight(signal[k], now) + UNIT
               /\ Mean(Observe(signal[k], UNIT, now), now, fallback) \in Int
               /\ Mean(Observe(signal[k], UNIT, now), now, fallback) >= Mean(signal[k], now, fallback)
               /\ Mean(Observe(signal[k], 0, now), now, fallback) \in Int
               /\ Mean(Observe(signal[k], 0, now), now, fallback) <= Mean(signal[k], now, fallback)
    <3> DEFINE s == signal[k]
    <3>1. s \in Signal /\ s.m_sum <= s.m_weight
      BY <2>1
    <3> HIDE DEF s
    <3>2. /\ Mean(s, now, fallback) \in 0 .. 100
          /\ EffectiveWeight(s, now) \in Nat
          /\ \A v \in 0 .. UNIT :
               EffectiveWeight(Observe(s, v, now), now) = EffectiveWeight(s, now) + UNIT
          /\ Mean(Observe(s, UNIT, now), now, fallback) \in Int
          /\ Mean(Observe(s, UNIT, now), now, fallback) >= Mean(s, now, fallback)
          /\ Mean(Observe(s, 0, now), now, fallback) \in Int
          /\ Mean(Observe(s, 0, now), now, fallback) <= Mean(s, now, fallback)
      BY <2>2, <3>1, ObservedLemma, Zenon
    <3>3. UNIT \in 0 .. UNIT
      BY UnitAssumption
    <3>4. EffectiveWeight(Observe(s, UNIT, now), now) = EffectiveWeight(s, now) + UNIT
      BY <3>2, <3>3
    <3> QED BY <3>2, <3>4 DEF s
  <2>6. 0 \in 0 .. 100 /\ 50 \in 0 .. 100
    OBVIOUS
  <2>7. /\ announced \in Int /\ delivered \in Int /\ compact \in Int
        /\ stalled \in Int /\ invalid \in Int
    <3>1. EffectiveWeight(signal["valid_announcements"], now) \in Nat
      BY <2>5, <2>6, Zenon DEF Kinds
    <3>2. announced \in Int
      BY <3>1, AnnouncedLemma
    <3> QED BY <2>5, <2>6, <3>2, Zenon DEF Kinds
  <2>8. ASSUME /\ announced' \in Int /\ delivered' \in Int /\ compact' \in Int
               /\ stalled' \in Int /\ invalid' \in Int,
               announced <= announced', delivered <= delivered', compact <= compact',
               stalled >= stalled', invalid >= invalid'
        PROVE  Score(Context, now)' >= Score(Context, now)
    <3> HIDE DEF announced, delivered, compact, stalled, invalid
    <3>1. Total(announced, delivered, compact, stalled, invalid, Context)
            <= Total(announced', delivered', compact', stalled', invalid', Context)
      BY <2>7, <2>8, TotalLemma, Zenon
    <3>2. /\ Total(announced, delivered, compact, stalled, invalid, Context) \in Int
          /\ Total(announced', delivered', compact', stalled', invalid', Context) \in Int
      BY <2>7, <2>8, TotalLemma, Zenon
    <3> QED BY <2>3, <2>4, <3>1, <3>2
  <2>9. ASSUME /\ announced' \in Int /\ delivered' \in Int /\ compact' \in Int
               /\ stalled' \in Int /\ invalid' \in Int,
               announced' <= announced, delivered' <= delivered, compact' <= compact,
               stalled' >= stalled, invalid' >= invalid
        PROVE  Score(Context, now)' <= Score(Context, now)
    <3> HIDE DEF announced, delivered, compact, stalled, invalid
    <3>1. Total(announced', delivered', compact', stalled', invalid', Context)
            <= Total(announced, delivered, compact, stalled, invalid, Context)
      BY <2>7, <2>9, TotalLemma, Zenon
    <3> QED BY <2>3, <2>4, <3>1
  <2>10. ASSUME NEW event, Record(event)
         PROVE  /\ now' = now
                /\ \A k \in Kinds : signal'[k] = IF k \in DOMAIN event
                                                 THEN Observe(signal[k], event[k], now)
                                                 ELSE signal[k]
    BY <2>10 DEF Record
  <2>11. ASSUME ObserveRequestedBlockResult(FALSE)
         PROVE  Score(Context, now)' <= Score(Context, now)
    <3>1. /\ now' = now
          /\ signal'["requested_block_success"] = Observe(signal["requested_block_success"], 0, now)
          /\ signal'["stall_rate"] = Observe(signal["stall_rate"], UNIT, now)
          /\ signal'["valid_announcements"] = signal["valid_announcements"]
          /\ signal'["compact_quality"] = signal["compact_quality"]
          /\ signal'["invalid_block_rate"] = signal["invalid_block_rate"]
      BY <2>10, <2>11 DEF ObserveRequestedBlockResult, RequestedBlockResult, Kinds
    <3>2. delivered' \in Int /\ delivered' <= delivered /\ stalled' \in Int /\ stalled' >= stalled
      BY <2>5, <2>6, <3>1, ZenonT(30) DEF Kinds
    <3>3. announced' = announced /\ compact' = compact /\ invalid' = invalid
      BY <3>1
    <3> HIDE DEF announced, delivered, compact, stalled, invalid
    <3> QED BY <2>7, <2>9, <3>2, <3>3
  <2>12. ASSUME ObserveInvalidFullBlockSource
         PROVE  Score(Context, now)' <= Score(Context, now)
    <3>1. /\ now' = now
          /\ signal'["invalid_block_rate"] = Observe(signal["invalid_block_rate"], UNIT, now)
          /\ \A k \in Kinds \ {"invalid_block_rate", "evidence"} : signal'[k] = signal[k]
      BY <2>10, <2>12 DEF ObserveInvalidFullBlockSource, FullBlockSource, Kinds
    <3>2. invalid' \in Int /\ invalid' >= invalid
      BY <2>5, <2>6, <3>1, Zenon DEF Kinds
    <3>3. announced' = announced /\ delivered' = delivered /\ compact' = compact /\ stalled' = stalled
      BY <3>1 DEF Kinds
    <3> HIDE DEF announced, delivered, compact, stalled, invalid
    <3> QED BY <2>7, <2>9, <3>2, <3>3
  <2>13. ASSUME ObserveRequestedBlockResult(TRUE)
         PROVE  Score(Context, now)' >= Score(Context, now)
    <3>1. /\ now' = now
          /\ signal'["requested_block_success"] = Observe(signal["requested_block_success"], UNIT, now)
          /\ signal'["stall_rate"] = Observe(signal["stall_rate"], 0, now)
          /\ signal'["valid_announcements"] = signal["valid_announcements"]
          /\ signal'["compact_quality"] = signal["compact_quality"]
          /\ signal'["invalid_block_rate"] = signal["invalid_block_rate"]
      BY <2>10, <2>13 DEF ObserveRequestedBlockResult, RequestedBlockResult, Kinds
    <3>2. delivered' \in Int /\ delivered' >= delivered /\ stalled' \in Int /\ stalled' <= stalled
      BY <2>5, <2>6, <3>1, ZenonT(30) DEF Kinds
    <3>3. announced' = announced /\ compact' = compact /\ invalid' = invalid
      BY <3>1
    <3> HIDE DEF announced, delivered, compact, stalled, invalid
    <3> QED BY <2>7, <2>8, <3>2, <3>3
  <2>14. ASSUME ObserveValidFullBlockSource
         PROVE  Score(Context, now)' >= Score(Context, now)
    <3>1. /\ now' = now
          /\ signal'["invalid_block_rate"] = Observe(signal["invalid_block_rate"], 0, now)
          /\ \A k \in Kinds \ {"invalid_block_rate", "evidence"} : signal'[k] = signal[k]
      BY <2>10, <2>14 DEF ObserveValidFullBlockSource, FullBlockSource, Kinds
    <3>2. invalid' \in Int /\ invalid' <= invalid
      BY <2>5, <2>6, <3>1, Zenon DEF Kinds
    <3>3. announced' = announced /\ delivered' = delivered /\ compact' = compact /\ stalled' = stalled
      BY <3>1 DEF Kinds
    <3> HIDE DEF announced, delivered, compact, stalled, invalid
    <3> QED BY <2>7, <2>8, <3>2, <3>3
  <2>15. ASSUME ObserveValidatedAnnouncement
         PROVE  Score(Context, now)' >= Score(Context, now)
    <3> DEFINE w == EffectiveWeight(signal["valid_announcements"], now)
    <3>1. /\ now' = now
          /\ signal'["valid_announcements"] = Observe(signal["valid_announcements"], UNIT, now)
          /\ \A k \in Kinds \ {"valid_announcements", "evidence"} : signal'[k] = signal[k]
      BY <2>10, <2>15 DEF ObserveValidatedAnnouncement, ValidatedAnnouncement, Kinds
    <3>2. w \in Nat /\ w' = w + UNIT
      BY <2>5, <2>6, <3>1, Zenon DEF Kinds
    <3>3. delivered' = delivered /\ compact' = compact /\ stalled' = stalled /\ invalid' = invalid
      BY <3>1 DEF Kinds
    <3> HIDE DEF w
    <3>4. w' \in Nat /\ w <= w'
      BY <3>2, UnitAssumption
    <3>5. Announced(w') \in Int /\ Announced(w) <= Announced(w')
      BY <3>2, <3>4, AnnouncedLemma
    <3>6. announced = Announced(w) /\ announced' = Announced(w')
      BY DEF w, Announced
    <3> HIDE DEF announced, delivered, compact, stalled, invalid
    <3> QED BY <2>7, <2>8, <3>3, <3>5, <3>6
  <2>16. ASSUME ObserveCompactBlockResult("direct")
         PROVE  Score(Context, now)' >= Score(Context, now)
    <3>1. /\ now' = now
          /\ signal'["compact_quality"] = Observe(signal["compact_quality"], UNIT, now)
          /\ \A k \in Kinds \ {"compact_quality", "evidence"} : signal'[k] = signal[k]
      <4>1. CompactBlockResult("direct") = [compact_quality |-> UNIT, evidence |-> UNIT]
        BY DEF CompactBlockResult
      <4> QED BY <2>10, <2>16, <4>1 DEF ObserveCompactBlockResult, Kinds
    <3>2. compact' \in Int /\ compact' >= compact
      BY <2>5, <2>6, <3>1, ZenonT(30) DEF Kinds
    <3>3. announced' = announced /\ delivered' = delivered /\ stalled' = stalled /\ invalid' = invalid
      BY <3>1 DEF Kinds
    <3> HIDE DEF announced, delivered, compact, stalled, invalid
    <3> QED BY <2>7, <2>8, <3>2, <3>3
  <2> QED BY <2>11, <2>12, <2>13, <2>14, <2>15, <2>16, Zenon
<1>2. QualityInv => [Down /\ Up]_qualityVars
  BY <1>1, Zenon
<1> QED BY <1>2, QualityInvariant, PTL DEF ScoreFollowsObservations

------------------------------------------------------------------------------
(***************************************************************************)
(* The table is inductive as it stands.                                    *)
(***************************************************************************)
TableInv == TableTypeOK /\ AnnouncementsTracked

(***************************************************************************)
(* The queue after the push: one more block if h had no announcers, and it *)
(* holds h in any case.                                                    *)
(***************************************************************************)
LEMMA PushedLemma ==
    ASSUME TableInv, NEW h \in Hash
    PROVE  /\ Pushed(h) \in Seq(Hash)
           /\ Range(Pushed(h)) = Tracked \cup {h}
           /\ IsInjective(Pushed(h))
           /\ Len(Pushed(h)) <= MAX_TRACKED_ANNOUNCEMENT_HASHES + 1
           /\ Len(Pushed(h)) \in Nat
           /\ Pushed(h) # <<>>
<1> DEFINE order == m_candidate_announcement_order
<1>1. /\ order \in Seq(Hash) /\ Range(order) = Tracked /\ IsInjective(order)
      /\ Len(order) <= MAX_TRACKED_ANNOUNCEMENT_HASHES
      /\ Len(order) \in Nat /\ MAX_TRACKED_ANNOUNCEMENT_HASHES \in Nat
  BY TableAssumption DEF TableInv, TableTypeOK, AnnouncementsTracked
<1> HIDE DEF order
<1>2. CASE m_candidate_announcers[h] = <<>>
  <2>1. h \notin Range(order)
    BY <1>1, <1>2 DEF Tracked
  <2>2. /\ Append(order, h) \in Seq(Hash)
        /\ Range(Append(order, h)) = Range(order) \cup {h}
        /\ IsInjective(Append(order, h))
        /\ Len(Append(order, h)) = Len(order) + 1
    BY <1>1, <2>1, AppendLemma
  <2>3. Pushed(h) = Append(order, h)
    BY <1>2 DEF Pushed, order
  <2>4. Append(order, h) # <<>>
    BY <1>1, <2>2
  <2> QED BY <1>1, <2>2, <2>3, <2>4
<1>3. CASE m_candidate_announcers[h] # <<>>
  <2>1. h \in Tracked
    BY <1>3 DEF Tracked
  <2>2. Pushed(h) = order
    BY <1>3 DEF Pushed, order
  <2>3. order # <<>>
    BY <1>1, <2>1, EmptySeqLemma
  <2> QED BY <1>1, <2>1, <2>2, <2>3
<1> QED BY <1>2, <1>3

(***************************************************************************)
(* The block being announced is never the one evicted: it is at the back   *)
(* of a queue of at least two, or was not pushed and nothing is evicted.   *)
(***************************************************************************)
LEMMA EvictedLemma ==
    ASSUME TableInv, NEW h \in Hash
    PROVE  /\ h \notin Evicted(h)
           /\ TooLong(h) => /\ Head(Pushed(h)) = Head(m_candidate_announcement_order)
                            /\ Len(Pushed(h)) = MAX_TRACKED_ANNOUNCEMENT_HASHES + 1
<1> DEFINE order == m_candidate_announcement_order
           M == MAX_TRACKED_ANNOUNCEMENT_HASHES
<1>1. order \in Seq(Hash) /\ Len(order) \in Nat /\ Len(order) <= M /\ M \in Nat \ {0}
  BY TableAssumption DEF TableInv, TableTypeOK, AnnouncementsTracked
<1>2. Range(order) = Tracked
  BY DEF TableInv, AnnouncementsTracked
<1> SUFFICES ASSUME TooLong(h)
             PROVE  /\ h # Head(Pushed(h))
                    /\ Head(Pushed(h)) = Head(order)
                    /\ Len(Pushed(h)) = M + 1
  BY DEF Evicted
<1>3. Len(Pushed(h)) > M
  BY DEF TooLong
<1>4. m_candidate_announcers[h] = <<>> /\ Pushed(h) = Append(order, h)
  BY <1>1, <1>3 DEF Pushed
<1>5. Len(Append(order, h)) = Len(order) + 1
  BY <1>1
<1>6. Len(order) = M
  BY <1>1, <1>3, <1>4, <1>5
<1>7. Head(Append(order, h)) = order[1] /\ Head(order) = order[1] /\ 1 \in DOMAIN order
  BY <1>1, <1>6
<1>8. order[1] \in Tracked
  BY <1>2, <1>7 DEF Range
<1>9. h \notin Tracked
  BY <1>4 DEF Tracked
<1> QED BY <1>1, <1>4, <1>5, <1>6, <1>7, <1>8, <1>9

(***************************************************************************)
(* The list of announcers after an announcement: the peer is in it, or it  *)
(* was full; nobody is in it twice.                                        *)
(***************************************************************************)
LEMMA ListedLemma ==
    ASSUME TableInv, NEW p \in Node, NEW h \in Hash
    PROVE  /\ Listed(p, h) \in Seq(Node)
           /\ Listed(p, h) # <<>>
           /\ IsInjective(Listed(p, h))
           /\ Len(Listed(p, h)) <= MAX_ANNOUNCERS_PER_HASH
           /\ \/ p \in Range(Listed(p, h))
              \/ Len(Listed(p, h)) = MAX_ANNOUNCERS_PER_HASH
<1> DEFINE peers == m_candidate_announcers[h]
           A == MAX_ANNOUNCERS_PER_HASH
<1>1. /\ peers \in Seq(Node) /\ IsInjective(peers) /\ Len(peers) <= A
      /\ Len(peers) \in Nat /\ A \in Nat \ {0}
  BY TableAssumption DEF TableInv, TableTypeOK, AnnouncementsTracked
<1>2. Listed(p, h) = IF Len(peers) < A /\ p \notin Range(peers) THEN Append(peers, p) ELSE peers
  BY DEF Listed
<1> HIDE DEF peers, A
<1>3. CASE Len(peers) < A /\ p \notin Range(peers)
  <2>1. /\ Append(peers, p) \in Seq(Node)
        /\ Range(Append(peers, p)) = Range(peers) \cup {p}
        /\ IsInjective(Append(peers, p))
        /\ Len(Append(peers, p)) = Len(peers) + 1
    BY <1>1, <1>3, AppendLemma
  <2>2. Append(peers, p) # <<>>
    BY <1>1, <2>1
  <2>3. Len(peers) + 1 <= A
    BY <1>1, <1>3
  <2> QED BY <1>2, <1>3, <2>1, <2>2, <2>3 DEF A
<1>4. CASE ~ (Len(peers) < A /\ p \notin Range(peers))
  <2>1. Listed(p, h) = peers
    BY <1>2, <1>4
  <2>2. p \in Range(peers) \/ Len(peers) = A
    BY <1>1, <1>4
  <2>3. peers # <<>>
    BY <1>1, <2>2, EmptySeqLemma
  <2> QED BY <1>1, <2>1, <2>2, <2>3 DEF A
<1> QED BY <1>3, <1>4

(***************************************************************************)
(* RecordCandidateAnnouncement preserves the invariant.                    *)
(***************************************************************************)
LEMMA RecordInv ==
    ASSUME TableInv, NEW p \in Node, NEW h \in Hash, RecordCandidateAnnouncement(p, h)
    PROVE  TableInv'
<1> DEFINE order1 == m_candidate_announcement_order'
           lists1 == m_candidate_announcers'
           M == MAX_TRACKED_ANNOUNCEMENT_HASHES
<1>1. /\ Pushed(h) \in Seq(Hash) /\ Range(Pushed(h)) = Tracked \cup {h}
      /\ IsInjective(Pushed(h)) /\ Len(Pushed(h)) <= M + 1 /\ Len(Pushed(h)) \in Nat
      /\ Pushed(h) # <<>>
  BY PushedLemma
<1>2. h \notin Evicted(h) /\ (TooLong(h) => Len(Pushed(h)) = M + 1)
  BY EvictedLemma
<1>3. M \in Nat
  BY TableAssumption
<1>4. /\ order1 \in Seq(Hash) /\ IsInjective(order1)
      /\ Range(order1) = (Tracked \cup {h}) \ Evicted(h)
      /\ Len(order1) <= M
  <2>1. CASE TooLong(h)
    <3>1. order1 = Tail(Pushed(h)) /\ Evicted(h) = {Head(Pushed(h))}
      BY <2>1 DEF RecordCandidateAnnouncement, Evicted
    <3>2. /\ Tail(Pushed(h)) \in Seq(Hash)
          /\ Range(Tail(Pushed(h))) = Range(Pushed(h)) \ {Head(Pushed(h))}
          /\ IsInjective(Tail(Pushed(h)))
          /\ Len(Tail(Pushed(h))) = Len(Pushed(h)) - 1
      BY <1>1, TailLemma
    <3> QED BY <1>1, <1>2, <1>3, <2>1, <3>1, <3>2
  <2>2. CASE ~ TooLong(h)
    <3>1. order1 = Pushed(h) /\ Evicted(h) = {}
      BY <2>2 DEF RecordCandidateAnnouncement, Evicted
    <3>2. Len(Pushed(h)) <= M
      BY <1>1, <1>3, <2>2 DEF TooLong
    <3> QED BY <1>1, <3>1, <3>2
  <2> QED BY <2>1, <2>2
<1>5. /\ Listed(p, h) \in Seq(Node) /\ Listed(p, h) # <<>> /\ IsInjective(Listed(p, h))
      /\ Len(Listed(p, h)) <= MAX_ANNOUNCERS_PER_HASH
  BY ListedLemma
<1>6. lists1 = [g \in Hash |-> IF g \in Evicted(h) THEN <<>>
                               ELSE IF g = h THEN Listed(p, h)
                               ELSE m_candidate_announcers[g]]
  BY DEF RecordCandidateAnnouncement
<1>7. /\ m_candidate_announcers \in [Hash -> Seq(Node)]
      /\ \A g \in Hash : /\ IsInjective(m_candidate_announcers[g])
                         /\ Len(m_candidate_announcers[g]) <= MAX_ANNOUNCERS_PER_HASH
  BY DEF TableInv, TableTypeOK, AnnouncementsTracked
<1>8. <<>> \in Seq(Node) /\ IsInjective(<<>>) /\ Len(<<>>) <= MAX_ANNOUNCERS_PER_HASH
  BY EmptySeqLemma, TableAssumption
<1>9. ASSUME NEW g \in Hash
      PROVE  /\ lists1[g] \in Seq(Node)
             /\ IsInjective(lists1[g])
             /\ Len(lists1[g]) <= MAX_ANNOUNCERS_PER_HASH
             /\ lists1[g] # <<>> <=> g \in (Tracked \cup {h}) \ Evicted(h)
  <2>1. CASE g \in Evicted(h)
    <3>1. lists1[g] = <<>>
      BY <1>6, <2>1
    <3> QED BY <1>8, <2>1, <3>1
  <2>2. CASE g \notin Evicted(h) /\ g = h
    <3>1. lists1[g] = Listed(p, h)
      BY <1>6, <2>2
    <3> QED BY <1>5, <2>2, <3>1
  <2>3. CASE g \notin Evicted(h) /\ g # h
    <3>1. lists1[g] = m_candidate_announcers[g]
      BY <1>6, <2>3
    <3> QED BY <1>7, <2>3, <3>1 DEF Tracked
  <2> QED BY <2>1, <2>2, <2>3
<1>10. lists1 \in [Hash -> Seq(Node)]
  BY <1>6, <1>9
<1>11. Tracked' = (Tracked \cup {h}) \ Evicted(h)
  <2>1. Tracked \cup {h} \subseteq Hash
    BY DEF Tracked
  <2> QED BY <1>9, <2>1 DEF Tracked
<1>12. AnnouncementsTracked'
  BY <1>4, <1>9, <1>11 DEF AnnouncementsTracked
<1>13. TableTypeOK'
  BY <1>4, <1>10 DEF TableInv, TableTypeOK, RecordCandidateAnnouncement
<1> QED BY <1>12, <1>13 DEF TableInv

(***************************************************************************)
(* BlockChecked preserves the invariant.                                   *)
(***************************************************************************)
LEMMA CheckedInv ==
    ASSUME TableInv, NEW h \in Hash, NEW valid \in BOOLEAN, BlockChecked(h, valid)
    PROVE  TableInv'
<1> DEFINE order == m_candidate_announcement_order
<1>1. /\ order \in Seq(Hash) /\ IsInjective(order) /\ Range(order) = Tracked
      /\ Len(order) <= MAX_TRACKED_ANNOUNCEMENT_HASHES /\ Len(order) \in Nat
  BY DEF TableInv, TableTypeOK, AnnouncementsTracked
<1>2. order' = Without(order, h)
  BY DEF BlockChecked
<1>3. /\ Without(order, h) \in Seq(Hash)
      /\ Range(Without(order, h)) = Range(order) \ {h}
      /\ IsInjective(Without(order, h))
      /\ Len(Without(order, h)) <= Len(order)
  BY <1>1, WithoutLemma
<1>4. Len(Without(order, h)) \in Nat
  BY <1>3
<1>5. m_candidate_announcers' = [m_candidate_announcers EXCEPT ![h] = <<>>]
  BY DEF BlockChecked
<1>6. /\ m_candidate_announcers \in [Hash -> Seq(Node)]
      /\ \A g \in Hash : /\ IsInjective(m_candidate_announcers[g])
                         /\ Len(m_candidate_announcers[g]) <= MAX_ANNOUNCERS_PER_HASH
  BY DEF TableInv, TableTypeOK, AnnouncementsTracked
<1>7. <<>> \in Seq(Node) /\ IsInjective(<<>>) /\ Len(<<>>) <= MAX_ANNOUNCERS_PER_HASH
  BY EmptySeqLemma, TableAssumption
<1>8. m_candidate_announcers' \in [Hash -> Seq(Node)]
  BY <1>5, <1>6, <1>7
<1>9. \A g \in Hash : /\ IsInjective(m_candidate_announcers'[g])
                      /\ Len(m_candidate_announcers'[g]) <= MAX_ANNOUNCERS_PER_HASH
  BY <1>5, <1>6, <1>7
<1>10. Tracked' = Tracked \ {h}
  BY <1>5, <1>6 DEF Tracked
<1>11. Len(order') <= MAX_TRACKED_ANNOUNCEMENT_HASHES
  BY <1>1, <1>2, <1>3, <1>4, TableAssumption
<1>12. AnnouncementsTracked'
  BY <1>1, <1>2, <1>3, <1>9, <1>10, <1>11 DEF AnnouncementsTracked
<1>13. TableTypeOK'
  BY <1>2, <1>3, <1>8 DEF TableInv, TableTypeOK, BlockChecked
<1> QED BY <1>12, <1>13 DEF TableInv

(***************************************************************************)
(* TableInv holds at first and every step preserves it.                    *)
(***************************************************************************)
THEOREM TableInvariant == TableSpec => []TableInv
<1>1. TableInit => TableInv
  <2> SUFFICES ASSUME TableInit PROVE TableInv
    OBVIOUS
  <2>1. /\ <<>> \in Seq(Node) /\ <<>> \in Seq(Hash) /\ Range(<<>>) = {}
        /\ IsInjective(<<>>) /\ Len(<<>>) = 0
    BY EmptySeqLemma
  <2>2. Tracked = {}
    BY DEF TableInit, Tracked
  <2> QED BY <2>1, <2>2, TableAssumption DEF TableInit, NotConnected, TableInv, TableTypeOK, AnnouncementsTracked
<1>2. TableInv /\ [TableNext]_announcementVars => TableInv'
  <2> SUFFICES ASSUME TableInv, [TableNext]_announcementVars PROVE TableInv'
    OBVIOUS
  <2>1. ASSUME UNCHANGED tableVars, connected' \in SUBSET Node,
               gone' \in SUBSET (Node \ connected')
        PROVE  TableInv'
    BY <2>1 DEF TableInv, TableTypeOK, AnnouncementsTracked, Tracked, tableVars
  <2>2. ASSUME NEW p \in Node, Connect(p) PROVE TableInv'
    BY <2>1, <2>2 DEF Connect, Opened, TableInv, TableTypeOK
  <2>3. ASSUME NEW p \in Node, Disconnect(p) PROVE TableInv'
    BY <2>1, <2>3 DEF Disconnect, Closed, TableInv, TableTypeOK
  <2>4. ASSUME NEW p \in Node, NEW h \in Hash, RecordCandidateAnnouncement(p, h)
        PROVE  TableInv'
    BY <2>4, RecordInv
  <2>5. ASSUME NEW h \in Hash, NEW valid \in BOOLEAN, BlockChecked(h, valid) PROVE TableInv'
    BY <2>5, CheckedInv
  <2>6. CASE UNCHANGED announcementVars
    BY <2>1, <2>6 DEF announcementVars, TableInv, TableTypeOK
  <2> QED BY <2>2, <2>3, <2>4, <2>5, <2>6 DEF TableNext
<1> QED BY <1>1, <1>2, PTL DEF TableSpec

(***************************************************************************)
(* The queue and the map of RecordCandidateAnnouncement and BlockChecked   *)
(* agree and stay bounded, for any limits and any number of peers.         *)
(***************************************************************************)
THEOREM AnnouncementsAlwaysTracked == TableSpec => []AnnouncementsTracked
<1>1. TableInv => AnnouncementsTracked
  BY DEF TableInv
<1> QED BY <1>1, TableInvariant, PTL

(***************************************************************************)
(* An announcement is on record once RecordCandidateAnnouncement returns,  *)
(* and at most the oldest block had to make room for it.                   *)
(***************************************************************************)
THEOREM AnnouncementsAlwaysRemembered == TableSpec => AnnouncementRemembered
<1> DEFINE Remembered ==
      \A p \in Node, h \in Hash :
          RecordCandidateAnnouncement(p, h) =>
             /\ \/ p \in Range(m_candidate_announcers'[h])
                \/ Len(m_candidate_announcers'[h]) = MAX_ANNOUNCERS_PER_HASH
             /\ \A g \in Hash : m_candidate_announcers'[g] = <<>> =>
                    \/ m_candidate_announcers[g] = <<>>
                    \/ g = Head(m_candidate_announcement_order)
<1>1. TableInv => Remembered
  <2> SUFFICES ASSUME TableInv, NEW p \in Node, NEW h \in Hash,
                      RecordCandidateAnnouncement(p, h)
               PROVE  /\ \/ p \in Range(m_candidate_announcers'[h])
                         \/ Len(m_candidate_announcers'[h]) = MAX_ANNOUNCERS_PER_HASH
                      /\ \A g \in Hash : m_candidate_announcers'[g] = <<>> =>
                            \/ m_candidate_announcers[g] = <<>>
                            \/ g = Head(m_candidate_announcement_order)
    OBVIOUS
  <2>1. h \notin Evicted(h)
    BY EvictedLemma
  <2>2. \A g \in Evicted(h) : g = Head(m_candidate_announcement_order)
    BY EvictedLemma DEF Evicted
  <2>3. \A g \in Hash : m_candidate_announcers'[g] =
            IF g \in Evicted(h) THEN <<>>
            ELSE IF g = h THEN Listed(p, h)
            ELSE m_candidate_announcers[g]
    BY DEF RecordCandidateAnnouncement
  <2>4. /\ Listed(p, h) # <<>>
        /\ p \in Range(Listed(p, h)) \/ Len(Listed(p, h)) = MAX_ANNOUNCERS_PER_HASH
    BY ListedLemma
  <2>5. m_candidate_announcers'[h] = Listed(p, h)
    BY <2>1, <2>3
  <2>6. ASSUME NEW g \in Hash, m_candidate_announcers'[g] = <<>>
        PROVE  m_candidate_announcers[g] = <<>> \/ g = Head(m_candidate_announcement_order)
    BY <2>2, <2>3, <2>4, <2>5, <2>6
  <2> QED BY <2>4, <2>5, <2>6
<1> QED BY <1>1, TableInvariant, PTL DEF AnnouncementRemembered

(***************************************************************************)
(* BlockChecked finds a peer once at most in the list of a block.          *)
(***************************************************************************)
LEMMA CreditsLemma ==
    ASSUME TableInv, NEW p \in Node, NEW h \in Hash
    PROVE  Credits(p, h) \in 0 .. 1 /\ (p \notin connected => Credits(p, h) = 0)
<1> DEFINE announcers == m_candidate_announcers[h]
           I == {i \in DOMAIN announcers : announcers[i] = p}
<1>1. \A i, j \in I : i = j
  BY DEF TableInv, AnnouncementsTracked, IsInjective
<1>2. Cardinality(I) \in 0 .. 1
  <2>1. CASE I = {}
    BY <2>1, FS_EmptySet
  <2>2. ASSUME NEW i \in I PROVE Cardinality(I) = 1
    <3>1. I = {i}
      BY <1>1
    <3> QED BY <3>1, FS_Singleton
  <2> QED BY <2>1, <2>2
<1> QED BY <1>2 DEF Credits

(***************************************************************************)
(* A validated block is worth at most one observation to a peer and none   *)
(* to one that has gone, for any number of announcements and any limits.   *)
(***************************************************************************)
THEOREM AlwaysCreditedOnce == TableSpec => CreditedOnce
<1> DEFINE Once == \A p \in Node : /\ observed'[p] <= 1
                                   /\ p \in gone => observed'[p] <= observed[p]
           OneOrNone == observed \in [Node -> 0 .. 1]
<1>1. TableInit => OneOrNone
  BY DEF TableInit
<1>2. TableInv /\ OneOrNone /\ [TableNext]_announcementVars
        => OneOrNone' /\ [Once]_announcementVars
  <2> SUFFICES ASSUME TableInv, OneOrNone, [TableNext]_announcementVars
               PROVE  OneOrNone' /\ [Once]_announcementVars
    OBVIOUS
  <2>1. CASE UNCHANGED observed
    BY <2>1
  <2>2. ASSUME NEW h \in Hash, NEW valid \in BOOLEAN, BlockChecked(h, valid)
        PROVE  OneOrNone' /\ Once
    <3>1. observed' = [p \in Node |-> IF valid THEN Credits(p, h) ELSE 0]
      BY <2>2 DEF BlockChecked
    <3>2. \A p \in Node : observed'[p] \in 0 .. 1 /\ (p \notin connected => observed'[p] = 0)
      BY <3>1, CreditsLemma
    <3>3. \A p \in Node : p \in gone => p \notin connected
      BY DEF TableInv, TableTypeOK
    <3>4. Once
      BY <3>2, <3>3
    <3> QED BY <3>1, <3>2, <3>4
  <2>3. UNCHANGED observed \/ \E h \in Hash, valid \in BOOLEAN : BlockChecked(h, valid)
    BY DEF TableNext, Connect, Disconnect, RecordCandidateAnnouncement, announcementVars
  <2> QED BY <2>1, <2>2, <2>3
<1> QED BY <1>1, <1>2, TableInvariant, PTL DEF TableSpec, CreditedOnce

------------------------------------------------------------------------------
(***************************************************************************)
(* std::swap of the first two entries keeps the entries, and the second    *)
(* one comes first.                                                        *)
(***************************************************************************)
LEMMA SwapFirstLemma ==
    ASSUME NEW S, NEW s \in Seq(S), IsInjective(s), Len(s) >= 2
    PROVE  /\ SwapFirst(s) \in Seq(S)
           /\ Range(SwapFirst(s)) = Range(s)
           /\ IsInjective(SwapFirst(s))
           /\ Len(SwapFirst(s)) = Len(s)
           /\ Head(SwapFirst(s)) # Head(s)
<1> DEFINE t == SwapFirst(s)
           k(i) == IF i = 1 THEN 2 ELSE IF i = 2 THEN 1 ELSE i
<1>1. /\ Len(s) \in Nat /\ DOMAIN s = 1 .. Len(s)
      /\ 1 \in DOMAIN s /\ 2 \in DOMAIN s
  OBVIOUS
<1>2. t \in Seq(S) /\ Len(t) = Len(s) /\ DOMAIN t = DOMAIN s
  BY <1>1 DEF SwapFirst
<1>3. \A i \in DOMAIN s : k(i) \in DOMAIN s /\ k(k(i)) = i /\ t[i] = s[k(i)]
  BY <1>1 DEF SwapFirst
<1>4. Range(t) = Range(s)
  <2>1. ASSUME NEW i \in DOMAIN t PROVE t[i] \in Range(s)
    BY <1>2, <1>3 DEF Range
  <2>2. ASSUME NEW i \in DOMAIN s PROVE s[i] \in Range(t)
    <3>1. k(i) \in DOMAIN t /\ t[k(i)] = s[i]
      BY <1>2, <1>3
    <3> QED BY <3>1 DEF Range
  <2> HIDE DEF t
  <2> QED BY <2>1, <2>2 DEF Range
<1>5. IsInjective(t)
  <2> SUFFICES ASSUME NEW a \in DOMAIN t, NEW b \in DOMAIN t, t[a] = t[b] PROVE a = b
    BY DEF IsInjective
  <2>1. /\ k(a) \in DOMAIN s /\ k(b) \in DOMAIN s
        /\ s[k(a)] = s[k(b)] /\ k(k(a)) = a /\ k(k(b)) = b
    BY <1>2, <1>3
  <2> HIDE DEF k, t
  <2>2. k(a) = k(b)
    BY <2>1 DEF IsInjective
  <2> QED BY <2>1, <2>2
<1>6. Head(t) # Head(s)
  <2>1. Head(t) = t[1] /\ Head(s) = s[1] /\ t[1] = s[2]
    BY <1>1, <1>2, <1>3
  <2>2. s[2] # s[1]
    BY <1>1 DEF IsInjective
  <2> QED BY <2>1, <2>2
<1> HIDE DEF t
<1> QED BY <1>2, <1>4, <1>5, <1>6 DEF t

(***************************************************************************)
(* Erasing an entry and pushing it back keeps the list's entries.          *)
(***************************************************************************)
LEMMA MoveToBackLemma ==
    ASSUME NEW S, NEW s \in Seq(S), IsInjective(s), NEW e \in Range(s)
    PROVE  /\ Append(Without(s, e), e) \in Seq(S)
           /\ Range(Append(Without(s, e), e)) = Range(s)
           /\ IsInjective(Append(Without(s, e), e))
           /\ Len(Append(Without(s, e), e)) = Len(s)
<1>1. e \in S
  BY DEF Range
<1>2. Len(Without(s, e)) = Len(s) - 1
  <2>1. Len(s) \in Nat \ {0}
    BY DEF Range
  <2> QED BY <2>1 DEF Without
<1> DEFINE w == Without(s, e)
<1>3. w \in Seq(S) /\ Range(w) = Range(s) \ {e} /\ IsInjective(w)
  BY WithoutLemma
<1> HIDE DEF w
<1>4. /\ Append(w, e) \in Seq(S) /\ Range(Append(w, e)) = Range(w) \cup {e}
      /\ IsInjective(Append(w, e)) /\ Len(Append(w, e)) = Len(w) + 1
  BY <1>1, <1>3, AppendLemma
<1>5. Len(s) \in Nat /\ Len(w) = Len(s) - 1
  BY <1>2 DEF w
<1> QED BY <1>3, <1>4, <1>5 DEF w

(***************************************************************************)
(* Sheltering keeps the entries.  When the list is full and holds a live   *)
(* outbound peer, popping the first entry for an inbound peer leaves one.  *)
(***************************************************************************)
LEMMA ShelteredLemma ==
    ASSUME ListInv, NEW p \in Node
    PROVE  /\ Sheltered(p) \in Seq(Node)
           /\ Range(Sheltered(p)) = Range(list)
           /\ IsInjective(Sheltered(p))
           /\ Len(Sheltered(p)) = Len(list)
           /\ p \in Inbound /\ Len(list) >= Slots /\ LiveOutbound(list) # {}
                => LiveOutbound(list) \ {Head(Sheltered(p))} # {}
<1> DEFINE s == Sheltered(p)
<1>1. list \in Seq(Node) /\ IsInjective(list) /\ Slots \in Nat /\ Slots >= 2 /\ Len(list) \in Nat
  BY SlotsAssumption DEF ListInv, HighBandwidthTypeOK, ListMatchesFlags, list
<1>2. CASE s = SwapFirst(list) /\ Len(list) >= Slots /\ Head(list) \in LiveOutbound(list)
  <2>1. Len(list) >= 2
    BY <1>1, <1>2
  <2>2. /\ s \in Seq(Node) /\ Range(s) = Range(list) /\ IsInjective(s)
        /\ Len(s) = Len(list) /\ Head(s) # Head(list)
    BY <1>1, <1>2, <2>1, SwapFirstLemma
  <2> HIDE DEF s
  <2>3. LiveOutbound(list) \ {Head(s)} # {}
    BY <1>2, <2>2
  <2> QED BY <2>2, <2>3 DEF s
<1>3. CASE s = list /\ (p \in Inbound /\ Len(list) >= Slots =>
                          \/ Cardinality(LiveOutbound(list)) # 1
                          \/ Head(list) \notin LiveOutbound(list))
  <2>1. ASSUME p \in Inbound, Len(list) >= Slots, LiveOutbound(list) # {},
               LiveOutbound(list) \subseteq {Head(list)}
        PROVE  FALSE
    <3>1. LiveOutbound(list) = {Head(list)}
      BY <2>1
    <3>2. Cardinality(LiveOutbound(list)) = 1
      BY <3>1, FS_Singleton, Zenon
    <3> QED BY <1>3, <2>1, <3>1, <3>2
  <2> QED BY <1>1, <1>3, <2>1
<1>4. \/ s = SwapFirst(list) /\ Len(list) >= Slots /\ Head(list) \in LiveOutbound(list)
      \/ s = list /\ (p \in Inbound /\ Len(list) >= Slots =>
                          \/ Cardinality(LiveOutbound(list)) # 1
                          \/ Head(list) \notin LiveOutbound(list))
  BY DEF Sheltered
<1> QED BY <1>2, <1>3, <1>4

(***************************************************************************)
(* Adding a peer: the first entry of a full list makes room for it.        *)
(***************************************************************************)
LEMMA AddPeerStep ==
    ASSUME ListInv, NEW p \in Node, AddPeer(p)
    PROVE  /\ list' \in Seq(Node) /\ IsInjective(list') /\ Len(list') <= Slots
           /\ \/ /\ Len(list) < Slots
                 /\ Range(list') = Range(list) \cup {p}
                 /\ m_bip152_highbandwidth_to' = m_bip152_highbandwidth_to \cup {p}
              \/ /\ Len(list) >= Slots
                 /\ Head(Sheltered(p)) \in Range(list)
                 /\ Range(list') = (Range(list) \ {Head(Sheltered(p))}) \cup {p}
                 /\ m_bip152_highbandwidth_to' =
                      (m_bip152_highbandwidth_to \ ({Head(Sheltered(p))} \cap Reachable)) \cup {p}
<1> DEFINE s == Sheltered(p)
<1>1. /\ s \in Seq(Node) /\ Range(s) = Range(list) /\ IsInjective(s) /\ Len(s) = Len(list)
      /\ Len(s) \in Nat
  BY ShelteredLemma
<1>2. Len(list) <= Slots /\ Slots \in Nat /\ Slots >= 2 /\ p \notin Range(list)
  BY SlotsAssumption DEF ListInv, ListMatchesFlags, AddPeer
<1>3. CASE Len(list) < Slots
  <2>1. list' = Append(s, p) /\ m_bip152_highbandwidth_to' = m_bip152_highbandwidth_to \cup {p}
    BY <1>1, <1>2, <1>3 DEF AddPeer, list
  <2> HIDE DEF s
  <2>2. /\ Append(s, p) \in Seq(Node) /\ Range(Append(s, p)) = Range(s) \cup {p}
        /\ IsInjective(Append(s, p)) /\ Len(Append(s, p)) = Len(s) + 1
    BY <1>1, <1>2, AppendLemma
  <2> QED BY <1>1, <1>2, <1>3, <2>1, <2>2
<1>4. CASE Len(list) >= Slots
  <2>1. /\ list' = Append(Tail(s), p)
        /\ m_bip152_highbandwidth_to' =
             (m_bip152_highbandwidth_to \ ({Head(s)} \cap Reachable)) \cup {p}
    BY <1>1, <1>2, <1>4 DEF AddPeer, list
  <2> DEFINE t == Tail(s)
  <2>2. s # <<>>
    BY <1>1, <1>2, <1>4
  <2>3. /\ t \in Seq(Node) /\ Range(t) = Range(s) \ {Head(s)} /\ IsInjective(t)
        /\ Len(t) = Len(s) - 1 /\ Head(s) \in Range(s)
    BY <1>1, <2>2, TailLemma
  <2> HIDE DEF s, t
  <2>4. /\ Append(t, p) \in Seq(Node) /\ Range(Append(t, p)) = Range(t) \cup {p}
        /\ IsInjective(Append(t, p)) /\ Len(Append(t, p)) = Len(t) + 1
    BY <1>1, <1>2, <2>3, AppendLemma
  <2> QED BY <1>1, <1>2, <1>4, <2>1, <2>3, <2>4 DEF s, t
<1> QED BY <1>1, <1>2, <1>3, <1>4

(***************************************************************************)
(* The invariant holds before the first connection.                        *)
(***************************************************************************)
THEOREM ListInitInv == ListInit => ListInv
<1> SUFFICES ASSUME ListInit PROVE ListInv
  OBVIOUS
<1>1. list = <<>> /\ Slots \in Nat
  BY SlotsAssumption DEF ListInit, list
<1>2. list \in Seq(Node) /\ Range(list) = {} /\ IsInjective(list) /\ Len(list) = 0
  BY <1>1, EmptySeqLemma
<1> QED
  BY <1>1, <1>2 DEF ListInit, NotConnected, ListInv, HighBandwidthTypeOK, ListMatchesFlags, Reachable, list

(***************************************************************************)
(* Connecting, marking and closing a peer, and every update of the list by *)
(* MaybeSetPeerAsAnnouncingHeaderAndIDs, preserve the invariant.           *)
(***************************************************************************)
THEOREM ListNextInv == ListInv /\ [ListNext]_listVars => ListInv'
<1> SUFFICES ASSUME ListInv, [ListNext]_listVars PROVE ListInv'
  OBVIOUS
<1> USE DEF ListInv, HighBandwidthTypeOK, ListMatchesFlags, Reachable
<1>1. CASE UNCHANGED listVars
  BY <1>1 DEF listVars, list
<1>2. ASSUME NEW p \in Node, InitializeNode(p) PROVE ListInv'
  BY <1>2 DEF InitializeNode, Opened, list
<1>3. ASSUME NEW p \in Node, MarkDisconnected(p) PROVE ListInv'
  BY <1>3 DEF MarkDisconnected, list
<1>4. ASSUME NEW p \in Node, FinalizeNode(p) PROVE ListInv'
  BY <1>4 DEF FinalizeNode, Closed, list
<1>5. ASSUME NEW p \in Node, MaybeSetPeerAsAnnouncingHeaderAndIDs(p) PROVE ListInv'
  <2>1. UNCHANGED <<connected, gone, fDisconnect>> /\ p \in connected
    BY <1>5 DEF MaybeSetPeerAsAnnouncingHeaderAndIDs
  <2>2. CASE RefreshPeer(p)
    <3>1. list' = Append(Without(list, p), p) /\ p \in Range(list)
          /\ UNCHANGED m_bip152_highbandwidth_to
      BY <2>2 DEF RefreshPeer, list
    <3>2. list \in Seq(Node) /\ IsInjective(list)
      BY DEF list
    <3>3. /\ list' \in Seq(Node) /\ Range(list') = Range(list) /\ IsInjective(list')
          /\ Len(list') = Len(list)
      BY <3>1, <3>2, MoveToBackLemma
    <3> QED BY <2>1, <3>1, <3>3 DEF list
  <2>3. CASE AddPeer(p)
    <3>1. p \in Reachable /\ p \notin Range(list)
      BY <2>3 DEF AddPeer
    <3>2. list' \in Seq(Node) /\ IsInjective(list') /\ Len(list') <= Slots
      BY <2>3, AddPeerStep
    <3>3. /\ Range(list') \subseteq Range(list) \cup {p}
          /\ \A q \in Reachable : q \in m_bip152_highbandwidth_to' <=> q \in Range(list')
          /\ m_bip152_highbandwidth_to' \subseteq m_bip152_highbandwidth_to \cup {p}
      BY <2>3, <3>1, AddPeerStep
    <3> QED BY <2>1, <3>2, <3>3 DEF list
  <2>4. CASE UnreachablePeer(p)
    <3>1. list' = Sheltered(p) /\ UNCHANGED m_bip152_highbandwidth_to
      BY <2>4 DEF UnreachablePeer, list
    <3>2. /\ list' \in Seq(Node) /\ Range(list') = Range(list) /\ IsInjective(list')
          /\ Len(list') = Len(list)
      BY <3>1, ShelteredLemma
    <3> QED BY <2>1, <3>1, <3>2 DEF list
  <2> QED BY <1>5, <2>2, <2>3, <2>4 DEF MaybeSetPeerAsAnnouncingHeaderAndIDs
<1> QED BY <1>1, <1>2, <1>3, <1>4, <1>5 DEF ListNext

(***************************************************************************)
(* The invariant holds in every reachable state.                           *)
(***************************************************************************)
THEOREM ListInvariant == ListSpec => []ListInv
BY ListInitInv, ListNextInv, PTL DEF ListSpec

(***************************************************************************)
(* At every moment the peers told to use high-bandwidth mode are those on  *)
(* the list, which is no longer than three and names nobody twice.         *)
(***************************************************************************)
THEOREM ListAlwaysMatchesFlags == ListSpec => []ListMatchesFlags
<1>1. ListInv => ListMatchesFlags
  BY DEF ListInv
<1> QED BY <1>1, ListInvariant, PTL

(***************************************************************************)
(* No update of the list loses its last connected outbound peer, not even  *)
(* when the list still names peers that are gone.                          *)
(***************************************************************************)
THEOREM LastOutboundAlwaysKept == ListSpec => LastOutboundKept
<1> DEFINE Kept == LiveOutbound(list) # {} /\ UNCHANGED connected
                     => {p \in Range(list') : p \in connected /\ p \notin Inbound} # {}
<1>1. ListInv /\ [ListNext]_listVars => [Kept]_listVars
  <2> SUFFICES ASSUME ListInv, ListNext, LiveOutbound(list) # {}, UNCHANGED connected,
                      Range(list') # Range(list)
               PROVE  \E q \in Range(list') : q \in connected /\ q \notin Inbound
    BY DEF LiveOutbound
  <2>1. PICK p \in Node : AddPeer(p)
    <3>1. ASSUME NEW p \in Node, \/ InitializeNode(p) \/ MarkDisconnected(p) \/ FinalizeNode(p)
          PROVE  FALSE
      BY <3>1 DEF InitializeNode, MarkDisconnected, FinalizeNode, Opened, Closed, list
    <3>2. ASSUME NEW p \in Node, RefreshPeer(p) PROVE FALSE
      <4>1. list' = Append(Without(list, p), p) /\ p \in Range(list)
        BY <3>2 DEF RefreshPeer, list
      <4>2. list \in Seq(Node) /\ IsInjective(list)
        BY DEF list, ListInv, HighBandwidthTypeOK, ListMatchesFlags
      <4> QED BY <4>1, <4>2, MoveToBackLemma
    <3>3. ASSUME NEW p \in Node, UnreachablePeer(p) PROVE FALSE
      <4>1. list' = Sheltered(p)
        BY <3>3 DEF UnreachablePeer, list
      <4> QED BY <4>1, ShelteredLemma
    <3> QED BY <3>1, <3>2, <3>3 DEF ListNext, MaybeSetPeerAsAnnouncingHeaderAndIDs
  <2>2. p \in connected
    BY <2>1 DEF AddPeer, Reachable
  <2>3. CASE p \notin Inbound
    <3>1. p \in Range(list')
      BY <2>1, AddPeerStep
    <3> QED BY <2>2, <2>3, <3>1
  <2>4. CASE p \in Inbound
    <3>1. CASE Range(list') = Range(list) \cup {p}
      BY <3>1 DEF LiveOutbound
    <3>2. CASE /\ Len(list) >= Slots
               /\ Range(list') = (Range(list) \ {Head(Sheltered(p))}) \cup {p}
      <4>1. LiveOutbound(list) \ {Head(Sheltered(p))} # {}
        BY <2>4, <3>2, ShelteredLemma
      <4> QED BY <3>2, <4>1 DEF LiveOutbound
    <3> QED BY <2>1, <3>1, <3>2, AddPeerStep
  <2> QED BY <2>3, <2>4
<1> QED BY <1>1, ListInvariant, PTL DEF ListSpec, LastOutboundKept
==============================================================================
