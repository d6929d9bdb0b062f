---------------------------- MODULE RelayQuality ----------------------------
(***************************************************************************)
(* The relay quality of one peer (node/peer_quality.h): six exponentially  *)
(* decaying averages of observations, and the score computed from them.    *)
(*                                                                         *)
(* A double is a multiple of 1/UNIT, and so is the decay factor over a     *)
(* span of time, a parameter of this module.  A mean is in percent, rounded*)
(* down.  The clock is the wall clock: it can be set back, though not to   *)
(* the epoch, which m_last_update has for a signal never updated.          *)
(***************************************************************************)
EXTENDS Integers, FiniteSets, FiniteSetsExt

CONSTANTS
    UNIT,                       \* one observation
    Exp2(_),                    \* Exp2(d): the decay factor over a time span d
    MIN_EFFECTIVE_OBSERVATIONS,
    FullAnnouncements,          \* announcements for a full mark (8.0)
    Times,                      \* readings of the clock
    MaxObservations             \* bound on the observations made

ASSUME UnitAssumption == UNIT \in Nat \ {0} /\ UNIT % 2 = 0

ASSUME BoundAssumption ==
    /\ MIN_EFFECTIVE_OBSERVATIONS \in Nat /\ FullAnnouncements \in Nat \ {0}
    /\ Times \subseteq Nat \ {0} /\ MaxObservations \in Nat

Spans == {t - u : t \in Times, u \in Times} \cap Nat

ASSUME FactorAssumption == \A d \in Spans \cup {0} : Exp2(d) \in 0 .. UNIT

\* exp2(-d / half life), rounded down: it falls with d, and decaying over one
\* span and then over another is decaying over both, up to the rounding.
ASSUME HalfLifeAssumption ==
    \A d \in Spans, e \in Spans :
        /\ d <= e => Exp2(e) <= Exp2(d)
        /\ d + e \in Spans => Exp2(d) * Exp2(e) <= UNIT * (Exp2(d + e) + 1)

VARIABLES
    signal, \* the DecayingSignals of the peer
    now,    \* the clock
    made    \* observations made so far

qualityVars == <<signal, now, made>>

Kinds == {"valid_announcements", "requested_block_success", "compact_quality",
          "stall_rate", "invalid_block_rate", "evidence"}

NewSignal == [m_sum |-> 0, m_weight |-> 0, m_last_update |-> 0]

----------------------------------------------------------------------------
(***************************************************************************)
(* DecayingSignal.                                                         *)
(***************************************************************************)
DecayFactor(s, t) ==
    IF s.m_last_update = 0 \/ t <= s.m_last_update THEN UNIT ELSE Exp2(t - s.m_last_update)

Scaled(x, factor) == (x * factor) \div UNIT

Clamp(x, lo, hi) == IF x < lo THEN lo ELSE IF x > hi THEN hi ELSE x

\* Faulty: divides by the factor when the clock has moved backwards.
DecayBackwards(s, t) ==
    IF s.m_last_update > t
    THEN [m_sum |-> (s.m_sum * UNIT) \div Exp2(s.m_last_update - t),
          m_weight |-> (s.m_weight * UNIT) \div Exp2(s.m_last_update - t),
          m_last_update |-> t]
    ELSE [m_sum |-> Scaled(s.m_sum, DecayFactor(s, t)),
          m_weight |-> Scaled(s.m_weight, DecayFactor(s, t)),
          m_last_update |-> t]

DecayTo(s, t) ==
    [m_sum |-> Scaled(s.m_sum, DecayFactor(s, t)),
     m_weight |-> Scaled(s.m_weight, DecayFactor(s, t)),
     m_last_update |-> t]

Observe(s, value, t) ==
    LET d == DecayTo(s, t)
    IN  [m_sum |-> d.m_sum + Clamp(value, 0, UNIT), m_weight |-> d.m_weight + UNIT,
         m_last_update |-> t]

EffectiveWeight(s, t) == Scaled(s.m_weight, DecayFactor(s, t))

Mean(s, t, fallback) ==
    IF EffectiveWeight(s, t) <= 0 THEN fallback
    ELSE (100 * Scaled(s.m_sum, DecayFactor(s, t))) \div EffectiveWeight(s, t)

----------------------------------------------------------------------------
(***************************************************************************)
(* RelayQuality: which signals an event is observed in, and with what      *)
(* value.  Every event counts as evidence once.                            *)
(***************************************************************************)
ValidatedAnnouncement == [valid_announcements |-> UNIT, evidence |-> UNIT]

RequestedBlockResult(successful) ==
    [requested_block_success |-> IF successful THEN UNIT ELSE 0,
     stall_rate |-> IF successful THEN 0 ELSE UNIT,
     evidence |-> UNIT]

\* Faulty: a fallback counts as evidence only.
CompactWithoutFallback(outcome) ==
    IF outcome = "fallback" THEN [evidence |-> UNIT]
    ELSE [compact_quality |-> IF outcome = "direct" THEN UNIT ELSE UNIT \div 2, evidence |-> UNIT]

CompactBlockResult(outcome) ==
    [compact_quality |-> CASE outcome = "direct" -> UNIT
                           [] outcome = "after_blocktxn" -> UNIT \div 2
                           [] outcome = "fallback" -> 0,
     evidence |-> UNIT]

FullBlockSource(valid) ==
    [invalid_block_rate |-> IF valid THEN 0 ELSE UNIT, evidence |-> UNIT]

Record(event) ==
    /\ made < MaxObservations
    /\ made' = made + 1
    /\ signal' = [k \in Kinds |-> IF k \in DOMAIN event THEN Observe(signal[k], event[k], now)
                                  ELSE signal[k]]
    /\ UNCHANGED now

ObserveValidatedAnnouncement == Record(ValidatedAnnouncement)

ObserveRequestedBlockResult(successful) == Record(RequestedBlockResult(successful))

ObserveCompactBlockResult(outcome) == Record(CompactBlockResult(outcome))

ObserveValidFullBlockSource == Record(FullBlockSource(TRUE))

ObserveInvalidFullBlockSource == Record(FullBlockSource(FALSE))

EffectiveObservations(t) == EffectiveWeight(signal["evidence"], t)

EnoughObservations(t) == EffectiveObservations(t) >= MIN_EFFECTIVE_OBSERVATIONS * UNIT

ValidatedAnnouncements(t) ==
    Min({100, (100 * EffectiveWeight(signal["valid_announcements"], t))
                 \div (FullAnnouncements * UNIT)})

\* Faulty: the stall rate is added.
ScoreAddsStalls(context, t) ==
    Clamp(30 * ValidatedAnnouncements(t)
            + 25 * Mean(signal["requested_block_success"], t, 50)
            + 15 * Mean(signal["compact_quality"], t, 50)
            + 15 * context.chain_freshness + 10 * context.availability + 5 * context.latency
            + 50 * Mean(signal["stall_rate"], t, 0)
            - 100 * Mean(signal["invalid_block_rate"], t, 0),
          -10000, 10000)

\* ScoreBreakdown(context, now).total, in percent of a percent.
Score(context, t) ==
    Clamp(30 * ValidatedAnnouncements(t)
            + 25 * Mean(signal["requested_block_success"], t, 50)
            + 15 * Mean(signal["compact_quality"], t, 50)
            + 15 * context.chain_freshness + 10 * context.availability + 5 * context.latency
            - 50 * Mean(signal["stall_rate"], t, 0)
            - 100 * Mean(signal["invalid_block_rate"], t, 0),
          -10000, 10000)

----------------------------------------------------------------------------
QualityInit ==
    /\ signal = [k \in Kinds |-> NewSignal]
    /\ now \in Times
    /\ made = 0

SetClock(t) == now' = t /\ UNCHANGED <<signal, made>>

QualityNext ==
    \/ ObserveValidatedAnnouncement
    \/ \E successful \in BOOLEAN : ObserveRequestedBlockResult(successful)
    \/ \E outcome \in {"direct", "after_blocktxn", "fallback"} :
          ObserveCompactBlockResult(outcome)
    \/ ObserveValidFullBlockSource
    \/ ObserveInvalidFullBlockSource
    \/ \E t \in Times : SetClock(t)

QualitySpec == QualityInit /\ [][QualityNext]_qualityVars

----------------------------------------------------------------------------
(* The shape of the state. *)
QualityTypeOK ==
    /\ signal \in [Kinds -> [m_sum : Nat, m_weight : Nat, m_last_update : {0} \cup Times]]
    /\ now \in Times
    /\ made \in Nat

(***************************************************************************)
(* DecayingSignal is an "aggregate of values in [0, 1]": no signal ever    *)
(* sums up to more than its weight, whichever way the clock jumps between  *)
(* observations, so every mean stays in [0, 1].                            *)
(***************************************************************************)
SignalsBounded == \A k \in Kinds : signal[k].m_sum <= signal[k].m_weight

(***************************************************************************)
(* "Never amplify old evidence if the local clock moves backwards"         *)
(* (DecayFactor): no step leaves a signal with more than it had plus one   *)
(* observation, and setting the clock, back or forth, raises none.         *)
(***************************************************************************)
NeverAmplified ==
    [][\A k \in Kinds :
          signal'[k].m_weight <= signal[k].m_weight + (made' - made) * UNIT]_qualityVars

\* How far, in the last place, the roundings of the decays can have carried
\* the sum of four signals from a signal of all their observations.
Rounding == 2 * made * (made + 1)

(***************************************************************************)
(* The observations counted as evidence are there: at no reading of the    *)
(* clock does m_evidence weigh more than the signals of which it is the    *)
(* total, but for roundings, although each signal is decayed at moments of *)
(* its own and the clock may be set back between them.  So a peer that     *)
(* passes HasEnoughEvidence is scored on as much, and it takes             *)
(* MIN_EFFECTIVE_OBSERVATIONS events to pass.                              *)
(* (m_stall_rate is observed together with m_requested_block_success.)     *)
(***************************************************************************)
EvidenceBacked ==
    \A t \in Times :
        /\ EffectiveObservations(t) <=
                EffectiveWeight(signal["valid_announcements"], t)
              + EffectiveWeight(signal["requested_block_success"], t)
              + EffectiveWeight(signal["compact_quality"], t)
              + EffectiveWeight(signal["invalid_block_rate"], t)
              + Rounding
        /\ EnoughObservations(t) => made >= MIN_EFFECTIVE_OBSERVATIONS

\* A context in which no part of the score is clamped away by the others.
Context == [chain_freshness |-> 100, availability |-> 100, latency |-> 50]

(***************************************************************************)
(* What peer_quality_tests checks on two histories ("stalls_reduce_score", *)
(* "invalid_full_blocks_reduce_score"), for all of them: a failed request  *)
(* or an invalid block never raises the score, and a delivered block, a    *)
(* valid one, an announcement or a direct reconstruction never lowers it.  *)
(***************************************************************************)
ScoreFollowsObservations ==
    [][/\ (ObserveRequestedBlockResult(FALSE) \/ ObserveInvalidFullBlockSource)
             => Score(Context, now)' <= Score(Context, now)
       /\ (ObserveRequestedBlockResult(TRUE) \/ ObserveValidFullBlockSource \/
           ObserveValidatedAnnouncement \/ ObserveCompactBlockResult("direct"))
             => Score(Context, now)' >= Score(Context, now)]_qualityVars
=============================================================================
