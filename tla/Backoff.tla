------------------------------ MODULE Backoff ------------------------------
(***************************************************************************)
(* getBackoffDuration of internal/process: how long Monitor waits after a  *)
(* number of consecutive failures, in seconds.  Module Process has the     *)
(* wait itself, which there ends whenever it likes; this module says how   *)
(* long it is.                                                             *)
(***************************************************************************)
EXTENDS Integers, TLAPS

Minute == 60

\* rand.Float64()*0.4 - 0.2 in hundredths.
Draw == -20..20

\* time.Duration(x) drops the fraction of a float, on either side of zero.
Truncated(hundredths) == IF hundredths >= 0 THEN hundredths \div 100 ELSE -((-hundredths) \div 100)

Exponent(failures) == IF failures > 5 THEN 5 ELSE failures

\* 1 << (exponent - 1), for the exponents there are.
Doubled == <<1, 2, 4, 8, 16>>

Delay(failures) == Doubled[Exponent(failures)]

BackoffDuration(failures, draw) ==
    IF failures <= 0 THEN 0
    ELSE LET jittered == Delay(failures) + Truncated(draw) * Delay(failures)
         IN  IF jittered > Minute THEN Minute ELSE jittered

-----------------------------------------------------------------------------
\* What the doublings are, entry by entry.
LEMMA DoubledFive ==
    /\ Doubled[1] = 1 /\ Doubled[2] = 2 /\ Doubled[3] = 4
    /\ Doubled[4] = 8 /\ Doubled[5] = 16
BY DEF Doubled

\* A delay is between one and sixteen seconds.
LEMMA DelayIsBounded ==
    ASSUME NEW failures \in Nat \ {0}
    PROVE  Delay(failures) \in 1..16
<1>1. Exponent(failures) \in 1..5
  BY DEF Exponent
<1>2. Doubled[Exponent(failures)] \in 1..16
  BY <1>1, DoubledFive
<1>. QED  BY <1>2 DEF Delay

\* A delay is doubled up to the fifth failure, and then stays.
LEMMA DelayIsMonotone ==
    ASSUME NEW fewer \in Nat \ {0}, NEW more \in Nat \ {0}, fewer <= more
    PROVE  Delay(fewer) <= Delay(more)
<1>1. Exponent(fewer) \in 1..5 /\ Exponent(more) \in 1..5 /\ Exponent(fewer) <= Exponent(more)
  BY DEF Exponent
<1>2. /\ Doubled[Exponent(fewer)] \in 1..16 /\ Doubled[Exponent(more)] \in 1..16
      /\ Doubled[Exponent(fewer)] <= Doubled[Exponent(more)]
  BY <1>1, DoubledFive
<1>. QED  BY <1>2 DEF Delay

\* No fraction the code draws survives the conversion.
LEMMA FractionIsDropped ==
    ASSUME NEW draw \in Draw
    PROVE  Truncated(draw) = 0
<1>1. CASE draw >= 0
  BY <1>1 DEF Truncated, Draw
<1>2. CASE draw < 0
  BY <1>2 DEF Truncated, Draw
<1>. QED  BY <1>1, <1>2 DEF Draw

\* The conversion to a Duration comes before the multiplication: whatever is drawn, nothing
\* is left of it, and instances that fail together are restarted together.
THEOREM JitterVanishes ==
    ASSUME NEW failures \in Int, NEW draw \in Draw, NEW other \in Draw
    PROVE  BackoffDuration(failures, draw) = BackoffDuration(failures, other)
<1>1. Truncated(draw) = 0 /\ Truncated(other) = 0
  BY FractionIsDropped
<1>. QED  BY <1>1 DEF BackoffDuration

\* Neither the jitter nor the cap changes a delay.
LEMMA DurationIsDelay ==
    ASSUME NEW failures \in Nat \ {0}, NEW draw \in Draw
    PROVE  BackoffDuration(failures, draw) = Delay(failures)
<1>1. Truncated(draw) = 0
  BY FractionIsDropped
<1>2. Delay(failures) \in Int /\ Delay(failures) <= 16
  BY DelayIsBounded
<1>3. Delay(failures) + Truncated(draw) * Delay(failures) = Delay(failures)
  BY <1>1, <1>2
<1>4. ~(Delay(failures) > Minute)
  BY <1>2 DEF Minute
<1>. QED  BY <1>3, <1>4 DEF BackoffDuration

\* No failure is followed by a restart at once, nor by a wait of more than 16 seconds; the
\* cap of a minute is never reached.
THEOREM WaitIsBounded ==
    ASSUME NEW failures \in Nat \ {0}, NEW draw \in Draw
    PROVE  BackoffDuration(failures, draw) \in 1..16
BY DelayIsBounded, DurationIsDelay

\* A later failure is never followed by a shorter wait, whatever was drawn.
THEOREM WaitsGrow ==
    ASSUME NEW fewer \in Int, NEW more \in Int, fewer <= more,
           NEW draw \in Draw, NEW other \in Draw
    PROVE  BackoffDuration(fewer, draw) <= BackoffDuration(more, other)
<1>1. CASE fewer <= 0 /\ more <= 0
  BY <1>1 DEF BackoffDuration
<1>2. CASE fewer <= 0 /\ more > 0
  <2>1. BackoffDuration(more, other) \in 1..16
    BY <1>2, WaitIsBounded
  <2>2. BackoffDuration(fewer, draw) = 0
    BY <1>2 DEF BackoffDuration
  <2>. QED  BY <2>1, <2>2
<1>3. CASE fewer > 0
  <2>1. fewer \in Nat \ {0} /\ more \in Nat \ {0}
    BY <1>3
  <2>. QED  BY <2>1, DurationIsDelay, DelayIsMonotone
<1>. QED  BY <1>1, <1>2, <1>3
=============================================================================
