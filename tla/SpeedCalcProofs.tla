---------------------------- MODULE SpeedCalcProofs ----------------------------
(***************************************************************************)
(* Theorems about SpeedCalc, for every range of readings, every number of  *)
(* samples, every tolerance and every window of 2 to 5 readings.           *)
(***************************************************************************)
EXTENDS SpeedCalc, TLAPS

USE DEF windowVars, sampleVars, resultVars

-----------------------------------------------------------------------------
(* Arithmetic.                                                             *)

LEMMA QuotientNatural ==
  ASSUME NEW d \in Nat, NEW k \in Nat \ {0}
  PROVE  d \div k \in Nat
BY SMT

(* The window before is in the sum once, so the average of a window is at  *)
(* most twice the largest reading.                                         *)
LEMMA WindowAverageBounded ==
  ASSUME NEW m \in Nat, NEW r \in 0 .. MaxReading,
         m <= 2 * MaxReading + (AverageNum - 1) * MaxReading
  PROVE  (m + r) \div AverageNum \in Nat /\ (m + r) \div AverageNum <= 2 * MaxReading
<1>1. MaxReading \in Nat
  BY ReadingsAssumption
<1>2. CASE AverageNum = 2
  BY <1>1, <1>2, SMT
<1>3. CASE AverageNum = 3
  BY <1>1, <1>3, SMT
<1>4. CASE AverageNum = 4
  BY <1>1, <1>4, SMT
<1>5. CASE AverageNum = 5
  BY <1>1, <1>5, SMT
<1> QED
  BY <1>2, <1>3, <1>4, <1>5, AverageNumAssumption, SMT

LEMMA OneMorePass ==
  ASSUME NEW p \in Nat
  PROVE  p * Irregular \in Nat /\ (p + 1) * Irregular = p * Irregular + Irregular
BY IrregularAssumption, SMT

-----------------------------------------------------------------------------
(* The inductive invariant, the part of the samples and the part of the    *)
(* window.  The last sample that counted was believed, and an estimate is  *)
(* under way only while another one is allowed.                            *)
SampleInv ==
  /\ active \in BOOLEAN
  /\ passes \in 0 .. MaxPasses
  /\ active => passes < MaxPasses
  /\ sample_count \in 0 .. SampleNum - 1
  /\ sample_prev \in Nat
  /\ sample_diff \in Nat
  /\ negative_count \in Nat
  /\ average \in Nat
  /\ open_timing \in Nat
  /\ open_timing >= GateDistance \/ passes = 0
  /\ DriftBounded
  /\ sample_count > 0 => sample_prev <= Irregular

WindowInv ==
  /\ micro_average \in Nat
  /\ average_count \in 0 .. AverageNum - 1
  /\ MicroAverageBounded

SpeedInv == SampleInv /\ WindowInv

LEMMA WindowStep ==
  ASSUME WindowInv, NEW r \in Readings, Window(r)
  PROVE  WindowInv' /\ WindowAverage(r) \in Nat
<1>1. r \in 0 .. MaxReading /\ MaxReading \in Nat /\ AverageNum \in 2 .. 5
  BY ReadingsAssumption, AverageNumAssumption
<1>2. micro_average <= 2 * MaxReading + (AverageNum - 1) * MaxReading
  <2>1. average_count = AverageNum - 1
    BY <1>1, SMT DEF Window, WindowInv
  <2> QED
    BY <2>1 DEF WindowInv, MicroAverageBounded
<1>3. WindowAverage(r) \in Nat /\ WindowAverage(r) <= 2 * MaxReading
  BY <1>1, <1>2, WindowAverageBounded DEF WindowAverage, WindowInv
<1>4. micro_average' = WindowAverage(r) /\ average_count' = 0
  BY DEF Window
<1> QED
  BY <1>1, <1>3, <1>4, SMT DEF WindowInv, MicroAverageBounded

(* Every window ends in CountSample.  n is not negative when it leaves a   *)
(* sample that counts.                                                     *)
LEMMA CountSampleStep ==
  ASSUME SampleInv, active, NEW n \in -1 .. SampleNum - 1, CountSample(n),
         sample_prev' \in Nat, sample_diff' \in Nat, negative_count' \in Nat,
         n >= 0 => sample_prev' <= Irregular,
         sample_diff' <= passes * Irregular + (IF n >= 0 THEN Irregular - sample_prev' ELSE 0)
  PROVE  SampleInv'
<1>1. /\ passes \in Nat /\ passes < MaxPasses
      /\ MaxPasses \in Nat /\ Irregular \in Nat /\ GateDistance \in Nat
      /\ SampleNum \in Nat /\ SampleNum >= 2
  BY MaxPassesAssumption, IrregularAssumption, GateDistanceAssumption,
     SampleNumAssumption, SMT DEF SampleInv
<1>2. CASE n + 1 = SampleNum
  <2>1. /\ sample_count' = 0 /\ active' = FALSE /\ passes' = passes + 1
        /\ average' = sample_diff' \div (SampleNum - 1)
        /\ open_timing' = IF 10 * average' < GateDistance THEN GateDistance ELSE 10 * average'
    BY <1>2 DEF CountSample
  <2>2. average' \in Nat
    <3>1. SampleNum - 1 \in Nat \ {0}
      BY <1>1, SMT
    <3> QED
      BY <2>1, <3>1, QuotientNatural
  <2>3. open_timing' \in Nat /\ open_timing' >= GateDistance
    <3>1. PICK a \in Nat : average' = a
      BY <2>2
    <3>2. open_timing' = IF 10 * a < GateDistance THEN GateDistance ELSE 10 * a
      BY <2>1, <3>1, Zenon
    <3>3. /\ (IF 10 * a < GateDistance THEN GateDistance ELSE 10 * a) \in Nat
          /\ (IF 10 * a < GateDistance THEN GateDistance ELSE 10 * a) >= GateDistance
      BY <1>1, SMT
    <3> QED
      BY <3>2, <3>3, Zenon
  <2>4. sample_diff' <= passes' * Irregular
    <3>1. PICK p \in Nat : p = passes * Irregular /\ passes' * Irregular = p + Irregular
      BY <1>1, <2>1, OneMorePass
    <3>2. PICK d \in Nat : sample_diff' = d
      OBVIOUS
    <3>3. PICK v \in Nat : sample_prev' = v
      OBVIOUS
    <3>4. d <= p + (Irregular - v)
      <4>1. n >= 0
        BY <1>1, <1>2, SMT
      <4> QED
        BY <3>1, <3>2, <3>3, <4>1, Zenon
    <3>5. d <= p + Irregular
      BY <1>1, <3>4, SMT
    <3> QED
      BY <3>1, <3>2, <3>5, Zenon
  <2>5. DriftBounded'
    <3>1. passes' * Irregular \in Nat
      BY <1>1, <2>1, OneMorePass
    <3>2. DriftBounded' <=> sample_diff' <= passes' * Irregular + 0
      BY <2>1, SMT DEF DriftBounded
    <3> QED
      BY <2>4, <3>1, <3>2, SMT
  <2>6. passes' \in 0 .. MaxPasses /\ sample_count' \in 0 .. SampleNum - 1
        /\ ~(sample_count' > 0)
    BY <1>1, <2>1, SMT
  <2> QED
    BY <2>1, <2>2, <2>3, <2>5, <2>6, Zenon DEF SampleInv
<1>3. CASE n + 1 # SampleNum
  <2>1. sample_count' = n + 1 /\ UNCHANGED <<active, passes, average, open_timing>>
    BY <1>3 DEF CountSample
  <2>2. sample_count' \in 0 .. SampleNum - 1 /\ (sample_count' > 0 <=> n >= 0)
    BY <1>1, <1>3, <2>1, SMT
  <2>3. DriftBounded'
    BY <2>1, <2>2, Zenon DEF DriftBounded
  <2> QED
    BY <2>1, <2>2, <2>3, SMT DEF SampleInv
<1> QED
  BY <1>2, <1>3

LEMMA ReadingStep ==
  ASSUME SpeedInv, NEW r \in Readings, Reading(r)
  PROVE  SpeedInv'
<1>1. /\ r \in Nat /\ r <= MaxReading /\ MaxReading \in Nat /\ AverageNum \in 2 .. 5
      /\ Irregular \in Nat /\ SampleNum \in Nat /\ SampleNum >= 2
      /\ passes \in Nat /\ passes * Irregular \in Nat
  BY ReadingsAssumption, AverageNumAssumption, IrregularAssumption,
     SampleNumAssumption, MaxPassesAssumption, OneMorePass, SMT DEF SpeedInv, SampleInv
<1>2. CASE Accumulate(r)
  <2>1. SampleInv'
    BY <1>2, SMT DEF Accumulate, SpeedInv, SampleInv, DriftBounded
  <2>2. /\ micro_average' = micro_average + r /\ average_count' = average_count + 1
        /\ average_count + 1 < AverageNum
    BY <1>2 DEF Accumulate
  <2>3. (average_count + 1) * MaxReading = average_count * MaxReading + MaxReading
    BY <1>1, SMT DEF SpeedInv, WindowInv
  <2>4. MicroAverageBounded'
    BY <1>1, <2>2, <2>3, SMT DEF SpeedInv, WindowInv, MicroAverageBounded
  <2> QED
    BY <1>1, <2>1, <2>2, <2>4, SMT DEF SpeedInv, WindowInv
<1>3. CASE NoApproach(r)
  <2>1. WindowInv' /\ active
    BY <1>3, WindowStep DEF NoApproach, SpeedInv, Window
  <2>2. CASE negative_count + 1 > MaxNegative
    <3>1. /\ sample_prev' = sample_prev /\ sample_diff' = 0 /\ negative_count' = 0
          /\ CountSample(-1)
      BY <1>3, <2>2 DEF NoApproach
    <3> QED
      BY <1>1, <2>1, <3>1, CountSampleStep, SMT DEF SpeedInv, SampleInv
  <2>3. CASE ~(negative_count + 1 > MaxNegative)
    <3>1. /\ UNCHANGED <<sample_prev, sample_diff>> /\ negative_count' = negative_count + 1
          /\ CountSample(sample_count - 1)
      BY <1>3, <2>3 DEF NoApproach
    <3>2. /\ sample_count - 1 \in -1 .. SampleNum - 1
          /\ sample_count - 1 >= 0 <=> sample_count > 0
      BY <1>1, SMT DEF SpeedInv, SampleInv
    <3>3. sample_diff' <= passes * Irregular
                + (IF sample_count - 1 >= 0 THEN Irregular - sample_prev' ELSE 0)
      BY <3>1, <3>2, Zenon DEF SpeedInv, SampleInv, DriftBounded
    <3>4. sample_prev' \in Nat /\ sample_diff' \in Nat /\ negative_count' \in Nat
          /\ (sample_count - 1 >= 0 => sample_prev' <= Irregular)
      BY <3>1, <3>2, SMT DEF SpeedInv, SampleInv
    <3> QED
      BY <2>1, <3>1, <3>2, <3>3, <3>4, CountSampleStep, Zenon DEF SpeedInv
  <2> QED
    BY <2>2, <2>3
<1>4. CASE FirstSample(r)
  <2>1. WindowInv' /\ WindowAverage(r) \in Nat /\ active
    BY <1>4, WindowStep DEF FirstSample, SpeedInv, Window
  <2>2. /\ WindowAverage(r) <= Irregular /\ sample_count = 0
        /\ sample_prev' = WindowAverage(r)
        /\ UNCHANGED <<sample_diff, negative_count>> /\ CountSample(0)
    BY <1>1, <1>4, SMT DEF FirstSample, SpeedInv, SampleInv
  <2>3. sample_diff' \in Nat /\ negative_count' \in Nat /\ sample_diff' <= passes * Irregular
    BY <1>1, <2>2, SMT DEF SpeedInv, SampleInv, DriftBounded
  <2>4. sample_diff' <= passes * Irregular + (Irregular - sample_prev')
    BY <1>1, <2>1, <2>2, <2>3, SMT
  <2> QED
    BY <1>1, <2>1, <2>2, <2>3, <2>4, CountSampleStep, SMT DEF SpeedInv
<1>5. CASE Approach(r)
  <2>1. WindowInv' /\ WindowAverage(r) \in Nat /\ active
    BY <1>5, WindowStep DEF Approach, SpeedInv, Window
  <2>2. /\ WindowAverage(r) <= Irregular /\ sample_count > 0
        /\ WindowAverage(r) < sample_prev
        /\ sample_diff' = sample_diff + (sample_prev - WindowAverage(r))
        /\ sample_prev' = WindowAverage(r) /\ negative_count' = 0
        /\ CountSample(sample_count)
    BY <1>5 DEF Approach
  <2>3. /\ sample_count \in -1 .. SampleNum - 1 /\ sample_count >= 0
        /\ sample_prev \in Nat /\ sample_diff \in Nat
        /\ sample_diff <= passes * Irregular + (Irregular - sample_prev)
    BY <1>1, <2>2, SMT DEF SpeedInv, SampleInv, DriftBounded
  <2>4. sample_diff' \in Nat /\ sample_diff' <= passes * Irregular + (Irregular - sample_prev')
    BY <1>1, <2>1, <2>2, <2>3, SMT
  <2> QED
    BY <1>1, <2>1, <2>2, <2>3, <2>4, CountSampleStep, SMT DEF SpeedInv
<1> QED
  BY <1>2, <1>3, <1>4, <1>5 DEF Reading

LEMMA SpeedInvInit == Init => SpeedInv
<1> SUFFICES ASSUME Init
             PROVE  SpeedInv
  OBVIOUS
<1>1. 0 * Irregular = 0 /\ 0 * MaxReading = 0 /\ MaxReading \in Nat
  BY ReadingsAssumption, IrregularAssumption, SMT
<1>2. DriftBounded
  BY <1>1, SMT DEF Init, DriftBounded
<1>3. WindowInv
  BY <1>1, AverageNumAssumption, SMT DEF Init, WindowInv, MicroAverageBounded
<1>4. SampleInv
  <2>1. /\ passes \in 0 .. MaxPasses /\ sample_count \in 0 .. SampleNum - 1
        /\ ~(sample_count > 0) /\ 0 \in Nat
    BY SampleNumAssumption, MaxPassesAssumption, SMT DEF Init
  <2> QED
    BY <1>2, <2>1, Zenon DEF Init, SampleInv
<1> QED
  BY <1>3, <1>4 DEF SpeedInv

LEMMA SpeedInvStep == SpeedInv /\ [Next]_vars => SpeedInv'
<1> SUFFICES ASSUME SpeedInv, [Next]_vars
             PROVE  SpeedInv'
  OBVIOUS
<1>1. CASE Command
  <2>1. /\ active' = TRUE /\ passes < MaxPasses
        /\ UNCHANGED <<passes, micro_average, average_count, sample_count, sample_prev,
                       sample_diff, negative_count, average, open_timing>>
    BY <1>1, SMT DEF Command
  <2>2. DriftBounded' /\ MicroAverageBounded'
    BY <2>1, Zenon DEF SpeedInv, SampleInv, WindowInv, MicroAverageBounded, DriftBounded
  <2> QED
    BY <2>1, <2>2, Zenon DEF SpeedInv, SampleInv, WindowInv
<1>2. CASE Abandon
  <2>1. /\ active' = FALSE
        /\ UNCHANGED <<passes, micro_average, average_count, sample_count, sample_prev,
                       sample_diff, negative_count, average, open_timing>>
    BY <1>2, SMT DEF Abandon
  <2>2. DriftBounded' /\ MicroAverageBounded'
    BY <2>1, Zenon DEF SpeedInv, SampleInv, WindowInv, MicroAverageBounded, DriftBounded
  <2> QED
    BY <2>1, <2>2, Zenon DEF SpeedInv, SampleInv, WindowInv
<1>3. CASE \E r \in Readings : Reading(r)
  BY <1>3, ReadingStep
<1>4. CASE Restart
  <2>1. 0 * Irregular = 0 /\ 0 * MaxReading = 0 /\ MaxReading \in Nat
    BY ReadingsAssumption, IrregularAssumption, SMT
  <2>2. DriftBounded'
    BY <1>4, <2>1, SMT DEF Restart, DriftBounded
  <2>3. WindowInv'
    BY <1>4, <2>1, AverageNumAssumption, SMT DEF Restart, WindowInv, MicroAverageBounded
  <2>4. SampleInv'
    <3>1. /\ passes' \in 0 .. MaxPasses /\ sample_count' \in 0 .. SampleNum - 1
          /\ ~(sample_count' > 0) /\ 0 \in Nat
      BY <1>4, SampleNumAssumption, MaxPassesAssumption, SMT DEF Restart
    <3> QED
      BY <1>4, <2>2, <3>1, Zenon DEF Restart, SampleInv
  <2> QED
    BY <2>3, <2>4 DEF SpeedInv
<1>5. CASE UNCHANGED vars
  BY <1>5, SMT DEF vars, SpeedInv, SampleInv, WindowInv, MicroAverageBounded, DriftBounded
<1> QED
  BY <1>1, <1>2, <1>3, <1>4, <1>5 DEF Next

LEMMA SpeedInvariance == Spec => []SpeedInv
BY SpeedInvInit, SpeedInvStep, PTL DEF Spec

-----------------------------------------------------------------------------
(* Every variable keeps to its range, and average_count to its window.     *)
THEOREM SpeedTypeCorrect == Spec => []TypeOK
<1>1. SpeedInv => TypeOK
  BY SMT DEF SpeedInv, SampleInv, WindowInv, TypeOK
<1> QED
  BY <1>1, SpeedInvariance, PTL

(* The branch of the code that logs "???" is never taken.                  *)
THEOREM SampleCountStaysInRange == Spec => []SampleCountInRange
<1>1. SpeedInv => SampleCountInRange
  BY DEF SpeedInv, SampleInv, SampleCountInRange
<1> QED
  BY <1>1, SpeedInvariance, PTL

(* The door gets a usable distance from every estimate, whatever passes    *)
(* were abandoned before it.                                               *)
THEOREM EstimatesAreUsable == Spec => []EstimateUsable
<1>1. SpeedInv => EstimateUsable
  BY SMT DEF SpeedInv, SampleInv, EstimateUsable
<1> QED
  BY <1>1, SpeedInvariance, PTL

(* Carrying the window before along does not make the sum grow.            *)
THEOREM SumsAreBounded == Spec => []MicroAverageBounded
<1>1. SpeedInv => MicroAverageBounded
  BY DEF SpeedInv, WindowInv
<1> QED
  BY <1>1, SpeedInvariance, PTL

(* sample_diff drifts by no more than one believable distance per pass.    *)
THEOREM DriftIsBounded == Spec => []DriftBounded
<1>1. SpeedInv => DriftBounded
  BY DEF SpeedInv, SampleInv
<1> QED
  BY <1>1, SpeedInvariance, PTL

=============================================================================
