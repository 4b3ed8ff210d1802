------------------------------ MODULE SpeedCalc ------------------------------
(***************************************************************************)
(* The speed stage of ranging (range.c lines 337 to 420): distances are    *)
(* averaged over windows of AVERAGE_NUM readings, the average of each      *)
(* window is compared with the last one that came closer, and after        *)
(* SAMPLE_NUM of them the mean approach gives the distance at which the    *)
(* door is to open.  The variables are locals of ranging: they outlive a   *)
(* pass, and the passes the main thread abandons.                          *)
(***************************************************************************)
EXTENDS Integers

CONSTANTS
  Readings,      (* Distances the sensor reports: RangeMilliMeter ...       *)
  MaxReading,    (* ... which has 16 bits: 65535.                           *)
  AverageNum,    (* AVERAGE_NUM, the readings of a window: 5.               *)
  SampleNum,     (* SAMPLE_NUM, the samples of an estimate: 3.              *)
  MaxNegative,   (* MAX_NEGATIVE, windows without approach: 5.              *)
  Irregular,     (* A larger average is not believed: 4000 mm.              *)
  GateDistance,  (* GATE_DISTANCE: 250 mm.                                  *)
  MaxPasses      (* Bound on the estimates between two restarts.            *)

ASSUME ReadingsAssumption == MaxReading \in Nat /\ Readings \subseteq 0 .. MaxReading
ASSUME AverageNumAssumption == AverageNum \in 2 .. 5
ASSUME SampleNumAssumption == SampleNum \in Nat /\ SampleNum >= 2
ASSUME MaxNegativeAssumption == MaxNegative \in Nat
ASSUME IrregularAssumption == Irregular \in Nat
ASSUME GateDistanceAssumption == GateDistance \in Nat
ASSUME MaxPassesAssumption == MaxPasses \in Nat

VARIABLES
  active,          (* range_status is speed.                               *)
  passes,          (* Estimates made so far.                               *)
  micro_average,
  average_count,
  sample_count,
  sample_prev,
  sample_diff,
  negative_count,
  average,
  open_timing

windowVars == <<micro_average, average_count>>
sampleVars == <<sample_count, sample_prev, sample_diff, negative_count>>
resultVars == <<average, open_timing>>
vars == <<active, passes, windowVars, sampleVars, resultVars>>

TypeOK ==
  /\ active \in BOOLEAN
  /\ passes \in 0 .. MaxPasses
  /\ micro_average \in Nat
  /\ average_count \in 0 .. AverageNum - 1
  /\ sample_count \in Int
  /\ sample_prev \in Nat
  /\ sample_diff \in Int
  /\ negative_count \in Nat
  /\ average \in Int
  /\ open_timing \in Int

Init ==
  /\ active = FALSE
  /\ passes = 0
  /\ micro_average = 0
  /\ average_count = 0
  /\ sample_count = 0
  /\ sample_prev = 0
  /\ sample_diff = 0
  /\ negative_count = 0
  /\ average = 0
  /\ open_timing = 0

-----------------------------------------------------------------------------
(* The main thread gives the command speed, and may give another one       *)
(* before the estimate is made.                                            *)
Command ==
  /\ ~active
  /\ passes < MaxPasses
  /\ active' = TRUE
  /\ UNCHANGED <<passes, windowVars, sampleVars, resultVars>>

Abandon ==
  /\ active
  /\ active' = FALSE
  /\ UNCHANGED <<passes, windowVars, sampleVars, resultVars>>

Accumulate(r) ==
  /\ active
  /\ average_count + 1 < AverageNum
  /\ micro_average' = micro_average + r
  /\ average_count' = average_count + 1
  /\ UNCHANGED <<active, passes, sampleVars, resultVars>>

(* Mutant: the sum is not divided.                                         *)
WindowSum(r) == micro_average + r

(* The average of the window that reading r completes.  micro_average      *)
(* still holds the average of the window before.                           *)
WindowAverage(r) == (micro_average + r) \div AverageNum

(* Mutant: an open_timing short of the gate is kept.                       *)
CountSampleNoGate(n) ==
  IF n + 1 = SampleNum
  THEN /\ sample_count' = 0
       /\ average' = sample_diff' \div (SampleNum - 1)
       /\ open_timing' = 10 * average'
       /\ active' = FALSE
       /\ passes' = passes + 1
  ELSE /\ sample_count' = n + 1
       /\ UNCHANGED <<active, passes, resultVars>>

(* n is sample_count before the increment that ends every window.  The     *)
(* last sample brings the estimate; sample_diff and negative_count stay.   *)
CountSample(n) ==
  IF n + 1 = SampleNum
  THEN /\ sample_count' = 0
       /\ average' = sample_diff' \div (SampleNum - 1)
       /\ open_timing' = IF 10 * average' < GateDistance THEN GateDistance ELSE 10 * average'
       /\ active' = FALSE
       /\ passes' = passes + 1
  ELSE /\ sample_count' = n + 1
       /\ UNCHANGED <<active, passes, resultVars>>

Window(r) ==
  /\ active
  /\ average_count + 1 = AverageNum
  /\ average_count' = 0
  /\ micro_average' = WindowAverage(r)

(* Mutant: a window without approach takes a sample away.                  *)
NoApproachTakesAway(r) ==
  /\ Window(r)
  /\ \/ WindowAverage(r) > Irregular
     \/ sample_count > 0 /\ WindowAverage(r) >= sample_prev
  /\ UNCHANGED <<sample_prev, sample_diff>>
  /\ negative_count' = negative_count + 1
  /\ CountSample(sample_count - 2)

(* Mutant: starting over keeps sample_diff.                                *)
NoApproachKeepsDiff(r) ==
  /\ Window(r)
  /\ \/ WindowAverage(r) > Irregular
     \/ sample_count > 0 /\ WindowAverage(r) >= sample_prev
  /\ UNCHANGED <<sample_prev, sample_diff>>
  /\ IF negative_count + 1 > MaxNegative
     THEN negative_count' = 0 /\ CountSample(-1)
     ELSE /\ negative_count' = negative_count + 1
          /\ CountSample(sample_count - 1)

(* An irregular value, or one that came no closer: it does not count, and  *)
(* too many of them in a row start the estimate over.                      *)
NoApproach(r) ==
  /\ Window(r)
  /\ \/ WindowAverage(r) > Irregular
     \/ sample_count > 0 /\ WindowAverage(r) >= sample_prev
  /\ UNCHANGED sample_prev
  /\ IF negative_count + 1 > MaxNegative
     THEN sample_diff' = 0 /\ negative_count' = 0 /\ CountSample(-1)
     ELSE /\ UNCHANGED sample_diff
          /\ negative_count' = negative_count + 1
          /\ CountSample(sample_count - 1)

(* Nothing to compare with: the first sample is kept.  Below 0, which the  *)
(* code logs as "???" (line 382), the average would be passed over.        *)
FirstSample(r) ==
  /\ Window(r)
  /\ WindowAverage(r) <= Irregular
  /\ sample_count <= 0
  /\ sample_prev' = IF sample_count = 0 THEN WindowAverage(r) ELSE sample_prev
  /\ UNCHANGED <<sample_diff, negative_count>>
  /\ CountSample(sample_count)

Approach(r) ==
  /\ Window(r)
  /\ WindowAverage(r) <= Irregular
  /\ sample_count > 0
  /\ WindowAverage(r) < sample_prev
  /\ sample_diff' = sample_diff + (sample_prev - WindowAverage(r))
  /\ sample_prev' = WindowAverage(r)
  /\ negative_count' = 0
  /\ CountSample(sample_count)

Reading(r) ==
  \/ Accumulate(r)
  \/ NoApproach(r)
  \/ FirstSample(r)
  \/ Approach(r)

(* The program is started anew: all of this is gone.                       *)
Restart ==
  /\ active' = FALSE
  /\ passes' = 0
  /\ micro_average' = 0
  /\ average_count' = 0
  /\ sample_count' = 0
  /\ sample_prev' = 0
  /\ sample_diff' = 0
  /\ negative_count' = 0
  /\ average' = 0
  /\ open_timing' = 0

Next ==
  \/ Command
  \/ Abandon
  \/ \E r \in Readings : Reading(r)
  \/ Restart

Spec == Init /\ [][Next]_vars

-----------------------------------------------------------------------------
(* However irregular and receding windows alternate, sample_count stays in *)
(* its range, and the branch that logs "???" (line 382) is never taken.    *)
SampleCountInRange == sample_count \in 0 .. SampleNum - 1

(* What the stage leaves for the door: nothing before the first estimate,  *)
(* then a distance not short of the gate, from an approach that is never   *)
(* negative.                                                               *)
EstimateUsable ==
  /\ sample_diff >= 0
  /\ average >= 0
  /\ open_timing >= GateDistance \/ passes = 0

(* micro_average takes the window before along, and yet stays bounded: it  *)
(* cannot overflow an int.                                                 *)
MicroAverageBounded ==
  micro_average <= 2 * MaxReading + average_count * MaxReading

(* sample_diff is never reset by an estimate, so it grows from pass to     *)
(* pass, but by no more than one believable distance each.                 *)
DriftBounded ==
  sample_diff <= passes * Irregular + (IF sample_count > 0 THEN Irregular - sample_prev ELSE 0)

=============================================================================
