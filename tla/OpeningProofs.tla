--------------------------- MODULE OpeningProofs ---------------------------
(***************************************************************************)
(* Proofs about Opening: it is SpeedCalc with the door beside it, and the  *)
(* door is open when it is said to be, whatever the distances are at which *)
(* the motor's speed changes.                                              *)
(***************************************************************************)
EXTENDS Opening, SpeedCalcProofs

(* A step of Opening is one of SpeedCalc, or leaves its variables alone.   *)
LEMMA OpeningStepIsSpeedStep == [OpeningNext]_openVars => [Next]_vars
<1> SUFFICES ASSUME [OpeningNext]_openVars
             PROVE  [Next]_vars
  OBVIOUS
<1>1. CASE DetectSpeed
  BY <1>1 DEF DetectSpeed, Next
<1>2. CASE AbandonPass
  BY <1>2 DEF AbandonPass, Next
<1>3. CASE SpeedStage
  BY <1>3 DEF SpeedStage, Next
<1>4. CASE OpenDoor \/ OpenStage \/ OpenWait \/ CloseStage
  BY <1>4 DEF OpenDoor, OpenStage, OpenWait, CloseStage
<1>5. CASE ProgramRestarts
  BY <1>5 DEF ProgramRestarts, Next
<1>6. CASE UNCHANGED openVars
  BY <1>6 DEF openVars
<1> QED
  BY <1>1, <1>2, <1>3, <1>4, <1>5, <1>6 DEF OpeningNext

(* All that SpeedCalcProofs shows of the estimate holds beside the door.   *)
THEOREM OpeningImplementsSpeedCalc == OpeningSpec => Spec
<1>1. OpeningInit => Init
  BY DEF OpeningInit
<1> QED
  BY <1>1, OpeningStepIsSpeedStep, PTL DEF OpeningSpec, Spec

-----------------------------------------------------------------------------
LEMMA MinOfTwo ==
  ASSUME NEW a \in Int, NEW b \in Int
  PROVE  Min({a, b}) = IF a <= b THEN a ELSE b
<1>1. CASE a <= b
  <2>1. \A x \in {a, b} : (\A y \in {a, b} : x <= y) <=> x = a
    BY <1>1, SMT
  <2>2. Min({a, b}) = CHOOSE x \in {a, b} : x = a
    BY <2>1, Zenon DEF Min
  <2> QED
    BY <1>1, <2>2
<1>2. CASE ~(a <= b)
  <2>1. \A x \in {a, b} : (\A y \in {a, b} : x <= y) <=> x = b
    BY <1>2, SMT
  <2>2. Min({a, b}) = CHOOSE x \in {a, b} : x = b
    BY <2>1, Zenon DEF Min
  <2> QED
    BY <1>2, <2>2
<1> QED
  BY <1>1, <1>2

(* The register for each of the four speeds: 4, 2 and 1 units, and for the *)
(* slow speed none.                                                        *)
Units(a) ==
  IF a > UltraSpeed THEN 4
  ELSE IF a > HighSpeed THEN 2
  ELSE IF a > NormalSpeed THEN 1
  ELSE 0

LEMMA RegisterOfSpeed ==
  ASSUME NEW a \in Int
  PROVE  Register(MotorSpeed(a)) = Units(a)
BY SpeedsAssumption, SMT DEF Register, MotorSpeed, Units, SetSpeed

-----------------------------------------------------------------------------
(* The door has moved at the speed of the register for as long as          *)
(* open_wait has counted.                                                  *)
Moved ==
  /\ goal = P90Deg
  /\ open_wait >= 2
  /\ position = P90Deg \/ position >= (open_wait - 2) * (UnitSteps * max_speed)

(* The parts of a pass exclude each other; from the estimate to the close  *)
(* the register holds the speed of the estimate, unless a write was lost.  *)
StageInv ==
  /\ active => door = "idle"
  /\ door # "opening" => open_wait = 0
  /\ door # "idle" => lost \/ max_speed = Units(average)

DoorInv ==
  /\ DoorTypeOK
  /\ StageInv
  /\ door = "opening" /\ open_wait # 0 => lost \/ Moved
  /\ DoorOpenWhenTold

LEMMA RegisterOfInit == Register(SetSpeed) = 1
BY SMT DEF Register, SetSpeed

(* Nothing is asked of the motor while the door is idle.                   *)
LEMMA IdleDoor ==
  ASSUME DoorTypeOK', door' = "idle", open_wait' = 0
  PROVE  DoorInv'
BY DEF DoorInv, StageInv, DoorOpenWhenTold

LEMMA TypeOfNext ==
  ASSUME max_speed' \in 0 .. 1023, goal' \in {0, P90Deg}, position' \in 0 .. P90Deg,
         lost' \in BOOLEAN, door' \in {"idle", "estimated", "opening", "open"},
         open_wait' \in 0 .. OpenWaitTime
  PROVE  DoorTypeOK'
BY DEF DoorTypeOK, MotorTypeOK, P90Deg, OpenWaitTime

LEMMA DoorInvInit == OpeningInit => DoorInv
<1> SUFFICES ASSUME OpeningInit
             PROVE  DoorInv
  OBVIOUS
<1>1. max_speed = 1 \/ max_speed = 65
  BY RegisterOfInit DEF OpeningInit, MotorInit, Initialized, DefaultSpeed
<1>2. max_speed \in 0 .. 1023
  BY <1>1, SMT
<1>3. lost \in BOOLEAN /\ goal \in {0, P90Deg} /\ door = "idle" /\ open_wait = 0 /\ position = 0
  BY DEF OpeningInit, MotorInit
<1>4. 0 \in 0 .. P90Deg /\ 0 \in 0 .. OpenWaitTime
  BY SMT DEF P90Deg, OpenWaitTime
<1> QED
  BY <1>2, <1>3, <1>4 DEF DoorTypeOK, MotorTypeOK, DoorInv, StageInv, DoorOpenWhenTold

-----------------------------------------------------------------------------
(* One more SAMPLE_INT: the door turns on, unless it is there.             *)
LEMMA TurnsOn ==
  ASSUME MotorTypeOK, open_wait \in Nat, Turns
  PROVE  /\ MotorTypeOK'
         /\ Moved => \/ position' = P90Deg
                     \/ position' >= (open_wait - 1) * (UnitSteps * max_speed)
<1>1. max_speed \in 0 .. 1023 /\ goal \in {0, P90Deg} /\ position \in 0 .. P90Deg /\ lost \in BOOLEAN
  BY DEF MotorTypeOK
<1>2. max_speed' = max_speed /\ goal' = goal /\ lost' = lost
  BY DEF Turns
<1> DEFINE next == position + UnitSteps * max_speed
<1>3. goal \in Int /\ next \in Int /\ next >= position /\ position \in Nat
  BY <1>1, SMT DEF P90Deg, UnitSteps
<1>4. position' = IF goal <= next THEN goal ELSE next
  <2>1. position' = Min({goal, next})
    BY DEF Turns
  <2> HIDE DEF next
  <2> QED
    BY <2>1, <1>3, MinOfTwo
<1> HIDE DEF next
<1>5. position' \in 0 .. P90Deg
  <2>1. CASE goal <= next
    BY <1>1, <1>3, <1>4, <2>1, SMT DEF P90Deg
  <2>2. CASE ~(goal <= next)
    BY <1>1, <1>3, <1>4, <2>2, SMT DEF P90Deg
  <2> QED
    BY <2>1, <2>2
<1>6. ASSUME Moved
      PROVE  \/ position' = P90Deg
             \/ position' >= (open_wait - 1) * (UnitSteps * max_speed)
  <2> DEFINE u == UnitSteps * max_speed
  <2>1. u \in Nat /\ next = position + u
    BY <1>1, SMT DEF next, UnitSteps
  <2>2. goal = P90Deg /\ (position = P90Deg \/ position >= (open_wait - 2) * u)
    BY <1>6 DEF Moved
  <2> HIDE DEF u
  <2>3. (open_wait - 2) * u + u = (open_wait - 1) * u
    BY <2>1, SMT
  <2>4. (open_wait - 2) * u \in Int /\ (open_wait - 1) * u \in Int
    BY <2>1, SMT
  <2>5. CASE goal <= next
    BY <1>4, <2>2, <2>5
  <2>6. CASE ~(goal <= next)
    <3>1. position # P90Deg
      BY <1>3, <2>2, <2>6, SMT DEF P90Deg
    <3>2. position >= (open_wait - 2) * u
      BY <2>2, <3>1
    <3>3. position + u >= (open_wait - 1) * u
      BY <1>3, <2>1, <2>3, <2>4, <3>2, SMT
    <3> QED
      BY <1>4, <2>1, <2>6, <3>3 DEF u
  <2> QED
    BY <2>5, <2>6
<1> QED
  BY <1>1, <1>2, <1>5, <1>6 DEF MotorTypeOK

(* When the delay is over, the door that has moved for so long is open, at *)
(* each speed but the slow one.                                            *)
LEMMA DelayIsLongEnough ==
  ASSUME NEW w \in Nat, w + 1 >= Delay, average \in Int, ~(average <= NormalSpeed),
         max_speed = Units(average)
  PROVE  (w - 1) * (UnitSteps * max_speed) >= P90Deg
<1>1. UltraSpeed \in Int /\ HighSpeed \in Int /\ NormalSpeed \in Int
  BY SpeedsAssumption, SMT
<1>2. CASE average > UltraSpeed
  <2>1. max_speed = 4 /\ w + 1 >= 50
    BY <1>2, SMT DEF Delay, Units, OpenWaitTime
  <2> QED
    BY <2>1, SMT DEF UnitSteps, P90Deg
<1>3. CASE ~(average > UltraSpeed) /\ average > HighSpeed
  <2>1. max_speed = 2 /\ w + 1 >= 100
    BY <1>3, SMT DEF Delay, Units, OpenWaitTime
  <2> QED
    BY <2>1, SMT DEF UnitSteps, P90Deg
<1>4. CASE ~(average > UltraSpeed) /\ ~(average > HighSpeed)
  <2>1. max_speed = 1 /\ w + 1 >= 200
    BY <1>1, <1>4, SMT DEF Delay, Units, OpenWaitTime
  <2> QED
    BY <2>1, SMT DEF UnitSteps, P90Deg
<1> QED
  BY <1>2, <1>3, <1>4

(* The step that counts on, or reports the door as open.                   *)
LEMMA OpenWaitStep ==
  ASSUME DoorInv, average \in Int, OpenWait
  PROVE  DoorInv'
<1>1. MotorTypeOK /\ open_wait \in 0 .. OpenWaitTime /\ door = "opening" /\ open_wait # 0
  BY DEF DoorInv, DoorTypeOK, OpenWait
<1>2. open_wait \in Nat /\ Turns
  BY <1>1, SMT DEF OpenWaitTime, OpenWait
<1>3. /\ average' = average /\ max_speed' = max_speed /\ goal' = goal /\ lost' = lost
      /\ active' = active
  BY DEF OpenWait, Turns, vars, resultVars
<1>4. ~active /\ (lost \/ max_speed = Units(average)) /\ (lost \/ Moved)
  BY <1>1 DEF DoorInv, StageInv
<1>5. MotorTypeOK'
  BY <1>1, <1>2, TurnsOn
<1>6. CASE open_wait + 1 >= Delay
  <2>1. door' = "open" /\ open_wait' = 0
    BY <1>6 DEF OpenWait
  <2>2. DoorTypeOK'
    BY <1>5, <2>1, SMT DEF DoorTypeOK, OpenWaitTime
  <2>3. StageInv'
    BY <1>3, <1>4, <2>1 DEF StageInv, Units
  <2>4. ASSUME ~lost, ~(average <= NormalSpeed)
        PROVE  position' = P90Deg
    <3> DEFINE moved == (open_wait - 1) * (UnitSteps * max_speed)
    <3>1. position' = P90Deg \/ position' >= moved
      BY <1>1, <1>2, <1>4, <2>4, TurnsOn
    <3>2. moved >= P90Deg
      BY <1>2, <1>4, <1>6, <2>4, DelayIsLongEnough
    <3>3. position' \in 0 .. P90Deg
      BY <1>5 DEF MotorTypeOK
    <3>4. moved \in Int
      BY <1>1, <1>2, SMT DEF MotorTypeOK, UnitSteps
    <3> HIDE DEF moved
    <3> QED
      BY <3>1, <3>2, <3>3, <3>4, SMT DEF P90Deg
  <2>5. DoorOpenWhenTold'
    BY <1>3, <2>4 DEF DoorOpenWhenTold
  <2> QED
    BY <2>1, <2>2, <2>3, <2>5 DEF DoorInv
<1>7. CASE ~(open_wait + 1 >= Delay)
  <2>1. door' = "opening" /\ open_wait' = open_wait + 1
    BY <1>1, <1>7 DEF OpenWait
  <2>2. Delay \in 0 .. OpenWaitTime
    BY SMT DEF Delay, OpenWaitTime
  <2>3. open_wait' \in 0 .. OpenWaitTime
    BY <1>2, <1>7, <2>1, <2>2, SMT DEF OpenWaitTime
  <2>4. DoorTypeOK'
    BY <1>5, <2>1, <2>3 DEF DoorTypeOK
  <2>5. StageInv'
    BY <1>3, <1>4, <2>1 DEF StageInv, Units
  <2>6. ASSUME Moved
        PROVE  Moved'
    <3>1. position' = P90Deg \/ position' >= (open_wait - 1) * (UnitSteps * max_speed)
      BY <1>1, <1>2, <2>6, TurnsOn
    <3>2. goal' = P90Deg /\ open_wait' >= 2 /\ open_wait' - 2 = open_wait - 1
      BY <1>2, <1>3, <2>1, <2>6, SMT DEF Moved
    <3> QED
      BY <1>3, <3>1, <3>2 DEF Moved, P90Deg, UnitSteps
  <2>7. DoorOpenWhenTold'
    BY <2>1 DEF DoorOpenWhenTold
  <2> QED
    BY <1>3, <1>4, <2>1, <2>4, <2>5, <2>6, <2>7 DEF DoorInv
<1> QED
  BY <1>6, <1>7

(* The step that starts the motor.                                         *)
LEMMA OpenStageStep ==
  ASSUME DoorInv, average \in Int, OpenStage
  PROVE  DoorInv'
<1>1. MotorTypeOK /\ door' = "opening" /\ door = "opening" /\ open_wait' = 2
  BY DEF DoorInv, DoorTypeOK, OpenStage
<1>2. /\ average' = average /\ active' = active
      /\ max_speed' = max_speed /\ position' = position
  BY DEF OpenStage, MotorOpen, vars, resultVars
<1>3. \/ goal' = P90Deg /\ lost' = lost
      \/ goal' = goal /\ lost' = TRUE
  BY DEF OpenStage, MotorOpen
<1>4. DoorTypeOK'
  <2>1. 2 \in 0 .. OpenWaitTime
    BY SMT DEF OpenWaitTime
  <2> QED
    BY <1>1, <1>2, <1>3, <2>1, TypeOfNext, Zenon DEF MotorTypeOK
<1>5. StageInv'
  <2>1. ~active /\ (lost \/ max_speed = Units(average))
    BY <1>1 DEF DoorInv, StageInv
  <2> QED
    BY <1>1, <1>2, <1>3, <2>1, Zenon DEF StageInv, Units
<1>6. lost' \/ Moved'
  <2>1. CASE goal' = P90Deg
    <3>1. position \in Nat /\ max_speed \in Nat
      BY <1>1, SMT DEF MotorTypeOK, P90Deg
    <3>2. (2 - 2) * (UnitSteps * max_speed) = 0
      BY <3>1, SMT DEF UnitSteps
    <3>3. position >= (2 - 2) * (UnitSteps * max_speed)
      BY <3>1, <3>2, SMT
    <3>4. 2 >= 2
      BY SMT
    <3> QED
      BY <1>1, <1>2, <2>1, <3>3, <3>4 DEF Moved, P90Deg, UnitSteps
  <2>2. CASE lost' = TRUE
    BY <2>2
  <2> QED
    BY <1>3, <2>1, <2>2
<1>7. DoorOpenWhenTold'
  BY <1>1 DEF DoorOpenWhenTold
<1> QED
  BY <1>4, <1>5, <1>6, <1>7 DEF DoorInv

(* The step that makes the estimate, and sets the speed by it.             *)
LEMMA SpeedStageStep ==
  ASSUME DoorInv, average' \in Int, SpeedStage
  PROVE  DoorInv'
<1>1. PICK r \in Readings : Reading(r)
  BY DEF SpeedStage
<1>2. active
  BY <1>1 DEF Reading, Accumulate, NoApproach, FirstSample, Approach, Window
<1>3. DoorTypeOK /\ door = "idle" /\ open_wait = 0 /\ open_wait' = 0
  BY <1>2 DEF DoorInv, StageInv, SpeedStage
<1>4. CASE passes' = passes
  <2>1. UNCHANGED <<door, motorVars, open_wait>>
    BY <1>4 DEF SpeedStage
  <2>2. DoorTypeOK' /\ door' = "idle"
    BY <1>3, <2>1 DEF motorVars, DoorTypeOK, MotorTypeOK, P90Deg, OpenWaitTime
  <2> QED
    BY <1>3, <2>2, IdleDoor
<1>5. CASE passes' # passes
  <2>1. door' = "estimated" /\ SetMaxSpeed(MotorSpeed(average'))
    BY <1>5 DEF SpeedStage
  <2>2. ~active'
    BY <1>1, <1>5 DEF Reading, Accumulate, NoApproach, FirstSample, Approach, CountSample
  <2>3. Register(MotorSpeed(average')) = Units(average')
    BY RegisterOfSpeed
  <2>4. Units(average') \in 0 .. 1023
    BY SMT DEF Units
  <2>5. /\ goal' = goal /\ position' = position
        /\ \/ max_speed' = Units(average') /\ lost' = lost
           \/ max_speed' = max_speed /\ lost' = TRUE
    BY <2>1, <2>3 DEF SetMaxSpeed
  <2>6. DoorTypeOK'
    <3>1. /\ max_speed \in 0 .. 1023 /\ goal \in {0, P90Deg} /\ position \in 0 .. P90Deg
          /\ lost \in BOOLEAN /\ open_wait \in 0 .. OpenWaitTime
      BY <1>3 DEF DoorTypeOK, MotorTypeOK
    <3>2. max_speed' \in 0 .. 1023
      BY <2>4, <2>5, <3>1
    <3>3. lost' \in BOOLEAN
      BY <2>5, <3>1, Zenon
    <3> QED
      BY <1>3, <2>1, <2>5, <3>1, <3>2, <3>3, TypeOfNext
  <2>7. StageInv'
    BY <1>3, <2>1, <2>2, <2>5, Zenon DEF StageInv, Units
  <2> QED
    BY <1>3, <2>1, <2>6, <2>7 DEF DoorInv, DoorOpenWhenTold
<1> QED
  BY <1>4, <1>5

LEMMA DoorInvStep ==
  ASSUME DoorInv, average \in Int, average' \in Int, [OpeningNext]_openVars
  PROVE  DoorInv'
<1>1. DoorTypeOK /\ MotorTypeOK /\ StageInv
  BY DEF DoorInv, DoorTypeOK
<1>2. CASE DetectSpeed
  <2>1. UNCHANGED <<motorVars, door, open_wait>> /\ door = "idle"
    BY <1>2 DEF DetectSpeed
  <2>2. DoorTypeOK' /\ door' = "idle" /\ open_wait' = 0
    BY <1>1, <2>1 DEF motorVars, DoorTypeOK, MotorTypeOK, P90Deg, OpenWaitTime, StageInv
  <2> QED
    BY <2>2, IdleDoor
<1>3. CASE AbandonPass
  <2>1. /\ max_speed' = max_speed /\ goal' = goal /\ position' = position
        /\ lost' = lost \/ lost' = FALSE
        /\ open_wait' = open_wait /\ door' = "idle" /\ open_wait = 0
    BY <1>1, <1>3 DEF AbandonPass, Abandon, motorVars, StageInv
  <2>2. DoorTypeOK'
    BY <1>1, <2>1, TypeOfNext, Zenon DEF DoorTypeOK, MotorTypeOK
  <2> QED
    BY <2>1, <2>2, IdleDoor
<1>4. CASE SpeedStage
  BY <1>4, SpeedStageStep
<1>5. CASE OpenDoor
  <2>1. /\ UNCHANGED <<max_speed, goal, position, lost, open_wait, average, active>>
        /\ door = "estimated" /\ door' = "opening"
    BY <1>5 DEF OpenDoor, vars, motorVars, resultVars
  <2>2. DoorTypeOK'
    BY <1>1, <2>1 DEF DoorTypeOK, MotorTypeOK, P90Deg, OpenWaitTime
  <2>3. StageInv' /\ open_wait' = 0
    BY <1>1, <2>1 DEF StageInv, Units
  <2> QED
    BY <2>1, <2>2, <2>3 DEF DoorInv, DoorOpenWhenTold
<1>6. CASE OpenStage
  BY <1>6, OpenStageStep
<1>7. CASE OpenWait
  BY <1>7, OpenWaitStep
<1>8. CASE CloseStage \/ ProgramRestarts
  <2>1. /\ max_speed' = max_speed \/ max_speed' = 1
        /\ goal' = 0 /\ position' = 0 /\ lost' = FALSE
        /\ door' = "idle" /\ open_wait' = 0
    BY <1>1, <1>8, RegisterOfInit
       DEF CloseStage, MotorClose, ProgramRestarts, Initialized, StageInv
  <2>2. 1 \in 0 .. 1023 /\ 0 \in 0 .. P90Deg /\ 0 \in 0 .. OpenWaitTime
    BY SMT DEF P90Deg, OpenWaitTime
  <2>3. DoorTypeOK'
    <3>1. max_speed' \in 0 .. 1023
      BY <1>1, <2>1, <2>2 DEF MotorTypeOK
    <3>2. goal' \in {0, P90Deg} /\ lost' \in BOOLEAN
      BY <2>1, Zenon
    <3> QED
      BY <2>1, <2>2, <3>1, <3>2, TypeOfNext
  <2> QED
    BY <2>1, <2>3, IdleDoor
<1>9. CASE UNCHANGED openVars
  <2>1. UNCHANGED <<max_speed, goal, position, lost, door, open_wait, average, active>>
    BY <1>9 DEF openVars, vars, motorVars, resultVars
  <2> QED
    BY <2>1 DEF DoorInv, DoorTypeOK, MotorTypeOK, StageInv, DoorOpenWhenTold, Moved, Units,
       P90Deg, OpenWaitTime, UnitSteps
<1> QED
  BY <1>2, <1>3, <1>4, <1>5, <1>6, <1>7, <1>8, <1>9 DEF OpeningNext

LEMMA DoorInvariance == OpeningSpec => []DoorInv
<1>1. DoorInv /\ TypeOK /\ TypeOK' /\ [OpeningNext]_openVars => DoorInv'
  BY DoorInvStep DEF TypeOK
<1> QED
  BY <1>1, DoorInvInit, OpeningImplementsSpeedCalc, SpeedTypeCorrect, PTL DEF OpeningSpec

-----------------------------------------------------------------------------
(* The estimate keeps its variables in range in the whole opening too, the *)
(* register keeps to its ten bits, and the door to its quarter turn.       *)
THEOREM OpeningTypeCorrect == OpeningSpec => []OpeningTypeOK
<1>1. TypeOK /\ DoorInv => OpeningTypeOK
  BY Zenon DEF DoorInv, OpeningTypeOK
<1> QED
  BY <1>1, DoorInvariance, OpeningImplementsSpeedCalc, SpeedTypeCorrect, PTL

(* Ranging tells main that the door is open only when it is, at each speed *)
(* but the slow one, and unless a write to the motor was lost.             *)
THEOREM DoorIsOpenWhenTold == OpeningSpec => []DoorOpenWhenTold
<1>1. DoorInv => DoorOpenWhenTold
  BY DEF DoorInv
<1> QED
  BY <1>1, DoorInvariance, PTL

=============================================================================
