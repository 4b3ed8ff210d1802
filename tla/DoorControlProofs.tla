-------------------------- MODULE DoorControlProofs --------------------------
(***************************************************************************)
(* Theorems about DoorControl, for every queue capacity, every set of      *)
(* readings and averages, and every choice of the timing assumptions       *)
(* unless the theorem names one.                                           *)
(***************************************************************************)
EXTENDS DoorControl, TLAPS

(***************************************************************************)
(* Type correctness.                                                       *)
(***************************************************************************)

(* What the ranging thread is doing fits the stage it is in, and only a    *)
(* stage that is reporting has exceeded MaxDetect.                         *)
RangingSteps ==
  /\ step = "send" => stage \in Commanded \cup {"picture"}
  /\ step \in {"check", "reset"} => stage \in Commanded
  /\ step \in {"clear", "clear2"} => stage \in {"close", "picture"}
  /\ detect_count > MaxDetect => stage = "exited" \/ (stage = "detect" /\ step # "decide")

TypeInv == TypeOK /\ RangingSteps

(* A message that is sent to a queue with room leaves a queue of messages. *)
LEMMA SendType ==
  ASSUME SharedTypeOK, NEW m \in Message, Send(m)
  PROVE  sas_msg' \in Seq(Message) /\ Len(sas_msg') <= MaxMsgs
BY MaxMsgsAssumption DEF SharedTypeOK, Send

(* Receiving never leaves main without a status it knows.                  *)
LEMMA NextStatusType ==
  ASSUME NEW s \in AdStatus, NEW m \in Message
  PROVE  NextStatus(s, m) \in AdStatus
BY DEF NextStatus, AdStatus

LEMMA MainType ==
  ASSUME SharedTypeOK, MainTypeOK, MainNext
  PROVE  SharedTypeOK' /\ MainTypeOK'
<1> USE DEF SharedTypeOK, MainTypeOK, MainAt, sharedVars
<1>1. CASE StartDetectDistance
  BY <1>1 DEF StartDetectDistance, RangeState
<1>2. CASE MotorInitializeFails
  BY <1>2 DEF MotorInitializeFails
<1>3. CASE DetectSpeed
  BY <1>3 DEF DetectSpeed, RangeState
<1>4. CASE StartHumanDetect
  BY <1>4, MaxMsgsAssumption DEF StartHumanDetect
<1>5. CASE EnterWaitDetect
  BY <1>5 DEF EnterWaitDetect
<1>6. CASE PreparePictureTest
  BY <1>6 DEF PreparePictureTest, AfterPrepare
<1>7. CASE PreparePictureSet
  BY <1>7 DEF PreparePictureSet, AfterPrepare
<1>8. CASE OpenDoor
  BY <1>8 DEF OpenDoor, RangeState
<1>9. CASE CloseDoor
  BY <1>9 DEF CloseDoor, RangeState
<1>10. CASE Receive
  <2>1. Head(sas_msg) \in Message
    BY <1>10 DEF Receive
  <2>2. status' \in AdStatus
    BY <1>10, <2>1, NextStatusType DEF Receive
  <2>3. sas_msg' \in Seq(Message) /\ Len(sas_msg') <= MaxMsgs
    BY <1>10, MaxMsgsAssumption DEF Receive
  <2>4. taking_picture' \in BOOLEAN /\ mpc' \in {"take", "enter"}
    BY <1>10 DEF Receive, PictureDue
  <2> QED
    BY <1>10, <2>2, <2>3, <2>4 DEF Receive
<1>11. CASE TakePicture
  BY <1>11 DEF TakePicture
<1> QED
  BY <1>1, <1>2, <1>3, <1>4, <1>5, <1>6, <1>7, <1>8, <1>9, <1>10, <1>11 DEF MainNext

LEMMA DetectorType ==
  ASSUME SharedTypeOK, DetectorTypeOK, DetectorNext
  PROVE  SharedTypeOK' /\ DetectorTypeOK'
<1>1. CASE TakeRequest
  BY <1>1, MaxMsgsAssumption DEF TakeRequest, SharedTypeOK, DetectorTypeOK
<1>2. CASE AcceptRequest
  BY <1>2 DEF AcceptRequest, SharedTypeOK, DetectorTypeOK, sharedVars
<1>3. CASE DropRequest
  BY <1>3 DEF DropRequest, SharedTypeOK, DetectorTypeOK, sharedVars
<1>4. CASE Answer
  <2>1. PICK m \in Answers : Send(m)
    BY <1>4 DEF Answer
  <2>2. m \in Message
    BY DEF Answers, Message, Flags
  <2>3. sas_msg' \in Seq(Message) /\ Len(sas_msg') <= MaxMsgs
    BY <2>1, <2>2, SendType
  <2> QED
    BY <1>4, <2>3 DEF Answer, SharedTypeOK, DetectorTypeOK
<1>5. CASE Finish
  BY <1>5 DEF Finish, SharedTypeOK, DetectorTypeOK, sharedVars
<1> QED
  BY <1>1, <1>2, <1>3, <1>4, <1>5 DEF DetectorNext

(* A step that only moves the ranging thread to another decision.          *)
LEMMA MoveType ==
  ASSUME SharedTypeOK, RangingTypeOK, RangingSteps,
         stage # "exited", step = "decide", step' = "decide", stage' \in Stages,
         UNCHANGED <<sharedVars, reading, rbuf, detect_count, calcVars, open_wait>>
  PROVE  SharedTypeOK' /\ RangingTypeOK' /\ RangingSteps'
<1>1. SharedTypeOK'
  BY SMT DEF SharedTypeOK, sharedVars
<1>2. RangingTypeOK'
  <2>1. UNCHANGED <<reading, rbuf, detect_count, average, open_timing, open_wait>>
    BY SMT DEF calcVars
  <2>2. step' \in Steps
    BY SMT DEF Steps
  <2> QED
    BY <2>1, <2>2, SMT DEF RangingTypeOK
<1>3. ~(detect_count' > MaxDetect)
  BY SMT DEF RangingSteps
<1>4. RangingSteps'
  BY <1>3, SMT DEF RangingSteps
<1> QED
  BY <1>1, <1>2, <1>4

(* The local clean-up after a report keeps the ranging thread in step.     *)
LEMMA EndStageType ==
  ASSUME SharedTypeOK, RangingTypeOK, RangingSteps,
         stage \in Commanded, step # "decide", range_status' \in RangeState, EndStage
  PROVE  SharedTypeOK' /\ RangingTypeOK' /\ RangingSteps'
<1>1. stage' \in {"close", "speed", "open"} /\ step' \in {"clear", "decide"}
      /\ (step' = "clear" => stage' = "close")
  BY SMT DEF EndStage, Goto, StageAfter, Commanded
<1>2. detect_count' \in 0 .. MaxDetect + 1 /\ ~(detect_count' > MaxDetect)
  <2>1. detect_count' = IF stage = "detect" THEN 0 ELSE detect_count
    BY DEF EndStage
  <2>2. detect_count \in 0 .. MaxDetect + 1
    BY DEF RangingTypeOK
  <2>3. detect_count > MaxDetect => stage = "detect"
    BY SMT DEF RangingSteps, Commanded
  <2> QED
    BY <2>1, <2>2, <2>3, MaxDetectAssumption, SMT
<1>3. rbuf' \in Message
  <2>1. rbuf' = rbuf \ {Report[stage]} /\ rbuf \in Message
    BY DEF EndStage, RangingTypeOK
  <2> QED
    BY <2>1, Zenon DEF Message
<1>4. open_wait' \in Nat
  BY SMT DEF EndStage, RangingTypeOK
<1>5. UNCHANGED <<sas_msg, fpgamsg, picture, has_taken, initial_flag, door,
                  reading, average, open_timing>>
  BY SMT DEF EndStage, calcVars
<1>6. SharedTypeOK'
  BY <1>5, SMT DEF SharedTypeOK
<1>7. RangingTypeOK'
  <2>1. stage' \in Stages /\ step' \in Steps
    BY <1>1, SMT DEF Stages, Steps
  <2> QED
    BY <1>2, <1>3, <1>4, <1>5, <2>1, SMT DEF RangingTypeOK
<1>8. RangingSteps'
  BY <1>1, <1>2, SMT DEF RangingSteps
<1> QED
  BY <1>6, <1>7, <1>8

(* A stage that goes on to report with a flag raised in buf.               *)
LEMMA RaiseType ==
  ASSUME rbuf \in Message, NEW f \in Flags
  PROVE  rbuf \cup {f} \in Message
BY Zenon DEF Message

LEMMA RangingType ==
  ASSUME SharedTypeOK, RangingTypeOK, RangingSteps, RangingNext
  PROVE  SharedTypeOK' /\ RangingTypeOK' /\ RangingSteps'
<1>1. CASE SetUp
  BY <1>1, MoveType, SMT DEF SetUp, At, Goto, Stages
<1>2. CASE SetUpFails
  BY <1>2, MoveType, SMT DEF SetUpFails, At, Goto, Stages
<1>3. CASE Sample
  <2>1. reading' \in Distance
    BY <1>3, ReadingsAssumption, SMT DEF Sample
  <2>2. SharedTypeOK'
    BY <1>3, SMT DEF Sample, SharedTypeOK, sharedVars
  <2>3. RangingTypeOK'
    BY <1>3, <2>1, SMT DEF Sample, Goto, RangingTypeOK, Stages, Steps, calcVars
  <2> QED
    BY <1>3, <2>2, <2>3, SMT DEF Sample, At, Goto, RangingSteps
<1>4. CASE DetectStage
  <2>1. rbuf' \in Message
    <3>1. rbuf' = rbuf \/ rbuf' = rbuf \cup {"detect_result"}
      BY <1>4, SMT DEF DetectStage
    <3>2. rbuf \in Message /\ "detect_result" \in Flags
      BY SMT DEF RangingTypeOK, Flags
    <3> QED
      BY <3>1, <3>2, RaiseType, Zenon
  <2>2. stage' \in {"detect", "speed"} /\ step' \in {"send", "decide"}
        /\ (step' = "send" => stage' = "detect")
    BY <1>4, SMT DEF DetectStage, Goto
  <2>3. ~(detect_count > MaxDetect)
    BY <1>4, SMT DEF DetectStage, At, RangingSteps
  <2>4. detect_count' \in 0 .. MaxDetect + 1
        /\ (detect_count' > MaxDetect => stage' = "detect" /\ step' = "send")
    BY <1>4, <2>3, MaxDetectAssumption, SMT DEF DetectStage, Goto, RangingTypeOK
  <2>5. SharedTypeOK'
    BY <1>4, SMT DEF DetectStage, SharedTypeOK, sharedVars
  <2>6. RangingTypeOK'
    BY <1>4, <2>1, <2>2, <2>4, SMT DEF DetectStage, RangingTypeOK, Stages, Steps, calcVars
  <2> QED
    BY <2>2, <2>4, <2>5, <2>6, SMT DEF RangingSteps, Commanded
<1>5. CASE SpeedStageContinues
  BY <1>5, MoveType, SMT DEF SpeedStageContinues, At, Goto, Stages
<1>6. CASE SpeedStageDone
  <2>1. rbuf' \in Message
    <3>1. rbuf' = rbuf \/ rbuf' = rbuf \cup {"calculate_result"}
      BY <1>6, SMT DEF SpeedStageDone
    <3>2. rbuf \in Message /\ "calculate_result" \in Flags
      BY SMT DEF RangingTypeOK, Flags
    <3> QED
      BY <3>1, <3>2, RaiseType, Zenon
  <2>2. average' \in Nat /\ open_timing' \in Nat
    <3>1. PICK a \in Nat : average' = a
      BY <1>6, AveragesAssumption, SMT DEF SpeedStageDone
    <3>2. open_timing' = 250 \/ open_timing' = 10 * a
      BY <1>6, <3>1, SMT DEF SpeedStageDone, GateDistance
    <3> QED
      BY <3>1, <3>2, SMT
  <2>3. SharedTypeOK'
    BY <1>6, SMT DEF SpeedStageDone, SharedTypeOK, sharedVars
  <2>4. RangingTypeOK'
    <3>1. stage' \in Stages /\ step' \in Steps
      BY <1>6, SMT DEF SpeedStageDone, Goto, Stages, Steps
    <3>2. UNCHANGED <<reading, detect_count, open_wait>>
      BY <1>6, SMT DEF SpeedStageDone
    <3> QED
      BY <2>1, <2>2, <3>1, <3>2, SMT DEF RangingTypeOK
  <2>5. ~(detect_count' > MaxDetect)
    BY <1>6, SMT DEF SpeedStageDone, At, RangingSteps
  <2> QED
    BY <1>6, <2>3, <2>4, <2>5, SMT DEF SpeedStageDone, Goto, RangingSteps, Commanded
<1>7. CASE OpenStage
  <2>1. rbuf' \in Message
    <3>1. rbuf' = rbuf \/ rbuf' = rbuf \cup {"open_result"}
      BY <1>7, SMT DEF OpenStage
    <3>2. rbuf \in Message /\ "open_result" \in Flags
      BY SMT DEF RangingTypeOK, Flags
    <3> QED
      BY <3>1, <3>2, RaiseType, Zenon
  <2>2. stage' \in {"open", "close"} /\ step' \in {"send", "decide"}
        /\ (step' = "send" => stage' = "open")
    BY <1>7, SMT DEF OpenStage, Goto
  <2>3. open_wait' \in Nat
    BY <1>7, SMT DEF OpenStage, RangingTypeOK
  <2>4. door' \in {"open", "closed"}
    BY <1>7, SMT DEF OpenStage, SharedTypeOK
  <2>5. SharedTypeOK'
    BY <1>7, <2>4, SMT DEF OpenStage, SharedTypeOK
  <2>6. RangingTypeOK'
    BY <1>7, <2>1, <2>2, <2>3, SMT DEF OpenStage, RangingTypeOK, Stages, Steps, calcVars
  <2>7. ~(detect_count' > MaxDetect)
    BY <1>7, SMT DEF OpenStage, At, RangingSteps
  <2> QED
    BY <2>2, <2>5, <2>6, <2>7, SMT DEF RangingSteps, Commanded
<1>8. CASE OpenStageIdle
  BY <1>8, MoveType, SMT DEF OpenStageIdle, At, Goto, Stages
<1>9. CASE CloseStage
  <2>1. rbuf' \in Message
    <3>1. rbuf' = rbuf \/ rbuf' = rbuf \cup {"close_result"}
      BY <1>9, SMT DEF CloseStage
    <3>2. rbuf \in Message /\ "close_result" \in Flags
      BY SMT DEF RangingTypeOK, Flags
    <3> QED
      BY <3>1, <3>2, RaiseType, Zenon
  <2>2. SharedTypeOK'
    BY <1>9, SMT DEF CloseStage, SharedTypeOK
  <2>3. RangingTypeOK'
    BY <1>9, <2>1, SMT DEF CloseStage, Goto, RangingTypeOK, Stages, Steps, calcVars
  <2>4. ~(detect_count' > MaxDetect)
    BY <1>9, SMT DEF CloseStage, At, RangingSteps
  <2> QED
    BY <1>9, <2>2, <2>3, <2>4, SMT DEF CloseStage, Goto, RangingSteps, Commanded
<1>10. CASE CloseStageIdle
  BY <1>10, MoveType, SMT DEF CloseStageIdle, At, Goto, Stages
<1>11. CASE PictureStage
  <2>1. rbuf' \in Message
    <3>1. rbuf' = rbuf \/ rbuf' = rbuf \cup {"taking_now"}
      BY <1>11, SMT DEF PictureStage
    <3>2. rbuf \in Message /\ "taking_now" \in Flags
      BY SMT DEF RangingTypeOK, Flags
    <3> QED
      BY <3>1, <3>2, RaiseType, Zenon
  <2>2. stage' \in {"picture", "sample"} /\ step' \in {"send", "decide"}
        /\ (step' = "send" => stage' = "picture")
    BY <1>11, SMT DEF PictureStage, Goto
  <2>3. SharedTypeOK'
    BY <1>11, SMT DEF PictureStage, SharedTypeOK, sharedVars
  <2>4. RangingTypeOK'
    BY <1>11, <2>1, <2>2, SMT DEF PictureStage, RangingTypeOK, Stages, Steps, calcVars
  <2>5. ~(detect_count' > MaxDetect)
    BY <1>11, SMT DEF PictureStage, At, RangingSteps
  <2> QED
    BY <2>2, <2>3, <2>4, <2>5, SMT DEF RangingSteps, Commanded
<1>12. CASE SendReport
  <2>1. sas_msg' \in Seq(Message) /\ Len(sas_msg') <= MaxMsgs
    BY <1>12, SendType, SMT DEF SendReport, RangingTypeOK
  <2>2. SharedTypeOK'
    BY <1>12, <2>1, SMT DEF SendReport, SharedTypeOK
  <2>3. stage' = stage /\ step' \in {"clear", "check"}
        /\ (step' = "clear" <=> stage = "picture")
    BY <1>12, SMT DEF SendReport, Goto
  <2>4. RangingTypeOK'
    BY <1>12, <2>3, SMT DEF SendReport, RangingTypeOK, Stages, Steps, calcVars
  <2>5. detect_count' = detect_count
    BY <1>12, SMT DEF SendReport
  <2> QED
    BY <1>12, <2>2, <2>3, <2>4, <2>5, SMT DEF SendReport, RangingSteps
<1>13. CASE SendReportFails
  <2>1. SharedTypeOK'
    BY <1>13, SMT DEF SendReportFails, SharedTypeOK, sharedVars
  <2>2. RangingTypeOK'
    BY <1>13, SMT DEF SendReportFails, Goto, RangingTypeOK, Stages, Steps, calcVars
  <2> QED
    BY <1>13, <2>1, <2>2, SMT DEF SendReportFails, Goto, RangingSteps
<1>14. CASE CheckChanged
  <2>1. stage \in Commanded /\ range_status' \in RangeState
    BY <1>14, SMT DEF CheckChanged, RangingSteps, SharedTypeOK
  <2> QED
    BY <1>14, <2>1, EndStageType, SMT DEF CheckChanged
<1>15. CASE CheckSame
  <2>1. SharedTypeOK'
    BY <1>15, SMT DEF CheckSame, SharedTypeOK, sharedVars
  <2>2. RangingTypeOK'
    BY <1>15, SMT DEF CheckSame, Goto, RangingTypeOK, Stages, Steps, calcVars
  <2> QED
    BY <1>15, <2>1, <2>2, SMT DEF CheckSame, Goto, RangingSteps
<1>16. CASE Reset
  <2>1. stage \in Commanded /\ range_status' \in RangeState
    BY <1>16, SMT DEF Reset, RangingSteps, RangeState
  <2> QED
    BY <1>16, <2>1, EndStageType, SMT DEF Reset
<1>17. CASE CheckAndReset
  <2>1. stage \in Commanded /\ range_status' \in RangeState
    BY <1>17, SMT DEF CheckAndReset, RangingSteps, RangeState
  <2> QED
    BY <1>17, <2>1, EndStageType, SMT DEF CheckAndReset
<1>18. CASE CloseClearTaken
  <2>1. SharedTypeOK'
    BY <1>18, Zenon DEF CloseClearTaken, SharedTypeOK
  <2>2. RangingTypeOK'
    BY <1>18, SMT DEF CloseClearTaken, Goto, RangingTypeOK, Stages, Steps, calcVars
  <2> QED
    BY <1>18, <2>1, <2>2, SMT DEF CloseClearTaken, At, Goto, RangingSteps
<1>19. CASE CloseClearPicture
  <2>1. SharedTypeOK'
    BY <1>19, Zenon DEF CloseClearPicture, SharedTypeOK
  <2>2. RangingTypeOK'
    BY <1>19, SMT DEF CloseClearPicture, Goto, RangingTypeOK, Stages, Steps, calcVars
  <2> QED
    BY <1>19, <2>1, <2>2, SMT DEF CloseClearPicture, At, Goto, RangingSteps
<1>20. CASE PictureOff
  <2>1. SharedTypeOK'
    BY <1>20, Zenon DEF PictureOff, SharedTypeOK
  <2>2. RangingTypeOK'
    BY <1>20, SMT DEF PictureOff, Goto, RangingTypeOK, Stages, Steps, calcVars
  <2> QED
    BY <1>20, <2>1, <2>2, SMT DEF PictureOff, At, Goto, RangingSteps
<1>21. CASE PictureTaken
  <2>1. rbuf' \in Message
    <3>1. rbuf' = rbuf \ {"taking_now"} /\ rbuf \in Message
      BY <1>21, SMT DEF PictureTaken, RangingTypeOK
    <3> QED
      BY <3>1, Zenon DEF Message
  <2>2. SharedTypeOK'
    BY <1>21, SMT DEF PictureTaken, SharedTypeOK
  <2>3. RangingTypeOK'
    BY <1>21, <2>1, SMT DEF PictureTaken, Goto, RangingTypeOK, Stages, Steps, calcVars
  <2> QED
    BY <1>21, <2>2, <2>3, SMT DEF PictureTaken, At, Goto, RangingSteps
<1> QED
  BY <1>1, <1>2, <1>3, <1>4, <1>5, <1>6, <1>7, <1>8, <1>9, <1>10, <1>11, <1>12,
     <1>13, <1>14, <1>15, <1>16, <1>17, <1>18, <1>19, <1>20, <1>21, Zenon DEF RangingNext

(* No step of one thread touches what belongs to another.                  *)
LEMMA TypeInvStep ==
  ASSUME TypeInv, [Next]_vars
  PROVE  TypeInv'
<1> USE DEF TypeInv, TypeOK
<1>1. CASE Main
  <2>1. SharedTypeOK' /\ MainTypeOK'
    BY <1>1, MainType DEF Main
  <2>2. RangingTypeOK' /\ RangingSteps'
    BY <1>1 DEF Main, rangingVars, RangingTypeOK, RangingSteps
  <2>3. DetectorTypeOK'
    BY <1>1 DEF Main, detectorVars, DetectorTypeOK
  <2> QED BY <2>1, <2>2, <2>3
<1>2. CASE RangingThread
  <2>1. SharedTypeOK' /\ RangingTypeOK' /\ RangingSteps'
    BY <1>2, RangingType DEF RangingThread
  <2>2. MainTypeOK'
    BY <1>2 DEF RangingThread, mainVars, MainTypeOK
  <2>3. DetectorTypeOK'
    BY <1>2 DEF RangingThread, detectorVars, DetectorTypeOK
  <2> QED BY <2>1, <2>2, <2>3
<1>3. CASE DetectorThreads
  <2>1. SharedTypeOK' /\ DetectorTypeOK'
    BY <1>3, DetectorType DEF DetectorThreads
  <2>2. MainTypeOK'
    BY <1>3 DEF DetectorThreads, mainVars, MainTypeOK
  <2>3. RangingTypeOK' /\ RangingSteps'
    BY <1>3 DEF DetectorThreads, rangingVars, RangingTypeOK, RangingSteps
  <2> QED BY <2>1, <2>2, <2>3
<1>4. CASE UNCHANGED vars
  BY <1>4 DEF vars, sharedVars, mainVars, rangingVars, detectorVars,
     SharedTypeOK, MainTypeOK, RangingTypeOK, RangingSteps, DetectorTypeOK
<1> QED
  BY <1>1, <1>2, <1>3, <1>4 DEF Next

LEMMA TypeInvInit ==
  ASSUME Init
  PROVE  TypeInv
<1>1. SharedTypeOK
  <2>1. sas_msg \in Seq(Message) /\ Len(sas_msg) <= MaxMsgs
    BY MaxMsgsAssumption, SMT DEF Init, SharedInit
  <2>2. fpgamsg \in 0 .. MaxMsgs
    BY MaxMsgsAssumption, SMT DEF Init, SharedInit
  <2>3. range_status \in RangeState
    BY SMT DEF Init, SharedInit, RangeState
  <2> QED
    BY <2>1, <2>2, <2>3, Zenon DEF Init, SharedInit, SharedTypeOK
<1>2. MainTypeOK
  BY Zenon DEF Init, MainInit, MainTypeOK, AdStatus
<1>3. RangingTypeOK
  <2>1. rbuf \in Message
    BY StackResidueAssumption, SMT DEF Init, RangingInit
  <2>2. reading \in Distance /\ stage \in Stages /\ step \in Steps
    BY SMT DEF Init, RangingInit, Distance, Stages, Steps
  <2>3. detect_count \in 0 .. MaxDetect + 1
    BY MaxDetectAssumption, SMT DEF Init, RangingInit
  <2>4. average \in Nat /\ open_timing \in Nat /\ open_wait \in Nat
    BY SMT DEF Init, RangingInit
  <2> QED
    BY <2>1, <2>2, <2>3, <2>4, SMT DEF RangingTypeOK
<1>5. RangingSteps
  BY MaxDetectAssumption, SMT DEF Init, RangingInit, RangingSteps
<1>4. DetectorTypeOK
  BY DEF Init, DetectorInit, DetectorTypeOK
<1> QED
  BY <1>1, <1>2, <1>3, <1>4, <1>5 DEF TypeInv, TypeOK

LEMMA TypeInvariance == Spec => []TypeInv
<1>1. Init => TypeInv
  BY TypeInvInit
<1>2. TypeInv /\ [Next]_vars => TypeInv'
  BY TypeInvStep
<1> QED
  BY <1>1, <1>2, PTL DEF Spec

(* Whatever the interleaving of the threads, every variable keeps to its   *)
(* range and sas_msg to its capacity.                                      *)
THEOREM TypeCorrect == Spec => []TypeOK
<1>1. TypeInv => TypeOK
  BY DEF TypeInv
<1> QED
  BY <1>1, TypeInvariance, PTL

-----------------------------------------------------------------------------
(***************************************************************************)
(* A pass that waits for the human detection waits for something.          *)
(***************************************************************************)

(* Which status an entry function belongs to.                              *)
MainSteps ==
  /\ mpc = "request" => status = "start_process"
  /\ mpc = "prepare" => status \in {"wait_calculate", "approval_open"}
  /\ mpc = "open" => status = "approval_open"

AnswerInv == SharedTypeOK /\ MainSteps /\ AnswerPending

(* Main goes to wait for the answer, or goes on waiting for it, only over  *)
(* a message that is no answer.                                            *)
LEMMA WaitingTakesNoAnswer ==
  ASSUME NEW s, NEW m, NextStatus(s, m) = "wait_detect"
  PROVE  /\ s \in {"start_process", "wait_detect"}
         /\ "recognize_result" \notin m
         /\ "disappear_object" \notin m
BY SMT DEF NextStatus

(* Sending a message takes nothing off the queue.                          *)
LEMMA SendKeepsQueued ==
  ASSUME SharedTypeOK, NEW m \in Message, Send(m), NEW f, Queued(f)
  PROVE  Queued(f)'
<1>1. PICK i \in DOMAIN sas_msg : f \in sas_msg[i]
  BY DEF Queued
<1>2. i \in DOMAIN sas_msg' /\ sas_msg'[i] = sas_msg[i]
  BY SMT DEF Send, SharedTypeOK
<1> QED
  BY <1>1, <1>2 DEF Queued

(* ... and puts its flags on it.                                           *)
LEMMA SendQueues ==
  ASSUME SharedTypeOK, NEW m \in Message, Send(m), NEW f \in m
  PROVE  Queued(f)'
<1>1. Len(sas_msg) + 1 \in DOMAIN sas_msg' /\ sas_msg'[Len(sas_msg) + 1] = m
  BY SMT DEF Send, SharedTypeOK
<1> QED
  BY <1>1 DEF Queued

(* Taking a message without flag f leaves f on the queue.                  *)
LEMMA ReceiveKeepsQueued ==
  ASSUME SharedTypeOK, sas_msg # << >>, sas_msg' = Tail(sas_msg),
         NEW f, Queued(f), f \notin Head(sas_msg)
  PROVE  Queued(f)'
<1>1. PICK i \in DOMAIN sas_msg : f \in sas_msg[i]
  BY DEF Queued
<1>2. i # 1 /\ i \in 1 .. Len(sas_msg)
  BY <1>1, SMT DEF SharedTypeOK
<1>3. i - 1 \in DOMAIN sas_msg' /\ sas_msg'[i - 1] = sas_msg[i]
  BY <1>2, SMT DEF SharedTypeOK
<1> QED
  BY <1>1, <1>3 DEF Queued

LEMMA AnswerPendingMain ==
  ASSUME AnswerInv, MainNext, UNCHANGED detectorVars
  PROVE  MainSteps' /\ AnswerPending'
<1>1. CASE Receive
  <2>1. mpc = "receive" /\ mpc' \in {"take", "enter"}
    BY <1>1, SMT DEF Receive, MainAt
  <2>2. MainSteps'
    BY <2>1, SMT DEF MainSteps
  <2>3. SUFFICES ASSUME status' = "wait_detect" PROVE (DetectionUnderWay \/ AnswerQueued)'
    BY <2>1, <2>2, SMT DEF AnswerPending
  <2>4. NextStatus(status, Head(sas_msg)) = "wait_detect"
    BY <1>1, <2>3, SMT DEF Receive
  <2>5. /\ status \in {"start_process", "wait_detect"}
        /\ "recognize_result" \notin Head(sas_msg)
        /\ "disappear_object" \notin Head(sas_msg)
    BY <2>4, WaitingTakesNoAnswer
  <2>6. DetectionUnderWay \/ AnswerQueued
    BY <2>1, <2>5, SMT DEF AnswerInv, AnswerPending
  <2>7. CASE DetectionUnderWay
    <3>1. fpgamsg' = fpgamsg
      BY <1>1, SMT DEF Receive
    <3> QED
      BY <2>7, <3>1, SMT DEF DetectionUnderWay, detectorVars
  <2>8. CASE AnswerQueued
    <3>1. sas_msg # << >> /\ sas_msg' = Tail(sas_msg)
      BY <1>1, SMT DEF Receive
    <3>2. SharedTypeOK
      BY DEF AnswerInv
    <3> QED
      BY <2>5, <2>8, <3>1, <3>2, ReceiveKeepsQueued, Zenon DEF AnswerQueued
  <2> QED
    BY <2>6, <2>7, <2>8
<1>2. CASE StartHumanDetect
  <2>1. mpc' = "receive" /\ fpgamsg' > 0
    BY <1>2, MaxMsgsAssumption, SMT DEF StartHumanDetect, MainAt, AnswerInv, SharedTypeOK
  <2> QED
    BY <2>1, SMT DEF MainSteps, AnswerPending, DetectionUnderWay
<1>3. CASE ~(Receive \/ StartHumanDetect)
  <2>1. /\ MainSteps'
        /\ UNCHANGED <<status, sas_msg, fpgamsg>>
        /\ mpc' = "receive" => status # "start_process"
    BY <1>3, SMT DEF MainNext, AnswerInv, MainSteps, MainAt, AfterPrepare, sharedVars,
       StartDetectDistance, MotorInitializeFails, DetectSpeed, EnterWaitDetect,
       PreparePictureTest, PreparePictureSet, OpenDoor, CloseDoor, TakePicture
  <2> QED
    BY <2>1, SMT DEF AnswerInv, AnswerPending, DetectionUnderWay, AnswerQueued, Queued,
       detectorVars
<1> QED
  BY <1>1, <1>2, <1>3

(* The ranging thread adds messages to sas_msg and touches nothing else    *)
(* that the human detection or the waiting main thread depend on.          *)
LEMMA RangingOnlySends ==
  ASSUME RangingNext, rbuf \in Message
  PROVE  /\ fpgamsg' = fpgamsg
         /\ sas_msg' = sas_msg \/ \E m \in Message : Send(m)
BY SMT DEF RangingNext, sharedVars, SetUp, SetUpFails, Sample, DetectStage,
   SpeedStageContinues, SpeedStageDone, OpenStage, OpenStageIdle, CloseStage,
   CloseStageIdle, PictureStage, SendReport, SendReportFails, CheckChanged,
   CheckSame, Reset, CheckAndReset, EndStage, CloseClearTaken, CloseClearPicture,
   PictureOff, PictureTaken

LEMMA AnswerPendingDetector ==
  ASSUME AnswerInv, DetectorThreads, "prompt" \in Timing
  PROVE  AnswerPending'
<1>1. UNCHANGED <<status, mpc>>
  BY SMT DEF DetectorThreads, mainVars
<1>2. CASE TakeRequest
  BY <1>1, <1>2, SMT DEF TakeRequest, AnswerPending, DetectionUnderWay
<1>3. CASE AcceptRequest \/ DropRequest
  <2>1. apc = "work"
    BY <1>3, SMT DEF DetectorThreads, FrameInTime, AcceptRequest, DropRequest
  <2> QED
    BY <1>3, <2>1, SMT DEF AcceptRequest, DropRequest, AnswerPending, DetectionUnderWay
<1>4. CASE Answer
  <2>1. PICK m \in Answers : Send(m)
    BY <1>4, SMT DEF Answer
  <2>2. m \in Message /\ ("recognize_result" \in m \/ "disappear_object" \in m)
    BY SMT DEF Answers, Message, Flags
  <2>3. AnswerQueued'
    BY <2>1, <2>2, SendQueues, Zenon DEF AnswerInv, AnswerQueued
  <2> QED
    BY <2>3, SMT DEF AnswerPending
<1>5. CASE Finish
  <2>1. UNCHANGED <<sas_msg, fpgamsg, hpc>> /\ apc # "work"
    BY <1>5, SMT DEF Finish, sharedVars
  <2> QED
    BY <1>1, <2>1, SMT DEF AnswerInv, AnswerPending, DetectionUnderWay, AnswerQueued, Queued
<1> QED
  BY <1>2, <1>3, <1>4, <1>5, SMT DEF DetectorThreads, DetectorNext

LEMMA AnswerInvStep ==
  ASSUME TypeInv, AnswerInv, [Next]_vars, "prompt" \in Timing
  PROVE  MainSteps' /\ AnswerPending'
<1>1. CASE Main
  BY <1>1, AnswerPendingMain DEF Main
<1>2. CASE RangingThread
  <2>1. UNCHANGED <<status, mpc, hpc, apc, detectstatus>>
    BY <1>2, SMT DEF RangingThread, mainVars, detectorVars
  <2>2. fpgamsg' = fpgamsg /\ (sas_msg' = sas_msg \/ \E m \in Message : Send(m))
    BY <1>2, RangingOnlySends, SMT DEF RangingThread, TypeInv, TypeOK, RangingTypeOK
  <2>3. MainSteps'
    BY <2>1, SMT DEF AnswerInv, MainSteps
  <2>4. DetectionUnderWay <=> DetectionUnderWay'
    BY <2>1, <2>2, SMT DEF DetectionUnderWay
  <2>5. AnswerQueued => AnswerQueued'
    <3>1. CASE sas_msg' = sas_msg
      BY <3>1 DEF AnswerQueued, Queued
    <3>2. CASE \E m \in Message : Send(m)
      BY <3>2, SendKeepsQueued DEF AnswerInv, AnswerQueued
    <3> QED
      BY <2>2, <3>1, <3>2
  <2> QED
    BY <2>1, <2>3, <2>4, <2>5, Zenon DEF AnswerInv, AnswerPending
<1>3. CASE DetectorThreads
  <2>1. AnswerPending'
    BY <1>3, AnswerPendingDetector
  <2>2. MainSteps'
    BY <1>3, SMT DEF DetectorThreads, mainVars, AnswerInv, MainSteps
  <2> QED BY <2>1, <2>2
<1>4. CASE UNCHANGED vars
  BY <1>4 DEF vars, sharedVars, mainVars, detectorVars, AnswerInv, MainSteps,
     AnswerPending, DetectionUnderWay, AnswerQueued, Queued
<1> QED
  BY <1>1, <1>2, <1>3, <1>4 DEF Next

(* exec_humandetect drops requests, and yet main never waits for an answer *)
(* that nobody owes it, provided the frame that is read before             *)
(* detectstatus is looked at outlasts the end of an earlier detection.     *)
THEOREM AnswerAlwaysPending ==
  ASSUME "prompt" \in Timing
  PROVE  Spec => []AnswerPending
<1>1. Init => MainSteps /\ AnswerPending
  BY SMT DEF Init, MainInit, MainSteps, AnswerPending
<1>2. TypeInv => SharedTypeOK
  BY DEF TypeInv, TypeOK
<1>3. TypeInv /\ MainSteps /\ AnswerPending /\ [Next]_vars => (MainSteps /\ AnswerPending)'
  BY <1>2, AnswerInvStep DEF AnswerInv
<1> QED
  BY <1>1, <1>3, TypeInvariance, PTL DEF Spec

-----------------------------------------------------------------------------
(***************************************************************************)
(* One result per message.                                                 *)
(***************************************************************************)

(* But for what the stack has left in it, buf holds the flag of the stage  *)
(* that reports, and nothing in between.                                   *)
BufSteps ==
  /\ step = "decide" /\ stage # "exited" => rbuf \subseteq StackResidue
  /\ step = "send" => Report[stage] \in rbuf
  /\ step \in {"send", "check", "reset"} => rbuf \subseteq StackResidue \cup {Report[stage]}
  /\ stage = "picture" /\ step \in {"clear", "clear2"}
       => rbuf \subseteq StackResidue \cup {"taking_now"}
  /\ stage = "close" /\ step \in {"clear", "clear2"} => rbuf \subseteq StackResidue

(* A message with one flag at most, besides what the stack has left, keeps *)
(* the queue one of such messages.                                         *)
LEMMA SendOneResult ==
  ASSUME SharedTypeOK, OneResultPerMessage, NEW m \in Message, Send(m),
         \A f, g \in m \ StackResidue : f = g
  PROVE  OneResultPerMessage'
<1>1. SUFFICES ASSUME NEW i \in DOMAIN sas_msg', NEW f \in sas_msg'[i] \ StackResidue,
                      NEW g \in sas_msg'[i] \ StackResidue
               PROVE  f = g
  BY DEF OneResultPerMessage
<1>2. CASE i \in DOMAIN sas_msg
  <2>1. sas_msg'[i] = sas_msg[i]
    BY <1>2, SMT DEF Send, SharedTypeOK
  <2> QED
    BY <1>1, <1>2, <2>1 DEF OneResultPerMessage
<1>3. CASE i \notin DOMAIN sas_msg
  <2>1. sas_msg'[i] = m
    BY <1>3, SMT DEF Send, SharedTypeOK
  <2> QED
    BY <1>1, <2>1
<1> QED
  BY <1>2, <1>3

(* The stages report with one flag, and take it back.                      *)
LEMMA BufStepsRanging ==
  ASSUME TypeInv, BufSteps, RangingNext
  PROVE  BufSteps'
<1> USE DEF At, Goto
<1>1. stage \in Stages /\ step \in Steps /\ RangingSteps
  BY DEF TypeInv, TypeOK, RangingTypeOK
<1>2. CASE SetUp \/ SetUpFails \/ Sample \/ SpeedStageContinues \/ OpenStageIdle
           \/ CloseStageIdle
  BY <1>2, SMT DEF SetUp, SetUpFails, Sample, SpeedStageContinues, OpenStageIdle,
     CloseStageIdle, BufSteps
<1>3. CASE DetectStage
  <2>1. rbuf \subseteq StackResidue /\ stage' \in {"detect", "speed"}
        /\ step' \in {"send", "decide"}
        /\ (step' = "send" => stage' = "detect")
    BY <1>3, SMT DEF DetectStage, BufSteps
  <2>2. rbuf' = IF step' = "send" THEN rbuf \cup {"detect_result"} ELSE rbuf
    BY <1>3 DEF DetectStage
  <2> QED
    BY <2>1, <2>2, SMT DEF BufSteps, Report
<1>4. CASE SpeedStageDone
  <2>1. rbuf' = rbuf \cup {"calculate_result"} /\ rbuf \subseteq StackResidue
        /\ stage' = "speed" /\ step' = "send"
    BY <1>4, SMT DEF SpeedStageDone, BufSteps
  <2> QED
    BY <2>1, SMT DEF BufSteps, Report
<1>5. CASE OpenStage
  <2>1. /\ rbuf \subseteq StackResidue
        /\ \/ rbuf' = rbuf \cup {"open_result"} /\ stage' = "open" /\ step' = "send"
           \/ rbuf' = rbuf /\ stage' = "close" /\ step' = "decide"
    BY <1>5, SMT DEF OpenStage, BufSteps
  <2> QED
    BY <2>1, SMT DEF BufSteps, Report
<1>6. CASE CloseStage
  <2>1. rbuf' = rbuf \cup {"close_result"} /\ rbuf \subseteq StackResidue
        /\ stage' = "close" /\ step' = "send"
    BY <1>6, SMT DEF CloseStage, BufSteps
  <2> QED
    BY <2>1, SMT DEF BufSteps, Report
<1>7. CASE PictureStage
  <2>1. /\ rbuf \subseteq StackResidue
        /\ \/ rbuf' = rbuf \cup {"taking_now"} /\ stage' = "picture" /\ step' = "send"
           \/ rbuf' = rbuf /\ stage' = "sample" /\ step' = "decide"
    BY <1>7, SMT DEF PictureStage, BufSteps
  <2> QED
    BY <2>1, SMT DEF BufSteps, Report
<1>8. CASE SendReport
  <2>1. rbuf' = rbuf /\ stage' = stage /\ rbuf \subseteq StackResidue \cup {Report[stage]}
        /\ step' \in {"clear", "check"} /\ (step' = "clear" <=> stage = "picture")
    BY <1>8, SMT DEF SendReport, BufSteps
  <2>2. stage = "picture" => Report[stage] = "taking_now"
    BY SMT DEF Report
  <2> QED
    BY <2>1, <2>2, SMT DEF BufSteps
<1>9. CASE SendReportFails
  BY <1>9, SMT DEF SendReportFails, BufSteps
<1>10. CASE CheckSame
  <2>1. rbuf' = rbuf /\ stage' = stage /\ step' = "reset" /\ step = "check"
    BY <1>10, SMT DEF CheckSame
  <2> QED
    BY <2>1, SMT DEF BufSteps
<1>11. CASE CheckChanged \/ Reset \/ CheckAndReset
  <2>1. step \in {"check", "reset"} /\ EndStage
    BY <1>11, SMT DEF CheckChanged, Reset, CheckAndReset
  <2>2. rbuf' \subseteq StackResidue
    BY <2>1, SMT DEF EndStage, BufSteps
  <2>3. stage \in Commanded
    BY <1>1, <2>1, SMT DEF RangingSteps
  <2>4. step' \in {"clear", "decide"} /\ (step' = "clear" => stage' = "close")
    BY <2>1, SMT DEF EndStage
  <2> QED
    BY <2>2, <2>4, SMT DEF BufSteps
<1>12. CASE CloseClearTaken \/ CloseClearPicture \/ PictureOff
  BY <1>12, SMT DEF CloseClearTaken, CloseClearPicture, PictureOff, BufSteps
<1>13. CASE PictureTaken
  BY <1>13, SMT DEF PictureTaken, BufSteps
<1> QED
  BY <1>2, <1>3, <1>4, <1>5, <1>6, <1>7, <1>8, <1>9, <1>10, <1>11, <1>12, <1>13,
     Zenon DEF RangingNext

LEMMA OneResultStep ==
  ASSUME TypeInv, BufSteps, OneResultPerMessage, [Next]_vars
  PROVE  BufSteps' /\ OneResultPerMessage'
<1>1. SharedTypeOK /\ rbuf \in Message
  BY SMT DEF TypeInv, TypeOK, RangingTypeOK
<1>2. CASE Main
  <2>1. BufSteps'
    BY <1>2, SMT DEF Main, rangingVars, BufSteps
  <2>2. sas_msg' = sas_msg \/ (sas_msg # << >> /\ sas_msg' = Tail(sas_msg))
    <3>1. CASE Receive
      BY <3>1, SMT DEF Receive
    <3>2. CASE ~Receive
      BY <1>2, <3>2, SMT DEF Main, MainNext, sharedVars, StartDetectDistance,
         MotorInitializeFails, DetectSpeed, StartHumanDetect, EnterWaitDetect,
         PreparePictureTest, PreparePictureSet, OpenDoor, CloseDoor, TakePicture
    <3> QED BY <3>1, <3>2
  <2>3. CASE sas_msg # << >> /\ sas_msg' = Tail(sas_msg)
    <3>1. SUFFICES ASSUME NEW i \in DOMAIN sas_msg', NEW f \in sas_msg'[i] \ StackResidue,
                          NEW g \in sas_msg'[i] \ StackResidue
                   PROVE  f = g
      BY <2>1 DEF OneResultPerMessage
    <3>2. i + 1 \in DOMAIN sas_msg /\ sas_msg'[i] = sas_msg[i + 1]
      BY <1>1, <2>3, SMT DEF SharedTypeOK
    <3> QED
      BY <3>1, <3>2 DEF OneResultPerMessage
  <2> QED
    BY <2>1, <2>2, <2>3 DEF OneResultPerMessage
<1>3. CASE RangingThread
  <2>1. BufSteps'
    BY <1>3, BufStepsRanging DEF RangingThread
  <2>2. CASE SendReport
    <3>1. Send(rbuf) /\ rbuf \subseteq StackResidue \cup {Report[stage]}
      BY <2>2, SMT DEF SendReport, BufSteps
    <3>2. \A f, g \in rbuf \ StackResidue : f = g
      BY <3>1, Zenon
    <3> QED
      BY <1>1, <2>1, <3>1, <3>2, SendOneResult
  <2>3. CASE ~SendReport
    <3>1. sas_msg' = sas_msg
      BY <1>3, <2>3, SMT DEF RangingThread, RangingNext, sharedVars, SetUp, SetUpFails,
         Sample, DetectStage, SpeedStageContinues, SpeedStageDone, OpenStage,
         OpenStageIdle, CloseStage, CloseStageIdle, PictureStage, SendReportFails,
         CheckChanged, CheckSame, Reset, CheckAndReset, EndStage, CloseClearTaken,
         CloseClearPicture, PictureOff, PictureTaken
    <3> QED
      BY <2>1, <3>1 DEF OneResultPerMessage
  <2> QED
    BY <2>2, <2>3
<1>4. CASE DetectorThreads
  <2>1. BufSteps'
    BY <1>4, SMT DEF DetectorThreads, rangingVars, BufSteps
  <2>2. CASE Answer
    <3>1. PICK m \in Answers : Send(m)
      BY <2>2, SMT DEF Answer
    <3>2. m \in Message /\ \A f, g \in m : f = g
      BY SMT DEF Answers, Message, Flags
    <3> QED
      BY <1>1, <2>1, <3>1, <3>2, SendOneResult
  <2>3. CASE ~Answer
    <3>1. sas_msg' = sas_msg
      BY <1>4, <2>3, SMT DEF DetectorThreads, DetectorNext, sharedVars, TakeRequest,
         AcceptRequest, DropRequest, Finish
    <3> QED
      BY <2>1, <3>1 DEF OneResultPerMessage
  <2> QED
    BY <2>2, <2>3
<1>5. CASE UNCHANGED vars
  BY <1>5, SMT DEF vars, sharedVars, rangingVars, BufSteps, OneResultPerMessage
<1> QED
  BY <1>2, <1>3, <1>4, <1>5 DEF Next

(* Whatever the stack has left in buf, no interleaving of the threads      *)
(* makes them add a second result to a message.                            *)
THEOREM ResultsTravelAlone == Spec => []OneResultPerMessage
<1>1. Init => BufSteps /\ OneResultPerMessage
  BY SMT DEF Init, RangingInit, SharedInit, BufSteps, OneResultPerMessage
<1>2. TypeInv /\ BufSteps /\ OneResultPerMessage /\ [Next]_vars
        => (BufSteps /\ OneResultPerMessage)'
  BY OneResultStep
<1> QED
  BY <1>1, <1>2, TypeInvariance, PTL DEF Spec

(* A buf that starts out clean is clean in between, and a message of it    *)
(* holds one flag.                                                         *)
BufClean ==
  /\ step = "decide" /\ stage # "exited" => rbuf = {}
  /\ step \in {"send", "check", "reset"} => rbuf \subseteq {Report[stage]}
  /\ stage = "picture" /\ step \in {"clear", "clear2"} => rbuf \subseteq {"taking_now"}
  /\ stage = "close" /\ step \in {"clear", "clear2"} => rbuf = {}

SingleFlags == \A i \in DOMAIN sas_msg : \A f, g \in sas_msg[i] : f = g

LEMMA CleanStack ==
  ASSUME StackResidue = {}, BufSteps, OneResultPerMessage
  PROVE  BufClean /\ SingleFlags
BY SMT DEF BufSteps, OneResultPerMessage, BufClean, SingleFlags

-----------------------------------------------------------------------------
(***************************************************************************)
(* No object is reported inside a pass.                                    *)
(***************************************************************************)

OneDetection ==
  \A i, j \in DOMAIN sas_msg :
    "detect_result" \in sas_msg[i] /\ "detect_result" \in sas_msg[j] => i = j

(* The command to detect outlives main's return to initialize only until   *)
(* the pass has begun, and the ranging thread takes no sample in between.  *)
NestInv ==
  /\ taking_picture => mpc = "take"
  /\ mpc = "take" => status \in PictureStatus
  /\ range_status = "detect" =>
       status = "initialize" \/ (status = "start_process" /\ mpc = "enter")
  /\ At("detect", "send") => status = "initialize" /\ ~Queued("detect_result")
  /\ At("detect", "decide") =>
       ~Queued("detect_result") /\ (range_status = "detect" => status = "initialize")
  /\ OneDetection
  /\ NoNestedDetection

LEMMA TailQueued ==
  ASSUME SharedTypeOK, sas_msg # << >>, sas_msg' = Tail(sas_msg), OneDetection
  PROVE  /\ Queued("detect_result")' => Queued("detect_result")
         /\ "detect_result" \in Head(sas_msg) => ~Queued("detect_result")'
         /\ OneDetection'
<1>1. \A i \in DOMAIN sas_msg' : i + 1 \in DOMAIN sas_msg /\ sas_msg'[i] = sas_msg[i + 1]
                                 /\ i \in Nat \ {0}
  BY SMT DEF SharedTypeOK
<1>2. 1 \in DOMAIN sas_msg /\ Head(sas_msg) = sas_msg[1]
  BY SMT DEF SharedTypeOK
<1>3. Queued("detect_result")' => Queued("detect_result")
  BY <1>1, Zenon DEF Queued
<1>4. ASSUME "detect_result" \in Head(sas_msg), Queued("detect_result")'
      PROVE  FALSE
  <2>1. PICK i \in DOMAIN sas_msg' : "detect_result" \in sas_msg'[i]
    BY <1>4, Zenon DEF Queued
  <2>2. i + 1 = 1
    BY <1>1, <1>2, <1>4, <2>1, Zenon DEF OneDetection
  <2> QED
    BY <1>1, <2>2, SMT
<1>5. OneDetection'
  <2>1. SUFFICES ASSUME NEW i \in DOMAIN sas_msg', NEW j \in DOMAIN sas_msg',
                        "detect_result" \in sas_msg'[i], "detect_result" \in sas_msg'[j]
                 PROVE  i = j
    BY Zenon DEF OneDetection
  <2>2. i + 1 = j + 1
    BY <1>1, <2>1, Zenon DEF OneDetection
  <2> QED
    BY <1>1, <2>2, SMT
<1> QED
  BY <1>3, <1>4, <1>5

LEMMA SendOther ==
  ASSUME SharedTypeOK, NEW m \in Message, Send(m), "detect_result" \notin m, OneDetection
  PROVE  (Queued("detect_result")' => Queued("detect_result")) /\ OneDetection'
<1>1. \A i \in DOMAIN sas_msg' :
        \/ i \in DOMAIN sas_msg /\ sas_msg'[i] = sas_msg[i]
        \/ sas_msg'[i] = m
  BY SMT DEF Send, SharedTypeOK
<1> QED
  BY <1>1, Zenon DEF Queued, OneDetection

LEMMA SendDetection ==
  ASSUME SharedTypeOK, NEW m \in Message, Send(m), ~Queued("detect_result")
  PROVE  OneDetection'
<1>1. \A i \in DOMAIN sas_msg' :
        \/ i \in DOMAIN sas_msg /\ sas_msg'[i] = sas_msg[i]
        \/ i = Len(sas_msg) + 1
  BY SMT DEF Send, SharedTypeOK
<1> QED
  BY <1>1, Zenon DEF Queued, OneDetection

LEMMA NestReceive ==
  ASSUME SharedTypeOK, SingleFlags, NestInv, Receive, UNCHANGED rangingVars
  PROVE  NestInv'
<1> DEFINE m == Head(sas_msg)
<1>1. sas_msg # << >> /\ sas_msg' = Tail(sas_msg) /\ mpc = "receive"
      /\ status' = NextStatus(status, m) /\ range_status' = range_status
  BY SMT DEF Receive, MainAt
<1>2. /\ Queued("detect_result")' => Queued("detect_result")
      /\ "detect_result" \in m => ~Queued("detect_result")'
      /\ OneDetection'
  BY <1>1, TailQueued DEF NestInv
<1>3. taking_picture' = PictureDue(status, m)
      /\ mpc' = IF PictureDue(status, m) THEN "take" ELSE "enter"
  <2>1. ~taking_picture
    BY <1>1, SMT DEF NestInv
  <2>2. (taking_picture \/ PictureDue(status, m)) = PictureDue(status, m)
    BY <2>1, Zenon DEF PictureDue
  <2>3. /\ taking_picture' = (taking_picture \/ PictureDue(status, m))
        /\ mpc' = IF taking_picture \/ PictureDue(status, m) THEN "take" ELSE "enter"
    BY Zenon DEF Receive, MainAt
  <2> QED
    BY <2>2, <2>3, Zenon
<1>4. ASSUME "taking_now" \in m PROVE m = {"taking_now"}
  <2>1. 1 \in DOMAIN sas_msg /\ m = sas_msg[1]
    BY <1>1, SMT DEF SharedTypeOK
  <2> QED
    BY <1>4, <2>1, SMT DEF SingleFlags
<1>5. ASSUME PictureDue(status, m) PROVE status' = status /\ status \in PictureStatus
  BY <1>1, <1>4, <1>5, SMT DEF PictureDue, PictureStatus, NextStatus
<1>6. status = "initialize" =>
        \/ status' = "initialize"
        \/ status' = "start_process" /\ "detect_result" \in m
  BY <1>1, SMT DEF NextStatus
<1>7. status # "initialize" => ~Queued("detect_result") /\ range_status # "detect"
  BY <1>1, Zenon DEF NestInv, NoNestedDetection
<1>8. status = "initialize" => ~PictureDue(status, m)
  BY SMT DEF PictureDue, PictureStatus
<1>9. NoNestedDetection'
  BY <1>2, <1>6, <1>7, Zenon DEF NoNestedDetection
<1>10. stage' = stage /\ step' = step
  BY Zenon DEF rangingVars
<1>11. (taking_picture => mpc = "take")' /\ (mpc = "take" => status \in PictureStatus)'
  BY <1>3, <1>5, SMT
<1>12. (range_status = "detect" =>
         status = "initialize" \/ (status = "start_process" /\ mpc = "enter"))'
  BY <1>1, <1>3, <1>6, <1>7, <1>8, Zenon
<1>13. (At("detect", "send") => status = "initialize" /\ ~Queued("detect_result"))'
  <2>1. "detect_result" \in m => Queued("detect_result")
    BY <1>1, SMT DEF Queued, SharedTypeOK
  <2> QED
    BY <1>2, <1>6, <1>10, <2>1, Zenon DEF NestInv, At
<1>14. (At("detect", "decide") =>
         ~Queued("detect_result") /\ (range_status = "detect" => status = "initialize"))'
  <2>1. "detect_result" \in m => Queued("detect_result")
    BY <1>1, SMT DEF Queued, SharedTypeOK
  <2> QED
    BY <1>1, <1>2, <1>6, <1>7, <1>10, <2>1, Zenon DEF NestInv, At
<1> HIDE DEF m
<1> QED
  BY <1>2, <1>9, <1>11, <1>12, <1>13, <1>14, Zenon DEF NestInv

LEMMA NestMain ==
  ASSUME SharedTypeOK, SingleFlags, MainSteps, NestInv, MainNext,
         UNCHANGED rangingVars
  PROVE  NestInv'
<1>1. CASE Receive
  BY <1>1, NestReceive
<1>2. CASE ~Receive
  <2>1. status' = status /\ sas_msg' = sas_msg
    BY <1>2, SMT DEF MainNext, sharedVars, StartDetectDistance, MotorInitializeFails,
       DetectSpeed, StartHumanDetect, EnterWaitDetect, PreparePictureTest,
       PreparePictureSet, OpenDoor, CloseDoor, TakePicture
  <2>2. stage' = stage /\ step' = step
    BY Zenon DEF rangingVars
  <2>3. (Queued("detect_result")' <=> Queued("detect_result"))
        /\ (OneDetection' <=> OneDetection)
    BY <2>1, Zenon DEF Queued, OneDetection
  <2>4. (taking_picture' => mpc' = "take") /\ mpc' # "take"
    BY <1>2, SMT DEF MainNext, MainAt, sharedVars, StartDetectDistance, MotorInitializeFails,
       DetectSpeed, StartHumanDetect, EnterWaitDetect, PreparePictureTest,
       PreparePictureSet, OpenDoor, CloseDoor, TakePicture, AfterPrepare, NestInv
  <2>5. range_status' = "detect" => status' = "initialize"
    BY <1>2, SMT DEF MainNext, MainAt, sharedVars, StartDetectDistance, MotorInitializeFails,
       DetectSpeed, StartHumanDetect, EnterWaitDetect, PreparePictureTest,
       PreparePictureSet, OpenDoor, CloseDoor, TakePicture, AfterPrepare, NestInv,
       MainSteps, PictureStatus
  <2> QED
    BY <2>1, <2>2, <2>3, <2>4, <2>5, Zenon DEF NestInv, At, NoNestedDetection
<1> QED
  BY <1>1, <1>2

(* A step of the ranging thread that leaves sas_msg alone and neither      *)
(* gives itself the command to detect nor enters the stage.                *)
LEMMA NestQuiet ==
  ASSUME NestInv, sas_msg' = sas_msg, UNCHANGED mainVars,
         range_status' \in {range_status, "initial"}, ~At("detect", "send")',
         ~At("detect", "decide")'
  PROVE  NestInv'
<1>1. status' = status /\ mpc' = mpc /\ taking_picture' = taking_picture
  BY Zenon DEF mainVars
<1>2. (Queued("detect_result")' <=> Queued("detect_result"))
      /\ (OneDetection' <=> OneDetection)
  BY Zenon DEF Queued, OneDetection
<1>3. (range_status = "detect" =>
        status = "initialize" \/ (status = "start_process" /\ mpc = "enter"))'
  BY <1>1, SMT DEF NestInv
<1> QED
  BY <1>1, <1>2, <1>3, Zenon DEF NestInv, NoNestedDetection

LEMMA NestRanging ==
  ASSUME TypeInv, BufClean, NestInv, RangingThread, "prompt" \in Timing
  PROVE  NestInv'
<1> USE DEF Goto
<1>1. SharedTypeOK /\ rbuf \in Message /\ stage \in Stages /\ RangingSteps
  BY SMT DEF TypeInv, TypeOK, RangingTypeOK
<1>2. status' = status /\ mpc' = mpc /\ taking_picture' = taking_picture
      /\ UNCHANGED mainVars
  BY Zenon DEF RangingThread, mainVars
<1>3. CASE Sample
  <2>1. MainAtRest
    BY <1>3, SMT DEF Sample, At, RangingThread, SampleInTime
  <2>2. sas_msg' = sas_msg /\ range_status' = range_status
        /\ stage' = "detect" /\ step' = "decide"
    BY <1>3, SMT DEF Sample, sharedVars
  <2>3. CASE mpc = "receive" /\ sas_msg = << >>
    <3>1. ~Queued("detect_result")
      BY <2>3, SMT DEF Queued
    <3>2. range_status = "detect" => status = "initialize"
      BY <2>3, SMT DEF NestInv
    <3> QED
      BY <1>2, <2>2, <3>1, <3>2, SMT DEF NestInv, At, Queued, OneDetection,
         NoNestedDetection
  <2>4. CASE mpc = "take"
    <3>1. status # "initialize" /\ range_status # "detect" /\ ~Queued("detect_result")
      BY <2>4, SMT DEF NestInv, PictureStatus, NoNestedDetection
    <3> QED
      BY <1>2, <2>2, <3>1, SMT DEF NestInv, At, Queued, OneDetection, NoNestedDetection
  <2> QED
    BY <2>1, <2>3, <2>4 DEF MainAtRest
<1>4. CASE DetectStage
  <2>1. /\ sas_msg' = sas_msg /\ range_status' = range_status
        /\ stage' = "detect" /\ step' = "send" => range_status = "detect"
        /\ ~At("detect", "decide")'
        /\ At("detect", "decide")
    BY <1>4, SMT DEF DetectStage, At, sharedVars
  <2>2. At("detect", "send")' => status = "initialize" /\ ~Queued("detect_result")
    BY <2>1, SMT DEF NestInv, At
  <2> QED
    BY <1>2, <2>1, <2>2, SMT DEF NestInv, Queued, OneDetection, NoNestedDetection
<1>5. CASE SendReport
  <2>1. /\ Send(rbuf) /\ rbuf \subseteq {Report[stage]}
        /\ step = "send" /\ stage' = stage /\ step' \in {"check", "clear"}
        /\ range_status' = range_status
    BY <1>5, SMT DEF SendReport, BufClean
  <2>2. CASE stage = "detect"
    <3>1. status = "initialize" /\ ~Queued("detect_result")
      BY <2>1, <2>2, SMT DEF NestInv, At
    <3>2. OneDetection'
      BY <1>1, <2>1, <3>1, SendDetection
    <3> QED
      BY <1>2, <2>1, <3>1, <3>2, SMT DEF NestInv, At, NoNestedDetection
  <2>3. CASE stage # "detect"
    <3>1. stage \in {"speed", "open", "close", "picture"}
      BY <1>1, <2>1, <2>3, SMT DEF RangingSteps, Commanded
    <3>2. Report[stage] # "detect_result"
      BY <3>1, SMT DEF Report
    <3>3. "detect_result" \notin rbuf
      BY <2>1, <3>2, Zenon
    <3>4. (Queued("detect_result")' => Queued("detect_result")) /\ OneDetection'
      BY <1>1, <2>1, <3>3, SendOther DEF NestInv
    <3> QED
      BY <1>2, <2>1, <2>3, <3>4, SMT DEF NestInv, At, NoNestedDetection
  <2> QED
    BY <2>2, <2>3
<1>6. CASE CheckChanged \/ Reset \/ CheckAndReset
  <2>1. /\ sas_msg' = sas_msg /\ range_status' \in {range_status, "initial"}
        /\ EndStage /\ step \in {"check", "reset"}
    BY <1>6, SMT DEF CheckChanged, Reset, CheckAndReset, EndStage
  <2>2. stage \in Commanded
    BY <1>1, <2>1, SMT DEF RangingSteps
  <2>3. stage' # "detect"
    BY <2>1, <2>2, SMT DEF EndStage, StageAfter, Commanded
  <2> QED
    BY <1>2, <2>1, <2>3, NestQuiet, SMT DEF At
<1>7. CASE CheckSame
  <2>1. sas_msg' = sas_msg /\ range_status' = range_status /\ step' = "reset"
    BY <1>7, SMT DEF CheckSame, sharedVars
  <2> QED
    BY <1>2, <2>1, NestQuiet, SMT DEF At
<1>8. CASE ~(Sample \/ DetectStage \/ SendReport \/ CheckChanged \/ Reset
             \/ CheckAndReset \/ CheckSame)
  <2>1. sas_msg' = sas_msg /\ range_status' = range_status /\ stage' # "detect"
    BY <1>8, SMT DEF RangingThread, RangingNext, sharedVars, At, SetUp, SetUpFails,
       SpeedStageContinues, SpeedStageDone, OpenStage, OpenStageIdle, CloseStage,
       CloseStageIdle, PictureStage, SendReportFails, CloseClearTaken,
       CloseClearPicture, PictureOff, PictureTaken
  <2> QED
    BY <1>2, <2>1, NestQuiet, SMT DEF At
<1> QED
  BY <1>3, <1>4, <1>5, <1>6, <1>7, <1>8

LEMMA NestDetector ==
  ASSUME SharedTypeOK, NestInv, DetectorThreads
  PROVE  NestInv'
<1>1. /\ status' = status /\ mpc' = mpc /\ taking_picture' = taking_picture
      /\ stage' = stage /\ step' = step
  BY Zenon DEF DetectorThreads, mainVars, rangingVars
<1>2. range_status' = range_status
  BY SMT DEF DetectorThreads, DetectorNext, sharedVars, TakeRequest, AcceptRequest,
     DropRequest, Answer, Finish
<1>3. (Queued("detect_result")' => Queued("detect_result")) /\ OneDetection'
  <2>1. CASE Answer
    <3>1. PICK m \in Answers : Send(m)
      BY <2>1, SMT DEF Answer
    <3>2. m \in Message /\ "detect_result" \notin m
      BY SMT DEF Answers, Message, Flags
    <3> QED
      BY <3>1, <3>2, SendOther DEF NestInv
  <2>2. CASE ~Answer
    <3>1. sas_msg' = sas_msg
      BY <2>2, SMT DEF DetectorThreads, DetectorNext, sharedVars, TakeRequest,
         AcceptRequest, DropRequest, Finish
    <3> QED
      BY <3>1, Zenon DEF NestInv, Queued, OneDetection
  <2> QED
    BY <2>1, <2>2
<1> QED
  BY <1>1, <1>2, <1>3, Zenon DEF NestInv, At, NoNestedDetection

LEMMA NestStep ==
  ASSUME TypeInv, BufClean, SingleFlags, MainSteps, NestInv, [Next]_vars,
         "prompt" \in Timing
  PROVE  NestInv'
<1>1. SharedTypeOK
  BY DEF TypeInv, TypeOK
<1>2. CASE Main
  BY <1>1, <1>2, NestMain DEF Main
<1>3. CASE RangingThread
  BY <1>3, NestRanging
<1>4. CASE DetectorThreads
  BY <1>1, <1>4, NestDetector
<1>5. CASE UNCHANGED vars
  BY <1>5, Zenon DEF vars, sharedVars, mainVars, rangingVars, NestInv, At, Queued,
     OneDetection, NoNestedDetection
<1> QED
  BY <1>2, <1>3, <1>4, <1>5 DEF Next

(* The comments of range.c speak of preventing nested states: if main is   *)
(* done with its messages before the next sample is taken, an object is    *)
(* reported only to a main thread that waits for one, although commands    *)
(* and resets race, passes are abandoned and any set-up or send may fail.  *)
THEOREM NoDetectionIsNested ==
  ASSUME "prompt" \in Timing, StackResidue = {}
  PROVE  Spec => []NoNestedDetection
<1> DEFINE Inv == BufSteps /\ OneResultPerMessage /\ MainSteps /\ AnswerPending /\ NestInv
<1>1. Init => Inv
  <2>1. Init => BufSteps /\ OneResultPerMessage /\ MainSteps /\ AnswerPending
    BY SMT DEF Init, RangingInit, SharedInit, MainInit, BufSteps, OneResultPerMessage,
       MainSteps, AnswerPending
  <2>2. Init => NestInv
    BY SMT DEF Init, RangingInit, SharedInit, MainInit, NestInv, At, Queued,
       OneDetection, NoNestedDetection
  <2> QED
    BY <2>1, <2>2
<1>2. TypeInv /\ Inv /\ [Next]_vars => Inv'
  <2>1. TypeInv => SharedTypeOK
    BY DEF TypeInv, TypeOK
  <2> QED
    BY <2>1, CleanStack, OneResultStep, AnswerInvStep, NestStep DEF AnswerInv
<1>3. Inv => NoNestedDetection
  BY DEF NestInv
<1> HIDE DEF Inv
<1> QED
  BY <1>1, <1>2, <1>3, TypeInvariance, PTL DEF Spec
-----------------------------------------------------------------------------
(***************************************************************************)
(* The other threads are the environment the detection is specified for.   *)
(***************************************************************************)

(* What is seen of message m, and of the messages q.                       *)
SeenAs(m) == IF m \in Answers THEN m ELSE {"taking_now"}

SeenOf(q) == [i \in DOMAIN q |-> SeenAs(q[i])]

(* The detection sees as many messages as there are.                       *)
LEMMA SeenLength ==
  ASSUME NEW q \in Seq(Message)
  PROVE  /\ SeenOf(q) \in Seq(Message)
         /\ Len(SeenOf(q)) = Len(q)
         /\ \A i \in 1 .. Len(q) : SeenOf(q)[i] = SeenAs(q[i])
<1>1. /\ Len(q) \in Nat
      /\ DOMAIN q = 1 .. Len(q)
      /\ \A i \in 1 .. Len(q) : q[i] \in Message
  OBVIOUS
<1>2. SeenOf(q) = [i \in 1 .. Len(q) |-> SeenAs(q[i])]
  BY <1>1, Zenon DEF SeenOf
<1>3. \A i \in 1 .. Len(q) : SeenAs(q[i]) \in Message
  BY <1>1, SMT DEF SeenAs, Message, Flags
<1> QED
  BY <1>1, <1>2, <1>3, SMT

(* Two queues with the same messages in the same places are the same.      *)
LEMMA SameMessages ==
  ASSUME NEW q \in Seq(Message), NEW r \in Seq(Message), Len(q) = Len(r),
         \A i \in 1 .. Len(q) : q[i] = r[i]
  PROVE  q = r
OBVIOUS

(* Sending and receiving look the same to the detection.                   *)
LEMMA SeenAppend ==
  ASSUME NEW q \in Seq(Message), NEW m \in Message
  PROVE  SeenOf(Append(q, m)) = Append(SeenOf(q), SeenAs(m))
<1>1. /\ Append(q, m) \in Seq(Message)
      /\ Len(q) \in Nat /\ Len(Append(q, m)) = Len(q) + 1
      /\ \A i \in 1 .. Len(q) + 1 : Append(q, m)[i] = IF i \in 1 .. Len(q) THEN q[i] ELSE m
  OBVIOUS
<1>2. SeenAs(m) \in Message
  BY SMT DEF SeenAs, Message, Flags
<1>3. /\ Append(SeenOf(q), SeenAs(m)) \in Seq(Message)
      /\ Len(Append(SeenOf(q), SeenAs(m))) = Len(q) + 1
      /\ \A i \in 1 .. Len(q) + 1 :
           Append(SeenOf(q), SeenAs(m))[i] = IF i \in 1 .. Len(q) THEN SeenOf(q)[i] ELSE SeenAs(m)
  BY <1>2, SeenLength, SMT
<1>4. /\ SeenOf(Append(q, m)) \in Seq(Message)
      /\ Len(SeenOf(Append(q, m))) = Len(q) + 1
      /\ \A i \in 1 .. Len(q) + 1 : SeenOf(Append(q, m))[i] = SeenAs(Append(q, m)[i])
  BY <1>1, SeenLength, Zenon
<1>5. \A i \in 1 .. Len(q) + 1 :
        SeenOf(Append(q, m))[i] = Append(SeenOf(q), SeenAs(m))[i]
  BY <1>1, <1>3, <1>4, SeenLength, Zenon
<1> QED
  BY <1>3, <1>4, <1>5, SameMessages, Zenon

(* ... and so does receiving the first one.                                *)
LEMMA SeenTail ==
  ASSUME NEW q \in Seq(Message), q # << >>
  PROVE  SeenOf(q) # << >> /\ SeenOf(Tail(q)) = Tail(SeenOf(q))
<1>1. /\ Tail(q) \in Seq(Message)
      /\ Len(q) \in Nat \ {0} /\ Len(Tail(q)) = Len(q) - 1
      /\ \A i \in 1 .. Len(q) - 1 : i + 1 \in 1 .. Len(q) /\ Tail(q)[i] = q[i + 1]
  OBVIOUS
<1>2. /\ SeenOf(q) # << >>
      /\ Tail(SeenOf(q)) \in Seq(Message)
      /\ Len(Tail(SeenOf(q))) = Len(q) - 1
      /\ \A i \in 1 .. Len(q) - 1 : Tail(SeenOf(q))[i] = SeenOf(q)[i + 1]
  BY <1>1, SeenLength, SMT
<1>3. /\ SeenOf(Tail(q)) \in Seq(Message)
      /\ Len(SeenOf(Tail(q))) = Len(q) - 1
      /\ \A i \in 1 .. Len(q) - 1 : SeenOf(Tail(q))[i] = SeenAs(Tail(q)[i])
  BY <1>1, SeenLength, Zenon
<1>4. \A i \in 1 .. Len(q) - 1 : SeenOf(Tail(q))[i] = Tail(SeenOf(q))[i]
  BY <1>1, <1>2, <1>3, SeenLength, Zenon
<1> QED
  BY <1>2, <1>3, <1>4, SameMessages, Zenon

(* A message that can be sent can be sent to the queue the detection sees. *)
LEMMA SeenSend ==
  ASSUME SharedTypeOK, NEW m \in Message, Send(m)
  PROVE  Detection!Send(SeenAs(m))
<1>1. /\ sas_msg \in Seq(Message) /\ Len(sas_msg) < MaxMsgs
      /\ sas_msg' = Append(sas_msg, m)
  BY Zenon DEF SharedTypeOK, Send
<1>2. Seen = SeenOf(sas_msg)
  BY Zenon DEF Seen, SeenOf, SeenAs
<1>3. Seen' = SeenOf(Append(sas_msg, m))
  BY <1>1, Zenon DEF Seen, SeenOf, SeenAs
<1>4. Len(Seen) < MaxMsgs
  BY <1>1, <1>2, SeenLength, SMT
<1>5. SeenOf(Append(sas_msg, m)) = Append(Seen, SeenAs(m))
  BY <1>1, <1>2, SeenAppend, Zenon
<1> QED
  BY <1>3, <1>4, <1>5, Zenon DEF Detection!Send

(* What a step has to leave alone to go unnoticed.                         *)
detectionVars ==
  <<Seen, fpgamsg, hpc, apc, detectstatus>>

(* Main requests, or takes a message, or is not seen at all.               *)
LEMMA MainIsEnvironment ==
  ASSUME SharedTypeOK, Main
  PROVE  Detection!Request \/ Detection!Consume \/ UNCHANGED detectionVars
<1>1. /\ MainNext /\ hpc' = hpc /\ apc' = apc /\ detectstatus' = detectstatus
  BY Zenon DEF Main, detectorVars
<1>2. CASE Receive
  <2>1. sas_msg # << >> /\ sas_msg' = Tail(sas_msg) /\ fpgamsg' = fpgamsg
    BY <1>2, Zenon DEF Receive
  <2>2. Seen = SeenOf(sas_msg)
    BY Zenon DEF Seen, SeenOf, SeenAs
  <2>3. Seen' = SeenOf(Tail(sas_msg))
    BY <2>1, Zenon DEF Seen, SeenOf, SeenAs
  <2>4. Seen # << >> /\ SeenOf(Tail(sas_msg)) = Tail(Seen)
    BY <2>1, <2>2, SeenTail, Zenon DEF SharedTypeOK
  <2> QED
    BY <1>1, <2>1, <2>3, <2>4, Zenon DEF Detection!Consume, Detection!others
<1>3. CASE StartHumanDetect
  <2>1. fpgamsg < MaxMsgs /\ fpgamsg' = fpgamsg + 1 /\ sas_msg' = sas_msg
    BY <1>3, Zenon DEF StartHumanDetect
  <2>2. Seen' = Seen
    BY <2>1, Zenon DEF Seen
  <2> QED
    BY <1>1, <2>1, <2>2, Zenon DEF Detection!Request, Detection!others
<1>4. CASE ~Receive /\ ~StartHumanDetect
  <2>1. sas_msg' = sas_msg /\ fpgamsg' = fpgamsg
    BY <1>1, <1>4, Zenon DEF MainNext, sharedVars, StartDetectDistance,
       MotorInitializeFails, DetectSpeed, EnterWaitDetect, PreparePictureTest,
       PreparePictureSet, OpenDoor, CloseDoor, TakePicture
  <2> QED
    BY <1>1, <2>1, Zenon DEF detectionVars, Seen
<1> QED
  BY <1>2, <1>3, <1>4

(* A report of the ranging thread is never taken for an answer.            *)
LEMMA RangingIsEnvironment ==
  ASSUME TypeInv, BufSteps, RangingThread
  PROVE  Detection!OtherReport \/ UNCHANGED detectionVars
<1>1. /\ RangingNext /\ hpc' = hpc /\ apc' = apc /\ detectstatus' = detectstatus
      /\ SharedTypeOK /\ rbuf \in Message
  BY Zenon DEF RangingThread, detectorVars, TypeInv, TypeOK, RangingTypeOK
<1>2. CASE SendReport
  <2>1. Send(rbuf) /\ fpgamsg' = fpgamsg
    BY <1>2, Zenon DEF SendReport
  <2>2. rbuf \notin Answers
    <3>1. step = "send" /\ stage \in Commanded \cup {"picture"} /\ Report[stage] \in rbuf
      BY <1>2, SMT DEF SendReport, BufSteps, TypeInv, RangingSteps
    <3>2. Report[stage] \notin {"recognize_result", "disappear_object"}
      BY <3>1, SMT DEF Report, Commanded
    <3> QED
      BY <3>1, <3>2, Zenon DEF Answers
  <2>3. SeenAs(rbuf) = {"taking_now"}
    BY <2>2, Zenon DEF SeenAs
  <2>4. Detection!Send({"taking_now"})
    BY <1>1, <2>1, <2>3, SeenSend, Zenon
  <2> QED
    BY <1>1, <2>1, <2>4, Zenon DEF Detection!OtherReport, Detection!others
<1>3. CASE ~SendReport
  <2>1. sas_msg' = sas_msg /\ fpgamsg' = fpgamsg
    BY <1>1, <1>3, Zenon DEF RangingNext, sharedVars, SetUp, SetUpFails,
       Sample, DetectStage, SpeedStageContinues, SpeedStageDone, OpenStage,
       OpenStageIdle, CloseStage, CloseStageIdle, PictureStage, SendReportFails,
       CheckChanged, CheckSame, Reset, CheckAndReset, EndStage, CloseClearTaken,
       CloseClearPicture, PictureOff, PictureTaken
  <2> QED
    BY <1>1, <2>1, Zenon DEF detectionVars, Seen
<1> QED
  BY <1>2, <1>3

(* The detection's own steps are those of its specification.               *)
LEMMA DetectorIsDetection ==
  ASSUME SharedTypeOK, DetectorThreads
  PROVE  Detection!DetectorNext
<1> USE DEF Detection!sharedVars, sharedVars
<1>1. DetectorNext
  BY Zenon DEF DetectorThreads
<1>2. sas_msg' = sas_msg => Seen' = Seen
  BY Zenon DEF Seen
<1>3. CASE Answer
  <2>1. PICK m \in Answers : Send(m)
    BY <1>3, Zenon DEF Answer
  <2>2. m \in Message /\ SeenAs(m) = m
    BY <2>1, SMT DEF Answers, Message, Flags, SeenAs
  <2>3. Detection!Send(m) /\ m \in Detection!Answers
    BY <2>1, <2>2, SeenSend, Zenon DEF Detection!Answers, Answers
  <2> QED
    BY <1>3, <2>3, Zenon DEF Answer, Detection!Answer, Detection!DetectorNext
<1>4. CASE TakeRequest
  BY <1>2, <1>4, Zenon DEF TakeRequest, Detection!TakeRequest, Detection!DetectorNext
<1>5. CASE AcceptRequest
  BY <1>2, <1>5, Zenon DEF AcceptRequest, Detection!AcceptRequest, Detection!DetectorNext
<1>6. CASE DropRequest
  BY <1>2, <1>6, Zenon DEF DropRequest, Detection!DropRequest, Detection!DetectorNext
<1>7. CASE Finish
  BY <1>2, <1>7, Zenon DEF Finish, Detection!Finish, Detection!DetectorNext
<1> QED
  BY <1>1, <1>3, <1>4, <1>5, <1>6, <1>7, Zenon DEF DetectorNext

(* The controller is an environment in which HumanDetect keeps its         *)
(* promise, so that Detector may stand in for it: whatever the timing, the *)
(* faults and what the stack leaves in buf, main and ranging only make     *)
(* requests the queue has room for, send messages that are no answers, and *)
(* take messages.                                                          *)
THEOREM DetectorIsInPlace == Spec => DetectorInPlace
<1>1. Init => Detection!Init /\ BufSteps
  BY SMT DEF Init, RangingInit, SharedInit, DetectorInit, BufSteps, Seen,
     Detection!Init, Detection!SharedInit, Detection!DetectorInit
<1>2. ASSUME TypeInv, BufSteps, [Next]_vars
      PROVE  [Detection!Next]_<<Detection!sharedVars, Detection!detectorVars>>
  <2>1. SharedTypeOK
    BY <1>2, Zenon DEF TypeInv, TypeOK
  <2>2. UNCHANGED detectionVars
          => UNCHANGED <<Detection!sharedVars, Detection!detectorVars>>
    BY Zenon DEF detectionVars, Detection!sharedVars, Detection!detectorVars
  <2>3. CASE Main
    BY <2>1, <2>2, <2>3, MainIsEnvironment, Zenon DEF Detection!Next
  <2>4. CASE RangingThread
    BY <1>2, <2>2, <2>4, RangingIsEnvironment, Zenon DEF Detection!Next
  <2>5. CASE DetectorThreads
    BY <2>1, <2>5, DetectorIsDetection, Zenon DEF Detection!Next
  <2>6. CASE UNCHANGED vars
    BY <2>2, <2>6, Zenon DEF vars, sharedVars, detectorVars, detectionVars, Seen
  <2> QED
    BY <1>2, <2>3, <2>4, <2>5, <2>6, Zenon DEF Next
<1>3. TypeInv /\ BufSteps /\ [Next]_vars => BufSteps'
  <2>1. SUFFICES ASSUME TypeInv, BufSteps, [Next]_vars PROVE BufSteps'
    OBVIOUS
  <2>2. CASE RangingThread
    BY <2>1, <2>2, BufStepsRanging DEF RangingThread
  <2>3. CASE ~RangingThread
    BY <2>1, <2>3, SMT DEF Next, Main, DetectorThreads, vars, rangingVars, BufSteps
  <2> QED
    BY <2>2, <2>3
<1> QED
  BY <1>1, <1>2, <1>3, TypeInvariance, PTL DEF Spec, DetectorInPlace, Detection!Spec

=============================================================================
