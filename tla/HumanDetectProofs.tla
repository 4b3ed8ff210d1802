--------------------------- MODULE HumanDetectProofs ---------------------------
(***************************************************************************)
(* The code of the human detection implements the promise of module        *)
(* DetectorAlone, for queues of any capacity and under any interleaving of *)
(* the two threads, the interrupt handler and the FPGA.                    *)
(***************************************************************************)
EXTENDS HumanDetect, TLAPS

(* adaboostthread works on a detection only while there is one, and        *)
(* exec_humandetect begins one only after the last is over.                *)
DetectionInv ==
  /\ hpc = "set" => detectstatus = 0
  /\ apc \in {"exec", "found", "not_found", "sleep", "program"} => detectstatus # 0

(* What the steps of this module are made of.                              *)
USE DEF HStep, AStep, deviceVars, sharedVars, threadVars

-----------------------------------------------------------------------------
(* DetectionInv is inductive.                                              *)

LEMMA DetectionInvHuman ==
  ASSUME DetectionInv, HumanDetectThread
  PROVE  DetectionInv'
<1>1. CASE TakeRequest \/ FirstHog \/ FirstHogProgram
  BY <1>1, SMT DEF TakeRequest, FirstHog, FirstHogProgram, DetectionInv
<1>2. CASE TestReady
  BY <1>2, SMT DEF TestReady, DetectionInv
<1>3. CASE SetDetecting
  BY <1>3, SMT DEF SetDetecting, DetectionInv
<1> QED
  BY <1>1, <1>2, <1>3 DEF HumanDetectThread

LEMMA DetectionInvAdaboost ==
  ASSUME DetectionInv, AdaboostThread
  PROVE  DetectionInv'
<1>1. CASE GetHog \/ WakeUp \/ GetHogClear \/ GetHogClearStatus
  BY <1>1, SMT DEF GetHog, WakeUp, GetHogClear, GetHogClearStatus, DetectionInv
<1>2. CASE CheckDetecting
  BY <1>2, SMT DEF CheckDetecting, DetectionInv
<1>3. CASE HumanFound \/ NoHumanAtAll \/ NextScale
  BY <1>3, SMT DEF HumanFound, NoHumanAtAll, NextScale, DetectionInv
<1>4. CASE NextHog \/ NextHogProgram
  BY <1>4, SMT DEF NextHog, NextHogProgram, DetectionInv
<1>5. CASE SendFound \/ SendNotFound
  BY <1>5, SMT DEF SendFound, SendNotFound, SendAnswer, DetectionInv
<1>6. CASE Finish
  BY <1>6, SMT DEF Finish, DetectionInv
<1> QED
  BY <1>1, <1>2, <1>3, <1>4, <1>5, <1>6 DEF AdaboostThread

LEMMA DetectionInvStep ==
  ASSUME DetectionInv, [Next]_vars
  PROVE  DetectionInv'
<1>1. CASE WakeUpBySignal \/ RunEnds \/ Environment
  BY <1>1, SMT DEF WakeUpBySignal, RunEnds, Environment, Request, OtherReport, Consume,
     DetectionInv
<1>2. CASE UNCHANGED vars
  BY <1>2, SMT DEF vars, DetectionInv
<1> QED
  BY <1>1, <1>2, DetectionInvHuman, DetectionInvAdaboost DEF Next

LEMMA DetectionInvariance == Spec => []DetectionInv
<1>1. Init => DetectionInv
  BY SMT DEF Init, DetectionInv
<1> QED
  BY <1>1, DetectionInvStep, PTL DEF Spec

-----------------------------------------------------------------------------
(* Type correctness.                                                       *)

LEMMA SendType ==
  ASSUME SharedTypeOK, NEW m \in Message, Send(m)
  PROVE  sas_msg' \in Seq(Message) /\ Len(sas_msg') <= MaxMsgs
BY MaxMsgsAssumption, SMT DEF SharedTypeOK, Send

(* What a message or a request changes is what the queues may hold.        *)
LEMMA QueueType ==
  ASSUME SharedTypeOK, sas_msg' \in Seq(Message), Len(sas_msg') <= MaxMsgs,
         fpgamsg' \in 0 .. MaxMsgs,
         UNCHANGED <<range_status, picture, has_taken, initial_flag, door>>
  PROVE  SharedTypeOK'
BY Zenon DEF SharedTypeOK

LEMMA SharedType ==
  ASSUME TypeOK, Next
  PROVE  SharedTypeOK'
<1>1. /\ SharedTypeOK /\ sas_msg \in Seq(Message) /\ Len(sas_msg) <= MaxMsgs
      /\ fpgamsg \in 0 .. MaxMsgs
  BY DEF TypeOK, SharedTypeOK
<1>2. CASE TakeRequest \/ Request
  <2>1. fpgamsg' \in 0 .. MaxMsgs
    BY <1>1, <1>2, MaxMsgsAssumption, SMT DEF TakeRequest, Request
  <2>2. UNCHANGED <<sas_msg, range_status, picture, has_taken, initial_flag, door>>
    BY <1>2, SMT DEF TakeRequest, Request
  <2> QED
    BY <1>1, <2>1, <2>2, QueueType, Zenon
<1>3. CASE SendFound \/ SendNotFound \/ OtherReport
  <2>1. PICK m \in Message : Send(m)
    BY <1>3, SMT DEF SendFound, SendNotFound, SendAnswer, OtherReport, Message, Flags
  <2>2. UNCHANGED <<fpgamsg, range_status, picture, has_taken, initial_flag, door>>
    BY <1>3, SMT DEF SendFound, SendNotFound, SendAnswer, OtherReport
  <2> QED
    BY <1>1, <2>1, <2>2, SendType, QueueType, Zenon
<1>4. CASE Consume
  <2>1. sas_msg' \in Seq(Message) /\ Len(sas_msg') <= MaxMsgs
    BY <1>1, <1>4, MaxMsgsAssumption, SMT DEF Consume
  <2>2. UNCHANGED <<fpgamsg, range_status, picture, has_taken, initial_flag, door>>
    BY <1>4, SMT DEF Consume
  <2> QED
    BY <1>1, <2>1, <2>2, QueueType, Zenon
<1>5. CASE UNCHANGED sharedVars
  BY <1>1, <1>5, Zenon DEF SharedTypeOK
<1> QED
  BY <1>2, <1>3, <1>4, <1>5, SMT DEF Next, HumanDetectThread, AdaboostThread, Environment,
     TestReady, SetDetecting, FirstHog, FirstHogProgram, GetHog, WakeUp, GetHogClear,
     GetHogClearStatus, CheckDetecting, HumanFound, NoHumanAtAll, NextScale, NextHog,
     NextHogProgram, Finish, WakeUpBySignal, RunEnds

(* Ranges of the variables of the threads and of the device.               *)
LEMMA ThreadType ==
  ASSUME TypeOK, Next
  PROVE  /\ detectstatus' \in 0 .. 2
         /\ hpc' \in {"receive", "camera", "set", "sleep", "program"}
         /\ apc' \in {"get_hog", "wait", "clear", "clear_status", "check", "exec",
                      "found", "not_found", "finish", "sleep", "program"}
         /\ count' \in Pattern
         /\ history' \in {"clean", "early", "disturbed"}
<1> USE DEF TypeOK
<1>1. CASE HumanDetectThread \/ WakeUpBySignal
  BY <1>1, SMT DEF HumanDetectThread, TakeRequest, TestReady, SetDetecting, FirstHog,
     FirstHogProgram, WakeUpBySignal, Remember
<1>2. CASE GetHog \/ WakeUp \/ GetHogClear \/ GetHogClearStatus \/ CheckDetecting
           \/ HumanFound \/ NoHumanAtAll \/ NextHog \/ NextHogProgram \/ SendFound
           \/ SendNotFound
  BY <1>2, SMT DEF GetHog, WakeUp, GetHogClear, GetHogClearStatus, CheckDetecting,
     HumanFound, NoHumanAtAll, NextHog, NextHogProgram, SendFound, SendNotFound, SendAnswer
<1>3. CASE NextScale
  <2>1. count' \in Pattern
    BY <1>3, SMT DEF NextScale, Pattern, HogCount
  <2> QED
    BY <1>3, <2>1, SMT DEF NextScale
<1>4. CASE Finish
  <2>1. count' \in Pattern
    BY <1>4, SMT DEF Finish, Pattern, HogCount
  <2> QED
    BY <1>4, <2>1, SMT DEF Finish
<1>5. CASE RunEnds \/ Environment
  BY <1>5, SMT DEF RunEnds, Environment, Request, OtherReport, Consume
<1> QED
  BY <1>1, <1>2, <1>3, <1>4, <1>5 DEF Next, AdaboostThread

LEMMA DeviceType ==
  ASSUME TypeOK, Next
  PROVE  /\ wait_status' \in 0 .. 1
         /\ fpga' \in {"idle", "running"}
         /\ irq_enabled' \in BOOLEAN
         /\ programmed' \in Pattern
         /\ result' \in Pattern
<1>1. /\ wait_status \in 0 .. 1 /\ fpga \in {"idle", "running"} /\ irq_enabled \in BOOLEAN
      /\ programmed \in Pattern /\ result \in Pattern /\ count \in Pattern
  BY DEF TypeOK
<1>0. 0 \in 0 .. 1 /\ 1 \in 0 .. 1
  BY SMT
<1>2. CASE FirstHog \/ NextHog \/ GetHogClearStatus
  BY <1>0, <1>1, <1>2, Zenon DEF FirstHog, NextHog, GetHogClearStatus, ForgetInterrupt
<1>3. CASE FirstHogProgram \/ NextHogProgram
  <2>1. 0 \in Pattern
    BY SMT DEF Pattern, HogCount
  <2> QED
    BY <1>1, <1>3, <2>1, Zenon DEF FirstHogProgram, NextHogProgram, Program
<1>4. CASE GetHogClear
  BY <1>1, <1>4, Zenon DEF GetHogClear
<1>5. CASE RunEnds
  BY <1>0, <1>1, <1>5, Zenon DEF RunEnds
<1>6. CASE UNCHANGED deviceVars
  BY <1>1, <1>6, Zenon
<1> QED
  BY <1>2, <1>3, <1>4, <1>5, <1>6, SMT DEF Next, HumanDetectThread, AdaboostThread,
     Environment, TakeRequest, TestReady, SetDetecting, GetHog, WakeUp, WakeUpBySignal,
     CheckDetecting, HumanFound, NoHumanAtAll, NextScale, SendFound, SendNotFound, SendAnswer, Finish,
     Request, OtherReport, Consume

(* Every variable keeps to its range: count never leaves the table of the  *)
(* image scales, and sas_msg never exceeds its capacity.                   *)
THEOREM HumanTypeCorrect == Spec => []TypeOK
<1>1. Init => TypeOK
  <2> SUFFICES ASSUME Init
               PROVE  TypeOK
    OBVIOUS
  <2>1. SharedTypeOK
    <3>1. sas_msg \in Seq(Message) /\ Len(sas_msg) <= MaxMsgs /\ fpgamsg \in 0 .. MaxMsgs
      BY MaxMsgsAssumption, SMT DEF Init, SharedInit
    <3>2. range_status \in RangeState
      BY SMT DEF Init, SharedInit, RangeState
    <3> QED
      BY <3>1, <3>2, Zenon DEF Init, SharedInit, SharedTypeOK
  <2>2. 0 \in Pattern /\ detectstatus \in 0 .. 2 /\ wait_status \in 0 .. 1
    BY SMT DEF Init, Pattern, HogCount
  <2> QED
    BY <2>1, <2>2, Zenon DEF Init, TypeOK
<1>2. TypeOK /\ [Next]_vars => TypeOK'
  <2>1. CASE TypeOK /\ Next
    BY <2>1, SharedType, ThreadType, DeviceType, Zenon DEF TypeOK
  <2>2. CASE TypeOK /\ UNCHANGED vars
    BY <2>2, Zenon DEF vars, TypeOK, SharedTypeOK
  <2> QED
    BY <2>1, <2>2
<1> QED
  BY <1>1, <1>2, PTL DEF Spec

-----------------------------------------------------------------------------
(* The refinement: every step of the code is a step of the promise, or     *)
(* none.                                                                   *)

hpcP == IF hpc \in {"camera", "set"} THEN "camera" ELSE "receive"
apcP == IF apc = "finish" THEN "answered" ELSE "work"
promiseVars == <<sharedVars, <<hpcP, apcP, detectstatus>>>>

LEMMA StepHuman ==
  ASSUME DetectionInv, HumanDetectThread
  PROVE  [Promise!Next]_promiseVars
<1> USE DEF hpcP, apcP, promiseVars
<1>1. CASE TakeRequest
  <2>1. Promise!TakeRequest
    BY <1>1, SMT DEF TakeRequest, Promise!TakeRequest
  <2> QED
    BY <2>1 DEF Promise!Next, Promise!DetectorNext
<1>2. CASE TestReady /\ detectstatus = 0
  BY <1>2, SMT DEF TestReady
<1>3. CASE TestReady /\ detectstatus # 0
  <2>1. Promise!DropRequest
    BY <1>3, SMT DEF TestReady, Promise!DropRequest, Promise!sharedVars
  <2> QED
    BY <2>1 DEF Promise!Next, Promise!DetectorNext
<1>4. CASE SetDetecting
  <2>1. Promise!AcceptRequest
    BY <1>4, SMT DEF SetDetecting, Promise!AcceptRequest, Promise!sharedVars, DetectionInv
  <2> QED
    BY <2>1 DEF Promise!Next, Promise!DetectorNext
<1>5. CASE FirstHog \/ FirstHogProgram
  BY <1>5, SMT DEF FirstHog, FirstHogProgram
<1> QED
  BY <1>1, <1>2, <1>3, <1>4, <1>5 DEF HumanDetectThread

LEMMA StepAdaboost ==
  ASSUME DetectionInv, AdaboostThread
  PROVE  [Promise!Next]_promiseVars
<1> USE DEF hpcP, apcP, promiseVars
<1>1. CASE SendFound \/ SendNotFound
  <2>1. apc # "finish" /\ apc' = "finish" /\ detectstatus # 0
        /\ UNCHANGED <<hpc, detectstatus, fpgamsg, range_status, picture, has_taken,
                       initial_flag, door>>
    BY <1>1, SMT DEF SendFound, SendNotFound, SendAnswer, DetectionInv
  <2>2. \E m \in Promise!Answers : Promise!Send(m)
    BY <1>1, SMT DEF SendFound, SendNotFound, SendAnswer, Send, Promise!Send, Promise!Answers
  <2>3. Promise!Answer
    BY <2>1, <2>2, SMT DEF Promise!Answer
  <2> QED
    BY <2>3 DEF Promise!Next, Promise!DetectorNext
<1>2. CASE Finish
  <2>1. Promise!Finish
    BY <1>2, SMT DEF Finish, Promise!Finish, Promise!sharedVars
  <2> QED
    BY <2>1 DEF Promise!Next, Promise!DetectorNext
<1>3. CASE GetHog \/ WakeUp \/ GetHogClear \/ GetHogClearStatus \/ CheckDetecting
           \/ HumanFound \/ NoHumanAtAll \/ NextScale \/ NextHog \/ NextHogProgram
  BY <1>3, SMT DEF GetHog, WakeUp, GetHogClear, GetHogClearStatus, CheckDetecting,
     HumanFound, NoHumanAtAll, NextScale, NextHog, NextHogProgram
<1> QED
  BY <1>1, <1>2, <1>3 DEF AdaboostThread

LEMMA StepEnvironment ==
  ASSUME WakeUpBySignal \/ RunEnds \/ Environment
  PROVE  [Promise!Next]_promiseVars
<1> USE DEF hpcP, apcP, promiseVars
<1>1. CASE WakeUpBySignal \/ RunEnds
  BY <1>1, SMT DEF WakeUpBySignal, RunEnds
<1>2. CASE Request
  <2>1. Promise!Request
    BY <1>2, SMT DEF Request, Promise!Request, Promise!others
  <2> QED
    BY <2>1 DEF Promise!Next
<1>3. CASE OtherReport
  <2>1. Promise!OtherReport
    BY <1>3, SMT DEF OtherReport, Promise!OtherReport, Promise!others, Send, Promise!Send
  <2> QED
    BY <2>1 DEF Promise!Next
<1>4. CASE Consume
  <2>1. Promise!Consume
    BY <1>4, SMT DEF Consume, Promise!Consume, Promise!others
  <2> QED
    BY <2>1 DEF Promise!Next
<1> QED
  BY <1>1, <1>2, <1>3, <1>4 DEF Environment

(* A request that is accepted is answered once, and the next one accepted  *)
(* only afterwards, however the threads, the interrupt and the FPGA        *)
(* interleave.                                                             *)
THEOREM CodeKeepsPromise == Spec => KeepsPromise
<1>1. Init => Promise!Init
  BY SMT DEF Init, SharedInit, Promise!Init, Promise!SharedInit, Promise!DetectorInit
<1>2. DetectionInv /\ [Next]_vars
        => [Promise!Next]_<<Promise!sharedVars, Promise!detectorVars>>
  <2> SUFFICES ASSUME DetectionInv, [Next]_vars
               PROVE  [Promise!Next]_promiseVars
    BY DEF promiseVars, hpcP, apcP, Promise!sharedVars, Promise!detectorVars
  <2>1. CASE UNCHANGED vars
    BY <2>1, SMT DEF vars, promiseVars, hpcP, apcP
  <2> QED
    BY <2>1, StepHuman, StepAdaboost, StepEnvironment DEF Next
<1> QED
  BY <1>1, <1>2, DetectionInvariance, PTL DEF Spec, KeepsPromise, Promise!Spec

-----------------------------------------------------------------------------
(***************************************************************************)
(* Which features adaboostthread looks at.                                 *)
(***************************************************************************)

Classifying == {"exec", "found", "not_found"}

(* The FPGA runs only for a detection whose interrupt adaboostthread has   *)
(* still to take, and is idle while either thread prepares a run.          *)
FollowsInterrupt ==
  /\ wait_status \in {0, 1} /\ fpga \in {"idle", "running"}
  /\ hpc \in {"set", "sleep", "program"}
       => apc = "wait" /\ fpga = "idle" /\ wait_status = 0 /\ count = 0
  /\ hpc \in {"sleep", "program"} => detectstatus # 0
  /\ detectstatus = 0
       => count = 0 /\ fpga = "idle" /\ (apc \in {"wait", "check"} => wait_status = 0)
  /\ fpga = "running"
       => apc \in {"get_hog", "wait"} /\ wait_status = 0 /\ programmed = count
  /\ apc = "program" => wait_status = 0
  /\ apc \in {"get_hog", "wait"} /\ wait_status = 1 /\ detectstatus # 0 => result = count
  /\ apc \in {"clear", "clear_status", "check"} /\ detectstatus # 0 => result = count
  /\ apc \in Classifying => result = count

FreshInv ==
  /\ DetectionInv
  /\ history # "disturbed" => FollowsInterrupt

LEMMA FreshInvHuman ==
  ASSUME FreshInv, HumanDetectThread, "prompt" \in Timing,
         history \in {"clean", "early", "disturbed"},
         apc \in {"get_hog", "wait", "clear", "clear_status", "check", "exec",
                  "found", "not_found", "finish", "sleep", "program"}
  PROVE  FreshInv'
<1>1. DetectionInv'
  BY DetectionInvHuman DEF FreshInv
<1>2. CASE TakeRequest
  BY <1>1, <1>2, SMT DEF TakeRequest, Remember, FreshInv, FollowsInterrupt, Classifying
<1>3. CASE TestReady
  BY <1>1, <1>3, SMT DEF TestReady, FrameInTime, WayBack, Remember, FreshInv, FollowsInterrupt,
     DetectionInv, Classifying
<1>4. CASE SetDetecting
  BY <1>1, <1>4, SMT DEF SetDetecting, FreshInv, FollowsInterrupt, Classifying
<1>5. CASE FirstHog
  BY <1>1, <1>5, SMT DEF FirstHog, ForgetInterrupt, FreshInv, FollowsInterrupt, Classifying
<1>6. CASE FirstHogProgram
  BY <1>1, <1>6, SMT DEF FirstHogProgram, Program, FreshInv, FollowsInterrupt, DetectionInv, Classifying
<1> QED
  BY <1>2, <1>3, <1>4, <1>5, <1>6 DEF HumanDetectThread

LEMMA FreshInvAdaboost ==
  ASSUME FreshInv, AdaboostThread
  PROVE  FreshInv'
<1>1. DetectionInv'
  BY DetectionInvAdaboost DEF FreshInv
<1>2. CASE GetHog
  BY <1>1, <1>2, SMT DEF GetHog, FreshInv, FollowsInterrupt, Classifying
<1>3. CASE WakeUp
  BY <1>1, <1>3, SMT DEF WakeUp, FreshInv, FollowsInterrupt, Classifying
<1>4. CASE GetHogClear
  BY <1>1, <1>4, SMT DEF GetHogClear, FreshInv, FollowsInterrupt, Classifying
<1>5. CASE GetHogClearStatus
  BY <1>1, <1>5, SMT DEF GetHogClearStatus, ForgetInterrupt, FreshInv, FollowsInterrupt, Classifying
<1>6. CASE CheckDetecting
  BY <1>1, <1>6, SMT DEF CheckDetecting, FreshInv, FollowsInterrupt, Classifying
<1>7. CASE HumanFound \/ NoHumanAtAll
  BY <1>1, <1>7, SMT DEF HumanFound, NoHumanAtAll, FreshInv, FollowsInterrupt, Classifying
<1>8. CASE NextScale
  BY <1>1, <1>8, SMT DEF NextScale, FreshInv, FollowsInterrupt, DetectionInv, Classifying
<1>9. CASE NextHog
  BY <1>1, <1>9, SMT DEF NextHog, ForgetInterrupt, FreshInv, FollowsInterrupt, DetectionInv, Classifying
<1>10. CASE NextHogProgram
  BY <1>1, <1>10, SMT DEF NextHogProgram, Program, FreshInv, FollowsInterrupt, DetectionInv, Classifying
<1>11. CASE SendFound \/ SendNotFound
  BY <1>1, <1>11, SMT DEF SendFound, SendNotFound, SendAnswer, FreshInv, FollowsInterrupt, Classifying
<1>12. CASE Finish
  BY <1>1, <1>12, SMT DEF Finish, FreshInv, FollowsInterrupt, Classifying
<1> QED
  BY <1>2, <1>3, <1>4, <1>5, <1>6, <1>7, <1>8, <1>9, <1>10, <1>11, <1>12
  DEF AdaboostThread

LEMMA FreshInvStep ==
  ASSUME TypeOK, FreshInv, [Next]_vars, "prompt" \in Timing
  PROVE  FreshInv'
<1>1. DetectionInv'
  BY DetectionInvStep DEF FreshInv
<1>2. CASE WakeUpBySignal \/ RunEnds
  BY <1>1, <1>2, SMT DEF WakeUpBySignal, Remember, RunEnds, FreshInv, FollowsInterrupt, Classifying
<1>3. CASE Environment
  BY <1>1, <1>3, SMT DEF Environment, Request, OtherReport, Consume, FreshInv, FollowsInterrupt, Classifying
<1>4. CASE UNCHANGED vars
  BY <1>1, <1>4, SMT DEF vars, FreshInv, FollowsInterrupt, Classifying
<1> QED
  BY <1>2, <1>3, <1>4, FreshInvHuman, FreshInvAdaboost DEF Next, TypeOK

(* As long as no signal has ended a wait and no frame that was begun       *)
(* before an answer has let a detection begin behind adaboostthread's      *)
(* back, no stale interrupt makes it classify the features of another      *)
(* image scale, or features the FPGA is still writing, provided reading a  *)
(* frame outlasts its way back to the interrupt it waits for.              *)
THEOREM FeaturesAreFresh ==
  ASSUME "prompt" \in Timing
  PROVE  Spec => []FreshFeatures
<1>1. Init => FreshInv
  BY SMT DEF Init, FreshInv, FollowsInterrupt, DetectionInv, Classifying
<1>2. FreshInv => FreshFeatures
  BY SMT DEF FreshInv, FollowsInterrupt, FreshFeatures, Classifying
<1>3. TypeOK /\ FreshInv /\ [Next]_vars => FreshInv'
  BY FreshInvStep
<1> QED
  BY <1>1, <1>2, <1>3, HumanTypeCorrect, PTL DEF Spec

================================================================================
