----------------------------- MODULE DoorControl -----------------------------
(***************************************************************************)
(* The door controller: the main thread, the ranging thread and the human  *)
(* detection, interleaved step by step, with what they owe each other.     *)
(***************************************************************************)
EXTENDS MainLoop, Ranging, Detector

vars == <<sharedVars, mainVars, rangingVars, detectorVars>>

Init ==
  /\ SharedInit
  /\ MainInit
  /\ RangingInit
  /\ DetectorInit

-----------------------------------------------------------------------------
(* The assumptions on timing.  "prompt": the sampling interval of 20 ms is *)
(* long enough for the main thread to deal with the messages it has, and   *)
(* the frame exec_humandetect reads before it looks at detectstatus takes  *)
(* longer than what is left to do after a message has been sent.           *)
(* "settled": nobody comes before the detection the FPGA starts with at    *)
(* power-up has been answered.                                             *)

(* The main thread waits for a message, or for a picture to be uploaded.   *)
MainAtRest ==
  \/ mpc = "receive" /\ sas_msg = << >>
  \/ mpc = "take"

SampleInTime ==
  /\ "prompt" \in Timing => MainAtRest
  /\ "settled" \in Timing => detectstatus # 2

FrameInTime ==
  "prompt" \in Timing => apc = "work" /\ step = "decide"

Main == MainNext /\ UNCHANGED <<rangingVars, detectorVars>>

RangingThread ==
  /\ stage = "sample" => SampleInTime
  /\ RangingNext
  /\ UNCHANGED <<mainVars, detectorVars>>

DetectorThreads ==
  /\ DetectorNext
  /\ hpc = "camera" /\ hpc' # "camera" => FrameInTime
  /\ UNCHANGED <<mainVars, rangingVars>>

Next == Main \/ RangingThread \/ DetectorThreads

Spec == Init /\ [][Next]_vars

(* Fairness.  Threads keep running; the FPGA raises the interrupts that    *)
(* lead to an answer, the first one at power-up included.  People come and *)
(* go: no distance stays away for ever, and somebody who keeps approaching *)
(* lets the speed estimate end.                                            *)
(* That TakePicture is one step of Main assumes that an upload ends: a     *)
(* connection to the cloud that is lost without a sign would keep main for *)
(* ever, as curl is given no timeout (CutOff of Picture, aws.cpp line 154  *)
(* and 155).                                                               *)
HumanDetectThread ==
  \/ TakeRequest
  \/ AcceptRequest
  \/ DropRequest

AdaboostThread == Answer \/ Finish

ThreadsRun ==
  /\ WF_vars(Main)
  /\ WF_vars(RangingThread)
  /\ WF_vars(HumanDetectThread /\ DetectorThreads)
  /\ WF_vars(AdaboostThread /\ DetectorThreads)

PeopleComeAndGo ==
  /\ \A r \in Readings : SF_vars(Sample /\ reading' = r /\ RangingThread)
  /\ SF_vars(SpeedStageDone /\ RangingThread)

RunningSpec == Spec /\ ThreadsRun

FairSpec == RunningSpec /\ PeopleComeAndGo

-----------------------------------------------------------------------------
(* Every variable keeps to its range, and sas_msg never holds more than it *)
(* was created for.                                                        *)
TypeOK ==
  /\ SharedTypeOK
  /\ MainTypeOK
  /\ RangingTypeOK
  /\ DetectorTypeOK

Queued(f) == \E i \in DOMAIN sas_msg : f \in sas_msg[i]

(* No two results travel in one message, but for what the stack has left   *)
(* in buf, which the code never initialises: main.c takes a message that   *)
(* says both that the speed is known and that a human is there as a case   *)
(* that does not occur, and every stage of ranging clears its flag of buf  *)
(* once the message is sent (range.c, main.c lines 94 to 97).              *)
OneResultPerMessage ==
  \A i \in DOMAIN sas_msg : \A f, g \in sas_msg[i] \ StackResidue : f = g

AnswerQueued == Queued("recognize_result") \/ Queued("disappear_object")

(* A detection is under way: a request waits, is being looked at, or has   *)
(* been accepted and not answered.                                         *)
DetectionUnderWay ==
  \/ fpgamsg > 0
  \/ hpc = "camera"
  \/ detectstatus # 0 /\ apc = "work"

(* A pass that waits for the human detection waits for something that is   *)
(* coming: exec_humandetect drops a request made while a detection is      *)
(* under way, and then that detection must still have its answer to give.  *)
AnswerPending ==
  \/ status = "wait_detect"
  \/ status = "start_process" /\ mpc = "receive"
  => DetectionUnderWay \/ AnswerQueued

(* Once a human has been recognised, no further answer comes in this pass: *)
(* a second one, disappear_object, would abandon the pass with the door on *)
(* its way.                                                                *)
OneAnswerPerPass ==
  status \in {"wait_calculate", "approval_open", "wait_close"}
  => ~DetectionUnderWay /\ ~AnswerQueued

(* A request is in fpgamsg only after the detection before it, that of     *)
(* power-up included, has been answered, so that exec_humandetect reads no *)
(* frame for it while adaboostthread is at work: FreshFeatures of module   *)
(* HumanDetect has to except such a frame.                                 *)
RequestAfterAnswer ==
  fpgamsg > 0 => detectstatus = 0 \/ apc = "answered"

(* The door stands open only in the part of a pass that will close it.     *)
OpenOnlyInPass ==
  door = "open" => status \in {"approval_open", "wait_close"}

(* What a pass did about its picture is over when the next one starts: no  *)
(* taking_now is left for a status that ignores it, and once main waits    *)
(* for the next object picture and has_taken are back to OFF.              *)
PictureBelongsToPass ==
  /\ Queued("taking_now") => status \in PictureStatus
  /\ status = "initialize" /\ MainAtRest /\ stage = "sample" => ~picture /\ ~has_taken

(* An object is reported only to a main thread that waits for one: a pass  *)
(* never starts inside a pass (range.c calls it nesting of states).        *)
NoNestedDetection ==
  Queued("detect_result") => status = "initialize"

(* The command main has given is still there, or its report is on the way, *)
(* whenever main waits for that report.                                    *)
Serving(c, st) == range_status = c \/ At(st, "send")

CommandNotLost ==
  mpc = "receive" /\ sas_msg = << >> =>
    /\ status = "initialize" /\ initial_flag => Serving("detect", "detect")
    /\ status \in {"start_process", "wait_calculate"} => Serving("speed", "speed")
    /\ status = "approval_open" => Serving("dooropen", "open")
    /\ status = "wait_close" => Serving("doorclose", "close")

(* Lines 326, 413, 453 and 474 of range.c: range_status goes back to       *)
(* initial after a report only if it has not been changed meanwhile.       *)
ResetOnlyIfUnchanged ==
  [][RangingThread /\ range_status' # range_status
       => range_status = Command[stage]]_vars

(* Line 435 of range.c: main is not told that the door is open before it   *)
(* has opened.                                                             *)
OpenReportMeansOpen == At("open", "send") => door = "open"

(* A pass comes to its end, whatever message arrives when.                 *)
PassEnds == status # "initialize" ~> status = "initialize"

(* Line 464 of range.c: the door is closed when people have left.          *)
DoorCloses == door = "open" ~> door = "closed"

(* Main gets past a full request queue, and ranging past a full sas_msg.   *)
NobodyStuckSending ==
  /\ mpc = "request" ~> mpc = "receive"
  /\ step = "send" ~> step # "send"

-----------------------------------------------------------------------------
(* What the human detection can tell of sas_msg: its own answers from the  *)
(* messages of the others.                                                 *)
Seen ==
  [i \in DOMAIN sas_msg |->
     IF sas_msg[i] \in Answers THEN sas_msg[i] ELSE {"taking_now"}]

Detection ==
  INSTANCE DetectorAlone WITH
    sas_msg <- Seen,
    range_status <- "initial",
    picture <- FALSE,
    has_taken <- FALSE,
    initial_flag <- FALSE,
    door <- "closed"

(* The main and the ranging thread treat the detection as DetectorAlone    *)
(* assumes, which HumanDetect has been shown to implement: all they do to  *)
(* it is to make requests, send messages that are no answers, and take     *)
(* messages from sas_msg.                                                  *)
DetectorInPlace == Detection!Spec

-----------------------------------------------------------------------------
(* The pass as its user sees it.                                           *)
Promise ==
  INSTANCE Pass WITH
    phase <- status,
    uploading <- taking_picture

(* The threads and their queues together carry out one pass after the      *)
(* other: in every interleaving main's status, the door and the uploads    *)
(* move only as module Pass allows.                                        *)
CarriesOutPasses == Promise!Spec

=============================================================================
