----------------------------- MODULE HumanDetect -----------------------------
(***************************************************************************)
(* The human detection as it is coded: exec_humandetect and adaboostthread *)
(* (fpgadrv.c) on top of the ioctls and the interrupt handler of the       *)
(* driver (fpgamod.c) and of the FPGA, which computes the HOG features of  *)
(* the camera image for one image scale per run.  The threads share        *)
(* detectstatus, the driver shares wait_status with its handler, and       *)
(* nothing is locked.                                                      *)
(***************************************************************************)
EXTENDS SasShared

HogCount == 3              (* HOGCOUNT *)
Pattern == 0 .. HogCount + 1  (* hog10, hog12, ... hog18 *)

VARIABLES
  detectstatus,
  hpc,           (* Where exec_humandetect is.                             *)
  apc,           (* Where adaboostthread is.                               *)
  count,         (* The image scale adaboostthread is at.                  *)
  wait_status,   (* Set by the interrupt handler.                          *)
  fpga,          (* "running" from programming to the end of the run.      *)
  irq_enabled,   (* Register 0x34: the end of the run interrupts.          *)
  programmed,    (* Scale the FPGA was last programmed for ...             *)
  result,        (* ... and scale of the features in its memory.           *)
  history        (* No variable of the code: whether the frame being read  *)
                 (* was begun before the last answer ("early"), and if the *)
                 (* way to an interrupt has ever been disturbed.           *)

threadVars == <<detectstatus, hpc, apc, count, history>>
deviceVars == <<wait_status, fpga, irq_enabled, programmed, result>>
vars == <<sharedVars, threadVars, deviceVars>>

TypeOK ==
  /\ SharedTypeOK
  /\ detectstatus \in 0 .. 2
  /\ hpc \in {"receive", "camera", "set", "sleep", "program"}
  /\ apc \in {"get_hog", "wait", "clear", "clear_status", "check", "exec",
              "found", "not_found", "finish", "sleep", "program"}
  /\ count \in Pattern
  /\ wait_status \in 0 .. 1
  /\ fpga \in {"idle", "running"}
  /\ irq_enabled \in BOOLEAN
  /\ programmed \in Pattern
  /\ result \in Pattern
  /\ history \in {"clean", "early", "disturbed"}

(* The FPGA comes up running, with its interrupt enabled: detectstatus     *)
(* leaves 2 only through the answer to that run.                           *)
Init ==
  /\ SharedInit
  /\ detectstatus = 2
  /\ hpc = "receive"
  /\ apc = "get_hog"
  /\ count = 0
  /\ wait_status = 0
  /\ fpga = "running"
  /\ irq_enabled = TRUE
  /\ programmed = 0
  /\ result = 0
  /\ history = "clean"

HStep(from, to) == hpc = from /\ hpc' = to /\ UNCHANGED <<apc, count>>
AStep(from, to) == apc = from /\ apc' = to /\ UNCHANGED <<hpc, history>>

(* What has been disturbed stays so.                                       *)
Remember(h) == history' = IF history = "disturbed" THEN history ELSE h

-----------------------------------------------------------------------------
(* exec_humandetect.                                                       *)

TakeRequest ==
  /\ HStep("receive", "camera")
  /\ fpgamsg > 0
  /\ fpgamsg' = fpgamsg - 1
  /\ Remember(IF detectstatus # 0 /\ apc # "finish" THEN "early" ELSE "clean")
  /\ UNCHANGED <<sas_msg, range_status, picture, has_taken, initial_flag, door,
                 detectstatus, deviceVars>>

(* The way of adaboostthread from its answer to the wait for an interrupt. *)
WayBack == {"finish", "get_hog", "clear", "clear_status", "check"}

(* With "prompt", reading a camera frame takes longer than this way: a     *)
(* frame that is begun after the answer is not there before its end.  One  *)
(* that was begun earlier may be there at any point of it.                 *)
FrameInTime ==
  "prompt" \in Timing /\ history = "clean" => apc \notin WayBack

TestReady ==
  /\ FrameInTime
  /\ HStep("camera", IF detectstatus = 0 THEN "set" ELSE "receive")
  /\ Remember(IF history = "early" /\ detectstatus = 0 /\ apc \in WayBack
                THEN "disturbed" ELSE history)
  /\ UNCHANGED <<sharedVars, detectstatus, deviceVars>>

SetDetecting ==
  /\ HStep("set", "sleep")
  /\ detectstatus' = 1
  /\ UNCHANGED <<sharedVars, history, deviceVars>>

(* Mutant: wait_status stays set.                                          *)
ForgetNothing == UNCHANGED <<wait_status, fpga, irq_enabled, programmed, result>>

(* ioctl(fpga_detect_human_hog10): after a sleep the driver forgets the    *)
(* last interrupt, then programs the FPGA.                                 *)
ForgetInterrupt ==
  /\ wait_status' = 0
  /\ UNCHANGED <<fpga, irq_enabled, programmed, result>>

(* Mutant: register 0x34 is not written.                                   *)
ProgramNoInterrupt(p) ==
  /\ fpga' = "running"
  /\ programmed' = p
  /\ UNCHANGED <<irq_enabled, wait_status, result>>

Program(p) ==
  /\ fpga' = "running"
  /\ irq_enabled' = TRUE
  /\ programmed' = p
  /\ UNCHANGED <<wait_status, result>>

FirstHog ==
  /\ HStep("sleep", "program")
  /\ ForgetInterrupt
  /\ UNCHANGED <<sharedVars, history, detectstatus>>

FirstHogProgram ==
  /\ HStep("program", "receive")
  /\ Program(0)
  /\ UNCHANGED <<sharedVars, history, detectstatus>>

-----------------------------------------------------------------------------
(* adaboostthread.                                                         *)

(* ioctl(fpga_get_hog) waits for the interrupt, or takes one that has been *)
(* there before: only then does it clear the device and wait_status.       *)
GetHog ==
  /\ AStep("get_hog", IF wait_status = 0 THEN "wait" ELSE "clear")
  /\ UNCHANGED <<sharedVars, detectstatus, count, deviceVars>>

WakeUp ==
  /\ AStep("wait", "check")
  /\ wait_status = 1
  /\ UNCHANGED <<sharedVars, detectstatus, count, deviceVars>>

(* wait_event_interruptible also returns when a signal comes; its result   *)
(* is not looked at, and the features are taken without an interrupt.      *)
WakeUpBySignal ==
  /\ apc = "wait"
  /\ apc' = "check"
  /\ Remember("disturbed")
  /\ UNCHANGED <<sharedVars, detectstatus, hpc, count, deviceVars>>

GetHogClear ==
  /\ AStep("clear", "clear_status")
  /\ irq_enabled' = FALSE
  /\ UNCHANGED <<sharedVars, detectstatus, count, wait_status, fpga, programmed, result>>

GetHogClearStatus ==
  /\ AStep("clear_status", "check")
  /\ ForgetInterrupt
  /\ UNCHANGED <<sharedVars, detectstatus, count>>

(* Mutant: without "if(detectstatus == 0) continue".                       *)
CheckNothing ==
  /\ AStep("check", "exec")
  /\ UNCHANGED <<sharedVars, detectstatus, count, deviceVars>>

CheckDetecting ==
  /\ AStep("check", IF detectstatus = 0 THEN "get_hog" ELSE "exec")
  /\ UNCHANGED <<sharedVars, detectstatus, count, deviceVars>>

(* exec_adaboost finds a human in the features, or not; without one the    *)
(* next scale is tried until the last has been.                            *)
HumanFound ==
  /\ AStep("exec", "found")
  /\ UNCHANGED <<sharedVars, detectstatus, count, deviceVars>>

NoHumanAtAll ==
  /\ AStep("exec", "not_found")
  /\ count > HogCount
  /\ UNCHANGED <<sharedVars, detectstatus, count, deviceVars>>

NextScale ==
  /\ AStep("exec", "sleep")
  /\ count <= HogCount
  /\ count' = count + 1
  /\ UNCHANGED <<sharedVars, detectstatus, deviceVars>>

NextHog ==
  /\ AStep("sleep", "program")
  /\ ForgetInterrupt
  /\ UNCHANGED <<sharedVars, detectstatus, count>>

NextHogProgram ==
  /\ AStep("program", "get_hog")
  /\ Program(count)
  /\ UNCHANGED <<sharedVars, detectstatus, count>>

SendAnswer(from, m) ==
  /\ AStep(from, "finish")
  /\ Send(m)
  /\ UNCHANGED <<fpgamsg, range_status, picture, has_taken, initial_flag, door,
                 detectstatus, count, deviceVars>>

SendFound == SendAnswer("found", {"recognize_result"})

SendNotFound == SendAnswer("not_found", {"disappear_object"})

Finish ==
  /\ AStep("finish", "get_hog")
  /\ detectstatus' = 0
  /\ count' = 0
  /\ UNCHANGED <<sharedVars, deviceVars>>

-----------------------------------------------------------------------------
(* The FPGA and detect_human_handler, which runs when the interrupt comes. *)

RunEnds ==
  /\ fpga = "running"
  /\ fpga' = "idle"
  /\ result' = programmed
  /\ wait_status' = IF irq_enabled THEN 1 ELSE wait_status
  /\ irq_enabled' = FALSE
  /\ UNCHANGED <<sharedVars, threadVars, programmed>>

-----------------------------------------------------------------------------
(* The rest of the program, as in DetectorAlone.                           *)

Request ==
  /\ fpgamsg < MaxMsgs
  /\ fpgamsg' = fpgamsg + 1
  /\ UNCHANGED <<sas_msg, range_status, picture, has_taken, initial_flag, door,
                 threadVars, deviceVars>>

OtherReport ==
  /\ Send({"taking_now"})
  /\ UNCHANGED <<fpgamsg, range_status, picture, has_taken, initial_flag, door,
                 threadVars, deviceVars>>

Consume ==
  /\ sas_msg # << >>
  /\ sas_msg' = Tail(sas_msg)
  /\ UNCHANGED <<fpgamsg, range_status, picture, has_taken, initial_flag, door,
                 threadVars, deviceVars>>

HumanDetectThread ==
  \/ TakeRequest
  \/ TestReady
  \/ SetDetecting
  \/ FirstHog
  \/ FirstHogProgram

AdaboostThread ==
  \/ GetHog
  \/ WakeUp
  \/ GetHogClear
  \/ GetHogClearStatus
  \/ CheckDetecting
  \/ HumanFound
  \/ NoHumanAtAll
  \/ NextScale
  \/ NextHog
  \/ NextHogProgram
  \/ SendFound
  \/ SendNotFound
  \/ Finish

Environment == Request \/ OtherReport \/ Consume

Next == HumanDetectThread \/ AdaboostThread \/ WakeUpBySignal \/ RunEnds \/ Environment

Spec == Init /\ [][Next]_vars

-----------------------------------------------------------------------------
(* The promise the rest of the program relies on.                          *)
Promise ==
  INSTANCE DetectorAlone WITH
    hpc <- IF hpc \in {"camera", "set"} THEN "camera" ELSE "receive",
    apc <- IF apc = "finish" THEN "answered" ELSE "work"

(* The code keeps the promise: every answer follows an accepted request,   *)
(* or the run at power-up, and no request is accepted before the answer.   *)
KeepsPromise == Promise!Spec

(* Unless a signal has ended a wait, or a frame begun before an answer has *)
(* let a detection begin before adaboostthread was back from it,           *)
(* adaboostthread classifies the features of the scale it asked for, and   *)
(* the FPGA is not writing them at the time, although wait_status is left  *)
(* set by fpga_get_hog and cleared by both threads.                        *)
FreshFeatures ==
  apc \in {"exec", "found", "not_found"} /\ history # "disturbed"
    => fpga = "idle" /\ result = count

=============================================================================
