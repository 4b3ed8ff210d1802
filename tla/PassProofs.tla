----------------------------- MODULE PassProofs -----------------------------
(***************************************************************************)
(* Theorems about what belongs together in a pass of the door controller:  *)
(* a pass gets one answer of the human detection, opens the door only      *)
(* where it will close it, leaves no picture to the next pass, and so      *)
(* implements module Pass; and, if a reset cannot overwrite a new command, *)
(* it loses no command.  They hold for every queue capacity and every set  *)
(* of readings and averages, under the timing assumptions each theorem     *)
(* names.                                                                  *)
(***************************************************************************)
EXTENDS DoorControlProofs

(***************************************************************************)
(* The inductive invariant.                                                *)
(***************************************************************************)

(* The flags the human detection raises.                                   *)
AnswerFlags == {"recognize_result", "disappear_object"}

(* What may stand behind message m in sas_msg.                             *)
MayFollow(m, n) ==
  /\ "close_result" \in m => n \subseteq {"close_result", "detect_result"}
  /\ "detect_result" \notin m
  /\ m \cap AnswerFlags = {} \/ n \cap AnswerFlags = {}

(* Every message says one thing, at most one is an answer of the human     *)
(* detection, a report of a closed door is followed by nothing of the pass *)
(* it ends, and nothing follows a report of an object.                     *)
QueueInv ==
  /\ \A i \in DOMAIN sas_msg : \E f \in Flags : sas_msg[i] = {f}
  /\ \A i, j \in DOMAIN sas_msg : i < j => MayFollow(sas_msg[i], sas_msg[j])

(* In which status main can find which message in sas_msg.                 *)
ExpectedInv ==
  /\ Queued("detect_result") => status = "initialize"
  /\ AnswerQueued => status \in {"initialize", "start_process", "wait_detect"}
  /\ Queued("taking_now") => status \in PictureStatus
  /\ Queued("open_result") => status \in {"approval_open", "wait_close"}
  /\ Queued("close_result") => status \in {"wait_close", "initialize"}

(* An accepted request, or the run at power-up, is to be answered.         *)
Detecting == detectstatus # 0 /\ apc = "work"

(* The detection the FPGA starts with at power-up is not over, and no      *)
(* object has been looked for yet.                                         *)
PowerUp ==
  /\ status = "initialize"
  /\ stage \in {"setup", "sample", "exited"}
  /\ fpgamsg = 0
  /\ hpc = "receive"
  /\ detectstatus = 2 \/ AnswerQueued
  /\ ~Queued("close_result")
  /\ ~Queued("detect_result")

(* The request of a pass is in one place at a time: in fpgamsg, in the     *)
(* hands of exec_humandetect, at the FPGA, or answered in sas_msg; and it  *)
(* exists only while its pass waits for the answer.                        *)
TokenInv ==
  /\ fpgamsg > 0 => fpgamsg = 1 /\ hpc = "receive" /\ ~Detecting /\ ~AnswerQueued
  /\ hpc = "camera" => ~Detecting /\ ~AnswerQueued
  /\ Detecting => ~AnswerQueued
  /\ DetectionUnderWay \/ AnswerQueued =>
       \/ status = "wait_detect"
       \/ status = "start_process" /\ mpc = "receive"
       \/ PowerUp

(* In which status which command of main can stand.  An entry function     *)
(* that is still to run leaves the command of the status before.           *)
CommandInv ==
  /\ range_status = "speed" =>
       \/ status = "start_process" /\ mpc # "enter"
       \/ status \in {"wait_detect", "wait_calculate"}
       \/ status = "approval_open" /\ mpc \in {"enter", "prepare", "open"}
       \/ status = "initialize" /\ mpc = "enter"
  /\ range_status = "dooropen" =>
       status = "approval_open" \/ (status = "wait_close" /\ mpc = "enter")
  /\ range_status = "doorclose" =>
       status = "wait_close" \/ (status = "initialize" /\ mpc = "enter")
  /\ range_status \in {"speed", "dooropen"} =>
       ~Queued("close_result") /\ ~At("close", "send")
  /\ ~initial_flag =>
       /\ status = "initialize"
       /\ stage = "setup"
       /\ range_status = "initial"
       /\ ~Queued("detect_result")

(* What main can be doing while the ranging thread reports.                *)
ReportInv ==
  /\ step = "send" => rbuf = {Report[stage]}
  /\ At("speed", "send") => ~Queued("close_result")
  /\ At("open", "send") =>
       status \in {"approval_open", "wait_close"} /\ ~Queued("close_result")
  /\ At("close", "send") => status \in {"wait_close", "initialize"} /\ door = "closed"
  /\ stage = "picture" /\ step # "decide" =>
       status \in PictureStatus /\ ~Queued("close_result")

(* From the moment an object is to be reported until main knows of it,     *)
(* nothing of an earlier pass is left.                                     *)
ObjectInv ==
  Queued("detect_result") \/ At("detect", "send") =>
    /\ status = "initialize"
    /\ range_status \in {"initial", "detect"}
    /\ ~picture
    /\ ~DetectionUnderWay
    /\ step \in {"send", "check", "reset"} => stage = "detect"

(* The pass is about to end, or has ended.                                 *)
LeavingDoor == status \notin PictureStatus \/ Queued("close_result")

(* A picture is wanted only in a pass, save while the close stage is       *)
(* clearing up after its report.                                           *)
PictureInv ==
  /\ picture /\ LeavingDoor =>
       stage = "close" /\ step \in {"check", "reset", "clear", "clear2"}
  /\ has_taken /\ LeavingDoor =>
       stage = "close" /\ step \in {"check", "reset", "clear"}

(* An open door is closed by the pass that is under way: no report says    *)
(* that it has been.                                                       *)
DoorInv ==
  door = "open" => status \in {"approval_open", "wait_close"} /\ ~Queued("close_result")

(* Everything that belongs together in a pass.                             *)
PassInv ==
  /\ QueueInv
  /\ ExpectedInv
  /\ TokenInv
  /\ CommandInv
  /\ ReportInv
  /\ ObjectInv
  /\ PictureInv
  /\ DoorInv

(* What holds when the ranging thread looks at range_status after a        *)
(* report: where the command could still be the one of a status that       *)
(* waits, the report of the command is in the queue.                       *)
CheckInv ==
  /\ At("detect", "check") =>
       \/ status = "initialize" /\ Queued("detect_result")
       \/ status = "start_process" /\ sas_msg = << >> /\ ~Detecting
  /\ At("speed", "check") /\ status \in {"start_process", "wait_calculate"} =>
       Queued("calculate_result")
  /\ At("open", "check") =>
       status \in {"approval_open", "wait_close"} /\ ~Queued("close_result")
  /\ At("open", "check") /\ status = "approval_open" => Queued("open_result")
  /\ At("close", "check") => status \in {"wait_close", "initialize"}
  /\ At("close", "check") /\ status = "wait_close" => Queued("close_result")
  /\ step # "reset"

(* What the command of main's status has come to once main waits.          *)
ServeInv ==
  /\ status = "initialize" /\ mpc = "receive" /\ initial_flag =>
       range_status = "detect" \/ Queued("detect_result")
  /\ status = "start_process" /\ mpc # "enter" =>
       range_status = "speed" \/ Queued("calculate_result")
  /\ status = "wait_calculate" => range_status = "speed" \/ Queued("calculate_result")
  /\ status = "approval_open" /\ mpc = "receive" =>
       range_status = "dooropen" \/ Queued("open_result")
  /\ status = "wait_close" /\ mpc = "receive" =>
       range_status = "doorclose" \/ Queued("close_result")

-----------------------------------------------------------------------------
(***************************************************************************)
(* What sending and receiving do to the queue.                             *)
(***************************************************************************)

(* A message of flag f raises f in the queue and nothing else.             *)
LEMMA SendFlag ==
  ASSUME SharedTypeOK, NEW f \in Flags, Send({f})
  PROVE  \A g : Queued(g)' <=> Queued(g) \/ g = f
<1>1. {f} \in Message
  BY SMT DEF Message
<1>2. ASSUME NEW g, Queued(g) PROVE Queued(g)'
  BY <1>1, <1>2, SendKeepsQueued
<1>3. Queued(f)'
  BY <1>1, SendQueues
<1>4. \A i \in DOMAIN sas_msg' :
        \/ i \in DOMAIN sas_msg /\ sas_msg'[i] = sas_msg[i]
        \/ sas_msg'[i] = {f}
  BY <1>1, SMT DEF Send, SharedTypeOK
<1>5. ASSUME NEW g, Queued(g)', g # f PROVE Queued(g)
  <2>1. PICK i \in DOMAIN sas_msg' : g \in sas_msg'[i]
    BY <1>5, Zenon DEF Queued
  <2>2. sas_msg'[i] # {f}
    BY <1>5, <2>1, Zenon
  <2>3. i \in DOMAIN sas_msg /\ g \in sas_msg[i]
    BY <1>4, <2>1, <2>2, Zenon
  <2> QED
    BY <2>3, Zenon DEF Queued
<1> QED
  BY <1>2, <1>3, <1>5, Zenon

(* The order is kept by a message that may stand behind each that is       *)
(* queued.                                                                 *)
LEMMA SendOrdered ==
  ASSUME SharedTypeOK, QueueInv, NEW f \in Flags, Send({f}),
         \A i \in DOMAIN sas_msg : MayFollow(sas_msg[i], {f})
  PROVE  QueueInv'
<1>1. {f} \in Message
  BY SMT DEF Message
<1>2. \A i \in DOMAIN sas_msg' :
        /\ i \in Nat
        /\ \/ i \in DOMAIN sas_msg /\ sas_msg'[i] = sas_msg[i]
           \/ i = Len(sas_msg) + 1 /\ sas_msg'[i] = {f}
  BY <1>1, SMT DEF Send, SharedTypeOK
<1>3. \A i \in DOMAIN sas_msg : i < Len(sas_msg) + 1 /\ i \in Nat
  BY SMT DEF SharedTypeOK
<1>4. \A i \in DOMAIN sas_msg' : \E g \in Flags : sas_msg'[i] = {g}
  BY <1>2, Zenon DEF QueueInv
<1>5. ASSUME NEW i \in DOMAIN sas_msg', NEW j \in DOMAIN sas_msg', i < j
      PROVE  MayFollow(sas_msg'[i], sas_msg'[j])
  <2>1. i \in DOMAIN sas_msg /\ sas_msg'[i] = sas_msg[i]
    <3>1. Len(sas_msg) \in Nat
      BY SMT DEF SharedTypeOK
    <3> QED
      BY <1>2, <1>3, <1>5, <3>1, SMT
  <2>2. CASE j \in DOMAIN sas_msg /\ sas_msg'[j] = sas_msg[j]
    <3>1. MayFollow(sas_msg[i], sas_msg[j])
      BY <1>5, <2>1, <2>2, Zenon DEF QueueInv
    <3> QED
      BY <2>1, <2>2, <3>1, Zenon
  <2>3. CASE sas_msg'[j] = {f}
    <3>1. MayFollow(sas_msg[i], {f})
      BY <2>1, Zenon
    <3> QED
      BY <2>1, <2>3, <3>1, Zenon
  <2> QED
    BY <1>2, <2>2, <2>3, Zenon
<1> QED
  BY <1>4, <1>5, Zenon DEF QueueInv, MayFollow

(* The order is kept by a message that may follow all that are queued.     *)
LEMMA SendKeepsOrder ==
  ASSUME SharedTypeOK, QueueInv, NEW f \in Flags, Send({f}),
         ~Queued("detect_result"),
         f \notin {"close_result", "detect_result"} => ~Queued("close_result"),
         f \in AnswerFlags => ~AnswerQueued
  PROVE  QueueInv'
<1>1. SUFFICES ASSUME NEW i \in DOMAIN sas_msg PROVE MayFollow(sas_msg[i], {f})
  BY SendOrdered, Zenon
<1>2. "detect_result" \notin sas_msg[i]
  BY Zenon DEF Queued
<1>3. "close_result" \in sas_msg[i] => {f} \subseteq {"close_result", "detect_result"}
  BY Zenon DEF Queued
<1>4. sas_msg[i] \cap AnswerFlags = {} \/ {f} \cap AnswerFlags = {}
  BY Zenon DEF Queued, AnswerQueued, AnswerFlags
<1> QED
  BY <1>2, <1>3, <1>4, Zenon DEF MayFollow

(* The message main takes says one thing, and takes it off the queue if    *)
(* the order does not allow another of its kind.                           *)
LEMMA ReceiveFlag ==
  ASSUME SharedTypeOK, QueueInv, sas_msg # << >>, sas_msg' = Tail(sas_msg)
  PROVE  \E f \in Flags :
           /\ Head(sas_msg) = {f}
           /\ Queued(f)
           /\ \A g : Queued(g)' => Queued(g)
           /\ \A g : g # f /\ Queued(g) => Queued(g)'
           /\ f = "close_result" =>
                \A g : Queued(g)' => g \in {"close_result", "detect_result"}
           /\ f = "detect_result" => \A g : ~Queued(g)'
           /\ f \in AnswerFlags => ~AnswerQueued'
           /\ QueueInv'
<1>1. \A i \in DOMAIN sas_msg' :
        i \in Nat \ {0} /\ i + 1 \in DOMAIN sas_msg /\ sas_msg'[i] = sas_msg[i + 1]
  BY SMT DEF SharedTypeOK
<1>2. 1 \in DOMAIN sas_msg /\ Head(sas_msg) = sas_msg[1]
  BY SMT DEF SharedTypeOK
<1>3. PICK f \in Flags : sas_msg[1] = {f}
  BY <1>2, Zenon DEF QueueInv
<1>4. \A i \in DOMAIN sas_msg' : MayFollow({f}, sas_msg'[i])
  <2>1. TAKE i \in DOMAIN sas_msg'
  <2>2. 1 < i + 1 /\ i + 1 \in DOMAIN sas_msg /\ sas_msg'[i] = sas_msg[i + 1]
    BY <1>1, SMT
  <2>3. MayFollow(sas_msg[1], sas_msg[i + 1])
    BY <1>2, <2>2, Zenon DEF QueueInv
  <2> QED
    BY <1>3, <2>2, <2>3, Zenon
<1>5. \A g : Queued(g)' => Queued(g)
  BY <1>1, Zenon DEF Queued
<1>6. ASSUME NEW g, g # f, Queued(g) PROVE Queued(g)'
  <2>1. g \notin Head(sas_msg)
    BY <1>2, <1>3, <1>6, Zenon
  <2> QED
    BY <1>6, <2>1, ReceiveKeepsQueued
<1>7. f = "close_result" => \A g : Queued(g)' => g \in {"close_result", "detect_result"}
  <2>1. SUFFICES ASSUME f = "close_result", NEW g, Queued(g)'
                 PROVE  g \in {"close_result", "detect_result"}
    BY Zenon
  <2>2. PICK i \in DOMAIN sas_msg' : g \in sas_msg'[i]
    BY <2>1, Zenon DEF Queued
  <2>3. "close_result" \in {f}
    BY <2>1, Zenon
  <2> QED
    BY <1>4, <2>2, <2>3, Zenon DEF MayFollow
<1>8. f = "detect_result" => \A g : ~Queued(g)'
  <2>1. SUFFICES ASSUME f = "detect_result", NEW i \in DOMAIN sas_msg' PROVE FALSE
    BY Zenon DEF Queued
  <2>2. "detect_result" \in {f}
    BY <2>1, Zenon
  <2> QED
    BY <1>4, <2>1, <2>2, Zenon DEF MayFollow
<1>9. f \in AnswerFlags => ~AnswerQueued'
  <2>1. SUFFICES ASSUME f \in AnswerFlags, NEW g \in AnswerFlags, Queued(g)' PROVE FALSE
    BY Zenon DEF AnswerQueued, AnswerFlags
  <2>2. PICK i \in DOMAIN sas_msg' : g \in sas_msg'[i]
    BY <2>1, Zenon DEF Queued
  <2>3. f \in {f} \cap AnswerFlags /\ g \in sas_msg'[i] \cap AnswerFlags
    BY <2>1, <2>2, Zenon
  <2>4. MayFollow({f}, sas_msg'[i])
    BY <1>4, <2>2, Zenon
  <2>5. {f} \cap AnswerFlags = {} \/ sas_msg'[i] \cap AnswerFlags = {}
    BY <2>4, Zenon DEF MayFollow
  <2> QED
    BY <2>3, <2>5, Zenon
<1>10. QueueInv'
  <2>1. \A i \in DOMAIN sas_msg' : \E g \in Flags : sas_msg'[i] = {g}
    BY <1>1, Zenon DEF QueueInv
  <2>2. ASSUME NEW i \in DOMAIN sas_msg', NEW j \in DOMAIN sas_msg', i < j
        PROVE  MayFollow(sas_msg'[i], sas_msg'[j])
    <3>1. i + 1 < j + 1
      BY <1>1, <2>2, SMT
    <3>2. MayFollow(sas_msg[i + 1], sas_msg[j + 1])
      BY <1>1, <3>1, Zenon DEF QueueInv
    <3> QED
      BY <1>1, <3>2, Zenon
  <2> QED
    BY <2>1, <2>2, Zenon DEF QueueInv, MayFollow
<1>11. Queued(f)
  BY <1>2, <1>3, Zenon DEF Queued
<1> QED
  BY <1>2, <1>3, <1>5, <1>6, <1>7, <1>8, <1>9, <1>10, <1>11, Zenon

-----------------------------------------------------------------------------
(***************************************************************************)
(* Steps of the main thread.                                               *)
(***************************************************************************)

(* Where a message of flag f takes main.                                   *)
LEMMA NextStatusOfFlag ==
  ASSUME NEW f \in Flags
  PROVE  /\ NextStatus("initialize", {f}) =
              IF f = "detect_result" THEN "start_process" ELSE "initialize"
         /\ NextStatus("start_process", {f}) =
              IF f = "calculate_result" THEN "wait_detect"
              ELSE IF f = "recognize_result" THEN "wait_calculate"
              ELSE IF f = "disappear_object" THEN "initialize"
              ELSE "start_process"
         /\ NextStatus("wait_detect", {f}) =
              IF f = "recognize_result" THEN "approval_open"
              ELSE IF f = "disappear_object" THEN "initialize"
              ELSE "wait_detect"
         /\ NextStatus("wait_calculate", {f}) =
              IF f = "calculate_result" THEN "approval_open"
              ELSE IF f = "disappear_object" THEN "initialize"
              ELSE "wait_calculate"
         /\ NextStatus("approval_open", {f}) =
              IF f = "open_result" THEN "wait_close"
              ELSE IF f = "disappear_object" THEN "initialize"
              ELSE "approval_open"
         /\ NextStatus("wait_close", {f}) =
              IF f \in {"close_result", "disappear_object"} THEN "initialize"
              ELSE "wait_close"
<1>1. /\ "calculate_result" \in {f} <=> f = "calculate_result"
      /\ "recognize_result" \in {f} <=> f = "recognize_result"
      /\ "disappear_object" \in {f} <=> f = "disappear_object"
      /\ "detect_result" \in {f} <=> f = "detect_result"
      /\ "open_result" \in {f} <=> f = "open_result"
      /\ "close_result" \in {f} <=> f = "close_result"
  OBVIOUS
<1>2. /\ ~({"calculate_result", "recognize_result"} \subseteq {f})
      /\ {f} \cap {"calculate_result", "recognize_result"} = {"calculate_result"}
           <=> f = "calculate_result"
      /\ {f} \cap {"calculate_result", "recognize_result"} = {"recognize_result"}
           <=> f = "recognize_result"
  OBVIOUS
<1> QED
  BY <1>1, <1>2, SMT DEF NextStatus

(* Which of the messages that can come in its status main takes, and what  *)
(* becomes of the status.                                                  *)
LEMMA ReceiveCases ==
  ASSUME NEW f \in Flags, status \in AdStatus, ExpectedInv, Queued(f)
  PROVE  LET s == NextStatus(status, {f}) IN
         \/ s = status /\ f = "calculate_result"
              /\ status \in {"initialize", "wait_detect", "approval_open", "wait_close"}
         \/ s = status /\ f \in {"recognize_result", "disappear_object", "close_result"}
              /\ status = "initialize"
         \/ s = status /\ f = "taking_now" /\ status \in PictureStatus
         \/ s = status /\ f = "open_result" /\ status = "wait_close"
         \/ status = "initialize" /\ f = "detect_result" /\ s = "start_process"
         \/ status = "start_process" /\ f = "calculate_result" /\ s = "wait_detect"
         \/ status = "start_process" /\ f = "recognize_result" /\ s = "wait_calculate"
         \/ status \in {"start_process", "wait_detect"} /\ f = "disappear_object"
              /\ s = "initialize"
         \/ status = "wait_detect" /\ f = "recognize_result" /\ s = "approval_open"
         \/ status = "wait_calculate" /\ f = "calculate_result" /\ s = "approval_open"
         \/ status = "approval_open" /\ f = "open_result" /\ s = "wait_close"
         \/ status = "wait_close" /\ f = "close_result" /\ s = "initialize"
<1>1. /\ f = "detect_result" => status = "initialize"
      /\ f \in AnswerFlags => status \in {"initialize", "start_process", "wait_detect"}
      /\ f = "taking_now" => status \in PictureStatus
      /\ f = "open_result" => status \in {"approval_open", "wait_close"}
      /\ f = "close_result" => status \in {"wait_close", "initialize"}
  BY Zenon DEF ExpectedInv, AnswerQueued, AnswerFlags
<1> QED
  BY <1>1, NextStatusOfFlag, SMT DEF AdStatus, Flags, AnswerFlags, PictureStatus

(* Main takes a message: the status it moves to fits what is left behind.  *)
LEMMA PassReceive ==
  ASSUME TypeInv, MainSteps, NestInv, PassInv, Receive,
         UNCHANGED <<rangingVars, detectorVars>>
  PROVE  PassInv'
<1>1. SharedTypeOK /\ status \in AdStatus
  BY Zenon DEF TypeInv, TypeOK, MainTypeOK
<1>2. /\ mpc = "receive" /\ sas_msg # << >> /\ sas_msg' = Tail(sas_msg)
      /\ status' = NextStatus(status, Head(sas_msg)) /\ mpc' \in {"take", "enter"}
      /\ mpc' = "take" => PictureDue(status, Head(sas_msg))
  <2>1. ~taking_picture
    BY Zenon DEF Receive, MainAt, NestInv
  <2> QED
    BY <2>1, SMT DEF Receive, MainAt
<1>3. PICK f \in Flags :
        /\ Head(sas_msg) = {f}
        /\ Queued(f)
        /\ \A g : Queued(g)' => Queued(g)
        /\ \A g : g # f /\ Queued(g) => Queued(g)'
        /\ f = "close_result" =>
             \A g : Queued(g)' => g \in {"close_result", "detect_result"}
        /\ f = "detect_result" => \A g : ~Queued(g)'
        /\ f \in AnswerFlags => ~AnswerQueued'
        /\ QueueInv'
  <2>1. QueueInv
    BY Zenon DEF PassInv
  <2> QED
    BY <1>1, <1>2, <2>1, ReceiveFlag
<1>4. /\ fpgamsg' = fpgamsg /\ range_status' = range_status /\ picture' = picture
      /\ has_taken' = has_taken /\ initial_flag' = initial_flag /\ door' = door
      /\ stage' = stage /\ step' = step /\ rbuf' = rbuf
      /\ hpc' = hpc /\ apc' = apc /\ detectstatus' = detectstatus
  BY Zenon DEF Receive, rangingVars, detectorVars
<1>5. mpc' = "take" => status \in PictureStatus /\ f = "taking_now"
  BY <1>2, <1>3, SMT DEF PictureDue
<1>6. \/ status' = status /\ f = "calculate_result"
           /\ status \in {"initialize", "wait_detect", "approval_open", "wait_close"}
      \/ status' = status /\ f \in {"recognize_result", "disappear_object", "close_result"}
           /\ status = "initialize"
      \/ status' = status /\ f = "taking_now" /\ status \in PictureStatus
      \/ status' = status /\ f = "open_result" /\ status = "wait_close"
      \/ status = "initialize" /\ f = "detect_result" /\ status' = "start_process"
      \/ status = "start_process" /\ f = "calculate_result" /\ status' = "wait_detect"
      \/ status = "start_process" /\ f = "recognize_result" /\ status' = "wait_calculate"
      \/ status \in {"start_process", "wait_detect"} /\ f = "disappear_object"
           /\ status' = "initialize"
      \/ status = "wait_detect" /\ f = "recognize_result" /\ status' = "approval_open"
      \/ status = "wait_calculate" /\ f = "calculate_result" /\ status' = "approval_open"
      \/ status = "approval_open" /\ f = "open_result" /\ status' = "wait_close"
      \/ status = "wait_close" /\ f = "close_result" /\ status' = "initialize"
  <2>1. ExpectedInv
    BY Zenon DEF PassInv
  <2> QED
    BY <1>1, <1>2, <1>3, <2>1, ReceiveCases, SMT
<1>7. AnswerQueued' => AnswerQueued
  BY <1>3, Zenon DEF AnswerQueued
<1>8. /\ f = "detect_result" => ~AnswerQueued'
      /\ f = "close_result" => ~AnswerQueued'
      /\ f = "recognize_result" => ~AnswerQueued' /\ AnswerQueued
      /\ f = "disappear_object" => ~AnswerQueued' /\ AnswerQueued
      /\ f \notin {"recognize_result", "disappear_object"} /\ AnswerQueued => AnswerQueued'
  BY <1>3, SMT DEF AnswerQueued, AnswerFlags
<1>9. ExpectedInv'
  <2>1. ExpectedInv
    BY Zenon DEF PassInv
  <2> QED
    BY <1>3, <1>6, <1>7, <1>8, <2>1, SMT DEF ExpectedInv, PictureStatus
<1>10. TokenInv'
  <2>1. TokenInv /\ ExpectedInv
    BY Zenon DEF PassInv
  <2>2. DetectionUnderWay' <=> DetectionUnderWay
    BY <1>4, SMT DEF DetectionUnderWay
  <2>3. Detecting' <=> Detecting
    BY <1>4, SMT DEF Detecting
  <2>4. DetectionUnderWay <=> fpgamsg > 0 \/ hpc = "camera" \/ Detecting
    BY SMT DEF DetectionUnderWay, Detecting
  <2>5. PowerUp /\ (DetectionUnderWay' \/ AnswerQueued') => PowerUp'
    <3>1. PowerUp => status' = "initialize"
      BY <1>3, <1>6, SMT DEF PowerUp
    <3>2. PowerUp => ~Queued("close_result")' /\ ~Queued("detect_result")'
      BY <1>3, Zenon DEF PowerUp
    <3>3. PowerUp /\ (DetectionUnderWay' \/ AnswerQueued')
            => detectstatus' = 2 \/ AnswerQueued'
      BY <1>4, <1>7, <1>8, <2>1, <2>2, <2>4, SMT DEF PowerUp, TokenInv
    <3> QED
      BY <1>4, <3>1, <3>2, <3>3, SMT DEF PowerUp
  <2>6. DetectionUnderWay' \/ AnswerQueued' =>
          \/ status' = "wait_detect"
          \/ status' = "start_process" /\ mpc' = "receive"
          \/ PowerUp'
    BY <1>2, <1>3, <1>6, <1>7, <1>8, <2>1, <2>2, <2>4, <2>5, SMT
       DEF TokenInv, PictureStatus, PowerUp
  <2> QED
    BY <1>4, <1>7, <2>1, <2>3, <2>6, SMT DEF TokenInv
<1>11. CommandInv'
  <2>1. CommandInv
    BY Zenon DEF PassInv
  <2>2. ~initial_flag' =>
       /\ status' = "initialize"
       /\ stage' = "setup"
       /\ range_status' = "initial"
       /\ ~Queued("detect_result")'
    BY <1>3, <1>4, <1>6, <2>1, SMT DEF CommandInv, PictureStatus
  <2>3. range_status' \in {"speed", "dooropen"} =>
          ~Queued("close_result")' /\ ~At("close", "send")'
    BY <1>3, <1>4, <2>1, SMT DEF CommandInv, At
  <2>4. /\ range_status' = "speed" =>
             \/ status' = "start_process" /\ mpc' # "enter"
             \/ status' \in {"wait_detect", "wait_calculate"}
             \/ status' = "approval_open" /\ mpc' \in {"enter", "prepare", "open"}
             \/ status' = "initialize" /\ mpc' = "enter"
        /\ range_status' = "dooropen" =>
             status' = "approval_open" \/ (status' = "wait_close" /\ mpc' = "enter")
        /\ range_status' = "doorclose" =>
             status' = "wait_close" \/ (status' = "initialize" /\ mpc' = "enter")
    BY <1>2, <1>4, <1>5, <1>6, <2>1, SMT DEF CommandInv, PictureStatus
  <2> QED
    BY <2>2, <2>3, <2>4, Zenon DEF CommandInv
<1>12. ReportInv'
  <2>1. ReportInv /\ ExpectedInv /\ ObjectInv
    BY Zenon DEF PassInv
  <2> QED
    BY <1>3, <1>4, <1>6, <2>1, SMT DEF ReportInv, At, PictureStatus, ObjectInv
<1>13. ObjectInv'
  <2>1. ObjectInv
    BY Zenon DEF PassInv
  <2>2. At("detect", "send") => ~Queued("detect_result")
    BY Zenon DEF NestInv
  <2>3. DetectionUnderWay' <=> DetectionUnderWay
    BY <1>4, SMT DEF DetectionUnderWay
  <2>4. At("detect", "send")' <=> At("detect", "send")
    BY <1>4, Zenon DEF At
  <2>5. Queued("detect_result")' \/ At("detect", "send")' =>
          /\ Queued("detect_result") \/ At("detect", "send")
          /\ f # "detect_result"
    BY <1>3, <2>2, <2>4, Zenon
  <2>6. Queued("detect_result")' \/ At("detect", "send")' =>
          /\ status' = "initialize"
          /\ range_status' \in {"initial", "detect"}
          /\ step' \in {"send", "check", "reset"} => stage' = "detect"
    BY <1>4, <1>6, <2>1, <2>5, SMT DEF ObjectInv, PictureStatus
  <2>7. Queued("detect_result")' \/ At("detect", "send")' => ~picture' /\ ~DetectionUnderWay'
    BY <1>4, <2>1, <2>3, <2>5, Zenon DEF ObjectInv
  <2> QED
    BY <2>6, <2>7, Zenon DEF ObjectInv
<1>14. PictureInv'
  <2>1. PictureInv /\ ExpectedInv
    BY Zenon DEF PassInv
  <2>2. LeavingDoor' => LeavingDoor
    BY <1>3, <1>6, SMT DEF LeavingDoor, PictureStatus
  <2> QED
    BY <1>4, <2>1, <2>2, Zenon DEF PictureInv
<1>15. DoorInv'
  <2>1. DoorInv
    BY Zenon DEF PassInv
  <2> QED
    BY <1>3, <1>4, <1>6, <2>1, SMT DEF DoorInv
<1> QED
  BY <1>3, <1>9, <1>10, <1>11, <1>12, <1>13, <1>14, <1>15, Zenon DEF PassInv

(* The command an entry function gives, and where main goes.               *)
LEMMA EntryCommand ==
  ASSUME MainSteps, NestInv, MainNext, ~Receive
  PROVE  \/ status = "initialize" /\ mpc' = "receive"
              /\ \/ range_status' = "detect"
                 \/ range_status' = range_status /\ ~initial_flag /\ ~initial_flag'
         \/ status = "start_process" /\ mpc' = "request" /\ range_status' = "speed"
         \/ status = "start_process" /\ mpc = "request" /\ range_status' = range_status
              /\ mpc' = "receive"
         \/ status = "wait_detect" /\ range_status' = range_status
         \/ status = "wait_calculate" /\ range_status' = range_status
         \/ status = "approval_open" /\ range_status' = range_status
              /\ mpc \in {"enter", "prepare"} /\ mpc' \in {"prepare", "open"}
         \/ status = "approval_open" /\ range_status' = "dooropen" /\ mpc' = "receive"
         \/ status = "wait_close" /\ range_status' = "doorclose" /\ mpc' = "receive"
         \/ status \in PictureStatus /\ range_status' = range_status
              /\ mpc = "take" /\ mpc' = "enter"
<1> USE DEF MainAt, sharedVars
<1>1. CASE StartDetectDistance
  BY <1>1, SMT DEF StartDetectDistance
<1>2. CASE MotorInitializeFails
  BY <1>2, SMT DEF MotorInitializeFails
<1>3. CASE DetectSpeed
  BY <1>3, SMT DEF DetectSpeed
<1>4. CASE StartHumanDetect
  BY <1>4, SMT DEF StartHumanDetect, MainSteps
<1>5. CASE EnterWaitDetect
  BY <1>5, SMT DEF EnterWaitDetect
<1>6. CASE PreparePictureTest
  BY <1>6, SMT DEF PreparePictureTest, AfterPrepare
<1>7. CASE PreparePictureSet
  BY <1>7, SMT DEF PreparePictureSet, AfterPrepare, MainSteps
<1>8. CASE OpenDoor
  BY <1>8, SMT DEF OpenDoor, MainSteps
<1>9. CASE CloseDoor
  BY <1>9, SMT DEF CloseDoor
<1>10. CASE TakePicture
  BY <1>10, SMT DEF TakePicture, NestInv
<1> QED
  BY <1>1, <1>2, <1>3, <1>4, <1>5, <1>6, <1>7, <1>8, <1>9, <1>10, Zenon DEF MainNext

(* What else a step of main does that is not the receipt of a message: it  *)
(* creates the ranging thread, asks for a picture, or sends the request.   *)
LEMMA EntrySteps ==
  ASSUME MainSteps, MainNext, ~Receive
  PROVE  /\ status' = status /\ sas_msg' = sas_msg
         /\ has_taken' = has_taken /\ door' = door
         /\ mpc # "receive"
         /\ \/ initial_flag' = TRUE
            \/ initial_flag' = initial_flag
                 /\ (status = "initialize" => range_status' = range_status)
         /\ \/ picture' = picture
            \/ status \in {"wait_calculate", "approval_open"}
         /\ \/ fpgamsg' = fpgamsg /\ (status = "start_process" => mpc' # "receive")
            \/ fpgamsg' = fpgamsg + 1 /\ status = "start_process"
                 /\ mpc = "request" /\ mpc' = "receive"
<1> USE DEF MainAt, sharedVars
<1>1. CASE StartDetectDistance
  BY <1>1, SMT DEF StartDetectDistance
<1>2. CASE MotorInitializeFails
  BY <1>2, SMT DEF MotorInitializeFails
<1>3. CASE DetectSpeed
  BY <1>3, SMT DEF DetectSpeed
<1>4. CASE StartHumanDetect
  BY <1>4, SMT DEF StartHumanDetect, MainSteps
<1>5. CASE EnterWaitDetect
  BY <1>5, SMT DEF EnterWaitDetect
<1>6. CASE PreparePictureTest
  BY <1>6, SMT DEF PreparePictureTest, AfterPrepare
<1>7. CASE PreparePictureSet
  <2>1. /\ mpc = "prepare" /\ mpc' = AfterPrepare
        /\ UNCHANGED <<status, initial_flag, door, sas_msg, fpgamsg, range_status, has_taken>>
    BY <1>7, Zenon DEF PreparePictureSet
  <2> QED
    BY <2>1, SMT DEF AfterPrepare, MainSteps
<1>8. CASE OpenDoor
  BY <1>8, SMT DEF OpenDoor, MainSteps
<1>9. CASE CloseDoor
  BY <1>9, SMT DEF CloseDoor
<1>10. CASE TakePicture
  BY <1>10, SMT DEF TakePicture
<1> QED
  BY <1>1, <1>2, <1>3, <1>4, <1>5, <1>6, <1>7, <1>8, <1>9, <1>10, Zenon DEF MainNext

(* Main carries out its entry function or uploads a picture.               *)
LEMMA PassEntry ==
  ASSUME TypeInv, MainSteps, NestInv, PassInv, MainNext, ~Receive,
         UNCHANGED <<rangingVars, detectorVars>>
  PROVE  PassInv'
<1>1. /\ stage' = stage /\ step' = step /\ rbuf' = rbuf
      /\ hpc' = hpc /\ apc' = apc /\ detectstatus' = detectstatus
  BY Zenon DEF rangingVars, detectorVars
<1>2. /\ status' = status /\ sas_msg' = sas_msg
      /\ has_taken' = has_taken /\ door' = door
      /\ mpc # "receive"
  BY EntrySteps, Zenon
<1>3. fpgamsg \in Nat
  BY SMT DEF TypeInv, TypeOK, SharedTypeOK
<1>4. /\ \A f : Queued(f)' <=> Queued(f)
      /\ AnswerQueued' <=> AnswerQueued
      /\ \A st, sp : At(st, sp)' <=> At(st, sp)
      /\ Detecting' <=> Detecting
  BY <1>1, <1>2, SMT DEF Queued, AnswerQueued, At, Detecting
<1>5. /\ QueueInv /\ ExpectedInv /\ TokenInv /\ CommandInv /\ ReportInv
      /\ ObjectInv /\ PictureInv /\ DoorInv
  BY Zenon DEF PassInv
<1>6. QueueInv'
  BY <1>2, <1>5, SMT DEF QueueInv, MayFollow
<1>7. ExpectedInv'
  BY <1>2, <1>4, <1>5, Zenon DEF ExpectedInv
<1>8. DetectionUnderWay <=> fpgamsg > 0 \/ hpc = "camera" \/ Detecting
  BY SMT DEF DetectionUnderWay, Detecting
<1>9. (DetectionUnderWay <=> fpgamsg > 0 \/ hpc = "camera" \/ Detecting)'
  BY SMT DEF DetectionUnderWay, Detecting
<1>10. \/ fpgamsg' = fpgamsg /\ (status = "start_process" => mpc' # "receive")
            /\ (DetectionUnderWay' <=> DetectionUnderWay)
       \/ /\ fpgamsg' = fpgamsg + 1 /\ status = "start_process"
          /\ mpc = "request" /\ mpc' = "receive"
  <2>1. \/ fpgamsg' = fpgamsg /\ (status = "start_process" => mpc' # "receive")
        \/ fpgamsg' = fpgamsg + 1 /\ status = "start_process"
             /\ mpc = "request" /\ mpc' = "receive"
    BY EntrySteps, Zenon
  <2> QED
    BY <1>1, <1>4, <1>8, <1>9, <2>1, Zenon
<1>11. TokenInv'
  <2>1. CASE fpgamsg' = fpgamsg /\ (status = "start_process" => mpc' # "receive")
               /\ (DetectionUnderWay' <=> DetectionUnderWay)
    <3>1. PowerUp => PowerUp'
      BY <1>1, <1>2, <1>4, <2>1, SMT DEF PowerUp
    <3> QED
      BY <1>1, <1>2, <1>4, <1>5, <2>1, <3>1, SMT DEF TokenInv
  <2>2. CASE fpgamsg' = fpgamsg + 1 /\ status = "start_process"
               /\ mpc = "request" /\ mpc' = "receive"
    <3>1. ~DetectionUnderWay /\ ~AnswerQueued
      BY <1>5, <2>2, SMT DEF TokenInv, PowerUp
    <3>2. hpc \in {"receive", "camera"}
      BY SMT DEF TypeInv, TypeOK, DetectorTypeOK
    <3> QED
      BY <1>1, <1>2, <1>3, <1>4, <1>8, <2>2, <3>1, <3>2, SMT DEF TokenInv
  <2> QED
    BY <1>10, <2>1, <2>2
<1>12. CommandInv'
  <2>1. ~initial_flag' =>
          /\ status' = "initialize"
          /\ stage' = "setup"
          /\ range_status' = "initial"
          /\ ~Queued("detect_result")'
    <3>1. \/ initial_flag' = TRUE
          \/ initial_flag' = initial_flag
               /\ (status = "initialize" => range_status' = range_status)
      BY EntrySteps, Zenon
    <3> QED
      BY <1>1, <1>2, <1>4, <1>5, <3>1, Zenon DEF CommandInv
  <2>2. status \in {"start_process", "approval_open"} =>
          ~Queued("close_result") /\ ~At("close", "send")
    BY <1>5, SMT DEF ExpectedInv, ReportInv, At
  <2>3. /\ range_status' = "speed" =>
             \/ status' = "start_process" /\ mpc' # "enter"
             \/ status' \in {"wait_detect", "wait_calculate"}
             \/ status' = "approval_open" /\ mpc' \in {"enter", "prepare", "open"}
             \/ status' = "initialize" /\ mpc' = "enter"
        /\ range_status' = "dooropen" =>
             status' = "approval_open" \/ (status' = "wait_close" /\ mpc' = "enter")
        /\ range_status' = "doorclose" =>
             status' = "wait_close" \/ (status' = "initialize" /\ mpc' = "enter")
        /\ range_status' \in {"speed", "dooropen"} =>
             ~Queued("close_result") /\ ~At("close", "send")
    BY <1>2, <1>5, <2>2, EntryCommand, SMT DEF CommandInv, PictureStatus
  <2> QED
    BY <1>4, <2>1, <2>3, Zenon DEF CommandInv
<1>13. ReportInv'
  BY <1>1, <1>2, <1>4, <1>5, SMT DEF ReportInv
<1>14. ObjectInv'
  <2>1. SUFFICES ASSUME Queued("detect_result") \/ At("detect", "send")
                 PROVE  /\ status' = "initialize"
                        /\ range_status' \in {"initial", "detect"}
                        /\ ~picture'
                        /\ ~DetectionUnderWay'
                        /\ step' \in {"send", "check", "reset"} => stage' = "detect"
    BY <1>4, Zenon DEF ObjectInv
  <2>2. status = "initialize" /\ range_status \in {"initial", "detect"}
    BY <1>5, <2>1, SMT DEF ObjectInv
  <2>3. ~picture' /\ ~DetectionUnderWay'
    <3>1. picture' = picture
      <4>1. status \notin {"wait_calculate", "approval_open"}
        BY <2>2, SMT
      <4> QED
        BY <4>1, EntrySteps, Zenon
    <3>2. status # "start_process"
      BY <2>2, SMT
    <3> QED
      BY <1>5, <1>10, <2>1, <3>1, <3>2, Zenon DEF ObjectInv
  <2>4. range_status' \in {"initial", "detect"}
    BY <2>2, EntryCommand, SMT DEF PictureStatus
  <2> QED
    BY <1>1, <1>2, <1>5, <2>1, <2>2, <2>3, <2>4, SMT DEF ObjectInv
<1>15. PictureInv'
  <2>1. LeavingDoor' <=> LeavingDoor
    BY <1>2, <1>4, Zenon DEF LeavingDoor
  <2>2. picture' /\ LeavingDoor => picture
    <3>1. status \in {"wait_calculate", "approval_open"} => ~LeavingDoor
      BY <1>5, SMT DEF ExpectedInv, LeavingDoor, PictureStatus
    <3>2. \/ picture' = picture
          \/ status \in {"wait_calculate", "approval_open"}
      BY EntrySteps, Zenon
    <3> QED
      BY <3>1, <3>2, Zenon
  <2> QED
    BY <1>1, <1>2, <1>5, <2>1, <2>2, Zenon DEF PictureInv
<1>16. DoorInv'
  BY <1>2, <1>4, <1>5, Zenon DEF DoorInv
<1> QED
  BY <1>6, <1>7, <1>11, <1>12, <1>13, <1>14, <1>15, <1>16, Zenon DEF PassInv

-----------------------------------------------------------------------------
(***************************************************************************)
(* Steps of the ranging thread.                                            *)
(***************************************************************************)

(* The thread runs only once main has created it.                          *)
LEMMA RangingRuns ==
  ASSUME RangingSteps, CommandInv, RangingNext
  PROVE  initial_flag
<1>1. stage = "setup" => SetUp \/ SetUpFails
  BY SMT DEF RangingNext, At, Sample, DetectStage, SpeedStageContinues,
     SpeedStageDone, OpenStage, OpenStageIdle, CloseStage, CloseStageIdle,
     PictureStage, SendReport, SendReportFails, CheckChanged, CheckSame, Reset,
     CheckAndReset, CloseClearTaken, CloseClearPicture, PictureOff, PictureTaken,
     RangingSteps, Commanded
<1>2. SetUp \/ SetUpFails => initial_flag
  BY Zenon DEF SetUp, SetUpFails
<1> QED
  BY <1>1, <1>2, Zenon DEF CommandInv

(* The steps of the ranging thread that leave the queues and the door      *)
(* alone: wherever they lead, the command they serve stands and a report   *)
(* they start is due.                                                      *)
LEMMA PassQuiet ==
  ASSUME TypeInv, NestInv, PassInv, initial_flag,
         UNCHANGED <<mainVars, detectorVars, sas_msg, fpgamsg, initial_flag, door>>,
         range_status' \in {range_status, "initial"},
         picture' => picture,
         PowerUp /\ (DetectionUnderWay \/ AnswerQueued) =>
           stage' \in {"setup", "sample", "exited"},
         \/ step' = "decide"
         \/ stage' = stage /\ step = "check" /\ step' = "reset" /\ rbuf' = rbuf
         \/ stage' = "close" /\ step' \in {"clear", "clear2"}
         \/ stage' = "picture" /\ stage = "picture" /\ step # "decide" /\ step' = "clear2"
         \/ stage' = "detect" /\ step' = "send" /\ At("detect", "decide")
              /\ range_status = "detect" /\ rbuf' = {"detect_result"}
         \/ stage' = "speed" /\ step' = "send" /\ stage = "speed"
              /\ range_status = "speed" /\ rbuf' = {"calculate_result"}
         \/ stage' = "picture" /\ step' = "send" /\ stage = "picture"
              /\ picture /\ rbuf' = {"taking_now"},
         PictureInv'
  PROVE  PassInv'
<1>1. /\ QueueInv /\ ExpectedInv /\ TokenInv /\ CommandInv /\ ReportInv
      /\ ObjectInv /\ PictureInv /\ DoorInv
  BY Zenon DEF PassInv
<1>2. /\ mpc' = mpc /\ status' = status /\ hpc' = hpc /\ apc' = apc
      /\ detectstatus' = detectstatus /\ sas_msg' = sas_msg /\ fpgamsg' = fpgamsg
      /\ initial_flag' = initial_flag /\ door' = door
  BY Zenon DEF mainVars, detectorVars
<1>3. /\ \A f : Queued(f)' <=> Queued(f)
      /\ AnswerQueued' <=> AnswerQueued
      /\ Detecting' <=> Detecting
      /\ DetectionUnderWay' <=> DetectionUnderWay
  BY <1>2, SMT DEF Queued, AnswerQueued, Detecting, DetectionUnderWay
<1>4. /\ step' = "send" => rbuf' = {Report[stage']}
      /\ At("speed", "send")' => range_status = "speed"
      /\ At("detect", "send")' => At("detect", "decide") /\ range_status = "detect"
      /\ ~At("open", "send")' /\ ~At("close", "send")'
  BY SMT DEF At, Report
<1>5. picture /\ stage = "picture" => ~LeavingDoor
  BY <1>1, Zenon DEF PictureInv
<1>6. stage' = "picture" /\ step' # "decide" => ~LeavingDoor
  <2>1. stage' = "picture" /\ step' # "decide" =>
          stage = "picture" /\ (picture \/ step # "decide")
    BY SMT
  <2>2. stage = "picture" /\ step # "decide" => ~LeavingDoor
    BY <1>1, Zenon DEF ReportInv, LeavingDoor
  <2> QED
    BY <1>5, <2>1, <2>2, Zenon
<1>7. QueueInv'
  BY <1>1, <1>2, SMT DEF QueueInv, MayFollow
<1>8. ExpectedInv'
  BY <1>1, <1>2, <1>3, Zenon DEF ExpectedInv
<1>9. TokenInv'
  <2>1. PowerUp /\ (DetectionUnderWay \/ AnswerQueued) => PowerUp'
    BY <1>2, <1>3, Zenon DEF PowerUp
  <2> QED
    BY <1>1, <1>2, <1>3, <2>1, Zenon DEF TokenInv
<1>10. CommandInv'
  <2>1. range_status' = range_status \/ range_status' = "initial"
    BY Zenon
  <2>2. CASE range_status' = range_status
    BY <1>1, <1>2, <1>3, <1>4, <2>2, SMT DEF CommandInv
  <2>3. CASE range_status' = "initial"
    <3>1. initial_flag'
      BY <1>2, SMT
    <3>2. range_status' \notin {"speed", "dooropen", "doorclose"}
      BY <2>3, SMT
    <3> QED
      BY <3>1, <3>2, Zenon DEF CommandInv
  <2> QED
    BY <2>1, <2>2, <2>3
<1>11. ReportInv'
  <2>1. range_status = "speed" => ~Queued("close_result")
    BY <1>1, SMT DEF CommandInv
  <2> QED
    BY <1>2, <1>3, <1>4, <1>6, <2>1, Zenon DEF ReportInv, LeavingDoor
<1>12. ObjectInv'
  <2>1. CASE Queued("detect_result")
    <3>1. status = "initialize" /\ ~picture /\ ~DetectionUnderWay
          /\ range_status \in {"initial", "detect"}
          /\ (step \in {"send", "check", "reset"} => stage = "detect")
      BY <1>1, <2>1, Zenon DEF ObjectInv
    <3>2. range_status' \in {"initial", "detect"}
      BY <3>1, Zenon
    <3>3. step' \in {"send", "check", "reset"} => stage' = "detect"
      BY <3>1, SMT
    <3>4. ~picture'
      BY <3>1, Zenon
    <3> QED
      BY <1>2, <1>3, <3>1, <3>2, <3>3, <3>4, Zenon DEF ObjectInv
  <2>2. CASE ~Queued("detect_result") /\ At("detect", "send")'
    <3>1. status = "initialize" /\ range_status = "detect" /\ stage = "detect"
          /\ stage' = "detect"
      BY <1>4, <2>2, SMT DEF At, NestInv
    <3>2. ~PowerUp
      BY <3>1, SMT DEF PowerUp
    <3>3. ~DetectionUnderWay
      BY <1>1, <3>1, <3>2, SMT DEF TokenInv
    <3>4. ~picture'
      <4>1. status \notin PictureStatus /\ stage # "close"
        BY <3>1, SMT DEF PictureStatus
      <4> QED
        BY <1>1, <4>1, Zenon DEF PictureInv, LeavingDoor
    <3>5. range_status' \in {"initial", "detect"}
      BY <3>1, Zenon
    <3> QED
      BY <1>2, <1>3, <3>1, <3>3, <3>4, <3>5, Zenon DEF ObjectInv
  <2>3. CASE ~Queued("detect_result") /\ ~At("detect", "send")'
    BY <1>3, <2>3, Zenon DEF ObjectInv
  <2> QED
    BY <2>1, <2>2, <2>3
<1>13. DoorInv'
  BY <1>1, <1>2, <1>3, Zenon DEF DoorInv
<1> QED
  BY <1>7, <1>8, <1>9, <1>10, <1>11, <1>12, <1>13, Zenon DEF PassInv

(* The ranging thread reports: main is still in a status that may hear it. *)
LEMMA PassSendReport ==
  ASSUME TypeInv, NestInv, PassInv, SendReport, initial_flag,
         UNCHANGED <<mainVars, detectorVars>>
  PROVE  PassInv'
<1> DEFINE f == Report[stage]
<1>1. /\ QueueInv /\ ExpectedInv /\ TokenInv /\ CommandInv /\ ReportInv
      /\ ObjectInv /\ PictureInv /\ DoorInv /\ SharedTypeOK
  BY Zenon DEF PassInv, TypeInv, TypeOK
<1>2. /\ mpc' = mpc /\ status' = status /\ hpc' = hpc /\ apc' = apc
      /\ detectstatus' = detectstatus /\ fpgamsg' = fpgamsg /\ range_status' = range_status
      /\ initial_flag' = initial_flag /\ door' = door /\ picture' = picture
      /\ has_taken' = has_taken /\ stage' = stage
  BY Zenon DEF SendReport, Goto, mainVars, detectorVars
<1>3. step = "send" /\ step' \in {"check", "clear"}
      /\ (stage = "picture" => step' = "clear") /\ (stage # "picture" => step' = "check")
  BY SMT DEF SendReport, Goto
<1>4. /\ stage \in {"detect", "speed", "open", "close", "picture"}
      /\ stage = "detect" <=> f = "detect_result"
      /\ stage = "speed" <=> f = "calculate_result"
      /\ stage = "open" <=> f = "open_result"
      /\ stage = "close" <=> f = "close_result"
      /\ stage = "picture" <=> f = "taking_now"
      /\ f \in Flags /\ f \notin AnswerFlags
  <2>1. stage \in {"detect", "speed", "open", "close", "picture"}
    BY <1>3, SMT DEF TypeInv, RangingSteps, Commanded
  <2> QED
    BY <2>1, SMT DEF Report, Flags, AnswerFlags
<1>5. Send({f})
  BY <1>1, <1>3, Zenon DEF SendReport, ReportInv
<1> HIDE DEF f
<1>6. \A g : Queued(g)' <=> Queued(g) \/ g = f
  BY <1>1, <1>4, <1>5, SendFlag
<1>7. /\ AnswerQueued' <=> AnswerQueued
      /\ Detecting' <=> Detecting
      /\ DetectionUnderWay' <=> DetectionUnderWay
  <2>1. f # "recognize_result" /\ f # "disappear_object"
    BY <1>4, SMT DEF AnswerFlags
  <2>2. AnswerQueued' <=> AnswerQueued
    BY <1>6, <2>1, Zenon DEF AnswerQueued
  <2> QED
    BY <1>2, <2>2, SMT DEF Detecting, DetectionUnderWay
<1>8. At("close", "send") => status \in {"wait_close", "initialize"} /\ door = "closed"
        /\ range_status \notin {"speed", "dooropen"}
  BY <1>1, Zenon DEF ReportInv, CommandInv
<1>9. /\ f = "detect_result" => status = "initialize"
      /\ f = "calculate_result" => ~Queued("close_result")
      /\ f = "open_result" =>
           status \in {"approval_open", "wait_close"} /\ ~Queued("close_result")
      /\ f = "close_result" => status \in {"wait_close", "initialize"} /\ door = "closed"
           /\ range_status \notin {"speed", "dooropen"}
      /\ f = "taking_now" => status \in PictureStatus /\ ~Queued("close_result")
  BY <1>1, <1>3, <1>4, <1>8, SMT DEF ReportInv, ObjectInv, At
<1>10. ~Queued("detect_result")
  BY <1>1, <1>3, SMT DEF ObjectInv, NestInv, At
<1>11. QueueInv'
  BY <1>1, <1>4, <1>5, <1>9, <1>10, SendKeepsOrder, SMT DEF Flags, AnswerFlags
<1>12. ExpectedInv'
  BY <1>1, <1>2, <1>6, <1>7, <1>9, Zenon DEF ExpectedInv
<1>13. TokenInv'
  <2>1. ~PowerUp
    BY <1>4, SMT DEF PowerUp
  <2> QED
    BY <1>1, <1>2, <1>7, <2>1, Zenon DEF TokenInv
<1>14. CommandInv'
  <2>1. ~At("close", "send")'
    BY <1>3, SMT DEF At
  <2>2. range_status' \in {"speed", "dooropen"} => ~Queued("close_result")'
    BY <1>1, <1>2, <1>6, <1>9, Zenon DEF CommandInv
  <2> QED
    BY <1>1, <1>2, <2>1, <2>2, Zenon DEF CommandInv
<1>15. ReportInv'
  <2>1. step' # "send"
    BY <1>3, SMT
  <2>2. stage' = "picture" => status' \in PictureStatus /\ ~Queued("close_result")'
    <3>1. stage = "picture" => f = "taking_now"
      BY <1>4, Zenon
    <3>2. f = "taking_now" => f # "close_result"
      BY SMT
    <3> QED
      BY <1>2, <1>6, <1>9, <3>1, <3>2, Zenon
  <2> QED
    BY <2>1, <2>2, Zenon DEF ReportInv, At
<1>16. ObjectInv'
  <2>1. ~At("detect", "send")'
    BY <1>3, SMT DEF At
  <2>2. Queued("detect_result")' => At("detect", "send")
    BY <1>3, <1>4, <1>6, <1>10, Zenon DEF At
  <2>3. SUFFICES ASSUME At("detect", "send") PROVE ObjectInv'
    BY <2>1, <2>2, Zenon DEF ObjectInv
  <2>4. /\ status = "initialize" /\ range_status \in {"initial", "detect"}
        /\ ~picture /\ ~DetectionUnderWay /\ stage = "detect"
    BY <1>1, <2>3, Zenon DEF ObjectInv, At
  <2> QED
    BY <1>2, <1>7, <2>4, Zenon DEF ObjectInv
<1>17. PictureInv'
  <2>1. LeavingDoor' => LeavingDoor \/ f = "close_result"
    BY <1>2, <1>6, Zenon DEF LeavingDoor
  <2>2. f = "close_result" => stage' = "close" /\ step' \in {"check", "reset", "clear"}
          /\ step' \in {"check", "reset", "clear", "clear2"}
    BY <1>2, <1>3, <1>4, SMT
  <2>3. step \notin {"check", "reset", "clear"} /\ step \notin {"check", "reset", "clear", "clear2"}
    BY <1>3, SMT
  <2> QED
    BY <1>1, <1>2, <2>1, <2>2, <2>3, Zenon DEF PictureInv
<1>18. DoorInv'
  <2>1. f = "close_result" => door # "open"
    BY <1>9, SMT
  <2> QED
    BY <1>1, <1>2, <1>6, <2>1, Zenon DEF DoorInv
<1> QED
  BY <1>11, <1>12, <1>13, <1>14, <1>15, <1>16, <1>17, <1>18, Zenon DEF PassInv

(* The steps that touch nothing shared: the thread goes on, gives up, or   *)
(* starts a report that is due.                                            *)
LEMMA PassMove ==
  ASSUME TypeInv, NestInv, PassInv, initial_flag,
         UNCHANGED <<mainVars, detectorVars, sharedVars>>,
         PowerUp /\ (DetectionUnderWay \/ AnswerQueued) =>
           stage' \in {"setup", "sample", "exited"},
         \/ step \in {"decide", "send"} /\ step' = "decide"
         \/ stage' = stage /\ step = "check" /\ step' = "reset" /\ rbuf' = rbuf
         \/ stage' = "detect" /\ step' = "send" /\ At("detect", "decide")
              /\ range_status = "detect" /\ rbuf' = {"detect_result"}
         \/ stage' = "speed" /\ step' = "send" /\ At("speed", "decide")
              /\ range_status = "speed" /\ rbuf' = {"calculate_result"}
         \/ stage' = "picture" /\ step' = "send" /\ At("picture", "decide")
              /\ picture /\ rbuf' = {"taking_now"}
  PROVE  PassInv'
<1>1. UNCHANGED <<sas_msg, fpgamsg, initial_flag, door>>
  BY Zenon DEF sharedVars
<1>2. range_status' = range_status /\ picture' = picture /\ has_taken' = has_taken
      /\ sas_msg' = sas_msg
  BY Zenon DEF sharedVars
<1>3. range_status' \in {range_status, "initial"} /\ (picture' => picture)
  BY <1>2, Zenon
<1>4. \/ step' = "decide"
      \/ stage' = stage /\ step = "check" /\ step' = "reset" /\ rbuf' = rbuf
      \/ stage' = "close" /\ step' \in {"clear", "clear2"}
      \/ stage' = "picture" /\ stage = "picture" /\ step # "decide" /\ step' = "clear2"
      \/ stage' = "detect" /\ step' = "send" /\ At("detect", "decide")
           /\ range_status = "detect" /\ rbuf' = {"detect_result"}
      \/ stage' = "speed" /\ step' = "send" /\ stage = "speed"
           /\ range_status = "speed" /\ rbuf' = {"calculate_result"}
      \/ stage' = "picture" /\ step' = "send" /\ stage = "picture"
           /\ picture /\ rbuf' = {"taking_now"}
  BY Zenon DEF At
<1>5. PictureInv'
  <2>1. status' = status
    BY Zenon DEF mainVars
  <2>2. LeavingDoor' <=> LeavingDoor
    BY <1>2, <2>1, SMT DEF LeavingDoor, Queued
  <2>3. step \in {"check", "reset", "clear", "clear2"} =>
          stage' = stage /\ step' = "reset"
    BY SMT DEF At
  <2>4. PictureInv
    BY Zenon DEF PassInv
  <2>5. CASE ~(step \in {"check", "reset", "clear", "clear2"})
    <3>1. step \notin {"check", "reset", "clear"}
      BY <2>5, SMT
    <3> QED
      BY <1>2, <2>2, <2>4, <2>5, <3>1, Zenon DEF PictureInv
  <2>6. CASE stage' = stage /\ step' = "reset"
    <3>1. step' \in {"check", "reset", "clear"} /\ step' \in {"check", "reset", "clear", "clear2"}
      BY <2>6, SMT
    <3> QED
      BY <1>2, <2>2, <2>4, <2>6, <3>1, Zenon DEF PictureInv
  <2> QED
    BY <2>3, <2>5, <2>6, Zenon
<1> QED
  BY <1>1, <1>3, <1>4, <1>5, PassQuiet, Zenon

(* The door opens on main's command, and only in a pass that will close it *)
(* again.                                                                  *)
LEMMA PassOpenStage ==
  ASSUME TypeInv, BufClean, NestInv, PassInv, OpenStage, initial_flag,
         UNCHANGED <<mainVars, detectorVars>>
  PROVE  PassInv'
<1>1. /\ QueueInv /\ ExpectedInv /\ TokenInv /\ CommandInv /\ ReportInv
      /\ ObjectInv /\ PictureInv /\ DoorInv
  BY Zenon DEF PassInv
<1>2. /\ mpc' = mpc /\ status' = status /\ hpc' = hpc /\ apc' = apc
      /\ detectstatus' = detectstatus /\ sas_msg' = sas_msg /\ fpgamsg' = fpgamsg
      /\ initial_flag' = initial_flag /\ range_status' = range_status
      /\ picture' = picture /\ has_taken' = has_taken
  BY Zenon DEF OpenStage, mainVars, detectorVars
<1>3. /\ \A f : Queued(f)' <=> Queued(f)
      /\ AnswerQueued' <=> AnswerQueued
      /\ Detecting' <=> Detecting
      /\ DetectionUnderWay' <=> DetectionUnderWay
  BY <1>2, SMT DEF Queued, AnswerQueued, Detecting, DetectionUnderWay
<1>4. /\ stage = "open" /\ step = "decide" /\ range_status = "dooropen"
      /\ \/ stage' = "open" /\ step' = "send" /\ rbuf' = {"open_result"}
         \/ stage' = "close" /\ step' = "decide"
  BY SMT DEF OpenStage, At, Goto, BufClean
<1>5. status \in {"approval_open", "wait_close"} /\ ~Queued("close_result")
  BY <1>1, <1>4, SMT DEF CommandInv
<1>6. QueueInv'
  BY <1>1, <1>2, SMT DEF QueueInv, MayFollow
<1>7. ExpectedInv'
  BY <1>1, <1>2, <1>3, Zenon DEF ExpectedInv
<1>8. TokenInv'
  <2>1. ~PowerUp
    BY <1>4, SMT DEF PowerUp
  <2> QED
    BY <1>1, <1>2, <1>3, <2>1, Zenon DEF TokenInv
<1>9. CommandInv'
  <2>1. ~At("close", "send")'
    BY <1>4, SMT DEF At
  <2>2. initial_flag'
    BY <1>2, SMT
  <2> QED
    BY <1>1, <1>2, <1>3, <2>1, <2>2, Zenon DEF CommandInv
<1>10. ReportInv'
  BY <1>2, <1>3, <1>4, <1>5, SMT DEF ReportInv, At, Report
<1>11. ObjectInv'
  <2>1. ~Queued("detect_result")
    BY <1>1, <1>4, SMT DEF ObjectInv
  <2>2. ~At("detect", "send")'
    BY <1>4, SMT DEF At
  <2> QED
    BY <1>3, <2>1, <2>2, Zenon DEF ObjectInv
<1>12. PictureInv'
  <2>1. ~LeavingDoor'
    BY <1>2, <1>3, <1>5, SMT DEF LeavingDoor, PictureStatus
  <2> QED
    BY <2>1, Zenon DEF PictureInv
<1>13. DoorInv'
  BY <1>2, <1>3, <1>5, Zenon DEF DoorInv
<1> QED
  BY <1>6, <1>7, <1>8, <1>9, <1>10, <1>11, <1>12, <1>13, Zenon DEF PassInv

(* ... and it is closed before its report is made.                         *)
LEMMA PassCloseStage ==
  ASSUME TypeInv, BufClean, NestInv, PassInv, CloseStage, initial_flag,
         UNCHANGED <<mainVars, detectorVars>>
  PROVE  PassInv'
<1>1. /\ QueueInv /\ ExpectedInv /\ TokenInv /\ CommandInv /\ ReportInv
      /\ ObjectInv /\ PictureInv /\ DoorInv
  BY Zenon DEF PassInv
<1>2. /\ mpc' = mpc /\ status' = status /\ hpc' = hpc /\ apc' = apc
      /\ detectstatus' = detectstatus /\ sas_msg' = sas_msg /\ fpgamsg' = fpgamsg
      /\ initial_flag' = initial_flag /\ range_status' = range_status
      /\ picture' = picture /\ has_taken' = has_taken
  BY Zenon DEF CloseStage, mainVars, detectorVars
<1>3. /\ \A f : Queued(f)' <=> Queued(f)
      /\ AnswerQueued' <=> AnswerQueued
      /\ Detecting' <=> Detecting
      /\ DetectionUnderWay' <=> DetectionUnderWay
  BY <1>2, SMT DEF Queued, AnswerQueued, Detecting, DetectionUnderWay
<1>4. /\ stage = "close" /\ step = "decide" /\ range_status = "doorclose"
      /\ stage' = "close" /\ step' = "send" /\ rbuf' = {"close_result"}
      /\ door' = "closed"
  BY SMT DEF CloseStage, At, Goto, BufClean
<1>5. status \in {"wait_close", "initialize"}
  BY <1>1, <1>4, SMT DEF CommandInv
<1>6. QueueInv'
  BY <1>1, <1>2, SMT DEF QueueInv, MayFollow
<1>7. ExpectedInv'
  BY <1>1, <1>2, <1>3, Zenon DEF ExpectedInv
<1>8. TokenInv'
  <2>1. ~PowerUp
    BY <1>4, SMT DEF PowerUp
  <2> QED
    BY <1>1, <1>2, <1>3, <2>1, Zenon DEF TokenInv
<1>9. CommandInv'
  <2>1. range_status \notin {"speed", "dooropen"}
    BY <1>4, SMT
  <2>2. initial_flag'
    BY <1>2, SMT
  <2> QED
    BY <1>1, <1>2, <2>1, <2>2, Zenon DEF CommandInv
<1>10. ReportInv'
  BY <1>2, <1>4, <1>5, SMT DEF ReportInv, At, Report
<1>11. ObjectInv'
  <2>1. ~Queued("detect_result")
    BY <1>1, <1>4, SMT DEF ObjectInv
  <2>2. ~At("detect", "send")'
    BY <1>4, SMT DEF At
  <2> QED
    BY <1>3, <2>1, <2>2, Zenon DEF ObjectInv
<1>12. PictureInv'
  <2>1. LeavingDoor' <=> LeavingDoor
    BY <1>2, <1>3, Zenon DEF LeavingDoor
  <2>2. step \notin {"check", "reset", "clear"} /\ step \notin {"check", "reset", "clear", "clear2"}
    BY <1>4, SMT
  <2> QED
    BY <1>1, <1>2, <2>1, <2>2, Zenon DEF PictureInv
<1>13. DoorInv'
  BY <1>4, SMT DEF DoorInv
<1> QED
  BY <1>6, <1>7, <1>8, <1>9, <1>10, <1>11, <1>12, <1>13, Zenon DEF PassInv

(* After a report the command stands or is reset.                          *)
LEMMA PassEndStage ==
  ASSUME TypeInv, NestInv, PassInv, initial_flag, CheckChanged \/ Reset \/ CheckAndReset,
         UNCHANGED <<mainVars, detectorVars>>
  PROVE  PassInv'
<1>1. step \in {"check", "reset"} /\ range_status' \in {range_status, "initial"} /\ EndStage
  BY SMT DEF CheckChanged, Reset, CheckAndReset
<1>2. stage \in Commanded
  BY <1>1, SMT DEF TypeInv, RangingSteps
<1>3. /\ UNCHANGED <<sas_msg, fpgamsg, initial_flag, door>>
      /\ picture' = picture /\ has_taken' = has_taken /\ sas_msg' = sas_msg
  BY <1>1, Zenon DEF EndStage
<1>4. \/ stage = "close" /\ stage' = "close" /\ step' = "clear"
      \/ stage # "close" /\ step' = "decide"
  BY <1>1, SMT DEF EndStage, Goto
<1>5. PictureInv'
  <2>1. status' = status
    BY Zenon DEF mainVars
  <2>2. LeavingDoor' <=> LeavingDoor
    BY <1>3, <2>1, SMT DEF LeavingDoor, Queued
  <2>3. stage = "close" =>
          stage' = "close" /\ step' \in {"check", "reset", "clear"}
          /\ step' \in {"check", "reset", "clear", "clear2"}
    BY <1>4, SMT
  <2>4. PictureInv
    BY Zenon DEF PassInv
  <2> QED
    BY <1>3, <2>2, <2>3, <2>4, Zenon DEF PictureInv
<1>6. PowerUp /\ (DetectionUnderWay \/ AnswerQueued) =>
        stage' \in {"setup", "sample", "exited"}
  BY <1>2, SMT DEF PowerUp, Commanded
<1>7. step' = "decide" \/ (stage' = "close" /\ step' \in {"clear", "clear2"})
  BY <1>4, Zenon
<1>8. picture' => picture
  BY <1>3, Zenon
<1> QED
  BY <1>1, <1>3, <1>5, <1>6, <1>7, <1>8, PassQuiet, Zenon

(* picture and has_taken are cleared with the report of the closed door    *)
(* out, and set only while the pass goes on.                               *)
LEMMA PassClear ==
  ASSUME TypeInv, NestInv, PassInv, initial_flag,
         CloseClearTaken \/ CloseClearPicture \/ PictureOff \/ PictureTaken,
         UNCHANGED <<mainVars, detectorVars>>
  PROVE  PassInv'
<1> USE DEF At, Goto
<1>1. /\ UNCHANGED <<sas_msg, fpgamsg, initial_flag, door>>
      /\ range_status' = range_status /\ sas_msg' = sas_msg
  BY Zenon DEF CloseClearTaken, CloseClearPicture, PictureOff, PictureTaken
<1>2. stage \in {"close", "picture"} /\ step \in {"clear", "clear2"}
  BY Zenon DEF CloseClearTaken, CloseClearPicture, PictureOff, PictureTaken
<1>3. LeavingDoor' <=> LeavingDoor
  <2>1. status' = status
    BY Zenon DEF mainVars
  <2> QED
    BY <1>1, <2>1, SMT DEF LeavingDoor, Queued
<1>4. PictureInv /\ ReportInv
  BY Zenon DEF PassInv
<1>5. stage = "picture" => ~LeavingDoor
  <2>1. step # "decide"
    BY <1>2, SMT
  <2> QED
    BY <1>4, <2>1, Zenon DEF ReportInv, LeavingDoor
<1>6. PictureInv'
  <2>1. CASE CloseClearTaken
    <3>1. ~has_taken' /\ picture' = picture
      BY <2>1, Zenon DEF CloseClearTaken
    <3>2. stage' = "close" /\ step' \in {"check", "reset", "clear", "clear2"}
      BY <2>1, SMT DEF CloseClearTaken
    <3> QED
      BY <3>1, <3>2, Zenon DEF PictureInv
  <2>2. CASE CloseClearPicture
    <3>1. ~picture' /\ has_taken' = has_taken
      BY <2>2, Zenon DEF CloseClearPicture
    <3>2. step \notin {"check", "reset", "clear"}
      BY <2>2, SMT DEF CloseClearPicture
    <3> QED
      BY <1>3, <1>4, <3>1, <3>2, Zenon DEF PictureInv
  <2>3. CASE PictureOff \/ PictureTaken
    <3>1. stage = "picture"
      BY <2>3, Zenon DEF PictureOff, PictureTaken
    <3> QED
      BY <1>3, <1>5, <3>1, Zenon DEF PictureInv
  <2> QED
    BY <2>1, <2>2, <2>3, Zenon
<1>7. PowerUp /\ (DetectionUnderWay \/ AnswerQueued) =>
        stage' \in {"setup", "sample", "exited"}
  BY <1>2, SMT DEF PowerUp
<1>8. \/ step' = "decide"
      \/ stage' = "close" /\ step' \in {"clear", "clear2"}
      \/ stage' = "picture" /\ stage = "picture" /\ step # "decide" /\ step' = "clear2"
  <2>1. step # "decide"
    BY <1>2, SMT
  <2> QED
    BY <2>1, Zenon DEF CloseClearTaken, CloseClearPicture, PictureOff, PictureTaken
<1>9. picture' => picture
  BY Zenon DEF CloseClearTaken, CloseClearPicture, PictureOff, PictureTaken
<1>10. range_status' \in {range_status, "initial"}
  BY <1>1, Zenon
<1> QED
  BY <1>1, <1>6, <1>7, <1>8, <1>9, <1>10, PassQuiet, Zenon

(* The ranging thread, step by step. Only a sample may leave the power-up, *)
(* and it is taken when main is at rest.                                   *)
LEMMA PassRanging ==
  ASSUME TypeInv, BufClean, NestInv, PassInv, RangingThread,
         "prompt" \in Timing, "settled" \in Timing
  PROVE  PassInv'
<1> USE DEF At, Goto
<1>1. UNCHANGED <<mainVars, detectorVars>> /\ RangingNext /\ RangingSteps
  BY Zenon DEF RangingThread, TypeInv
<1>2. initial_flag
  <2>1. CommandInv
    BY Zenon DEF PassInv
  <2> QED
    BY <1>1, <2>1, RangingRuns
<1>3. CASE SendReport
  BY <1>1, <1>2, <1>3, PassSendReport
<1>4. CASE OpenStage
  BY <1>1, <1>2, <1>4, PassOpenStage
<1>5. CASE CloseStage
  BY <1>1, <1>2, <1>5, PassCloseStage
<1>6. CASE CheckChanged \/ Reset \/ CheckAndReset
  BY <1>1, <1>2, <1>6, PassEndStage
<1>7. CASE CloseClearTaken \/ CloseClearPicture \/ PictureOff \/ PictureTaken
  BY <1>1, <1>2, <1>7, PassClear
<1>8. CASE SetUp \/ SetUpFails \/ SpeedStageContinues \/ OpenStageIdle \/ CloseStageIdle
           \/ SendReportFails
  <2>1. /\ UNCHANGED sharedVars
        /\ step \in {"decide", "send"} /\ step' = "decide"
        /\ PowerUp => stage' \in {"setup", "sample", "exited"}
    BY <1>8, SMT DEF SetUp, SetUpFails, SpeedStageContinues, OpenStageIdle,
       CloseStageIdle, SendReportFails, PowerUp
  <2> QED
    BY <1>1, <1>2, <2>1, PassMove
<1>9. CASE Sample
  <2>1. UNCHANGED sharedVars /\ step = "decide" /\ step' = "decide"
    BY <1>9, SMT DEF Sample
  <2>2. MainAtRest /\ detectstatus # 2
    BY <1>9, SMT DEF RangingThread, Sample, SampleInTime
  <2>3. PowerUp => ~AnswerQueued
    <3>1. sas_msg = << >> => ~AnswerQueued
      BY SMT DEF AnswerQueued, Queued
    <3>2. mpc = "take" => status # "initialize"
      BY SMT DEF NestInv, PictureStatus
    <3> QED
      BY <2>2, <3>1, <3>2, SMT DEF PowerUp, MainAtRest
  <2>4. ~PowerUp
    BY <2>2, <2>3, Zenon DEF PowerUp
  <2> QED
    BY <1>1, <1>2, <2>1, <2>4, PassMove
<1>10. CASE DetectStage
  <2>1. /\ UNCHANGED sharedVars
        /\ stage = "detect" /\ step = "decide"
        /\ \/ step' = "decide"
           \/ stage' = "detect" /\ step' = "send" /\ range_status = "detect"
                /\ rbuf' = {"detect_result"}
    BY <1>10, SMT DEF DetectStage, BufClean
  <2>2. ~PowerUp
    BY <2>1, SMT DEF PowerUp
  <2> QED
    BY <1>1, <1>2, <2>1, <2>2, PassMove
<1>11. CASE SpeedStageDone
  <2>1. /\ UNCHANGED sharedVars
        /\ stage = "speed" /\ step = "decide" /\ range_status = "speed"
        /\ stage' = "speed" /\ step' = "send" /\ rbuf' = {"calculate_result"}
    BY <1>11, SMT DEF SpeedStageDone, BufClean
  <2>2. ~PowerUp
    BY <2>1, SMT DEF PowerUp
  <2> QED
    BY <1>1, <1>2, <2>1, <2>2, PassMove
<1>12. CASE PictureStage
  <2>1. UNCHANGED sharedVars /\ stage = "picture" /\ step = "decide"
    BY <1>12, Zenon DEF PictureStage
  <2>2. \/ step' = "decide"
        \/ stage' = "picture" /\ step' = "send" /\ picture /\ rbuf' = {"taking_now"}
    BY <1>12, SMT DEF PictureStage, BufClean
  <2>3. ~PowerUp
    BY <2>1, SMT DEF PowerUp
  <2> QED
    BY <1>1, <1>2, <2>1, <2>2, <2>3, PassMove
<1>13. CASE CheckSame
  <2>1. /\ UNCHANGED sharedVars /\ rbuf' = rbuf
        /\ stage' = stage /\ step = "check" /\ step' = "reset"
    BY <1>13, SMT DEF CheckSame
  <2>2. ~PowerUp
    BY <1>1, <2>1, SMT DEF PowerUp, RangingSteps, Commanded
  <2> QED
    BY <1>1, <1>2, <2>1, <2>2, PassMove
<1> QED
  BY <1>1, <1>3, <1>4, <1>5, <1>6, <1>7, <1>8, <1>9, <1>10, <1>11, <1>12, <1>13,
     Zenon DEF RangingNext

-----------------------------------------------------------------------------
(***************************************************************************)
(* Steps of the human detection.                                           *)
(***************************************************************************)

(* The detection takes, accepts or drops the one request there is, or      *)
(* answers it: the request moves on and is never doubled.                  *)
LEMMA PassDetector ==
  ASSUME TypeInv, NestInv, PassInv, DetectorThreads, "prompt" \in Timing
  PROVE  PassInv'
<1>1. /\ QueueInv /\ ExpectedInv /\ TokenInv /\ CommandInv /\ ReportInv
      /\ ObjectInv /\ PictureInv /\ DoorInv /\ SharedTypeOK
  BY Zenon DEF PassInv, TypeInv, TypeOK
<1>2. /\ mpc' = mpc /\ status' = status /\ stage' = stage /\ step' = step /\ rbuf' = rbuf
  BY Zenon DEF DetectorThreads, mainVars, rangingVars
<1>3. /\ range_status' = range_status /\ picture' = picture /\ has_taken' = has_taken
      /\ initial_flag' = initial_flag /\ door' = door
  BY Zenon DEF DetectorThreads, DetectorNext, sharedVars, TakeRequest, AcceptRequest,
     DropRequest, Answer, Finish
<1>4. /\ DetectionUnderWay <=> fpgamsg > 0 \/ hpc = "camera" \/ Detecting
      /\ (DetectionUnderWay <=> fpgamsg > 0 \/ hpc = "camera" \/ Detecting)'
      /\ fpgamsg \in Nat /\ hpc \in {"receive", "camera"} /\ detectstatus \in 0 .. 2
      /\ apc \in {"work", "answered"}
  BY SMT DEF DetectionUnderWay, Detecting, TypeInv, TypeOK, SharedTypeOK, DetectorTypeOK
(* What is left to show: an answer comes only while main expects one, and  *)
(* the request stays in one place.                                         *)
<1>5. SUFFICES /\ QueueInv' /\ TokenInv'
               /\ DetectionUnderWay' => DetectionUnderWay
               /\ \A g : g \notin AnswerFlags => (Queued(g)' <=> Queued(g))
               /\ AnswerQueued' => AnswerQueued \/ DetectionUnderWay
  <2>1. /\ Queued("detect_result")' <=> Queued("detect_result")
        /\ Queued("taking_now")' <=> Queued("taking_now")
        /\ Queued("open_result")' <=> Queued("open_result")
        /\ Queued("close_result")' <=> Queued("close_result")
    BY <1>5, SMT DEF AnswerFlags
  <2>2. AnswerQueued \/ DetectionUnderWay =>
          status \in {"initialize", "start_process", "wait_detect"}
    BY <1>1, SMT DEF TokenInv, PowerUp
  <2>3. ExpectedInv'
    BY <1>1, <1>2, <1>5, <2>1, <2>2, Zenon DEF ExpectedInv
  <2>4. CommandInv' /\ ReportInv' /\ DoorInv' /\ PictureInv' /\ ObjectInv'
    <3>1. /\ At("close", "send")' <=> At("close", "send")
          /\ At("speed", "send")' <=> At("speed", "send")
          /\ At("open", "send")' <=> At("open", "send")
          /\ At("detect", "send")' <=> At("detect", "send")
          /\ LeavingDoor' <=> LeavingDoor
      BY <1>2, <2>1, Zenon DEF At, LeavingDoor
    <3>2. CommandInv'
      BY <1>1, <1>2, <1>3, <2>1, <3>1, Zenon DEF CommandInv
    <3>3. ReportInv'
      BY <1>1, <1>2, <1>3, <2>1, <3>1, Zenon DEF ReportInv
    <3>4. DoorInv'
      BY <1>1, <1>2, <1>3, <2>1, Zenon DEF DoorInv
    <3>5. PictureInv'
      BY <1>1, <1>2, <1>3, <3>1, Zenon DEF PictureInv
    <3>6. ObjectInv'
      BY <1>1, <1>2, <1>3, <1>5, <2>1, <3>1, Zenon DEF ObjectInv
    <3> QED
      BY <3>2, <3>3, <3>4, <3>5, <3>6
  <2> QED
    BY <1>5, <2>3, <2>4, Zenon DEF PassInv
<1>6. CASE Answer
  <2>1. PICK m \in Answers : Send(m)
    BY <1>6, Zenon DEF Answer
  <2>2. PICK f \in AnswerFlags : m = {f}
    BY SMT DEF Answers, AnswerFlags
  <2>3. f \in Flags /\ f \notin {"close_result", "detect_result"} /\ Send({f})
    BY <2>1, <2>2, SMT DEF AnswerFlags, Flags
  <2>4. Detecting /\ ~Detecting' /\ fpgamsg' = fpgamsg /\ hpc' = hpc
        /\ detectstatus' = detectstatus
    BY <1>6, SMT DEF Answer, Detecting
  <2>5. DetectionUnderWay /\ ~AnswerQueued /\ fpgamsg = 0 /\ hpc = "receive"
    BY <1>1, <1>4, <2>4, SMT DEF TokenInv
  <2>6. ~Queued("detect_result")
    BY <1>1, <2>5, SMT DEF ObjectInv
  <2>7. \/ status = "wait_detect"
        \/ status = "start_process" /\ mpc = "receive"
        \/ PowerUp
    BY <1>1, <2>5, Zenon DEF TokenInv
  <2>8. ~Queued("close_result")
    BY <1>1, <2>7, SMT DEF ExpectedInv, PowerUp
  <2>9. \A g : Queued(g)' <=> Queued(g) \/ g = f
    BY <1>1, <2>3, SendFlag
  <2>10. QueueInv'
    BY <1>1, <2>3, <2>5, <2>6, <2>8, SendKeepsOrder, Zenon
  <2>11. AnswerQueued'
    <3>1. f = "recognize_result" \/ f = "disappear_object"
      BY SMT DEF AnswerFlags
    <3> QED
      BY <2>9, <3>1, Zenon DEF AnswerQueued
  <2>12. PowerUp => PowerUp'
    <3>1. PowerUp => ~Queued("close_result")' /\ ~Queued("detect_result")'
      BY <2>3, <2>6, <2>8, <2>9, Zenon
    <3> QED
      BY <1>2, <2>4, <2>11, <3>1, Zenon DEF PowerUp
  <2>13. TokenInv'
    <3>1. ~(fpgamsg' > 0) /\ hpc' # "camera"
      BY <2>4, <2>5, SMT
    <3> QED
      BY <1>2, <2>4, <2>7, <2>12, <3>1, Zenon DEF TokenInv
  <2>14. DetectionUnderWay' => DetectionUnderWay
    BY <2>5
  <2>15. \A g : g \notin AnswerFlags => (Queued(g)' <=> Queued(g))
    BY <2>9, Zenon
  <2> QED
    BY <2>5, <2>10, <2>13, <2>14, <2>15, Zenon
<1>7. CASE ~Answer
  <2>1. sas_msg' = sas_msg
    BY <1>7, Zenon DEF DetectorThreads, DetectorNext, sharedVars, TakeRequest, AcceptRequest,
       DropRequest, Finish
  <2>2. /\ \A g : Queued(g)' <=> Queued(g)
        /\ AnswerQueued' <=> AnswerQueued
    BY <2>1, SMT DEF Queued, AnswerQueued
  <2>3. QueueInv'
    BY <1>1, <2>1, SMT DEF QueueInv, MayFollow
  <2>4. TakeRequest \/ AcceptRequest \/ DropRequest \/ Finish
    BY <1>7, Zenon DEF DetectorThreads, DetectorNext
  <2>5. AcceptRequest => apc = "work"
    BY SMT DEF DetectorThreads, FrameInTime, AcceptRequest
  <2>6. DropRequest => FALSE
    BY <1>1, SMT DEF DetectorThreads, FrameInTime, DropRequest, TokenInv, Detecting
  <2>7. \/ /\ hpc = "receive" /\ fpgamsg > 0 /\ fpgamsg' = fpgamsg - 1 /\ hpc' = "camera"
           /\ apc' = apc /\ detectstatus' = detectstatus
        \/ /\ hpc = "camera" /\ hpc' = "receive" /\ fpgamsg' = fpgamsg
           /\ apc = "work" /\ apc' = apc /\ detectstatus = 0 /\ detectstatus' = 1
        \/ /\ hpc' = hpc /\ fpgamsg' = fpgamsg /\ apc = "answered"
           /\ detectstatus' = 0
    BY <2>4, <2>5, <2>6, SMT DEF TakeRequest, AcceptRequest, Finish, sharedVars
  <2>8. /\ Detecting <=> detectstatus # 0 /\ apc = "work"
        /\ (Detecting <=> detectstatus # 0 /\ apc = "work")'
    BY SMT DEF Detecting
  <2>9. DetectionUnderWay' => DetectionUnderWay
    BY <1>4, <2>7, <2>8, SMT
  <2>10. PowerUp /\ (DetectionUnderWay' \/ AnswerQueued') => PowerUp'
    BY <1>2, <1>4, <2>2, <2>7, <2>8, SMT DEF PowerUp
  <2>11. /\ fpgamsg' > 0 => fpgamsg' = 1 /\ hpc' = "receive" /\ ~Detecting' /\ ~AnswerQueued
         /\ hpc' = "camera" => ~Detecting' /\ ~AnswerQueued
         /\ Detecting' => ~AnswerQueued
    BY <1>1, <1>4, <2>7, <2>8, SMT DEF TokenInv
  <2>12. TokenInv'
    BY <1>1, <1>2, <2>2, <2>9, <2>10, <2>11, Zenon DEF TokenInv
  <2> QED
    BY <2>2, <2>3, <2>9, <2>12, Zenon
<1> QED
  BY <1>6, <1>7

-----------------------------------------------------------------------------
(***************************************************************************)
(* The theorems about a pass.                                              *)
(***************************************************************************)

(* PassInv is inductive, with what DoorControlProofs says of the same      *)
(* states.                                                                 *)
LEMMA PassStep ==
  ASSUME TypeInv, BufClean, MainSteps, NestInv, PassInv, [Next]_vars,
         "prompt" \in Timing, "settled" \in Timing
  PROVE  PassInv'
<1>1. CASE Main
  <2>1. UNCHANGED <<rangingVars, detectorVars>> /\ MainNext
    BY <1>1, Zenon DEF Main
  <2> QED
    BY <2>1, PassReceive, PassEntry
<1>2. CASE RangingThread
  BY <1>2, PassRanging
<1>3. CASE DetectorThreads
  BY <1>3, PassDetector
<1>4. CASE UNCHANGED vars
  <2>1. UNCHANGED <<sas_msg, fpgamsg, range_status, picture, has_taken, initial_flag, door>>
        /\ UNCHANGED <<mpc, status, stage, step, rbuf, hpc, apc, detectstatus>>
    BY <1>4, Zenon DEF vars, sharedVars, mainVars, rangingVars, detectorVars
  <2>2. /\ \A g : Queued(g)' <=> Queued(g)
        /\ AnswerQueued' <=> AnswerQueued
        /\ \A st, sp : At(st, sp)' <=> At(st, sp)
        /\ Detecting' <=> Detecting
        /\ DetectionUnderWay' <=> DetectionUnderWay
    BY <2>1, SMT DEF Queued, AnswerQueued, At, Detecting, DetectionUnderWay
  <2>3. PowerUp' <=> PowerUp
    BY <2>1, <2>2, Zenon DEF PowerUp
  <2>4. QueueInv'
    BY <2>1, SMT DEF PassInv, QueueInv, MayFollow
  <2>5. ExpectedInv' /\ TokenInv' /\ CommandInv' /\ DoorInv'
    BY <2>1, <2>2, <2>3, Zenon DEF PassInv, ExpectedInv, TokenInv, CommandInv, DoorInv
  <2>6. ReportInv' /\ ObjectInv' /\ PictureInv'
    BY <2>1, <2>2, Zenon DEF PassInv, ReportInv, ObjectInv, PictureInv, LeavingDoor
  <2> QED
    BY <2>4, <2>5, <2>6, Zenon DEF PassInv
<1> QED
  BY <1>1, <1>2, <1>3, <1>4 DEF Next

(* It holds at power-up.                                                   *)
LEMMA PassInit == Init => PassInv
<1>1. SUFFICES ASSUME Init PROVE PassInv
  OBVIOUS
<1>2. /\ sas_msg = << >> /\ fpgamsg = 0 /\ range_status = "initial" /\ door = "closed"
      /\ mpc = "enter" /\ status = "initialize" /\ stage = "setup" /\ step = "decide"
      /\ hpc = "receive" /\ apc = "work" /\ detectstatus = 2
  BY <1>1, Zenon DEF Init, SharedInit, MainInit, RangingInit, DetectorInit
<1>3. ~picture /\ ~has_taken
  BY <1>1, Zenon DEF Init, SharedInit
<1>4. \A g : ~Queued(g)
  BY <1>2, SMT DEF Queued
<1>5. ~AnswerQueued
  BY <1>4, Zenon DEF AnswerQueued
<1>6. QueueInv
  BY <1>2, SMT DEF QueueInv
<1>7. ExpectedInv
  BY <1>4, <1>5, Zenon DEF ExpectedInv
<1>8. TokenInv
  <2>1. PowerUp
    BY <1>2, <1>4, SMT DEF PowerUp
  <2> QED
    BY <1>2, <1>5, <2>1, SMT DEF TokenInv
<1>9. CommandInv /\ DoorInv
  BY <1>2, <1>4, SMT DEF CommandInv, DoorInv, At
<1>10. ReportInv
  BY <1>2, SMT DEF ReportInv, At
<1>11. ObjectInv
  BY <1>2, <1>4, SMT DEF ObjectInv, At
<1>12. PictureInv
  BY <1>3, Zenon DEF PictureInv
<1> QED
  BY <1>6, <1>7, <1>8, <1>9, <1>10, <1>11, <1>12, Zenon DEF PassInv

(* The joint inductive invariant.                                          *)
PassContext ==
  /\ BufSteps
  /\ OneResultPerMessage
  /\ MainSteps
  /\ AnswerPending
  /\ NestInv
  /\ PassInv

(* All parts hold at power-up, if buf starts out clear.                    *)
LEMMA PassContextInit ==
  ASSUME StackResidue = {}
  PROVE  Init => PassContext
<1>1. Init => BufSteps /\ OneResultPerMessage /\ MainSteps /\ AnswerPending
  BY SMT DEF Init, RangingInit, SharedInit, MainInit, BufSteps, OneResultPerMessage,
     MainSteps, AnswerPending
<1>2. Init => NestInv
  BY SMT DEF Init, RangingInit, SharedInit, MainInit, NestInv, At, Queued,
     OneDetection, NoNestedDetection
<1> QED
  BY <1>1, <1>2, PassInit DEF PassContext

(* Each part is preserved with the help of the others.                     *)
LEMMA PassContextStep ==
  ASSUME TypeInv, PassContext, [Next]_vars, "prompt" \in Timing, "settled" \in Timing,
         StackResidue = {}
  PROVE  PassContext'
<1>1. SharedTypeOK
  BY DEF TypeInv, TypeOK
<1> QED
  BY <1>1, CleanStack, OneResultStep, AnswerInvStep, NestStep, PassStep DEF AnswerInv, PassContext

(* The joint invariant holds in every execution.                           *)
LEMMA PassInvariance ==
  ASSUME "prompt" \in Timing, "settled" \in Timing, StackResidue = {}
  PROVE  Spec => [](TypeInv /\ PassContext)
<1>1. Init => PassContext
  BY PassContextInit
<1>2. TypeInv /\ PassContext /\ [Next]_vars => PassContext'
  BY PassContextStep
<1> QED
  BY <1>1, <1>2, TypeInvariance, PTL DEF Spec

(* Once a human has been recognised the pass hears nothing more of the     *)
(* human detection: no second answer can abandon it with the door on its   *)
(* way, although requests are dropped, passes are abandoned and anything   *)
(* may fail.                                                               *)
THEOREM PassGetsOneAnswer ==
  ASSUME "prompt" \in Timing, "settled" \in Timing, StackResidue = {}
  PROVE  Spec => []OneAnswerPerPass
<1>1. TypeInv /\ PassContext => OneAnswerPerPass
  <2>1. SUFFICES ASSUME TokenInv, status \in {"wait_calculate", "approval_open", "wait_close"}
                 PROVE  ~DetectionUnderWay /\ ~AnswerQueued
    BY DEF PassContext, PassInv, OneAnswerPerPass
  <2>2. status # "wait_detect" /\ status # "start_process" /\ status # "initialize"
    BY <2>1, SMT
  <2> QED
    BY <2>1, <2>2, Zenon DEF TokenInv, PowerUp
<1> QED
  BY <1>1, PassInvariance, PTL

(* No request reaches exec_humandetect while a detection is under way, so  *)
(* that the frame it reads for a request is always begun after the answer  *)
(* before: in the whole program the exception FreshFeatures makes for      *)
(* earlier frames does not occur.                                          *)
THEOREM RequestsFollowAnswers ==
  ASSUME "prompt" \in Timing, "settled" \in Timing, StackResidue = {}
  PROVE  Spec => []RequestAfterAnswer
<1>1. TypeInv /\ PassContext => RequestAfterAnswer
  <2>1. SUFFICES ASSUME TokenInv, DetectorTypeOK, fpgamsg > 0
                 PROVE  detectstatus = 0 \/ apc = "answered"
    BY Zenon DEF PassContext, PassInv, TypeInv, TypeOK, RequestAfterAnswer
  <2> QED
    BY <2>1, SMT DEF TokenInv, Detecting, DetectorTypeOK
<1> QED
  BY <1>1, PassInvariance, PTL

(* The door is never left open by a pass that is over: it is open only     *)
(* while the status is one of those that lead to its being closed.         *)
THEOREM DoorOpenOnlyInPass ==
  ASSUME "prompt" \in Timing, "settled" \in Timing, StackResidue = {}
  PROVE  Spec => []OpenOnlyInPass
<1>1. TypeInv /\ PassContext => OpenOnlyInPass
  BY Zenon DEF PassContext, PassInv, DoorInv, OpenOnlyInPass
<1> QED
  BY <1>1, PassInvariance, PTL

(* No wish for a picture and no taking_now outlives its pass, although     *)
(* prepare_picture, the picture stage and the close stage write picture    *)
(* and has_taken with no lock.                                             *)
THEOREM NoPictureOutlivesItsPass ==
  ASSUME "prompt" \in Timing, "settled" \in Timing, StackResidue = {}
  PROVE  Spec => []PictureBelongsToPass
<1>1. TypeInv /\ PassContext => PictureBelongsToPass
  <2>1. SUFFICES ASSUME ExpectedInv, PictureInv PROVE PictureBelongsToPass
    BY DEF PassContext, PassInv
  <2>2. status = "initialize" => LeavingDoor
    BY SMT DEF LeavingDoor, PictureStatus
  <2>3. stage = "sample" => stage # "close"
    BY SMT
  <2>4. status = "initialize" /\ MainAtRest /\ stage = "sample" => ~picture /\ ~has_taken
    BY <2>1, <2>2, <2>3, Zenon DEF PictureInv
  <2> QED
    BY <2>1, <2>4, Zenon DEF PictureBelongsToPass, ExpectedInv
<1> QED
  BY <1>1, PassInvariance, PTL

-----------------------------------------------------------------------------
(***************************************************************************)
(* The threads together keep the promise of module Pass.                   *)
(***************************************************************************)

(* Main takes pass and uploads on as the message says, with the door       *)
(* closed when a pass begins and when it ends.                             *)
LEMMA ReceiveCarriesOut ==
  ASSUME TypeInv, NestInv, PassInv, Receive
  PROVE  Promise!Next \/ UNCHANGED Promise!vars
<1>1. /\ SharedTypeOK /\ status \in AdStatus /\ door \in {"open", "closed"}
      /\ QueueInv /\ ExpectedInv /\ DoorInv
  BY Zenon DEF TypeInv, TypeOK, MainTypeOK, SharedTypeOK, PassInv
<1>2. ~taking_picture
  BY Zenon DEF Receive, MainAt, NestInv
<1>3. /\ sas_msg # << >> /\ sas_msg' = Tail(sas_msg) /\ door' = door
      /\ status' = NextStatus(status, Head(sas_msg))
      /\ taking_picture' = (taking_picture \/ PictureDue(status, Head(sas_msg)))
  BY Zenon DEF Receive
<1>4. PICK f \in Flags : Head(sas_msg) = {f} /\ Queued(f)
  BY <1>1, <1>3, ReceiveFlag
<1>5. status = "initialize" => door = "closed"
  BY <1>1, SMT DEF DoorInv
<1>6. f = "close_result" => door = "closed"
  BY <1>1, <1>4, SMT DEF DoorInv
<1>7. CASE PictureDue(status, Head(sas_msg))
  <2>1. taking_picture' = TRUE
    BY <1>3, <1>7, Zenon
  <2>2. f = "taking_now" /\ status \in PictureStatus
    BY <1>4, <1>7, SMT DEF PictureDue
  <2>3. status' = status
    <3>1. status' = NextStatus(status, {"taking_now"}) /\ "taking_now" \in Flags
      BY <1>3, <1>4, <2>2, Zenon
    <3>2. CASE status = "wait_calculate"
      BY <3>1, <3>2, NextStatusOfFlag, SMT
    <3>3. CASE status = "approval_open"
      BY <3>1, <3>3, NextStatusOfFlag, SMT
    <3>4. CASE status = "wait_close"
      BY <3>1, <3>4, NextStatusOfFlag, SMT
    <3> QED
      BY <2>2, <3>2, <3>3, <3>4, Zenon DEF PictureStatus
  <2> QED
    BY <1>2, <1>3, <2>1, <2>2, <2>3, Zenon
       DEF PictureStatus, Promise!Next, Promise!UploadStarts
<1>8. CASE ~PictureDue(status, Head(sas_msg))
  <2>1. UNCHANGED <<door, taking_picture>>
    BY <1>2, <1>3, <1>8, Zenon DEF NestInv, TypeInv, TypeOK, MainTypeOK
  <2>2. \/ status' = status
        \/ status = "initialize" /\ status' = "start_process"
        \/ status = "start_process" /\ status' = "wait_detect"
        \/ status = "start_process" /\ status' = "wait_calculate"
        \/ status = "start_process" /\ status' = "initialize"
        \/ status = "wait_detect" /\ status' = "initialize"
        \/ status = "wait_detect" /\ status' = "approval_open"
        \/ status = "wait_calculate" /\ status' = "approval_open"
        \/ status = "approval_open" /\ status' = "wait_close"
        \/ status = "wait_close" /\ f = "close_result" /\ status' = "initialize"
    BY <1>1, <1>3, <1>4, ReceiveCases, SMT
  <2> QED
    BY <1>2, <1>5, <1>6, <2>1, <2>2, Zenon
       DEF Promise!Next, Promise!vars, Promise!Goes, Promise!ObjectDetected,
           Promise!SpeedKnown, Promise!HumanSeen, Promise!NobodySeen,
           Promise!DoorReported, Promise!PassOver
<1> QED
  BY <1>7, <1>8

(* An entry function is no step of the pass; the end of an upload is.      *)
LEMMA EntryCarriesOut ==
  ASSUME MainSteps, MainNext, ~Receive
  PROVE  Promise!Next \/ UNCHANGED Promise!vars
<1>1. status' = status /\ door' = door
  BY EntrySteps, Zenon
<1>2. \/ taking_picture' = taking_picture
      \/ taking_picture /\ taking_picture' = FALSE
  BY Zenon DEF MainNext, StartDetectDistance, MotorInitializeFails, DetectSpeed,
     StartHumanDetect, EnterWaitDetect, PreparePictureTest, PreparePictureSet,
     OpenDoor, CloseDoor, TakePicture
<1> QED
  BY <1>1, <1>2, Zenon DEF Promise!Next, Promise!UploadEnds, Promise!vars

(* The ranging thread moves the door where the pass allows it: an old      *)
(* command may close it once more after the pass, when it is closed.       *)
LEMMA RangingCarriesOut ==
  ASSUME TypeInv, PassInv, RangingThread
  PROVE  Promise!Next \/ UNCHANGED Promise!vars
<1>1. /\ status' = status /\ taking_picture' = taking_picture /\ RangingNext
      /\ door \in {"open", "closed"}
  BY Zenon DEF RangingThread, mainVars, TypeInv, TypeOK, SharedTypeOK
<1>2. CommandInv /\ DoorInv
  BY Zenon DEF PassInv
<1>3. CASE OpenStage
  <2>1. range_status = "dooropen" /\ door' \in {"open", door}
    BY <1>3, SMT DEF OpenStage
  <2>2. status \in {"approval_open", "wait_close"}
    BY <1>2, <2>1, SMT DEF CommandInv
  <2> QED
    BY <1>1, <2>1, <2>2, SMT DEF Promise!Next, Promise!DoorOpens, Promise!vars
<1>4. CASE CloseStage
  <2>1. range_status = "doorclose" /\ door' = "closed"
    BY <1>4, Zenon DEF CloseStage
  <2>2. status = "wait_close" \/ status = "initialize"
    BY <1>2, <2>1, SMT DEF CommandInv
  <2>3. status = "initialize" => door' = door
    BY <1>1, <1>2, <2>1, SMT DEF DoorInv
  <2> QED
    BY <1>1, <2>1, <2>2, <2>3, Zenon DEF Promise!Next, Promise!DoorCloses, Promise!vars
<1>5. CASE ~OpenStage /\ ~CloseStage
  <2>1. door' = door
    BY <1>1, <1>5, Zenon DEF RangingNext, sharedVars, SetUp, SetUpFails, Sample,
       DetectStage, SpeedStageContinues, SpeedStageDone, OpenStageIdle, CloseStageIdle,
       PictureStage, SendReport, SendReportFails, CheckChanged, CheckSame, Reset,
       CheckAndReset, EndStage, CloseClearTaken, CloseClearPicture, PictureOff,
       PictureTaken
  <2> QED
    BY <1>1, <2>1, Zenon DEF Promise!vars
<1> QED
  BY <1>3, <1>4, <1>5

(* The detection moves neither the pass nor the door itself.               *)
LEMMA DetectorCarriesOut ==
  ASSUME DetectorThreads
  PROVE  UNCHANGED Promise!vars
<1>1. status' = status /\ taking_picture' = taking_picture
  BY Zenon DEF DetectorThreads, mainVars
<1>2. door' = door
  BY Zenon DEF DetectorThreads, DetectorNext, TakeRequest, AcceptRequest, DropRequest,
     Answer, Finish, sharedVars
<1> QED
  BY <1>1, <1>2, Zenon DEF Promise!vars

(* The controller implements module Pass: whatever fails and however the   *)
(* threads interleave, a pass begins and ends with the door closed, is     *)
(* abandoned only before a human has been seen, and has its door moved and *)
(* its pictures uploaded only where main.c provides for it.                *)
THEOREM ControllerImplementsPass ==
  ASSUME "prompt" \in Timing, "settled" \in Timing, StackResidue = {}
  PROVE  Spec => CarriesOutPasses
<1>1. Init => Promise!Init
  BY Zenon DEF Init, SharedInit, MainInit, Promise!Init
<1>2. ASSUME TypeInv, PassContext, [Next]_vars
      PROVE  [Promise!Next]_Promise!vars
  <2>1. MainSteps /\ NestInv /\ PassInv
    BY <1>2, Zenon DEF PassContext
  <2>2. CASE Main
    <3>1. MainNext
      BY <2>2, Zenon DEF Main
    <3> QED
      BY <1>2, <2>1, <3>1, ReceiveCarriesOut, EntryCarriesOut
  <2>3. CASE RangingThread
    BY <1>2, <2>1, <2>3, RangingCarriesOut
  <2>4. CASE DetectorThreads
    BY <2>4, DetectorCarriesOut
  <2>5. CASE UNCHANGED vars
    BY <2>5, Zenon DEF vars, sharedVars, mainVars, Promise!vars
  <2> QED
    BY <1>2, <2>2, <2>3, <2>4, <2>5, Zenon DEF Next
<1> QED
  BY <1>1, <1>2, PassInvariance, PTL DEF Spec, CarriesOutPasses, Promise!Spec

-----------------------------------------------------------------------------
(***************************************************************************)
(* No command of main is lost, if a reset cannot overwrite a new one.      *)
(***************************************************************************)

(* A report that main takes has it give the next command; no other message *)
(* takes the command away.                                                 *)
LEMMA ServeReceive ==
  ASSUME TypeInv, NestInv, PassInv, CheckInv, ServeInv, Receive,
         UNCHANGED <<rangingVars, detectorVars>>
  PROVE  CheckInv' /\ ServeInv'
<1>1. SharedTypeOK /\ status \in AdStatus /\ QueueInv /\ ExpectedInv /\ ObjectInv
  BY Zenon DEF TypeInv, TypeOK, MainTypeOK, PassInv
<1>2. /\ mpc = "receive" /\ sas_msg # << >> /\ sas_msg' = Tail(sas_msg)
      /\ status' = NextStatus(status, Head(sas_msg)) /\ mpc' \in {"take", "enter"}
      /\ mpc' = "take" => PictureDue(status, Head(sas_msg))
  <2>1. ~taking_picture
    BY Zenon DEF Receive, MainAt, NestInv
  <2> QED
    BY <2>1, SMT DEF Receive, MainAt
<1>3. PICK f \in Flags :
        /\ Head(sas_msg) = {f}
        /\ Queued(f)
        /\ \A g : Queued(g)' => Queued(g)
        /\ \A g : g # f /\ Queued(g) => Queued(g)'
        /\ f = "close_result" =>
             \A g : Queued(g)' => g \in {"close_result", "detect_result"}
        /\ f = "detect_result" => \A g : ~Queued(g)'
        /\ f \in AnswerFlags => ~AnswerQueued'
        /\ QueueInv'
  BY <1>1, <1>2, ReceiveFlag
<1>4. /\ range_status' = range_status /\ stage' = stage /\ step' = step
      /\ apc' = apc /\ detectstatus' = detectstatus
  BY Zenon DEF Receive, rangingVars, detectorVars
<1>5. mpc' = "take" => status \in PictureStatus /\ f = "taking_now"
  BY <1>2, <1>3, SMT DEF PictureDue
<1>6. \/ status' = status /\ f = "calculate_result"
           /\ status \in {"initialize", "wait_detect", "approval_open", "wait_close"}
      \/ status' = status /\ f \in {"recognize_result", "disappear_object", "close_result"}
           /\ status = "initialize"
      \/ status' = status /\ f = "taking_now" /\ status \in PictureStatus
      \/ status' = status /\ f = "open_result" /\ status = "wait_close"
      \/ status = "initialize" /\ f = "detect_result" /\ status' = "start_process"
      \/ status = "start_process" /\ f = "calculate_result" /\ status' = "wait_detect"
      \/ status = "start_process" /\ f = "recognize_result" /\ status' = "wait_calculate"
      \/ status \in {"start_process", "wait_detect"} /\ f = "disappear_object"
           /\ status' = "initialize"
      \/ status = "wait_detect" /\ f = "recognize_result" /\ status' = "approval_open"
      \/ status = "wait_calculate" /\ f = "calculate_result" /\ status' = "approval_open"
      \/ status = "approval_open" /\ f = "open_result" /\ status' = "wait_close"
      \/ status = "wait_close" /\ f = "close_result" /\ status' = "initialize"
  BY <1>1, <1>2, <1>3, ReceiveCases, SMT
<1>7. Queued("detect_result") => (step = "check" => stage = "detect") /\ ~Detecting
  BY <1>1, SMT DEF ObjectInv, DetectionUnderWay, Detecting
(* The message that reports the object is the last one.                    *)
<1>8. f = "detect_result" => sas_msg' = << >>
  <2>1. SUFFICES ASSUME \A g : ~Queued(g)' PROVE DOMAIN sas_msg' = {}
    BY <1>1, <1>2, <1>3, SMT DEF SharedTypeOK
  <2>2. \A i \in DOMAIN sas_msg' : \E g \in Flags : g \in sas_msg'[i]
    BY <1>3, Zenon DEF QueueInv
  <2> QED
    BY <2>1, <2>2, Zenon DEF Queued
<1>9. CheckInv'
  <2>1. /\ At("detect", "check") => (status = "initialize" /\ Queued("detect_result"))
        /\ At("speed", "check") /\ status \in {"start_process", "wait_calculate"} =>
             Queued("calculate_result")
        /\ At("open", "check") =>
             status \in {"approval_open", "wait_close"} /\ ~Queued("close_result")
        /\ At("open", "check") /\ status = "approval_open" => Queued("open_result")
        /\ At("close", "check") => status \in {"wait_close", "initialize"}
        /\ At("close", "check") /\ status = "wait_close" => Queued("close_result")
        /\ step # "reset"
    BY <1>2, SMT DEF CheckInv
  <2>2. (At("detect", "check") =>
           \/ status = "initialize" /\ Queued("detect_result")
           \/ status = "start_process" /\ sas_msg = << >> /\ ~Detecting)'
    <3>1. ~Detecting => ~Detecting'
      BY <1>4, SMT DEF Detecting
    <3> QED
      BY <1>3, <1>4, <1>6, <1>7, <1>8, <2>1, <3>1, SMT DEF At, PictureStatus
  <2>3. (At("speed", "check") /\ status \in {"start_process", "wait_calculate"} =>
           Queued("calculate_result"))'
    BY <1>3, <1>4, <1>6, <1>7, <2>1, SMT DEF At, PictureStatus
  <2>4. (At("open", "check") =>
           status \in {"approval_open", "wait_close"} /\ ~Queued("close_result"))'
        /\ (At("open", "check") /\ status = "approval_open" => Queued("open_result"))'
    BY <1>3, <1>4, <1>6, <2>1, SMT DEF At, PictureStatus
  <2>5. (At("close", "check") => status \in {"wait_close", "initialize"})'
        /\ (At("close", "check") /\ status = "wait_close" => Queued("close_result"))'
    BY <1>3, <1>4, <1>6, <1>7, <2>1, SMT DEF At, PictureStatus
  <2> QED
    BY <1>4, <2>1, <2>2, <2>3, <2>4, <2>5, Zenon DEF CheckInv
<1>10. ServeInv'
  <2>1. mpc' # "receive" /\ (status' = "start_process" => mpc' = "enter")
    BY <1>2, <1>5, <1>6, SMT DEF PictureStatus
  <2>2. status' = "wait_calculate" => range_status = "speed" \/ Queued("calculate_result")'
    BY <1>2, <1>3, <1>6, SMT DEF ServeInv, PictureStatus
  <2> QED
    BY <1>4, <2>1, <2>2, Zenon DEF ServeInv
<1> QED
  BY <1>9, <1>10

(* An entry function gives the command of its status.                      *)
LEMMA ServeEntry ==
  ASSUME MainSteps, NestInv, CheckInv, ServeInv, MainNext, ~Receive,
         UNCHANGED <<rangingVars, detectorVars>>
  PROVE  CheckInv' /\ ServeInv'
<1>1. /\ stage' = stage /\ step' = step /\ apc' = apc /\ detectstatus' = detectstatus
      /\ status' = status /\ sas_msg' = sas_msg
  BY EntrySteps, Zenon DEF rangingVars, detectorVars
<1>2. /\ \A f : Queued(f)' <=> Queued(f)
      /\ \A st, sp : At(st, sp)' <=> At(st, sp)
      /\ Detecting' <=> Detecting
  BY <1>1, SMT DEF Queued, At, Detecting
<1>3. CheckInv'
  BY <1>1, <1>2, Zenon DEF CheckInv
<1>4. ServeInv'
  <2>1. /\ status = "initialize" /\ mpc' = "receive" /\ initial_flag' =>
             range_status' = "detect"
        /\ status = "approval_open" /\ mpc' = "receive" => range_status' = "dooropen"
        /\ status = "wait_close" /\ mpc' = "receive" => range_status' = "doorclose"
        /\ status = "start_process" =>
             range_status' = "speed" \/ (mpc # "enter" /\ range_status' = range_status)
        /\ status = "wait_calculate" => range_status' = range_status
    BY EntryCommand, SMT DEF PictureStatus
  <2>2. status = "wait_calculate" \/ (status = "start_process" /\ mpc # "enter") =>
          range_status = "speed" \/ Queued("calculate_result")
    BY Zenon DEF ServeInv
  <2> QED
    BY <1>1, <1>2, <2>1, <2>2, Zenon DEF ServeInv
<1> QED
  BY <1>3, <1>4

(* A report that is sent is in the queue when its command is looked at     *)
(* again.                                                                  *)
LEMMA ServeSendReport ==
  ASSUME TypeInv, NestInv, PassInv, CheckInv, ServeInv, SendReport,
         UNCHANGED <<mainVars, detectorVars>>
  PROVE  CheckInv' /\ ServeInv'
<1> DEFINE f == Report[stage]
<1>1. SharedTypeOK /\ ReportInv /\ ObjectInv
  BY Zenon DEF PassInv, TypeInv, TypeOK
<1>2. /\ mpc' = mpc /\ status' = status /\ initial_flag' = initial_flag
      /\ range_status' = range_status /\ stage' = stage
  BY Zenon DEF SendReport, Goto, mainVars
<1>3. step = "send" /\ step' \in {"check", "clear"}
  BY SMT DEF SendReport, Goto
<1>4. /\ stage \in {"detect", "speed", "open", "close", "picture"}
      /\ stage = "detect" => f = "detect_result"
      /\ stage = "speed" => f = "calculate_result"
      /\ stage = "open" => f = "open_result"
      /\ stage = "close" <=> f = "close_result"
      /\ f \in Flags
  <2>1. stage \in {"detect", "speed", "open", "close", "picture"}
    BY <1>3, SMT DEF TypeInv, RangingSteps, Commanded
  <2> QED
    BY <2>1, SMT DEF Report, Flags
<1>5. Send({f})
  BY <1>1, <1>3, Zenon DEF SendReport, ReportInv
<1> HIDE DEF f
<1>6. \A g : Queued(g)' <=> Queued(g) \/ g = f
  BY <1>1, <1>4, <1>5, SendFlag
<1>7. CheckInv'
  BY <1>1, <1>2, <1>3, <1>4, <1>6, SMT DEF CheckInv, At, ReportInv, ObjectInv
<1>8. ServeInv'
  <2>1. \A g : Queued(g) => Queued(g)'
    BY <1>6, Zenon
  <2> QED
    BY <1>2, <2>1, Zenon DEF ServeInv
<1> QED
  BY <1>7, <1>8

(* A command is reset only with its report in the queue, or when main has  *)
(* left the status that waits for it.                                      *)
LEMMA ServeEndStage ==
  ASSUME TypeInv, CheckInv, ServeInv, CheckChanged \/ CheckAndReset, UNCHANGED mainVars
  PROVE  CheckInv' /\ ServeInv'
<1>1. step = "check" /\ EndStage /\ stage \in Commanded
  BY SMT DEF CheckChanged, CheckAndReset, TypeInv, RangingSteps
<1>2. /\ mpc' = mpc /\ status' = status /\ sas_msg' = sas_msg
      /\ initial_flag' = initial_flag
  BY <1>1, Zenon DEF EndStage, mainVars
<1>3. step' \in {"clear", "decide"}
  BY <1>1, SMT DEF EndStage, Goto
<1>4. \A g : Queued(g)' <=> Queued(g)
  BY <1>2, SMT DEF Queued
<1>5. CheckInv'
  BY <1>3, SMT DEF CheckInv, At
<1>6. range_status' = range_status \/ range_status = Command[stage]
  BY Zenon DEF CheckChanged, CheckAndReset
<1>7. /\ range_status = "detect" /\ range_status' # range_status => At("detect", "check")
      /\ range_status = "speed" /\ range_status' # range_status => At("speed", "check")
      /\ range_status = "dooropen" /\ range_status' # range_status => At("open", "check")
      /\ range_status = "doorclose" /\ range_status' # range_status => At("close", "check")
  BY <1>1, <1>6, SMT DEF At, Command, Commanded
<1>8. ServeInv'
  <2>1. /\ At("detect", "check") /\ status = "initialize" => Queued("detect_result")
        /\ At("speed", "check") /\ status \in {"start_process", "wait_calculate"} =>
             Queued("calculate_result")
        /\ At("open", "check") /\ status = "approval_open" => Queued("open_result")
        /\ At("close", "check") /\ status = "wait_close" => Queued("close_result")
    BY SMT DEF CheckInv
  <2> QED
    BY <1>2, <1>4, <1>7, <2>1, SMT DEF ServeInv
<1> QED
  BY <1>5, <1>8

(* The other steps of the ranging thread do not touch range_status.        *)
LEMMA ServeRanging ==
  ASSUME TypeInv, NestInv, PassInv, CheckInv, ServeInv, RangingThread,
         "atomic_reset" \in Timing
  PROVE  CheckInv' /\ ServeInv'
<1> USE DEF At, Goto
<1>1. UNCHANGED <<mainVars, detectorVars>> /\ RangingNext
  BY Zenon DEF RangingThread
<1>2. step # "reset"
  BY SMT DEF CheckInv
<1>3. CASE SendReport
  BY <1>1, <1>3, ServeSendReport
<1>4. CASE CheckChanged \/ CheckAndReset
  BY <1>1, <1>4, ServeEndStage
<1>5. CASE ~(SendReport \/ CheckChanged \/ CheckAndReset)
  <2>1. /\ step' \notin {"check", "reset"}
        /\ UNCHANGED <<sas_msg, range_status, initial_flag>>
    <3>1. ~CheckSame /\ ~Reset
      BY <1>2, Zenon DEF CheckSame, Reset
    <3>2. CASE SetUp \/ SetUpFails \/ Sample \/ DetectStage \/ SpeedStageContinues
               \/ SpeedStageDone \/ OpenStage \/ OpenStageIdle \/ CloseStage
      BY <3>2, SMT DEF sharedVars, SetUp, SetUpFails, Sample, DetectStage,
         SpeedStageContinues, SpeedStageDone, OpenStage, OpenStageIdle, CloseStage
    <3>3. CASE CloseStageIdle \/ PictureStage \/ SendReportFails
      BY <3>3, SMT DEF sharedVars, CloseStageIdle, PictureStage, SendReportFails
    <3>4. CASE CloseClearTaken \/ CloseClearPicture \/ PictureOff \/ PictureTaken
      <4>1. /\ UNCHANGED <<sas_msg, range_status, initial_flag>>
            /\ step' \in {"clear2", "decide"}
        BY <3>4, Zenon DEF CloseClearTaken, CloseClearPicture, PictureOff, PictureTaken
      <4> QED
        BY <4>1, SMT
    <3> QED
      BY <1>1, <1>5, <3>1, <3>2, <3>3, <3>4, Zenon DEF RangingNext
  <2>2. mpc' = mpc /\ status' = status
    BY <1>1, Zenon DEF mainVars
  <2>3. \A g : Queued(g)' <=> Queued(g)
    BY <2>1, SMT DEF Queued
  <2>4. CheckInv'
    BY <2>1, SMT DEF CheckInv
  <2>5. ServeInv'
    BY <2>1, <2>2, <2>3, Zenon DEF ServeInv
  <2> QED
    BY <2>4, <2>5
<1> QED
  BY <1>3, <1>4, <1>5

(* The detection does not either, and accepts nothing before the report of *)
(* an object is over.                                                      *)
LEMMA ServeDetector ==
  ASSUME TypeInv, CheckInv, ServeInv, DetectorThreads, "prompt" \in Timing
  PROVE  CheckInv' /\ ServeInv'
<1>1. /\ mpc' = mpc /\ status' = status /\ stage' = stage /\ step' = step
      /\ range_status' = range_status /\ initial_flag' = initial_flag
  BY Zenon DEF DetectorThreads, mainVars, rangingVars, DetectorNext, sharedVars,
     TakeRequest, AcceptRequest, DropRequest, Answer, Finish
<1>2. \A g : Queued(g) => Queued(g)'
  <2>1. CASE Answer
    <3>1. PICK m \in Answers : Send(m)
      BY <2>1, Zenon DEF Answer
    <3>2. m \in Message
      BY SMT DEF Answers, Message, Flags
    <3>3. SharedTypeOK
      BY DEF TypeInv, TypeOK
    <3> QED
      BY <3>1, <3>2, <3>3, SendKeepsQueued
  <2>2. CASE ~Answer
    <3>1. sas_msg' = sas_msg
      BY <2>2, Zenon DEF DetectorThreads, DetectorNext, sharedVars, TakeRequest,
         AcceptRequest, DropRequest, Finish
    <3> QED
      BY <3>1, Zenon DEF Queued
  <2> QED
    BY <2>1, <2>2
(* No answer comes from a detection that is not under way.                 *)
<1>3. step = "check" /\ ~Detecting => sas_msg' = sas_msg /\ ~Detecting'
  BY SMT DEF DetectorThreads, FrameInTime, DetectorNext, sharedVars, TakeRequest,
     AcceptRequest, DropRequest, Answer, Finish, Detecting
<1>5. ServeInv'
  BY <1>1, <1>2, Zenon DEF ServeInv
<1>6. ~Queued("close_result") => ~Queued("close_result")'
  <2>2. CASE Answer
    <3>1. PICK m \in Answers : Send(m)
      BY <2>2, Zenon DEF Answer
    <3>2. PICK f \in Flags : m = {f} /\ f # "close_result"
      BY SMT DEF Answers, Flags
    <3>3. SharedTypeOK
      BY DEF TypeInv, TypeOK
    <3> QED
      BY <3>1, <3>2, <3>3, SendFlag
  <2>3. CASE ~Answer
    <3>1. sas_msg' = sas_msg
      BY <2>3, Zenon DEF DetectorThreads, DetectorNext, sharedVars, TakeRequest,
         AcceptRequest, DropRequest, Finish
    <3> QED
      BY <3>1, Zenon DEF Queued
  <2> QED
    BY <2>2, <2>3
<1>7. \A st, sp : At(st, sp)' <=> At(st, sp)
  BY <1>1, Zenon DEF At
<1>8. At("detect", "check") => step = "check"
  BY DEF At
<1>9. CheckInv'
  BY <1>1, <1>2, <1>3, <1>6, <1>7, <1>8, Zenon DEF CheckInv
<1> QED
  BY <1>5, <1>9

(* CheckInv and ServeInv are inductive beside PassContext.                 *)
LEMMA ServeStep ==
  ASSUME TypeInv, PassContext, CheckInv, ServeInv, [Next]_vars,
         "prompt" \in Timing, "atomic_reset" \in Timing
  PROVE  CheckInv' /\ ServeInv'
<1>1. MainSteps /\ NestInv /\ PassInv
  BY Zenon DEF PassContext
<1>2. CASE Main
  <2>1. UNCHANGED <<rangingVars, detectorVars>> /\ MainNext
    BY <1>2, Zenon DEF Main
  <2> QED
    BY <1>1, <2>1, ServeReceive, ServeEntry
<1>3. CASE RangingThread
  BY <1>1, <1>3, ServeRanging
<1>4. CASE DetectorThreads
  BY <1>4, ServeDetector
<1>5. CASE UNCHANGED vars
  <2>1. UNCHANGED <<sas_msg, range_status, initial_flag, mpc, status, stage, step,
                    apc, detectstatus>>
    BY <1>5, Zenon DEF vars, sharedVars, mainVars, rangingVars, detectorVars
  <2>2. /\ \A g : Queued(g)' <=> Queued(g)
        /\ \A st, sp : At(st, sp)' <=> At(st, sp)
        /\ Detecting' <=> Detecting
    BY <2>1, SMT DEF Queued, At, Detecting
  <2> QED
    BY <2>1, <2>2, Zenon DEF CheckInv, ServeInv
<1> QED
  BY <1>2, <1>3, <1>4, <1>5 DEF Next

(* If range.c compared and reset range_status in one step, no command of   *)
(* main would ever be overwritten: while main waits, its command stands or *)
(* the report of it is made.  Failures of the motor, the sensor or a send  *)
(* do not matter to this.                                                  *)
THEOREM NoCommandIsLost ==
  ASSUME "prompt" \in Timing, "settled" \in Timing, "atomic_reset" \in Timing,
         StackResidue = {}
  PROVE  Spec => []CommandNotLost
<1>1. Init => CheckInv /\ ServeInv
  BY SMT DEF Init, MainInit, RangingInit, CheckInv, ServeInv, At
<1>2. TypeInv /\ PassContext /\ CheckInv /\ ServeInv /\ [Next]_vars => (CheckInv /\ ServeInv)'
  BY ServeStep
<1>3. ServeInv => CommandNotLost
  <2>1. SUFFICES ASSUME ServeInv, mpc = "receive", sas_msg = << >>
                 PROVE  /\ status = "initialize" /\ initial_flag => range_status = "detect"
                        /\ status \in {"start_process", "wait_calculate"} =>
                             range_status = "speed"
                        /\ status = "approval_open" => range_status = "dooropen"
                        /\ status = "wait_close" => range_status = "doorclose"
    BY Zenon DEF CommandNotLost, Serving
  <2>2. \A g : ~Queued(g)
    BY <2>1, SMT DEF Queued
  <2>3. mpc # "enter"
    BY <2>1, SMT
  <2> QED
    BY <2>1, <2>2, <2>3, Zenon DEF ServeInv
<1> QED
  BY <1>1, <1>2, <1>3, PassInvariance, PTL DEF Spec
=============================================================================
