------------------------------- MODULE Picture -------------------------------
(***************************************************************************)
(* take_picture (cameramain.cpp) with the upload and the face recognition  *)
(* of aws.cpp, next to the thread that shares the camera with it and the   *)
(* cloud it talks to.  One picture is taken at a time, by the main thread; *)
(* main ignores the result, and nothing is tried again.  Exceptions are    *)
(* caught nowhere: they end the process, with all its threads.             *)
(***************************************************************************)
EXTENDS Camera, Cloud

CONSTANT
  Room      (* Pictures a process can take: none of the memory and of the  *)
            (* files of a picture is given back.                           *)

ASSUME RoomAssumption == Room \in Nat

VARIABLES
  ppc,      (* Where take_picture is; "dead" when the process has ended,   *)
            (* "cut_off" when it waits for an answer that cannot come.     *)
  pic,      (* Number of the last picture.                                 *)
  name,     (* Its name: the second it was taken in.                       *)
  taken,    (* History: the second each picture was taken in.              *)
  output,   (* The pictures in ./output, by name, 0 if there is none.      *)
  leaked,   (* Pictures whose memory the process still holds.              *)
  mine,     (* The request about the last picture, 0 before the first.     *)
  told      (* Requests whose answer main has printed, with the names.     *)

boardVars == <<ppc, pic, name, taken, output, leaked, mine, told>>
vars == <<boardVars, cameraVars, cloudVars>>

TypeOK ==
  /\ CameraTypeOK
  /\ CloudTypeOK
  /\ ppc \in {"idle", "read", "jpeg", "upload", "post", "answer", "cut_off", "dead"}
  /\ pic \in 0 .. MaxPictures
  /\ name \in Second
  /\ taken \in [1 .. MaxPictures -> Second]
  /\ output \in [Second -> 0 .. MaxPictures]
  /\ leaked \in 0 .. Room
  /\ mine \in 0 .. MaxRequests
  /\ told \in [Request -> SUBSET SUBSET Persons]

Init ==
  /\ CameraInit
  /\ CloudInit
  /\ ppc = "idle"
  /\ pic = 0
  /\ name = 0
  /\ taken = [p \in 1 .. MaxPictures |-> 0]
  /\ output = [n \in Second |-> 0]
  /\ leaked = 0
  /\ mine = 0
  /\ told = [i \in Request |-> {}]

At(from, to) == ppc = from /\ ppc' = to

(* std::terminate, exit or a fault: every thread and the memory are gone.  *)
ProcessEnds(from) ==
  /\ At(from, "dead")
  /\ rpc' = [r \in Reader |-> "idle"]
  /\ rline' = [r \in Reader |-> 1]
  /\ rword' = [r \in Reader |-> "old"]
  /\ tmpframe' = AllOld
  /\ image' = AllOld
  /\ leaked' = 0
  /\ UNCHANGED <<pic, name, taken, output, mine, told>>

-----------------------------------------------------------------------------
(* Mutant: every picture has the same name.                                *)
TakePictureSameName ==
  /\ At("idle", "read")
  /\ pic < MaxPictures
  /\ leaked < Room
  /\ pic' = pic + 1
  /\ name' = 0
  /\ taken' = [taken EXCEPT ![pic'] = now]
  /\ StartMain
  /\ UNCHANGED <<output, leaked, mine, told, cloudVars>>

TakePicture ==
  /\ At("idle", "read")
  /\ pic < MaxPictures
  /\ leaked < Room
  /\ pic' = pic + 1
  /\ name' = now
  /\ taken' = [taken EXCEPT ![pic'] = now]
  /\ StartMain
  /\ UNCHANGED <<output, leaked, mine, told, cloudVars>>

(* new throws when there is no memory left.                                *)
NoMemory ==
  /\ leaked = Room
  /\ ProcessEnds("idle")
  /\ UNCHANGED cloudVars

ReadCamera ==
  /\ ppc = "read"
  /\ \/ MainReads /\ UNCHANGED ppc
     \/ EndMain /\ ppc' = "jpeg"
  /\ UNCHANGED <<pic, name, taken, output, leaked, mine, told, cloudVars>>

(* The image is never freed, and never used again.                         *)
WriteJpegFormat ==
  /\ At("jpeg", "upload")
  /\ image' = AllOld
  /\ output' = [output EXCEPT ![name] = pic]
  /\ leaked' = leaked + 1
  /\ UNCHANGED <<pic, name, taken, mine, told, tmpframe, rpc, rline, rword, cloudVars>>

(* fopen has returned NULL, or libjpeg cannot write and exits.             *)
WriteJpegFails ==
  /\ ProcessEnds("jpeg")
  /\ UNCHANGED cloudVars

Stored == bucket' = [bucket EXCEPT ![name] = output[name]]

UploadS3Bucket ==
  /\ At("upload", "post")
  /\ Stored
  /\ UNCHANGED <<pic, name, taken, output, leaked, mine, told, cameraVars,
                 now, req, mails, topic, log>>

(* PutObject reports an error, though the object may have been stored.     *)
UploadFails ==
  /\ At("upload", "idle")
  /\ \/ Stored
     \/ UNCHANGED bucket
  /\ UNCHANGED <<pic, name, taken, output, leaked, mine, told, cameraVars,
                 now, req, mails, topic, log>>

RecognitionFaceDetect ==
  /\ At("post", "answer")
  /\ \E i \in Request : Invoke(i, GoodBody, name) /\ mine' = i
  /\ UNCHANGED <<pic, name, taken, output, leaked, told, cameraVars,
                 now, bucket, mails, topic, log>>

(* Without an answer buf->data stays NULL, which ends the process.         *)
RequestLost ==
  /\ ProcessEnds("post")
  /\ UNCHANGED cloudVars

AnswerLost ==
  /\ ProcessEnds("answer")
  /\ UNCHANGED cloudVars

(* The connection is lost without a sign of it: curl has been given no     *)
(* timeout, so main waits for ever and the other thread runs on ...        *)
CutOff ==
  /\ At("answer", "cut_off")
  /\ UNCHANGED <<pic, name, taken, output, leaked, mine, told, cameraVars, cloudVars>>

(* ... until somebody ends the process.                                    *)
Killed ==
  /\ ProcessEnds("cut_off")
  /\ UNCHANGED cloudVars

(* Mutant: an answer without statusCode is waited for.                     *)
NoStatusCodeWaits ==
  /\ ppc = "answer"
  /\ req[mine].at # "over"
  /\ ProcessEnds("answer")
  /\ UNCHANGED cloudVars

(* The answer for a function that was stopped.                             *)
NoStatusCode ==
  /\ ppc = "answer"
  /\ req[mine].at = "over" /\ req[mine].statusCode = NoCode
  /\ ProcessEnds("answer")
  /\ UNCHANGED cloudVars

Answered == ppc = "answer" /\ req[mine].at = "over" /\ req[mine].statusCode # NoCode

FaceDetected ==
  /\ Answered
  /\ req[mine].statusCode = 200
  /\ ppc' = "idle"
  /\ told' = [told EXCEPT ![mine] = {Names(mine)}]
  /\ UNCHANGED <<pic, name, taken, output, leaked, mine, cameraVars, cloudVars>>

FaceDetectError ==
  /\ Answered
  /\ req[mine].statusCode # 200
  /\ ppc' = "idle"
  /\ UNCHANGED <<pic, name, taken, output, leaked, mine, told, cameraVars, cloudVars>>

Restart ==
  /\ At("dead", "idle")
  /\ UNCHANGED <<pic, name, taken, output, leaked, mine, told, cameraVars, cloudVars>>

-----------------------------------------------------------------------------
ExecHumandetect ==
  /\ ppc # "dead"
  /\ HumanReads
  /\ UNCHANGED <<boardVars, cloudVars>>

(* A test of the function (lambda.py, line 149) with a bad body and the    *)
(* name of the last picture.                                               *)
TestFunction ==
  /\ \E i \in Request, b \in Bodies : Invoke(i, b, name)
  /\ UNCHANGED <<boardVars, cameraVars, now, bucket, mails, topic, log>>

TakePictureSteps ==
  \/ ReadCamera
  \/ WriteJpegFormat
  \/ WriteJpegFails
  \/ UploadS3Bucket
  \/ UploadFails
  \/ RecognitionFaceDetect
  \/ RequestLost
  \/ NoStatusCode
  \/ FaceDetected
  \/ FaceDetectError

Next ==
  \/ TakePicture
  \/ NoMemory
  \/ TakePictureSteps
  \/ AnswerLost
  \/ CutOff
  \/ Killed
  \/ Restart
  \/ ExecHumandetect
  \/ TestFunction
  \/ UNCHANGED <<boardVars, cameraVars>> /\ CloudNext

Spec == Init /\ [][Next]_vars

(* Threads keep running, a function answers or is stopped, and its answer  *)
(* reaches main unless the connection is lost first: AnswerLost and CutOff *)
(* may happen at any time and need not happen.                             *)
FairSpec ==
  /\ Spec
  /\ WF_vars(TakePictureSteps)
  /\ WF_vars(UNCHANGED <<boardVars, cameraVars>> /\ \E i \in Request : Function(i))

-----------------------------------------------------------------------------
(* Whom a log record names.                                                *)
Named(r) == {r.Person} \cap Persons

(* Although two threads read the camera through one tmpframe (camera.cpp,  *)
(* line 117), a picture is made of nothing older than the calls that were  *)
(* under way when it was taken: no rest of an earlier detection is sent to *)
(* the cloud.                                                              *)
PictureNotStale ==
  ppc = "jpeg" => \A l \in Line : image[l] # "old"

(* create_response mails first and publishes the record second, and either *)
(* may fail or the function be stopped in between: there may be a mail     *)
(* without a record, but no record without the mail that says the same.    *)
LoggedWasMailed ==
  \A r \in topic : \E m \in mails : m.Datetime = r.Datetime /\ m.names = Named(r)

(* When main prints an answer, the people it names are those who have been *)
(* mailed and logged for this picture.                                     *)
SuccessIsRecorded ==
  \A i \in Request : \A names \in told[i] :
    \E r \in topic : r.PictureName = req[i].object /\ Named(r) = names

(* Every record, and so every page of the web application, names an object *)
(* the board had uploaded before, whatever failed, was lost or ended in    *)
(* between.                                                                *)
RecordHasPicture ==
  \A r \in topic \cup UNION {Page(d, root) : d \in Second, root \in BOOLEAN} :
    bucket[r.PictureName] # 0

(* What is stored under the name in a record is a picture of the second    *)
(* that is its name, not after the record; and what is stored under the    *)
(* name in a request is the picture the face was looked for in or a later  *)
(* one of that second.  It may be a later one: nothing keeps two pictures  *)
(* from being taken, and named, in the same second.                        *)
RecordShowsPicture ==
  /\ \A r \in topic :
       /\ \E p \in 1 .. MaxPictures :
            bucket[r.PictureName] = p /\ taken[p] = r.PictureName
       /\ r.PictureName <= r.Datetime
  /\ \A i \in Request : req[i].searched <= bucket[req[i].object]

(* A request with something missing or wrong alarms nobody: it gets no     *)
(* further than the checks, although check_validation falls over a missing *)
(* key.  It is answered with an error, unless it says itself what it is to *)
(* be answered: search_post gives its own statusCode back.                 *)
BadRequestHarmless ==
  \A i \in Request :
    req[i].body # GoodBody =>
      /\ req[i].at \in {"received", "over"}
      /\ \/ req[i].statusCode \in {NoCode, 400, 500}
         \/ req[i].statusCode = req[i].body.statusCode

(* Main comes back to the door or its process ends, whatever fails, unless *)
(* it has been cut off: it does not wait for ever for tmpframe, nor for a  *)
(* function that gives no answer, though only because that is stopped.     *)
PictureEnds == ppc \notin {"idle", "dead", "cut_off"} ~> ppc \in {"idle", "dead", "cut_off"}

=============================================================================
