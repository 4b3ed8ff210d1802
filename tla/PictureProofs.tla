---------------------------- MODULE PictureProofs ----------------------------
(***************************************************************************)
(* A picture and its record belong together, for frames of any height, any *)
(* number of pictures, of runs of the function and of known faces, and any *)
(* bodies of the tests.                                                    *)
(***************************************************************************)
EXTENDS Picture, TLAPS

USE LinesAssumption, MaxPicturesAssumption, MaxRequestsAssumption, MaxTimeAssumption,
    PersonsAssumption, BodiesAssumption, RoomAssumption

-----------------------------------------------------------------------------
(* Lemmas about the function.                                              *)

(* With MAX_FACES = 1 there is no face or one.                             *)
LEMMA NoFaceOrOne ==
  ASSUME NEW f \in FaceMatches
  PROVE  f = << >> \/ (Len(f) = 1 /\ f \in [1 .. 1 -> Persons])
<1>1. PICK n \in 0 .. 1 : f \in [1 .. n -> Persons]
  BY DEF FaceMatches, MaxFaces
<1>2. CASE n = 0
  BY <1>1, <1>2, SMT
<1>3. CASE n = 1
  BY <1>1, <1>3, SMT
<1> QED
  BY <1>1, <1>2, <1>3

LEMMA NoFaces == << >> \in FaceMatches
<1>1. << >> \in [1 .. 0 -> Persons]
  BY SMT
<1> QED
  BY <1>1 DEF FaceMatches, MaxFaces

(* What is mailed and what is recorded have their types and name the same  *)
(* people.                                                                 *)
LEMMA NamesType ==
  ASSUME NEW i \in Request, req[i].faces \in FaceMatches
  PROVE  Names(i) \in SUBSET Persons
<1>1. CASE req[i].faces = << >>
  BY <1>1, SMT DEF Names
<1>2. CASE Len(req[i].faces) = 1 /\ req[i].faces \in [1 .. 1 -> Persons]
  BY <1>2, SMT DEF Names
<1> QED
  BY <1>1, <1>2, NoFaceOrOne

LEMMA AuthDataType ==
  ASSUME NEW i \in Request, req[i] \in RequestState
  PROVE  AuthData(i) \in Record
<1>1. req[i].faces \in FaceMatches /\ req[i].timestamp \in Second /\ req[i].object \in Second
  BY DEF RequestState
<1>2. CASE req[i].faces = << >>
  BY <1>1, <1>2, SMT DEF AuthData, Record
<1>3. CASE Len(req[i].faces) = 1 /\ req[i].faces \in [1 .. 1 -> Persons] /\ req[i].faces # << >>
  BY <1>1, <1>3, SMT DEF AuthData, Record
<1> QED
  BY <1>1, <1>2, <1>3, NoFaceOrOne

LEMMA AuthDataNames ==
  ASSUME NEW i \in Request, req[i].faces \in FaceMatches
  PROVE  Named(AuthData(i)) = Names(i)
<1>1. CASE req[i].faces = << >>
  BY <1>1, SMT DEF AuthData, Names, Named
<1>2. CASE Len(req[i].faces) = 1 /\ req[i].faces \in [1 .. 1 -> Persons] /\ req[i].faces # << >>
  BY <1>2, SMT DEF AuthData, Names, Named
<1> QED
  BY <1>1, <1>2, NoFaceOrOne

(* check_validation passes good bodies only.                               *)
LEMMA CheckedGood ==
  ASSUME NEW b \in Body, ~HasStatusCode(b), Checked(b) = NoCode
  PROVE  b = GoodBody
<1>1. b.form = "dict" /\ b.statusCode = NoKey
  BY SMT DEF Checked, HasStatusCode, NoCode, Body
<1>2. \A k \in RequiredKeys : b.key[k] = "ok"
  BY <1>1, SMT DEF Checked, NoCode, Body
<1>3. b.key = [k \in RequiredKeys |-> "ok"]
  BY <1>2, SMT DEF Body
<1> QED
  BY <1>1, <1>3, SMT DEF Body, GoodBody

-----------------------------------------------------------------------------
(* The inductive invariant.                                                *)

(* While main copies, the lines it is through with are not old, whichever  *)
(* reader stored them last: a word that exec_humandetect still has to      *)
(* store was loaded in a call that was not over.                           *)
CameraInv ==
  /\ ppc = "read" <=> rpc["main"] # "idle"
  /\ rpc["main"] \in {"load", "store"} =>
       \A l \in Line : l < rline["main"] => tmpframe[l] # "old"
  /\ \A r \in Reader : rpc["main"] # "idle" /\ rpc[r] = "store" => rword[r] # "old"
  /\ rpc["main"] = "convert" =>
       /\ \A l \in Line : tmpframe[l] # "old"
       /\ \A l \in Line : l < rline["main"] => image[l] # "old"
  /\ PictureNotStale

(* A picture is named by the second it was taken in and stored under its   *)
(* name, and neither the board nor the bucket ever replaces a picture by   *)
(* an earlier one.                                                         *)
NameInv ==
  /\ ppc \notin {"idle", "dead"} => pic # 0
  /\ ppc \in {"read", "jpeg"} => taken[pic] = name
  /\ ppc = "upload" => output[name] # 0
  /\ name <= now
  /\ \A n \in Second :
       /\ bucket[n] <= output[n] /\ output[n] <= pic
       /\ output[n] # 0 => taken[output[n]] = n
       /\ bucket[n] # 0 => taken[bucket[n]] = n

(* A good request with status 200 has been through everything.             *)
Recorded(i) ==
  /\ req[i].body = GoodBody
  /\ \/ req[i].at = "published"
     \/ req[i].at = "over" /\ req[i].statusCode = 200

(* The function has found a picture.                                       *)
Found(i) == req[i].at \in {"found", "mailed", "published"}

RequestInv(i) ==
  /\ Found(i) =>
       req[i].body = GoodBody /\ bucket[req[i].object] # 0 /\ req[i].object <= req[i].timestamp
  /\ req[i].object <= now
  /\ req[i].at \in {"none", "received"} => req[i].searched = 0
  /\ req[i].searched <= bucket[req[i].object]
  /\ req[i].at \in {"mailed", "published"} =>
       [Datetime |-> req[i].timestamp, names |-> Names(i)] \in mails
  /\ Recorded(i) => AuthData(i) \in topic
  /\ \A names \in told[i] : req[i].at = "over" /\ Recorded(i) /\ names = Names(i)

RecordInv ==
  /\ \A d \in Second : log[d] \subseteq topic
  /\ \A r \in topic : bucket[r.PictureName] # 0 /\ r.PictureName <= r.Datetime
  /\ LoggedWasMailed

-----------------------------------------------------------------------------
(* Types.                                                                  *)

LEMMA CameraTypes ==
  ASSUME CameraTypeOK
  PROVE  /\ StartMain => CameraTypeOK'
         /\ HumanReads => CameraTypeOK'
         /\ MainReads => CameraTypeOK'
         /\ EndMain => CameraTypeOK'
<1> USE DEF CameraTypeOK, Age, Reader, Line
<1>1. StartMain => CameraTypeOK'
  BY SMT DEF StartMain, AllOld
<1>2. ASSUME NEW r \in Reader, Load(r) PROVE CameraTypeOK'
  BY <1>2, SMT DEF Load
<1>3. ASSUME NEW r \in Reader, Store(r) PROVE CameraTypeOK'
  BY <1>3, SMT DEF Store
<1>4. Convert => CameraTypeOK'
  BY SMT DEF Convert
<1>5. EndMain => CameraTypeOK'
  BY SMT DEF EndMain, AllOld
<1>6. StartHuman \/ EndHuman => CameraTypeOK'
  BY SMT DEF StartHuman, EndHuman
<1> QED
  BY <1>1, <1>2, <1>3, <1>4, <1>5, <1>6 DEF HumanReads, MainReads, Copies

(* The types of everything but the requests are easily kept.               *)
LEMMA RequestType ==
  ASSUME CloudTypeOK, NEW i \in Request, NEW s \in RequestState, req' = [req EXCEPT ![i] = s]
  PROVE  req' \in [Request -> RequestState]
BY DEF CloudTypeOK

LEMMA AnswerType ==
  ASSUME CloudTypeOK, NEW i \in Request, NEW code \in Code, Answer(i, code)
  PROVE  req' \in [Request -> RequestState]
<1>1. req[i] \in RequestState
  BY DEF CloudTypeOK
<1>2. CASE code = 200
  <2> DEFINE s == [req[i] EXCEPT !.at = "over", !.statusCode = 200]
  <2>1. s \in RequestState
    <3>1. 200 \in Code
      BY DEF Code
    <3> QED
      BY <1>1, <3>1, ZenonT(60) DEF RequestState
  <2>2. req' = [req EXCEPT ![i] = s]
    BY <1>2, Zenon DEF Answer
  <2> HIDE DEF s
  <2> QED
    BY <2>1, <2>2, RequestType
<1>3. CASE code # 200
  <2> DEFINE s == [req[i] EXCEPT !.at = "over", !.statusCode = code,
                                 !.faces = << >>, !.searched = 0, !.timestamp = 0]
  <2>1. 0 \in Second /\ 0 \in 0 .. MaxPictures
    BY SMT DEF Second
  <2>2. s \in RequestState
    BY <1>1, <2>1, NoFaces, ZenonT(30) DEF RequestState
  <2>3. req' = [req EXCEPT ![i] = s]
    BY <1>3, Zenon DEF Answer
  <2> HIDE DEF s
  <2> QED
    BY <2>2, <2>3, RequestType
<1> QED
  BY <1>2, <1>3

LEMMA AnswerKeepsTypes ==
  ASSUME CloudTypeOK, NEW i \in Request, NEW code \in Code, Answer(i, code),
         UNCHANGED <<now, bucket, mails, topic, log>>
  PROVE  CloudTypeOK'
<1>1. req' \in [Request -> RequestState]
  BY AnswerType
<1> QED
  BY <1>1, SMT DEF CloudTypeOK

LEMMA FunctionTypes ==
  ASSUME CloudTypeOK, NEW i \in Request, Function(i)
  PROVE  CloudTypeOK'
<1>1. req[i] \in RequestState
  BY DEF CloudTypeOK
<1>2. CASE Reject(i)
  <2>1. req[i].body \in Body
    BY <1>1 DEF RequestState
  <2>2. Checked(req[i].body) \in Code
    BY <2>1, SMT DEF Checked, Body, NoCode, Code
  <2>3. Answer(i, Checked(req[i].body)) /\ UNCHANGED <<now, bucket, mails, topic, log>>
    BY <1>2 DEF Reject
  <2> QED
    BY <2>2, <2>3, AnswerKeepsTypes
<1>4. CASE ReturnBody(i)
  <2>1. req[i].body.statusCode \in {NoKey} \cup Code /\ req[i].body.statusCode # NoKey
    BY <1>1, <1>4, SMT DEF ReturnBody, HasStatusCode, RequestState, Body
  <2>2. Answer(i, req[i].body.statusCode) /\ UNCHANGED <<now, bucket, mails, topic, log>>
    BY <1>4 DEF ReturnBody
  <2> QED
    BY <2>1, <2>2, AnswerKeepsTypes
<1>3. CASE SearchFace(i)
  <2>1. bucket[req[i].object] \in 0 .. MaxPictures /\ now \in Second
    BY <1>1, SMT DEF CloudTypeOK, RequestState
  <2>2. PICK f \in FaceMatches :
          req' = [req EXCEPT ![i] = [@ EXCEPT !.at = "found", !.faces = f, !.timestamp = now,
                                              !.searched = bucket[req[i].object]]]
    BY <1>3, Zenon DEF SearchFace
  <2> DEFINE s == [req[i] EXCEPT !.at = "found", !.faces = f, !.timestamp = now,
                                 !.searched = bucket[req[i].object]]
  <2>3. s \in RequestState
    BY <1>1, <2>1, ZenonT(30) DEF RequestState
  <2>4. req' = [req EXCEPT ![i] = s]
    BY <2>2, Zenon DEF CloudTypeOK
  <2> HIDE DEF s
  <2> QED
    BY <1>3, <2>3, <2>4, RequestType, Zenon DEF SearchFace, CloudTypeOK
<1>5. CASE SearchFaceFails(i) \/ PublishFails(i) \/ Respond(i) \/ StopFunction(i)
  <2>1. PICK code \in {400, 200, NoCode} :
          Answer(i, code) /\ UNCHANGED <<now, bucket, mails, topic, log>>
    <3>1. CASE SearchFaceFails(i)
      BY <3>1, Zenon DEF SearchFaceFails
    <3>2. CASE PublishFails(i)
      BY <3>2, Zenon DEF PublishFails
    <3>3. CASE Respond(i)
      BY <3>3, Zenon DEF Respond
    <3>4. CASE StopFunction(i)
      BY <3>4, Zenon DEF StopFunction
    <3> QED
      BY <1>5, <3>1, <3>2, <3>3, <3>4
  <2>2. code \in Code
    BY <2>1 DEF Code
  <2> QED
    BY <2>1, <2>2, AnswerKeepsTypes
<1>6. CASE PublishMail(i)
  <2>1. [Datetime |-> req[i].timestamp, names |-> Names(i)] \in Mail
    BY <1>1, NamesType, SMT DEF Mail, RequestState
  <2> DEFINE s == [req[i] EXCEPT !.at = "mailed"]
  <2>2. s \in RequestState
    BY <1>1, Zenon DEF RequestState
  <2>3. req' = [req EXCEPT ![i] = s]
    BY <1>6, Zenon DEF PublishMail
  <2> HIDE DEF s
  <2> QED
    BY <1>6, <2>1, <2>2, <2>3, RequestType, SMT DEF PublishMail, CloudTypeOK
<1>7. CASE PublishLog(i)
  <2>1. AuthData(i) \in Record
    BY <1>1, AuthDataType
  <2> DEFINE s == [req[i] EXCEPT !.at = "published"]
  <2>2. s \in RequestState
    BY <1>1, Zenon DEF RequestState
  <2>3. req' = [req EXCEPT ![i] = s]
    BY <1>7, Zenon DEF PublishLog
  <2> HIDE DEF s
  <2> QED
    BY <1>7, <2>1, <2>2, <2>3, RequestType, SMT DEF PublishLog, CloudTypeOK
<1> QED
  BY <1>2, <1>3, <1>4, <1>5, <1>6, <1>7 DEF Function

LEMMA CloudTypes ==
  ASSUME CloudTypeOK, CloudNext
  PROVE  CloudTypeOK'
<1>1. CASE Tick
  BY <1>1, SMT DEF Tick, CloudTypeOK, Second
<1>2. ASSUME NEW r \in topic, WriteLog(r)
      PROVE  CloudTypeOK'
  <2>1. r \in Record /\ {r} \in SUBSET Record
    BY DEF CloudTypeOK
  <2>2. log' \in [Second -> SUBSET Record]
    BY <1>2, <2>1, Zenon DEF WriteLog, CloudTypeOK
  <2> QED
    BY <1>2, <2>2, SMT DEF WriteLog, CloudTypeOK
<1> QED
  BY <1>1, <1>2, FunctionTypes DEF CloudNext

LEMMA InvokeTypes ==
  ASSUME CloudTypeOK, NEW i \in Request, NEW b \in Body, NEW n \in Second,
         Invoke(i, b, n), UNCHANGED <<now, bucket, mails, topic, log>>
  PROVE  CloudTypeOK'
<1> DEFINE s == [req[i] EXCEPT !.at = "received", !.body = b, !.object = n]
<1>1. req[i] \in RequestState
  BY DEF CloudTypeOK
<1>2. s \in RequestState
  BY <1>1, Zenon DEF RequestState
<1>3. req' = [req EXCEPT ![i] = s]
  BY Zenon DEF Invoke, CloudTypeOK
<1> HIDE DEF s
<1> QED
  BY <1>2, <1>3, RequestType, Zenon DEF CloudTypeOK

(* A request, once made, stays the same: only the function's answer grows. *)
LEMMA FunctionKeeps ==
  ASSUME CloudTypeOK, NEW k \in Request, Function(k), NEW i \in Request
  PROVE  /\ req'[i].body = req[i].body /\ req'[i].object = req[i].object
         /\ req[i].at # "none" => req'[i].at # "none"
<1>1. req[k] \in RequestState
  BY DEF CloudTypeOK
<1>2. ASSUME NEW s, req' = [req EXCEPT ![k] = s],
             s.body = req[k].body, s.object = req[k].object, s.at # "none"
      PROVE  /\ req'[i].body = req[i].body /\ req'[i].object = req[i].object
             /\ req[i].at # "none" => req'[i].at # "none"
  BY <1>2 DEF CloudTypeOK
<1>3. ASSUME NEW code, Answer(k, code)
      PROVE  /\ req'[i].body = req[i].body /\ req'[i].object = req[i].object
             /\ req[i].at # "none" => req'[i].at # "none"
  <2> DEFINE good == [req[k] EXCEPT !.at = "over", !.statusCode = 200]
             bad == [req[k] EXCEPT !.at = "over", !.statusCode = code,
                                   !.faces = << >>, !.searched = 0, !.timestamp = 0]
  <2>1. good.body = req[k].body /\ good.object = req[k].object /\ good.at # "none"
    BY <1>1, SMT DEF RequestState
  <2>2. bad.body = req[k].body /\ bad.object = req[k].object /\ bad.at # "none"
    BY <1>1, SMT DEF RequestState
  <2>3. req' = [req EXCEPT ![k] = good] \/ req' = [req EXCEPT ![k] = bad]
    BY <1>3, Zenon DEF Answer
  <2> HIDE DEF good, bad
  <2> QED
    BY <1>2, <2>1, <2>2, <2>3
<1>4. CASE ReturnBody(k) \/ Reject(k) \/ SearchFaceFails(k) \/ PublishFails(k) \/ Respond(k)
           \/ StopFunction(k)
  BY <1>3, <1>4, Zenon DEF ReturnBody, Reject, SearchFaceFails, PublishFails, Respond, StopFunction
<1>5. CASE SearchFace(k)
  <2>1. PICK f \in FaceMatches :
          req' = [req EXCEPT ![k] = [req[k] EXCEPT !.at = "found", !.faces = f, !.timestamp = now,
                                                   !.searched = bucket[req[k].object]]]
    BY <1>5, Zenon DEF SearchFace
  <2> DEFINE s == [req[k] EXCEPT !.at = "found", !.faces = f, !.timestamp = now,
                                 !.searched = bucket[req[k].object]]
  <2>2. s.body = req[k].body /\ s.object = req[k].object /\ s.at # "none"
    BY <1>1, SMT DEF RequestState
  <2>3. req' = [req EXCEPT ![k] = s]
    BY <2>1, Zenon
  <2> HIDE DEF s
  <2> QED
    BY <1>2, <2>2, <2>3
<1>6. CASE PublishMail(k) \/ PublishLog(k)
  <2>1. PICK a \in {"mailed", "published"} : req' = [req EXCEPT ![k] = [req[k] EXCEPT !.at = a]]
    BY <1>6, Zenon DEF PublishMail, PublishLog
  <2> DEFINE s == [req[k] EXCEPT !.at = a]
  <2>2. s.body = req[k].body /\ s.object = req[k].object /\ s.at # "none"
    BY <1>1, SMT DEF RequestState
  <2> HIDE DEF s
  <2> QED
    BY <1>2, <2>1, <2>2, Zenon DEF s
<1> QED
  BY <1>4, <1>5, <1>6 DEF Function

(* A new request had no number before, and the others are left alone.      *)
LEMMA InvokeKeeps ==
  ASSUME CloudTypeOK, NEW k \in Request, NEW b, NEW n, Invoke(k, b, n), NEW i \in Request
  PROVE  /\ req[k].at = "none"
         /\ i # k => req'[i] = req[i]
         /\ req'[k] = [req[k] EXCEPT !.at = "received", !.body = b, !.object = n]
         /\ req'[k].at = "received" /\ req'[k].body = b /\ req'[k].object = n
         /\ req'[k].searched = req[k].searched
<1>1. req[k].at = "none"
  <2>1. \A j \in Request : j < k <=> req[j].at # "none"
    BY Zenon DEF Invoke
  <2>2. ~(k < k)
    BY SMT DEF Request
  <2> QED
    BY <2>1, <2>2, Zenon
<1>2. req'[k] = [req[k] EXCEPT !.at = "received", !.body = b, !.object = n]
  BY DEF Invoke, CloudTypeOK
<1>3. req[k] \in RequestState
  BY DEF CloudTypeOK
<1>4. /\ req'[k].at = "received" /\ req'[k].body = b /\ req'[k].object = n
      /\ req'[k].searched = req[k].searched
  BY <1>2, <1>3, SMT DEF RequestState
<1>5. i # k => req'[i] = req[i]
  BY DEF Invoke, CloudTypeOK
<1> QED
  BY <1>1, <1>2, <1>4, <1>5

(* What only the function and those who call it change.                    *)
LEMMA RequestsChange ==
  ASSUME [Next]_vars, req' # req
  PROVE  \/ RecognitionFaceDetect
         \/ TestFunction
         \/ \E k \in Request : Function(k) /\ UNCHANGED <<boardVars, cameraVars>>
BY Zenon DEF Next, TakePictureSteps, TakePicture, NoMemory, ReadCamera, WriteJpegFormat,
      WriteJpegFails, UploadS3Bucket, UploadFails, RequestLost, AnswerLost, NoStatusCode, Killed,
      FaceDetected, FaceDetectError, CutOff, Restart, ExecHumandetect, CloudNext, Tick, WriteLog,
      cloudVars, vars

LEMMA RequestStays ==
  ASSUME CloudTypeOK, [Next]_vars, NEW i \in Request, req[i].at # "none"
  PROVE  req'[i].at # "none" /\ req'[i].body = req[i].body /\ req'[i].object = req[i].object
<1>1. ASSUME NEW k \in Request, NEW b, NEW n, Invoke(k, b, n) PROVE req'[i] = req[i]
  BY <1>1, InvokeKeeps
<1>2. CASE RecognitionFaceDetect \/ TestFunction
  BY <1>1, <1>2 DEF RecognitionFaceDetect, TestFunction
<1> QED
  BY <1>2, RequestsChange, FunctionKeeps

(* A picture is only taken while there is room for it, and an answer is    *)
(* waited for only when there is a good request.                           *)
Asked == mine \in Request /\ req[mine].at # "none" /\ req[mine].body = GoodBody

RoomInv ==
  /\ ppc \in {"read", "jpeg"} => leaked < Room
  /\ ppc = "answer" => Asked

LEMMA RoomInvStep ==
  ASSUME TypeOK, RoomInv, [Next]_vars
  PROVE  RoomInv'
<1> USE DEF At
<1>1. CASE ppc' # "answer"
  <2> USE <1>1 DEF RoomInv, boardVars
  <2>1. CASE TakePicture \/ ReadCamera \/ WriteJpegFormat
    BY <2>1, SMT DEF TakePicture, ReadCamera, WriteJpegFormat
  <2>2. CASE NoMemory \/ WriteJpegFails \/ RequestLost \/ AnswerLost \/ NoStatusCode \/ Killed
    BY <2>2, SMT DEF NoMemory, WriteJpegFails, RequestLost, AnswerLost, NoStatusCode, Killed,
                     ProcessEnds
  <2>3. CASE UploadS3Bucket \/ UploadFails \/ RecognitionFaceDetect
             \/ FaceDetected \/ FaceDetectError \/ CutOff \/ Restart
    BY <2>3, SMT DEF UploadS3Bucket, UploadFails, RecognitionFaceDetect,
                     FaceDetected, FaceDetectError, CutOff, Restart
  <2>4. CASE ExecHumandetect \/ TestFunction \/ (UNCHANGED <<boardVars, cameraVars>> /\ CloudNext)
    BY <2>4, SMT DEF ExecHumandetect, TestFunction
  <2>5. CASE UNCHANGED vars
    BY <2>5, SMT DEF vars
  <2> QED
    BY <2>1, <2>2, <2>3, <2>4, <2>5 DEF Next, TakePictureSteps
<1>2. CASE RecognitionFaceDetect
  <2>1. PICK i \in Request : Invoke(i, GoodBody, name) /\ mine' = i
    BY <1>2 DEF RecognitionFaceDetect
  <2>2. req'[i].at = "received" /\ req'[i].body = GoodBody
    BY <2>1, InvokeKeeps DEF TypeOK
  <2>3. Asked'
    BY <2>1, <2>2 DEF Asked
  <2>4. ppc' = "answer"
    BY <1>2 DEF RecognitionFaceDetect
  <2> QED
    BY <2>3, <2>4 DEF RoomInv
<1>3. CASE ppc' = "answer" /\ ~RecognitionFaceDetect
  <2>1. ppc = "answer" /\ mine' = mine
    BY <1>3, SMT DEF Next, TakePictureSteps, TakePicture, NoMemory, ReadCamera, WriteJpegFormat,
          WriteJpegFails, UploadS3Bucket, UploadFails, RequestLost, AnswerLost, NoStatusCode, Killed,
          FaceDetected, FaceDetectError, CutOff, Restart, ExecHumandetect, TestFunction, ProcessEnds,
          boardVars, vars
  <2>2. Asked'
    BY <2>1, RequestStays DEF RoomInv, Asked, TypeOK
  <2> QED
    BY <1>3, <2>2 DEF RoomInv
<1> QED
  BY <1>1, <1>2, <1>3

LEMMA PictureTypes ==
  ASSUME TypeOK, RoomInv, [Next]_vars
  PROVE  TypeOK'
<1> USE DEF At
<1>1. CASE TakePicture
  <2>1. CameraTypeOK'
    BY <1>1, CameraTypes DEF TypeOK, TakePicture
  <2> QED
    BY <1>1, <2>1, SMT DEF TypeOK, TakePicture, CloudTypeOK, cloudVars
<1>2. ASSUME NEW p, ProcessEnds(p)
      PROVE  CameraTypeOK'
  BY <1>2, SMT DEF ProcessEnds, TypeOK, CameraTypeOK, AllOld, Age, Reader, Line
<1>3. CASE NoMemory \/ WriteJpegFails \/ RequestLost \/ AnswerLost \/ NoStatusCode \/ Killed
  <2>1. PICK p : ProcessEnds(p) /\ UNCHANGED cloudVars
    BY <1>3 DEF NoMemory, WriteJpegFails, RequestLost, AnswerLost, NoStatusCode, Killed
  <2> QED
    BY <1>2, <2>1, SMT DEF ProcessEnds, TypeOK, CloudTypeOK, cloudVars
<1>4. CASE ReadCamera
  <2>1. CameraTypeOK'
    BY <1>4, CameraTypes DEF TypeOK, ReadCamera
  <2> QED
    BY <1>4, <2>1, SMT DEF TypeOK, ReadCamera, CloudTypeOK, cloudVars
<1>5. CASE WriteJpegFormat
  BY <1>5, SMT DEF TypeOK, RoomInv, WriteJpegFormat, CameraTypeOK, AllOld, Age, CloudTypeOK, cloudVars
<1>6. CASE UploadS3Bucket \/ UploadFails
  <2>1. bucket' \in [Second -> 0 .. MaxPictures]
    BY <1>6, Zenon DEF TypeOK, CloudTypeOK, UploadS3Bucket, UploadFails, Stored
  <2>2. /\ UNCHANGED <<pic, name, taken, output, leaked, mine, told, cameraVars, now, req, mails,
                      topic, log>>
        /\ ppc' \in {"post", "idle"}
    BY <1>6, Zenon DEF UploadS3Bucket, UploadFails
  <2> QED
    BY <2>1, <2>2, SMT DEF TypeOK, CameraTypeOK, cameraVars, CloudTypeOK
<1>7. CASE RecognitionFaceDetect
  <2>1. PICK i \in Request : Invoke(i, GoodBody, name) /\ mine' = i
    BY <1>7 DEF RecognitionFaceDetect
  <2>2. GoodBody \in Body
    BY SMT DEF GoodBody, Body
  <2>3. CloudTypeOK'
    BY <1>7, <2>1, <2>2, InvokeTypes DEF RecognitionFaceDetect, TypeOK
  <2> QED
    BY <1>7, <2>1, <2>3, SMT DEF TypeOK, RecognitionFaceDetect, CameraTypeOK, cameraVars, Request
<1>8. CASE FaceDetected
  <2>1. told' \in [Request -> SUBSET SUBSET Persons]
    <3>1. mine \in Request
      BY <1>8 DEF FaceDetected, Answered, RoomInv, Asked
    <3>2. Names(mine) \in SUBSET Persons
      BY <3>1, NamesType DEF TypeOK, CloudTypeOK, RequestState
    <3>3. {Names(mine)} \in SUBSET SUBSET Persons
      BY <3>2
    <3> QED
      BY <1>8, <3>3, Zenon DEF FaceDetected, TypeOK
  <2> QED
    BY <1>8, <2>1, SMT DEF TypeOK, FaceDetected, CameraTypeOK, cameraVars, CloudTypeOK, cloudVars
<1>9. CASE FaceDetectError \/ CutOff \/ Restart
  BY <1>9, SMT DEF TypeOK, FaceDetectError, CutOff, Restart, CameraTypeOK, cameraVars, CloudTypeOK, cloudVars
<1>10. CASE ExecHumandetect
  BY <1>10, CameraTypes, SMT DEF TypeOK, ExecHumandetect, boardVars, CloudTypeOK, cloudVars
<1>11. CASE TestFunction
  BY <1>11, InvokeTypes, SMT DEF TypeOK, TestFunction, boardVars, CameraTypeOK, cameraVars
<1>12. CASE UNCHANGED <<boardVars, cameraVars>> /\ CloudNext
  BY <1>12, CloudTypes, SMT DEF TypeOK, boardVars, CameraTypeOK, cameraVars
<1>13. CASE UNCHANGED vars
  BY <1>13, SMT DEF TypeOK, vars, boardVars, CameraTypeOK, cameraVars, CloudTypeOK, cloudVars
<1> QED
  BY <1>1, <1>3, <1>4, <1>5, <1>6, <1>7, <1>8, <1>9, <1>10, <1>11, <1>12, <1>13
     DEF Next, TakePictureSteps

-----------------------------------------------------------------------------
(* Two readers of one tmpframe.                                            *)

LEMMA CameraInvStep ==
  ASSUME TypeOK, CameraInv, [Next]_vars
  PROVE  CameraInv'
<1> USE DEF TypeOK, CameraTypeOK, CameraInv, PictureNotStale, At, Age, Reader, Line
<1>1. CASE TakePicture
  BY <1>1, SMT DEF TakePicture, StartMain, HumanStored
<1>2. CASE ppc = "read" /\ ppc' = ppc /\ Load("main")
  BY <1>2, SMT DEF Load
<1>3. CASE ppc = "read" /\ ppc' = ppc /\ Store("main")
  BY <1>3, SMT DEF Store
<1>4. CASE ppc = "read" /\ ppc' = ppc /\ Convert
  BY <1>4, SMT DEF Convert
<1>5. CASE ppc = "read" /\ ppc' = "jpeg" /\ EndMain
  BY <1>5, SMT DEF EndMain
<1>6. CASE ExecHumandetect /\ Load("human")
  BY <1>6, SMT DEF ExecHumandetect, Load, boardVars
<1>7. CASE ExecHumandetect /\ Store("human")
  BY <1>7, SMT DEF ExecHumandetect, Store, boardVars
<1>8. CASE ExecHumandetect /\ (StartHuman \/ EndHuman)
  BY <1>8, SMT DEF ExecHumandetect, StartHuman, EndHuman, boardVars
<1>9. CASE NoMemory \/ WriteJpegFails \/ RequestLost \/ AnswerLost \/ NoStatusCode \/ Killed
  BY <1>9, SMT DEF NoMemory, WriteJpegFails, RequestLost, AnswerLost, NoStatusCode, Killed, ProcessEnds
<1>10. CASE WriteJpegFormat \/ UploadS3Bucket \/ UploadFails \/ RecognitionFaceDetect
            \/ FaceDetected \/ FaceDetectError \/ CutOff \/ Restart
  BY <1>10, SMT DEF WriteJpegFormat, UploadS3Bucket, UploadFails, RecognitionFaceDetect,
                    FaceDetected, FaceDetectError, Answered, CutOff, Restart, cameraVars
<1>11. CASE TestFunction \/ (UNCHANGED <<boardVars, cameraVars>> /\ CloudNext) \/ UNCHANGED vars
  BY <1>11, SMT DEF TestFunction, boardVars, cameraVars, vars
<1> QED
  BY <1>1, <1>2, <1>3, <1>4, <1>5, <1>6, <1>7, <1>8, <1>9, <1>10, <1>11
     DEF Next, TakePictureSteps, ReadCamera, MainReads, Copies, ExecHumandetect, HumanReads

-----------------------------------------------------------------------------
(* Names.                                                                  *)

(* What the cloud does by itself leaves the bucket and the requests' names *)
(* alone, and time passes.                                                 *)
LEMMA CloudKeeps ==
  ASSUME CloudTypeOK, CloudNext
  PROVE  bucket' = bucket /\ now' >= now /\ topic \subseteq topic' /\ mails \subseteq mails'
<1>1. CASE Tick
  BY <1>1, SMT DEF Tick, CloudTypeOK, Second
<1>2. ASSUME NEW i \in Request, Function(i)
      PROVE  bucket' = bucket /\ now' = now /\ topic \subseteq topic' /\ mails \subseteq mails'
  BY <1>2, Zenon DEF Function, ReturnBody, Reject, SearchFace, SearchFaceFails, PublishMail,
                     PublishLog, PublishFails, Respond, StopFunction
<1>3. ASSUME NEW r \in topic, WriteLog(r)
      PROVE  bucket' = bucket /\ now' = now /\ topic \subseteq topic' /\ mails \subseteq mails'
  BY <1>3, Zenon DEF WriteLog
<1>4. now \in Int
  BY SMT DEF CloudTypeOK, Second
<1> QED
  BY <1>1, <1>2, <1>3, <1>4, SMT DEF CloudNext

LEMMA UploadKeepsNames ==
  ASSUME TypeOK, NameInv, UploadS3Bucket \/ UploadFails
  PROVE  /\ \A n \in Second : bucket'[n] \in {bucket[n], output[n]}
         /\ UNCHANGED <<pic, name, taken, output, now, topic, mails>>
         /\ ppc' \in {"post", "idle"} /\ pic # 0
<1>1. UNCHANGED bucket \/ Stored
  BY Zenon DEF UploadS3Bucket, UploadFails
<1>2. \A n \in Second : bucket'[n] \in {bucket[n], output[n]}
  BY <1>1, Zenon DEF Stored, TypeOK, CloudTypeOK
<1>3. UNCHANGED <<pic, name, taken, output, now, topic, mails>>
  BY Zenon DEF UploadS3Bucket, UploadFails
<1>4. ppc = "upload" /\ ppc' \in {"post", "idle"}
  BY Zenon DEF UploadS3Bucket, UploadFails, At
<1> QED
  BY <1>2, <1>3, <1>4 DEF NameInv

LEMMA NameInvStep ==
  ASSUME TypeOK, NameInv, [Next]_vars
  PROVE  NameInv'
<1> USE DEF TypeOK, CloudTypeOK, NameInv, At, Second
<1>1. CASE TakePicture
  <2>1. /\ pic' = pic + 1 /\ pic' \in 1 .. MaxPictures /\ name' = now /\ ppc' = "read"
        /\ taken' = [taken EXCEPT ![pic'] = now]
        /\ UNCHANGED <<output, bucket, now>>
    BY <1>1, SMT DEF TakePicture, cloudVars
  <2>2. taken'[pic'] = now /\ \A p \in 1 .. MaxPictures : p # pic' => taken'[p] = taken[p]
    BY <2>1, Zenon
  <2>3. ASSUME NEW n \in Second
        PROVE  /\ bucket'[n] <= output'[n] /\ output'[n] <= pic'
               /\ output'[n] # 0 => taken'[output'[n]] = n
               /\ bucket'[n] # 0 => taken'[bucket'[n]] = n
    <3>1. output[n] \in 0 .. MaxPictures /\ bucket[n] \in 0 .. MaxPictures
      BY <2>3
    <3>2. bucket[n] <= output[n] /\ output[n] <= pic
      BY <2>3
    <3> HIDE DEF TypeOK, CloudTypeOK, NameInv, At, Second
    <3>3. ASSUME NEW p, p \in 0 .. MaxPictures, p <= pic, p # 0
          PROVE  p \in 1 .. MaxPictures /\ p # pic'
      <4>1. pic \in Int /\ pic' = pic + 1
        BY <2>1, SMT DEF TypeOK
      <4> QED
        BY <3>3, <4>1, SMT
    <3>4. bucket[n] <= pic
      <4>1. pic \in Int
        BY SMT DEF TypeOK
      <4> QED
        BY <3>1, <3>2, <4>1, SMT
    <3>5. output[n] <= pic'
      <4>1. pic \in Int /\ pic' = pic + 1
        BY <2>1, SMT DEF TypeOK
      <4> QED
        BY <3>1, <3>2, <4>1, SMT
    <3>6. /\ output[n] # 0 => taken'[output[n]] = n
          /\ bucket[n] # 0 => taken'[bucket[n]] = n
      <4>1. /\ output[n] # 0 => taken[output[n]] = n
            /\ bucket[n] # 0 => taken[bucket[n]] = n
        BY <2>3 DEF NameInv
      <4> QED
        BY <2>2, <3>1, <3>2, <3>3, <3>4, <4>1
    <3> QED
      BY <2>1, <3>2, <3>5, <3>6
  <2>4. pic' # 0 /\ name' <= now'
    BY <2>1, SMT
  <2> QED
    BY <2>1, <2>2, <2>3, <2>4
<1>2. CASE ReadCamera
  <2> HIDE DEF TypeOK, CloudTypeOK, NameInv, At, Second
  <2>1. /\ ppc = "read" /\ ppc' \in {"read", "jpeg"}
        /\ UNCHANGED <<pic, name, taken, output, bucket, now>>
    BY <1>2, SMT DEF ReadCamera, cloudVars
  <2> QED
    BY <2>1, Zenon DEF NameInv
<1>3. CASE WriteJpegFormat
  <2>1. /\ ppc = "jpeg" /\ ppc' = "upload" /\ output' = [output EXCEPT ![name] = pic]
        /\ UNCHANGED <<pic, name, taken, bucket, now>>
    BY <1>3, Zenon DEF WriteJpegFormat, cloudVars
  <2>2. /\ pic # 0 /\ taken[pic] = name /\ name <= now /\ output'[name] = pic
        /\ \A n \in Second : n # name => output'[n] = output[n]
    BY <2>1, Zenon
  <2>3. ASSUME NEW n \in Second
        PROVE  /\ bucket[n] <= output'[n] /\ output'[n] <= pic
               /\ output'[n] # 0 => taken[output'[n]] = n
               /\ bucket[n] # 0 => taken[bucket[n]] = n
    <3>1. CASE n = name
      <4>1. /\ output[n] \in 0 .. MaxPictures /\ bucket[n] \in 0 .. MaxPictures
            /\ bucket[n] <= output[n] /\ output[n] <= pic /\ pic \in 0 .. MaxPictures
        BY <2>3, Zenon
      <4>2. bucket[n] <= pic /\ pic <= pic
        BY <4>1, SMT
      <4> QED
        BY <2>2, <2>3, <3>1, <4>2, Zenon
    <3>2. CASE n # name
      BY <2>2, <2>3, <3>2, Zenon
    <3> QED
      BY <3>1, <3>2
  <2> QED
    BY <2>1, <2>2, <2>3, Zenon
<1>4. CASE UploadS3Bucket \/ UploadFails
  <2>1. /\ \A n \in Second : bucket'[n] \in {bucket[n], output[n]}
        /\ UNCHANGED <<pic, name, taken, output, now>>
        /\ ppc' \in {"post", "idle"} /\ pic # 0
    BY <1>4, UploadKeepsNames
  <2>2. \A n \in Second : output[n] <= output[n]
    BY SMT
  <2> QED
    BY <2>1, <2>2, Zenon
<1>6. CASE RecognitionFaceDetect
  BY <1>6, SMT DEF RecognitionFaceDetect
<1>7. CASE FaceDetected \/ FaceDetectError \/ CutOff \/ Restart
  <2>1. /\ UNCHANGED <<pic, name, taken, output, bucket, now>>
        /\ ppc' = "idle" \/ (ppc = "answer" /\ ppc' = "cut_off")
    BY <1>7, SMT DEF FaceDetected, FaceDetectError, CutOff, Restart, cloudVars
  <2> QED
    BY <2>1, SMT
<1>8. CASE NoMemory \/ WriteJpegFails \/ RequestLost \/ AnswerLost \/ NoStatusCode \/ Killed
  <2>1. ppc' = "dead" /\ UNCHANGED <<pic, name, taken, output, bucket, now>>
    BY <1>8, SMT DEF NoMemory, WriteJpegFails, RequestLost, AnswerLost, NoStatusCode, Killed,
                     ProcessEnds, cloudVars
  <2> QED
    BY <2>1, SMT
<1>9. CASE UNCHANGED <<boardVars, cameraVars>> /\ CloudNext
  <2>1. bucket' = bucket /\ now' >= now /\ now' \in Second
    BY <1>9, CloudKeeps, CloudTypes
  <2> QED
    BY <1>9, <2>1, SMT DEF boardVars
<1>10. CASE ExecHumandetect \/ TestFunction \/ UNCHANGED vars
  <2>1. UNCHANGED <<ppc, pic, name, taken, output, bucket, now>>
    BY <1>10, SMT DEF ExecHumandetect, TestFunction, boardVars, cloudVars, vars
  <2> QED
    BY <2>1, SMT
<1> QED
  BY <1>1, <1>2, <1>3, <1>4, <1>6, <1>7, <1>8, <1>9, <1>10 DEF Next, TakePictureSteps

-----------------------------------------------------------------------------
(* Requests.                                                               *)

(* Nothing is taken back: no mail, no record, and no object but for a later *)
(* one.                                                                    *)
LEMMA NothingLost ==
  ASSUME TypeOK, NameInv, [Next]_vars
  PROVE  /\ \A n \in Second : bucket[n] <= bucket'[n] /\ (bucket[n] # 0 => bucket'[n] # 0)
         /\ now <= now'
         /\ topic \subseteq topic'
         /\ mails \subseteq mails'
<1>1. CASE UploadS3Bucket \/ UploadFails
  <2>1. /\ \A n \in Second : bucket'[n] \in {bucket[n], output[n]}
        /\ UNCHANGED <<now, topic, mails>>
    BY <1>1, UploadKeepsNames
  <2>2. ASSUME NEW n \in Second
        PROVE  bucket[n] <= bucket'[n] /\ (bucket[n] # 0 => bucket'[n] # 0)
    <3>1. /\ bucket[n] \in 0 .. MaxPictures /\ output[n] \in 0 .. MaxPictures
          /\ bucket[n] <= output[n]
      BY <2>2 DEF TypeOK, CloudTypeOK, NameInv
    <3> QED
      BY <2>1, <2>2, <3>1, SMT
  <2> QED
    BY <2>1, <2>2, SMT DEF TypeOK, CloudTypeOK, Second
<1>2. bucket' = bucket => \A n \in Second : bucket[n] <= bucket'[n] /\ (bucket[n] # 0 => bucket'[n] # 0)
  BY SMT DEF TypeOK, CloudTypeOK, Second
<1>3. CASE UNCHANGED <<boardVars, cameraVars>> /\ CloudNext
  BY <1>2, <1>3, CloudKeeps, SMT DEF TypeOK, CloudTypeOK, Second
<1>4. CASE UNCHANGED <<now, bucket, topic, mails>>
  BY <1>2, <1>4, SMT DEF TypeOK, CloudTypeOK, Second
<1>5. CASE TakePicture \/ ReadCamera \/ WriteJpegFormat
  BY <1>4, <1>5 DEF TakePicture, ReadCamera, WriteJpegFormat, cloudVars
<1>6. CASE NoMemory \/ WriteJpegFails \/ RequestLost \/ AnswerLost \/ NoStatusCode \/ Killed
  BY <1>4, <1>6 DEF NoMemory, WriteJpegFails, RequestLost, AnswerLost, NoStatusCode, Killed, cloudVars
<1>7. CASE RecognitionFaceDetect \/ FaceDetected \/ FaceDetectError \/ CutOff \/ Restart
  BY <1>4, <1>7 DEF RecognitionFaceDetect, FaceDetected, FaceDetectError, CutOff, Restart, cloudVars
<1>8. CASE ExecHumandetect \/ TestFunction \/ UNCHANGED vars
  BY <1>4, <1>8 DEF ExecHumandetect, TestFunction, cloudVars, vars
<1> QED
  BY <1>1, <1>3, <1>5, <1>6, <1>7, <1>8 DEF Next, TakePictureSteps

(* A request nothing has happened to.                                      *)
LEMMA RequestKept ==
  ASSUME TypeOK, RoomInv, NameInv, [Next]_vars, NEW i \in Request, RequestInv(i),
         req'[i] = req[i], told'[i] = told[i]
  PROVE  RequestInv(i)'
<1>1. /\ \A n \in Second : bucket[n] <= bucket'[n] /\ (bucket[n] # 0 => bucket'[n] # 0)
      /\ now <= now'
      /\ topic \subseteq topic'
      /\ mails \subseteq mails'
  BY NothingLost
<1>2. /\ req[i].object \in Second /\ req[i].searched \in 0 .. MaxPictures
      /\ now \in Second /\ bucket \in [Second -> 0 .. MaxPictures]
  BY DEF TypeOK, CloudTypeOK, RequestState
<1>3. TypeOK'
  BY PictureTypes
<1>4. bucket'[req[i].object] \in 0 .. MaxPictures /\ now' \in Second
  BY <1>2, <1>3 DEF TypeOK, CloudTypeOK
<1>5. /\ Names(i)' = Names(i) /\ AuthData(i)' = AuthData(i)
      /\ (Recorded(i)' <=> Recorded(i)) /\ (Found(i)' <=> Found(i))
  BY DEF Names, AuthData, Recorded, Found
<1>6. req[i].object <= now'
  BY <1>1, <1>2, <1>4, SMT DEF RequestInv, Second
<1>7. req[i].searched <= bucket'[req[i].object]
  <2>1. /\ req[i].searched <= bucket[req[i].object]
        /\ bucket[req[i].object] <= bucket'[req[i].object]
    BY <1>1, <1>2 DEF RequestInv
  <2>2. bucket[req[i].object] \in 0 .. MaxPictures
    BY <1>2
  <2> QED
    BY <1>2, <1>4, <2>1, <2>2, SMT
<1> QED
  BY <1>1, <1>2, <1>5, <1>6, <1>7 DEF RequestInv

LEMMA RequestInvInvoke ==
  ASSUME TypeOK, RoomInv, NameInv, [Next]_vars, \A i \in Request : RequestInv(i),
         NEW k \in Request, NEW b, Invoke(k, b, name), told' = told, now' = now, bucket' = bucket,
         NEW i \in Request
  PROVE  RequestInv(i)'
<1>1. CASE i # k
  <2>1. req'[i] = req[i] /\ told'[i] = told[i]
    BY <1>1 DEF Invoke, TypeOK, CloudTypeOK
  <2> QED
    BY <2>1, RequestKept
<1>2. CASE i = k
  <2>1. /\ req[i].at = "none"
        /\ req'[i].at = "received" /\ req'[i].object = name /\ req'[i].searched = req[i].searched
    BY <1>2, InvokeKeeps DEF TypeOK
  <2>2. told[i] = {}
    <3>1. \A names \in told[i] : FALSE
      BY <2>1, Zenon DEF RequestInv
    <3> QED
      BY <3>1
  <2>3. req'[i].searched = 0
    BY <2>1 DEF RequestInv
  <2>4. req'[i].object <= now' /\ 0 <= bucket'[name]
    BY <2>1, SMT DEF NameInv, TypeOK, CloudTypeOK, Second
  <2> QED
    BY <2>1, <2>2, <2>3, <2>4 DEF RequestInv, Recorded, Found
<1> QED
  BY <1>1, <1>2

(* What the answers do: only one with 200 says that there is a record,     *)
(* unless the body itself says 200.                                        *)
LEMMA RequestInvAnswer ==
  ASSUME TypeOK, NEW i \in Request, RequestInv(i), NEW code \in Code,
         Answer(i, code), told' = told, topic' = topic, bucket' = bucket, now' = now,
         req[i].at # "over",
         code = 200 => req[i].at = "published" \/ req[i].body # GoodBody
  PROVE  RequestInv(i)'
<1>1. told[i] = {}
  BY SMT DEF RequestInv, TypeOK
<1>2. req[i] \in RequestState
  BY DEF TypeOK, CloudTypeOK
<1>3. CASE code = 200
  <2>1. req'[i] = [req[i] EXCEPT !.at = "over", !.statusCode = 200]
    BY <1>3 DEF Answer, TypeOK, CloudTypeOK
  <2>2. /\ req'[i].at = "over"
        /\ req'[i].body = req[i].body
        /\ req'[i].faces = req[i].faces
        /\ req'[i].object = req[i].object
        /\ req'[i].searched = req[i].searched
        /\ req'[i].timestamp = req[i].timestamp
    BY <1>2, <2>1, SMT DEF RequestState
  <2>3. AuthData(i)' = AuthData(i)
    BY <2>2 DEF AuthData
  <2>4. Recorded(i)' => Recorded(i)
    BY <1>3, <2>2 DEF Recorded
  <2> QED
    BY <1>1, <2>2, <2>3, <2>4 DEF RequestInv, Found
<1>4. CASE code # 200
  <2>1. req'[i] = [req[i] EXCEPT !.at = "over", !.statusCode = code,
                                 !.faces = << >>, !.searched = 0, !.timestamp = 0]
    BY <1>4 DEF Answer, TypeOK, CloudTypeOK
  <2>2. /\ req'[i].at = "over" /\ req'[i].statusCode = code
        /\ req'[i].object = req[i].object /\ req'[i].searched = 0
    BY <1>2, <2>1, SMT DEF RequestState
  <2>3. 0 <= bucket[req[i].object]
    BY <1>2, SMT DEF TypeOK, CloudTypeOK, RequestState
  <2> QED
    BY <1>1, <1>4, <2>2, <2>3 DEF RequestInv, Recorded, Found
<1> QED
  BY <1>3, <1>4

LEMMA RequestInvFunction ==
  ASSUME TypeOK, RoomInv, NameInv, [Next]_vars, \A i \in Request : RequestInv(i),
         NEW k \in Request, Function(k), told' = told, NEW i \in Request
  PROVE  RequestInv(i)'
<1>1. req[k] \in RequestState
  BY DEF TypeOK, CloudTypeOK
<1>2. \A s : req' = [req EXCEPT ![k] = s] => req'[k] = s /\ (i # k => req'[i] = req[i])
  BY DEF TypeOK, CloudTypeOK
<1>3. CASE i # k
  <2>1. ASSUME NEW code, Answer(k, code) PROVE \E s : req' = [req EXCEPT ![k] = s]
    BY <2>1 DEF Answer
  <2>2. CASE \E code : Answer(k, code)
    BY <2>1, <2>2, RequestKept, <1>2, <1>3
  <2>3. CASE SearchFace(k) \/ PublishMail(k) \/ PublishLog(k)
    <3>1. \E s : req' = [req EXCEPT ![k] = s]
      <4>1. CASE SearchFace(k)
        BY <4>1, Zenon DEF SearchFace
      <4>2. CASE PublishMail(k) \/ PublishLog(k)
        BY <4>2, Zenon DEF PublishMail, PublishLog
      <4> QED
        BY <2>3, <4>1, <4>2
    <3> QED
      BY <3>1, RequestKept, <1>2, <1>3
  <2>4. CASE ReturnBody(k) \/ Reject(k) \/ SearchFaceFails(k) \/ PublishFails(k) \/ Respond(k)
             \/ StopFunction(k)
    BY <2>2, <2>4, Zenon
       DEF ReturnBody, Reject, SearchFaceFails, PublishFails, Respond, StopFunction
  <2> QED
    BY <2>3, <2>4 DEF Function
<1>4. CASE i = k /\ (SearchFace(k) \/ PublishMail(k) \/ PublishLog(k))
  <2>1. told[k] = {}
    <3>1. req[k].at # "over"
      <4>1. CASE SearchFace(k)
        BY <4>1, Zenon DEF SearchFace
      <4>2. CASE PublishMail(k) \/ PublishLog(k)
        BY <4>2 DEF PublishMail, PublishLog
      <4> QED
        BY <1>4, <4>1, <4>2
    <3>2. \A names \in told[k] : FALSE
      BY <3>1, Zenon DEF RequestInv
    <3> QED
      BY <3>2
  <2>2. CASE SearchFace(k)
    <3>1. PICK f \in FaceMatches :
            req'[k] = [req[k] EXCEPT !.at = "found", !.faces = f, !.timestamp = now,
                                     !.searched = bucket[req[k].object]]
      BY <1>2, <2>2, Zenon DEF SearchFace
    <3>2. /\ req'[k].at = "found" /\ req'[k].body = req[k].body
          /\ req'[k].object = req[k].object /\ req'[k].timestamp = now
          /\ req'[k].searched = bucket[req[k].object]
      BY <1>1, <3>1, SMT DEF RequestState
    <3>3. bucket[req[k].object] # 0 /\ bucket' = bucket /\ now' = now
      BY <2>2, Zenon DEF SearchFace
    <3>4. req[k].body = GoodBody
      BY <1>1, <2>2, CheckedGood DEF SearchFace, RequestState
    <3>5. bucket[req[k].object] <= bucket[req[k].object]
      BY <1>1, SMT DEF TypeOK, CloudTypeOK, RequestState
    <3>6. req[k].object <= now
      BY DEF RequestInv
    <3> QED
      BY <1>4, <2>1, <3>2, <3>3, <3>4, <3>5, <3>6 DEF RequestInv, Recorded, Found
  <2>3. CASE PublishMail(k)
    <3>1. req'[k] = [req[k] EXCEPT !.at = "mailed"]
      BY <1>2, <2>3, Zenon DEF PublishMail
    <3>2. /\ req'[k].at = "mailed" /\ req'[k].body = req[k].body
          /\ req'[k].object = req[k].object
          /\ req'[k].searched = req[k].searched
          /\ req'[k].timestamp = req[k].timestamp
          /\ req'[k].faces = req[k].faces
      BY <1>1, <3>1, SMT DEF RequestState
    <3>3. Names(k)' = Names(k)
      BY <3>2 DEF Names
    <3>4. req[k].at = "found" /\ bucket' = bucket /\ now' = now
      BY <2>3 DEF PublishMail
    <3>5. [Datetime |-> req[k].timestamp, names |-> Names(k)] \in mails'
      BY <2>3 DEF PublishMail
    <3> QED
      BY <1>4, <2>1, <3>2, <3>3, <3>4, <3>5 DEF RequestInv, Recorded, Found
  <2>4. CASE PublishLog(k)
    <3>1. req'[k] = [req[k] EXCEPT !.at = "published"]
      BY <1>2, <2>4, Zenon DEF PublishLog
    <3>2. /\ req'[k].at = "published" /\ req'[k].body = req[k].body
          /\ req'[k].object = req[k].object
          /\ req'[k].searched = req[k].searched
          /\ req'[k].timestamp = req[k].timestamp
          /\ req'[k].faces = req[k].faces
      BY <1>1, <3>1, SMT DEF RequestState
    <3>3. Names(k)' = Names(k) /\ AuthData(k)' = AuthData(k)
      BY <3>2 DEF Names, AuthData
    <3>4. req[k].at = "mailed" /\ bucket' = bucket /\ now' = now /\ mails' = mails
      BY <2>4, Zenon DEF PublishLog
    <3>5. AuthData(k) \in topic'
      BY <2>4 DEF PublishLog
    <3> QED
      BY <1>4, <2>1, <3>2, <3>3, <3>4, <3>5 DEF RequestInv, Recorded, Found
  <2> QED
    BY <1>4, <2>2, <2>3, <2>4
<1>5. CASE i = k /\ ~(SearchFace(k) \/ PublishMail(k) \/ PublishLog(k))
  <2>1. ASSUME NEW code \in Code, Answer(k, code), req[k].at # "over",
               UNCHANGED <<now, bucket, mails, topic, log>>,
               code = 200 => req[k].at = "published" \/ req[k].body # GoodBody
        PROVE  RequestInv(i)'
    BY <1>5, <2>1, RequestInvAnswer
  <2>2. CASE ReturnBody(k)
    <3>1. req[k].body.statusCode \in Code
      BY <1>1, <2>2, SMT DEF ReturnBody, HasStatusCode, RequestState, Body
    <3>2. req[k].body # GoodBody
      BY <2>2, SMT DEF ReturnBody, HasStatusCode, GoodBody
    <3> QED
      BY <2>1, <2>2, <3>1, <3>2 DEF ReturnBody
  <2>3. CASE Reject(k)
    <3>1. Checked(req[k].body) \in {NoCode, 400, 500}
      BY <1>1, SMT DEF Checked, Body, NoCode, RequestState
    <3>2. Checked(req[k].body) # 200 /\ Checked(req[k].body) \in Code
      BY <3>1, SMT DEF NoCode, Code
    <3> QED
      BY <2>1, <2>3, <3>2 DEF Reject
  <2>4. 400 \in Code /\ 200 \in Code /\ NoCode \in Code /\ 400 # 200 /\ NoCode # 200
    BY SMT DEF Code, NoCode
  <2>5. CASE SearchFaceFails(k) \/ PublishFails(k)
    BY <2>1, <2>4, <2>5 DEF SearchFaceFails, PublishFails
  <2>6. CASE Respond(k)
    BY <2>1, <2>4, <2>6 DEF Respond
  <2>7. CASE StopFunction(k)
    BY <2>1, <2>4, <2>7 DEF StopFunction
  <2> QED
    BY <1>5, <2>2, <2>3, <2>5, <2>6, <2>7 DEF Function
<1> QED
  BY <1>3, <1>4, <1>5

LEMMA RequestInvStep ==
  ASSUME TypeOK, RoomInv, NameInv, [Next]_vars, \A i \in Request : RequestInv(i),
         NEW i \in Request
  PROVE  RequestInv(i)'
<1>1. CASE UNCHANGED <<req, told>>
  BY <1>1, RequestKept
<1>2. CASE RecognitionFaceDetect
  <2>1. PICK k \in Request : Invoke(k, GoodBody, name)
    BY <1>2 DEF RecognitionFaceDetect
  <2>2. UNCHANGED <<told, now, bucket>>
    BY <1>2 DEF RecognitionFaceDetect
  <2> QED
    BY <2>1, <2>2, RequestInvInvoke
<1>3. CASE TestFunction
  <2>1. PICK k \in Request, b \in Bodies : Invoke(k, b, name)
    BY <1>3 DEF TestFunction
  <2>2. UNCHANGED <<told, now, bucket>>
    BY <1>3 DEF TestFunction, boardVars
  <2> QED
    BY <2>1, <2>2, RequestInvInvoke
<1>4. CASE FaceDetected
  <2>1. /\ req' = req /\ bucket' = bucket /\ mails' = mails /\ topic' = topic /\ now' = now
        /\ mine \in Request /\ req[mine].body = GoodBody
    BY <1>4 DEF FaceDetected, Answered, RoomInv, Asked, cloudVars
  <2>2. CASE i # mine
    <3>1. told'[i] = told[i]
      BY <1>4, <2>2 DEF FaceDetected, TypeOK
    <3> QED
      BY <2>1, <3>1, RequestKept
  <2>3. CASE i = mine
    <3>1. req[i].at = "over" /\ Recorded(i) /\ told'[i] = {Names(i)}
      BY <1>4, <2>1, <2>3 DEF FaceDetected, Answered, Recorded, TypeOK
    <3>2. /\ Names(i)' = Names(i) /\ AuthData(i)' = AuthData(i)
          /\ (Recorded(i)' <=> Recorded(i)) /\ (Found(i)' <=> Found(i))
      BY <2>1 DEF Names, AuthData, Recorded, Found
    <3>3. \A names \in told'[i] : req'[i].at = "over" /\ Recorded(i)' /\ names = Names(i)'
      BY <2>1, <3>1, <3>2
    <3> QED
      BY <2>1, <3>2, <3>3 DEF RequestInv
  <2> QED
    BY <2>2, <2>3
<1>5. CASE UNCHANGED <<boardVars, cameraVars>> /\ CloudNext
  <2>1. told' = told
    BY <1>5 DEF boardVars
  <2>2. CASE Tick \/ \E r \in topic : WriteLog(r)
    <3>1. req' = req
      BY <2>2 DEF Tick, WriteLog
    <3> QED
      BY <1>1, <2>1, <3>1
  <2>3. ASSUME NEW k \in Request, Function(k) PROVE RequestInv(i)'
    BY <2>1, <2>3, RequestInvFunction
  <2> QED
    BY <1>5, <2>2, <2>3 DEF CloudNext
<1>6. CASE TakePicture \/ ReadCamera \/ WriteJpegFormat \/ UploadS3Bucket \/ UploadFails
  BY <1>1, <1>6 DEF TakePicture, ReadCamera, WriteJpegFormat, UploadS3Bucket, UploadFails, cloudVars
<1>7. CASE NoMemory \/ WriteJpegFails \/ RequestLost \/ AnswerLost \/ NoStatusCode \/ Killed
  BY <1>1, <1>7 DEF NoMemory, WriteJpegFails, RequestLost, AnswerLost, NoStatusCode, Killed,
                    ProcessEnds, cloudVars
<1>8. CASE FaceDetectError \/ CutOff \/ Restart \/ ExecHumandetect \/ UNCHANGED vars
  BY <1>1, <1>8 DEF FaceDetectError, CutOff, Restart, ExecHumandetect, cloudVars, boardVars, vars
<1> QED
  BY <1>2, <1>3, <1>4, <1>5, <1>6, <1>7, <1>8 DEF Next, TakePictureSteps

-----------------------------------------------------------------------------
(* Records.                                                                *)

LEMMA RecordInvStep ==
  ASSUME TypeOK, NameInv, RecordInv, [Next]_vars, \A i \in Request : RequestInv(i)
  PROVE  RecordInv'
<1>1. /\ \A n \in Second : bucket[n] # 0 => bucket'[n] # 0
      /\ topic \subseteq topic'
      /\ mails \subseteq mails'
  BY NothingLost
<1>2. \A r \in topic : r.PictureName \in Second
  BY SMT DEF TypeOK, CloudTypeOK, Record
<1>3. CASE topic' = topic /\ log' = log
  <2>1. \A d \in Second : log'[d] \subseteq topic'
    BY <1>3 DEF RecordInv
  <2>2. \A r \in topic' : bucket'[r.PictureName] # 0 /\ r.PictureName <= r.Datetime
    BY <1>1, <1>2, <1>3 DEF RecordInv
  <2>3. LoggedWasMailed'
    BY <1>1, <1>3 DEF RecordInv, LoggedWasMailed, Named
  <2> QED
    BY <2>1, <2>2, <2>3 DEF RecordInv
<1>4. ASSUME NEW i \in Request, PublishLog(i)
      PROVE  RecordInv'
  <2>1. /\ req[i].faces \in FaceMatches
        /\ bucket[req[i].object] # 0 /\ req[i].object <= req[i].timestamp
        /\ [Datetime |-> req[i].timestamp, names |-> Names(i)] \in mails
    BY <1>4 DEF PublishLog, RequestInv, Found, TypeOK, CloudTypeOK, RequestState
  <2>2. /\ AuthData(i).PictureName = req[i].object
        /\ AuthData(i).Datetime = req[i].timestamp
        /\ Named(AuthData(i)) = Names(i)
    BY <2>1, AuthDataNames DEF AuthData
  <2>3. topic' = topic \cup {AuthData(i)} /\ UNCHANGED <<bucket, mails, log>>
    BY <1>4, Zenon DEF PublishLog
  <2>4. \A d \in Second : log'[d] \subseteq topic'
    BY <2>3 DEF RecordInv
  <2>5. \A r \in topic' : bucket'[r.PictureName] # 0 /\ r.PictureName <= r.Datetime
    BY <2>1, <2>2, <2>3 DEF RecordInv
  <2>6. \E m \in mails : m.Datetime = AuthData(i).Datetime /\ m.names = Named(AuthData(i))
    <3> DEFINE m == [Datetime |-> req[i].timestamp, names |-> Names(i)]
    <3>1. m.Datetime = AuthData(i).Datetime /\ m.names = Named(AuthData(i))
      BY <2>2
    <3> QED
      BY <2>1, <3>1
  <2>7. LoggedWasMailed'
    BY <2>3, <2>6 DEF RecordInv, LoggedWasMailed, Named
  <2> QED
    BY <2>4, <2>5, <2>7 DEF RecordInv
<1>5. ASSUME NEW r \in topic, WriteLog(r)
      PROVE  RecordInv'
  <2>1. \A d \in Second : log'[d] \subseteq topic'
    BY <1>5 DEF WriteLog, RecordInv, TypeOK, CloudTypeOK
  <2> QED
    BY <1>5, <2>1 DEF WriteLog, RecordInv, LoggedWasMailed, Named
<1>6. ASSUME NEW i \in Request, Function(i), ~PublishLog(i)
      PROVE  RecordInv'
  <2>1. topic' = topic /\ log' = log
    BY <1>6, Zenon DEF Function, ReturnBody, Reject, SearchFace, SearchFaceFails, PublishMail,
                       PublishFails, Respond, StopFunction
  <2> QED
    BY <1>3, <2>1
<1>7. CASE CloudNext
  <2>1. Tick => topic' = topic /\ log' = log
    BY DEF Tick
  <2> QED
    BY <1>3, <1>4, <1>5, <1>6, <1>7, <2>1 DEF CloudNext
<1>8. CASE TakePicture \/ ReadCamera \/ WriteJpegFormat \/ UploadS3Bucket \/ UploadFails
  BY <1>3, <1>8 DEF TakePicture, ReadCamera, WriteJpegFormat, UploadS3Bucket, UploadFails, cloudVars
<1>9. CASE NoMemory \/ WriteJpegFails \/ RequestLost \/ AnswerLost \/ NoStatusCode \/ Killed
  BY <1>3, <1>9 DEF NoMemory, WriteJpegFails, RequestLost, AnswerLost, NoStatusCode, Killed, cloudVars
<1>10. CASE RecognitionFaceDetect \/ FaceDetected \/ FaceDetectError \/ CutOff \/ Restart
  BY <1>3, <1>10 DEF RecognitionFaceDetect, FaceDetected, FaceDetectError, CutOff, Restart, cloudVars
<1>11. CASE ExecHumandetect \/ TestFunction \/ UNCHANGED vars
  BY <1>3, <1>11 DEF ExecHumandetect, TestFunction, cloudVars, vars
<1> QED
  BY <1>7, <1>8, <1>9, <1>10, <1>11 DEF Next, TakePictureSteps

-----------------------------------------------------------------------------
(* The invariant of the whole, and what follows from it.                   *)

PictureInv ==
  /\ TypeOK
  /\ RoomInv
  /\ CameraInv
  /\ NameInv
  /\ \A i \in Request : RequestInv(i)
  /\ RecordInv

LEMMA InitInv == Init => PictureInv
<1> SUFFICES ASSUME Init PROVE PictureInv
  OBVIOUS
<1> USE DEF Init, CameraInit, CloudInit
<1>1. CameraTypeOK
  BY SMT DEF CameraTypeOK, AllOld, Age, Line, Reader
<1>2. CloudTypeOK
  <2>1. 0 \in Second /\ 0 \in 0 .. MaxPictures /\ GoodBody \in Body
    BY SMT DEF Second, GoodBody, Body
  <2>2. \A i \in Request : req[i] \in RequestState
    BY <2>1, NoFaces, Zenon DEF RequestState, Code
  <2> QED
    BY <2>1, <2>2, SMT DEF CloudTypeOK
<1>3. TypeOK
  BY <1>1, <1>2, SMT DEF TypeOK, Second
<1>4. RoomInv /\ NameInv
  BY SMT DEF RoomInv, NameInv, Second
<1>5. CameraInv
  BY SMT DEF CameraInv, PictureNotStale, Reader
<1>6. \A i \in Request : RequestInv(i)
  BY SMT DEF RequestInv, Recorded, Found, Second
<1>7. RecordInv
  BY SMT DEF RecordInv, LoggedWasMailed
<1> QED
  BY <1>3, <1>4, <1>5, <1>6, <1>7 DEF PictureInv

LEMMA InvStep ==
  ASSUME PictureInv, [Next]_vars
  PROVE  PictureInv'
<1>1. TypeOK' /\ RoomInv'
  BY PictureTypes, RoomInvStep DEF PictureInv
<1>2. CameraInv' /\ NameInv'
  BY CameraInvStep, NameInvStep DEF PictureInv
<1>3. \A i \in Request : RequestInv(i)'
  BY RequestInvStep DEF PictureInv
<1>4. RecordInv'
  BY RecordInvStep DEF PictureInv
<1>5. (\A i \in Request : RequestInv(i))'
  BY <1>3 DEF Request
<1> QED
  BY <1>1, <1>2, <1>4, <1>5 DEF PictureInv

(* PictureInv holds in every reachable state.                              *)
THEOREM PictureInvariant == Spec => []PictureInv
BY InitInv, InvStep, PTL DEF Spec

(* Every variable keeps its type.                                          *)
THEOREM PictureTypeCorrect == Spec => []TypeOK
<1>1. PictureInv => TypeOK
  BY DEF PictureInv
<1> QED
  BY <1>1, PictureInvariant, PTL

(* A picture is never made of a rest of an earlier detection, for frames   *)
(* of any height.                                                          *)
THEOREM PictureIsNotStale == Spec => []PictureNotStale
<1>1. PictureInv => PictureNotStale
  BY DEF PictureInv, CameraInv
<1> QED
  BY <1>1, PictureInvariant, PTL

(* There is no record without the mail that says the same.                 *)
THEOREM RecordsWereMailed == Spec => []LoggedWasMailed
<1>1. PictureInv => LoggedWasMailed
  BY DEF PictureInv, RecordInv
<1> QED
  BY <1>1, PictureInvariant, PTL

(* Whom main has announced is in the records.                              *)
THEOREM AnnouncedIsRecorded == Spec => []SuccessIsRecorded
<1>1. ASSUME PictureInv PROVE SuccessIsRecorded
  <2>1. ASSUME NEW i \in Request, NEW names \in told[i]
        PROVE  \E r \in topic : r.PictureName = req[i].object /\ Named(r) = names
    <3>1. req[i].faces \in FaceMatches /\ RequestInv(i)
      BY <1>1 DEF PictureInv, TypeOK, CloudTypeOK, RequestState
    <3>2. AuthData(i) \in topic /\ names = Names(i)
      BY <2>1, <3>1 DEF RequestInv
    <3>3. AuthData(i).PictureName = req[i].object
      BY DEF AuthData
    <3> QED
      BY <3>1, <3>2, <3>3, AuthDataNames
  <2> QED
    BY <2>1 DEF SuccessIsRecorded
<1> QED
  BY <1>1, PictureInvariant, PTL

(* There is no record, and no page, without its picture.                   *)
THEOREM RecordsHavePictures == Spec => []RecordHasPicture
<1>1. ASSUME PictureInv PROVE RecordHasPicture
  <2>1. \A d \in Second, root \in BOOLEAN : Page(d, root) \subseteq topic
    BY <1>1 DEF PictureInv, RecordInv, Page
  <2>2. \A r \in topic : bucket[r.PictureName] # 0
    BY <1>1 DEF PictureInv, RecordInv
  <2> QED
    BY <2>1, <2>2 DEF RecordHasPicture
<1> QED
  BY <1>1, PictureInvariant, PTL

(* What a record shows is a picture of its second, not after the record,   *)
(* and not older than the picture the face was looked for in.              *)
THEOREM RecordsShowTheirPicture == Spec => []RecordShowsPicture
<1>1. ASSUME PictureInv PROVE RecordShowsPicture
  <2>1. ASSUME NEW r \in topic
        PROVE  /\ \E p \in 1 .. MaxPictures :
                    bucket[r.PictureName] = p /\ taken[p] = r.PictureName
               /\ r.PictureName <= r.Datetime
    <3>1. bucket[r.PictureName] # 0 /\ r.PictureName <= r.Datetime
      BY <1>1 DEF PictureInv, RecordInv
    <3>2. r.PictureName \in Second
      BY <1>1, SMT DEF PictureInv, TypeOK, CloudTypeOK, Record
    <3>3. bucket[r.PictureName] \in 1 .. MaxPictures
      BY <1>1, <3>1, <3>2, SMT DEF PictureInv, TypeOK, CloudTypeOK
    <3>4. taken[bucket[r.PictureName]] = r.PictureName
      BY <1>1, <3>1, <3>2 DEF PictureInv, NameInv
    <3> QED
      BY <3>1, <3>3, <3>4
  <2>2. \A i \in Request : req[i].searched <= bucket[req[i].object]
    BY <1>1 DEF PictureInv, RequestInv
  <2> QED
    BY <2>1, <2>2 DEF RecordShowsPicture
<1> QED
  BY <1>1, PictureInvariant, PTL

-----------------------------------------------------------------------------
(* check_validation keeps a bad body away from search_face.                *)

Harmless(i) ==
  /\ req[i].at = "none" => req[i].body = GoodBody
  /\ req[i].at # "over" => req[i].statusCode = NoCode
  /\ req[i].body # GoodBody =>
       \/ req[i].statusCode \in {NoCode, 400, 500}
       \/ req[i].statusCode = req[i].body.statusCode

LEMMA HarmlessFunction ==
  ASSUME PictureInv, \A i \in Request : Harmless(i), NEW k \in Request, Function(k),
         NEW i \in Request
  PROVE  Harmless(i)'
<1>1. CloudTypeOK /\ req[k] \in RequestState /\ RequestInv(k)
  BY DEF PictureInv, TypeOK, CloudTypeOK
<1>2. ASSUME NEW s, req' = [req EXCEPT ![k] = s]
      PROVE  (i # k => req'[i] = req[i]) /\ (i = k => req'[i] = s)
  BY <1>1, <1>2 DEF CloudTypeOK
<1>3. ASSUME req'[i] = req[i] PROVE Harmless(i)'
  BY <1>3 DEF Harmless
<1>4. ASSUME NEW s, req' = [req EXCEPT ![k] = s],
             s.at # "none",
             s.at # "over" => s.statusCode = NoCode,
             s.body # GoodBody => \/ s.statusCode \in {NoCode, 400, 500}
                                  \/ s.statusCode = s.body.statusCode
      PROVE  Harmless(i)'
  <2>1. CASE i = k
    BY <1>2, <1>4, <2>1 DEF Harmless
  <2> QED
    BY <1>2, <1>3, <1>4, <2>1
<1>5. ASSUME NEW code, Answer(k, code),
             req[k].body = GoodBody \/ code \in {NoCode, 400, 500} \/ code = req[k].body.statusCode
      PROVE  Harmless(i)'
  <2> DEFINE good == [req[k] EXCEPT !.at = "over", !.statusCode = 200]
             bad == [req[k] EXCEPT !.at = "over", !.statusCode = code,
                                   !.faces = << >>, !.searched = 0, !.timestamp = 0]
  <2>1. good.at = "over" /\ good.statusCode = 200 /\ good.body = req[k].body
    BY <1>1, SMT DEF RequestState
  <2>2. bad.at = "over" /\ bad.statusCode = code /\ bad.body = req[k].body
    BY <1>1, SMT DEF RequestState
  <2>3. (code = 200 /\ req' = [req EXCEPT ![k] = good]) \/ req' = [req EXCEPT ![k] = bad]
    BY <1>5, Zenon DEF Answer
  <2> HIDE DEF good, bad
  <2>4. CASE req' = [req EXCEPT ![k] = bad]
    <3>1. bad.body # GoodBody =>
            bad.statusCode \in {NoCode, 400, 500} \/ bad.statusCode = bad.body.statusCode
      BY <1>5, <2>2
    <3>2. bad.at # "none" /\ (bad.at # "over" => bad.statusCode = NoCode)
      BY <2>2
    <3> QED
      BY <1>4, <2>4, <3>1, <3>2, Zenon
  <2>5. CASE code = 200 /\ req' = [req EXCEPT ![k] = good]
    <3>1. req[k].body = GoodBody \/ 200 = req[k].body.statusCode
      BY <1>5, <2>5, SMT DEF NoCode
    <3>2. good.body # GoodBody => good.statusCode = good.body.statusCode
      BY <2>1, <3>1
    <3>3. good.at # "none" /\ (good.at # "over" => good.statusCode = NoCode)
      BY <2>1
    <3> QED
      BY <1>4, <2>5, <3>2, <3>3, Zenon
  <2> QED
    BY <2>3, <2>4, <2>5
<1>6. CASE ReturnBody(k)
  BY <1>5, <1>6 DEF ReturnBody
<1>7. CASE Reject(k)
  <2>1. Checked(req[k].body) \in {NoCode, 400, 500}
    BY <1>1, SMT DEF Checked, Body, NoCode, RequestState
  <2> QED
    BY <1>5, <1>7, <2>1 DEF Reject
<1>8. CASE SearchFaceFails(k) \/ PublishFails(k) \/ StopFunction(k)
  <2>1. Answer(k, 400) \/ Answer(k, NoCode)
    BY <1>8, Zenon DEF SearchFaceFails, PublishFails, StopFunction
  <2> QED
    BY <1>5, <2>1
<1>9. CASE Respond(k)
  <2>1. req[k].body = GoodBody /\ Answer(k, 200)
    BY <1>1, <1>9 DEF Respond, RequestInv, Found
  <2> QED
    BY <1>5, <2>1
<1>10. CASE SearchFace(k)
  <2>1. req[k].statusCode = NoCode
    BY <1>10, Zenon DEF SearchFace, Harmless
  <2>2. PICK f \in FaceMatches :
          req' = [req EXCEPT ![k] = [req[k] EXCEPT !.at = "found", !.faces = f, !.timestamp = now,
                                                   !.searched = bucket[req[k].object]]]
    BY <1>10, Zenon DEF SearchFace
  <2> DEFINE s == [req[k] EXCEPT !.at = "found", !.faces = f, !.timestamp = now,
                                 !.searched = bucket[req[k].object]]
  <2>3. s.statusCode = NoCode /\ s.at # "none"
    BY <1>1, <2>1, SMT DEF RequestState
  <2>4. req' = [req EXCEPT ![k] = s]
    BY <2>2, Zenon
  <2> HIDE DEF s
  <2> QED
    BY <1>4, <2>3, <2>4
<1>11. CASE PublishMail(k) \/ PublishLog(k)
  <2>1. PICK a \in {"mailed", "published"} :
          req' = [req EXCEPT ![k] = [req[k] EXCEPT !.at = a]] /\ req[k].at \in {"found", "mailed"}
    BY <1>11, Zenon DEF PublishMail, PublishLog
  <2> DEFINE s == [req[k] EXCEPT !.at = a]
  <2>2. req[k].statusCode = NoCode
    BY <2>1 DEF Harmless
  <2>3. s.statusCode = NoCode /\ s.at # "none"
    BY <1>1, <2>2, SMT DEF RequestState
  <2> HIDE DEF s
  <2> QED
    BY <1>4, <2>1, <2>3, Zenon DEF s
<1> QED
  BY <1>6, <1>7, <1>8, <1>9, <1>10, <1>11 DEF Function

LEMMA HarmlessStep ==
  ASSUME PictureInv, \A i \in Request : Harmless(i), [Next]_vars, NEW i \in Request
  PROVE  Harmless(i)'
<1>1. CloudTypeOK
  BY DEF PictureInv, TypeOK
<1>2. CASE req' = req
  BY <1>2 DEF Harmless
<1>3. ASSUME NEW k \in Request, NEW b, NEW n, Invoke(k, b, n)
      PROVE  Harmless(i)'
  <2>1. CASE i # k
    <3>1. req'[i] = req[i]
      BY <1>1, <1>3, <2>1, InvokeKeeps
    <3> QED
      BY <3>1 DEF Harmless
  <2>2. CASE i = k
    <3>1. req[i].at = "none"
          /\ req'[i] = [req[i] EXCEPT !.at = "received", !.body = b, !.object = n]
      BY <1>1, <1>3, <2>2, InvokeKeeps
    <3>2. req[i] \in RequestState
      BY <1>1 DEF CloudTypeOK
    <3>3. req'[i].statusCode = req[i].statusCode /\ req'[i].at = "received"
      BY <3>1, <3>2, SMT DEF RequestState
    <3> QED
      BY <3>1, <3>3 DEF Harmless
  <2> QED
    BY <2>1, <2>2
<1>4. CASE RecognitionFaceDetect \/ TestFunction
  BY <1>3, <1>4 DEF RecognitionFaceDetect, TestFunction
<1> QED
  BY <1>2, <1>4, RequestsChange, HarmlessFunction

(* A bad body never gets as far as a mail or a record.                     *)
THEOREM BadRequestsAreHarmless == Spec => []BadRequestHarmless
<1>1. Init => \A i \in Request : Harmless(i)
  BY SMT DEF Init, CloudInit, Harmless
<1>2. PictureInv /\ (\A i \in Request : Harmless(i)) /\ [Next]_vars
        => (\A i \in Request : Harmless(i))'
  <2>1. ASSUME PictureInv, \A i \in Request : Harmless(i), [Next]_vars
        PROVE  \A i \in Request : Harmless(i)'
    BY <2>1, HarmlessStep
  <2> QED
    BY <2>1 DEF Request
<1>3. PictureInv /\ (\A i \in Request : Harmless(i)) => BadRequestHarmless
  <2>1. ASSUME PictureInv, \A i \in Request : Harmless(i), NEW i \in Request,
               req[i].body # GoodBody
        PROVE  /\ req[i].at \in {"received", "over"}
               /\ \/ req[i].statusCode \in {NoCode, 400, 500}
                  \/ req[i].statusCode = req[i].body.statusCode
    <3>1. req[i].at \notin {"found", "mailed", "published"}
      BY <2>1 DEF PictureInv, RequestInv, Found
    <3>2. req[i].at # "none"
      BY <2>1 DEF Harmless
    <3>3. req[i].at \in {"none", "received", "found", "mailed", "published", "over"}
      BY <2>1, SMT DEF PictureInv, TypeOK, CloudTypeOK, RequestState
    <3> QED
      BY <2>1, <3>1, <3>2, <3>3 DEF Harmless
  <2> QED
    BY <2>1 DEF BadRequestHarmless
<1> QED
  BY <1>1, <1>2, <1>3, PictureInvariant, PTL DEF Spec
=============================================================================
