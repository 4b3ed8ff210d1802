------------------------------- MODULE Cloud -------------------------------
(***************************************************************************)
(* The cloud side of a picture: the bucket it is uploaded to, the function *)
(* lambda.py that is called with its name, looks for a known face, sends a *)
(* mail and publishes a log record, the table the records end up in, and   *)
(* the web application (models.py, app.py) that shows them.                *)
(*                                                                         *)
(* Rekognition, SNS, the IoT topic with its rule, S3 and DynamoDB are      *)
(* external: they are what lambda.py and models.py make of them.           *)
(***************************************************************************)
EXTENDS Integers, Sequences

CONSTANTS
  MaxPictures,   (* Bound on the pictures taken ...                        *)
  MaxRequests,   (* ... and on the runs of the function.                   *)
  MaxTime,       (* Last second of the model.                              *)
  Persons,       (* The faces of the collection.                           *)
  Bodies         (* Bodies a test of the function may send.                *)

ASSUME MaxPicturesAssumption == MaxPictures \in Nat
ASSUME MaxRequestsAssumption == MaxRequests \in Nat
ASSUME MaxTimeAssumption == MaxTime \in Nat
ASSUME PersonsAssumption == "Not_Define" \notin Persons

Second == 0 .. MaxTime    (* Picture and log record are named by seconds.  *)

Request == 1 .. MaxRequests

MaxFaces == 1             (* MAX_FACES *)

RequiredKeys == {"bucket_name", "file_name", "threshold"}

NoCode == 0               (* No answer yet, or one without statusCode.     *)
Code == {NoCode, 200, 400, 500}

NoKey == -1               (* There is no 'statusCode' in a body.           *)

(* The body of a request, and what it says of each key if it is a dict.    *)
(* "absent" stands for an event without a body and for one that cannot be  *)
(* decoded or searched: each of them raises.  A body may have a statusCode *)
(* of its own, or contain the word and give no code (a list, a string).    *)
Body == [form: {"dict", "not_dict", "none", "absent"},
         statusCode: {NoKey} \cup Code,
         key: [RequiredKeys -> {"ok", "empty", "invalid", "missing"}]]

ASSUME BodiesAssumption == Bodies \subseteq Body

GoodBody == [form |-> "dict", statusCode |-> NoKey, key |-> [k \in RequiredKeys |-> "ok"]]

FaceMatches == UNION {[1 .. n -> Persons] : n \in 0 .. MaxFaces}

Record == [Datetime: Second, PictureName: Second, Person: Persons \cup {"Not_Define"}]
Mail == [Datetime: Second, names: SUBSET Persons]

VARIABLES
  now,      (* The clock, in seconds.                                      *)
  bucket,   (* The picture stored under a name, 0 if there is none.        *)
  req,      (* The requests in their order: where the function is with one *)
            (* and what it holds.                                          *)
  mails,    (* What has been published to SNS ...                          *)
  topic,    (* ... and to the IoT topic.                                   *)
  log       (* The log table by Datetime: a set of at most one record.     *)

cloudVars == <<now, bucket, req, mails, topic, log>>

(* "over" is a request that has been answered.                             *)
RequestState ==
  [at: {"none", "received", "found", "mailed", "published", "over"},
   body: Body,
   object: Second,
   faces: FaceMatches,
   searched: 0 .. MaxPictures,   (* The picture the faces are of.          *)
   timestamp: Second,
   statusCode: Code]

CloudTypeOK ==
  /\ now \in Second
  /\ bucket \in [Second -> 0 .. MaxPictures]
  /\ req \in [Request -> RequestState]
  /\ mails \subseteq Mail
  /\ topic \subseteq Record
  /\ log \in [Second -> SUBSET Record]

CloudInit ==
  /\ now = 0
  /\ bucket = [n \in Second |-> 0]
  /\ req = [i \in Request |->
             [at |-> "none", body |-> GoodBody, object |-> 0, faces |-> << >>,
              searched |-> 0, timestamp |-> 0, statusCode |-> NoCode]]
  /\ mails = {}
  /\ topic = {}
  /\ log = [d \in Second |-> {}]

Tick ==
  /\ now < MaxTime
  /\ now' = now + 1
  /\ UNCHANGED <<bucket, req, mails, topic, log>>

-----------------------------------------------------------------------------
(* lambda_handler: one run of the function per request.                    *)

Invoke(i, b, n) ==
  /\ \A j \in Request : j < i <=> req[j].at # "none"
  /\ req' = [req EXCEPT ![i] = [@ EXCEPT !.at = "received", !.body = b, !.object = n]]

(* Only an answer with 200 carries what has been found.                    *)
Answer(i, code) ==
  req' = [req EXCEPT ![i] =
            IF code = 200
            THEN [@ EXCEPT !.at = "over", !.statusCode = 200]
            ELSE [@ EXCEPT !.at = "over", !.statusCode = code,
                           !.faces = << >>, !.searched = 0, !.timestamp = 0]]

(* Mutant: what is wrong with a value is noted and forgotten.              *)
CheckedForgets(b) ==
  IF b.form # "dict" THEN 400
  ELSE IF \E k \in RequiredKeys : b.key[k] = "missing" THEN 500
  ELSE NoCode

(* load_json and check_validation: what a body is answered, if not NoCode. *)
(* A missing key is noted and then looked up all the same, which raises.   *)
(* Bodies with a statusCode of their own do not get here.                  *)
Checked(b) ==
  CASE b.form = "absent"             -> 500
    [] b.form \in {"none", "not_dict"} -> 400
    [] b.form = "dict" ->
         IF \E k \in RequiredKeys : b.key[k] = "missing" THEN 500
         ELSE IF \E k \in RequiredKeys : b.key[k] # "ok" THEN 400
         ELSE NoCode

HasStatusCode(b) == b.form \in {"dict", "not_dict"} /\ b.statusCode # NoKey

(* search_post takes a body with a statusCode for an error of load_json,   *)
(* which answers so, and returns it as it is.                              *)
ReturnBody(i) ==
  /\ req[i].at = "received"
  /\ HasStatusCode(req[i].body)
  /\ Answer(i, req[i].body.statusCode)
  /\ UNCHANGED <<now, bucket, mails, topic, log>>

Reject(i) ==
  /\ req[i].at = "received"
  /\ ~HasStatusCode(req[i].body)
  /\ Checked(req[i].body) # NoCode
  /\ Answer(i, Checked(req[i].body))
  /\ UNCHANGED <<now, bucket, mails, topic, log>>

SearchFace(i) ==
  /\ req[i].at = "received"
  /\ ~HasStatusCode(req[i].body)
  /\ Checked(req[i].body) = NoCode
  /\ bucket[req[i].object] # 0
  /\ \E f \in FaceMatches :
       req' = [req EXCEPT ![i] = [@ EXCEPT !.at = "found", !.faces = f, !.timestamp = now,
                                           !.searched = bucket[req[i].object]]]
  /\ UNCHANGED <<now, bucket, mails, topic, log>>

(* There is no such object, no face in it, or the service fails.           *)
SearchFaceFails(i) ==
  /\ req[i].at = "received"
  /\ ~HasStatusCode(req[i].body)
  /\ Checked(req[i].body) = NoCode
  /\ Answer(i, 400)
  /\ UNCHANGED <<now, bucket, mails, topic, log>>

Names(i) == {req[i].faces[n] : n \in DOMAIN req[i].faces}

PublishMail(i) ==
  /\ req[i].at = "found"
  /\ mails' = mails \cup {[Datetime |-> req[i].timestamp, names |-> Names(i)]}
  /\ req' = [req EXCEPT ![i].at = "mailed"]
  /\ UNCHANGED <<now, bucket, topic, log>>

(* Mutant: the picture is named by the time of the record.                 *)
AuthDataByTime(i) ==
  [Datetime |-> req[i].timestamp,
   PictureName |-> req[i].timestamp,
   Person |-> IF req[i].faces = << >> THEN "Not_Define"
              ELSE req[i].faces[Len(req[i].faces)]]

(* The loop over the faces leaves the last one in auth_data.               *)
AuthData(i) ==
  [Datetime |-> req[i].timestamp,
   PictureName |-> req[i].object,
   Person |-> IF req[i].faces = << >> THEN "Not_Define"
              ELSE req[i].faces[Len(req[i].faces)]]

(* Mutant: the record is published before the mail.                        *)
PublishLogFirst(i) ==
  /\ req[i].at \in {"found", "mailed"}
  /\ topic' = topic \cup {AuthData(i)}
  /\ req' = [req EXCEPT ![i].at = IF @ = "found" THEN "found" ELSE "published"]
  /\ UNCHANGED <<now, bucket, mails, log>>

PublishLog(i) ==
  /\ req[i].at = "mailed"
  /\ topic' = topic \cup {AuthData(i)}
  /\ req' = [req EXCEPT ![i].at = "published"]
  /\ UNCHANGED <<now, bucket, mails, log>>

(* Mutant: a failure to publish is not reported.                           *)
PublishFailsSilently(i) ==
  /\ req[i].at \in {"found", "mailed"}
  /\ Answer(i, 200)
  /\ UNCHANGED <<now, bucket, mails, topic, log>>

(* search_face takes an exception of either client for one of the search.  *)
PublishFails(i) ==
  /\ req[i].at \in {"found", "mailed"}
  /\ Answer(i, 400)
  /\ UNCHANGED <<now, bucket, mails, topic, log>>

Respond(i) ==
  /\ req[i].at = "published"
  /\ Answer(i, 200)
  /\ UNCHANGED <<now, bucket, mails, topic, log>>

(* A function that has run for too long is stopped, wherever it is; the    *)
(* gateway's answer to that has no statusCode.                             *)
StopFunction(i) ==
  /\ req[i].at \notin {"none", "over"}
  /\ Answer(i, NoCode)
  /\ UNCHANGED <<now, bucket, mails, topic, log>>

-----------------------------------------------------------------------------
(* A rule of the topic writes a record to the table, where it replaces one *)
(* with the same key; with qos 1 that may happen more than once.           *)
WriteLog(r) ==
  /\ r \in topic
  /\ log' = [log EXCEPT ![r.Datetime] = {r}]
  /\ UNCHANGED <<now, bucket, req, mails, topic>>

(* view: search_item looks a record up by its Datetime, and checkforResult *)
(* gives up if the pictures it shows are there, as seen from /static.      *)
Page(d, root) ==
  {r \in log[d] : ~(root /\ (bucket[r.PictureName] # 0 \/ r.Person \in Persons))}

Function(i) ==
  \/ ReturnBody(i)
  \/ Reject(i)
  \/ SearchFace(i)
  \/ SearchFaceFails(i)
  \/ PublishMail(i)
  \/ PublishLog(i)
  \/ PublishFails(i)
  \/ Respond(i)
  \/ StopFunction(i)

CloudNext ==
  \/ Tick
  \/ \E i \in Request : Function(i)
  \/ \E r \in topic : WriteLog(r)

=============================================================================
