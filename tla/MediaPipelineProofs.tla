------------------------- MODULE MediaPipelineProofs -------------------------
(***************************************************************************)
(* Proofs about MediaPipeline, for any number of deliveries, jobs and      *)
(* keys: it keeps to the envelope, so that every theorem about JobEnvelope *)
(* holds of it, and the bucket agrees with what the backend is told.       *)
(***************************************************************************)
EXTENDS MediaPipeline, JobEnvelopeProofs

(* A step of the pipeline is a step of the envelope, or invisible to it. *)
LEMMA MediaStep == [MediaNext]_allVars => [Next]_vars
<1> SUFFICES ASSUME [MediaNext]_allVars PROVE [Next]_vars
  OBVIOUS
<1>1. ASSUME NEW d \in Deliveries, Service(d) PROVE [Next]_vars
  <2>1. CASE Begin(d) \/ EncoderExits(d)
    BY <2>1 DEF Begin, EncoderExits
  <2>2. CASE Refuse(d) \/ UploadRaises(d) \/ EncodeFails(d) \/ Upload(d)
    <3>1. ServiceRaises(d) \/ ServiceReturns(d)
      BY <2>2 DEF Refuse, UploadRaises, EncodeFails, Upload
    <3>2. QED
      BY <3>1 DEF Next, Handler
  <2>3. QED
    BY <1>1, <2>1, <2>2 DEF Service
<1>2. ASSUME NEW d \in Deliveries, Cancelled(d) PROVE [Next]_vars
  BY <1>2 DEF Cancelled, Next, Handler
<1>3. ASSUME NEW d \in Deliveries, Around(d) PROVE [Next]_vars
  BY <1>3 DEF Around, Next, Handler
<1>4. CASE Stop
  BY <1>4 DEF Stop, Next
<1>5. ASSUME NEW j \in Jobs, Expire(j) PROVE [Next]_vars
  BY <1>5 DEF Next
<1>6. CASE UNCHANGED allVars
  BY <1>6 DEF allVars
<1>7. QED
  BY <1>1, <1>2, <1>3, <1>4, <1>5, <1>6 DEF MediaNext

(* The media pipeline implements the envelope: whatever JobEnvelope promises    *)
(* with a service that may do anything, it promises with this service.          *)
THEOREM KeepsToTheEnvelope == MediaSpec => EnvelopeSpec
<1>1. MediaInit => Init
  BY DEF MediaInit
<1>2. QED
  BY <1>1, MediaStep, PTL DEF MediaSpec, EnvelopeSpec, Spec

LEMMA EnvelopeTyped == MediaSpec => []TypeOK
  BY KeepsToTheEnvelope, TypeCorrect, PTL DEF EnvelopeSpec
-----------------------------------------------------------------------------
(* What a step of the envelope does to one delivery *)

(* A service that returns or raises leaves "serving"; what it leaves behind. *)
LEMMA ServicePlaces ==
    ASSUME TypeOK, NEW d \in Deliveries, ServiceReturns(d) \/ ServiceRaises(d)
    PROVE  /\ pc[d] = "serving"
           /\ \A e \in Deliveries \ {d} : pc'[e] = pc[e] /\ branch'[e] = branch[e]
           /\ pc'[d] \in {"storing", "raised"}
           /\ pc'[d] = "storing" /\ branch'[d] = "try" => ServiceReturns(d)
           /\ UNCHANGED <<result, sent>>
  BY DEF TypeOK, ServiceReturns, ServiceRaises, Catch, Leave

(* The other steps of a handler and arq's never leave a service under way. *)
LEMMA AroundPlaces ==
    ASSUME TypeOK, NEW d \in Deliveries, Around(d)
    PROVE  /\ \A e \in Deliveries \ {d} : pc'[e] = pc[e] /\ branch'[e] = branch[e]
           /\ pc[d] \notin {"serving", "errored"}
           /\ pc[d] = "raised" => pc'[d] = "errored"
           /\ pc'[d] \in {"storing", "announcing"} /\ branch'[d] = "try" =>
                  pc[d] \in {"storing", "announcing"} /\ branch[d] = "try"
<1>1. CASE Arq(d)
  BY <1>1 DEF TypeOK, Arq, Pick, Abandon, Finish
<1>2. CASE Skip(d) \/ Enter(d) \/ CheckRaises(d) \/ Store(d)
  BY <1>2 DEF TypeOK, Skip, Enter, CheckRaises, Store
<1>3. CASE Announce(d)
  BY <1>3 DEF TypeOK, Announce, Leave
<1>4. CASE StoreRaises(d) \/ AnnounceRaises(d)
  BY <1>4 DEF TypeOK, StoreRaises, AnnounceRaises, Catch, Leave
<1>5. QED
  BY <1>1, <1>2, <1>3, <1>4 DEF Around, Progress

(* A completed result or notification is new only if the handler of its job     *)
(* writes or publishes it from the try branch.                                  *)
LEMMA AroundVerdicts ==
    ASSUME TypeOK, NEW d \in Deliveries, Around(d), NEW j \in Jobs
    PROVE  /\ result'[j] = "completed" =>
                  \/ result[j] = "completed"
                  \/ j = JobOf[d] /\ pc[d] = "storing" /\ branch[d] = "try"
           /\ sent'[j]["completed"] > 0 =>
                  \/ sent[j]["completed"] > 0
                  \/ j = JobOf[d] /\ pc[d] = "announcing" /\ branch[d] = "try"
<1>1. CASE UNCHANGED <<result, sent>>
  BY <1>1
<1>2. CASE Store(d) \/ StoreRaises(d)
  <2>1. UNCHANGED sent /\ pc[d] = "storing" /\ (WriteResult(d) \/ UNCHANGED result)
    BY <1>2 DEF Store, StoreRaises, NoWrite
  <2>2. CASE WriteResult(d)
    BY <2>1, <2>2, WriteReadable DEF StatusOf
  <2>3. QED
    BY <2>1, <2>2
<1>3. CASE Announce(d) \/ AnnounceRaises(d)
  <2>1. UNCHANGED result /\ pc[d] = "announcing"
        /\ (PublishNotification(d) \/ UNCHANGED sent)
    BY <1>3 DEF Announce, AnnounceRaises
  <2>2. CASE PublishNotification(d)
    <3>1. j # JobOf[d] => sent'[j] = sent[j]
      BY <2>2 DEF PublishNotification, TypeOK
    <3>2. branch[d] # "try" => sent'[j]["completed"] = sent[j]["completed"]
      BY <2>2 DEF PublishNotification, TypeOK, StatusOf, Statuses
    <3>3. branch[d] = "try" \/ branch[d] # "try"
      OBVIOUS
    <3>4. QED
      BY <2>1, <3>1, <3>2
  <2>3. QED
    BY <2>1, <2>2
<1>4. CASE Arq(d) \/ Skip(d) \/ Enter(d) \/ CheckRaises(d)
  BY <1>1, <1>4 DEF Arq, Pick, Abandon, Finish, Skip, Enter, CheckRaises
<1>5. QED
  BY <1>2, <1>3, <1>4 DEF Around, Progress
-----------------------------------------------------------------------------
(* The bucket *)

LEMMA ProducerFacts ==
    /\ NoVideo \notin Videos
    /\ Producers \subseteq Jobs
    /\ \A j \in Producers : KeyOf[j] \in Keys
    /\ \A j \in Producers : j \in Clips => SourceOf[j] \in Keys
<1>1. NoVideo \notin Videos
  <2>1. \A v \in Videos : v.by \in Jobs
    BY DEF Videos
  <2>2. QED
    BY <2>1, MediaAssumption DEF NoVideo
<1>2. Producers \subseteq Jobs /\ Producers \subseteq Replays \cup Clips
  BY MediaAssumption DEF Producers
<1>3. QED
  BY <1>1, <1>2, MediaAssumption

(* What a handler has in its directory when ffmpeg has ended well. *)
LEMMA OutputSound ==
    ASSUME MediaInv, NEW d \in Deliveries, pc[d] = "serving", Encoded(d)
    PROVE  /\ JobOf[d] \in Producers
           /\ Output(d) \in Videos
           /\ Sound(Output(d), KeyOf[JobOf[d]])
<1>1. /\ JobOf[d] \in Producers
      /\ JobOf[d] \in Clips => source[d] # NoVideo /\ Sound(source[d], SourceOf[JobOf[d]])
  BY DEF MediaInv, BucketInv, Encoded
<1>2. source[d].by \in Jobs \cup {NoJob}
  <2>1. source[d] \in Videos \cup {NoVideo}
    BY DEF MediaInv, MediaTypeOK
  <2>2. QED
    BY <2>1 DEF Videos, NoVideo
<1>3. Output(d).by = JobOf[d] /\ Output(d).cut = source[d].by
  BY DEF Output
<1>4. JobOf[d] \in Clips => source[d].whole
  BY <1>1 DEF Sound
<1>5. Output(d).whole
  BY <1>4 DEF Output, Encoded
<1>6. Output(d) \in Videos
  BY <1>1, <1>2, ProducerFacts DEF Output, Videos
<1>7. Sound(Output(d), KeyOf[JobOf[d]])
  BY <1>1, <1>3, <1>5 DEF Sound
<1>8. QED
  BY <1>1, <1>6, <1>7

(* The bucket stays sound, and keeps what it has. *)
BucketKept ==
    /\ object' \in [Keys -> Videos \cup {NoVideo}]
    /\ \A k \in Keys : object'[k] # NoVideo => Sound(object'[k], k)
    /\ \A k \in Keys : object[k] # NoVideo => object'[k] # NoVideo

LEMMA UnchangedKept == ASSUME MediaInv, UNCHANGED object PROVE BucketKept
  BY DEF MediaInv, MediaTypeOK, BucketInv, BucketKept

LEMMA PutKept ==
    ASSUME MediaInv, NEW d \in Deliveries, pc[d] = "serving", Encoded(d), Put(d)
    PROVE  BucketKept /\ Delivered(JobOf[d])'
<1>1. KeyOf[JobOf[d]] \in Keys /\ Output(d) # NoVideo
  BY OutputSound, ProducerFacts
<1>2. object \in [Keys -> Videos \cup {NoVideo}]
  BY DEF MediaInv, MediaTypeOK
<1>3. \A k \in Keys : object'[k] = IF k = KeyOf[JobOf[d]] THEN Output(d) ELSE object[k]
  BY <1>2 DEF Put
<1>4. BucketKept
  BY <1>1, <1>2, <1>3, OutputSound DEF Put, BucketKept, MediaInv, BucketInv
<1>5. QED
  BY <1>1, <1>3, <1>4, OutputSound DEF Delivered

LEMMA DeliveredStays ==
    ASSUME BucketKept, NEW j, Delivered(j)
    PROVE  Delivered(j)'
  BY ProducerFacts DEF BucketKept, Delivered
-----------------------------------------------------------------------------
(* The invariant is kept by every step *)

(* The service ends: it returns with a video uploaded, or raises. *)
LEMMA EndOfService ==
    ASSUME TypeOK, MediaInv, NEW d \in Deliveries,
           Refuse(d) \/ Upload(d) \/ UploadRaises(d) \/ EncodeFails(d)
    PROVE  MediaInv'
<1>1. ServiceReturns(d) \/ ServiceRaises(d)
  BY DEF Refuse, Upload, UploadRaises, EncodeFails
<1>2. pc[d] = "serving"
  BY <1>1, ServicePlaces
<1>3. BucketKept /\ (ServiceReturns(d) => Delivered(JobOf[d])')
  <2>1. CASE UNCHANGED object /\ ~ServiceReturns(d)
    BY <2>1, UnchangedKept
  <2>2. CASE Put(d) /\ Encoded(d)
    BY <1>2, <2>2, PutKept
  <2>3. CASE UNCHANGED object /\ ServiceReturns(d)
    <3>1. ~ServiceRaises(d)
      BY <2>3 DEF ServiceReturns, ServiceRaises, Catch, Leave, TypeOK
    <3>2. Upload(d)
      BY <3>1 DEF Refuse, UploadRaises, EncodeFails
    <3>3. QED
      BY <1>2, <3>2, PutKept DEF Upload
  <2>4. QED
    BY <2>1, <2>2, <2>3 DEF Refuse, Upload, UploadRaises, EncodeFails, mediaVars
<1>4. encoder' = [encoder EXCEPT ![d] = "none"] /\ source' = [source EXCEPT ![d] = NoVideo]
  <2>1. CASE CleanUp(d)
    BY <2>1 DEF CleanUp
  <2>2. CASE Refuse(d)
    <3>1. encoder[d] = "none" /\ source[d] = NoVideo
      BY <2>2 DEF Refuse, MediaInv, MediaTypeOK
    <3>2. UNCHANGED <<encoder, source>>
      BY <2>2 DEF Refuse, mediaVars
    <3>3. QED
      BY <3>1, <3>2 DEF MediaInv, MediaTypeOK
  <2>3. QED
    BY <2>1, <2>2 DEF Upload, UploadRaises, EncodeFails
<1>5. MediaTypeOK'
  BY <1>1, <1>3, <1>4, ServicePlaces DEF MediaInv, MediaTypeOK, BucketKept
<1>6. OrphansAreTimeouts'
  BY <1>1, <1>4, ServicePlaces DEF MediaInv, MediaTypeOK, OrphansAreTimeouts
<1>7. BucketInv'
  BY <1>1, <1>3, <1>4, ServicePlaces DEF MediaInv, MediaTypeOK, BucketInv, BucketKept, Sound
<1>8. VerdictInv'
  BY <1>1, <1>3, ServicePlaces, DeliveredStays DEF MediaInv, VerdictInv
<1>9. QED
  BY <1>5, <1>6, <1>7, <1>8 DEF MediaInv

(* ffmpeg is spawned. *)
LEMMA BeginStep == ASSUME TypeOK, MediaInv, NEW d \in Deliveries, Begin(d) PROVE MediaInv'
<1>1. /\ pc[d] = "serving" /\ Encodable(JobOf[d]) /\ UNCHANGED <<vars, object>>
      /\ encoder' = [encoder EXCEPT ![d] = "running"]
      /\ source' = [source EXCEPT ![d] = IF JobOf[d] \in Clips THEN object[SourceOf[JobOf[d]]]
                                                               ELSE NoVideo]
  BY DEF Begin
<1>2. JobOf[d] \in Producers
  BY <1>1 DEF Encodable, Producers
<1>3. JobOf[d] \in Clips => /\ SourceOf[JobOf[d]] \in Keys
                            /\ object[SourceOf[JobOf[d]]] # NoVideo
  BY <1>1, <1>2, ProducerFacts, MediaAssumption DEF Encodable
<1>4. MediaTypeOK'
  BY <1>1, <1>3 DEF MediaInv, MediaTypeOK, vars
<1>5. OrphansAreTimeouts'
  BY <1>1 DEF MediaInv, MediaTypeOK, OrphansAreTimeouts, vars
<1>6. BucketInv'
  BY <1>1, <1>2, <1>3 DEF MediaInv, MediaTypeOK, BucketInv, Sound, vars
<1>7. VerdictInv'
  BY <1>1 DEF MediaInv, VerdictInv, Delivered, vars
<1>8. QED
  BY <1>4, <1>5, <1>6, <1>7 DEF MediaInv

(* ffmpeg ends. *)
LEMMA ExitStep == ASSUME TypeOK, MediaInv, NEW d \in Deliveries, EncoderExits(d) PROVE MediaInv'
<1>1. PICK code \in {"ok", "failed", "none"} :
          /\ code = "none" <=> pc[d] # "serving"
          /\ encoder' = [encoder EXCEPT ![d] = code]
          /\ encoder[d] = "running"
          /\ UNCHANGED <<vars, source, object>>
  BY DEF EncoderExits
<1>2. MediaTypeOK'
  BY <1>1 DEF MediaInv, MediaTypeOK, vars
<1>3. OrphansAreTimeouts'
  BY <1>1 DEF MediaInv, MediaTypeOK, OrphansAreTimeouts, vars
<1>4. BucketInv'
  BY <1>1 DEF MediaInv, MediaTypeOK, BucketInv, Sound, vars
<1>5. VerdictInv'
  BY <1>1 DEF MediaInv, VerdictInv, Delivered, vars
<1>6. QED
  BY <1>2, <1>3, <1>4, <1>5 DEF MediaInv

(* job_timeout cancels the handler. *)
LEMMA CancelStep == ASSUME TypeOK, MediaInv, NEW d \in Deliveries, Cancelled(d) PROVE MediaInv'
<1>1. /\ pc' = [pc EXCEPT ![d] = "raised"]
      /\ branch' \in {branch, [branch EXCEPT ![d] = "try"]}
      /\ UNCHANGED result
  BY DEF Cancelled, Timeout, Leave
<1>2. \A j \in Jobs : sent'[j]["completed"] > 0 =>
          \/ sent[j]["completed"] > 0
          \/ j = JobOf[d] /\ pc[d] = "announcing" /\ branch[d] = "try"
  <2>1. CASE UNCHANGED sent
    BY <2>1
  <2>2. CASE pc[d] = "announcing" /\ PublishNotification(d)
    <3>1. \A j \in Jobs : j # JobOf[d] => sent'[j] = sent[j]
      BY <2>2 DEF PublishNotification, TypeOK
    <3>2. branch[d] # "try" => \A j \in Jobs : sent'[j]["completed"] = sent[j]["completed"]
      BY <2>2 DEF PublishNotification, TypeOK, StatusOf, Statuses
    <3>3. QED
      BY <2>2, <3>1, <3>2
  <2>3. QED
    BY <2>1, <2>2 DEF Cancelled, Timeout
<1>3. /\ encoder' = [encoder EXCEPT ![d] = IF @ = "running" THEN @ ELSE "none"]
      /\ source' = [source EXCEPT ![d] = NoVideo]
      /\ UNCHANGED object
  BY DEF Cancelled
<1>4. MediaTypeOK'
  BY <1>1, <1>3 DEF TypeOK, MediaInv, MediaTypeOK
<1>5. OrphansAreTimeouts'
  BY <1>1, <1>3 DEF TypeOK, MediaInv, MediaTypeOK, OrphansAreTimeouts
<1>6. BucketInv'
  BY <1>1, <1>3 DEF TypeOK, MediaInv, MediaTypeOK, BucketInv, Sound
<1>7. VerdictInv'
  BY <1>1, <1>2, <1>3 DEF TypeOK, MediaInv, VerdictInv, Delivered
<1>8. QED
  BY <1>4, <1>5, <1>6, <1>7 DEF MediaInv

(* The envelope goes on around the service. *)
LEMMA AroundStep == ASSUME TypeOK, MediaInv, NEW d \in Deliveries, Around(d) PROVE MediaInv'
<1>1. UNCHANGED <<encoder, source, object>>
  BY DEF Around, mediaVars
<1>2. encoder[d] # "none" => pc[d] = "raised" /\ encoder[d] = "running"
  BY AroundPlaces DEF MediaInv, OrphansAreTimeouts
<1>3. MediaTypeOK'
  BY <1>1, AroundPlaces DEF MediaInv, MediaTypeOK
<1>4. OrphansAreTimeouts'
  BY <1>1, <1>2, AroundPlaces DEF MediaInv, OrphansAreTimeouts
<1>5. BucketInv'
  BY <1>1, <1>2, AroundPlaces DEF MediaInv, BucketInv, Sound
<1>6. VerdictInv'
  <2>1. \A j : Delivered(j)' <=> Delivered(j)
    BY <1>1 DEF Delivered
  <2>2. \A e \in Deliveries : pc'[e] \in {"storing", "announcing"} /\ branch'[e] = "try" =>
            Delivered(JobOf[e])
    BY AroundPlaces DEF MediaInv, VerdictInv
  <2>3. ASSUME NEW j \in Jobs, result'[j] = "completed" \/ sent'[j]["completed"] > 0
        PROVE  Delivered(j)
    BY <2>3, AroundVerdicts DEF MediaInv, VerdictInv
  <2>4. QED
    BY <2>1, <2>2, <2>3 DEF VerdictInv
<1>7. QED
  BY <1>3, <1>4, <1>5, <1>6 DEF MediaInv

(* The container stops and starts again. *)
LEMMA StopStep == ASSUME TypeOK, MediaInv, Stop PROVE MediaInv'
<1>1. /\ pc' = [d \in Deliveries |-> IF Held(d) THEN "queued" ELSE pc[d]]
      /\ UNCHANGED <<result, sent, object>>
      /\ encoder' = [d \in Deliveries |-> "none"]
      /\ source' = [d \in Deliveries |-> NoVideo]
  BY DEF Stop, Restart
<1>2. \A d \in Deliveries : pc'[d] \notin {"storing", "announcing"}
  BY <1>1 DEF Held, Live, InTry
<1>3. MediaTypeOK' /\ OrphansAreTimeouts'
  BY <1>1 DEF MediaInv, MediaTypeOK, OrphansAreTimeouts
<1>4. BucketInv'
  BY <1>1 DEF MediaInv, BucketInv, Sound
<1>5. VerdictInv'
  BY <1>1, <1>2 DEF MediaInv, VerdictInv, Delivered
<1>6. QED
  BY <1>3, <1>4, <1>5 DEF MediaInv

(* A result expires; nothing else happens, or nothing at all. *)
LEMMA IdleStep ==
    ASSUME TypeOK, MediaInv,
           (\E j \in Jobs : Expire(j) /\ UNCHANGED mediaVars) \/ UNCHANGED allVars
    PROVE  MediaInv'
<1>1. /\ UNCHANGED <<pc, branch, sent, encoder, source, object>>
      /\ \A j \in Jobs : result'[j] = "completed" => result[j] = "completed"
  BY EnvelopeAssumption DEF Expire, TypeOK, mediaVars, allVars, vars
<1>2. MediaTypeOK' /\ OrphansAreTimeouts'
  BY <1>1 DEF MediaInv, MediaTypeOK, OrphansAreTimeouts
<1>3. BucketInv'
  BY <1>1 DEF MediaInv, BucketInv, Sound
<1>4. VerdictInv'
  BY <1>1 DEF MediaInv, VerdictInv, Delivered
<1>5. QED
  BY <1>2, <1>3, <1>4 DEF MediaInv

LEMMA MediaInvariant == MediaSpec => []MediaInv
<1>1. MediaInit => MediaInv
  BY EnvelopeAssumption
     DEF MediaInit, Init, ZeroPerStatus, Statuses, MediaInv, MediaTypeOK,
         OrphansAreTimeouts, BucketInv, VerdictInv
<1>2. TypeOK /\ MediaInv /\ [MediaNext]_allVars => MediaInv'
  BY EndOfService, BeginStep, ExitStep, CancelStep, AroundStep, StopStep, IdleStep
     DEF MediaNext, Service
<1>3. QED
  BY <1>1, <1>2, EnvelopeTyped, PTL DEF MediaSpec
-----------------------------------------------------------------------------
(* The properties *)

(* The variables of the service keep their types; temporary directories go with *)
(* their handlers.                                                              *)
THEOREM MediaTypeCorrect == MediaSpec => []MediaTypeOK
<1>1. MediaInv => MediaTypeOK
  BY DEF MediaInv
<1>2. QED
  BY <1>1, MediaInvariant, PTL

(* The backend is never told of a completed job whose video is not in the bucket,  *)
(* with failing uploads, timeouts, restarts and results that expire.               *)
THEOREM CompletedVideosExist == MediaSpec => []CompletedHasItsVideo
<1>1. MediaInv => CompletedHasItsVideo
  BY DEF MediaInv, VerdictInv, Delivered, Producers, CompletedHasItsVideo, VideoOf
<1>2. QED
  BY <1>1, MediaInvariant, PTL

(* No video in the bucket was cut short or made for another key. *)
THEOREM BucketIsWhole == MediaSpec => []ObjectsAreWhole
<1>1. MediaInv => ObjectsAreWhole
  BY DEF MediaInv, BucketInv, Sound, Producers, ObjectsAreWhole
<1>2. QED
  BY <1>1, MediaInvariant, PTL

(* Every clip was cut from a video made for its replay_key. *)
THEOREM ClipsHaveTheirReplay == MediaSpec => []ClipsFollowTheirReplay
<1>1. ASSUME MediaInv, NEW c \in Clips, VideoOf(c).by = c
      PROVE  VideoOf(c).cut \in Replays \cup Clips /\ KeyOf[VideoOf(c).cut] = SourceOf[c]
  <2>1. KeyOf[c] \in Keys /\ c # NoJob
    BY MediaAssumption
  <2>2. VideoOf(c) # NoVideo
    BY <1>1, <2>1 DEF NoVideo
  <2>3. Sound(VideoOf(c), KeyOf[c])
    BY <1>1, <2>1, <2>2 DEF MediaInv, BucketInv, VideoOf
  <2>4. QED
    BY <1>1, <2>3 DEF Sound, Producers
<1>2. MediaInv => ClipsFollowTheirReplay
  BY <1>1 DEF ClipsFollowTheirReplay
<1>3. QED
  BY <1>2, MediaInvariant, PTL

(* An ffmpeg without a handler was left by job_timeout. *)
THEOREM OrphansComeFromTimeouts == MediaSpec => []OrphansAreTimeouts
<1>1. MediaInv => OrphansAreTimeouts
  BY DEF MediaInv
<1>2. QED
  BY <1>1, MediaInvariant, PTL
=============================================================================
