---------------------------- MODULE MediaPipeline ----------------------------
(***************************************************************************)
(* The service behind process_media_job, composed with the envelope around *)
(* it: replays rendered from edit events and clips cut from replays, each  *)
(* encoded by an ffmpeg process of its own and uploaded to MinIO.          *)
(*                                                                         *)
(* A service call awaits nothing but ffmpeg: rendering, download and       *)
(* upload block the event loop, so that everything before the process is   *)
(* spawned is one step (Begin, Refuse) and everything after its exit up to *)
(* the return is another.  Cancellation while it is being spawned is       *)
(* Timeout before Begin (no process) or after it (a process).              *)
(*                                                                         *)
(* A cancelled handler removes its temporary directory and leaves ffmpeg   *)
(* running; whatever that encodes is in no directory any more.             *)
(***************************************************************************)
EXTENDS JobEnvelope

CONSTANTS
    Replays,   \* jobs whose payload is a ReplayPayload
    Clips,     \* jobs whose payload is a ClipPayload
    Empty,     \* replays without events
    Keys,      \* object names in the bucket
    KeyOf,     \* KeyOf[j]: replays/{submission_id}.mp4, clips/{submission_id}_{clip_type}.mp4
    SourceOf,  \* SourceOf[c]: the replay_key of clip c
    NoJob

\* Jobs of neither kind have an unknown job_type or a payload that is refused.
ASSUME MediaAssumption ==
    /\ Replays \subseteq Jobs /\ Clips \subseteq Jobs
    /\ Replays \cap Clips = {}
    /\ Empty \subseteq Replays
    /\ KeyOf \in [Replays \cup Clips -> Keys]
    /\ \A r \in Replays, c \in Clips : KeyOf[r] # KeyOf[c]
    /\ SourceOf \in [Clips -> Keys]
    /\ NoJob \notin Jobs

VARIABLES
    encoder,  \* encoder[d]: the ffmpeg process of delivery d
    source,   \* source[d]: what d has downloaded to cut from
    object    \* object[k]: what MinIO has under k

mediaVars == <<encoder, source, object>>
allVars == <<vars, mediaVars>>

\* A video: the job it was made for, the job whose video it was cut from, and
\* whether all of it was encoded, and all of what it was cut from.
Videos == [by : Jobs, cut : Jobs \cup {NoJob}, whole : BOOLEAN]
NoVideo == [by |-> NoJob, cut |-> NoJob, whole |-> FALSE]

MediaInit ==
    /\ Init
    /\ encoder = [d \in Deliveries |-> "none"]
    /\ source = [d \in Deliveries |-> NoVideo]
    /\ object = [k \in Keys |-> NoVideo]

-----------------------------------------------------------------------------
(* The service of one delivery. *)

\* What the temporary directory of d holds once ffmpeg has ended.
Output(d) ==
    LET j == JobOf[d]
    IN  [by |-> j, cut |-> source[d].by,
         whole |-> encoder[d] = "ok" /\ (j \in Clips => source[d].whole)]

\* Mutated form of CleanUp: the directory is made with mkdtemp and left behind.
CleanUpNothing(d) == encoder' = [encoder EXCEPT ![d] = "none"] /\ UNCHANGED source

\* The temporary directory is removed, the process is gone.
CleanUp(d) ==
    /\ encoder' = [encoder EXCEPT ![d] = "none"]
    /\ source' = [source EXCEPT ![d] = NoVideo]

\* Mutated form of Encodable: a download that fails is only logged.
EncodableUnchecked(j) == j \in (Replays \ Empty) \cup Clips

\* There is something to encode: at least one frame, or the replay was downloaded.
Encodable(j) ==
    \/ j \in Replays \ Empty
    \/ j \in Clips /\ object[SourceOf[j]] # NoVideo

\* Frames are rendered, or the replay is downloaded, and ffmpeg is spawned.
Begin(d) ==
    /\ pc[d] = "serving"
    /\ encoder[d] = "none"
    /\ Encodable(JobOf[d])
    /\ encoder' = [encoder EXCEPT ![d] = "running"]
    /\ source' = [source EXCEPT ![d] = IF JobOf[d] \in Clips THEN object[SourceOf[JobOf[d]]]
                                                             ELSE NoVideo]
    /\ UNCHANGED <<vars, object>>

\* The payload is refused, no frame, no source, or MinIO, the disk or the spawning fails.
Refuse(d) ==
    /\ encoder[d] = "none"
    /\ ServiceRaises(d)
    /\ UNCHANGED mediaVars

\* ffmpeg ends; the return code of one that nobody waits for is lost.
EncoderExits(d) ==
    /\ encoder[d] = "running"
    /\ \E code \in IF pc[d] = "serving" THEN {"ok", "failed"} ELSE {"none"} :
          encoder' = [encoder EXCEPT ![d] = code]
    /\ UNCHANGED <<vars, source, object>>

\* Mutated form of Encoded: the return code is not looked at.
EncodedAnyhow(d) == encoder[d] \in {"ok", "failed"}

\* communicate() has returned and the return code is 0.
Encoded(d) == encoder[d] = "ok"

Put(d) == object' = [object EXCEPT ![KeyOf[JobOf[d]]] = Output(d)]

\* Mutated form of Upload: ffmpeg is started and not waited for.
UploadEarly(d) ==
    /\ encoder[d] \in {"running", "ok"}
    /\ ServiceReturns(d)
    /\ Put(d)
    /\ UNCHANGED <<encoder, source>>

\* Mutated form of Upload: the service announces its video itself.
UploadAnnounced(d) ==
    /\ Encoded(d)
    /\ ServiceReturnsAnnounceFirst(d)
    /\ Put(d)
    /\ CleanUp(d)

\* The video is read and uploaded, and the service returns its MediaResult.
Upload(d) ==
    /\ Encoded(d)
    /\ ServiceReturns(d)
    /\ Put(d)
    /\ CleanUp(d)

\* Mutated form of UploadRaises: upload_file logs the error of MinIO and returns.
UploadSwallows(d) ==
    /\ Encoded(d)
    /\ ServiceReturns(d)
    /\ Put(d) \/ UNCHANGED object
    /\ CleanUp(d)

\* put_object raises; what it wrote may be there all the same.
UploadRaises(d) ==
    /\ Encoded(d)
    /\ ServiceRaises(d)
    /\ Put(d) \/ UNCHANGED object
    /\ CleanUp(d)

\* ffmpeg ended with an error: ProcessingError.
EncodeFails(d) ==
    /\ encoder[d] = "failed"
    /\ ServiceRaises(d)
    /\ CleanUp(d)
    /\ UNCHANGED object

Service(d) == \/ Begin(d) \/ Refuse(d) \/ EncoderExits(d)
              \/ Upload(d) \/ UploadRaises(d) \/ EncodeFails(d)

-----------------------------------------------------------------------------
(* What happens to the service from outside. *)

\* job_timeout cancels the handler: its directory goes, a running ffmpeg stays.
Cancelled(d) ==
    /\ Timeout(d)
    /\ encoder' = [encoder EXCEPT ![d] = IF @ = "running" THEN @ ELSE "none"]
    /\ source' = [source EXCEPT ![d] = NoVideo]
    /\ UNCHANGED object

\* The container stops, and ffmpeg with it; the bucket survives.
Stop ==
    /\ Restart
    /\ encoder' = [d \in Deliveries |-> "none"]
    /\ source' = [d \in Deliveries |-> NoVideo]
    /\ UNCHANGED object

\* The steps of the envelope in which the service has no part.
Around(d) ==
    /\ \/ Arq(d) \/ Progress(d)
       \/ CheckRaises(d) \/ StoreRaises(d) \/ AnnounceRaises(d)
    /\ UNCHANGED mediaVars

MediaNext ==
    \/ \E d \in Deliveries : Service(d) \/ Cancelled(d) \/ Around(d)
    \/ Stop
    \/ \E j \in Jobs : Expire(j) /\ UNCHANGED mediaVars

MediaSpec == MediaInit /\ [][MediaNext]_allVars
-----------------------------------------------------------------------------
(* Properties *)

\* The type of the variables the service adds; a temporary directory with a downloaded
\* replay in it belongs to a handler that is cutting a clip from it, however it ends.
MediaTypeOK ==
    /\ encoder \in [Deliveries -> {"none", "running", "ok", "failed"}]
    /\ source \in [Deliveries -> Videos \cup {NoVideo}]
    /\ object \in [Keys -> Videos \cup {NoVideo}]
    /\ \A d \in Deliveries : source[d] # NoVideo =>
          pc[d] = "serving" /\ encoder[d] # "none" /\ JobOf[d] \in Clips

\* What the bucket has under the key of a job.
VideoOf(j) == object[KeyOf[j]]

\* Who is told that a job is completed, by its result or by a notification, finds
\* its video in the bucket, even if that result was overwritten or has expired.
CompletedHasItsVideo ==
    \A j \in Jobs : result[j] = "completed" \/ sent[j]["completed"] > 0 =>
        j \in Replays \cup Clips /\ VideoOf(j) # NoVideo

\* Whatever fails, is cancelled or restarted half-way, the bucket holds no video that
\* was cut short, made for another key, or cut from one that was cut short.
ObjectsAreWhole ==
    \A k \in Keys : object[k] # NoVideo =>
        /\ object[k].whole
        /\ object[k].by \in (Replays \ Empty) \cup Clips
        /\ KeyOf[object[k].by] = k

\* A clip that reaches its queue before the replay is uploaded is not made from
\* nothing: every clip was cut from a video made for its replay_key.
ClipsFollowTheirReplay ==
    \A c \in Clips : VideoOf(c).by = c =>
        /\ VideoOf(c).cut \in Replays \cup Clips
        /\ KeyOf[VideoOf(c).cut] = SourceOf[c]

\* An ffmpeg that has lost its handler was left by job_timeout, whose delivery is
\* not started again: none encodes behind a stored result or beside a second attempt.
OrphansAreTimeouts ==
    \A d \in Deliveries : encoder[d] # "none" =>
        \/ pc[d] = "serving"
        \/ pc[d] \in {"raised", "errored"} /\ encoder[d] = "running"

\* The pipeline keeps to the envelope: what JobEnvelope promises of any service it
\* promises of this one, whose failures and cancellations come in the midst of it.
EnvelopeSpec == Spec
-----------------------------------------------------------------------------
(* The inductive strengthening of the proofs (MediaPipelineProofs). *)

Producers == (Replays \ Empty) \cup Clips

\* A whole video made for key k, and if it is a clip, from its replay_key.
Sound(v, k) ==
    /\ v.whole
    /\ v.by \in Producers
    /\ KeyOf[v.by] = k
    /\ v.by \in Clips => v.cut \in Producers /\ KeyOf[v.cut] = SourceOf[v.by]

BucketInv ==
    /\ \A k \in Keys : object[k] # NoVideo => Sound(object[k], k)
    /\ \A d \in Deliveries : source[d] # NoVideo => Sound(source[d], SourceOf[JobOf[d]])
    /\ \A d \in Deliveries : pc[d] = "serving" /\ encoder[d] # "none" =>
          JobOf[d] \in Producers /\ (JobOf[d] \in Clips => source[d] # NoVideo)

\* The service of a job has returned: its video is in the bucket.
Delivered(j) == j \in Producers /\ object[KeyOf[j]] # NoVideo

VerdictInv ==
    /\ \A d \in Deliveries :
          pc[d] \in {"storing", "announcing"} /\ branch[d] = "try" => Delivered(JobOf[d])
    /\ \A j \in Jobs : result[j] = "completed" \/ sent[j]["completed"] > 0 => Delivered(j)

MediaInv == MediaTypeOK /\ OrphansAreTimeouts /\ BucketInv /\ VerdictInv
=============================================================================
