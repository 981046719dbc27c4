---------------------------- MODULE ReplayFrames ----------------------------
(***************************************************************************)
(* The frames of a replay: the edit events of a submission folded into the *)
(* text each frame shows, by render_frames_to_dir or, without Pillow, by   *)
(* its textual twin, and the rate they are encoded at.                     *)
(*                                                                         *)
(* A character is a mark <<event, offset>>: what it looks like is left     *)
(* out, where it comes from is not.                                        *)
(***************************************************************************)
EXTENDS Integers, Sequences, FiniteSetsExt

CONSTANT Sessions  \* the payloads: [events, duration]

\* An event has a type, the size of its content, and in count the number of characters to
\* delete, whatever its sign, or none when the field is missing.
EditEvent ==
    {e \in [type : STRING, size : Nat, count : SUBSET Int] : \A m, n \in e.count : m = n}

ASSUME SessionsAssumption ==
    \A s \in Sessions : s.events \in Seq(EditEvent) /\ s.duration \in Int

VARIABLES
    session,     \* the payload of the job
    text,        \* code_state
    frames,      \* what the frames written so far show
    video,       \* the seconds of video are video.frames / video.rate
    replayStage  \* idle, rendering, encoded or failed

replayVars == <<session, text, frames, video, replayStage>>

NoSession == [events |-> <<>>, duration |-> 0]
NoVideo == [frames |-> 0, rate |-> 1]

ReplayIdle ==
    session = NoSession /\ text = <<>> /\ frames = <<>> /\ video = NoVideo /\ replayStage = "idle"

ReplayInit ==
    /\ session \in Sessions
    /\ text = <<>>
    /\ frames = <<>>
    /\ video = NoVideo
    /\ replayStage = "rendering"

Marks(k) == [o \in 1 .. session.events[k].size |-> <<k, o>>]

Count(e) == IF e.count = {} THEN e.size ELSE Min(e.count)

\* Mutated form of Chop: text[:-n], which is empty for n = 0.
ChopUnguarded(s, n) ==
    IF n >= 0 THEN SubSeq(s, 1, IF n = 0 THEN 0 ELSE Len(s) - n)
              ELSE SubSeq(s, 1, Min({-n, Len(s)}))

\* text[:-n] if n else text: a negative n keeps the first -n characters.
Chop(s, n) ==
    IF n >= 0 THEN SubSeq(s, 1, Len(s) - n) ELSE SubSeq(s, 1, Min({-n, Len(s)}))

\* The text after event k.
Edited(k) ==
    LET e == session.events[k]
    IN  CASE e.type = "insert" -> text \o Marks(k)
          [] e.type = "delete" -> Chop(text, Count(e))
          [] e.type \in {"replace", "snapshot"} -> Marks(k)
          [] OTHER -> text

\* Mutated form of Render: the frame is drawn before the event is applied.
RenderBefore ==
    /\ replayStage = "rendering"
    /\ Len(frames) < Len(session.events)
    /\ text' = Edited(Len(frames) + 1)
    /\ frames' = Append(frames, text)
    /\ UNCHANGED <<session, video, replayStage>>

\* One event, one frame, whatever the event is.
Render ==
    /\ replayStage = "rendering"
    /\ Len(frames) < Len(session.events)
    /\ text' = Edited(Len(frames) + 1)
    /\ frames' = Append(frames, text')
    /\ UNCHANGED <<session, video, replayStage>>

Speedup == 10
Target == Max({5, session.duration \div Speedup})

\* Mutated form of InputFps: frames per second of the session, not of the replay.
InputFpsUnscaled == Max({1, Len(frames) \div Max({5, session.duration})})

InputFps == Max({1, Len(frames) \div Target})

\* The images at that rate, or a plain background of the same length in whole seconds.
Encode ==
    /\ replayStage = "rendering"
    /\ frames # <<>>
    /\ Len(frames) = Len(session.events)
    /\ video' \in {[frames |-> Len(frames), rate |-> InputFps],
                   [frames |-> Max({5, Len(frames) \div InputFps}), rate |-> 1]}
    /\ replayStage' = "encoded"
    /\ UNCHANGED <<session, text, frames>>

\* No event, no frame: ProcessingError.
NothingToRender ==
    /\ replayStage = "rendering"
    /\ session.events = <<>>
    /\ replayStage' = "failed"
    /\ UNCHANGED <<session, text, frames, video>>

ReplayNext == Render \/ Encode \/ NothingToRender

ReplaySpec == ReplayInit /\ [][ReplayNext]_replayVars
-----------------------------------------------------------------------------
(* Properties *)

\* Frames are numbered without a gap, one for each event so far; the text is the last one's.
ReplayTypeOK ==
    /\ session \in Sessions \/ session = NoSession
    /\ Len(frames) <= Len(session.events)
    /\ frames \in Seq(Seq((1 .. Len(session.events)) \X Nat))
    /\ text = IF frames = <<>> THEN <<>> ELSE frames[Len(frames)]
    /\ video \in [frames : Nat, rate : Nat \ {0}]
    /\ replayStage \in {"idle", "rendering", "encoded", "failed"}

\* How long a text of x characters is after event k, from its size and count alone.
NextHeight(k, x) ==
    LET e == session.events[k]
    IN  CASE e.type = "insert" -> x + e.size
          [] e.type = "delete" -> IF Count(e) < 0 THEN Min({x, -Count(e)})
                                                  ELSE Max({x - Count(e), 0})
          [] e.type \in {"replace", "snapshot"} -> e.size
          [] OTHER -> x

Height ==
    LET h[k \in 0 .. Len(session.events)] == IF k = 0 THEN 0 ELSE NextHeight(k, h[k - 1])
    IN  h

Rewrites(j) == session.events[j].type \in {"replace", "snapshot"}

\* The mark <<j, o>>, typed by event j, is at position p of the text after event k: it was
\* typed there, and no event since has replaced the text or cut it shorter than that.
ShownAt(p, j, o, k) ==
    /\ j <= k
    /\ o \in 1 .. session.events[j].size
    /\ \/ session.events[j].type = "insert" /\ p = Height[j - 1] + o
       \/ Rewrites(j) /\ p = o
    /\ \A i \in j + 1 .. k : ~Rewrites(i) /\ Height[i] >= p

\* A frame shows what the editor showed: each of its characters has been typed where it
\* stands and has not been deleted or replaced since, and there is no other. Deletes of
\* nothing, of more than there is, or with a negative count included.
FramesShowTheEdits ==
    \A k \in DOMAIN frames :
        /\ Len(frames[k]) = Height[k]
        /\ \A p \in DOMAIN frames[k] : ShownAt(p, frames[k][p][1], frames[k][p][2], k)

\* The video is less than twice as long as the session at ten times its speed (or five
\* seconds), whatever the integer divisions lose, and it is as long at least if there is
\* a frame for every second of it.
ReplayLengthBounded ==
    replayStage = "encoded" =>
        /\ video.frames < 2 * Target * video.rate
        /\ Len(frames) >= Target => video.frames >= Target * video.rate
=============================================================================
