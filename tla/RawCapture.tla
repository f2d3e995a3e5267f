----------------------------- MODULE RawCapture -----------------------------
(***************************************************************************)
(* The raw IMX219 stream of testcamera.py.  Every request for /video_feed, *)
(* and likewise the window of a machine with a display, runs the generator *)
(* iter_raw_frames: it starts a v4l2-ctl of its own, cuts what this writes *)
(* into its pipe into frames, and ends it when the viewer leaves or the    *)
(* stream ends.  Only one v4l2-ctl at a time can have the camera.          *)
(*                                                                         *)
(* The bytes a v4l2-ctl writes are numbered from 0, so a pipe is known by  *)
(* the numbers of bytes written and taken.  A stream may go on for ever:   *)
(* after every MaxFrames frames its bytes are numbered anew.               *)
(***************************************************************************)
EXTENDS Naturals, Sequences

CONSTANTS Requests,   \* the requests for /video_feed
          FrameBytes, \* RAW_FRAME_BYTES
          PipeSize,   \* bytes a pipe holds
          MaxFrames   \* frames after which bytes are numbered anew

ASSUME RawAssumption ==
    /\ FrameBytes \in Nat \ {0} /\ PipeSize \in Nat \ {0} /\ MaxFrames \in Nat \ {0}

VARIABLES client,  \* client[r]: where the thread of request r is
          proc,    \* proc[r]: its v4l2-ctl
          signal,  \* signal[r]: the signal sent to it
          written, \* written[r]: bytes it has written
          taken,   \* taken[r]: bytes taken from its pipe
          got,     \* got[r]: the bytes read_exact has
          sent,    \* sent[r]: the frames the viewer was sent of those now numbered
          gone,    \* the requests whose browser is gone, or 'q' was pressed
          left     \* those of them whose generator has noticed

procVars == <<proc, signal, written>>
readVars == <<taken, got, sent, gone, left>>
vars == <<client, proc, signal, written, taken, got, sent, gone, left>>

ClientPC == {"idle", "configuring", "reading", "decoded", "yielded", "closing",
             "waiting", "done", "refused"}
Live == {"starting", "streaming"}

Init == /\ client = [r \in Requests |-> "idle"]
        /\ proc = [r \in Requests |-> "none"]
        /\ signal = [r \in Requests |-> "none"]
        /\ written = [r \in Requests |-> 0] /\ taken = [r \in Requests |-> 0]
        /\ got = [r \in Requests |-> <<>>] /\ sent = [r \in Requests |-> <<>>]
        /\ gone = {} /\ left = {}

Goto(r, from, to) == client[r] = from /\ client' = [client EXCEPT ![r] = to]

-----------------------------------------------------------------------------
(* iter_raw_frames and generate_raw_stream *)

Request(r) == /\ Goto(r, "idle", "configuring")
              /\ UNCHANGED <<procVars, readVars>>

(* media-ctl fails, for instance because the camera is streaming. *)
ConfigureFails(r) == /\ Goto(r, "configuring", "refused")
                     /\ UNCHANGED <<procVars, readVars>>

Popen(r) == /\ Goto(r, "configuring", "reading")
            /\ proc' = [proc EXCEPT ![r] = "starting"]
            /\ UNCHANGED <<signal, written, readVars>>

Chunk(r, k) == [i \in 1..k |-> taken[r] + i - 1]

(* Mutants: one read for each frame, a short one being thrown away; or a     *)
(* short one taken for the end of the stream.                                *)
ReadOnce(r) ==
    /\ client[r] = "reading"
    /\ \E k \in 1..FrameBytes :
         /\ taken[r] + k <= written[r]
         /\ taken' = [taken EXCEPT ![r] = @ + k]
         /\ got' = [got EXCEPT ![r] = IF k = FrameBytes THEN Chunk(r, k) ELSE <<>>]
         /\ client' = [client EXCEPT ![r] = IF k = FrameBytes THEN "decoded" ELSE @]
    /\ UNCHANGED <<procVars, sent, gone, left>>

ReadShortEnds(r) ==
    /\ client[r] = "reading"
    /\ \E k \in 1..FrameBytes :
         /\ taken[r] + k <= written[r]
         /\ taken' = [taken EXCEPT ![r] = @ + k]
         /\ got' = [got EXCEPT ![r] = Chunk(r, k)]
         /\ client' = [client EXCEPT ![r] = IF k = FrameBytes THEN "decoded" ELSE "closing"]
    /\ UNCHANGED <<procVars, sent, gone, left>>

(* read returns what the pipe has, at most what read_exact still wants. *)
ReadExact(r) ==
    /\ client[r] = "reading"
    /\ \E k \in 1..(FrameBytes - Len(got[r])) :
         /\ taken[r] + k <= written[r]
         /\ taken' = [taken EXCEPT ![r] = @ + k]
         /\ got' = [got EXCEPT ![r] = @ \o Chunk(r, k)]
    /\ client' = [client EXCEPT ![r] = IF Len(got'[r]) = FrameBytes THEN "decoded" ELSE @]
    /\ UNCHANGED <<procVars, sent, gone, left>>

(* v4l2-ctl has ended and the pipe is empty: what is there of a frame is     *)
(* dropped.                                                                  *)
EndOfStream(r) == /\ Goto(r, "reading", "closing")
                  /\ proc[r] = "ended" /\ taken[r] = written[r]
                  /\ UNCHANGED <<procVars, readVars>>

YieldFrame(r) == /\ Goto(r, "decoded", "yielded")
                 /\ sent' = [sent EXCEPT ![r] = Append(@, got[r])]
                 /\ got' = [got EXCEPT ![r] = <<>>]
                 /\ UNCHANGED <<procVars, taken, gone, left>>

(* After the MaxFrames-th frame the numbers of bytes go down by as many; the *)
(* pipe holds what it held.                                                  *)
Renumber(r) ==
    LET horizon == MaxFrames * FrameBytes
    IN  IF taken[r] < horizon
        THEN UNCHANGED <<written, taken, sent>>
        ELSE /\ written' = [written EXCEPT ![r] = @ - horizon]
             /\ taken' = [taken EXCEPT ![r] = @ - horizon]
             /\ sent' = [sent EXCEPT ![r] = <<>>]

(* imencode does not succeed. *)
SkipFrame(r) == /\ Goto(r, "decoded", "reading")
                /\ got' = [got EXCEPT ![r] = <<>>]
                /\ Renumber(r)
                /\ UNCHANGED <<proc, signal, gone, left>>

(* The browser goes, or 'q' is pressed, at any moment. *)
ViewerGoes(r) == /\ client[r] \in {"configuring", "reading", "decoded", "yielded"}
                 /\ gone' = gone \cup {r}
                 /\ UNCHANGED <<client, procVars, taken, got, sent, left>>

(* To a browser that is gone, too, while the socket's buffer has room. *)
FrameSent(r) == /\ Goto(r, "yielded", "reading")
                /\ Renumber(r)
                /\ UNCHANGED <<proc, signal, got, gone, left>>

(* Mutant: no finally. *)
ViewerForgotten(r) == /\ Goto(r, "yielded", "done")
                      /\ r \in gone
                      /\ left' = left \cup {r}
                      /\ UNCHANGED <<procVars, taken, got, sent, gone>>

(* Only a frame that cannot be sent, or the waitKey after a frame, tells     *)
(* that the viewer is gone: GeneratorExit.                                   *)
ViewerLeft(r) == /\ Goto(r, "yielded", "closing")
                 /\ r \in gone
                 /\ left' = left \cup {r}
                 /\ UNCHANGED <<procVars, taken, got, sent, gone>>

Terminate(r) == /\ Goto(r, "closing", "waiting")
                /\ signal' = [signal EXCEPT ![r] = "term"]
                /\ UNCHANGED <<proc, written, readVars>>

WaitEnds(r) == /\ Goto(r, "waiting", "done")
               /\ proc[r] = "ended"
               /\ UNCHANGED <<procVars, readVars>>

(* Mutant: no kill. *)
WaitGivesUp(r) == /\ Goto(r, "waiting", "done")
                  /\ UNCHANGED <<procVars, readVars>>

(* Two seconds have passed. *)
WaitTimesOut(r) == /\ Goto(r, "waiting", "done")
                   /\ proc[r] # "ended"
                   /\ signal' = [signal EXCEPT ![r] = "kill"]
                   /\ UNCHANGED <<proc, written, readVars>>

-----------------------------------------------------------------------------
(* v4l2-ctl *)

GetsCamera(r) == /\ proc[r] = "starting"
                 /\ \A q \in Requests : proc[q] # "streaming"
                 /\ proc' = [proc EXCEPT ![r] = "streaming"]
                 /\ UNCHANGED <<client, signal, written, readVars>>

WriteBytes(r) == /\ proc[r] = "streaming"
                 /\ \E k \in 1..PipeSize :
                      /\ written[r] + k <= taken[r] + PipeSize
                      /\ written' = [written EXCEPT ![r] = @ + k]
                 /\ UNCHANGED <<client, proc, signal, readVars>>

(* The device is busy or fails, or SIGTERM takes effect: at any byte. *)
Ends(r) == /\ proc[r] \in Live
           /\ proc' = [proc EXCEPT ![r] = "ended"]
           /\ UNCHANGED <<client, signal, written, readVars>>

Killed(r) == signal[r] = "kill" /\ Ends(r)

-----------------------------------------------------------------------------
(* What the thread of a request does by itself once it has a v4l2-ctl. *)
ClientStep(r) == \/ ReadExact(r) \/ EndOfStream(r) \/ YieldFrame(r) \/ SkipFrame(r)
                 \/ FrameSent(r) \/ ViewerLeft(r)
                 \/ Terminate(r) \/ WaitEnds(r) \/ WaitTimesOut(r)

Next == \E r \in Requests :
            \/ Request(r) \/ ConfigureFails(r) \/ Popen(r)
            \/ ViewerGoes(r) \/ ClientStep(r)
            \/ GetsCamera(r) \/ WriteBytes(r) \/ Ends(r) \/ Killed(r)

Spec == Init /\ [][Next]_vars

(* Threads run, two seconds pass, imencode does not fail for ever, a gone     *)
(* browser's socket does not take frames for ever, and SIGKILL works.        *)
(* v4l2-ctl may hang, or go on sending and ignore SIGTERM, for ever.         *)
FairSpec == Spec /\ \A r \in Requests : /\ WF_vars(ClientStep(r))
                                        /\ SF_vars(YieldFrame(r)) /\ SF_vars(ViewerLeft(r))
                                        /\ WF_vars(Killed(r))

-----------------------------------------------------------------------------
(* The values each variable ranges over; a pipe is never overfull. *)
TypeOK == /\ client \in [Requests -> ClientPC]
          /\ proc \in [Requests -> {"none", "ended"} \cup Live]
          /\ signal \in [Requests -> {"none", "term", "kill"}]
          /\ written \in [Requests -> Nat] /\ taken \in [Requests -> Nat]
          /\ got \in [Requests -> Seq(Nat)]
          /\ sent \in [Requests -> Seq(Seq(Nat))]
          /\ gone \subseteq Requests /\ left \subseteq gone
          /\ \A r \in Requests : /\ taken[r] <= written[r]
                                 /\ written[r] <= taken[r] + PipeSize
                                 /\ Len(got[r]) <= FrameBytes

(* The bytes of the frame that begins with byte n. *)
FrameFrom(n) == [i \in 1..FrameBytes |-> n + i - 1]

StartsFrame(n) == \E f \in 0..n : n = f * FrameBytes

(* However the pipe cuts the bytes, what a viewer is shown are whole frames  *)
(* of the camera, each made of its own bytes and none twice                  *)
(* (read_exact and iter_raw_frames, testcamera.py:192-204, 242-247).         *)
WholeFrames ==
    \A r \in Requests : \A i \in DOMAIN sent[r] :
        /\ StartsFrame(sent[r][i][1]) /\ sent[r][i] = FrameFrom(sent[r][i][1])
        /\ \A j \in 1..(i - 1) : sent[r][j][1] < sent[r][i][1]

(* A stream ends under a viewer who stays only when its v4l2-ctl has ended   *)
(* and every byte it wrote was looked at: a short read is not the end        *)
(* (testcamera.py:196-200, 245).                                             *)
EndsWithProcess ==
    \A r \in Requests \ left :
        client[r] \in {"closing", "waiting", "done"}
            => proc[r] = "ended" /\ taken[r] = written[r]

(* No v4l2-ctl runs without a generator that reads from it or has told it to *)
(* end, whichever way the generator was left (testcamera.py:242-253).        *)
NoOrphan ==
    \A r \in Requests :
        proc[r] \in Live /\ client[r] \notin {"reading", "decoded", "yielded", "closing"}
            => signal[r] # "none"

(* A generator that was left gives the camera back, even when v4l2-ctl hangs *)
(* in the driver and SIGTERM does not reach it (testcamera.py:248-253).      *)
CameraReleased ==
    \A r \in Requests : client[r] = "closing" ~> proc[r] = "ended"

(* v4l2-ctl runs and has nothing to read. *)
Silent(r) == client[r] = "reading" /\ proc[r] \in Live /\ taken[r] = written[r]

(* A viewer who is gone does not keep the camera, unless its v4l2-ctl falls  *)
(* silent for good: read has no timeout, and nothing but a frame can tell    *)
(* that the browser is gone (testcamera.py:197, 242-253, 277-286).           *)
GoneViewerFreesCamera ==
    \A r \in Requests : []<>~Silent(r) => (r \in gone ~> proc[r] \in {"none", "ended"})
=============================================================================
