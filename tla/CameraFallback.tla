--------------------------- MODULE CameraFallback ---------------------------
(***************************************************************************)
(* main of testcamera.py: it tries the raw IMX219 stream, Picamera2 when   *)
(* asked to, and then every V4L2 device with OpenCV, each in a child       *)
(* process that reports to the parent through a queue.  A driver may hang, *)
(* a child may crash, and the time the parent allows may run out just as   *)
(* the first frame comes.  The raw stream itself is module RawCapture.     *)
(***************************************************************************)
EXTENDS Naturals, Sequences

CONSTANTS VideoDevices,  \* VIDEO_DEVICES, in the order in which they are tried
          NoDevice       \* no device is being tried

Devices == {VideoDevices[i] : i \in DOMAIN VideoDevices}

ASSUME DeviceAssumption ==
    /\ VideoDevices \in Seq(Devices) /\ NoDevice \notin Devices
    /\ \A i, j \in DOMAIN VideoDevices : VideoDevices[i] = VideoDevices[j] => i = j

VARIABLES gui,         \* has_gui_display()
          picamera2,   \* USE_PICAMERA2
          main,        \* where the parent is
          left,        \* the devices main has not come to
          current,     \* the device being tried
          child,       \* child[d]: where the child for device d is
          message,     \* message[d]: what its ready_queue holds
          terminated,  \* the devices whose child was sent SIGTERM
          framed,      \* the backends that gave a frame
          quit         \* TRUE when the user ended the display

parentVars == <<gui, picamera2, main, left, current>>
childVars  == <<child, message, framed, quit>>
vars == <<gui, picamera2, main, left, current, child, message, terminated, framed, quit>>

Probing == {"waiting", "closing", "watching"}
MainPC == {"raw", "picamera2", "opencv", "returned", "raised", "exited"} \cup Probing

Alive == {"opening", "reading", "drawing", "showing", "failing", "leaving"}
ChildPC == {"none", "gone"} \cup Alive

Init == /\ gui \in BOOLEAN /\ picamera2 \in BOOLEAN
        /\ main = "raw" /\ left = VideoDevices /\ current = NoDevice
        /\ child = [d \in Devices |-> "none"]
        /\ message = [d \in Devices |-> <<>>]
        /\ terminated = {} /\ framed = {} /\ quit = FALSE

MainGoto(from, to) == main = from /\ main' = to

-----------------------------------------------------------------------------
(* The first two backends *)

(* No v4l2-ctl, no /dev/video0, or media-ctl fails. *)
RawRaises == /\ MainGoto("raw", "picamera2")
             /\ UNCHANGED <<gui, picamera2, left, current, terminated, childVars>>

RawShows == /\ main = "raw"
            /\ framed' = framed \cup {"raw"}
            /\ UNCHANGED <<parentVars, child, message, terminated, quit>>

(* v4l2-ctl ends, or never gave a frame: with a display the loop just ends. *)
RawStreamEnds == /\ MainGoto("raw", "returned") /\ gui
                 /\ UNCHANGED <<gui, picamera2, left, current, terminated, childVars>>

(* 'q' in the window, which is polled after a frame; Ctrl+C in the server. *)
RawQuit == /\ MainGoto("raw", "returned")
           /\ gui => "raw" \in framed
           /\ quit' = TRUE
           /\ UNCHANGED <<gui, picamera2, left, current, terminated, child, message, framed>>

Picamera2Fails == /\ MainGoto("picamera2", "opencv")
                  /\ UNCHANGED <<gui, picamera2, left, current, terminated, childVars>>

Picamera2Quit == /\ MainGoto("picamera2", "returned") /\ picamera2
                 /\ framed' = framed \cup {"picamera2"} /\ quit' = TRUE
                 /\ UNCHANGED <<gui, picamera2, left, current, terminated, child, message>>

-----------------------------------------------------------------------------
(* The loop over VIDEO_DEVICES, and try_opencv_device *)

NoBackend == /\ main = "opencv" /\ (~gui \/ left = <<>>)
             /\ main' = "raised"
             /\ UNCHANGED <<gui, picamera2, left, current, terminated, childVars>>

SkipDevice == /\ main = "opencv" /\ gui /\ left # <<>>
              /\ left' = Tail(left)
              /\ UNCHANGED <<gui, picamera2, main, current, terminated, childVars>>

StartChild == /\ gui /\ left # <<>> /\ MainGoto("opencv", "waiting")
              /\ left' = Tail(left) /\ current' = Head(left)
              /\ child' = [child EXCEPT ![Head(left)] = "opening"]
              /\ UNCHANGED <<gui, picamera2, message, terminated, framed, quit>>

(* Mutant: any message counts as success. *)
TakeAnyMessage == /\ main = "waiting" /\ message[current] # <<>>
                  /\ main' = "watching"
                  /\ message' = [message EXCEPT ![current] = Tail(@)]
                  /\ UNCHANGED <<gui, picamera2, left, current, terminated, child, framed, quit>>

TakeMessage == /\ main = "waiting" /\ message[current] # <<>>
               /\ main' = IF Head(message[current]) = "ready" THEN "watching" ELSE "closing"
               /\ message' = [message EXCEPT ![current] = Tail(@)]
               /\ UNCHANGED <<gui, picamera2, left, current, terminated, child, framed, quit>>

(* Mutants: get has no timeout; the child is left running. *)
NoTimeout == main = "waiting" /\ message[current] # <<>> /\ UNCHANGED vars

TimeoutLeavesChild == /\ MainGoto("waiting", "closing") /\ message[current] = <<>>
                      /\ UNCHANGED <<gui, picamera2, left, current, terminated, childVars>>

(* Nothing within 8 seconds. *)
Timeout == /\ main = "waiting" /\ message[current] = <<>>
           /\ main' = "closing"
           /\ terminated' = terminated \cup {current}
           /\ UNCHANGED <<gui, picamera2, left, current, childVars>>

(* process.join(2): the child has ended, or two seconds have passed. *)
JoinBriefly == /\ MainGoto("closing", "opencv")
               /\ UNCHANGED <<gui, picamera2, left, current, terminated, childVars>>

(* process.join() *)
JoinChild == /\ main = "watching" /\ child[current] = "gone"
             /\ main' = "returned"
             /\ UNCHANGED <<gui, picamera2, left, current, terminated, childVars>>

(* main is left; multiprocessing first joins the children still alive, which *)
(* are no daemons.                                                           *)
Exit == /\ main \in {"returned", "raised"}
        /\ \A d \in Devices : child[d] \notin Alive
        /\ main' = "exited"
        /\ UNCHANGED <<gui, picamera2, left, current, terminated, childVars>>

-----------------------------------------------------------------------------
(* run_opencv_child and show_opencv_device *)

ChildGoto(d, from, to) == child[d] = from /\ child' = [child EXCEPT ![d] = to]

Opened(d) == /\ ChildGoto(d, "opening", "reading")
             /\ UNCHANGED <<parentVars, message, terminated, framed, quit>>

(* "ready" is put before the frame is drawn. *)
FirstFrame(d) == /\ ChildGoto(d, "reading", "drawing")
                 /\ message' = [message EXCEPT ![d] = Append(@, "ready")]
                 /\ framed' = framed \cup {d}
                 /\ UNCHANGED <<parentVars, terminated, quit>>

(* imshow and waitKey *)
FirstPicture(d) == /\ ChildGoto(d, "drawing", "showing")
                   /\ UNCHANGED <<parentVars, message, terminated, framed, quit>>

(* The device does not open, read returns no frame, or imshow fails. *)
Raises(d) == /\ child[d] \in {"opening", "reading", "drawing", "showing"}
             /\ child' = [child EXCEPT ![d] = "failing"]
             /\ UNCHANGED <<parentVars, message, terminated, framed, quit>>

ReportError(d) == /\ ChildGoto(d, "failing", "leaving")
                  /\ message' = [message EXCEPT ![d] = Append(@, "error")]
                  /\ UNCHANGED <<parentVars, terminated, framed, quit>>

ChildExit(d) == /\ ChildGoto(d, "leaving", "gone")
                /\ UNCHANGED <<parentVars, message, terminated, framed, quit>>

UserQuits(d) == /\ ChildGoto(d, "showing", "leaving")
                /\ quit' = TRUE
                /\ UNCHANGED <<parentVars, message, terminated, framed>>

(* OpenCV or the driver crashes, or SIGTERM takes effect; what the queue's    *)
(* feeder thread has not written yet is lost.                                *)
ChildDies(d) == /\ child[d] \in Alive
                /\ child' = [child EXCEPT ![d] = "gone"]
                /\ \E n \in 0..Len(message[d]) :
                     message' = [message EXCEPT ![d] = SubSeq(@, 1, n)]
                /\ UNCHANGED <<parentVars, terminated, framed, quit>>

-----------------------------------------------------------------------------
ParentStep == \/ NoBackend \/ SkipDevice \/ StartChild
              \/ TakeMessage \/ Timeout \/ JoinBriefly \/ JoinChild \/ Exit

Next == \/ RawRaises \/ RawShows \/ RawStreamEnds \/ RawQuit
        \/ Picamera2Fails \/ Picamera2Quit
        \/ ParentStep
        \/ \E d \in Devices : \/ Opened(d) \/ FirstFrame(d) \/ FirstPicture(d) \/ Raises(d)
                              \/ ReportError(d) \/ ChildExit(d) \/ UserQuits(d) \/ ChildDies(d)

Spec == Init /\ [][Next]_vars

(* The parent runs and time passes; a child may hang at any point but its    *)
(* end, and SIGTERM need not reach one that hangs in the driver.             *)
FairSpec == /\ Spec /\ WF_vars(ParentStep)
            /\ \A d \in Devices : WF_vars(ChildExit(d))

-----------------------------------------------------------------------------
(* The values each variable ranges over. *)
TypeOK == /\ gui \in BOOLEAN /\ picamera2 \in BOOLEAN
          /\ main \in MainPC
          /\ left \in Seq(Devices)
          /\ current \in Devices \cup {NoDevice}
          /\ main \in Probing => current \in Devices
          /\ child \in [Devices -> ChildPC]
          /\ message \in [Devices -> Seq({"ready", "error"})]
          /\ \A d \in Devices : Len(message[d]) <= 2
          /\ terminated \subseteq Devices
          /\ framed \subseteq Devices \cup {"raw", "picamera2"}
          /\ quit \in BOOLEAN

(* A child that main is no longer waiting for has been terminated or is      *)
(* ending by itself: no child that could open the camera for good is left    *)
(* behind when the next device is tried or main gives up                     *)
(* (try_opencv_device, testcamera.py:313-330).                               *)
LeftoversAreDying ==
    \A d \in Devices :
        child[d] \in Alive /\ ~(main \in Probing /\ d = current)
            => d \in terminated \/ child[d] = "leaving"

(* When main returns after a device, that device did give a frame, even if   *)
(* nobody saw it because the child failed or died right after it put         *)
(* "ready", and no child is left that has the device                         *)
(* (testcamera.py:153-157, 325-330, 359-361).                                *)
ReturnsAfterFrame ==
    main = "returned" /\ current # NoDevice
        => current \in framed /\ child[current] = "gone"

(* A device that hangs or crashes does not stop the search: the devices are  *)
(* tried until one gives a frame, or none is left.  In the second case the   *)
(* program ends, unless a child that was sent SIGTERM hangs in the driver    *)
(* and must be joined (testcamera.py:318-323, 354-378).                      *)
FallbackEnds ==
    main = "opencv" ~> \/ main \in {"exited", "watching"}
                       \/ main = "raised" /\ \E d \in terminated : child[d] \in Alive

(* main raises when no backend could produce frames (testcamera.py:366): it  *)
(* returns without the user having ended the display only after a frame.     *)
ReturnsOnlyWithFrames == main = "returned" /\ ~quit => framed # {}
=============================================================================
