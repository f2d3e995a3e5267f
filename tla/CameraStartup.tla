--------------------------- MODULE CameraStartup ---------------------------
(***************************************************************************)
(* How main of picamera.py starts the camera process, decides from         *)
(* is_alive and status_queue whether the camera works, and serves or gives *)
(* up; and how the two processes end.  The capture loop itself is module   *)
(* FrameStream; here it only leaves frames behind that the exiting process *)
(* may have to wait for.                                                   *)
(*                                                                         *)
(* status_queue is unbounded and its messages are smaller than a pipe      *)
(* writes at once: a message waits in the worker's deque until the feeder  *)
(* thread writes it, and is then readable.                                 *)
(***************************************************************************)
EXTENDS Naturals, Sequences

VARIABLES worker,   \* where camera_worker is
          backlog,  \* TRUE when frames are queued that the pipe cannot take
          waiting,  \* messages put in status_queue and not yet written
          arrived,  \* messages main can read
          main,     \* where main is
          sigint    \* TRUE until the worker has taken the Ctrl+C

vars == <<worker, backlog, waiting, arrived, main, sigint>>

(* "starting": before camera.start() has returned; "started": the message is *)
(* not put yet; "failing": in the except block; "finally": in the finally    *)
(* block; "exiting": waiting for the feeder threads.                         *)
Unfailed == {"starting", "started", "capturing", "failing"}
Gone == {"exited", "killed"}
WorkerPC == Unfailed \cup {"finally", "exiting"} \cup Gone

(* "dead", "alive": reading messages after is_alive said so.  The verdicts:  *)
(* "refused" raises with the worker's own error, "vanished" says that the    *)
(* process exited, the others are Ctrl+C and the end of app.run.             *)
Deciding == {"sleep", "dead", "alive"}
Verdicts == {"refused", "vanished", "interrupted", "ended"}
MainPC == Deciding \cup {"serving"} \cup Verdicts

Messages == {"ok", "error"}

(* main starts the process and sleeps for three seconds. *)
Init == /\ worker = "starting" /\ backlog = FALSE
        /\ waiting = <<>> /\ arrived = <<>>
        /\ main = "sleep" /\ sigint = FALSE

Goto(from, to) == worker = from /\ worker' = to

-----------------------------------------------------------------------------
(* camera_worker *)

CameraStarts == /\ Goto("starting", "started")
                /\ UNCHANGED <<backlog, waiting, arrived, main, sigint>>

ReportStarted == /\ Goto("started", "capturing")
                 /\ waiting' = Append(waiting, "ok")
                 /\ UNCHANGED <<backlog, arrived, main, sigint>>

QueueFrame == /\ Goto("capturing", "capturing")
              /\ backlog' = TRUE
              /\ UNCHANGED <<waiting, arrived, main, sigint>>

(* The import, the camera or OpenCV raises. *)
CameraFails == /\ worker \in {"starting", "capturing"}
               /\ worker' = "failing"
               /\ UNCHANGED <<backlog, waiting, arrived, main, sigint>>

ReportError == /\ Goto("failing", "finally")
               /\ waiting' = Append(waiting, "error")
               /\ UNCHANGED <<backlog, arrived, main, sigint>>

(* camera.stop() may itself raise; the process exits all the same. *)
StopCamera == /\ Goto("finally", "exiting")
              /\ UNCHANGED <<backlog, waiting, arrived, main, sigint>>

(* A process that ends joins the feeder threads of its queues first. *)
WorkerExit == /\ Goto("exiting", "exited")
              /\ waiting = <<>> /\ ~backlog
              /\ UNCHANGED <<backlog, waiting, arrived, main, sigint>>

Die == /\ worker \notin Gone
       /\ worker' = "killed"
       /\ waiting' = <<>>
       /\ UNCHANGED <<backlog, arrived, main, sigint>>

(* The libcamera stack crashes. *)
WorkerCrash == Die

Feeder == /\ worker \notin Gone /\ waiting # <<>>
          /\ arrived' = Append(arrived, Head(waiting))
          /\ waiting' = Tail(waiting)
          /\ UNCHANGED <<worker, backlog, main, sigint>>

-----------------------------------------------------------------------------
(* main *)

(* Mutant: is_alive is not asked. *)
AssumeAlive == /\ main = "sleep" /\ main' = "alive"
               /\ UNCHANGED <<worker, backlog, waiting, arrived, sigint>>

CheckAlive == /\ main = "sleep"
              /\ main' = IF worker \in Gone THEN "dead" ELSE "alive"
              /\ UNCHANGED <<worker, backlog, waiting, arrived, sigint>>

(* Mutant: only one message of a process that is dead is looked at. *)
ReadFirstStatus == /\ main \in {"dead", "alive"} /\ arrived # <<>>
                   /\ arrived' = Tail(arrived)
                   /\ main' = IF Head(arrived) = "error" THEN "refused"
                              ELSE IF main = "dead" THEN "vanished" ELSE main
                   /\ UNCHANGED <<worker, backlog, waiting, sigint>>

ReadStatus == /\ main \in {"dead", "alive"} /\ arrived # <<>>
              /\ arrived' = Tail(arrived)
              /\ main' = IF Head(arrived) = "error" THEN "refused" ELSE main
              /\ UNCHANGED <<worker, backlog, waiting, sigint>>

(* status_queue.empty() *)
NoMoreStatus == /\ main \in {"dead", "alive"} /\ arrived = <<>>
                /\ main' = IF main = "dead" THEN "vanished" ELSE "serving"
                /\ UNCHANGED <<worker, backlog, waiting, arrived, sigint>>

(* A browser reads the frames. *)
BrowserReads == /\ main = "serving" /\ backlog
                /\ backlog' = FALSE
                /\ UNCHANGED <<worker, waiting, arrived, main, sigint>>

(* app.run cannot have the port. *)
PortTaken == /\ main = "serving"
             /\ main' = "ended"
             /\ UNCHANGED <<worker, backlog, waiting, arrived, sigint>>

(* Ctrl+C goes to both processes.  main takes it at its next bytecode,        *)
(* sooner than the worker can have unwound and exited.                        *)
CtrlC == /\ main \in Deciding \cup {"serving"}
         /\ main' = IF main = "serving" THEN "ended" ELSE "interrupted"
         /\ sigint' = TRUE
         /\ UNCHANGED <<worker, backlog, waiting, arrived>>

(* KeyboardInterrupt is no Exception: the except block is skipped. *)
WorkerInterrupted == /\ sigint /\ worker \notin Gone
                     /\ sigint' = FALSE
                     /\ worker' = CASE worker \in Unfailed  -> "finally"
                                    [] worker = "finally"   -> "exiting"
                                    [] worker = "exiting"   -> "killed"
                     /\ UNCHANGED <<backlog, waiting, arrived, main>>

(* Mutant: the process is no daemon, so main only waits for it. *)
JoinWorker == main \in Verdicts /\ worker \in Gone /\ UNCHANGED vars

(* A daemon process is terminated when main's process ends. *)
TerminateWorker == main \in Verdicts /\ Die

-----------------------------------------------------------------------------
MainStep == CheckAlive \/ ReadStatus \/ NoMoreStatus \/ TerminateWorker

WorkerStep == ReportStarted \/ ReportError \/ StopCamera \/ WorkerExit

Next == \/ MainStep
        \/ WorkerStep
        \/ Feeder
        \/ CameraStarts \/ QueueFrame \/ CameraFails \/ WorkerCrash
        \/ BrowserReads \/ PortTaken \/ CtrlC \/ WorkerInterrupted

Spec == Init /\ [][Next]_vars

(* Both processes and the feeder are scheduled, and three seconds pass.       *)
(* Nothing is assumed of the camera, the browsers or the user.                *)
FairSpec == Spec /\ WF_vars(MainStep) /\ WF_vars(WorkerStep) /\ WF_vars(Feeder)

-----------------------------------------------------------------------------
(* The values each variable ranges over; a worker reports twice at most. *)
TypeOK == /\ worker \in WorkerPC
          /\ backlog \in BOOLEAN
          /\ waiting \in Seq(Messages) /\ arrived \in Seq(Messages)
          /\ Len(waiting) + Len(arrived) <= 2
          /\ main \in MainPC
          /\ sigint \in BOOLEAN

(* The reason main gives is the true one: it says that the process vanished  *)
(* only if it was killed, never when it had an error of its own to report,   *)
(* and it reports an error only of a worker that failed                      *)
(* (picamera.py:192-207).                                                    *)
VerdictIsTrue ==
    /\ main = "vanished" => worker = "killed"
    /\ main = "refused" => worker \notin Unfailed

(* A camera process that is gone, or whose error message is readable, when   *)
(* the three seconds are over never leads to a server: main raises, unless   *)
(* the user interrupts it first (picamera.py:191-207).                       *)
FailureStopsStartup ==
    main = "sleep" /\ (worker \in Gone \/ \E i \in DOMAIN arrived : arrived[i] = "error")
        ~> main \in {"refused", "vanished", "interrupted"}

(* No camera process outlives main and keeps the camera from the next start, *)
(* even one that waits for a browser to take its frames (picamera.py:188).   *)
WorkerEndsWithMain == main \in Verdicts ~> worker \in Gone

(* main checks that the camera has started before it runs the Flask server   *)
(* (04_picamera_streaming.md:234-238).                                       *)
ServesStartedCamera ==
    [][main # "serving" /\ main' = "serving"
           => worker \in {"started", "capturing"}]_vars
=============================================================================
