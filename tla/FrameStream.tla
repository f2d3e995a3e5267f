---------------------------- MODULE FrameStream ----------------------------
(***************************************************************************)
(* The video path of picamera.py: camera_worker runs in a process of its   *)
(* own and hands JPEG frames to put_latest_frame; one Flask thread per     *)
(* connected browser runs generate_stream.  They meet in frame_queue (see  *)
(* module MpQueue).  A frame is represented by its number in the order of  *)
(* encoding; a frame imencode rejects (ok = False) gets no number.  The    *)
(* frame the worker is trying to queue is always frame number `captured'.  *)
(***************************************************************************)
EXTENDS MpQueue

CONSTANTS Viewers,   \* the browser connections, each served by a thread
          Worker,    \* the camera process
          MaxFrame   \* bound on the number of frames encoded

ASSUME StreamAssumption == /\ Worker \notin Viewers
                           /\ NoOne \notin Viewers \cup {Worker}
                           /\ MaxFrame \in Nat

VARIABLES captured,  \* number of frames encoded so far
          pc,        \* where each thread is
          shown      \* shown[v]: the last frame read by viewer v

vars == <<sem, buffer, sending, partial, pipe, rlock, captured, pc, shown>>

Readers == Viewers \cup {Worker}

(* Between LockReader and UnlockReader a thread is inside Queue.get. *)
Reading == {"poll", "recv", "release", "unlock"}

(* The worker is inside put_latest_frame with a frame it has not queued. *)
Putting == {"full", "get", "put", "append"} \cup Reading

WorkerPC == {"capture", "exiting", "exited", "killed"} \cup Putting

ViewerPC == {"off", "get", "yield"} \cup Reading

Gone == {"exited", "killed"}

Goto(t, from, to) == pc[t] = from /\ pc' = [pc EXCEPT ![t] = to]

Init == /\ QueueInit
        /\ captured = 0
        /\ pc = [t \in Readers |-> IF t = Worker THEN "capture" ELSE "off"]
        /\ shown = [v \in Viewers |-> 0]

-----------------------------------------------------------------------------
(* camera_worker and put_latest_frame *)

(* Mutant: the result of imencode is not looked at, and when it failed the   *)
(* previous JPEG is queued once more.                                        *)
EncodeFrameUnchecked == /\ captured < MaxFrame
                        /\ Goto(Worker, "capture", "full")
                        /\ captured' \in {captured, captured + 1} \ {0}
                        /\ UNCHANGED <<queueVars, shown>>

EncodeFrame == /\ captured < MaxFrame
               /\ Goto(Worker, "capture", "full")
               /\ captured' = captured + 1
               /\ UNCHANGED <<queueVars, shown>>

(* Mutant: a full queue drops the new frame instead of the oldest one. *)
CheckFullDropNewest == /\ Goto(Worker, "full", IF IsFull THEN "capture" ELSE "put")
                       /\ UNCHANGED <<queueVars, captured, shown>>

(* while frame_queue.full() *)
CheckFull == /\ Goto(Worker, "full", IF IsFull THEN "get" ELSE "put")
             /\ UNCHANGED <<queueVars, captured, shown>>

(* get_nowait() raises Empty at once when another reader holds the lock; the *)
(* handler breaks out of the loop.                                           *)
GetNowaitBusy == /\ rlock # NoOne
                 /\ Goto(Worker, "get", "put")
                 /\ UNCHANGED <<queueVars, captured, shown>>

(* frame_queue.put(jpeg_frame), without a timeout *)
PutWait == /\ AcquireSlot
           /\ Goto(Worker, "put", "append")
           /\ UNCHANGED <<captured, shown>>

(* Mutant: a slot is taken, but the frame is not queued. *)
PutAppendNothing == /\ Goto(Worker, "append", "capture")
                    /\ UNCHANGED <<queueVars, captured, shown>>

PutAppend == /\ Enqueue(captured)
             /\ Goto(Worker, "append", "capture")
             /\ UNCHANGED <<captured, shown>>

(* An exception of the camera or of OpenCV ends the loop. *)
CameraError == /\ Goto(Worker, "capture", "exiting")
               /\ UNCHANGED <<queueVars, captured, shown>>

(* Mutant: the process does not wait for its feeder thread. *)
WorkerExitAtOnce == /\ Goto(Worker, "exiting", "exited")
                    /\ UNCHANGED <<queueVars, captured, shown>>

(* On its way out the process waits for its feeder thread to flush the deque. *)
WorkerExit == /\ Flushed
              /\ Goto(Worker, "exiting", "exited")
              /\ UNCHANGED <<queueVars, captured, shown>>

(* The libcamera stack takes the whole process down, wherever it is. *)
WorkerCrash == /\ pc[Worker] \notin Gone
               /\ pc' = [pc EXCEPT ![Worker] = "killed"]
               /\ LoseWriter
               /\ UNCHANGED <<captured, shown>>

-----------------------------------------------------------------------------
(* The feeder thread of the camera process *)

Feeder == /\ pc[Worker] \notin Gone
          /\ \/ FeederTake
             \/ FeederStart
             \/ FeederFinish(\E t \in Readers : pc[t] = "recv")
          /\ UNCHANGED <<captured, pc, shown>>

-----------------------------------------------------------------------------
(* frame_queue.get_nowait() in the worker and frame_queue.get(timeout=1) in a *)
(* viewer share these steps.                                                  *)

GetLock(t) == /\ LockReader(t)
              /\ Goto(t, "get", "poll")
              /\ UNCHANGED <<captured, shown>>

(* Mutant: the frame is received without polling first. *)
GetUnpolled(t) == /\ Goto(t, "poll", "recv")
                  /\ UNCHANGED <<queueVars, captured, shown>>

GetReady(t) == /\ HasData
               /\ Goto(t, "poll", "recv")
               /\ UNCHANGED <<queueVars, captured, shown>>

(* Mutant: Empty is raised with the lock held. *)
GetEmptyLocked(t) == /\ ~HasData
                     /\ Goto(t, "poll", IF t = Worker THEN "put" ELSE "get")
                     /\ UNCHANGED <<queueVars, captured, shown>>

GetEmpty(t) == /\ ~HasData
               /\ UnlockReader
               /\ Goto(t, "poll", IF t = Worker THEN "put" ELSE "get")
               /\ UNCHANGED <<captured, shown>>

GetReceive(t) == /\ Receive
                 /\ Goto(t, "recv", "release")
                 /\ shown' = IF t = Worker THEN shown
                                           ELSE [shown EXCEPT ![t] = Head(pipe)]
                 /\ UNCHANGED captured

GetRelease(t) == /\ ReleaseSlot
                 /\ Goto(t, "release", "unlock")
                 /\ UNCHANGED <<captured, shown>>

(* Mutant: the frame the worker took out is sent on as in a viewer. *)
GetUnlockYield(t) == /\ UnlockReader
                     /\ Goto(t, "unlock", "yield")
                     /\ UNCHANGED <<captured, shown>>

GetUnlock(t) == /\ UnlockReader
                /\ Goto(t, "unlock", IF t = Worker THEN "full" ELSE "yield")
                /\ UNCHANGED <<captured, shown>>

(* A viewer that cannot have the lock within its second catches Empty and     *)
(* tries again: the whole step is a `continue'.                               *)
GetTimeout(v) == /\ pc[v] = "get" /\ rlock # NoOne
                 /\ UNCHANGED vars

Get(t) == \/ GetLock(t) \/ GetReady(t) \/ GetEmpty(t)
          \/ GetReceive(t) \/ GetRelease(t) \/ GetUnlock(t)

-----------------------------------------------------------------------------
(* video_feed and generate_stream: a viewer that went away is only noticed   *)
(* when the next frame is written to its socket.                             *)

Connect(v) == /\ Goto(v, "off", "get")
              /\ UNCHANGED <<queueVars, captured, shown>>

FrameSent(v) == /\ Goto(v, "yield", "get")
                /\ UNCHANGED <<queueVars, captured, shown>>

Disconnected(v) == /\ Goto(v, "yield", "off")
                   /\ UNCHANGED <<queueVars, captured, shown>>

-----------------------------------------------------------------------------
(* The part of the worker that does not wait for the camera. *)
WorkerStep == \/ CheckFull \/ GetNowaitBusy \/ PutWait \/ PutAppend
              \/ WorkerExit \/ Get(Worker)

Next == \/ EncodeFrame
        \/ WorkerStep
        \/ CameraError
        \/ WorkerCrash
        \/ Feeder
        \/ \E v \in Viewers : \/ Get(v) \/ GetTimeout(v)
                              \/ Connect(v) \/ FrameSent(v) \/ Disconnected(v)

Spec == Init /\ [][Next]_vars

(* The operating system schedules every thread that can run.  Nothing is     *)
(* assumed of the camera, of browsers, or of who wins a contended lock.      *)
Fairness == /\ WF_vars(WorkerStep)
            /\ WF_vars(Feeder)
            /\ \A v \in Viewers : WF_vars(Get(v))

FairSpec == Spec /\ Fairness

-----------------------------------------------------------------------------
(* The values each variable ranges over. *)
TypeOK == /\ sem \in Nat
          /\ buffer \in Seq(Nat)
          /\ sending \in Seq(Nat) /\ Len(sending) <= 1
          /\ partial \in BOOLEAN
          /\ pipe \in Seq(Nat)
          /\ rlock \in Readers \cup {NoOne}
          /\ captured \in Nat
          /\ pc \in [Readers -> WorkerPC \cup ViewerPC]
          /\ pc[Worker] \in WorkerPC
          /\ \A v \in Viewers : pc[v] \in ViewerPC
          /\ shown \in [Viewers -> Nat]

(* At most one thread is inside the locked part of Queue.get, and it is the  *)
(* holder of the lock; the lock is orphaned only by a crash of the worker    *)
(* inside get_nowait (picamera.py:124).                                      *)
LockDiscipline ==
    /\ \A t \in Readers : pc[t] \in Reading => rlock = t
    /\ \A v \in Viewers : rlock = v => pc[v] \in Reading
    /\ rlock = Worker => pc[Worker] \in Reading \cup {"killed"}

(* Slots held by a thread that has read an object and not yet given its slot *)
(* back, or that has taken a slot and not yet filled it.                     *)
SlotsInHand == (IF \E t \in Readers : pc[t] = "release" THEN 1 ELSE 0)
               + (IF pc[Worker] = "append" THEN 1 ELSE 0)

(* Slots are neither created nor lost: every slot of frame_queue is free, in *)
(* the hand of one thread, or occupied by one frame.  So the semaphore never *)
(* exceeds its bound (which would raise ValueError in a Flask thread) and    *)
(* full() is exact.  Only a crash of the camera process may leak slots.      *)
SlotsConserved ==
    /\ sem + Len(InFlight) + SlotsInHand <= Capacity
    /\ pc[Worker] # "killed" => sem + Len(InFlight) + SlotsInHand = Capacity

(* A camera process that ends by an exception leaves frame_queue usable: all *)
(* frames it queued are readable, no frame is cut off in the middle, and the *)
(* readers' lock is not left behind (camera_worker, picamera.py:154-158).    *)
CleanExit ==
    pc[Worker] = "exited" => Flushed /\ ~partial /\ rlock # Worker

(* A reader that found bytes in the pipe gets the rest of the frame: there   *)
(* is a whole frame, or the feeder still holds the one it began to write.    *)
(* Otherwise the thread would block in recv holding the lock for all others. *)
ReaderIsServed ==
    \A t \in Readers : pc[t] = "recv" =>
        pipe # <<>> \/ sending # <<>> \/ pc[Worker] = "killed"

-----------------------------------------------------------------------------
(* The stream implements LatestFrames: the abstract queue is everything in    *)
(* flight, and the frame in the worker's hand is not offered yet.             *)
Offered == IF pc[Worker] \in Putting THEN captured - 1 ELSE captured

Latest == INSTANCE LatestFrames
            WITH queue <- InFlight, offered <- Offered,
                 running <- (pc[Worker] # "killed")

(* Every behaviour of the worker, the feeder and the viewers is one of the   *)
(* abstract stream: frames are dropped only from the old end and only for a  *)
(* newer one, and each remaining frame reaches one viewer, in order.         *)
ImplementsLatestFrames == Latest!Spec

(* What is in flight is never older than the newest Capacity + 1 frames.     *)
FreshInFlight == Latest!Fresh

(* Viewers never see a frame twice nor out of order, across all browsers.    *)
InOrder == Latest!DeliveredInOrder

(* A Flask thread that started to read a frame gets it, unless the camera    *)
(* process crashed: no thread keeps the readers' lock for ever.              *)
ReadersReturn ==
    \A v \in Viewers : pc[v] \in Reading
                          ~> (pc[v] \notin Reading \/ pc[Worker] = "killed")

(* A browser that is waiting for a frame frees a worker that waits in        *)
(* frame_queue.put (picamera.py:128): the capture loop goes on.              *)
ViewerFreesWorker ==
    \A v \in Viewers : (pc[Worker] = "put" /\ pc[v] \in {"get", "poll", "recv", "release"})
                          ~> pc[Worker] # "put"

(* put_latest_frame, when the queue is full, discards the oldest frame and   *)
(* stores the newest one (04_picamera_streaming.md:172): it always returns.  *)
PutLatestFrameReturns ==
    pc[Worker] \in Putting ~> pc[Worker] \notin Putting
=============================================================================
