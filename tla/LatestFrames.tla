---------------------------- MODULE LatestFrames ----------------------------
(***************************************************************************)
(* What the frame stream of picamera.py promises a viewer, without saying  *)
(* how: a short queue of the newest frames.  Frames are numbered in the    *)
(* order in which they were encoded.  A frame may be dropped, but only     *)
(* from the old end and only while a newer one is waiting to be queued;    *)
(* every other frame goes to exactly one viewer, in order.                 *)
(***************************************************************************)
EXTENDS Naturals, Sequences

CONSTANTS Viewers,   \* who may be given a frame
          Capacity   \* how many frames are queued at most

VARIABLES captured,  \* the number of the newest encoded frame
          offered,   \* the number of the newest frame that was queued or lost
          queue,     \* the queued frames, oldest first
          shown,     \* shown[v]: the last frame handed to viewer v
          running    \* FALSE once the camera process has crashed

vars == <<captured, offered, queue, shown, running>>

Init == /\ captured = 0
        /\ offered = 0
        /\ queue = <<>>
        /\ shown = [v \in Viewers |-> 0]
        /\ running = TRUE

(* A new frame is ready; the one before it has been dealt with. *)
Capture == /\ running /\ offered = captured
           /\ captured' = captured + 1
           /\ UNCHANGED <<offered, queue, shown, running>>

(* The oldest frame makes room for the newer one that is waiting. *)
DropOldest == /\ offered < captured
              /\ queue # <<>>
              /\ queue' = Tail(queue)
              /\ UNCHANGED <<captured, offered, shown, running>>

Offer == /\ running /\ offered < captured
         /\ Len(queue) < Capacity
         /\ queue' = Append(queue, captured)
         /\ offered' = captured
         /\ UNCHANGED <<captured, shown, running>>

Deliver(v) == /\ queue # <<>>
              /\ shown' = [shown EXCEPT ![v] = Head(queue)]
              /\ queue' = Tail(queue)
              /\ UNCHANGED <<captured, offered, running>>

(* The camera process crashes: the newest frames may be lost with it. *)
Crash == /\ running
         /\ running' = FALSE
         /\ offered' = captured
         /\ \E n \in 0..Len(queue) : queue' = SubSeq(queue, 1, n)
         /\ UNCHANGED <<captured, shown>>

Next == \/ Capture
        \/ DropOldest
        \/ Offer
        \/ \E v \in Viewers : Deliver(v)
        \/ Crash

Spec == Init /\ [][Next]_vars

-----------------------------------------------------------------------------
(* The queue holds consecutive frames: nothing is dropped from the middle,  *)
(* duplicated or reordered by put_latest_frame (picamera.py:121-128).       *)
Consecutive == \A i \in 1..Len(queue)-1 : queue[i+1] = queue[i] + 1

(* Whatever is still queued is among the newest Capacity + 1 frames: the     *)
(* delay a viewer sees does not accumulate (picamera.py:64, 121-128).        *)
Fresh == \A i \in 1..Len(queue) : captured <= queue[i] + Capacity

(* No viewer is ever given a frame that is not newer than every frame given  *)
(* to any viewer before: no picture goes back in time, none is shown twice.  *)
DeliveredInOrder ==
    [][\A v \in Viewers : shown'[v] # shown[v] =>
            \A w \in Viewers : shown[w] < shown'[v]]_vars
=============================================================================
