------------------------------ MODULE MpQueue ------------------------------
(***************************************************************************)
(* The multiprocessing.Queue that carries JPEG frames from the camera      *)
(* process to the Flask threads (picamera.py:64), at the granularity at    *)
(* which its users can interleave.  The class is CPython's, not this       *)
(* repository's; it is modelled because put_latest_frame and               *)
(* generate_stream are only correct or incorrect relative to it.           *)
(*                                                                         *)
(* A put takes a slot of a bounded semaphore and appends the object to a   *)
(* deque private to the putting process; a feeder thread of that process   *)
(* moves objects from the deque into an operating-system pipe.  A get      *)
(* takes the readers' lock, polls the pipe, reads one object, gives the    *)
(* slot back and releases the lock.  So an object that has been put need   *)
(* not be readable yet, and a full queue need not have anything to read.   *)
(***************************************************************************)
EXTENDS Naturals, Sequences

CONSTANTS Capacity,    \* maxsize of the queue
          PipeFrames,  \* how many whole objects fit in the pipe's own buffer
          NoOne        \* the value of rlock when no reader holds the lock

ASSUME QueueAssumption == /\ Capacity \in Nat \ {0}
                          /\ PipeFrames \in Nat

VARIABLES sem,      \* free slots: the value of the bounded semaphore
          buffer,   \* the deque of the putting process
          sending,  \* the object the feeder thread popped and is writing
          partial,  \* TRUE when some bytes of that object are in the pipe
          pipe,     \* the objects that lie whole in the pipe
          rlock     \* the holder of the readers' lock

queueVars == <<sem, buffer, sending, partial, pipe, rlock>>

QueueInit == /\ sem = Capacity
             /\ buffer = <<>>
             /\ sending = <<>>
             /\ partial = FALSE
             /\ pipe = <<>>
             /\ rlock = NoOne

(* Everything that was put and not yet read, oldest first. *)
InFlight == pipe \o sending \o buffer

(* full() looks at the semaphore; poll() looks at the pipe. *)
IsFull == sem = 0

HasData == pipe # <<>> \/ partial

(* The feeder has nothing left to write. *)
Flushed == buffer = <<>> /\ sending = <<>>

-----------------------------------------------------------------------------
(* put: wait for a slot, then append to the deque. *)
AcquireSlot == /\ sem > 0
               /\ sem' = sem - 1
               /\ UNCHANGED <<buffer, sending, partial, pipe, rlock>>

Enqueue(obj) == /\ buffer' = Append(buffer, obj)
                /\ UNCHANGED <<sem, sending, partial, pipe, rlock>>

(* The feeder thread: pop an object, start to write it, complete the write.  *)
(* The write completes when the object fits behind those already in the pipe *)
(* or when it is the first one and a reader is emptying the pipe.            *)

FeederTake == /\ sending = <<>> /\ buffer # <<>>
              /\ sending' = <<Head(buffer)>>
              /\ buffer' = Tail(buffer)
              /\ UNCHANGED <<sem, partial, pipe, rlock>>

FeederStart == /\ sending # <<>> /\ ~partial
               /\ partial' = TRUE
               /\ UNCHANGED <<sem, buffer, sending, pipe, rlock>>

FeederFinish(receiving) ==
    /\ partial /\ sending # <<>>
    /\ Len(pipe) < PipeFrames \/ (pipe = <<>> /\ receiving)
    /\ pipe' = pipe \o sending
    /\ sending' = <<>>
    /\ partial' = FALSE
    /\ UNCHANGED <<sem, buffer, rlock>>

(* get: lock the readers' side, read an object, give its slot back, unlock. *)
LockReader(r) == /\ rlock = NoOne
                 /\ rlock' = r
                 /\ UNCHANGED <<sem, buffer, sending, partial, pipe>>

Receive == /\ pipe # <<>>
           /\ pipe' = Tail(pipe)
           /\ UNCHANGED <<sem, buffer, sending, partial, rlock>>

ReleaseSlot == /\ sem' = sem + 1
               /\ UNCHANGED <<buffer, sending, partial, pipe, rlock>>

UnlockReader == /\ rlock' = NoOne
                /\ UNCHANGED <<sem, buffer, sending, partial, pipe>>

(* The putting process dies on the spot: its deque and its feeder are gone,  *)
(* the semaphore, the lock and the bytes already in the pipe stay.           *)
LoseWriter == /\ buffer' = <<>>
              /\ sending' = <<>>
              /\ UNCHANGED <<sem, partial, pipe, rlock>>
=============================================================================
