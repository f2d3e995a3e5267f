-------------------------- MODULE FrameStream_proofs --------------------------
(***************************************************************************)
(* Theorems about FrameStream, for every capacity, every pipe size, every  *)
(* set of viewers and every number of frames.                              *)
(***************************************************************************)
EXTENDS FrameStream, SequenceTheorems, TLAPS

USE QueueAssumption, StreamAssumption

(* One step of get, by whichever thread takes it. *)
GetStep == \E t \in Readers : Get(t)

(* The steps of a viewer's thread outside Queue.get. *)
BrowserStep == \E v \in Viewers : Connect(v) \/ FrameSent(v) \/ Disconnected(v)

(* A step of the program is one of these, or leaves everything as it is. *)
LEMMA NextCases ==
    ASSUME [Next]_vars
    PROVE  \/ EncodeFrame \/ CheckFull \/ GetNowaitBusy \/ PutWait \/ PutAppend
           \/ CameraError \/ WorkerExit \/ WorkerCrash
           \/ Feeder \/ GetStep \/ BrowserStep
           \/ UNCHANGED vars
BY DEF Next, WorkerStep, GetTimeout, GetStep, BrowserStep, Readers

-----------------------------------------------------------------------------
(* Type correctness: the variables of picamera.py and of its queue keep the  *)
(* values TypeOK gives them.                                                 *)
LEMMA TypeStep == TypeOK /\ [Next]_vars => TypeOK'
<1> SUFFICES ASSUME TypeOK, [Next]_vars PROVE TypeOK'
  OBVIOUS
<1> USE DEF TypeOK, queueVars, Goto, Readers, WorkerPC, ViewerPC, Putting, Reading
<1>1. CASE EncodeFrame
  BY <1>1 DEF EncodeFrame
<1>2. CASE CheckFull
  BY <1>2 DEF CheckFull
<1>3. CASE GetNowaitBusy
  BY <1>3 DEF GetNowaitBusy
<1>4. CASE PutWait
  BY <1>4 DEF PutWait, AcquireSlot
<1>5. CASE PutAppend
  BY <1>5 DEF PutAppend, Enqueue
<1>6. CASE CameraError
  BY <1>6 DEF CameraError
<1>7. CASE WorkerExit
  BY <1>7 DEF WorkerExit
<1>8. CASE WorkerCrash
  BY <1>8 DEF WorkerCrash, LoseWriter
<1>9. CASE Feeder
  <2>1. CASE FeederTake
    <3>1. Head(buffer) \in Nat /\ Tail(buffer) \in Seq(Nat)
      BY <2>1, HeadTailProperties DEF FeederTake
    <3>. QED  BY <1>9, <2>1, <3>1 DEF Feeder, FeederTake
  <2>2. CASE FeederStart
    BY <1>9, <2>2 DEF Feeder, FeederStart
  <2>3. CASE FeederFinish(\E t \in Readers : pc[t] = "recv")
    <3>1. pipe \o sending \in Seq(Nat)
      BY ConcatProperties
    <3>2. /\ pipe' = pipe \o sending /\ sending' = <<>> /\ partial' = FALSE
          /\ UNCHANGED <<sem, buffer, rlock, captured, pc, shown>>
      BY <1>9, <2>3 DEF Feeder, FeederFinish, FeederTake, FeederStart
    <3>3. sending' \in Seq(Nat) /\ Len(sending') <= 1
      BY <3>2, EmptySeq
    <3>4. pipe' \in Seq(Nat) /\ partial' \in BOOLEAN
      BY <3>1, <3>2
    <3>. QED  BY <3>2, <3>3, <3>4
  <2>. QED  BY <1>9, <2>1, <2>2, <2>3 DEF Feeder
<1>10. CASE GetStep
  <2> PICK t \in Readers : Get(t)
    BY <1>10 DEF GetStep
  <2>1. CASE GetLock(t)
    BY <2>1 DEF GetLock, LockReader
  <2>2. CASE GetReady(t)
    BY <2>2 DEF GetReady
  <2>3. CASE GetEmpty(t)
    BY <2>3 DEF GetEmpty, UnlockReader
  <2>4. CASE GetReceive(t)
    BY <2>4 DEF GetReceive, Receive
  <2>5. CASE GetRelease(t)
    BY <2>5 DEF GetRelease, ReleaseSlot
  <2>6. CASE GetUnlock(t)
    BY <2>6 DEF GetUnlock, UnlockReader
  <2>. QED  BY <2>1, <2>2, <2>3, <2>4, <2>5, <2>6 DEF Get
<1>11. CASE BrowserStep
  BY <1>11 DEF BrowserStep, Connect, FrameSent, Disconnected
<1>12. CASE UNCHANGED vars
  BY <1>12 DEF vars
<1>. QED
  BY NextCases, <1>1, <1>2, <1>3, <1>4, <1>5, <1>6, <1>7, <1>8, <1>9, <1>10, <1>11, <1>12

LEMMA TypeInit == Init => TypeOK
<1> SUFFICES ASSUME Init PROVE TypeOK
  OBVIOUS
<1>1. /\ pc \in [Readers -> WorkerPC \cup ViewerPC]
      /\ pc[Worker] \in WorkerPC
      /\ \A v \in Viewers : pc[v] \in ViewerPC
  BY DEF Init, Readers, WorkerPC, ViewerPC
<1>2. sem \in Nat /\ rlock \in Readers \cup {NoOne}
  BY DEF Init, QueueInit
<1>3. buffer \in Seq(Nat) /\ sending \in Seq(Nat) /\ Len(sending) <= 1 /\ pipe \in Seq(Nat)
  BY DEF Init, QueueInit
<1>. QED  BY <1>1, <1>2, <1>3 DEF Init, QueueInit, TypeOK

(* The values of the variables, whatever the constants (picamera.py:64-171). *)
THEOREM TypeCorrect == Spec => []TypeOK
BY TypeInit, TypeStep, PTL DEF Spec

-----------------------------------------------------------------------------
(* The readers' lock: who is inside the locked part of Queue.get. *)
LEMMA LockStep == TypeOK /\ LockDiscipline /\ [Next]_vars => LockDiscipline'
<1> SUFFICES ASSUME TypeOK, LockDiscipline, [Next]_vars PROVE LockDiscipline'
  OBVIOUS
<1> USE DEF LockDiscipline, queueVars, Goto, Readers, Reading
<1> pc \in [Readers -> WorkerPC \cup ViewerPC]
  BY DEF TypeOK
<1>1. CASE EncodeFrame
  BY <1>1 DEF EncodeFrame
<1>2. CASE CheckFull
  BY <1>2 DEF CheckFull
<1>3. CASE GetNowaitBusy
  BY <1>3 DEF GetNowaitBusy
<1>4. CASE PutWait
  BY <1>4 DEF PutWait, AcquireSlot
<1>5. CASE PutAppend
  BY <1>5 DEF PutAppend, Enqueue
<1>6. CASE CameraError
  BY <1>6 DEF CameraError
<1>7. CASE WorkerExit
  BY <1>7 DEF WorkerExit
<1>8. CASE WorkerCrash
  BY <1>8 DEF WorkerCrash, LoseWriter
<1>9. CASE Feeder
  BY <1>9 DEF Feeder, FeederTake, FeederStart, FeederFinish
<1>10. CASE GetStep
  <2> PICK t \in Readers : Get(t)
    BY <1>10 DEF GetStep
  <2>1. CASE GetLock(t)
    BY <2>1 DEF GetLock, LockReader
  <2>2. CASE GetReady(t)
    BY <2>2 DEF GetReady
  <2>3. CASE GetEmpty(t)
    BY <2>3 DEF GetEmpty, UnlockReader
  <2>4. CASE GetReceive(t)
    BY <2>4 DEF GetReceive, Receive
  <2>5. CASE GetRelease(t)
    BY <2>5 DEF GetRelease, ReleaseSlot
  <2>6. CASE GetUnlock(t)
    BY <2>6 DEF GetUnlock, UnlockReader
  <2>. QED  BY <2>1, <2>2, <2>3, <2>4, <2>5, <2>6 DEF Get
<1>11. CASE BrowserStep
  BY <1>11 DEF BrowserStep, Connect, FrameSent, Disconnected
<1>12. CASE UNCHANGED vars
  BY <1>12 DEF vars
<1>. QED
  BY NextCases, <1>1, <1>2, <1>3, <1>4, <1>5, <1>6, <1>7, <1>8, <1>9, <1>10, <1>11, <1>12

LEMMA LockInit == Init => LockDiscipline
BY DEF Init, QueueInit, LockDiscipline, Readers, Reading

(* Two threads are never inside the locked part of Queue.get, and a viewer   *)
(* never leaves it without unlocking (picamera.py:124, 164).                 *)
THEOREM LockCorrect == Spec => []LockDiscipline
BY TypeInit, TypeStep, LockInit, LockStep, PTL DEF Spec

-----------------------------------------------------------------------------
(* Slots: each is free, in the hand of a thread, or occupied by a frame. *)
LEMMA LenOfThree ==
    ASSUME NEW S, NEW p \in Seq(S), NEW q \in Seq(S), NEW b \in Seq(S)
    PROVE  /\ Len(p) \in Nat /\ Len(q) \in Nat /\ Len(b) \in Nat
           /\ Len(p \o q \o b) = Len(p) + Len(q) + Len(b)
BY ConcatProperties, LenProperties

SlotsHeld == Len(pipe) + Len(sending) + Len(buffer) + SlotsInHand

LEMMA SlotsHeldInFlight ==
    TypeOK => /\ SlotsHeld = Len(InFlight) + SlotsInHand
              /\ sem + Len(InFlight) + SlotsInHand = sem + SlotsHeld
              /\ sem + SlotsHeld \in Nat
BY LenOfThree DEF TypeOK, InFlight, SlotsHeld, SlotsInHand

(* Only the crash of the camera process changes the number of slots. *)
LEMMA SlotsKept ==
    ASSUME TypeOK, LockDiscipline, [Next]_vars, ~WorkerCrash
    PROVE  /\ sem' + SlotsHeld' = sem + SlotsHeld
           /\ pc'[Worker] = "killed" <=> pc[Worker] = "killed"
<1> DEFINE InRelease == \E t \in Readers : pc[t] = "release"
<1> USE DEF SlotsHeld, SlotsInHand, queueVars, Goto, Readers
<1>0. /\ pc \in [Readers -> WorkerPC \cup ViewerPC]
      /\ sem \in Nat
      /\ Len(pipe) \in Nat /\ Len(sending) \in Nat /\ Len(buffer) \in Nat
  BY LenProperties DEF TypeOK
<1>1. CASE EncodeFrame
  BY <1>0, <1>1 DEF EncodeFrame
<1>2. CASE CheckFull
  BY <1>0, <1>2 DEF CheckFull
<1>3. CASE GetNowaitBusy
  BY <1>0, <1>3 DEF GetNowaitBusy
<1>4. CASE PutWait
  BY <1>0, <1>4 DEF PutWait, AcquireSlot
<1>5. CASE PutAppend
  <2>1. Len(buffer') = Len(buffer) + 1
    BY <1>5, AppendProperties DEF PutAppend, Enqueue, TypeOK
  <2>. QED  BY <1>0, <1>5, <2>1 DEF PutAppend, Enqueue
<1>6. CASE CameraError
  BY <1>0, <1>6 DEF CameraError
<1>7. CASE WorkerExit
  BY <1>0, <1>7 DEF WorkerExit
<1>9. CASE Feeder
  <2>1. Len(pipe') + Len(sending') + Len(buffer') = Len(pipe) + Len(sending) + Len(buffer)
    <3>1. CASE FeederTake
      BY <1>0, <3>1, HeadTailProperties DEF FeederTake, TypeOK
    <3>2. CASE FeederStart
      BY <1>0, <3>2 DEF FeederStart
    <3>3. CASE FeederFinish(\E t \in Readers : pc[t] = "recv")
      BY <1>0, <3>3, ConcatProperties, EmptySeq DEF FeederFinish, TypeOK
    <3>. QED  BY <1>9, <3>1, <3>2, <3>3 DEF Feeder
  <2>2. UNCHANGED <<sem, pc>>
    BY <1>9 DEF Feeder, FeederTake, FeederStart, FeederFinish
  <2>. QED  BY <1>0, <2>1, <2>2
<1>10. CASE GetStep
  <2> PICK t \in Readers : Get(t)
    BY <1>10 DEF GetStep
  <2>1. CASE GetLock(t)
    BY <1>0, <2>1 DEF GetLock, LockReader
  <2>2. CASE GetReady(t)
    BY <1>0, <2>2 DEF GetReady
  <2>3. CASE GetEmpty(t)
    BY <1>0, <2>3 DEF GetEmpty, UnlockReader
  <2>4. CASE GetReceive(t)
    <3>1. ~InRelease /\ InRelease'
      BY <1>0, <2>4 DEF GetReceive, LockDiscipline, Reading
    <3>2. Len(pipe') = Len(pipe) - 1
      BY <2>4, HeadTailProperties DEF GetReceive, Receive, TypeOK
    <3>. QED  BY <1>0, <2>4, <3>1, <3>2 DEF GetReceive, Receive
  <2>5. CASE GetRelease(t)
    <3>1. InRelease /\ ~InRelease'
      BY <1>0, <2>5 DEF GetRelease, LockDiscipline, Reading
    <3>. QED  BY <1>0, <2>5, <3>1 DEF GetRelease, ReleaseSlot
  <2>6. CASE GetUnlock(t)
    BY <1>0, <2>6 DEF GetUnlock, UnlockReader
  <2>. QED  BY <2>1, <2>2, <2>3, <2>4, <2>5, <2>6 DEF Get
<1>11. CASE BrowserStep
  BY <1>0, <1>11 DEF BrowserStep, Connect, FrameSent, Disconnected
<1>12. CASE UNCHANGED vars
  BY <1>0, <1>12 DEF vars
<1>. QED
  BY NextCases, <1>1, <1>2, <1>3, <1>4, <1>5, <1>6, <1>7, <1>9, <1>10, <1>11, <1>12

(* A crash can only lose slots: those of the frames that died with it. *)
LEMMA SlotsLost ==
    ASSUME TypeOK, WorkerCrash
    PROVE  sem' + SlotsHeld' <= sem + SlotsHeld /\ pc'[Worker] = "killed"
<1>0. /\ pc \in [Readers -> WorkerPC \cup ViewerPC]
      /\ sem \in Nat
      /\ Len(pipe) \in Nat /\ Len(sending) \in Nat /\ Len(buffer) \in Nat
  BY LenProperties DEF TypeOK
<1>1. SlotsInHand' <= SlotsInHand /\ pc'[Worker] = "killed"
  BY <1>0 DEF WorkerCrash, SlotsInHand, Readers
<1>2. UNCHANGED <<sem, pipe>> /\ Len(sending') = 0 /\ Len(buffer') = 0
  BY EmptySeq DEF WorkerCrash, LoseWriter
<1>3. SlotsInHand \in Nat /\ SlotsInHand' \in Nat
  BY DEF SlotsInHand
<1>. QED  BY <1>0, <1>1, <1>2, <1>3 DEF SlotsHeld

LEMMA SlotsStep ==
    TypeOK /\ LockDiscipline /\ SlotsConserved /\ [Next]_vars => SlotsConserved'
<1> SUFFICES ASSUME TypeOK, LockDiscipline, SlotsConserved, [Next]_vars
             PROVE  SlotsConserved'
  OBVIOUS
<1>1. TypeOK'
  BY TypeStep
<1>2. /\ sem + SlotsHeld \in Nat
      /\ sem + Len(InFlight) + SlotsInHand = sem + SlotsHeld
  BY SlotsHeldInFlight
<1>3. /\ sem' + SlotsHeld' \in Nat
      /\ (sem + Len(InFlight) + SlotsInHand)' = sem' + SlotsHeld'
  <2>1. (TypeOK => /\ SlotsHeld = Len(InFlight) + SlotsInHand
                   /\ sem + Len(InFlight) + SlotsInHand = sem + SlotsHeld
                   /\ sem + SlotsHeld \in Nat)'
    BY SlotsHeldInFlight, PTL
  <2>. QED  BY <1>1, <2>1
<1>4. CASE WorkerCrash
  BY <1>2, <1>3, <1>4, SlotsLost DEF SlotsConserved
<1>5. CASE ~WorkerCrash
  BY <1>2, <1>3, <1>5, SlotsKept DEF SlotsConserved
<1>. QED  BY <1>4, <1>5

LEMMA SlotsInit == Init => SlotsConserved
<1> SUFFICES ASSUME Init PROVE SlotsConserved
  OBVIOUS
<1>1. InFlight = <<>>
  BY EmptySeq, ConcatEmptySeq DEF Init, QueueInit, InFlight
<1>2. SlotsInHand = 0 /\ sem = Capacity
  <2>1. \A t \in Readers : pc[t] # "release" /\ pc[t] # "append"
    BY DEF Init
  <2>2. SlotsInHand = 0 + 0
    BY <2>1 DEF SlotsInHand, Readers
  <2>. QED  BY <2>2 DEF Init, QueueInit
<1>. QED  BY <1>1, <1>2, EmptySeq DEF SlotsConserved

(* Slots of frame_queue are conserved for every capacity and every number of *)
(* viewers; only a crash of the camera process may lose some                 *)
(* (picamera.py:64, 121-128).                                                *)
THEOREM SlotsCorrect == Spec => []SlotsConserved
BY TypeInit, TypeStep, LockInit, LockStep, SlotsInit, SlotsStep, PTL DEF Spec

-----------------------------------------------------------------------------
(* Frames cut off in the middle. *)

(* The writer of a frame of which some bytes are in the pipe still holds it, *)
(* and a camera process that has exited has nothing left to write.           *)
WriterHolds ==
    pc[Worker] # "killed" =>
        /\ partial => sending # <<>>
        /\ pc[Worker] = "exited" => Flushed

WriteInv == WriterHolds /\ ReaderIsServed

LEMMA WriteStep ==
    TypeOK /\ LockDiscipline /\ WriteInv /\ [Next]_vars => WriteInv'
<1> SUFFICES ASSUME TypeOK, LockDiscipline, WriteInv, [Next]_vars
             PROVE  WriteInv'
  OBVIOUS
<1> USE DEF WriteInv, WriterHolds, ReaderIsServed, Flushed, HasData,
            queueVars, Goto, Readers
<1> pc \in [Readers -> WorkerPC \cup ViewerPC]
  BY DEF TypeOK
<1>1. CASE EncodeFrame
  BY <1>1 DEF EncodeFrame
<1>2. CASE CheckFull
  BY <1>2 DEF CheckFull
<1>3. CASE GetNowaitBusy
  BY <1>3 DEF GetNowaitBusy
<1>4. CASE PutWait
  BY <1>4 DEF PutWait, AcquireSlot
<1>5. CASE PutAppend
  BY <1>5 DEF PutAppend, Enqueue
<1>6. CASE CameraError
  BY <1>6 DEF CameraError
<1>7. CASE WorkerExit
  BY <1>7 DEF WorkerExit
<1>8. CASE WorkerCrash
  BY <1>8 DEF WorkerCrash, LoseWriter
<1>9. CASE Feeder
  <2>1. CASE FeederTake
    BY <1>9, <2>1, EmptySeq DEF Feeder, FeederTake, Gone
  <2>2. CASE FeederStart
    BY <1>9, <2>2 DEF Feeder, FeederStart, Gone
  <2>3. CASE FeederFinish(\E t \in Readers : pc[t] = "recv")
    <3>1. pipe' # <<>>
      BY <2>3, ConcatEqualIffEmpty DEF FeederFinish, TypeOK
    <3>. QED  BY <1>9, <2>3, <3>1 DEF Feeder, FeederFinish, Gone
  <2>. QED  BY <1>9, <2>1, <2>2, <2>3 DEF Feeder
<1>10. CASE GetStep
  <2> PICK t \in Readers : Get(t)
    BY <1>10 DEF GetStep
  <2>1. CASE GetLock(t)
    BY <2>1 DEF GetLock, LockReader
  <2>2. CASE GetReady(t)
    BY <2>2 DEF GetReady
  <2>3. CASE GetEmpty(t)
    BY <2>3 DEF GetEmpty, UnlockReader
  <2>4. CASE GetReceive(t)
    <3>1. \A u \in Readers : pc'[u] # "recv"
      BY <2>4 DEF GetReceive, LockDiscipline, Reading
    <3>. QED  BY <2>4, <3>1 DEF GetReceive, Receive
  <2>5. CASE GetRelease(t)
    BY <2>5 DEF GetRelease, ReleaseSlot
  <2>6. CASE GetUnlock(t)
    BY <2>6 DEF GetUnlock, UnlockReader
  <2>. QED  BY <2>1, <2>2, <2>3, <2>4, <2>5, <2>6 DEF Get
<1>11. CASE BrowserStep
  BY <1>11 DEF BrowserStep, Connect, FrameSent, Disconnected
<1>12. CASE UNCHANGED vars
  BY <1>12 DEF vars
<1>. QED
  BY NextCases, <1>1, <1>2, <1>3, <1>4, <1>5, <1>6, <1>7, <1>8, <1>9, <1>10, <1>11, <1>12

LEMMA WriteInit == Init => WriteInv
BY DEF Init, QueueInit, WriteInv, WriterHolds, ReaderIsServed, Readers, Flushed

(* A thread that has begun to read a frame never waits for bytes that nobody *)
(* will write, unless the camera process crashed (picamera.py:164).          *)
THEOREM ReaderServed == Spec => []ReaderIsServed
<1>1. WriteInv => ReaderIsServed
  BY DEF WriteInv
<1>. QED
  BY <1>1, TypeInit, TypeStep, LockInit, LockStep, WriteInit, WriteStep, PTL DEF Spec

(* After an orderly end of the camera process nothing is stuck in its queue  *)
(* (picamera.py:154-158).                                                    *)
THEOREM ExitIsClean == Spec => []CleanExit
<1>1. WriteInv /\ LockDiscipline => CleanExit
  BY DEF WriteInv, WriterHolds, LockDiscipline, CleanExit, Flushed, Reading, Readers, TypeOK
<1>. QED
  BY <1>1, TypeInit, TypeStep, LockInit, LockStep, WriteInit, WriteStep, PTL DEF Spec

-----------------------------------------------------------------------------
(* Refinement: every step of the program is a step of LatestFrames.  The     *)
(* lemmas say what each kind of step does to the frames in flight.           *)

LEMMA FeederIsInvisible ==
    ASSUME TypeOK, Feeder
    PROVE  UNCHANGED <<InFlight, captured, pc, shown>>
<1>0. pipe \in Seq(Nat) /\ sending \in Seq(Nat) /\ buffer \in Seq(Nat)
  BY DEF TypeOK
<1>1. CASE FeederTake
  <2>1. pipe \o <<Head(buffer)>> \o Tail(buffer) = pipe \o buffer
    BY <1>0, <1>1 DEF FeederTake
  <2>2. pipe \o <<>> \o buffer = pipe \o buffer
    BY <1>0, ConcatEmptySeq
  <2>. QED  BY <1>1, <2>1, <2>2 DEF Feeder, FeederTake, InFlight
<1>2. CASE FeederStart
  BY <1>2 DEF Feeder, FeederStart, InFlight
<1>3. CASE FeederFinish(\E t \in Readers : pc[t] = "recv")
  <2>1. (pipe \o sending) \o <<>> = pipe \o sending
    BY <1>0, ConcatProperties, ConcatEmptySeq
  <2>. QED  BY <1>3, <2>1 DEF Feeder, FeederFinish, InFlight
<1>4. UNCHANGED <<captured, pc, shown>>
  BY DEF Feeder
<1>. QED  BY <1>1, <1>2, <1>3, <1>4 DEF Feeder

LEMMA ReceiveTakesOldest ==
    ASSUME TypeOK, Receive
    PROVE  /\ InFlight # <<>> /\ Head(InFlight) = Head(pipe)
           /\ InFlight' = Tail(InFlight)
<1>1. pipe \in Seq(Nat) /\ sending \in Seq(Nat) /\ buffer \in Seq(Nat) /\ pipe # <<>>
  BY DEF TypeOK, Receive
<1>2. /\ pipe \o sending \in Seq(Nat) /\ pipe \o sending # <<>>
      /\ Head(pipe \o sending) = Head(pipe)
      /\ Tail(pipe \o sending) = Tail(pipe) \o sending
  <2>1. pipe \o sending \in Seq(Nat) /\ pipe \o sending # <<>>
    BY <1>1, ConcatProperties, ConcatEqualIffEmpty
  <2>. QED  BY <1>1, <2>1
<1>3. /\ pipe \o sending \o buffer # <<>>
      /\ Head(pipe \o sending \o buffer) = Head(pipe \o sending)
      /\ Tail(pipe \o sending \o buffer) = Tail(pipe \o sending) \o buffer
  <2>1. pipe \o sending \o buffer # <<>>
    BY <1>1, <1>2, ConcatEqualIffEmpty
  <2>. QED  BY <1>1, <1>2, <2>1
<1>4. InFlight' = Tail(pipe) \o sending \o buffer
  BY DEF Receive, InFlight
<1>. QED  BY <1>2, <1>3, <1>4 DEF InFlight

LEMMA EnqueueAddsNewest ==
    ASSUME TypeOK, Enqueue(captured)
    PROVE  InFlight' = Append(InFlight, captured)
<1>1. pipe \o sending \in Seq(Nat) /\ buffer \in Seq(Nat) /\ captured \in Nat
  BY ConcatProperties DEF TypeOK
<1>2. (pipe \o sending) \o Append(buffer, captured)
        = Append((pipe \o sending) \o buffer, captured)
  BY <1>1
<1>. QED  BY <1>2 DEF Enqueue, InFlight

LEMMA CrashKeepsPipe ==
    ASSUME TypeOK, LoseWriter
    PROVE  \E n \in 0..Len(InFlight) : InFlight' = SubSeq(InFlight, 1, n)
<1>1. pipe \in Seq(Nat) /\ sending \o buffer \in Seq(Nat)
  BY ConcatProperties DEF TypeOK
<1>2. /\ Len(pipe) \in 0..Len(pipe \o (sending \o buffer))
      /\ SubSeq(pipe \o (sending \o buffer), 1, Len(pipe)) = pipe
  BY <1>1
<1>3. InFlight = pipe \o (sending \o buffer)
  BY ConcatAssociative DEF TypeOK, InFlight
<1>4. InFlight' = pipe
  BY <1>1, ConcatEmptySeq DEF LoseWriter, InFlight
<1>. QED  BY <1>2, <1>3, <1>4

LEMMA LatestStepSimulation ==
    TypeOK /\ LockDiscipline /\ SlotsConserved /\ [Next]_vars
        => [Latest!Next]_(Latest!vars)
<1> SUFFICES ASSUME TypeOK, LockDiscipline, SlotsConserved, [Next]_vars
             PROVE  Latest!Next \/ UNCHANGED Latest!vars
  OBVIOUS
<1> USE DEF Latest!vars, Offered, Putting, Reading, queueVars, Goto, Readers
<1>0. pc \in [Readers -> WorkerPC \cup ViewerPC] /\ captured \in Nat
  BY DEF TypeOK
<1>1. CASE EncodeFrame
  <2>1. Latest!Capture
    BY <1>0, <1>1 DEF EncodeFrame, Latest!Capture, InFlight
  <2>. QED  BY <2>1 DEF Latest!Next
<1>2. CASE CheckFull
  BY <1>0, <1>2 DEF CheckFull, InFlight
<1>3. CASE GetNowaitBusy
  BY <1>0, <1>3 DEF GetNowaitBusy, InFlight
<1>4. CASE PutWait
  BY <1>0, <1>4 DEF PutWait, AcquireSlot, InFlight
<1>5. CASE PutAppend
  <2>1. InFlight' = Append(InFlight, captured)
    BY <1>5, EnqueueAddsNewest DEF PutAppend
  <2>2. Len(InFlight) < Capacity
    <3>1. Len(InFlight) \in Nat /\ sem \in Nat
      BY LenOfThree DEF TypeOK, InFlight
    <3>2. SlotsInHand \in Nat /\ SlotsInHand >= 1
      BY <1>5 DEF SlotsInHand, PutAppend
    <3>. QED  BY <3>1, <3>2 DEF SlotsConserved
  <2>3. Latest!Offer
    BY <1>0, <1>5, <2>1, <2>2 DEF PutAppend, Latest!Offer
  <2>. QED  BY <2>3 DEF Latest!Next
<1>6. CASE CameraError
  BY <1>0, <1>6 DEF CameraError, InFlight
<1>7. CASE WorkerExit
  BY <1>0, <1>7 DEF WorkerExit, InFlight
<1>8. CASE WorkerCrash
  <2>1. \E n \in 0..Len(InFlight) : InFlight' = SubSeq(InFlight, 1, n)
    BY <1>8, CrashKeepsPipe DEF WorkerCrash
  <2>2. Latest!Crash
    BY <1>0, <1>8, <2>1 DEF WorkerCrash, Latest!Crash, Gone
  <2>. QED  BY <2>2 DEF Latest!Next
<1>9. CASE Feeder
  BY <1>9, FeederIsInvisible
<1>10. CASE GetStep
  <2> PICK t \in Readers : Get(t)
    BY <1>10 DEF GetStep
  <2>1. CASE GetLock(t)
    BY <1>0, <2>1 DEF GetLock, LockReader, InFlight
  <2>2. CASE GetReady(t)
    BY <1>0, <2>2 DEF GetReady, InFlight
  <2>3. CASE GetEmpty(t)
    BY <1>0, <2>3 DEF GetEmpty, UnlockReader, InFlight
  <2>4. CASE GetReceive(t)
    <3>1. /\ InFlight # <<>> /\ Head(InFlight) = Head(pipe)
          /\ InFlight' = Tail(InFlight)
      BY <2>4, ReceiveTakesOldest DEF GetReceive
    <3>2. CASE t = Worker
      <4>1. Latest!DropOldest
        BY <1>0, <2>4, <3>1, <3>2 DEF GetReceive, Latest!DropOldest
      <4>. QED  BY <4>1 DEF Latest!Next
    <3>3. CASE t \in Viewers
      <4>1. Latest!Deliver(t)
        BY <1>0, <2>4, <3>1, <3>3 DEF GetReceive, Latest!Deliver
      <4>. QED  BY <3>3, <4>1 DEF Latest!Next
    <3>. QED  BY <3>2, <3>3
  <2>5. CASE GetRelease(t)
    BY <1>0, <2>5 DEF GetRelease, ReleaseSlot, InFlight
  <2>6. CASE GetUnlock(t)
    BY <1>0, <2>6 DEF GetUnlock, UnlockReader, InFlight
  <2>. QED  BY <2>1, <2>2, <2>3, <2>4, <2>5, <2>6 DEF Get
<1>11. CASE BrowserStep
  BY <1>0, <1>11 DEF BrowserStep, Connect, FrameSent, Disconnected, InFlight
<1>12. CASE UNCHANGED vars
  BY <1>12 DEF vars, InFlight
<1>. QED
  BY NextCases, <1>1, <1>2, <1>3, <1>4, <1>5, <1>6, <1>7, <1>8, <1>9, <1>10, <1>11, <1>12

LEMMA LatestInitSimulation == Init => Latest!Init
<1> SUFFICES ASSUME Init PROVE Latest!Init
  OBVIOUS
<1>1. InFlight = <<>>
  BY EmptySeq, ConcatEmptySeq DEF Init, QueueInit, InFlight
<1>2. pc[Worker] = "capture"
  BY DEF Init, Readers
<1>. QED  BY <1>1, <1>2 DEF Init, Latest!Init, Offered, Putting, Reading

(* The program is a LatestFrames for every capacity, pipe size and set of    *)
(* viewers: put_latest_frame drops only the oldest frame and only for a      *)
(* newer one, every other frame reaches one viewer (picamera.py:121-171).    *)
THEOREM StreamImplementsLatestFrames == Spec => ImplementsLatestFrames
<1>1. Init => Latest!Init
  BY LatestInitSimulation
<1>2. TypeOK /\ LockDiscipline /\ SlotsConserved /\ [Next]_vars
        => [Latest!Next]_(Latest!vars)
  BY LatestStepSimulation
<1>. QED
  BY <1>1, <1>2, TypeInit, TypeStep, LockInit, LockStep, SlotsInit, SlotsStep, PTL
  DEF Spec, ImplementsLatestFrames, Latest!Spec

-----------------------------------------------------------------------------
(* What the program inherits from LatestFrames.  Here the frames in flight   *)
(* change only by the steps of LatestFrames: nothing is used of the program  *)
(* but the theorem above.                                                    *)
Alive == pc[Worker] # "killed"

LatestTypeOK == /\ captured \in Nat /\ Offered \in Nat
                /\ InFlight \in Seq(Nat)
                /\ shown \in [Viewers -> Nat]
                /\ Alive \in BOOLEAN

(* What is in flight is the run of frames from number `first' on: it ends    *)
(* with the newest frame that was queued while the camera process lives, it  *)
(* starts after every frame a viewer was given, and it starts recently.      *)
RunFrom(first) ==
    /\ \A i \in 1..Len(InFlight) : InFlight[i] = first + i - 1
    /\ first + Len(InFlight) <= Offered + 1
    /\ Alive => first + Len(InFlight) = Offered + 1
    /\ captured <= first + Capacity
    /\ \A v \in Viewers : shown[v] < first

(* At most one frame waits to be queued, and at most Capacity are. *)
Bounds == /\ Offered <= captured /\ captured <= Offered + 1
          /\ Len(InFlight) <= Capacity

LatestInv == LatestTypeOK /\ Bounds /\ \E first \in Nat : RunFrom(first)

-----------------------------------------------------------------------------
(* The step in which the oldest frame leaves, to a viewer or to nobody. *)
LEMMA OldestLeaves ==
    ASSUME LatestTypeOK, Bounds,
           NEW first \in Nat, RunFrom(first),
           InFlight # <<>>, InFlight' = Tail(InFlight),
           UNCHANGED <<captured, Offered, Alive>>,
           \A v \in Viewers : shown'[v] \in {shown[v], Head(InFlight)}
    PROVE  Bounds' /\ RunFrom(first + 1)'
<1>1. /\ Len(InFlight) \in Nat \ {0} /\ Head(InFlight) = InFlight[1]
      /\ Len(InFlight') = Len(InFlight) - 1
      /\ \A i \in 1..Len(InFlight') : InFlight'[i] = InFlight[i+1]
  BY HeadTailProperties, EmptySeq DEF LatestTypeOK
<1>2. Head(InFlight) = first
  BY <1>1 DEF RunFrom
<1>3. \A i \in 1..Len(InFlight') : InFlight'[i] = (first + 1) + i - 1
  <2> SUFFICES ASSUME NEW i \in 1..Len(InFlight')
               PROVE  InFlight'[i] = (first + 1) + i - 1
    OBVIOUS
  <2>1. i + 1 \in 1..Len(InFlight) /\ InFlight'[i] = InFlight[i+1]
    BY <1>1
  <2>2. InFlight[i+1] = first + (i + 1) - 1
    BY <2>1 DEF RunFrom
  <2>. QED  BY <2>1, <2>2
<1>4. \A v \in Viewers : shown'[v] < first + 1
  <2> SUFFICES ASSUME NEW v \in Viewers PROVE shown'[v] < first + 1
    OBVIOUS
  <2>1. shown[v] \in Nat /\ shown[v] < first
    BY DEF RunFrom, LatestTypeOK
  <2>. QED  BY <1>2, <2>1
<1>. QED  BY <1>1, <1>3, <1>4 DEF RunFrom, Bounds, LatestTypeOK

LEMMA LatestInit == Latest!Init => LatestInv
<1> SUFFICES ASSUME Latest!Init PROVE LatestInv
  OBVIOUS
<1>1. LatestTypeOK /\ Bounds
  BY EmptySeq DEF Alive, Latest!Init, LatestTypeOK, Bounds
<1>2. RunFrom(1)
  BY EmptySeq DEF Alive, Latest!Init, RunFrom
<1>. QED  BY <1>1, <1>2 DEF LatestInv

LEMMA LatestStep == LatestInv /\ [Latest!Next]_(Latest!vars) => LatestInv'
<1> SUFFICES ASSUME LatestInv, [Latest!Next]_(Latest!vars) PROVE LatestInv'
  OBVIOUS
<1> USE DEF LatestTypeOK, Bounds
<1>0. LatestTypeOK /\ Bounds /\ Len(InFlight) \in Nat
  BY LenProperties DEF LatestInv
<1> PICK first \in Nat : RunFrom(first)
  BY DEF LatestInv
<1>1. CASE Latest!Capture
  <2>1. RunFrom(first)'
    BY <1>0, <1>1 DEF Alive, Latest!Capture, RunFrom
  <2>2. \E f \in Nat : RunFrom(f)'
    BY <2>1, Zenon
  <2>. QED  BY <1>0, <1>1, <2>2 DEF Alive, Latest!Capture, LatestInv
<1>2. CASE Latest!DropOldest
  <2>1. Bounds' /\ RunFrom(first + 1)'
    BY <1>0, <1>2, OldestLeaves DEF Alive, Latest!DropOldest
  <2>2. LatestTypeOK'
    BY <1>0, <1>2, HeadTailProperties DEF Alive, Latest!DropOldest
  <2>3. \E f \in Nat : RunFrom(f)'
    BY <2>1, first + 1 \in Nat, Zenon
  <2>. QED  BY <2>1, <2>2, <2>3 DEF LatestInv
<1>3. CASE Latest!Offer
  <2>1. /\ InFlight' \in Seq(Nat) /\ Len(InFlight') = Len(InFlight) + 1
        /\ \A i \in 1..Len(InFlight) : InFlight'[i] = InFlight[i]
        /\ InFlight'[Len(InFlight) + 1] = captured
    BY <1>0, <1>3, AppendProperties DEF Alive, Latest!Offer
  <2>2. /\ Offered' = captured /\ captured = Offered + 1 /\ Len(InFlight) < Capacity
        /\ Alive /\ UNCHANGED <<captured, shown, Alive>>
    BY <1>0, <1>3 DEF Alive, Latest!Offer
  <2>3. \A i \in 1..Len(InFlight') : InFlight'[i] = first + i - 1
    <3>1. \A i \in 1..Len(InFlight) : InFlight'[i] = first + i - 1
      BY <2>1 DEF RunFrom
    <3>2. InFlight'[Len(InFlight) + 1] = first + (Len(InFlight) + 1) - 1
      BY <1>0, <2>1, <2>2 DEF RunFrom
    <3>3. \A i \in 1..Len(InFlight') : i \in 1..Len(InFlight) \/ i = Len(InFlight) + 1
      BY <1>0, <2>1
    <3>. QED  BY <3>1, <3>2, <3>3
  <2>4. RunFrom(first)'
    BY <1>0, <2>1, <2>2, <2>3 DEF RunFrom
  <2>5. \E f \in Nat : RunFrom(f)'
    BY <2>4, Zenon
  <2>. QED  BY <1>0, <2>1, <2>2, <2>5 DEF LatestInv
<1>4. ASSUME NEW v \in Viewers, Latest!Deliver(v) PROVE LatestInv'
  <2>1. Head(InFlight) \in Nat /\ Tail(InFlight) \in Seq(Nat)
    BY <1>0, <1>4, HeadTailProperties DEF Alive, Latest!Deliver
  <2>2. LatestTypeOK'
    BY <1>0, <1>4, <2>1 DEF Alive, Latest!Deliver
  <2>3. \A u \in Viewers : shown'[u] \in {shown[u], Head(InFlight)}
    BY <1>0, <1>4 DEF Alive, Latest!Deliver
  <2>4. Bounds' /\ RunFrom(first + 1)'
    BY <1>0, <1>4, <2>3, OldestLeaves DEF Alive, Latest!Deliver
  <2>5. \E f \in Nat : RunFrom(f)'
    BY <2>4, first + 1 \in Nat, Zenon
  <2>. QED  BY <2>2, <2>4, <2>5 DEF LatestInv
<1>5. CASE Latest!Crash
  <2>1. PICK n \in 0..Len(InFlight) : InFlight' = SubSeq(InFlight, 1, n)
    BY <1>5 DEF Alive, Latest!Crash
  <2>2. /\ InFlight' \in Seq(Nat) /\ Len(InFlight') = n
        /\ \A i \in 1..Len(InFlight') : InFlight'[i] = InFlight[i]
    BY <1>0, <2>1, SubSeqProperties, ElementOfSeq
  <2>3. Offered' = captured /\ ~Alive' /\ Alive' = FALSE
        /\ UNCHANGED <<captured, shown>>
    BY <1>5 DEF Alive, Latest!Crash
  <2>4. \A i \in 1..Len(InFlight') : InFlight'[i] = first + i - 1
    <3>1. \A i \in 1..Len(InFlight') : i \in 1..Len(InFlight)
      BY <1>0, <2>1, <2>2
    <3>2. \A i \in 1..Len(InFlight) : InFlight[i] = first + i - 1
      BY DEF RunFrom
    <3>. QED  BY <2>2, <3>1, <3>2
  <2>5. \A v \in Viewers : shown'[v] < first
    BY <2>3 DEF RunFrom
  <2>6. /\ first + Len(InFlight') <= Offered' + 1 /\ captured' <= first + Capacity
    BY <1>0, <2>2, <2>3 DEF RunFrom
  <2>7. RunFrom(first)'
    BY <2>3, <2>4, <2>5, <2>6 DEF RunFrom
  <2>8. \E f \in Nat : RunFrom(f)'
    BY <2>7, Zenon
  <2>9. Bounds'
    BY <1>0, <2>2, <2>3
  <2>10. LatestTypeOK'
    BY <1>0, <2>2, <2>3
  <2>. QED  BY <2>8, <2>9, <2>10 DEF LatestInv
<1>6. CASE UNCHANGED Latest!vars
  <2>1. RunFrom(first)'
    BY <1>6 DEF Alive, Latest!vars, RunFrom
  <2>2. \E f \in Nat : RunFrom(f)'
    BY <2>1, Zenon
  <2>. QED  BY <1>0, <1>6, <2>2 DEF Alive, Latest!vars, LatestInv
<1>. QED  BY <1>1, <1>2, <1>3, <1>4, <1>5, <1>6 DEF Latest!Next

-----------------------------------------------------------------------------
(* The delay of the stream is bounded: a frame that can still be shown is    *)
(* one of the newest Capacity + 1 (picamera.py:64, 121-128).                 *)
THEOREM StreamIsFresh == Spec => []FreshInFlight
<1>1. LatestInv => FreshInFlight
  <2> SUFFICES ASSUME LatestInv, NEW i \in 1..Len(InFlight)
               PROVE  captured <= InFlight[i] + Capacity
    BY DEF FreshInFlight, Latest!Fresh
  <2> PICK first \in Nat : RunFrom(first)
    BY DEF LatestInv
  <2>1. InFlight[i] = first + i - 1 /\ captured <= first + Capacity
    BY DEF RunFrom
  <2>2. captured \in Nat /\ i \in Nat \ {0}
    BY LenProperties DEF LatestInv, LatestTypeOK
  <2>. QED  BY <2>1, <2>2
<1>. QED
  BY <1>1, LatestInit, LatestStep, StreamImplementsLatestFrames, PTL
  DEF ImplementsLatestFrames, Latest!Spec

(* No browser sees a frame twice or out of order, nor one that is older than *)
(* a frame another browser has seen (picamera.py:161-171).                   *)
THEOREM StreamInOrder == Spec => InOrder
<1>1. ASSUME LatestInv, [Latest!Next]_(Latest!vars),
             NEW v \in Viewers, shown'[v] # shown[v], NEW w \in Viewers
      PROVE  shown[w] < shown'[v]
  <2> PICK first \in Nat : RunFrom(first)
    BY <1>1 DEF LatestInv
  <2>1. PICK u \in Viewers : Latest!Deliver(u)
    BY <1>1 DEF Latest!Next, Latest!vars, Latest!Capture, Latest!DropOldest,
                Latest!Offer, Latest!Crash
  <2>2. shown'[v] = InFlight[1] /\ 1 \in 1..Len(InFlight)
    BY <1>1, <2>1, HeadTailProperties, EmptySeq DEF Alive, Latest!Deliver, LatestInv, LatestTypeOK
  <2>. QED  BY <2>2 DEF RunFrom
<1>2. LatestInv /\ [Latest!Next]_(Latest!vars) =>
        [\A v \in Viewers : shown'[v] # shown[v] =>
            \A w \in Viewers : shown[w] < shown'[v]]_(Latest!vars)
  BY <1>1
<1>. QED
  BY <1>2, LatestInit, LatestStep, StreamImplementsLatestFrames, PTL
  DEF ImplementsLatestFrames, Latest!Spec, InOrder, Latest!DeliveredInOrder
=============================================================================
