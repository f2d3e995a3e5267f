------------------------ MODULE CameraStartup_proofs ------------------------
(***************************************************************************)
(* Proof that main's verdict on the camera process is the true one.  The   *)
(* argument: while main is still deciding, a worker that has left its      *)
(* except block has an error in status_queue, and it cannot exit while the *)
(* error is in its own deque; so a process found dead without a readable   *)
(* error was killed.                                                       *)
(***************************************************************************)
EXTENDS CameraStartup, TLAPS

Has(seq) == \E i \in DOMAIN seq : seq[i] = "error"

(* How many messages the worker may still put. *)
StillToPut == CASE worker \in {"starting", "started"} -> 2
                [] worker \in {"capturing", "failing"} -> 1
                [] OTHER -> 0

(* TypeOK without its bound on the number of messages, and the reason for it. *)
Types == /\ worker \in WorkerPC
         /\ backlog \in BOOLEAN
         /\ waiting \in Seq(Messages) /\ arrived \in Seq(Messages)
         /\ main \in MainPC
         /\ sigint \in BOOLEAN

Bounded == Len(waiting) + Len(arrived) + StillToPut <= 2

(* Errors come from workers that failed. *)
ErrorsAreReal == worker \in Unfailed => ~Has(waiting) /\ ~Has(arrived)

(* A worker that failed while main is deciding has reported it. *)
FailuresAreReported ==
    main \in Deciding =>
       /\ worker \in {"finally", "exiting"} => Has(waiting) \/ Has(arrived)
       /\ worker = "exited" => Has(arrived)

Quiet == main \in Deciding => ~sigint

DeadIsGone == main = "dead" => worker \in Gone

VerdictInv == Types /\ Bounded /\ ErrorsAreReal /\ FailuresAreReported /\ Quiet /\ DeadIsGone
              /\ VerdictIsTrue

-----------------------------------------------------------------------------
(* What putting, writing and reading do to the presence of an error. *)
LEMMA HasAppend ==
    ASSUME NEW s \in Seq(Messages), NEW m \in Messages
    PROVE  /\ Append(s, m) \in Seq(Messages)
           /\ Has(Append(s, m)) <=> Has(s) \/ m = "error"
<1>1. Append(s, m) \in Seq(Messages) /\ DOMAIN Append(s, m) = 1..(Len(s) + 1)
  OBVIOUS
<1>2. DOMAIN s = 1..Len(s) /\ Len(s) \in Nat
  OBVIOUS
<1>3. \A i \in 1..Len(s) : Append(s, m)[i] = s[i]
  OBVIOUS
<1>4. Append(s, m)[Len(s) + 1] = m
  OBVIOUS
<1>. QED  BY <1>1, <1>2, <1>3, <1>4 DEF Has

LEMMA HasTail ==
    ASSUME NEW s \in Seq(Messages), s # <<>>
    PROVE  /\ Head(s) \in Messages /\ Tail(s) \in Seq(Messages)
           /\ Has(s) <=> Has(Tail(s)) \/ Head(s) = "error"
<1>1. Head(s) \in Messages /\ Tail(s) \in Seq(Messages) /\ Len(s) \in Nat \ {0}
  OBVIOUS
<1>2. DOMAIN s = 1..Len(s) /\ DOMAIN Tail(s) = 1..(Len(s) - 1)
  OBVIOUS
<1>3. \A i \in 1..(Len(s) - 1) : Tail(s)[i] = s[i + 1]
  OBVIOUS
<1>4. Head(s) = s[1]
  OBVIOUS
<1>5. ASSUME Has(s)  PROVE Has(Tail(s)) \/ Head(s) = "error"
  <2>1. PICK i \in 1..Len(s) : s[i] = "error"
    BY <1>2, <1>5 DEF Has
  <2>2. CASE i = 1
    BY <1>4, <2>1, <2>2
  <2>3. CASE i # 1
    <3>1. i - 1 \in 1..(Len(s) - 1) /\ (i - 1) + 1 = i
      BY <1>1, <2>3
    <3>2. Tail(s)[i - 1] = "error"
      BY <1>3, <2>1, <3>1
    <3>. QED  BY <1>2, <3>1, <3>2 DEF Has
  <2>. QED  BY <2>2, <2>3
<1>6. ASSUME Has(Tail(s)) \/ Head(s) = "error"  PROVE Has(s)
  <2>1. CASE Head(s) = "error"
    <3>1. 1 \in 1..Len(s)
      BY <1>1
    <3>. QED  BY <1>2, <1>4, <2>1, <3>1 DEF Has
  <2>2. CASE Has(Tail(s))
    <3>1. PICK i \in 1..(Len(s) - 1) : Tail(s)[i] = "error"
      BY <1>2, <2>2 DEF Has
    <3>2. i + 1 \in 1..Len(s) /\ s[i + 1] = "error"
      BY <1>1, <1>3, <3>1
    <3>. QED  BY <1>2, <3>2 DEF Has
  <2>. QED  BY <1>6, <2>1, <2>2
<1>. QED  BY <1>1, <1>5, <1>6

LEMMA Lengths ==
    ASSUME NEW s \in Seq(Messages), NEW m \in Messages
    PROVE  /\ Len(s) \in Nat
           /\ Len(Append(s, m)) = Len(s) + 1
           /\ s # <<>> => Len(Tail(s)) = Len(s) - 1
  OBVIOUS

LEMMA EmptyHasNone == ~Has(<<>>) /\ Len(<<>>) = 0 /\ <<>> \in Seq(Messages)
  BY DEF Has

-----------------------------------------------------------------------------
LEMMA VerdictInit == Init => VerdictInv
<1>. SUFFICES ASSUME Init  PROVE VerdictInv
  OBVIOUS
<1>. USE DEF Init, WorkerPC, MainPC, Unfailed, Gone, Deciding, Verdicts
<1>1. Types
  BY EmptyHasNone DEF Types
<1>2. StillToPut = 2 /\ Len(waiting) = 0 /\ Len(arrived) = 0
  BY EmptyHasNone DEF StillToPut
<1>3. ErrorsAreReal /\ FailuresAreReported /\ Quiet /\ DeadIsGone /\ VerdictIsTrue
  BY EmptyHasNone DEF ErrorsAreReal, FailuresAreReported, Quiet, DeadIsGone, VerdictIsTrue
<1>. QED  BY <1>1, <1>2, <1>3 DEF VerdictInv, Bounded

(* A step that neither puts, writes nor reads a message. *)
LEMMA VerdictQuietStep ==
    ASSUME VerdictInv, UNCHANGED <<waiting, arrived>>,
           \/ CameraStarts \/ QueueFrame \/ CameraFails \/ StopCamera \/ WorkerExit
           \/ CheckAlive \/ NoMoreStatus \/ BrowserReads \/ PortTaken \/ CtrlC
           \/ WorkerInterrupted
    PROVE  VerdictInv'
<1>. USE DEF VerdictInv, Types, WorkerPC, MainPC, Unfailed, Gone, Deciding, Verdicts
<1>1. Types'
  BY DEF CameraStarts, QueueFrame, CameraFails, StopCamera, WorkerExit, CheckAlive,
         NoMoreStatus, BrowserReads, PortTaken, CtrlC, WorkerInterrupted, Goto
<1>2. Bounded'
  <2>1. StillToPut' <= StillToPut /\ StillToPut \in Nat /\ StillToPut' \in Nat
    BY DEF CameraStarts, QueueFrame, CameraFails, StopCamera, WorkerExit, CheckAlive,
           NoMoreStatus, BrowserReads, PortTaken, CtrlC, WorkerInterrupted, Goto, StillToPut
  <2>2. Len(waiting) \in Nat /\ Len(arrived) \in Nat
    OBVIOUS
  <2>. QED  BY <2>1, <2>2 DEF Bounded
<1>3. (Has(waiting))' = Has(waiting) /\ (Has(arrived))' = Has(arrived)
  BY DEF Has
<1>4. ErrorsAreReal'
  BY <1>3 DEF CameraStarts, QueueFrame, CameraFails, StopCamera, WorkerExit, CheckAlive,
         NoMoreStatus, BrowserReads, PortTaken, CtrlC, WorkerInterrupted, Goto, ErrorsAreReal
<1>5. FailuresAreReported' /\ Quiet' /\ DeadIsGone' /\ VerdictIsTrue'
  <2>1. ASSUME waiting = <<>>  PROVE ~Has(waiting)
    BY <2>1, EmptyHasNone
  <2>2. ASSUME arrived = <<>>  PROVE ~Has(arrived)
    BY <2>2, EmptyHasNone
  <2>. QED
    BY <1>3, <2>1, <2>2
    DEF CameraStarts, QueueFrame, CameraFails, StopCamera, WorkerExit, CheckAlive,
        NoMoreStatus, BrowserReads, PortTaken, CtrlC, WorkerInterrupted, Goto,
        FailuresAreReported, Quiet, DeadIsGone, VerdictIsTrue
<1>. QED  BY <1>1, <1>2, <1>4, <1>5

LEMMA VerdictStep == VerdictInv /\ [Next]_vars => VerdictInv'
<1>. SUFFICES ASSUME VerdictInv, [Next]_vars  PROVE VerdictInv'
  OBVIOUS
<1>. USE DEF VerdictInv, Types, WorkerPC, MainPC, Unfailed, Gone, Deciding, Verdicts, Messages
<1>1. CASE ReportStarted
  <2>1. waiting' \in Seq(Messages) /\ Len(waiting') = Len(waiting) + 1
        /\ ((Has(waiting))' <=> Has(waiting)) /\ ((Has(arrived))' <=> Has(arrived))
    BY <1>1, HasAppend, Lengths DEF ReportStarted, Has
  <2>2. Len(waiting) \in Nat /\ Len(arrived) \in Nat
    OBVIOUS
  <2>. QED  BY <1>1, <2>1, <2>2 DEF ReportStarted, Goto, Bounded, StillToPut, ErrorsAreReal,
              FailuresAreReported, Quiet, DeadIsGone, VerdictIsTrue
<1>2. CASE ReportError
  <2>1. waiting' \in Seq(Messages) /\ Len(waiting') = Len(waiting) + 1
        /\ (Has(waiting))' /\ ((Has(arrived))' <=> Has(arrived))
    BY <1>2, HasAppend, Lengths DEF ReportError, Has
  <2>2. Len(waiting) \in Nat /\ Len(arrived) \in Nat
    OBVIOUS
  <2>. QED  BY <1>2, <2>1, <2>2 DEF ReportError, Goto, Bounded, StillToPut, ErrorsAreReal,
              FailuresAreReported, Quiet, DeadIsGone, VerdictIsTrue
<1>3. CASE Feeder
  <2>1. waiting # <<>> /\ waiting' = Tail(waiting) /\ arrived' = Append(arrived, Head(waiting))
    BY <1>3 DEF Feeder
  <2>2. /\ waiting' \in Seq(Messages) /\ arrived' \in Seq(Messages)
        /\ Len(waiting') + Len(arrived') = Len(waiting) + Len(arrived)
        /\ Has(waiting) \/ Has(arrived) <=> (Has(waiting))' \/ (Has(arrived))'
        /\ Has(arrived) => (Has(arrived))'
    <3>1. Head(waiting) \in Messages /\ Tail(waiting) \in Seq(Messages)
          /\ (Has(waiting) <=> Has(Tail(waiting)) \/ Head(waiting) = "error")
      BY <2>1, HasTail
    <3>2. /\ Append(arrived, Head(waiting)) \in Seq(Messages)
          /\ Has(Append(arrived, Head(waiting))) <=> Has(arrived) \/ Head(waiting) = "error"
      BY <3>1, HasAppend
    <3>3. /\ Len(Tail(waiting)) = Len(waiting) - 1 /\ Len(waiting) \in Nat
          /\ Len(Append(arrived, Head(waiting))) = Len(arrived) + 1 /\ Len(arrived) \in Nat
      BY <2>1, <3>1, Lengths
    <3>4. (Has(waiting))' = Has(Tail(waiting))
          /\ (Has(arrived))' = Has(Append(arrived, Head(waiting)))
      BY <2>1 DEF Has
    <3>. QED  BY <2>1, <3>1, <3>2, <3>3, <3>4
  <2>3. UNCHANGED <<worker, backlog, main, sigint>> /\ worker \notin Gone
    BY <1>3 DEF Feeder
  <2>. QED  BY <2>2, <2>3 DEF Bounded, StillToPut, ErrorsAreReal,
              FailuresAreReported, Quiet, DeadIsGone, VerdictIsTrue
<1>4. CASE ReadStatus
  <2>1. /\ Head(arrived) \in Messages /\ arrived' \in Seq(Messages)
        /\ Len(arrived') = Len(arrived) - 1 /\ Len(arrived) \in Nat /\ Len(waiting) \in Nat
        /\ Has(arrived) <=> (Has(arrived))' \/ Head(arrived) = "error"
        /\ (Has(waiting))' <=> Has(waiting)
    <3>1. arrived # <<>> /\ arrived' = Tail(arrived) /\ waiting' = waiting
      BY <1>4 DEF ReadStatus
    <3>2. Head(arrived) \in Messages /\ Tail(arrived) \in Seq(Messages)
          /\ (Has(arrived) <=> Has(Tail(arrived)) \/ Head(arrived) = "error")
      BY <3>1, HasTail
    <3>3. Len(Tail(arrived)) = Len(arrived) - 1 /\ Len(arrived) \in Nat /\ Len(waiting) \in Nat
      BY <3>1, <3>2, Lengths
    <3>4. (Has(arrived))' = Has(Tail(arrived)) /\ (Has(waiting))' = Has(waiting)
      BY <3>1 DEF Has
    <3>. QED  BY <3>1, <3>2, <3>3, <3>4
  <2>. QED  BY <1>4, <2>1 DEF ReadStatus, Bounded, StillToPut, ErrorsAreReal,
              FailuresAreReported, Quiet, DeadIsGone, VerdictIsTrue
<1>5. CASE Die
  <2>1. /\ waiting' = <<>> /\ arrived' = arrived /\ worker' = "killed"
        /\ UNCHANGED <<backlog, main, sigint>>
    BY <1>5 DEF Die
  <2>2. Len(waiting') = 0 /\ waiting' \in Seq(Messages) /\ Len(waiting) \in Nat
        /\ Len(arrived) \in Nat
    BY <2>1, EmptyHasNone
  <2>. QED  BY <2>1, <2>2 DEF Bounded, StillToPut, ErrorsAreReal,
              FailuresAreReported, Quiet, DeadIsGone, VerdictIsTrue
<1>6. CASE UNCHANGED vars
  BY <1>6 DEF vars, Bounded, StillToPut, ErrorsAreReal, FailuresAreReported, Quiet,
              DeadIsGone, VerdictIsTrue, Has
<1>7. CASE UNCHANGED <<waiting, arrived>> /\ ~UNCHANGED vars /\ ~Die
           /\ ~ReportStarted /\ ~ReportError /\ ~Feeder /\ ~ReadStatus
  <2>1. \/ CameraStarts \/ QueueFrame \/ CameraFails \/ StopCamera \/ WorkerExit
        \/ CheckAlive \/ NoMoreStatus \/ BrowserReads \/ PortTaken \/ CtrlC
        \/ WorkerInterrupted
    BY <1>7 DEF Next, MainStep, WorkerStep, WorkerCrash, TerminateWorker
  <2>. QED  BY <1>7, <2>1, VerdictQuietStep
<1>8. \/ UNCHANGED <<waiting, arrived>> \/ Die \/ ReportStarted \/ ReportError
      \/ Feeder \/ ReadStatus
  BY DEF Next, MainStep, WorkerStep, WorkerCrash, TerminateWorker, CameraStarts, QueueFrame,
         CameraFails, StopCamera, WorkerExit, CheckAlive, NoMoreStatus, BrowserReads,
         PortTaken, CtrlC, WorkerInterrupted, vars
<1>. QED  BY <1>1, <1>2, <1>3, <1>4, <1>5, <1>6, <1>7, <1>8

LEMMA VerdictInvariant == Spec => []VerdictInv
  BY VerdictInit, VerdictStep, PTL DEF Spec

-----------------------------------------------------------------------------
(* Every variable keeps to its values, and a worker reports at most twice.   *)
THEOREM StartupTypeCorrect == Spec => []TypeOK
<1>1. VerdictInv => TypeOK
  <2>. SUFFICES ASSUME VerdictInv  PROVE TypeOK
    OBVIOUS
  <2>1. StillToPut \in Nat
    BY DEF StillToPut
  <2>2. Len(waiting) \in Nat /\ Len(arrived) \in Nat
    BY DEF VerdictInv, Types
  <2>. QED  BY <2>1, <2>2 DEF VerdictInv, Types, Bounded, TypeOK
<1>. QED  BY <1>1, VerdictInvariant, PTL

(* main's reason for refusing to serve is the true one, in every             *)
(* interleaving of the two processes and the feeder thread.                  *)
THEOREM VerdictCorrect == Spec => []VerdictIsTrue
<1>1. VerdictInv => VerdictIsTrue
  BY DEF VerdictInv
<1>. QED  BY <1>1, VerdictInvariant, PTL
=============================================================================
