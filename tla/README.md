# Verification of the vision_b camera and gaze-control programs

TLA+ models of the programs that run on the Raspberry Pi of the gaze-controlled robot camera, the TLC
configurations that check them on small instances, and proofs, checked by TLAPS, that hold for every value of the
constants. Line numbers refer to the sources under `src/`.

Short names: *picamera.py*, *testcamera.py* are in `src/vitamin_d/`; *sub_gaze_error_node.py*, *servo_node.py* are in
`src/vitamin_d_ws/src/vitamin_d/vitamin_d/`; the set-up scripts and the four design documents `01_…` to `04_….md` are in `src/`.

## 1. The system

```
  browser  <---- MJPEG over HTTP ----  picamera.py (Flask threads)  <-- frame_queue --  camera process
     |                                        main                  <-- status_queue --
     | the user looks at the picture
     v
  gaze tracker (laptop, not in the repository)
     |  /gaze_error (Vector3)
     v
  SubGazeErrorNode  -- /gaze_error_cmd (Vector3) -->  ServoNode  -- I2C -->  PCA9685 --> pan and tilt servo
```

`testcamera.py` is a stand-alone program that finds a way to get pictures at all; three shell scripts set up the
boot configuration it needs.

| component | state | operations | interacts through | hard because |
|---|---|---|---|---|
| camera stream (picamera.py:121-184) | the frame in the worker's hand, the queue's semaphore, deque, pipe and lock, one position per thread | capture, `put_latest_frame`, `generate_stream`, `video_feed` | `frame_queue` between two processes and a feeder thread | every step interleaves; `full()` and `get_nowait()` look at different things; the process may crash anywhere |
| start-up (picamera.py:131-158, 187-215) | both processes, `status_queue` | start, report, decide, serve, end | `status_queue`, `is_alive`, signals | several looks at another process, a fixed three seconds, Ctrl+C in both processes |
| SubGazeErrorNode | filter state per axis, inbox | constructor, `update`, callback | two topics | recursive filter, values that are no numbers, bounded history |
| ServoNode | believed angles, inbox, the call in progress, bus lock, chip outputs | constructor, callback, `set_servo_angles`, `destroy_node` | a topic, the I2C bus | every transfer may fail, KeyboardInterrupt between any two steps |
| gaze topics between the nodes | both nodes, what waits between them | look, publish, obey, restart | `/gaze_error`, `/gaze_error_cmd` | two processes with their own pace, messages lost while one is down, a recursive filter before an integrator |
| backend choice (testcamera.py:306-377) | parent, one child process per device, their queues | try raw, Picamera2, then each device, exit | `multiprocessing` queue, SIGTERM, join | hanging drivers, crashes without a message, a timeout that races the answer |
| raw stream (testcamera.py:166-303) | one thread, generator and v4l2-ctl per request, their pipes | configure, read, yield, leave, end the process | pipe, signals, one camera | partial reads, viewers that leave, a v4l2-ctl that hangs |
| set-up scripts | `config.txt` and its backups | repair, configure, fix | the files | may stop at any command and be run again |

What makes each correct is stated by the properties of section 4.

## 2. Modules

| module | models |
|---|---|
| `MpQueue` | CPython's `multiprocessing.Queue` as its users can interleave in it: slot semaphore, deque, feeder thread, pipe, readers' lock |
| `LatestFrames` | abstract specification of the stream: a bounded queue of the newest frames, each given to at most one viewer |
| `FrameStream` | `camera_worker`'s loop, `put_latest_frame`, `generate_stream`, `video_feed`, on top of `MpQueue`; implements `LatestFrames` |
| `CameraStartup` | `main` of picamera.py and the life of the camera process |
| `PyFloat` | Python's float comparison, `min`, `max` and arithmetic, with NaN and the infinities |
| `SubGazeErrorNode` | the filter node |
| `ServoNode` | the servo node with the I2C transfers of the vendored drivers |
| `GazePipeline` | both nodes as processes of their own over the topics between them; it uses `SubGazeErrorNode` and `ServoNode` by INSTANCE |
| `CameraFallback` | `main`, `try_opencv_device` and the child processes of testcamera.py |
| `RawCapture` | `iter_raw_frames`, `read_exact` and the threads of the raw `/video_feed` |
| `CameraOverlay` | the edits of `config.txt` and its backups |
| `MC…` | instances for TLC (values of the constants) |
| `…_proofs` | theorems and their proofs |

An operator marked *Mutant* in a module is a plausible bug of the definition that follows it. PROJECT.json pairs it with the
property it breaks; no specification uses it. PROJECT.json also maps each definition to its lines.

How states and actions correspond to the code:

* **FrameStream.** `captured` numbers the encoded frames, `pc[t]` is the place of the worker or of a Flask thread. One
  action is one step that another thread or process can see: the test of `full()` (CheckFull), taking the readers' lock,
  polling, receiving, giving back the slot and the lock (GetLock … GetUnlock, shared by `get_nowait` and `get(timeout=1)`),
  taking a slot and appending (PutWait, PutAppend). A frame whose `imencode` failed gets no number. A browser that went away
  is noticed only when a frame is written to it. WorkerCrash takes the process down at any point: deque and slots in its
  hand are lost, a lock it held stays locked, half a frame stays in the pipe.
* **CameraStartup.** A message put in `status_queue` is readable only after the feeder wrote it; a process that ends waits
  for its feeders; `empty()` and `get()` of the loops at 193-196 and 203-207 are ReadStatus and NoMoreStatus, `main`
  telling which loop it is in.
* **ServoNode.** A call of the node is `todo`, the sequence of bus transfers it still has to make, and `at` is where it is
  in the driver's `with` block. An exception leaves the call as in the code: out of the constructor it ends the process,
  out of the callback it leads to `destroy_node`, out of `destroy_node` it ends the process. Angles are integers in a unit
  in which gains are integers.
* **SubGazeErrorNode.** tan and sqrt make the coefficients irrational; the code only relies on b1 = 2 b0, b2 = b0 and
  4 b0 = 1 + a1 + a2, which lines 20-27 give for every accepted cutoff. The model takes fractions with these properties and
  rounds down to the unit in which values are given. A cutoff frequency that is NaN passes the constructor's two tests, as
  in the code, and makes every coefficient NaN.
* **GazePipeline.** Look is a message of the tracker, Publish the filter node's callback together with the delivery of its
  command, Obey the servo node's callback. A command reaches the servo node only while that spins (otherwise
  it is lost), and puts out the oldest one when the history is full. A transfer on the bus is one step here, since nothing
  outside the servo node sees its lock (`ServoNode` has the detail). RestartSub and RestartServo end a process at any
  moment and start a new one; the servos stay where they are. `seen`, `obeyed`, `looks` and `lost` only observe and bound.
* **CameraFallback.** The raw stream and Picamera2 are single steps, each device a child that may hang at any point
  (nothing makes it move). A child puts "ready" when it has read a frame (FirstFrame) and only then draws it (FirstPicture): its
  window may still fail in between. A message not yet written by its feeder is lost when the child dies. Exit is the end of the program, at which
  `multiprocessing` joins the children that are still alive, without a timeout, because they are no daemons.
* **RawCapture.** The bytes of one v4l2-ctl are numbered, so a pipe is two counters and a frame is right when it
  consists of the right numbers. The window of a machine with a display is one more request. ViewerGoes is a browser that closes its connection (or the
  key 'q'); the generator notices it only when it sends a frame (ViewerLeft). v4l2-ctl may write for ever: when as many frames as
  MaxFrames have been taken, all numbers go down by as many (Renumber), which keeps the model finite and every difference the same.
* **CameraOverlay.** The file is a function from line numbers to key/value lines, which leaves a gap where `sed d` deletes a
  line: what precedes what stays visible, and no proof has to renumber. Abort, at any command, is a failing command under `set -e`,
  an interrupt, or a power cut: `sed -i` replaces the file as a whole, `tee -a` appends in one write, and a `cp` may be cut
  off in the middle. What `tee -a` appends to a file that does not end in a newline is stuck to its last line (StickToLast) and
  ends with a newline, so that this happens once to a file at most; a `sed d` of the last line ends it, too. A line with text stuck to it is the same line
  with `glued` set: it matches what it matched, as the expressions only look at its beginning. Each backup has a name of its own, but the two of `fix_imx219_camera.sh` may be made in the
  same second, and then the second replaces the first. Runs started by hand are taken to be a second apart.

## 3. Findings

Each is a run that is expected to end with a counterexample, of one property that the repository itself states.

1. **`stream_blocks`: `put_latest_frame` may block for ever** (picamera.py:128). The queue can be full while the pipe is still
   empty, because the feeder has not written yet; `get_nowait` then raises Empty, the loop breaks, and `put` waits for a slot
   nobody will free when no browser is connected. 04_picamera_streaming.md:172 says that a full queue drops the old frame.
2. **`startup_serves`: main serves a camera that has not started** (picamera.py:203). After three seconds an empty
   `status_queue` counts as success. 04_picamera_streaming.md:234-238 has the check before the server.
3. **`servo_centred`: one failing transfer in `destroy_node` skips the rest** (servo_node.py:123-129), so that a servo stays
   off centre and the chip running. 03_servo_node.md:157 promises the centre and a shut-down PCA9685.
4. **`fallback_frames`: a raw stream without a frame counts as success** (testcamera.py:268) when there is a display: `main`
   returns normally and tries no other backend, although no backend produced frames (the message at 366-367).

Observations the models make explicit, about which the repository promises nothing: a NaN in a gaze error drives a servo
to its upper limit at once (`max(low, min(high, nan))`, servo_node.py:121), stays in the filter, and holds the servo
there until the *filter* node is restarted: restarting the servo node does not help (PoisonHoldsServo, RestartCures);
a reloaded page of the raw stream may get no pictures because the old v4l2-ctl still has the camera, for ever if that
hangs without ending (the premise of GoneViewerFreesCamera); the backup of `fix_imx219_camera.sh` may be
overwritten within the same second, and what is then lost of the original file is its `camera_auto_detect` line, and the clean form of a
last line without a newline (OriginalRecoverable); if `config.txt` does not end in a newline, the first line appended is stuck to its last one, and
`configure_camera_overlay.sh` completes without its overlay or without auto detection off, until it is run again (ConfiguredRight); "ready" is put before the first
frame is drawn, so `main` of testcamera.py returns as if all was well when the window fails right after it, and nobody has seen a picture (ReturnsAfterFrame);
the filter's overshoot hides in the servo node's dead zone only while errors stay below 18 times that zone, and noise only
while it stays below 8/9 of it.

## 4. Runs

Deadlock is checked in the stream runs: threads of a server never stop. In the others the process ends, or the bounded
number of runs or messages is used up, and the configuration says so.

| run | question | properties |
|---|---|---|
| `stream` | Can any interleaving lose a slot, orphan the lock, starve a reader, or show an old or repeated frame? Does a reader that began get its frame, and does a browser free a blocked worker? | TypeOK, LockDiscipline, SlotsConserved, CleanExit, ReaderIsServed, FreshInFlight, ImplementsLatestFrames, InOrder, ReadersReturn, ViewerFreesWorker |
| `stream_blocks` | finding 1 | PutLatestFrameReturns |
| `startup` | Is the verdict true, does a failure stop the start-up, does the worker end with main? | VerdictIsTrue, FailureStopsStartup, WorkerEndsWithMain |
| `startup_serves` | finding 2 | ServesStartedCamera |
| `filter` | Is the output the difference equation over the whole history, without transient; is a NaN ever forgotten? | SolvesEquation, ConstantPasses, PoisonedForEver |
| `servo` | Do failures and interrupts leave servos, beliefs, lock and chip consistent? | ServoWithinLimits, BeliefMatchesServos, CleanShutdown, LockBalanced, BoundedStep, ShutdownEnds |
| `servo_centred` | finding 3 | EndsCentred |
| `gaze` | From the raw error to the servo, whatever is lost, fails or is restarted: does the camera follow the newest commands, keep still when it should, and recover from a poisoned filter? | NewestCommands, PoisonHoldsServo, RestartCures, NoiseMovesNothing, NoTurningBack, SpeedLimited, RestsAtCentre |
| `fallback` | Do hanging, crashing and late children stop the search or the exit of the program, or keep the camera? | LeftoversAreDying, ReturnsAfterFrame, FallbackEnds |
| `fallback_frames` | finding 4 | ReturnsOnlyWithFrames |
| `raw` | Are frames whole, is v4l2-ctl always ended, is the camera given back, also by a browser that just goes? | WholeFrames, EndsWithProcess, NoOrphan, CameraReleased, GoneViewerFreesCamera |
| `overlay` | Is a completed configuration right after any history of cut-off and repeated runs, what becomes of a file without a final newline, and can the original be found again? | ConfiguredRight, OthersKept, OriginalRecoverable |

The type invariants of the other modules are not among the properties of the runs: they are proved (section 5), and
`CameraOverlay`'s and `GazePipeline`'s variables are covered by the properties themselves.

Bounds, and why they are enough:

* `stream`: Capacity 2 as in the code (line 64), two browsers, five frames: the queue fills, overflows twice, and both browsers
  and the worker contend for the lock. The pipe holds no whole frame (PipeFrames = 0), as a JPEG may well be larger than a
  pipe: the feeder then needs a reader to finish a frame, which is the harder case for liveness. That safety does not depend on
  the pipe is proved; `stream_blocks` has a pipe of one frame.
* `startup`: no constants; all states are explored.
* `servo`: one unit is about 20 degrees, the parameters have the shape of the defaults, except that pan may be sent
  beyond what the servo accepts, so that the driver's ValueError happens; errors inside and outside the dead zone, both
  signs, NaN and infinities; history 1, so that messages are dropped; up to two Ctrl+C, the second in the shutdown.
* `filter`: four messages reach past the memory of two; x takes numbers, NaN and an infinity, y two numbers; cutoffs below, in and
  above the accepted range, and NaN.
* `gaze`: the servo node's default parameters; the filter at 30 Hz with a cutoff of 3 Hz instead of the default 1 Hz, with
  which TLC can follow its response to the end (Settling = 6 messages) in eight messages per filter process. x takes noise
  on both sides of zero (just under the 8/9 of the dead zone up to which the filter's impulse response cannot
  add up to more than the dead zone), a look to one side at 18 times the dead zone (the largest whose overshoot
  stays inside it), and NaN; y a constant look. The coefficients are fractions over 3469 that agree with the real ones to
  1/100000 and make the unit gain exact; a unit is 1/1000 of the gaze error's. RestsAtCentre excepts histories in which the raw errors spread over
  more than 18 dead zones (here: noise to the left and a look to the right), because after such a jump Settling messages are not enough. The tracker publishes three free messages and then repeats the last (MaxLooks), so
  that a change of gaze and a rest after it both occur. History 2, so that a command put out leaves another one waiting before the new one, one command lost by a slow servo node (MaxLost) and one failure
  or restart of either node (MaxMishaps) at any moment. The run shows NoiseMovesNothing, NoTurningBack, SpeedLimited and RestsAtCentre for this
  cutoff and these histories; section 5 proves them for every history, at 1 Hz too, and the other three properties for all filters.
* `fallback`: three devices: one that failed, one being tried, one to come.
* `raw`: two requests for one camera, frames of three bytes in an endless stream whose numbers start anew after every two frames
  (two are enough to see a repeated or swapped one). Reads and writes have any size up to the pipe's
  three bytes, so that it can hold the end of a frame and the start of the next, and has all behaviours of a smaller one, such as the real pipe, which
  holds less than a frame.
* `overlay`: three runs (the shortest history that cuts a run off, cuts off its repetition, and completes a third), sensors the script knows, one it does not (imx708), one without a .dtbo; files with
  each kind of line once, twice or not at all, and files without a final newline with each kind of line last.

Fairness:

* FrameStream: every thread that can run is scheduled (WF on the worker's steps that do not wait for the camera, the
  feeder, each thread's `get`). Nothing is assumed of cameras, browsers, or who wins a contended lock.
* CameraStartup: both processes and the feeder are scheduled and three seconds pass. `WorkerEndsWithMain` includes the
  termination of a daemon process by `multiprocessing` at exit.
* ServoNode: the process runs when it can; message arrival and Ctrl+C are not fair.
* CameraFallback: the parent runs and its timeouts expire, and a child that has reported its error exits; children may otherwise hang anywhere, for
  ever. Nothing is assumed of SIGTERM: if a terminated child hangs in the driver, the program may wait for it at its exit, which FallbackEnds
  names as an exception. No liveness is claimed of a child that has put "ready": `join()` then waits for the user.
* RawCapture: threads run, two seconds pass, SIGKILL works, and `imencode` does not fail for every frame (strong fairness of YieldFrame);
  v4l2-ctl may hang, or go on sending, and ignore SIGTERM. A socket whose browser is
  gone does not take frames for ever (strong fairness of ViewerLeft), which is TCP's doing. GoneViewerFreesCamera assumes in its statement that v4l2-ctl does not
  fall silent for good: read has no timeout.
* GazePipeline, SubGazeErrorNode, CameraOverlay: none, they state safety only. RestsAtCentre is about steps: once the errors have been zero for the
  settling time no step turns a servo.

## 5. Proofs

TLAPS checks these for every value of the constants that satisfies the named assumptions of the modules (`QueueAssumption`,
`StreamAssumption`, `FloatAssumption`, `ServoAssumption`, `FilterAssumption`, `PipelineAssumption`, `DeviceAssumption`,
`RawAssumption`, `OverlayAssumption`), which TLC evaluates in the runs. Hypotheses beyond these are named in the theorem.

* **FrameStream_proofs** (any capacity, pipe and number of viewers). `TypeCorrect`, `LockCorrect`, `SlotsCorrect`,
  `ReaderServed`, `ExitIsClean`. LockDiscipline is inductive with TypeOK. Slots are counted with it: because only the lock's holder
  can be between reading an object and giving its slot back, at most one slot is in a reader's hand. ReaderIsServed
  needs that half a frame in the pipe means the feeder still holds it, as long as the process lives (WriterHolds).
  `StreamImplementsLatestFrames` is the refinement: the abstract queue is pipe, feeder and deque one after the other; the feeder's steps and the
  lock's are stutters, a receive is Deliver in a viewer and DropOldest in the worker, PutAppend is Offer. `StreamIsFresh` and
  `StreamInOrder` use nothing but this refinement: in LatestFrames what is in flight is a run of consecutive frame numbers that ends with
  the newest frame offered, begins after all frames shown, and begins recently (LatestInv, inductive under LatestFrames' own steps).
* **CameraStartup_proofs**: `StartupTypeCorrect` and `VerdictCorrect`. While main is deciding, a worker that has left its except block has an error in
  `status_queue`, and cannot exit while the error is in its own deque; so one found dead without a readable error was killed.
  The type invariant needs the count of messages the worker may still put.
* **ServoNode_proofs**: `ServoTypeCorrect`, `ServosStayWithinLimits`, `BeliefIsTrue`, `ShutdownIsClean`, `LockIsBalanced`, `StepIsBounded`. The
  inductive invariant says of each phase which suffixes of its call may remain and what the finished transfers have
  established (ConstructSuffix, SpinSuffix, DestroySuffix), that angles are always allowed ones, whatever a message holds, and that a transfer in
  progress holds the lock. So parameters nothing checks (an empty range, a range beyond the servo's) are covered too.
* **SubGazeErrorNode_proofs**: `FilterTypeCorrect`, `OutputSolvesEquation`, `ConstantSignalPasses`, `PoisonStays`. The invariant Remembers ties the
  four numbers of each filter to the inputs and outputs of the last two messages; FiniteStays adds that a filter that was only
  fed numbers still gives numbers.
  The second half bounds the outputs, for coefficients that agree to 1/100000 with those of 1 Hz (the node's default) or 3 Hz at the default 30 Hz, and
  for every history of numbers: `OvershootBounded` (raw errors in an interval of length W come out no more than W/18 beyond either
  end of it) and `HistoryForgotten` (after Fading messages with one value, 17 at 1 Hz and 6 at 3 Hz, the output is within W/18 of that
  value, whatever came before). The filter's next output depends on the past through two sums, Carry1 and Carry2. The
  invariant Calm is a polygon of such pairs, an intersection of strips, that every input in the interval maps into itself (CalmStep) and that contains
  the start (CalmStart); the strips were found numerically, and the prover checks the linear inequalities that make them an invariant. Residual shows that
  rounding to the unit and to the coefficients adds little, provided that W is at least Coarsest units (14000 and 3000), which is a matter of
  choosing the unit. The step from one output to the whole history is induction over a set (SetInduction, from the well-foundedness of <), because
  the induction theorem of the library takes an operator.
* **GazePipeline_proofs**: `ServoHearsNewest`, `PoisonIsHeld`, `RestartIsCure`. The invariant PipeInv is the filter node's own invariant, instantiated, with what lies
  between the nodes. A step of the pipeline is, for the filter node, one of its own steps, a stutter, or a fresh
  start, so its invariant is carried over from SubGazeErrorNode_proofs (SameNode, NodeStep, FreshStart). PoisonHoldsServo then
  needs NewestCommands: the command at the head of the servo node's inbox is the one `obeyed` will name, and a command that is not
  finite leaves the angle at a limit, for any gain that is an integer (ObeyedAngle).
  `NoiseIsIgnored`, `OvershootHidden`, `SpeedIsLimited` and `CentreIsRest` hold for any number of messages, losses, failures and restarts, any history depth,
  gains, limits and raw errors, under the hypothesis Calibrated: the cutoff is one of the two above, the unit is fine enough for the dead zone, Settling is
  at least the filter's Fading, and the servos' centres are within their limits (a parameter nothing checks; a centre outside would be pulled in by the first
  command, a turn that no error caused). The instance of the run `gaze` satisfies it; so do the default parameters at 1 Hz in a unit of 1/4500 of
  the gaze error's. The invariant TameInv adds to PipeInv that every command waiting for the servo node, also one of an earlier filter process, is
  within the bounds of OvershootBounded for the raw errors seen so far (Tame), and that the angle is in its range. Commands stay
  tame, since seeing more raw errors only widens the bounds (StaysTame); only a command turns a servo
  (OnlyCommandsTurn), and a command turns it as the dead zone and the clamp allow (TurnedAngle).
* **CameraFallback_proofs** (any list of different devices): `FallbackTypeCorrect`, `NoChildLeftBehind`, `FrameBeforeReturn`. A message may be read long
  after it was put, when its child is gone; the invariant therefore says what each message stands for as long as it exists
  (MessagesTrue), how many a child can have put (MessageCount), and what main has learnt from them (ParentKnows). FreshDevices keeps a device from
  being tried twice.
* **RawCapture_proofs**: `RawTypeCorrect`, `FramesAreWhole`, `StreamEndsWithProcess`, `NoProcessOrphaned`. The bytes in `read_exact`'s hands are the
  last ones taken from the pipe and begin at a frame boundary; every frame sent ended before them.
  NextFrameKeeps shows that numbering the bytes anew keeps this (RenumberedStarts: frames still begin where they did).
* **CameraOverlay_proofs** (files of any length, any number of runs): `ConfigurationIsRight`, `OtherLinesKept`, `OriginalSurvives`. Each command of the
  scripts has done its part (Phases: what the file is known to hold when a run has come so far), whatever a cut-off run left behind. As long as the
  file has no final newline, its last line is the original one (FileOK), so text is stuck to that line only (Stuck, AppendKeeps), and what the run has established then
  holds unless it is `stuck` (Edited). For the
  backups the invariant is BackedUp: no line is deleted before there is a copy of it which no later run overwrites.

Only model-checked:

* all liveness properties (ReadersReturn, ViewerFreesWorker, FailureStopsStartup, WorkerEndsWithMain, ShutdownEnds, FallbackEnds,
  CameraReleased, GoneViewerFreesCamera), which the prover cannot treat under fairness.

Every safety property of the runs is proved. What the proofs leave open are cutoff frequencies other than 1 and 3 Hz for the four properties of the
overshoot: its size depends on the coefficients.

## 6. What is not modelled

* The gaze tracker: it is not in the repository. It appears as the messages a node may receive.
* `bootstrap_rpi_libs`: environment variables and at most one re-exec, which a variable the process sets itself guards, before
  anything runs concurrently: a model would restate its `if`.
* Pages, addresses and diagnostics (`index`, `get_local_ip`, `print_camera_status`): output only.
* testcamera.py:380-626 (string literals), `capture_raw_frame_once` (no caller).
* Ctrl+C in testcamera.py: it ends parent, children and v4l2-ctl together. In the nodes, Ctrl+C is modelled as the
  KeyboardInterrupt `main` handles; `rclpy`'s own shutdown is left out.
* Package installation by the scripts.
* Everything vendored or generated: Debian packages, toolchains, the Python environment, colcon's trees. All C and C++ code of the repository
  (some 600,000 lines, nearly all of it headers of gcc, libstdc++ and the Linux kernel) is of this kind, and none of it is code of this program: the
  program itself is about a thousand lines of Python and shell. Of the I2C drivers, what servo_node.py uses is part of ServoNode.
* Rounding and overflow of finite floats.

## 7. Plan

The modules were written in this order: MpQueue, LatestFrames, FrameStream (the only part with real concurrency
between processes), ServoNode (the only part that moves something), CameraStartup, SubGazeErrorNode, CameraFallback, RawCapture,
CameraOverlay, GazePipeline. What is left:

1. Start-up and stream together: a camera process that fails after main has begun to serve, and what the browsers then see.
   Each half is modelled; the composition would add that `status_queue` and `frame_queue` have a feeder each.
2. `CameraFallback` with `RawCapture` as its first backend, instead of the single steps RawShows and RawStreamEnds.
3. Ctrl+C in testcamera.py, in particular while a child hangs in a driver and has not been sent SIGTERM.
4. The overshoot's bounds for a range of cutoff frequencies instead of two, with a polygon that depends on the coefficients.
