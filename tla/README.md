# A verification of the SAS door controller

The repository is the program of an automatic door on a ZYBO board: a distance sensor notices
somebody approaching, an FPGA looks for a human in the camera image, the speed of the approach
decides when the door opens, a picture is taken and sent to a face recognition in the cloud, and
the door closes when nobody is left. This directory holds TLA+ models of its control, TLC runs
on small instances, and TLAPS proofs of the properties that hold for every value of the constants.

There is no documentation beside the code. What the program is meant to do is taken from the
comments of the source; every definition is translated from the code itself. Line numbers below
are those of the files under `src/`.

## 1. The system

| Part | Source | State | Operations | Talks to |
|---|---|---|---|---|
| Main control loop | `src/main.c` | `status`, `taking_picture` | entry function per status, one transition per message, picture | commands ranging through `range_status` and `picture`; requests detections through `fpgamsg`; reads `sas_msg` |
| Ranging thread | `src/range.c` | `range_status`, `picture`, `has_taken`, `open_timing`, and the locals of `ranging` (`buf`, `open_wait`, the sums of the speed stage) | every 20 ms: sample, detect, estimate speed, open, close, picture | reports to `sas_msg`; drives the motor |
| Human detection | `src/fpgadrv.c` | `detectstatus`, `count`, `hogbase`, `HogBin` | `init_fpga` starts it, `exec_humandetect` starts a detection per request, `adaboostthread` classifies the features of up to five image scales with `exec_adaboost` and answers | `fpgamsg`, `sas_msg`, ioctls of the driver, the camera |
| FPGA driver | `module/fpgamod.c` | `wait_status`, registers 0x32 to 0x40, what is registered and mapped | `fpga_init`, `fpga_exit`, `fpga_get_hog`, `fpga_detect_human_hog10..18`, interrupt handler | the FPGA |
| Message queues | `src/msgQLib.cpp` | POSIX queues of the kernel | `msgQCreate`, `msgQSend`, `msgQReceive`, `msgQDelete` (never called) | all threads |
| Motor | `src/motor.c` | SPI device | initialise, open, close, four speeds | called by main and ranging |
| Camera | `src/camera.cpp` | frame buffers, one `tmpframe` | `readCamera`, `setDisplay` | called by main and by the detection |
| Pictures, upload | `cameramain.cpp`, `aws.cpp` | files in `./output` | `take_picture`, S3 and HTTPS requests | called by main; the bucket and the cloud function |
| Software HOG | `src/hog_soft.cpp` | none | image arithmetic of the thread `cameramain`, which nothing starts | - |
| Cloud function | `cloud/Lambda/lambda.py` | none | validate, search a face, mail, log | Rekognition, SNS, IoT |
| Web application | `cloud/WebApp` | none | list and view log records | DynamoDB |
| Headers, libraries | `include`, `include_usr`, `lib` | | third-party code | |

Four threads run: main, `ranging`, `exec_humandetect`, `adaboostthread`; the interrupt handler is
a fifth party. They are synchronised by the message queues only. The shared variables are plain
`int`s and are read and written with no lock.

What is hard about it:

- the ranging thread looks at `range_status` and then resets it, while main may be writing it;
- passes can be abandoned at any time by `disappear_object`, and the locals of `ranging` outlive them;
- start requests are dropped while a detection is under way, and the test comes seconds after the
  request was taken;
- `wait_status` is set by an interrupt and cleared at three places;
- everybody sends to a bounded queue which only main reads, and main sends as well;
- the main thread and the detection read the camera through one temporary frame, without a lock;
- a picture goes through five services, each of which may fail after the one before has done its work;
- errors end threads for good, and the program may be started anew with its old queues in the kernel.

What makes each part correct:

- **main**: every pass ends; it never waits for a report nobody will give; it gets one answer per pass.
- **ranging**: a command is carried out or replaced, never lost; the door is open only in a pass and
  is closed in the end; reports say what has happened; an estimate is usable and bounded.
- **detection**: one answer per accepted request, for features of the scale that was asked for; no
  interrupt is lost for good.
- **start**: whatever call fails, nothing is left behind in the kernel, and no handler runs without its registers.
- **pictures**: they show what was there when they were taken; mail, log record, picture and printed answer
  agree; main gets back to the door.
- **queues**: a bounded FIFO, across signals, errors and restarts; no leak, no endless retry.

## 2. The modules

| Module | Models | Remarks |
|---|---|---|
| `SasShared` | queues and shared variables | `sas_msg` is a sequence of sets: a message is the set of the flags raised in its ten bytes. `fpgamsg` is a number, as all requests are equal. `Timing` names the assumptions below |
| `MainLoop` | `main.c` | one action per entry function, `Receive` for the whole switch, `TakePicture` |
| `Ranging` | `ranging` in `range.c` | `stage` and `step` say where in a cycle the thread is. Each access to a shared variable is a step of its own: decide, send, check, reset, clean up |
| `SpeedCalc` | the speed stage, lines 337 to 420 | one action per branch for a completed window. `Ranging` uses it through the set `Averages` |
| `Motor` | `motor.c`, the motor driver it writes to | the speed register with its swapped bytes; the chip turns the door at that speed, 39 microsteps per unit and sample (15.26 full steps per second, 128 microsteps each) |
| `Opening` | `SpeedCalc` and `Motor` composed: lines 391 to 400 and 424 to 481 | from the estimate to the report that the door is open, with the real 200 samples of `OPEN_WAIT_TIME` |
| `SpeedHistory` | `SpeedCalc` with history variables | the true window sum and the true approach of an estimate |
| `Detector` | what the human detection promises | take, accept or drop a request; answer; finish |
| `DetectorAlone` | `Detector` as a specification of its own, with an environment | abstract side of the refinement |
| `HumanDetect` | `fpgadrv.c`, `fpgamod.c`, the FPGA | statement by statement; implements `DetectorAlone` |
| `Adaboost` | `exec_adaboost` | copy, then one step per window; the guard of line 320 with the arithmetic of `size_t`. What lies behind `HogBin` is a free choice for every weak classifier; that the read ends the program is `ReadBeyond` of `StartUp` |
| `FpgaLoad` | `fpga_init`, `fpga_exit` | what is registered and mapped, call by call |
| `StartUp` | `init_fpga`, and the composition of `HumanDetect`, `Adaboost`, `FpgaLoad` | from the loading of the driver to its unloading; every call may fail |
| `Camera` | `readCamera` called by two threads | every line of `tmpframe` and of the picture has an age instead of a content |
| `Cloud` | `lambda.py`, `view` of the web application; S3, the topic, its rule and the table as external parts | one action per call of `create_response`, each of which may fail or be the last |
| `Picture` | `take_picture`, `aws.cpp`, and the composition with `Camera` and `Cloud` | one picture at a time, as in main; exceptions end the process, which may be restarted; a connection lost without a sign keeps main for ever |
| `MessageQueue` | what `msgQLib` promises | bounded FIFO with calls that succeed or fail, and restarts |
| `MsgQLib` | `msgQLib.cpp` on the kernel's queues | implements `MessageQueue` |
| `Pass` | what the controller promises of one person's pass | no threads, no queues: how far the pass has got, the door, and whether a picture is being uploaded |
| `DoorControl` | main, ranging and `Detector` together | the properties of the whole; implements `Pass` |
| `MCDoor`, `MCStartUp`, `MCPicture` | constants for TLC | |
| `DoorControlProofs`, `PassProofs`, `SpeedCalcProofs`, `OpeningProofs`, `HumanDetectProofs`, `StartUpProofs`, `PictureProofs`, `MsgQLibProofs` | theorems | |

`DoorControl` contains the abstract `Detector` in place of `HumanDetect`: that the code may stand in
for it is the refinement checked by run `Human` and proved as `CodeKeepsPromise` and, with the start of the
program, as `ProgramKeepsPromise`. That refinement is about the detection in an environment that makes requests,
sends other messages and takes messages; that `DoorControl` is such an environment is `DetectorInPlace`, where
`Seen` replaces every message that is no answer by one and the same. `TakePicture` of `MainLoop` is one step that keeps main busy; what happens
inside it is `Picture`, and that it comes to an end is `PictureEnds`. In the same way
`Send` and `Receive` of `SasShared` and `MainLoop` take `msgQLib` for the FIFO `MsgQLib` is shown to be.

Correspondence worth knowing:

- `mpc = "enter"` is the top of the loop of `main`. The entry function runs again after *every*
  message, as in the code, so `start_process` may request a second detection.
- `OpenStage` increments `open_wait` twice in the cycle that calls `motor_open` (lines 429 and 437).
- `Promise` of `DoorControl` maps `status`, `door` and `taking_picture` to the variables of `Pass`. One action of
  `Pass` stands for a message, from the report to the transition it causes in main; what happens in
  between are stutters. `Pass` does not say that the door is open when `DoorReported` happens: it need not be
  (run `Door_openwait`). Nor does it say that a pass has one picture: `prepare_picture` may set `picture` just after
  the ranging thread has asked for one.
- In `Opening` every motor write may fail, and `lost` remembers it for the pass. The slow speed is an exception
  of `DoorOpenWhenTold`: half of `MOTOR_SET_SPEED` is 0x0080, which arrives as 0 (even half a unit would need 8
  seconds for the quarter turn), and the wait stays 4 seconds. Somebody slow is told that the door is open
  before it is, against the comment of line 435. Acceleration is left out, as is a command to open that
  is replaced while it is carried out, which is the subject of run `Door_openwait`.
- `buf` (range.c 189) is never initialised: `rbuf` starts as `StackResidue`, any set of flags, and a report sends
  the whole of it. `OneResultPerMessage` and `DetectorInPlace` hold for every `StackResidue`. The properties of a pass
  do not: flags that belong to the detection are cleared by no stage, and a `disappear_object` in every report would
  abandon every pass. Their runs and theorems take a `buf` that starts out clean.
- `wait_event_interruptible` also returns when a signal comes, and `fpga_get_hog` does not look at its result:
  `WakeUpBySignal` takes features nobody has announced. `history` of `HumanDetect` is no variable of the code. It
  remembers that a frame was begun before the last answer (`"early"`), and that a signal, or a detection begun
  with such a frame while `adaboostthread` was on its way back from the answer, has disturbed the way from an
  interrupt to the classifier (`"disturbed"`); `FreshFeatures` excepts the latter and nothing else.
- `detectstatus = 2` is the time from power-up to the first answer. The driver's set-up never writes
  the registers that start a run, so the code relies on an FPGA that comes up running and
  interrupts once: otherwise no request would ever be accepted. The initial state of `HumanDetect`
  says so; it is an assumption about the hardware. The same goes for the interrupt: `fpga_init` writes 0 to
  register 0x34 under the comment 割り込み有効 (interrupt on, line 191), the handler writes 0 to it under
  割り込み停止 (interrupt off, line 80). The model follows the first for the load and the second for the handler.
- In `StartUp` the threads of `HumanDetect` move only after their `pthread_create`, and `hogbase` is mapped
  after both: `ReadUnmapped` is the null pointer read in between. The interrupt waits in the device until
  there is a handler. A window at the lower edge makes a classifier read behind `HogBin` (line 322), which
  finds anything, or ends the program (`ReadBeyond`). Neither end is flagged by a property: no text of the
  repository promises that the program comes up or stays up, and the code does not see to it.
- In `Camera` a load and a store of `memcpy` are two steps per line, so that the copies of the two threads
  interleave; so are the lines main converts. The image of the detection only goes to the display, and its
  conversion is one step. `"old"` is what was loaded in a call that was over before main's began, `"recent"` what
  a call under way at the time, or a later one, has loaded. When the jpeg file is written the image has had its
  use, and its ages are forgotten.
- In `Cloud` seconds stand for names and keys, as in the code: `Datetime` is the key of the table, and the name
  of a picture is the second it was taken in. `log` therefore keeps at most one record per second, and a second
  picture of the same second replaces the file and the object of the first. `taken` of `Picture`, no variable of
  the code, remembers the second of every picture.
- `search_post` takes a body with a `statusCode` for an answer of `load_json` and gives it back before any check
  (lambda.py 161 to 162). `ReturnBody` does so for a test whose body brings one, with whatever code it carries;
  a body that merely contains the word has no code to give.
- curl is given no timeout (aws.cpp 154 to 155). `CutOff` is a connection that is lost without a sign: main waits for
  ever, the detection runs on, and only somebody who ends the process (`Killed`) gets the board out of it.
- `checkforResult` gives up when the files *do* exist (models.py, line 69), although the comment above it says
  ない場合には404エラーを返す (a 404 if they do not). `Page` follows the code. `root` says whether the pictures
  are reachable under `/static` at the root of the file system, where the code looks for them: if they are, no
  record with a picture is ever shown.
- A thread that returns after an error is in stage `exited` for good, as `initial_flag` stays set.

### Timing

With `Timing = {}` every interleaving is possible. Some properties hold only because the board is fast
enough, and the assumption is then named in the run:

- `"prompt"`: in the 20 ms between two samples main deals with the messages it has, and reading a camera
  frame of 1280 x 720 pixels takes longer than the few instructions between an answer and
  `detectstatus=0` (fpgadrv.c 110 to 111), or between a report and the end of its stage. In `HumanDetect` this
  binds only frames that are begun after the answer: they are not there before `adaboostthread` is back at its
  wait. One that was begun earlier, for a second request, may be there at any point of that way. In the whole
  program there is no such frame: `RequestAfterAnswer` shows that main, ranging and the detection never leave a
  request in `fpgamsg` while a detection is under way.
- `"settled"`: nobody comes before the detection of power-up has been answered.
- `"atomic_reset"`: the test and the reset of `range_status` are not separated by a command of main.
  They are two instructions apart, but nothing excludes it: run `Door_reset` shows the separation.

### Fairness

`ThreadsRun`: weak fairness of every thread, which the scheduler of Linux gives to threads of equal
priority; it includes that the FPGA finishes its runs and interrupts, and that an upload ends: a connection that is
lost without a sign (`CutOff` of `Picture`) would keep main for ever, and with it the pass. `PeopleComeAndGo`: every
distance in `Readings` is seen again and again, and somebody who keeps coming closer lets the speed
estimate end. This is an assumption about people and not about the code; without it no pass ends, as
somebody may stand in the door for ever. In `StartUp` every thread and call of `init_fpga` is weakly fair,
main keeps reading its queue, and sending is strongly fair, because other senders compete for the room; signals
and reads behind `HogBin` need not happen.
In `Picture` the steps of `take_picture` and of a run of the cloud function are weakly fair, the latter
because a function is stopped after a while. So an answer that has been given reaches main unless the connection is
lost first, which may happen at any time, with an error (`AnswerLost`) or without a sign (`CutOff`): `PictureEnds`
counts the wait after `CutOff` as an end of its own, because nothing in the code ends it. Nothing is assumed of the
clock. In `MsgQLib` the receiver is weakly fair, and strongly
fair for the call of `mq_receive`: signals do not interrupt it for ever.

## 3. The runs

| Run | Assumes | Shows |
|---|---|---|
| `Door_async` | nothing on timing, queues of one message, `recognize_result` left in `buf` by the stack | `TypeOK`; `OneResultPerMessage`; `DetectorInPlace` (refinement); `NobodyStuckSending` |
| `Door_pass` | `prompt`, `settled`, a clean `buf`; any set-up or send may fail | `AnswerPending`; `NoNestedDetection` (both proved without `settled`); `OneAnswerPerPass`; `RequestAfterAnswer`; `OpenOnlyInPass`; `PictureBelongsToPass`; `CarriesOutPasses` (refinement) |
| `Door_live` | `prompt`, `settled`, `atomic_reset`, a clean `buf`, uploads that end, fairness | `CommandNotLost`; `PassEnds`; `DoorCloses` |
| `Human` | `prompt`, fairness | `StartTypeOK`; `FreshFeatures`; `KeepsPromise` (refinement); `DetectionEnds`; `NoHumanMissed`; `HandlerMapped`; `FailedLoadLeavesNothing` |
| `Picture` | fairness | `TypeOK`; `PictureNotStale`; `LoggedWasMailed`; `SuccessIsRecorded`; `RecordHasPicture`; `RecordShowsPicture`; `BadRequestHarmless`; `PictureEnds` |
| `Speed_pass` | nothing | `OpeningTypeOK`; `SampleCountInRange`; `EstimateUsable`; `MicroAverageBounded`; `DriftBounded`; `DoorOpenWhenTold` |
| `MsgQ` | fairness | `TypeOK`; `KeepsPromise` (refinement); `BufferFreed`; `EnlargedOnce`; `MessageTaken` |
| `Door_reset` | `prompt`, `settled`, a clean `buf` | violated: a command is wiped out between line 327 and line 328 of `range.c` |
| `Door_openwait` | all three, a clean `buf` | violated: `open_result` without `motor_open`, after a pass in which main gave the command to open twice |
| `Door_leftopen` | `prompt`, `atomic_reset`, a clean `buf`, fairness | violated: the answer of power-up ends a pass that has opened the door, which stays open |
| `Speed_micro` | nothing | violated: a sample contains the window before |
| `Speed_diff` | nothing | violated: an average contains the passes before |

`Door_pass` allows the system to stop (no deadlock check): a ranging thread that has
exited and a failed `motor_initialize` leave nobody to send a message. `Human` does, because the program may
end and the driver be unloaded. In all other runs a deadlock
is an error.

Bounds. `OPEN_WAIT_TIME` is 200 samples in the code and 4 to 12 here, the number of samples needed to detect is 6
in the code and 1 or 2 here: only their order matters, since the properties do not count
samples (`Opening`, which does, has the real 200); `OpenWaitTime` is a multiple of four so that the three delays differ. `Readings` has one distance
for every interval the code tells apart (nearer than 50, picture range below 220, up to 700,
beyond); `Averages` holds one slow and one fast approach. Queues have room for 10 messages as in
the code, or for one where a full queue is the question. In `Door_async` the stack has left a flag of the detection
in `buf`, which no stage clears; a flag of a stage would be gone after its first report. `SpeedCalc` runs with windows of two
readings, three samples and three passes (`MaxPasses`), enough for all four speeds, for
windows that are irregular, receding and approaching in all orders, for starting over, and for
two estimates to influence a third; the readings are scaled down together with the limit for
irregular values. `MsgQ` has two senders, two payloads, two names and a queue of two messages, so that
messages can be reordered, doubled or left over from an earlier life if the library were wrong.
`Human` has queues of one message: a second request waits while the frame for the first is read, which is all
it takes for a frame begun before an answer. It scans an image of two by two cells with a window of two by one: one window inside each row, one that
runs on into the next row, one that reads behind the last cell; two weak classifiers must both find their bit.
`Picture` takes two pictures of two lines, with room for two per life of the process, so that the second
one may meet a restart and a third attempt a full memory; two requests, one of which may be a bad one (a missing key, a
wrong value, a `statusCode` of its own), and two seconds, so that pictures and records may fall on the same name. The proofs lift all of these bounds.

## 4. The proofs

All are by an inductive invariant and hold for all constants that satisfy the named assumptions. Each type invariant
is proved with the rest; `OpeningTypeOK` and `StartTypeOK` contain those of `SpeedCalc` and `HumanDetect`.

- **`DoorControlProofs`**. `TypeCorrect`: the type invariant needs `RangingSteps` (which steps exist in
  which stage) because `Report[stage]` and `StageAfter[stage]` are applied to stages.
  `AnswerAlwaysPending`, under `"prompt"`: when main waits in `start_process` or `wait_detect`, a detection
  is under way or its answer is in the queue. The invariant adds `MainSteps` (which entry steps go
  with which status). The interesting case is `DropRequest`: a request is dropped only while
  `detectstatus # 0`, and `FrameInTime` excludes that the answer has already been sent.
  `ResultsTravelAlone`, for *any* `StackResidue` and *any* timing: every stage takes its flag out of `buf`,
  so `buf` never holds more than what the stack left and the flag of the report under way (`BufSteps`).
  `NoDetectionIsNested`, under `"prompt"` and with a clean `buf` (`CleanStack`): `NestInv` says that an object can be on its way to main,
  as a flag in `buf` or in one of the messages, only once, and only while main is in `initialize` with
  ranging told to detect. The step to look at is `Receive`, which leaves `initialize`
  with that message; `SampleInTime` keeps the ranging thread from a second report before it.
  `DetectorIsInPlace`, for any `StackResidue` and any timing: `SeenAppend` and `SeenTail` say that sending and
  receiving look to the detection like sending and receiving; what is left to show is that a report is never taken
  for an answer (`BufSteps` again) and that requests are only sent to a queue with room.
- **`PassProofs`**, all under `"prompt"` and `"settled"` and with a clean `buf`, whatever fails. One inductive
  invariant about the three threads, `PassInv`; TLC confirmed that it is inductive, starting a step from arbitrary states
  that satisfy it, before it was proved. `QueueInv` is about the order in `sas_msg`: nothing of a pass stands behind
  the report that the door is closed, and nothing at all behind the report of an object. `TokenInv`: the start request of a
  pass is in one place only (`fpgamsg`, `exec_humandetect`, the FPGA, or its answer in `sas_msg`), and nowhere
  once a human has been recognised; this is `PassGetsOneAnswer`. That it is in `fpgamsg` only when the detection before
  it has been answered is `RequestsFollowAnswers`. `CommandInv` and `ReportInv` say which command
  and which report can be met in which status: commands outlive their status until the next entry function has run. They give `DoorInv`
  (`DoorOpenOnlyInPass`) and, with `ObjectInv`, `PictureInv`: a picture is wanted outside its pass only while the close stage clears
  up, and that is over before the next sample (`NoPictureOutlivesItsPass`). The step to look at is `SendReport` of
  `close_result`, after which main may be in the next round while ranging still clears `has_taken` and `picture`.
  `ControllerImplementsPass`: under this invariant every step of a thread is a step of `Pass` or a stutter. Two cases
  are not obvious: the receipt of `disappear_object` must find a pass that has not seen a human, and a second
  `motor_close` after the report of the first, possible while a picture is uploaded, must find the door closed.
  `NoCommandIsLost`, with `"atomic_reset"` as well: `ServeInv` says that the command of main's status stands or its report
  is in the queue, and `CheckInv` that when ranging compares `range_status` with the command it has just
  served, either that report is still in the queue or main has moved on. With the reset as a step of its own it is
  false, which is the finding of `Door_reset`.
- **`SpeedCalcProofs`**. `SpeedInv` bounds `sample_count`, keeps `sample_prev` a believable distance while
  samples are counted, and bounds `sample_diff` by the estimates made so far. It follows
  that the branch that logs `???` is dead, no estimate is negative, and the sums that are never reset
  nevertheless stay far from overflowing an `int` in a realistic number of passes. The carried-over average is
  at most 2 * 65535, whatever the readings.
- **`OpeningProofs`**. `OpeningImplementsSpeedCalc` carries the theorems above over. `DoorIsOpenWhenTold`: `DoorInv`
  says that the register holds the speed of the estimate from the estimate to the close, and `Moved` that the
  door has turned by this speed for as long as `open_wait` has counted; `DelayIsLongEnough` is the
  arithmetic, for each of the three delays. It holds for all limits between the speeds.
- **`HumanDetectProofs`**. `CodeKeepsPromise`: every step of the code is a step of `DetectorAlone` or a
  stutter; `DetectionInv` says where the two threads can be for each `detectstatus`.
  `FeaturesAreFresh`, under `"prompt"`: `FreshInv` follows the interrupt from the end of a run of the
  FPGA through `wait_status` to the classifier, for as long as nothing has disturbed it (`FollowsInterrupt`). The step
  to look at is `TestReady`: a detection begins only when `detectstatus` is 0, and then `adaboostthread` is back at its
  wait, or the frame was begun before the answer and `history` says so.
- **`StartUpProofs`**. `StartImplementsHumanDetect`: every step of the program from the loading of the driver
  on is a step of `HumanDetect` or a stutter, so that its theorems hold for the started program
  (`ProgramKeepsPromise`, `ProgramFeaturesAreFresh`). `HandlerAlwaysMapped` and `LoadCleansUp` follow from
  `LoadInv`, which says what is held before each call. `NoHumanIsMissed` holds for every size of the image and
  the window and every set of weak classifiers: `ScanInv` says that all windows passed so far, if they lie
  inside the image, did not look like a human, and `AlwaysTried` that the guard of line 320 skips none of them
  whatever the width of `size_t`.
- **`PictureProofs`**. One inductive invariant, `PictureInv`, for all numbers of lines, pictures, requests, seconds and
  persons. `CameraInv` says for each line which of the two readers has stored it since the call began; it
  gives `PictureIsNotStale`. `RequestInv` and `RecordInv` follow a request from the upload through the mail to the
  record and the answer; they give `RecordsWereMailed`, `AnnouncedIsRecorded`, `RecordsHavePictures` and
  `BadRequestsAreHarmless`, the last also for bodies that bring their own answer. `RecordsShowTheirPicture` holds for
  any number of pictures per second: `NameInv` says that the file and the object under a name are always pictures
  `taken` in that second, and that the object is never newer than the file.
- **`MsgQLibProofs`**. `LibKeepsPromise`: every step of `msgQLib.cpp` is a step of the FIFO or a stutter, for
  any number of senders, names and messages. It rests on `CallsInv`: nothing is being sent or received
  before `msgQCreate` has returned, and no kernel queue holds more than `MaxMsgs`; the case to look at is
  a restart, which leaves a queue behind in the kernel under a name that `O_EXCL` and `mq_unlink` keep from
  being used again with its messages. `BufferAlwaysFreed` and `EnlargedOnceOnly` follow from `BufferInv`: a
  buffer on the heap is there exactly while `tmpbuf` points to one, and is as long as a message.

Only model-checked: the liveness properties (`NobodyStuckSending`, `PassEnds`, `DoorCloses`,
`DetectionEnds`, `PictureEnds`, `MessageTaken`), which need fairness and `ENABLED` and are out of the prover's reach;
and all violations. Every invariant and every refinement of the runs is stated by a theorem.

## 5. What is not modelled

- What a pixel shows, the arithmetic of the FPGA and which part of its memory a run for a smaller scale
  writes. `exec_adaboost` classifies whatever the features are.
- `setDisplay` and the registers of the video pipeline: they write to hardware and nothing reads them back.
- The five registers of the motor driver that are set once (currents, step mode), its acceleration, and what it
  does at speed 0.
- A detection process that is started again under a driver that stays loaded: `StartUp` begins at power-up.
  From the code, `detectstatus` would then stay 2 (see the hazards), and no code restarts the program.
- `msgQDelete` and `fpga_initsetting`, which nothing calls.
- An error of `msgQReceive` in main, which ends the program, and in `exec_humandetect`, which ignores it.
- `hog_soft.cpp`, `cameramain`, `start_camera` and `ishuman`, which are never run: nothing calls `start_camera`, and
  `detectpeople` is called by `cameramain` only. `fpgadrv.c` calls `calcResize` and overwrites its result.
- The list of the web application and its templates: formatting of the table.
- Third-party code. The repository carries the headers of the AWS SDK, curl, picojson, libjpeg and the board
  support package (`include`, `include_usr`, `lib`): more than 110000 of its lines. The program's own code,
  `src/`, `module/` and `cloud/`, has about 3100, of which some 600 are the dead code above and
  others tables of register values. The share of all lines that the models cover is therefore about one
  percent, and cannot become much larger.

## 6. Plan

1. Done: `SasShared`, `MainLoop`, `Ranging`, `Detector`, `DoorControl`; `HumanDetect`; `SpeedCalc`; `MsgQLib`;
   `Adaboost`, `FpgaLoad`, `StartUp`; `Camera`, `Cloud`, `Picture`; `Motor`, `Opening`; their runs and theorems.
2. Done: the theorems about a pass, `Pass` as its short specification, and the place of the detection in
   `DoorControl`.
3. Proofs: that `Opening` and the stages of `Ranging` agree on when a door is commanded and reported.
4. A restart of the detection process between two runs of the FPGA, as a fault of `StartUp`.
