# Verification of the Embodied Lab teleoperation stack

Embodied Lab lets an operator with a Quest 3 headset move a JAKA Mini2 arm and
an Inspire RH56 hand, records what happens as training episodes, turns the
episodes into datasets, and lets a learned policy drive the same robot. This
directory holds TLA+ models of these paths, TLC configurations that check them
on small instances, a refinement, and TLAPS proofs of most safety properties, the
refinement included, for every value of the constants. `PROJECT.json` maps every
definition to the lines it models.

## 1. The system

```
Quest controller --UDP--> controller provider --> clutches --+
Quest hand stream --UDP--> HTS parsing ---------------------+--> teleoperation session
                                                             |      |
                              RH56 hand worker <-- mailbox --+      v
                                    |                        target generator (IK, limits)
                              hand controller                       |
                                    |                        producer loop / adapter -----> recorder proxy
                              serial port                           | datagrams                 | queues
                                                             native JAKA servo worker    recorder process <-- camera rings
   model process <--socket--> ACT rollout --(adapter, hand)--------^                            | async writer
                                                                                          episodes on disk
                                                        review, convert, materialize, validate, export
```

### Inventory

| Component | State | Operations | Talks to | Hard behaviour | Correct when |
|---|---|---|---|---|---|
| RH56 hand controller (`rh56_driver/pc_direct_control.py`) | life-cycle state, feedback, last command, contact counters, hold poses, closure counter | hold, activate, poll a register, command, contact relief, terminal stop, cleanup | serial port | one-shot writes, read timeouts, closure budget, contact release | a finger closes no further than contact and budget allow, and a promised relief is performed |
| RH56 hand worker (`pc_direct_worker.py`) | latest-only mailbox, worker thread | submit, hold, activate from measured, terminal stop, cleanup | producer, controller | two threads cut at a lock, cleanup of a blocked thread, racing stop reasons | it stops writing when told to, never goes back, always ends |
| Clutches, controller provider (`motion_input`) | hold-to-run trigger, arm and hand machines, newest packet, shared-release gate | observe, step, fault, capture, update, invalidate | session | hysteresis, restarts, loss, duplicates, reordering | engagement needs a release and a press, and lasts while held |
| Teleoperation session (`quest_jaka_sim/smooth_session.py`, `live_*.py`) | clutches, references, recovery timer, generation | ingest, `control_tick` | hand worker, generator, adapter | recovery timeout, independent failure of arm and hand | active machines have references, recovery freezes the arm |
| Target generator and its sessions (`quest_jaka_sim/simulation.py`) | accepted target, reference, latch, seed, snapshot | capture, evaluate, recover, commit | session, plant | retries under a deadline, trials that must be undone, lagging status | accepted targets are bounded steps, refusals leave no trace |
| Native JAKA servo worker (`native/jaka_servo_worker`) | SDK flags, newest packet, resampler, deadlines | setup, drain, servo cycle, pause, stop, cleanup | robot SDK, producer | absolute deadlines, latest-only drain, braking, partial failure | rests without a target, stops when told, releases the robot |
| Physical session (`tools/quest_jaka_hardware.py`) | processes and threads of a run, abort reason, report | check, start, loop, classify, clean up, report | all of the above | any part fails at any time | refuses before I/O, names the fault, stops the robot first |
| Camera capture (`process_runtime.py`, `camera.py`, `realsense_adapter.py`) | ring, descriptors, metadata, child | capture, publish, read, start, stop | driver, forwarder | lock-free ring, a child killed while writing | no torn frame, no unlinked ring under a writer |
| Recorder process and collector (`process_runtime.py`, `runtime.py`, `collector.py`) | proxy, queues, pending count, capture state | sample, frame, cut, rotate, stop, crash | producer, cameras, writer | bounded latest-only queues, held-back commands, a dead process | order of frames and boundaries, exact counts, known fate |
| Writer and formats (`async_writer.py`, `lerobot_staging.py`, `raw_episode.py`, `episode.py`) | queue, thread, files | enqueue, batch, finalize, discard | disk | timeout against completion, crash between renames | episodes appear whole, once, and accounted for |
| ACT execution (`act_temporal_executor.py`, `act_physical_rollout.py`, `act_live_shadow.py`, `act_shadow_model_worker.py`) | point buffer, inference thread, log | submit, select, tick, clean up | model process, arm, hand | slow or dead peers, full queues | no stale command, safe end, whole record |
| Offline dataset tools (`episode_dataset/*`) | staging root, shards, training roots, views, archive | review, convert, materialize, validate, label, survey, export | disk | files that change under a build, kills, leaks between splits | outputs are whole, current, and vetted |

The hazards of this code, each at its line and with the properties aimed at it,
are in `PROJECT.json`; those without room there are in section 6.

## 2. Modules

| Module | Models | Extends |
|---|---|---|
| `RH56Control`, `RH56Cycle` | the hand controller's operations; the same under every sequence of worker cycles | |
| `RH56Worker` | producer thread, mailbox and worker thread over the same controller | `RH56Control` |
| `MotionClutch`, `QuestController` | triggers and machines (operators on records); provider and shared-release gate | |
| `QuestSession`, `MCQuestSession` | router, `control_tick` and the loop around it; its bounds for TLC | `QuestController` |
| `TargetGenerator`, `TargetSession` | solve, verdict, recovery and commit; the robot, simulation and replay sessions around it | |
| `ServoSchedule` | deadlines, timing faults and evaluation times of the native loop | |
| `JakaServoWorker` | producer, socket, native worker and robot modes | |
| `PhysicalSession` | one run of the physical entry point, with everything beside it failing at any time | |
| `CameraCapture` | child process or thread, ring, descriptors, handle and lock-free reader | |
| `EpisodeCollector`, `EpisodeRecorder` | the capture state machine (operators); producer, forwarder and recorder process over their queues | |
| `EpisodeStore` | abstract: what a reader of the dataset is promised | |
| `EpisodeWriter` | queue, writer thread and files of the three formats, across sessions | |
| `TemporalEnsemble`, `ActRollout` | the buffer of predicted points; command loop, inference thread, model and log | |
| `DatasetRows`, `StagingReview`, `TrainingDataset`, `ArchiveExport`, `DatasetPipeline`, `MCDatasetPipeline` | row selection and splits (operators); review and conversion; materializers and views; archive commands; all of them together; their bounds for TLC | |
| `*Proofs` | theorems about the modules they extend: `RH56Proofs` about both compositions of the hand controller, `ArmProofs` about the native worker, the servo schedule and the target session, `PolicyProofs` about the policy execution and the offline dataset tools, the others about the module they are named after | |

`EpisodeWriter` refines `EpisodeStore`: `Store == INSTANCE EpisodeStore WITH ...`
maps an episode to what its final metadata file says of it;
`ImplementsStore == Store!Spec` is checked as a property and proved. An episode becomes
visible in one step, a completed one with all its rows and frames, never changes,
and the index names only visible ones, although the implementation renames file
by file and may be killed in between.

### How state and actions correspond to the code

*RH56Control.* Positions are integers `0..MaxPos` (0 open), forces
`0..MaxForce`, `NoHold` is the NaN hold pose. `fresh` is "the last ANGLE read is
younger than its timeout"; `FeedbackExpires` ends it at any time. `PollForce`,
`PollAngle`, `PollOther`, `PollTimeout`, `PollFails` are the outcomes of
`poll_feedback_register`. `ContactStage`, `BudgetedTarget`, `SelectedStep` are
the stages of `command()`. Rate limiting is a free choice, since it depends on
the clock alone. In `RH56Cycle` a measured activation may come at any active
cycle: when the producer has held and re-engaged between two snapshots of the
worker (`pc_direct_worker.py:341`), the controller is still ACTIVE and the write
of the measured pose skips contact limit and budget.

*RH56Worker.* Every producer call is one critical section, hence one action. The
worker's cycle is cut where the code releases the lock: snapshot, consumption of
the force flag, serial operation, end of a blocking read. `cleanup()` is cut at
its two joins. Which register is read is a free choice.

*QuestSession.* Time is in control periods. A `Tick` is the whole of
`control_tick` and the loop body around it. The hand stream is its validity at
the tick; IK and the feasibility gates are the outcome of the solve; retargeting
is whether it gave features. An exception in the loop is `Abort`. Datagrams
drained at a tick carry the time of this or the previous period (`Lag`). Input
recovery is on (`RecoveryTimeout > 0`).

*TargetGenerator, TargetSession.* One joint, whose position and palm pose are one
integer; the singularity measure grows beyond `RiskFrom`; limits are compared in
the code's order (`ClassifyCandidate`). Whether the deadline has passed is an
input at each place where the code looks. A tick captures, then `EvaluateTick`
once per evaluation until `Outcome`; a status lags the plant.

*ServoSchedule.* Times in one integer unit; the scheduler chooses every wake and
completion time. A cycle is `StartCycle` then `EndCycle`.

*JakaServoWorker.* One joint with integer positions stands for six; the
resampler's next point is any point of its segment; the point the limiter emits
is any within the position, velocity, acceleration and jerk boundaries (or the
cycle throws). The tolerances of the stationarity test are zero on the integer
grid. `recover_output_acceleration_transition` is on: the producer refuses
to start without it (`tools/quest_jaka_hardware.py:839`). Time is in servo cycles
and the age of the stream is counted from the drain. Timing faults are free here
and exact in `ServoSchedule`. A signal, the session duration and the last sample
are the free exit `LeaveLoop`. A failed SDK call may or may not have changed the
robot's mode (`robot` against `backend`).

*PhysicalSession.* A plan with at most one defect is checked before any I/O; then
the episode processes, the hand, the native worker and the receiver are started
one by one, the loop ticks, and the `finally` block runs step by step (`main.at`).
The native worker, the hand, the receiver, the log thread and the recorder fail
at any time within `MaxFaults`.

*CameraCapture.* An image plane is copied in two steps, so a reader can copy half
of it. The process and the thread implementation are one module (`threaded`).
Memory is sequentially consistent.

*EpisodeCollector, EpisodeRecorder.* A collector is a record, its methods are
operators that return the next record and the writer calls they make; a control
sample is what the decisions look at. Each statement that touches a queue or the
shared count is an action of producer, forwarder or recorder process. A recording
may raise on any frame, and that frame stays counted (`leaked` is its history).

*EpisodeWriter.* A terminal call is a plan of file operations; a fault or a crash
may come before any of them, and the next session chooses its index by looking at
the files.

*TemporalEnsemble, ActRollout.* A predicted point is its query, the times it was
made and is for; values and weights are left out. Time counts command periods. One
trim after all waiting chunks leaves the buffer that a trim after each leaves.
The queue of waiting predictions has the capacity of the buffer. `main.overrun` is
history: the loop has once taken in more than `BacklogFits` allows. Any step of the
cleanup that the code does not guard may raise, the stop of the arm included.

*Dataset modules.* A file is known by a version, which is what a hash tells apart.
Each file operation of a command is a step, may fail, and may be the last one.
`desk` in `DatasetPipeline` names the group of commands a behaviour is about: the
groups work on different directories, so their steps do not affect each other.
`Openings` is the set of situations a behaviour may start from: the group at work
and the takes, versions and archives it finds. `MCDatasetPipeline` lists the small ones and
bounds the builds (`Within`).
A derived view reads the index, the hash and each episode of its master in steps of
their own. The LeRobot tool hashes contents, so two builds of the same segments are
the same to it; the openpi tool compares modification times and tells builds apart.

## 3. Runs

Each run checks a few properties whose named parts are definitions beside them;
the names in brackets are those parts.

| Run | Properties | Instance |
|---|---|---|
| `rh56_cycle` | `ClosureBudgetHolds`; `ContactStopsClosure` (ContactHasHold, ContactCapsClosure, HeldHandOnlyOpens); `ReliefIsAttempted` | 1 channel, 3 positions, 3 forces, budget 2 of steps of 1 |
| `rh56_worker` | `HandObeysProducer` (AtMostOneLateWrite, WritesNeverGoBack, HeldHandOnlyOpens); `ShutdownIsFinal` (CleanupIsFinal, TerminalReasonIsOwned); `WorkerEnds` (TerminalStopTookEffect, CleanupReturned) | 2 targets, 2 stop reasons, contact policy on |
| `quest_session` | `ActiveHasReference` (EngagedHasReference, GripHasReference); `RecoveryIsContained` (HoldKeepsArmFaulted, RecoveryFreezesArm); `HoldToRun` (ReleaseBeforeCapture, SharedReleaseBeforePress, EngagedWhileHeld, HandSurvivesArmLoss, PauseBetweenEngagements) | either 2 senders of 2 packets in 4 periods, or 1 sender of 4 with the hysteresis band and late datagrams in 6 |
| `servo_schedule` | `TimelineAdvances` (EvaluationAdvances, NextDeadlineAhead); `OneDelayIsTolerated` | period 4, slacks 1 and 2, grace 2, time 36 |
| `jaka_worker` | `RestsWithoutTarget` (StartupHolds, StoppedStaysStopped); `StopEndsLoop`; `CleanExitReleases`; `WorkerFollowsProducer` | 5 positions, velocity 2, acceleration 1, queue 2, 4 packets |
| `target_session` | `OnlyVettedTargets` (RaisesOnlyInContact, MarginNeverWorsened, AcceptedStepBounded, RefusedLeavesNoTrace); `FollowsMeasuredArm` (ReferenceOnlyWhileEngaged, EngagedFromMeasured, SingularStateStops); `TickEnds` | 7 positions, a contact inside the range, one retry, 2 engagements, 3 ticks, three kinds of session |
| `physical_session` | `ReportIsTruthful` (NativeFaultIsNamed, NoFalseCompletion, EventLossIsReported); `SafeFromStartToEnd` (RefusedBeforeIO, HandFaultStopsTargets, EndedIsSafe, EndedIsClean, RobotBeforeRecorder); `RunEnds` | 2 stages, 3 formats, 2 ticks, 2 faults, log queue 1 |
| `camera_capture` | `NoTornFrame`; `HandleIsTruthful` (ReadableFrameHasMetadata, StartedWithFrameOrError, ClosedCameraHasNoWriter); `CallsEnd` (StartEnds, StopEnds) | ring of 2 slots, 2 planes, 6 frames |
| `episode_recorder` | `FramesAreCounted` (PendingCountsFrames, LeakShutsGate); `CommandsInOrder` (DeferredGoesFirst, BoundaryAfterFrames); `ProducerLearnsFate` (RotationSettles, ResultIsSettled, LossSeenAtNextTick) | 1 camera, control and camera queue 2, status queue 1 |
| `episode_writer` | `ImplementsStore`; `EpisodeIsAccounted` (OneRecording, CompletedAccounts, OverwrittenFramesCostRows, SettledIsDrained); `TerminalAnswered` | 3 formats, 2 cameras, 2 rows, 2 sessions, 1 fault or crash |
| `act_rollout` | `CommandsAreFresh` (PolicyCommandsAreFresh, CanonicalUsesOwnQuery); `FailureEndsSafely` (FailureStopsCommands, EndedIsSafe, CleanRunIsRecorded); `RunEnds` | 2 modes and the shadow, 3 ticks and 4 time units, 1 fault, log queue 2, a buffer and a queue of 6 |
| `dataset_pipeline` | `ShardRootIsSound` (ShardIndexIsComplete, ShardIndexedOnce, IndexFollowsMetadata, ShardsAreReviewed); `PublishedRootIsSound` (PublishedIsWhole, TempRemoved, NoSilentOverwrite); `BuiltFromWhatItNames` (ReuseIsFresh, ValidatedIsCurrent); `ViewFromOneMaster` (OpenpiViewOfOneBuild, LeRobotViewOfOneContent); `NothingLeaks` (EachInOneSplit, SplitsDisjoint); `RowsAreSound` (PublishedValidates, ChunkIsContiguous, CausalSelection); `ArchiveOutputIsVetted` (StatisticsMatchManifest, StatisticsAreValidated, CountedOnce, ExportedIsSuccess, ExportIsWhole) | 2 staging episodes, takes with gaps, defects and time faults, 2 builds, for the views 3 builds of 2 masters, 2 archives, 2 labels |

Seven composites carry the type invariant of their module as well (`FramesAreCounted`, `EpisodeIsAccounted`, `HandleIsTruthful`,
`FailureEndsSafely`, `SafeFromStartToEnd`, `OnlyVettedTargets`,
`ShardRootIsSound`); the types of every module with a `*Proofs` module are proved
besides, alone or in its inductive invariant.

Why the bounds are enough: budget 2 needs two writes between FORCE samples to be
spent, and 3 positions leave room to open and close again, which overspends it
when it is miscounted; two targets and two stop
reasons are what it takes to reorder writes and reasons; four sequence numbers
and six periods contain engage, fault, release, recover, re-engage, and two
senders of two packets a restart that repeats a number; period 4 with slacks 1
and 2 separates "on time", "warning", "late" and "hard"; velocity 2 over 5
positions makes braking overshoot the held pose and come back; 7 positions with
a contact contain both soft margins, both recovery zones, the hard region and
a blocked seed; two faults are what it takes for a fault to hide another one; a
ring of two slots and six frames lets the writer lap a reader twice; queues of
one and two are full, and a command held back meets a second one; a buffer of six
points holds three chunks of two steps, and a stalled loop finds it overflowing, so
that the freshness limit is checked up to the point where the code loses it; two sessions
with one crash contain "crash, new index, record again"; two builds contain
reuse, refusal and replacement, three let a master be replaced by another and come
back while a view is built, and two changes of a source fall on both sides of its
hash.

`CHECK_DEADLOCK FALSE` is set throughout: a worker that has cleaned up, a
stopped producer, a finished command and a faulted loop really stop.

### Fairness

No operator, sender, network, fault or crash is fair.

* `RH56Worker`: the worker's steps with the end of a serial read (the port has a
  read timeout), and the joins of a `cleanup()` that was called.
* `JakaServoWorker`: setup, loop, socket close and cleanup (the thread is
  scheduled and SDK calls return). Every commanded cycle flips `samples`, so
  fairness of the loop never forces one of its optional exits;
  `WorkerFollowsProducer` rests on the stream timeout alone.
* `CameraCapture`: the child, whose wait for frames has a timeout, the polling and
  joining of the owner (loops with a deadline), and the reader's copy.
* `EpisodeWriter`: the worker thread, which is scheduled while the process lives.
* `ActRollout`: the loop, the inference thread, the writer and the clock, and the
  model while it lives: `RunEnds` says nothing about a model process that hangs
  with its socket open, which the code waits for without a limit.
* `PhysicalSession`: the main thread, all of whose waits have limits, and the
  readiness message of a native worker that is starting.
* `TargetSession`: the evaluation loop, which does not wait.

## 4. Proofs

TLAPS proves, for every value of the constants that satisfies the named
assumptions (the constructor's checks for `ContactPolicyAssumption`, otherwise
types, positivity and order of the bounds), what follows. Every theorem rests on
an inductive invariant, a conjunction of named parts; "types" below is the first.

* `RH56Proofs`, the hand: the properties of `rh56_cycle` over `CycleSpec` and the
  safety properties of `rh56_worker` over `Spec`, from shared lemmas about single
  controller operations. Common part `ControlInv` (types, contacts have holds,
  counters below their latch). `CycleInv` adds the controller's counter covering
  every closure written since its reset (`CounterCovers`), a popped relief pose
  opening (`ReliefOpens`), and a raised relief flag never meeting a transient hold
  (`ReliefIsReady`). The counter itself may exceed the budget, after a measured
  activation; no other write then closes that channel (`StageWithinBudget`).
  `ReliefCorrect` assumes `MaxClose = MaxPos`: with a smaller
  `max_close_strength` the relief pose can lie outside the command envelope, and
  `command()` rejects it. `WorkerInv` says what the snapshot in the worker's hands
  can still be: its reason is the mailbox's or none, its sequence was submitted,
  and after a hold it can be written once.
* `QuestSessionProofs`: all properties of `quest_session`. `SessionInv`: a running
  recovery timer has a reference and capture is left within the tick.
  `HistoryInv`, for `HoldToRun`: what the property's history variables record, the
  state of clutches, provider and gate remembers as well (`ReleaseRemembered`,
  `GateRemembered`, `PauseRemembered`), and a grip is held (`GripHeld`). It is about
  `QuestSession`, of which `MCQuestSession` checks two parts.
* `ArmProofs`, on `JakaServoWorker`: types (commands within the position limits),
  `RestsWithoutTarget`, `CleanExitReleases`, `StopEndsLoop`. `WireInv`: packets
  in the socket increase strictly, are newer than the last one drained, and a
  stop is the producer's last. `MotionInv`: before the first target the arm is
  at rest at the startup pose, and readiness implies rest. `ReleaseInv`: without
  an error the backend's flags cover the robot's modes. For `ServoSchedule`
  (`ScheduleSpec`): types, `TimelineAdvances`, `OneDelayIsTolerated`;
  `ScheduleInv` relates clock, deadline, reference and evaluation time in each
  phase (`SleepAligned`, `CycleAligned`) and says that a counted warning was a late
  start (`WarningsAreLate`). For `TargetSession` (`TargetSpec`):
  `OnlyVettedTargets`, `FollowsMeasuredArm`, for every range, limit, seed step and
  number of retries that `LimitsOrdered` admits. What a solution can be
  (`TrialFacts`, `RecoveryFacts`) gives what `evaluate()` can return
  (`EvaluateFacts`), and that gives the steps. `TargetInv`: target, plant and status
  stay between the soft range and the start (`MarginInv`); a tick under way has
  accepted nothing and its remaining step does not lead past the desired pose
  (`TickInv`); the replay never moves its plant (`ReplayInv`).
* `PhysicalSessionProofs`: `ReportIsTruthful`, `SafeFromStartToEnd`. `RunInv` says,
  point by point of the program, what was started and what has ended: a refused
  plan started nothing (`RefusalInv`); an exception has a name and its cause has
  failed (`RaisingInv`); past a hand fault one tick at most is under way
  (`LateInv`); each step of the `finally` block leaves its part down (`CleanupInv`);
  and what episode, receiver, native worker and event log can be meanwhile
  (`EpisodeInv`, `ReceiverInv`, `NativeInv`, `LogInv`).
* `CameraCaptureProofs`: `NoTornFrame`, `HandleIsTruthful`. The ring is lock-free,
  so the argument is about versions: a slot holds the newest frame congruent to it,
  whole unless the writer is in it with an odd version (`SlotInv`, `WriterInv`,
  `LastInv`); versions only grow; hence a reader that finds the same even version
  before and after its copies (`ReaderInv`) has copied between two writes. The
  arithmetic of slots (`SlotPeriod`) is proved for every capacity.
* `EpisodeRecorderProofs`: `FramesAreCounted`, `CommandsInOrder`,
  `ProducerLearnsFate`. `RecorderInv`: a frame is in exactly one place, so the
  pending count is queue plus hands plus the frames an exception left counted
  (`TypeInv`, `HandInv`, `PendingCountsFrames`); one of these keeps the count above
  zero for ever, and no command passes (`LeakInv`);
  the frames counted for a boundary are still ahead of it (`AheadInv`, `GateInv`,
  `OrderInv`); collector and writer agree (`WriterInv`); the status stream is never
  ahead of the recorder (`ResultInv`), at most one rotation is in flight
  (`RotateInv`), and a loss is seen (`LossInv`). Assumed: "none" is no camera role.
* `EpisodeWriterProofs`: types, `EpisodeIsAccounted`, and `ImplementsStore`: the
  initial state maps to an initial state of `EpisodeStore`, every step to one of
  its steps or a stutter. `CallOrder` and `ThreadOrder` say where caller and worker
  can be, `DiskInv` in which order files appear, `PlanInv` that the rest of a
  terminal plan leads from the files on disk to a whole episode whichever step is
  the last, `AccountInv` that each accepted call is in the queue, the batch, a file
  or a counted loss.
* `PolicyProofs`, on `ActRollout`: `FailureEndsSafely`. `RolloutInv`: points of
  one query agree on their times, so those of one tick and query are strictly
  ordered and a trim leaves no more than the capacity (`IdInv`); a second command
  past a failure would need a peer that came back (`LateInv`); the cleanup runs
  the rest of its plan, the arm's stop first and the hand's before every other
  step that may raise (`PlanInv`); while nobody has failed, every command and
  answer is in the writer's hands (`RecordInv`). It uses `RolloutAssumption` and
  `EnsembleAssumption`, not `FreshnessAssumption`. `CommandsAreFresh`
  (`FreshCorrect`) is about every command until the loop takes in more predictions
  than the buffer is sure to hold (`main.overrun`, `BacklogFits`). `FreshInv`: the
  buffer is made of the ends of chunks in the order of the clock (`ChunkInv`,
  `QueryInv`), the chunk of the action in force reaches the next tick (`TickInv`),
  and a canonical query is newer than all of the buffer (`OwnInv`); the points a
  trim may keep instead of the tick's own are counted with a rectangle
  (`FewLater`). Nothing in the code bounds the backlog below that: the queue of
  waiting predictions has the capacity of the buffer itself
  (`act_physical_rollout.py:1044`, 4096 each), so one long stall can fill the
  buffer, and then the limit is lost (section 5). With the defaults (60 steps at
  30 Hz, 250 ms) about 31 predictions fit, a stall of a second.
* `PolicyProofs`, on `DatasetPipeline` (`PipelineSpec`): `ShardRootIsSound`,
  `BuiltFromWhatItNames`, `ViewFromOneMaster`, `NothingLeaks`, `RowsAreSound`,
  `ArchiveOutputIsVetted`, `PublishedRootIsSound`, for all episodes, takes,
  configurations, archives and opening situations. `PipelineInv` has a part per
  group of commands. `StagingInv`: what a conversion is about to write follows
  what it has written (`WrittenBefore`), and every index row, the reviewer's stale
  copy included, shows no more than the metadata has had. `BuildInv`: a
  fingerprint is taken before any file is read, so what was read is no older than
  it names (`VersionsInv`), hence a reused root whose marker agrees with a later
  inventory was read from exactly those files; a root in place passed the checks
  made before it was published (`AcceptedInv`), keeps only included segments of
  its manifest, is whole (`OrderInv`) and older than the build under way
  (`NewestInv`). `ViewInv`: all that a view has copied was of roots that were in
  place, and in the order in which these were made (`Genuine`, `After`), so
  between two equal hashes the copies are of one build for the openpi tool, and
  for the LeRobot tool of the content that is named or of a build between two of
  that content. A kept segment is in exactly one split because the split lists of
  an accepted manifest are disjoint and cover it; that its source is in no other
  follows where a group holds it (`GroupInOneSplit`). `ArchiveInv`: an eligible
  entry was vetted whatever its label is now (`EntriesInv`, `ManifestInv`), and
  all that is counted was cited from such an entry with the version the manifest
  gives (`MomentsInv`). `InputInv`: recordings and streams have their types. That
  a root's rows are what the code computes from one recording is proved by
  first-order induction over the turns of each loop, written as a recursive
  function (`LoopExists`, `LoopInduction`): the row filters keep rows in time
  order, and the bottle's as many as its video has frames (`MasterOrdered`,
  `BottleOrdered`); a chunk ends before the first row that does not follow
  (`ChunkFollows`); a stable sort by rank and `bisect_right`, whose turns close in
  on the first later time, give the latest sample that is not late, at any time
  and for any stream (`LatestIsCausal`; the run asks for four times). Assumed:
  finite sets of episodes and archives, natural bounds, a known kind and splits
  that are lists of names (`TrainingAssumption`), manifests that list episodes
  (`ManifestAssumption`), a horizon of at least one, and opening situations and
  recordings of the right types.

Every safety property of the runs is proved, `CommandsAreFresh` under
`FreshnessAssumption`. Model-checked only: the liveness
properties (`WorkerEnds`, `WorkerFollowsProducer`, `TickEnds`, `RunEnds`, `CallsEnd`,
`TerminalAnswered`), which rest on fairness and are out of the prover's reach.

## 5. Where the code departs from what it says

Met while modelling. Those in the table have a property definition that states the
comment and a configuration in which TLC finds the violation
(`tlc -config <cfg> <module>`); they are not runs of the project, whose runs all
pass.

| Where | Says | Does | Property, configuration |
|---|---|---|---|
| `pc_direct_control.py:736` | line 740: the activation write "must be written exactly once" | a read timeout just before an engagement defers it | `ActivationIsNotDeferred`, `RH56Worker_deferred.cfg` |
| `pc_direct_worker.py:377` | the force flag belongs to the new engagement | it is cleared in a second critical section, so a new engagement in between loses it | `ActivationKeepsForce`, `RH56Worker_race.cfg` |
| `clutch.py:67` | line 63: "Re-arm only after a new valid released sample is observed" | the cached sample from before the fault is observed again | `RearmedByNewRelease`, `QuestSession_rearm.cfg` |
| `smooth_session.py:723` | the heartbeat stays live in recovery | losing the hand while the arm is disengaged silences it | `RecoveryKeepsHeartbeat`, `QuestSession_heartbeat.cfg` |
| `main.cpp:1859` | `quest_adapter.py:129`: pause is recoverable braking | a pause followed by a heartbeat in one drain is dropped | `PauseIsHonoured`, `JakaServoWorker_pause.cfg` |
| `act_physical_rollout.py:1148` | line 1151: "ACT temporal-ensemble result exceeded policy freshness limit" is an error | only the contributors of the tick are checked: after a stall that fills the buffer they were given up, and a stale action is held and sent | `NoStaleCommand`, `ActRollout_backlog.cfg` |
| `pc_direct_worker.py:419` | "so continuity is exact at the serial boundary" | the write of a measured activation is clipped to the change limit, from the last command of the engagement before when a re-engagement fell between two snapshots | `ActivationIsExact`, `RH56Worker_regrip.cfg` |
| `process_runtime.py:1523` | line 1401: "without starving control" | an exception while a frame is dispatched leaves the frame counted, and the control channel is not read any more | `ControlIsServed`, `EpisodeRecorder_leak.cfg` |
| `lerobot_physical_bottle.py:264` | line 371: "source master changed while building the derived LeRobot view" is an error | the index is read before the first hash: one of the build before goes unnoticed | `IndexIsOfTheMaster`, `MCDatasetPipeline_index.cfg` |
| `openpi_adapter.py:402` | line 503: "Derived timestamps are not regular at 30 Hz" is an error of a built view | regular times that do not start with zero are kept, so a segment whose first row was dropped gives a view its validator refuses | `BuiltViewValidates`, `MCDatasetPipeline_times.cfg` |
| `physical_bottle_materialization.py:184` | `docs/data/DATASET.md:6`: "Training manifests split at episode boundaries" | segments of one episode may be in two splits of a manifest that declares no groups | `SplitAtEpisodes`, `MCDatasetPipeline_splits.cfg` |

Read in the code, and behaviours of the models:

* `simulation.py:1420`: a late candidate that is accepted keeps its verdict when
  the accepted state demands a hard stop, although the comment above promises a
  heartbeat; a hard stop is lost for the tick when its retry finds the deadline
  spent (`smooth_session.py:852`); beyond the soft margin Jacobian, contacts and
  error are those of clipped joints (`simulation.py:1197`). `FollowsMeasuredArm`
  is stated around these three.
* `sync-staging` sorts every audit stream, but where there is none
  `_jaka_observations` takes the episode's rows as they are
  (`synchronization.py:209`), unlike the hand's; `CausalSelection` is about the
  streams.
* The offline replay session never commands its plant.
* `ProcessCamera.start()` takes the counters of a child that stopped for a
  profile; the recorder's `start()` discards a "ready" that arrives with its last
  poll and then times out.
* A process that owns the arm and outlives SIGKILL for its time limit makes the
  stop of the arm raise (`arm_only.py:42`, `act_live_shadow.py:386`): the hand is
  then not stopped by the cleanup of a rollout (`act_physical_rollout.py:1352`).
  `EndedIsSafe` names this one exception.
* `rotate_episode` promises a finished episode, but a failed finalization lets the
  next one begin, and a rotation while ARMING abandons a writer thread; the
  collector can be COMPLETED with its writer ABORTED; the proxy keeps the previous
  result path; `_mark_failed` is overwritten by a later report.
* The six-degree live mode builds an `EpisodeDataRuntime` it never passes on.

## 6. Hazards without a property

Real, and either behaviours that nothing promises otherwise or outside the models:

* a release and re-engagement between two snapshots is invisible to the hand
  worker (`pc_direct_worker.py:355`): contacts and counters of the engagement before
  stay, which the models have and nothing promises otherwise; the feedback schedule
  takes a deferred command for a timed-out read (`:515`; the register schedule is a
  free choice);
* a STOPPED_READY sent before a re-engagement can be read after it
  (`quest_jaka_hardware.py:670`; the status channel is not modelled);
* on a finalization timeout the sentinel is dropped at a full queue and the daemon
  thread outlives the call (`async_writer.py:283`);
* a native or hand fault after the last check of a finished run leaves exit code 0
  (`quest_jaka_hardware.py:1218`); a pause that cannot be sent is reported as
  itself, not as the worker's fault (`:720`); an exception of the hand cleanup
  skips the finalization of the episode (`:1861`);
* a fast validation of a raw episode compares quality counts of 0 with the
  metadata (`validation.py:571`); relative times that drift by less than
  the tolerance of one step (`openpi_adapter.py:181`) add up to more than that of a
  view (`:502`), and integer times do not show it;
* a thread that cannot be started raises in the middle of a start, and the join of
  one that never ran raises in the cleanup (`act_live_shadow.py:257`);
* a view built from a master that `rmtree` has half removed is taken as one that
  meets a missing file, and the order of training before validation episodes
  (`lerobot_physical_bottle.py:196`) as the order of the index;
* cleanup of the thin adapter after a failed SDK call
  (`thin_jaka_transport_adapter.cpp:529`).

## 7. Not modelled

Numeric code (pose mapping, filters, shapers, retargeting, the solver itself) and
conversions (packet parsing, register framing, image filters, figures and
statistics of the datasets) enter as outcomes or not at all. Of the native worker:
its other modes, its Cartesian path and its status channel. Beside the modelled
paths: the thin adapter and its test double, the older arm-only supervision and
its target processing, UMIP recording, asset generation, training, and the
read-only tools. `PROJECT.json` lists every component with the reason.

## 8. Plan

1. The status channel of `JakaServoWorker`: the resume seed the producer takes
   from STOPPED_READY, and a stale status after a re-engagement.
2. `ThinJakaAdapter`: connect, prepare, measured-state refresh, streaming, fault,
   cleanup and explicit reset, with the fake life cycle as its specification.
3. The hand worker's register schedule: FORCE and ANGLE keep being read.
4. Composition of `QuestSession` and `JakaServoWorker` over the wire.
