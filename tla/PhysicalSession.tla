-------------------------- MODULE PhysicalSession --------------------------
(***************************************************************************)
(* One run of the physical entry point, tools/quest_jaka_hardware.py: the  *)
(* checks before any I/O, the start of the episode processes, the hand,    *)
(* the native worker and the receiver, the control loop, the classification*)
(* of a failed dispatch, the cleanup and the report.                       *)
(*                                                                         *)
(* The native worker, the hand worker, the receiver thread, the event-log  *)
(* thread and the recorder run beside it and fail at any time.  What the   *)
(* session sends to the arm is the subject of QuestSession, the rotation   *)
(* of episodes of EpisodeRecorder; here a tick sends something that        *)
(* arrives or does not, and the collector moves by itself.                 *)
(***************************************************************************)
EXTENDS Naturals, FiniteSets, Sequences

CONSTANTS
    Stages,         \* subset of {"bounded", "combined"}
    Formats,        \* subset of {"none", "staging", "canonical"}
    LogCapacity,    \* of the event-log queue
    MaxTicks, MaxFaults \* bounds

ASSUME PhysicalAssumption ==
    /\ {LogCapacity, MaxTicks} \subseteq Nat \ {0} /\ MaxFaults \in Nat
    /\ Stages \subseteq {"bounded", "combined"} /\ Formats \subseteq {"none", "staging", "canonical"}

VARIABLES
    plan,       \* the command line and the runtime YAML
    main,       \* the main thread
    native,     \* the native worker process and its metrics file
    hand,       \* the RH56 worker
    recv,       \* the Quest receiver thread
    log,        \* the event-log thread and its bounded queue
    ep,         \* the episode runtime, its processes and the collector
    faults

vars == <<plan, main, native, hand, recv, log, ep, faults>>

NULL == "null"

\* What is wrong with a configuration, by the function that looks for it.
YamlDefects == {"runtime_config", "missing_key", "velocity_list"}
ProfileDefects == {"status_period", "displacement_policy"}
ContractDefects == {"duration", "replay_config", "velocity_limit", "jerk", "recovery_off"}
HandDefects == {"control_cpu_absent", "priority", "serial_device"}
RateDefects == {"rates", "hold_policy"}
CpuDefects == {"cpu_mask", "affinity"}
Defects == YamlDefects \cup ProfileDefects \cup ContractDefects \cup HandDefects \cup RateDefects \cup CpuDefects

Symptoms == {"heartbeat_transport", "IPC_failure"}
AbortReasons == Symptoms \cup {NULL, "hand_fault", "native_fault", "worker_exit", "hard_stop", "pause_transport", "exception"}
Roles == <<"workspace", "wrist", "recorder", "preview">>
Processes == {Roles[i] : i \in DOMAIN Roles}
Combined == plan.stage = "combined"
Episodes == plan.format # "none"

-----------------------------------------------------------------------------
(* Before any I/O *)

\* _apply_runtime_config: one YAML file owns every value of the run.
YamlRefuses == plan.defect \in YamlDefects

\* ... the collection profile, the status period and the displacement policy.
ProfileRefuses == plan.defect \in ProfileDefects

\* main: the duration, the shared configuration, the jerk and velocity
\* boundaries, the arm-only confirmation and the recovery policy.
ContractRefuses == plan.defect \in ContractDefects

\* main: what only a run with the hand needs, its device by its identity.
HandRefuses == Combined /\ plan.defect \in HandDefects

\* main: the rates agree and the acceleration-hold policy makes sense.
RatesRefuse == plan.defect \in RateDefects

\* _validate_control_cpu, _configure_cpu_isolation: the native worker's CPU is
\* in the mask and every task of this process is off it.
CpuRefuses == plan.defect \in CpuDefects

-----------------------------------------------------------------------------
(* The parties *)

Init ==
    /\ plan \in [stage : Stages, format : Formats, defect : Defects \cup {NULL}, preview : BOOLEAN, diagnostic : BOOLEAN]
    /\ plan.stage = "bounded" => plan.format = "none" /\ plan.defect \notin HandDefects
    /\ plan.preview => plan.diagnostic /\ plan.format # "none"
    /\ plan.defect # NULL => ~plan.diagnostic
    /\ main = [pc |-> "configure", at |-> 1, abort |-> NULL, stop |-> "duration_complete", raising |-> NULL,
               ticks |-> 0, tick |-> NULL, engaged |-> FALSE, prior |-> FALSE, stopped |-> FALSE, late |-> 0,
               rc |-> FALSE, typed |-> FALSE, skipped |-> FALSE, exit |-> NULL]
    /\ native = [life |-> "off", ready |-> FALSE, fault |-> FALSE, told |-> FALSE, metrics |-> NULL]
    /\ hand = [life |-> "off", order |-> NULL, fault |-> FALSE]
    /\ recv = "off"
    /\ log = [thread |-> "off", file |-> "closed", queue |-> 0, sentinel |-> FALSE,
              given |-> 0, written |-> 0, drops |-> 0, errors |-> 0, told |-> <<0, 0>>]
    /\ ep = [runtime |-> "off", procs |-> {}, forwarder |-> FALSE, state |-> "IDLE", fate |-> NULL, failed |-> FALSE]
    /\ faults = 0

Loop == {"check", "control", "poll_rc", "read_metrics", "classify", "edge", "record", "log"}

\* The native worker connects and reports its startup reference.
NativeReady ==
    /\ native.life = "run" /\ ~native.ready /\ native' = [native EXCEPT !.ready = TRUE]
    /\ UNCHANGED <<plan, main, hand, recv, log, ep, faults>>

\* It stops by itself: a stop packet, a signal, the end of its own duration.
NativeStops ==
    /\ native.life = "run" /\ native.told /\ native' = [native EXCEPT !.life = "stopping"]
    /\ UNCHANGED <<plan, main, hand, recv, log, ep, faults>>

\* It stops writing, then its metrics become readable, then it is reaped.
NativeReports ==
    /\ native.life = "stopping"
    /\ native' = [native EXCEPT !.life = "reported", !.metrics = IF native.fault THEN "native_fault" ELSE "normal"]
    /\ UNCHANGED <<plan, main, hand, recv, log, ep, faults>>
NativeExits ==
    /\ native.life = "reported" /\ native' = [native EXCEPT !.life = "exited"]
    /\ UNCHANGED <<plan, main, hand, recv, log, ep, faults>>

\* A typed fault, or a crash that leaves no metrics.
NativeFaults == native.life = "run" /\ native' = [native EXCEPT !.life = "stopping", !.fault = TRUE] /\ UNCHANGED <<hand, recv, ep>>
NativeCrashes == native.life = "run" /\ native' = [native EXCEPT !.life = "exited"] /\ UNCHANGED <<hand, recv, ep>>
HandFails == hand.life = "run" /\ hand' = [hand EXCEPT !.life = "failed", !.fault = TRUE] /\ UNCHANGED <<native, recv, ep>>

\* QuestDatagramReceiverWorker._run keeps the exception for raise_if_failed.
ReceiverFails == recv = "run" /\ recv' = "failed" /\ UNCHANGED <<native, hand, ep>>

\* The recorder aborts the episode by itself.
RecorderFails ==
    /\ ep.runtime = "up" /\ ep.state # "DONE"
    /\ ep' = [ep EXCEPT !.state = "DONE", !.fate = "aborted"] /\ UNCHANGED <<native, hand, recv>>

Breaks ==
    /\ faults < MaxFaults /\ faults' = faults + 1 /\ main.pc # "exit"
    /\ NativeFaults \/ NativeCrashes \/ HandFails \/ ReceiverFails \/ RecorderFails
    /\ UNCHANGED <<plan, main, log>>

\* _AsyncEventLog._run: one record at a time.  A write fails on a full disk
\* (counted with the faults), and always once the file is closed under it.
LogThread ==
    /\ log.thread = "run" /\ (log.queue > 0 \/ log.sentinel)
    /\ \/ /\ log.queue > 0 /\ log.file = "open" /\ UNCHANGED faults
          /\ log' = [log EXCEPT !.queue = @ - 1, !.written = @ + 1]
       \/ /\ log.queue > 0
          /\ IF log.file = "open" THEN faults < MaxFaults /\ faults' = faults + 1 ELSE UNCHANGED faults
          /\ log' = [log EXCEPT !.queue = @ - 1, !.errors = @ + 1]
       \/ /\ log.queue = 0 /\ log.sentinel /\ UNCHANGED faults
          /\ log' = [log EXCEPT !.thread = "ended", !.sentinel = FALSE]
    /\ UNCHANGED <<plan, main, native, hand, recv, ep>>

\* LatestTargetPublisher.publish: a live socket takes the packet unless its
\* buffer is full (counted with the faults); a worker on its way out may.
Sends(ok) ==
    \/ native.life \in {"run", "stopping", "reported"} /\ ok /\ UNCHANGED faults
    \/ native.life # "run" /\ ~ok /\ UNCHANGED faults
    \/ native.life = "run" /\ ~ok /\ faults < MaxFaults /\ faults' = faults + 1

\* JakaAcceptedJointTargetAdapter.stop: nothing is applied from then on.
StopAdapter ==
    /\ \E ok \in BOOLEAN : Sends(ok) /\ native' = IF ok /\ native.life = "run" THEN [native EXCEPT !.told = TRUE] ELSE native

-----------------------------------------------------------------------------
(* Start *)

Goto(pc) == main' = [main EXCEPT !.pc = pc]
\* Nothing was started: a refusal, or an exception before the try block.
Refuse == main' = [main EXCEPT !.pc = "exit", !.exit = "refused"]

\* An exception on its way out of the try block.
Raise(kind) ==
    main' = [main EXCEPT !.raising = kind, !.pc = IF recv # "off" \/ log.thread # "off" THEN "leave" ELSE "except"]

\* main up to the construction of the objects; SystemExit before any I/O.
Configure ==
    /\ main.pc = "configure"
    /\ IF YamlRefuses \/ ProfileRefuses \/ ContractRefuses \/ HandRefuses \/ RatesRefuse \/ CpuRefuses
       THEN Refuse ELSE Goto("construct")
    /\ UNCHANGED <<plan, native, hand, recv, log, ep, faults>>

\* Generator, sockets, adapter, hand controller, session, router and the
\* native command line; what raises here is outside the try block.
Construct ==
    /\ main.pc = "construct" /\ UNCHANGED <<plan, native, hand, recv, log, ep>>
    /\ \/ Goto(IF Episodes THEN "episodes" ELSE "hand") /\ UNCHANGED faults
       \/ faults < MaxFaults /\ faults' = faults + 1 /\ Refuse

\* EpisodeDataRuntime.start before its own try block: two cameras with their
\* own serial numbers, a known profile, a dataset mapping.
EpisodeConfigFails ==
    /\ main.pc = "episodes" /\ main.at = 1 /\ faults < MaxFaults /\ faults' = faults + 1 /\ Raise("error")
    /\ UNCHANGED <<plan, native, hand, recv, log, ep>>

\* EpisodeDataRuntime.start: the cameras, the recorder, the preview (which
\* may be missing), then the forwarder thread.
StartEpisodes ==
    /\ main.pc = "episodes" /\ UNCHANGED <<plan, native, hand, recv, log>>
    /\ IF main.at > Len(Roles)
       THEN /\ ep' = [ep EXCEPT !.runtime = "up", !.forwarder = TRUE] /\ Goto("hand") /\ UNCHANGED faults
       ELSE \/ /\ ep' = [ep EXCEPT !.procs = IF Roles[main.at] = "preview" /\ ~plan.preview THEN @ ELSE @ \cup {Roles[main.at]}]
               /\ main' = [main EXCEPT !.at = @ + 1] /\ UNCHANGED faults
            \/ /\ Roles[main.at] = "preview" /\ faults < MaxFaults /\ faults' = faults + 1
               /\ main' = [main EXCEPT !.at = @ + 1] /\ UNCHANGED ep
            \/ /\ Roles[main.at] # "preview" /\ faults < MaxFaults /\ faults' = faults + 1
               /\ Goto("undo") /\ ep' = [ep EXCEPT !.procs = @ \cup {Roles[main.at]}]

\* ... and its except clause: the preview, the recorder, both cameras.
Undo(e) == [e EXCEPT !.procs = @ \ Processes]

UndoEpisodes ==
    /\ main.pc = "undo" /\ ep' = Undo(ep) /\ Raise("error")
    /\ UNCHANGED <<plan, native, hand, recv, log, faults>>

\* RH56PcDirectWorker.start(COMBINED).
StartHand ==
    /\ main.pc = "hand" /\ UNCHANGED <<plan, native, recv, log, ep>>
    /\ \/ ~Combined /\ Goto("native") /\ UNCHANGED <<hand, faults>>
       \/ Combined /\ hand' = [hand EXCEPT !.life = "run"] /\ Goto("native") /\ UNCHANGED faults
       \/ Combined /\ faults < MaxFaults /\ faults' = faults + 1 /\ Raise("error")
          /\ hand' = [hand EXCEPT !.life = "failed", !.fault = TRUE]

\* NativeWorkerProcess.start.
StartNative ==
    /\ main.pc = "native" /\ native' = [native EXCEPT !.life = "run"] /\ Goto("wait")
    /\ UNCHANGED <<plan, hand, recv, log, ep, faults>>

\* _wait_status: the startup reference, an early exit, or eight seconds.
WaitStatus ==
    /\ main.pc = "wait" /\ UNCHANGED <<plan, native, hand, recv, log, ep>>
    /\ \/ native.ready /\ Goto("receiver") /\ UNCHANGED faults
       \/ ~native.ready /\ native.life = "exited" /\ Raise("error") /\ UNCHANGED faults
       \/ ~native.ready /\ native.life \in {"stopping", "reported"} /\ Raise("error") /\ UNCHANGED faults
       \/ ~native.ready /\ faults < MaxFaults /\ faults' = faults + 1 /\ Raise("error")

\* _AsyncEventLog.__enter__ swallows its errors: the run goes on without a log.
OpenLog ==
    \/ log' = [log EXCEPT !.thread = "run", !.file = "open"] /\ UNCHANGED faults
    \/ log' = [log EXCEPT !.errors = @ + 1] /\ faults < MaxFaults /\ faults' = faults + 1

StartReceiver ==
    /\ main.pc = "receiver" /\ OpenLog /\ recv' = "run" /\ Goto("check")
    /\ UNCHANGED <<plan, native, hand, ep>>

-----------------------------------------------------------------------------
(* The control loop *)

HandFailed == Combined /\ hand.life = "failed"

\* _classify_worker_exit: the worker's own reason, if it left one.
ClassifyExit == IF native.metrics = NULL THEN "worker_exit" ELSE IF native.fault THEN "native_fault" ELSE "worker_exit"

Terminal(h) == IF Combined THEN [h EXCEPT !.order = "terminal"] ELSE h

\* The top of an iteration, up to the deadline of the next tick.
Check ==
    /\ main.pc = "check" /\ UNCHANGED <<plan, recv, log>>
    /\ \/ Goto("leave") /\ UNCHANGED <<native, hand, ep, faults>>      \* the duration is over
       \/ /\ main.ticks < MaxTicks /\ HandFailed /\ StopAdapter
          /\ main' = [main EXCEPT !.abort = "hand_fault", !.stop = "hand_fault", !.stopped = TRUE, !.pc = "leave"]
          /\ UNCHANGED <<hand, ep>>
       \/ /\ main.ticks < MaxTicks /\ ~HandFailed /\ native.life = "exited"        \* nobody is left to read the stop packet
          /\ main' = [main EXCEPT !.abort = ClassifyExit, !.stop = ClassifyExit, !.stopped = TRUE, !.pc = "leave"]
          /\ hand' = Terminal(hand) /\ UNCHANGED <<native, ep, faults>>
       \/ /\ main.ticks < MaxTicks /\ ~HandFailed /\ native.life # "exited" /\ recv = "failed"
          /\ Raise("error") /\ UNCHANGED <<native, hand, ep, faults>>
       \/ /\ main.ticks < MaxTicks /\ ~HandFailed /\ native.life # "exited" /\ recv = "run"
          \* A collector that ended by itself is a failed recording, not a failed robot.
          /\ ep' = [ep EXCEPT !.failed = @ \/ (ep.runtime = "up" /\ ep.state = "DONE")]
          /\ main' = [main EXCEPT !.pc = "control", !.ticks = @ + 1] /\ UNCHANGED <<native, hand, faults>>

\* session.control_tick: a target, a heartbeat, a disengaged tick that sends
\* nothing, a hard stop, or an exception.
Control ==
    /\ main.pc = "control" /\ UNCHANGED <<plan, native, hand, recv, log, ep>>
    /\ \/ \E kind \in {"target", "heartbeat"}, ok \in BOOLEAN :
             /\ Sends(ok)
             /\ main' = [main EXCEPT !.pc = IF ok THEN "edge" ELSE "poll_rc", !.tick = kind, !.engaged = kind = "target",
                                     !.late = IF ok /\ kind = "target" /\ hand.life = "failed" /\ @ < 2 THEN @ + 1 ELSE @]
       \/ main' = [main EXCEPT !.pc = "edge", !.tick = "disengaged", !.engaged = FALSE] /\ UNCHANGED faults
       \/ /\ faults < MaxFaults /\ faults' = faults + 1
          /\ main' = [main EXCEPT !.pc = "poll_rc", !.tick = "hard_stop", !.engaged = FALSE]
       \/ faults < MaxFaults /\ faults' = faults + 1 /\ Raise("error")

\* A failed dispatch: the process is asked first, its metrics file second.
PollReturnCode ==
    /\ main.pc = "poll_rc" /\ main' = [main EXCEPT !.pc = "read_metrics", !.rc = native.life = "exited"]
    /\ UNCHANGED <<plan, native, hand, recv, log, ep, faults>>

\* _native_terminal_reason_if_ready.
ReadMetrics ==
    /\ main.pc = "read_metrics" /\ main' = [main EXCEPT !.pc = "classify", !.typed = native.metrics = "native_fault"]
    /\ UNCHANGED <<plan, native, hand, recv, log, ep, faults>>

\* Metrics that became readable after the first look are read again when the
\* process had exited.
Classify ==
    /\ main.pc = "classify" /\ StopAdapter
    /\ LET reason == CASE main.rc -> ClassifyExit
                       [] ~main.rc /\ main.typed -> "native_fault"
                       [] ~main.rc /\ ~main.typed /\ main.tick = "hard_stop" -> "hard_stop"
                       [] ~main.rc /\ ~main.typed /\ main.tick = "heartbeat" -> "heartbeat_transport"
                       [] OTHER -> "IPC_failure"
       IN  main' = [main EXCEPT !.pc = "record", !.abort = reason, !.stop = reason, !.stopped = TRUE, !.prior = main.engaged]
    /\ hand' = Terminal(hand)
    /\ UNCHANGED <<plan, recv, log, ep>>

\* The release edge: a pause that cannot be sent ends the run after this tick.
Edge ==
    /\ main.pc = "edge" /\ UNCHANGED <<plan, native, hand, recv, log, ep>>
    /\ \/ /\ ~(main.prior /\ ~main.engaged) /\ UNCHANGED faults
          /\ main' = [main EXCEPT !.pc = "record", !.prior = main.engaged]
       \/ /\ main.prior /\ ~main.engaged
          /\ \E ok \in BOOLEAN : Sends(ok) /\
                main' = [main EXCEPT !.pc = "record", !.prior = FALSE,
                                     !.abort = IF ok THEN @ ELSE "pause_transport", !.stop = IF ok THEN @ ELSE "pause_transport"]

\* One sample for the collector: it starts, goes on, or the call fails, which
\* is a failed recording only.  A rotation returns a staging run to IDLE.
Record ==
    /\ main.pc = "record" /\ Goto("log") /\ UNCHANGED <<plan, native, hand, recv, log>>
    /\ \/ UNCHANGED <<ep, faults>>
       \/ /\ ep.runtime = "up" /\ ~ep.failed /\ ep.state = "IDLE" /\ UNCHANGED faults
          /\ ep' = [ep EXCEPT !.state = "REC", !.fate = NULL]
       \/ /\ ep.runtime = "up" /\ ~ep.failed /\ ep.state = "REC" /\ plan.format = "staging" /\ UNCHANGED faults
          /\ ep' = [ep EXCEPT !.state = "IDLE", !.fate = "rotated"]
       \/ /\ ep.runtime = "up" /\ ~ep.failed /\ ep.state # "DONE" /\ faults < MaxFaults /\ faults' = faults + 1
          /\ ep' = [ep EXCEPT !.failed = TRUE]

\* _AsyncEventLog.write never waits: a full queue counts a drop.
LogWrite(l) ==
    IF l.thread = "off" THEN l
    ELSE IF l.queue = LogCapacity THEN [l EXCEPT !.given = @ + 1, !.drops = @ + 1]
    ELSE [l EXCEPT !.given = @ + 1, !.queue = @ + 1]

\* A fault always has its event; other ticks when one is due: the health
\* period, a clutch edge, an episode boundary, every tick of a diagnostic run.
EventMustBeWritten == main.abort # NULL \/ plan.diagnostic

WriteEvent ==
    /\ main.pc = "log" /\ Goto("end_tick")
    /\ \/ log' = LogWrite(log)
       \/ ~EventMustBeWritten /\ log' = log
    /\ UNCHANGED <<plan, native, hand, recv, ep, faults>>

\* Timing rows, the event history cleared, and the break of a failed dispatch
\* or pause.
EndTick ==
    /\ main.pc = "end_tick" /\ Goto(IF main.abort # NULL THEN "leave" ELSE "check")
    /\ UNCHANGED <<plan, native, hand, recv, log, ep, faults>>

-----------------------------------------------------------------------------
(* The end of the try block *)

\* The inner finally closes the receiver; then the log's __exit__: the
\* sentinel if there is room within a second, a second for the thread, the
\* file closed in any case.
CloseReceiver ==
    /\ main.pc = "leave" /\ recv' = (IF recv = "off" THEN "off" ELSE "closed") /\ Goto("log_sentinel")
    /\ UNCHANGED <<plan, native, hand, log, ep, faults>>

LogSentinel ==
    /\ main.pc = "log_sentinel" /\ Goto("log_join") /\ UNCHANGED <<plan, native, hand, recv, ep, faults>>
    /\ IF log.thread = "off" THEN UNCHANGED log
       ELSE \/ log.queue < LogCapacity /\ log' = [log EXCEPT !.sentinel = TRUE]
            \/ log.queue = LogCapacity /\ log' = [log EXCEPT !.drops = @ + log.queue]

\* The counters reach the report only when nothing is being raised.
LogJoin ==
    /\ main.pc = "log_join" /\ main' = [main EXCEPT !.pc = IF main.raising = NULL THEN "cleanup" ELSE "except", !.at = 1]
    /\ LET closed == IF log.thread = "off" THEN log
                     ELSE [log EXCEPT !.file = "closed", !.errors = IF log.thread = "run" THEN @ + 1 ELSE @]
       IN  log' = IF main.raising = NULL THEN [closed EXCEPT !.told = <<closed.drops, closed.errors>>] ELSE closed
    /\ UNCHANGED <<plan, native, hand, recv, ep, faults>>

\* Ctrl+C or SIGTERM, once, anywhere in the try block.
Interrupt ==
    /\ main.pc \in {"episodes", "hand", "native", "wait", "receiver"} \cup Loop
    /\ faults < MaxFaults /\ faults' = faults + 1
    /\ IF main.pc = "episodes"
       THEN main' = [main EXCEPT !.raising = "interrupt", !.pc = "except"] /\ ep' = Undo(ep)
       ELSE Raise("interrupt") /\ UNCHANGED ep
    /\ UNCHANGED <<plan, native, hand, recv, log>>

\* except Exception: never to be taken for a completed duration.
ExceptMain ==
    LET reason == IF HandFailed THEN "hand_fault" ELSE "exception"
    IN  IF main.abort # NULL THEN [main EXCEPT !.pc = "cleanup", !.at = 1]
        ELSE [main EXCEPT !.pc = "cleanup", !.at = 1, !.abort = reason, !.stop = reason]

Except ==
    /\ main.pc = "except" /\ UNCHANGED <<plan, hand, recv, log, ep>>
    /\ \/ /\ main.raising = "interrupt" /\ StopAdapter
          /\ main' = [main EXCEPT !.pc = "cleanup", !.at = 1, !.stop = "keyboard", !.stopped = TRUE, !.raising = NULL]
       \/ main.raising = "error" /\ main' = ExceptMain /\ UNCHANGED <<native, faults>>

-----------------------------------------------------------------------------
(* The finally block *)

\* Mutant: the recorder is drained while the robot still runs.
CleanupOrder_EpisodesFirst == <<"episodes", "hand", "adapter", "native", "hand_worker">>

\* The order of the finally block.
CleanupOrder == <<"hand", "adapter", "native", "hand_worker", "episodes">>

Cleaning(part) == main.pc = "cleanup" /\ CleanupOrder[main.at] = part
CleanedMain == [main EXCEPT !.at = IF @ = Len(CleanupOrder) THEN 1 ELSE @ + 1,
                            !.pc = IF main.at = Len(CleanupOrder) THEN "report" ELSE "cleanup"]
Cleaned == main' = CleanedMain

\* The hand first: a terminal stop after an abort, else a hold.
CleanHand ==
    /\ Cleaning("hand") /\ Cleaned
    /\ hand' = IF ~Combined THEN hand ELSE [hand EXCEPT !.order = IF main.abort # NULL THEN "terminal" ELSE "hold"]
    /\ UNCHANGED <<plan, native, recv, log, ep, faults>>

\* Not every way out of the loop has stopped the adapter: a failed pause, an
\* exception and the end of the duration have not.
StopOwed == ~main.stopped

CleanAdapter ==
    /\ Cleaning("adapter")
    /\ IF StopOwed THEN StopAdapter /\ main' = [CleanedMain EXCEPT !.stopped = TRUE]
       ELSE UNCHANGED <<native, faults>> /\ Cleaned
    /\ UNCHANGED <<plan, hand, recv, log, ep>>

\* Mutant: the end waits for the worker as long as it takes.
NativeWaitOver_Unbounded == native.life \in {"off", "exited"}

\* One second for the stop packet, then NativeWorkerProcess.stop: SIGTERM,
\* five seconds, SIGKILL.
NativeWaitOver == TRUE

CleanNative ==
    /\ Cleaning("native") /\ NativeWaitOver /\ UNCHANGED <<plan, hand, recv, log, ep>>
    /\ \/ native.life \in {"off", "exited"} /\ Cleaned /\ UNCHANGED <<native, faults>>
       \/ /\ native.life \notin {"off", "exited"} /\ ~native.told
          /\ native' = [native EXCEPT !.told = TRUE] /\ UNCHANGED <<main, faults>>         \* SIGTERM
       \/ /\ native.life \notin {"off", "exited"} /\ native.told
          /\ native' = [native EXCEPT !.life = "exited"]                                  \* SIGKILL
          /\ Cleaned /\ UNCHANGED faults
       \/ /\ native.life \notin {"off", "exited"} /\ native.told                          \* a wait that raises
          /\ faults < MaxFaults /\ faults' = faults + 1 /\ UNCHANGED native
          /\ main' = [main EXCEPT !.pc = "exit", !.exit = "raised", !.skipped = TRUE]

\* RH56PcDirectWorker.cleanup and the recorder of its telemetry.
HandCleanup ==
    /\ Cleaning("hand_worker") /\ UNCHANGED <<plan, native, recv, log, ep>>
    /\ \/ /\ hand' = [hand EXCEPT !.life = IF @ = "off" THEN "off" ELSE "clean"]
          /\ Cleaned /\ UNCHANGED faults
       \/ /\ Combined /\ faults < MaxFaults /\ faults' = faults + 1 /\ UNCHANGED hand
          /\ main' = [main EXCEPT !.pc = "exit", !.exit = "raised", !.skipped = TRUE]

\* The episode under way: discarded, finished or aborted by how the run ended.
EpisodeFate ==
    IF main.abort # NULL \/ main.stop \notin {"duration_complete", "keyboard"} THEN "aborted"
    ELSE IF plan.format = "staging" THEN "discarded" ELSE "finished"

\* EpisodeDataRuntime.close: forwarder, preview, recorder, cameras.
CloseEpisodes(e, drained) == [e EXCEPT !.runtime = "closed", !.procs = {}, !.forwarder = FALSE]

\* The drain is bounded and its errors stay with the recording.
CleanEpisodes ==
    /\ Cleaning("episodes") /\ Cleaned
    /\ UNCHANGED <<plan, native, hand, recv, log>>
    /\ IF ep.runtime # "up" THEN UNCHANGED <<ep, faults>>
       ELSE \/ /\ ep' = CloseEpisodes(IF ep.state = "REC" THEN [ep EXCEPT !.state = "DONE", !.fate = EpisodeFate]
                                      ELSE [ep EXCEPT !.state = "DONE"], TRUE)
               /\ UNCHANGED faults
            \/ /\ faults < MaxFaults /\ faults' = faults + 1
               /\ ep' = CloseEpisodes([ep EXCEPT !.failed = TRUE], FALSE)

\* Mutant: only a failed target is looked up in the worker's record.
Reconcile_TargetOnly(reason) == IF reason = "IPC_failure" /\ native.metrics = "native_fault" THEN "native_fault" ELSE reason

\* _reconcile_terminal_transport_symptom: the completed metrics name a fault
\* that the loop could only see as a failed send.
Reconcile(reason) == IF reason \in Symptoms /\ native.metrics = "native_fault" THEN "native_fault" ELSE reason

\* The metrics file, the summary and the exit code; an exception that was
\* re-raised never gets here, and without metrics there is no summary.
Report ==
    /\ main.pc = "report" /\ UNCHANGED <<plan, native, hand, recv, log, ep, faults>>
    /\ IF main.raising = "error" \/ native.metrics = NULL
       THEN main' = [main EXCEPT !.pc = "exit", !.exit = "raised"]
       ELSE main' = [main EXCEPT !.pc = "exit", !.abort = Reconcile(@),
                                 !.exit = IF ep.failed \/ Reconcile(main.abort) # NULL THEN "two" ELSE "zero"]

-----------------------------------------------------------------------------

MainStep ==
    \/ Configure \/ Construct \/ StartEpisodes \/ UndoEpisodes \/ StartHand \/ StartNative \/ WaitStatus \/ StartReceiver
    \/ Check \/ Control \/ PollReturnCode \/ ReadMetrics \/ Classify \/ Edge \/ Record \/ WriteEvent \/ EndTick
    \/ CloseReceiver \/ LogSentinel \/ LogJoin \/ Except
    \/ CleanHand \/ CleanAdapter \/ CleanNative \/ HandCleanup \/ CleanEpisodes \/ Report

Next ==
    \/ MainStep \/ EpisodeConfigFails \/ Interrupt \/ Breaks \/ LogThread
    \/ NativeReady \/ NativeStops \/ NativeReports \/ NativeExits

\* The main thread runs; its waits on other processes all have a limit, so
\* nothing is asked of them but the status that a started worker sends.
Spec == Init /\ [][Next]_vars /\ WF_vars(MainStep) /\ WF_vars(NativeReady)

-----------------------------------------------------------------------------
(* Properties *)

\* The event queue stays within its capacity and every party is in a state
\* its code can be in.
TypeOK ==
    /\ log.queue \in 0 .. LogCapacity /\ log.thread \in {"off", "run", "ended"}
    /\ {log.given, log.written, log.drops, log.errors} \subseteq Nat
    /\ main.abort \in AbortReasons /\ main.ticks \in 0 .. MaxTicks /\ main.late \in 0 .. 2
    /\ main.exit \in {NULL, "refused", "raised", "zero", "two"} /\ main.raising \in {NULL, "interrupt", "error"}
    /\ native.life \in {"off", "run", "stopping", "reported", "exited"} /\ native.metrics \in {NULL, "normal", "native_fault"}
    /\ hand.life \in {"off", "run", "failed", "clean"} /\ hand.order \in {NULL, "hold", "terminal"}
    /\ recv \in {"off", "run", "failed", "closed"} /\ ep.procs \subseteq Processes
    /\ ep.fate \in {NULL, "rotated", "aborted", "discarded", "finished"} /\ faults \in 0 .. MaxFaults

\* A run whose configuration has any defect starts no process, opens no
\* device and no socket: every check precedes the first I/O.
RefusedBeforeIO ==
    plan.defect # NULL => native.life = "off" /\ hand.life = "off" /\ recv = "off" /\ ep.procs = {}

\* When the worker's metrics hold a typed fault, a report never blames the
\* transport or a bare exit for it, in whatever order the socket went, the
\* metrics became readable and the process was reaped.  (A pause that could
\* not be sent is not looked up and keeps its own reason.)
NativeFaultIsNamed ==
    main.exit \in {"zero", "two"} /\ native.metrics = "native_fault" => main.abort \notin Symptoms \cup {"worker_exit"}

\* An episode under way at the end is completed only when the run neither
\* aborted nor let an exception escape.
NoFalseCompletion == ep.fate = "finished" => main.abort = NULL /\ main.raising # "error"

\* After the hand has failed the arm gets at most the target of the tick that
\* had already passed the check.
HandFaultStopsTargets == main.late <= 1

\* However a started run ends, the arm was told to stop and the hand to hold,
\* or to stop for good after an abort, even when a later part of the cleanup
\* raised.
EndedIsSafe ==
    main.exit \notin {NULL, "refused"} =>
        /\ main.stopped
        /\ Combined => hand.order = IF main.abort = NULL THEN "hold" ELSE "terminal"

\* A cleanup that was not cut short leaves no process and no thread behind.
EndedIsClean ==
    main.exit # NULL /\ ~main.skipped =>
        /\ ep.procs = {} /\ ~ep.forwarder
        /\ native.life \in {"off", "exited"} /\ hand.life \in {"off", "clean"} /\ recv \in {"off", "closed"}

\* A report that counts no dropped event and no error of a run that was not
\* interrupted means that every event reached the file.
EventLossIsReported ==
    main.exit \in {"zero", "two"} /\ main.stop # "keyboard" /\ log.told = <<0, 0>> => log.written = log.given

\* The recorder is drained only when the robot is out of it: the arm stopped,
\* the native worker gone, the hand worker cleaned up.
RobotBeforeRecorder ==
    [][ep.runtime = "up" /\ ep'.runtime = "closed" =>
          main.stopped /\ native.life \in {"off", "exited"} /\ hand.life \in {"off", "clean"}]_vars

\* The report and the episode tell what happened: a native fault under its
\* own name, no completion of a failed run, no event lost without a count.
ReportIsTruthful == NativeFaultIsNamed /\ NoFalseCompletion /\ EventLossIsReported

\* From the first check to the exit code nothing moves that should not: no
\* I/O of a refused plan, no targets past a failed hand, the robot stopped
\* before the recorder is drained, and nothing left running.
SafeFromStartToEnd ==
    /\ [](TypeOK /\ RefusedBeforeIO /\ HandFaultStopsTargets /\ EndedIsSafe /\ EndedIsClean)
    /\ RobotBeforeRecorder

\* Every run ends, whatever hangs.
RunEnds == <>(main.exit # NULL)
=============================================================================
