-------------------------- MODULE EpisodeRecorder --------------------------
(***************************************************************************)
(* The episode recorder (src/episode_dataset/process_runtime.py and        *)
(* runtime.py; tools/quest_jaka_hardware.py for the producer's side).      *)
(*                                                                         *)
(* Three actors share it: the producer (the control loop, through          *)
(* ProcessEpisodeCollectorProxy), the camera forwarder thread of the same  *)
(* process, and the recorder process that owns the collector.  Commands    *)
(* travel in a bounded control queue, frames in a bounded latest-only      *)
(* queue per camera with a shared count of the pending ones, and reports   *)
(* come back in a bounded latest-only queue.  The recorder lets a control  *)
(* command pass only when no frame is pending, so that a boundary is cut   *)
(* after the frames that were sent before it.                              *)
(*                                                                         *)
(* The writer is what the recorder needs of it: whether the episode is     *)
(* open, has rows, and was settled; a settling call may raise.  Module     *)
(* EpisodeWriter has the writer itself.                                    *)
(***************************************************************************)
EXTENDS EpisodeCollector, Sequences, FiniteSets, FiniteSetsExt

CONSTANTS
    ControlSlots, CameraSlots, StatusSlots,     \* capacities of the queues
    MaxEpisodes                                 \* bound on the rotations

ASSUME RecorderAssumption ==
    /\ IsFiniteSet(Roles) /\ ControlSlots \in Nat \ {0} /\ CameraSlots \in Nat \ {0}
    /\ StatusSlots \in Nat \ {0} /\ MaxEpisodes \in Nat
    /\ "none" \notin Roles

VARIABLES
    phase, idle, active, rotating, captureFailed,       \* the producer
    proxy, latest, response, recorderError,             \* proxy and handle
    fpc, frameRole, forwarderStop,                      \* the forwarder
    control, cameraQueue, pending, status,              \* the channels
    cpc, cmd, deferred, inHand, col, writer, episode,   \* the recorder process
    left, ahead, leaked                                 \* history

producerVars == <<phase, idle, active, rotating, captureFailed>>
handleVars == <<proxy, latest, response, recorderError>>
forwarderVars == <<fpc, frameRole, forwarderStop>>
recorderVars == <<cpc, cmd, deferred, inHand, col, writer, episode>>
vars == <<producerVars, handleVars, forwarderVars, control, cameraQueue, pending, status, recorderVars, left, ahead,
          leaked>>

NoCommand == [kind |-> "none", active |-> FALSE]
Command(kind) == [kind |-> kind, active |-> FALSE]
Boundary == {"finish", "abort", "discard_current", "shutdown", "rotate"}
HasBoundary(q) == \E i \in 1 .. Len(q) : q[i].kind \in Boundary
NoRole == "none"
NewWriter == [phase |-> "new", rows |-> FALSE]
Settled == {"finalized", "discarded", "closed"}
Alive == cpc \notin {"ended", "crashed"}

\* The places of the camera queues that hold a frame.
FramePlaces == {x \in Roles \X (1 .. CameraSlots) : x[2] <= cameraQueue[x[1]]}
QueuedFrames == Cardinality(FramePlaces)
Fitting(commands) == SubSeq(commands, 1, Min({Len(commands), ControlSlots - Len(control)}))

Init ==
    /\ phase = "starting" /\ idle = FALSE /\ active = TRUE /\ rotating = FALSE /\ captureFailed = FALSE
    /\ proxy = [state |-> "IDLE", status |-> "none", rows |-> FALSE, episode |-> 0, result |-> FALSE]
    /\ latest = <<>> /\ response = <<>> /\ recorderError = FALSE
    /\ fpc = "off" /\ frameRole = NoRole /\ forwarderStop = FALSE
    /\ control = <<>> /\ cameraQueue = [r \in Roles |-> 0] /\ pending = 0 /\ status = <<>>
    /\ cpc = "create" /\ cmd = NoCommand /\ deferred = NoCommand /\ inHand = NoRole
    /\ col = NewCollector /\ writer = NewWriter /\ episode = 0
    /\ left = {} /\ ahead = [r \in Roles |-> 0] /\ leaked = 0

\* _queue_put_latest: the oldest report makes room.
PutLatest(q, m) == IF Len(q) < StatusSlots THEN Append(q, m) ELSE Append(Tail(q), m)

-----------------------------------------------------------------------------
(* The handle and the proxy: what a caller learns from the reports *)

Reports(kind) == {i \in 1 .. Len(status) : status[i].kind = kind}
LastOf(reports, old) == IF reports = {} THEN old ELSE <<status[Max(reports)]>>

\* ProcessEpisodeRecorder.poll() and error: a child that ended badly is one.
ReportedError == recorderError \/ Reports("error") # {} \/ cpc = "crashed"
Poll ==
    /\ latest' = LastOf(Reports("state"), latest)
    /\ response' = LastOf(Reports("response"), response)
    /\ recorderError' = ReportedError
    /\ status' = <<>>

\* _mark_failed
Failed(p) == [p EXCEPT !.state = "DONE", !.status = "ABORTED"]

\* _apply_status
ApplyStatus(p, m) ==
    [state |-> m.state, status |-> IF m.status = "none" THEN p.status ELSE m.status,
     rows |-> m.rows, episode |-> m.episode, result |-> p.result \/ m.result]

\* _sync, after a poll.
SyncWith(p, report, lost) ==
    LET applied == IF report = <<>> THEN p ELSE ApplyStatus(p, report[1]) IN
    IF lost /\ applied.state # "DONE" THEN Failed(applied) ELSE applied
Sync(p) == SyncWith(p, latest', recorderError')

FramesAhead ==
    [r \in Roles |-> cameraQueue[r] + (IF inHand = r THEN 1 ELSE 0) + (IF frameRole = r THEN 1 ELSE 0)]

\* send() of one command after another: a full queue is a permanent error.
SendAll(commands) ==
    IF recorderError THEN UNCHANGED <<control, recorderError, ahead>>
    ELSE /\ control' = control \o Fitting(commands)
         /\ recorderError' = (Len(control) + Len(commands) > ControlSlots)
         /\ ahead' = IF HasBoundary(Fitting(commands)) THEN FramesAhead ELSE ahead

-----------------------------------------------------------------------------
(* The producer *)

\* start(): only get() takes the ready report; the polls of the loop throw
\* it away like every report they do not know.
StartReady ==
    /\ phase = "starting" /\ status # <<>> /\ Head(status).kind = "ready"
    /\ \/ phase' = "check" /\ fpc' = "loop"
       \/ UNCHANGED <<phase, fpc>>
    /\ status' = Tail(status)
    /\ UNCHANGED <<idle, active, rotating, captureFailed, handleVars, frameRole, forwarderStop, control, cameraQueue,
                   pending, recorderVars, left, ahead, leaked>>

StartFails ==
    /\ phase = "starting" /\ phase' = "stopping"
    /\ Poll /\ proxy' = proxy
    /\ UNCHANGED <<idle, active, rotating, captureFailed, forwarderVars, control, cameraQueue, pending, recorderVars,
                   left, ahead, leaked>>

\* The start of a tick: has the episode failed?
TickCheck ==
    /\ phase = "check"
    /\ Poll /\ proxy' = Sync(proxy)
    /\ captureFailed' = (captureFailed \/ (proxy'.state = "DONE" /\ proxy'.status # "COMPLETED"))
    /\ phase' = "decide"
    /\ UNCHANGED <<idle, active, rotating, forwarderVars, control, cameraQueue, pending, recorderVars, left, ahead,
                   leaked>>

\* rotate_episode: the boundary goes behind the frames that were sent.
RotateCommands == <<Command("flush_camera"), Command("rotate")>>

\* The record gate: is a sample offered in this tick, and with which intent?
Records(intent, flying) ==
    ~captureFailed /\ proxy.state # "DONE" /\ (intent \/ (proxy.state = "REC" /\ ~flying))
SampleCommand(intent) == [kind |-> "control", active |-> IF proxy.state = "REC" THEN TRUE ELSE intent]

\* The rotation logic and the sample of the tick.
TickDecide(released, long) ==
    LET rows == proxy.rows
        rotate == released /\ rows /\ idle /\ ~rotating /\ long /\ ~captureFailed
        flying == rotating \/ rotate
        landed == flying /\ ~rows /\ ~released
    IN /\ phase = "decide" /\ phase' = "check"
       /\ rotate => proxy.episode < MaxEpisodes
       /\ IF captureFailed THEN UNCHANGED <<idle, active, rotating>>
          ELSE /\ idle' = (released /\ (IF rows THEN ~rotate ELSE idle))
               /\ rotating' = (flying /\ ~landed)
               /\ active' = CASE landed -> TRUE
                              [] released /\ rows -> IF ~idle \/ rotate THEN FALSE ELSE active
                              [] released /\ proxy.state = "ARMING" -> FALSE
                              [] ~released /\ ~rotating -> TRUE
                              [] OTHER -> active
       /\ SendAll((IF rotate THEN RotateCommands ELSE <<>>)
                  \o (IF Records(active', rotating') THEN <<SampleCommand(active')>> ELSE <<>>))
       /\ proxy' = IF recorderError' THEN Failed(proxy) ELSE proxy
       /\ UNCHANGED <<captureFailed, latest, response, forwarderVars, cameraQueue, pending, status, recorderVars, left,
                      leaked>>

\* The session ends: the forwarder is told to stop and joined for 2 s.
EndSession ==
    /\ phase = "check" /\ phase' = "joinForwarder" /\ forwarderStop' = TRUE
    /\ UNCHANGED <<idle, active, rotating, captureFailed, handleVars, fpc, frameRole, control, cameraQueue, pending,
                   status, recorderVars, left, ahead, leaked>>

\* finish, abort, discard_current and shutdown of the proxy.
CutCommands(kind) == <<Command("flush_camera"), Command(kind)>>

\* Then the episode that is still open is cut off, as the stop reason says.
CutEpisode ==
    /\ phase = "joinForwarder" /\ phase' = "request"
    /\ latest' = LastOf(Reports("state"), latest) /\ response' = LastOf(Reports("response"), response) /\ status' = <<>>
    /\ LET lost == ReportedError
           synced == SyncWith(proxy, latest', lost)
       IN \E kind \in IF synced.state = "REC" THEN {"discard_current", "finish", "abort"} ELSE {"shutdown"} :
          LET commands == CutCommands(kind) IN
          /\ proxy' = IF kind = "discard_current" THEN synced ELSE [synced EXCEPT !.state = "DONE"]
          /\ IF lost THEN recorderError' = TRUE /\ UNCHANGED <<control, ahead>>
             ELSE /\ control' = control \o Fitting(commands)
                  /\ ahead' = IF HasBoundary(Fitting(commands)) THEN FramesAhead ELSE ahead
                  /\ recorderError' = (Fitting(commands) # commands)
    /\ UNCHANGED <<idle, active, rotating, captureFailed, forwarderVars, cameraQueue, pending, recorderVars, left,
                   leaked>>

\* finalize_pending(): a request, if the recorder is well and takes it in time.
RequestFinalize ==
    /\ phase = "request"
    /\ \/ /\ recorderError /\ phase' = "stopping" /\ UNCHANGED <<control, proxy>>
       \/ /\ ~recorderError /\ Len(control) < ControlSlots
          /\ control' = Append(control, Command("finalize_pending")) /\ phase' = "await" /\ UNCHANGED proxy
       \/ /\ ~recorderError /\ Len(control) = ControlSlots
          /\ phase' = "stopping" /\ proxy' = Failed(proxy) /\ UNCHANGED control
    /\ UNCHANGED <<idle, active, rotating, captureFailed, latest, response, recorderError, forwarderVars, cameraQueue,
                   pending, status, recorderVars, left, ahead, leaked>>

AwaitResponse ==
    /\ phase = "await"
    /\ Poll /\ response' # <<>>
    /\ proxy' = IF response'[1].raised THEN Failed(proxy) ELSE ApplyStatus(proxy, response'[1])
    /\ phase' = "stopping"
    /\ UNCHANGED <<idle, active, rotating, captureFailed, forwarderVars, control, cameraQueue, pending, recorderVars,
                   left, ahead, leaked>>

\* Eight seconds without an answer, or a recorder that failed.
AwaitFails ==
    /\ phase = "await" /\ Poll /\ response' = <<>>
    /\ proxy' = Failed(proxy) /\ phase' = "stopping"
    /\ UNCHANGED <<idle, active, rotating, captureFailed, forwarderVars, control, cameraQueue, pending, recorderVars,
                   left, ahead, leaked>>

\* stop(): ask, join, terminate, kill.
StopRecorder ==
    /\ phase = "stopping" /\ phase' = "joining"
    /\ control' = IF Alive /\ Len(control) < ControlSlots THEN Append(control, Command("stop")) ELSE control
    /\ UNCHANGED <<idle, active, rotating, captureFailed, handleVars, forwarderVars, cameraQueue, pending, status,
                   recorderVars, left, ahead, leaked>>

JoinRecorder ==
    /\ phase = "joining" /\ phase' = "closed"
    /\ cpc' = IF Alive THEN "crashed" ELSE cpc
    /\ Poll /\ UNCHANGED proxy
    /\ UNCHANGED <<idle, active, rotating, captureFailed, forwarderVars, control, cameraQueue, pending,
                   cmd, deferred, inHand, col, writer, episode, left, ahead, leaked>>

ProducerStep ==
    \/ StartReady \/ StartFails \/ TickCheck \/ (\E r, l \in BOOLEAN : TickDecide(r, l)) \/ EndSession \/ CutEpisode
    \/ RequestFinalize \/ AwaitResponse \/ AwaitFails \/ StopRecorder \/ JoinRecorder

-----------------------------------------------------------------------------
(* The camera forwarder *)

\* Mutant: the frame is not counted before it is queued.
ForwardLoop_NotCounted ==
    /\ fpc = "loop"
    /\ Poll /\ proxy' = Sync(proxy)
    /\ IF forwarderStop \/ proxy'.state = "DONE" THEN fpc' = "ended" /\ UNCHANGED frameRole
       ELSE \E r \in Roles : fpc' = "put" /\ frameRole' = r
    /\ UNCHANGED <<producerVars, forwarderStop, pending, control, cameraQueue, recorderVars, left, ahead, leaked>>

\* The forwarder ends for good when it finds the episode done.
ForwardLoop ==
    /\ fpc = "loop"
    /\ Poll /\ proxy' = Sync(proxy)
    /\ IF forwarderStop \/ proxy'.state = "DONE" THEN fpc' = "ended" /\ UNCHANGED <<frameRole, pending>>
       ELSE \/ \E r \in Roles : fpc' = "put" /\ frameRole' = r /\ pending' = pending + 1
            \/ fpc' = "loop" /\ UNCHANGED <<frameRole, pending>>
    /\ UNCHANGED <<producerVars, forwarderStop, control, cameraQueue, recorderVars, left, ahead, leaked>>

\* Mutant: the frame dropped for the new one stays counted.
ForwardPut_DropStaysPending ==
    /\ fpc = "put" /\ fpc' = "loop" /\ frameRole' = NoRole
    /\ cameraQueue' = [cameraQueue EXCEPT ![frameRole] = IF @ < CameraSlots THEN @ + 1 ELSE @]
    /\ UNCHANGED <<producerVars, handleVars, forwarderStop, control, pending, status, recorderVars, left, ahead,
                   leaked>>

\* send_camera: put the frame, dropping the oldest when the queue is full.
ForwardPut ==
    /\ fpc = "put" /\ fpc' = "loop" /\ frameRole' = NoRole
    /\ LET full == cameraQueue[frameRole] = CameraSlots IN
       /\ cameraQueue' = [cameraQueue EXCEPT ![frameRole] = IF full THEN @ ELSE @ + 1]
       /\ pending' = IF full THEN pending - 1 ELSE pending
       /\ ahead' = [ahead EXCEPT ![frameRole] = IF full /\ @ > 0 THEN @ - 1 ELSE @]
    /\ UNCHANGED <<producerVars, handleVars, forwarderStop, control, status, recorderVars, left, leaked>>

\* A camera that fails: camera_fault() aborts through the proxy.
ForwardFault ==
    /\ fpc = "loop" /\ proxy.state # "DONE" /\ ~forwarderStop
    /\ SendAll(<<Command("flush_camera"), Command("abort")>>)
    /\ proxy' = [proxy EXCEPT !.state = "DONE"]
    /\ UNCHANGED <<producerVars, latest, response, forwarderVars, cameraQueue, pending, status, recorderVars, left,
                   leaked>>

\* An exception in the thread: the episode is aborted and the thread is gone.
ForwardCrash ==
    /\ fpc = "loop" /\ fpc' = "ended"
    /\ SendAll(<<Command("flush_camera"), Command("abort")>>)
    /\ proxy' = [proxy EXCEPT !.state = "DONE"]
    /\ UNCHANGED <<producerVars, latest, response, frameRole, forwarderStop, cameraQueue, pending, status, recorderVars,
                   left, leaked>>

-----------------------------------------------------------------------------
(* The recorder process *)

\* create_episode and the ready report, or a failure during startup.
CreateEpisode ==
    /\ cpc = "create"
    /\ \E kind \in {"ready", "error"} :
          /\ status' = PutLatest(status, [kind |-> kind, state |-> "IDLE", status |-> "none", rows |-> FALSE,
                                          episode |-> 0, result |-> FALSE, raised |-> FALSE])
          /\ cpc' = IF kind = "ready" THEN "next" ELSE "ended"
    /\ UNCHANGED <<producerVars, handleVars, forwarderVars, control, cameraQueue, pending, cmd, deferred, inHand, col,
                   writer, episode, left, ahead, leaked>>

\* The top of the loop and next_command(): frames first.
NextCommand ==
    /\ cpc = "next"
    /\ \/ /\ pending > 0 /\ UNCHANGED <<cmd, deferred>>
          /\ \E r \in Roles :
                /\ cameraQueue[r] > 0 /\ cameraQueue' = [cameraQueue EXCEPT ![r] = @ - 1]
                /\ inHand' = r /\ cpc' = "camera"
       \/ /\ pending = 0 /\ deferred # NoCommand
          /\ cmd' = deferred /\ deferred' = NoCommand /\ cpc' = "pass" /\ UNCHANGED <<cameraQueue, inHand>>
       \/ /\ pending = 0 /\ deferred = NoCommand
          /\ cpc' = "take" /\ UNCHANGED <<cmd, deferred, cameraQueue, inHand>>
    /\ UNCHANGED <<producerVars, handleVars, forwarderVars, control, pending, status, col, writer, episode, left,
                   ahead, leaked>>

TakeControl ==
    /\ cpc = "take"
    /\ IF control = <<>> THEN cpc' = "next" /\ UNCHANGED <<control, cmd>>
       ELSE cpc' = "pass" /\ cmd' = Head(control) /\ control' = Tail(control)
    /\ UNCHANGED <<producerVars, handleVars, forwarderVars, cameraQueue, pending, status, deferred, inHand, col, writer,
                   episode, left, ahead, leaked>>

\* A command waits until the frames sent before it are in.
PassOrDefer ==
    /\ cpc = "pass"
    /\ IF pending > 0 THEN cpc' = "next" /\ deferred' = cmd /\ cmd' = NoCommand
       ELSE cpc' = "dispatch" /\ UNCHANGED <<cmd, deferred>>
    /\ UNCHANGED <<producerVars, handleVars, forwarderVars, control, cameraQueue, pending, status, inHand, col, writer,
                   episode, left, ahead, leaked>>

Report(kind, c, w, e, raised) ==
    status' = PutLatest(status, [kind |-> kind, state |-> c.state, status |-> c.status, rows |-> w.rows,
                                 episode |-> e, result |-> c.result, raised |-> raised])

Nominal == [ordered |-> TRUE, active |-> TRUE, ready |-> TRUE, fault |-> FALSE, due |-> TRUE, control |-> TRUE,
            cams |-> [r \in Roles |-> "fresh"], fields |-> TRUE]
AllWell == [begin |-> "ok", row |-> "ok", raw |-> "ok"]

\* A sample and a reply of the writer with at most one thing amiss.
Anomalies(base) ==
    {<<base, AllWell>>}
      \cup {<<[base EXCEPT ![f] = ~@], AllWell>> : f \in {"ordered", "ready", "fault", "due", "control", "fields"}}
      \cup {<<[base EXCEPT !.cams[r] = v], AllWell>> : r \in Roles, v \in {"stale", "severe"}}
      \cup {<<base, [AllWell EXCEPT !.begin = v]>> : v \in {"rejected", "failed"}}
      \cup {<<base, [AllWell EXCEPT !.row = v]>> : v \in {"full", "failed"}}
      \cup {<<base, [AllWell EXCEPT !.raw = "failed"]>>}
OneAnomaly(on) == Anomalies([Nominal EXCEPT !.active = on])

\* A frame reaches the collector and stops being pending.  A recording may
\* stumble over it (a device clock that is missing cannot be compared): the
\* episode is aborted and the frame, though gone, stays counted.
DispatchCamera ==
    /\ cpc = "camera" /\ cpc' = "next"
    /\ \/ /\ \E regressed \in BOOLEAN : col' = IngestCamera(col, regressed, AllWell)
          /\ pending' = pending - 1 /\ UNCHANGED leaked
       \/ /\ col.state = "REC" /\ col' = Abort(col, FALSE)
          /\ leaked' = leaked + 1 /\ UNCHANGED pending
    /\ inHand' = NoRole
    /\ ahead' = [ahead EXCEPT ![inHand] = IF @ > 0 THEN @ - 1 ELSE @]
    /\ Report("state", col', writer, episode, FALSE)
    /\ UNCHANGED <<producerVars, handleVars, forwarderVars, control, cameraQueue, cmd, deferred, writer, episode, left>>

Idling == cpc = "dispatch" /\ cpc' = "next" /\ cmd' = NoCommand

DispatchControl ==
    /\ cmd.kind = "control" /\ Idling
    /\ \E sw \in OneAnomaly(cmd.active) :
          /\ col' = IngestControl(col, sw[1], sw[2])
          /\ writer' = [phase |-> IF CallsBegin(col, sw[1]) /\ sw[2].begin = "ok" THEN "open" ELSE writer.phase,
                        rows |-> writer.rows \/ (CallsRow(col, sw[1], sw[2]) /\ sw[2].row = "ok")]
    /\ Report("state", col', writer', episode, FALSE)
    /\ UNCHANGED <<producerVars, handleVars, forwarderVars, control, cameraQueue, pending, deferred, inHand, episode,
                   left, ahead, leaked>>

\* flush_camera: every frame that is queued goes to the collector, or those
\* before one that a recording stumbles over: that one stays counted, the
\* others stay queued, and the episode goes on.
DispatchFlush ==
    /\ cmd.kind = "flush_camera" /\ Idling
    /\ \/ /\ col' \in IF QueuedFrames = 0 THEN {col} ELSE {IngestCamera(col, x, AllWell) : x \in BOOLEAN}
          /\ cameraQueue' = [r \in Roles |-> 0]
          /\ pending' = pending - QueuedFrames /\ UNCHANGED leaked
       \/ /\ col.state = "REC" /\ UNCHANGED col
          /\ cameraQueue' \in [Roles -> 0 .. CameraSlots] /\ cameraQueue' # cameraQueue
          /\ \A r \in Roles : cameraQueue'[r] <= cameraQueue[r]
          /\ pending' = pending - QueuedFrames + QueuedFrames' + 1 /\ leaked' = leaked + 1
    /\ ahead' = [r \in Roles |-> Max({0, ahead[r] + cameraQueue'[r] - cameraQueue[r]})]
    /\ Report("state", col', writer, episode, FALSE)
    /\ UNCHANGED <<producerVars, handleVars, forwarderVars, control, deferred, inHand, writer, episode, left>>

\* The collector's finalize_pending on the current writer.
Settle(c, w, raised) ==
    IF raised THEN w
    ELSE CASE PendingCall(c) \in {"reject", "discard"} -> [w EXCEPT !.phase = "discarded"]
           [] PendingCall(c) \in {"finish", "abort"} -> [w EXCEPT !.phase = "finalized"]
           [] OTHER -> w
CloseIdle(c, w) == IF c.state = "IDLE" THEN [w EXCEPT !.phase = "closed"] ELSE w

\* finish, abort and shutdown only take note, unless there is nothing open.
DispatchEnd ==
    /\ cmd.kind \in {"finish", "abort", "shutdown"} /\ Idling
    /\ \E raised \in BOOLEAN :
          IF cmd.kind = "shutdown" /\ col.state = "DONE"
          THEN /\ raised => PendingCall(col) # "none"
               /\ col' = FinalizePending(col, raised) /\ writer' = Settle(col, writer, raised)
               /\ Report("state", col', writer', episode, raised)
          ELSE /\ ~raised
               /\ col' = CASE cmd.kind = "finish" -> Finish(col)
                           [] cmd.kind = "abort" -> Abort(col, FALSE)
                           [] OTHER -> Shutdown(col)
               /\ writer' = IF cmd.kind = "abort" THEN writer ELSE CloseIdle(col, writer)
               /\ Report("state", col', writer', episode, FALSE)
    /\ UNCHANGED <<producerVars, handleVars, forwarderVars, control, cameraQueue, pending, deferred, inHand, episode,
                   left, ahead, leaked>>

DispatchDiscard ==
    /\ cmd.kind = "discard_current" /\ Idling
    /\ \E raised \in BOOLEAN :
          LET c == DiscardCurrent(col) IN
          /\ raised => PendingCall(c) # "none"
          /\ col' = FinalizePending(c, raised) /\ writer' = Settle(c, writer, raised)
          /\ Report("state", col', writer', episode, raised)
    /\ UNCHANGED <<producerVars, handleVars, forwarderVars, control, cameraQueue, pending, deferred, inHand, episode,
                   left, ahead, leaked>>

\* Mutant: a rotation opens the next episode whatever became of this one.
DispatchRotate_GoesOn ==
    /\ cmd.kind = "rotate" /\ Idling
    /\ \E raised \in BOOLEAN :
          LET c == IF col.state = "REC" THEN Finish(col) ELSE col IN
          /\ left' = left \cup {Settle(c, CloseIdle(col, writer), raised).phase}
          /\ col' = NewCollector /\ writer' = NewWriter /\ episode' = episode + 1
          /\ Report("state", col', writer', episode', raised)
    /\ UNCHANGED <<producerVars, handleVars, forwarderVars, control, cameraQueue, pending, deferred, inHand, ahead,
                   leaked>>

\* rotate: settle this episode, open the next; an exception of the writer
\* leaves the recorder where it is.
DispatchRotate ==
    /\ cmd.kind = "rotate" /\ Idling
    /\ \E raised \in BOOLEAN :
          LET c == IF col.state = "REC" THEN Finish(col) ELSE col IN
          /\ raised => PendingCall(c) # "none"
          /\ IF raised
             THEN /\ col' = FinalizePending(c, TRUE) /\ UNCHANGED <<writer, episode, left>>
             ELSE /\ left' = left \cup {Settle(c, CloseIdle(col, writer), FALSE).phase}
                  /\ col' = NewCollector /\ writer' = NewWriter /\ episode' = episode + 1
          /\ Report("state", col', writer', episode', raised)
    /\ UNCHANGED <<producerVars, handleVars, forwarderVars, control, cameraQueue, pending, deferred, inHand, ahead,
                   leaked>>

\* finalize_pending answers and ends the loop; stop ends it at once.  An
\* idle writer is closed on the way out.
DispatchLast ==
    /\ cmd.kind \in {"finalize_pending", "stop"} /\ cpc = "dispatch" /\ cpc' = "ended" /\ cmd' = NoCommand
    /\ \E raised \in BOOLEAN :
          IF cmd.kind = "stop" THEN ~raised /\ writer' = CloseIdle(col, writer) /\ UNCHANGED <<col, status>>
          ELSE /\ raised => PendingCall(col) # "none"
               /\ col' = FinalizePending(col, raised) /\ writer' = CloseIdle(col, Settle(col, writer, raised))
               /\ Report("response", col', writer', episode, raised)
    /\ UNCHANGED <<producerVars, handleVars, forwarderVars, control, cameraQueue, pending, deferred, inHand, episode,
                   left, ahead, leaked>>

\* The process dies, or is killed by something else.
Crash ==
    /\ Alive /\ cpc' = "crashed"
    /\ UNCHANGED <<producerVars, handleVars, forwarderVars, control, cameraQueue, pending, status, cmd, deferred,
                   inHand, col, writer, episode, left, ahead, leaked>>

RecorderStep ==
    \/ CreateEpisode \/ NextCommand \/ TakeControl \/ PassOrDefer \/ DispatchCamera \/ DispatchControl
    \/ DispatchFlush \/ DispatchEnd \/ DispatchDiscard \/ DispatchRotate \/ DispatchLast

Next == ProducerStep \/ ForwardLoop \/ ForwardPut \/ ForwardFault \/ ForwardCrash \/ RecorderStep \/ Crash

Spec == Init /\ [][Next]_vars

-----------------------------------------------------------------------------
(* Properties *)

Kinds == Boundary \cup {"none", "control", "flush_camera", "finalize_pending", "stop"}

TypeOK ==
    /\ phase \in {"starting", "check", "decide", "joinForwarder", "request", "await", "stopping", "joining", "closed"}
    /\ {idle, active, rotating, captureFailed, recorderError, forwarderStop} \subseteq BOOLEAN
    /\ proxy \in [state : CaptureState, status : EpisodeStatus \cup {"none"}, rows : BOOLEAN,
                 episode : 0 .. MaxEpisodes, result : BOOLEAN]
    /\ fpc \in {"off", "loop", "put", "ended"} /\ frameRole \in Roles \cup {NoRole}
    /\ Len(control) <= ControlSlots /\ Len(status) <= StatusSlots
    /\ \A i \in 1 .. Len(control) : control[i].kind \in Kinds
    /\ cameraQueue \in [Roles -> 0 .. CameraSlots] /\ pending \in Nat
    /\ cpc \in {"create", "next", "take", "pass", "dispatch", "camera", "ended", "crashed"}
    /\ cmd.kind \in Kinds /\ deferred.kind \in Kinds /\ inHand \in Roles \cup {NoRole}
    /\ col \in Collector /\ episode \in 0 .. MaxEpisodes
    /\ writer \in [phase : Settled \cup {"new", "open"}, rows : BOOLEAN]
    /\ ahead \in [Roles -> 0 .. CameraSlots + 2] /\ leaked \in Nat

\* The pending count is exactly the frames queued, in the forwarder's hand
\* and in the recorder's hand, and those a recording stumbled over: no drop,
\* flush or crash loses or doubles one.
PendingCountsFrames ==
    pending = QueuedFrames + (IF fpc = "put" THEN 1 ELSE 0) + (IF inHand # NoRole THEN 1 ELSE 0) + leaked

\* Once a frame is gone and still counted, the recorder takes frames and
\* nothing else: no later command is carried out as if all were well.
LeakShutsGate == leaked > 0 => cpc \in {"next", "camera", "crashed"}

\* next_command ("without starving control"): with no frame queued or in
\* hand the control channel is read.
ControlIsServed == QueuedFrames = 0 /\ fpc # "put" /\ inHand = NoRole => pending = 0

\* A deferred command is executed before any later one: none is overwritten
\* and the order of the producer's commands is kept.
DeferredGoesFirst == deferred # NoCommand => cpc \in {"next", "camera", "crashed"} /\ cmd = NoCommand

\* A boundary (finish, abort, discard, shutdown, rotate) is executed after
\* every frame the forwarder had counted when it was sent.  ahead counts the
\* frames before the boundary that was sent last.
LastBoundary == cmd.kind \in Boundary /\ ~HasBoundary(control)
BoundaryAfterFrames ==
    [][cpc = "dispatch" /\ LastBoundary /\ cpc' = "next" => \A r \in Roles : ahead[r] = 0]_vars

\* Rotation leaves an episode behind only once its writer was finalized,
\* discarded or closed.
RotationSettles == left \subseteq Settled

\* The producer is told of a result only when the writer settled an episode
\* of this session: an exception on the way leaves none.
ResultIsSettled == proxy.result => (left \cup {writer.phase}) \cap {"finalized", "discarded"} # {}

\* A recorder process that is gone is noticed at the next tick, before
\* another sample is offered: whatever stale report is still queued, the
\* producer stops recording.
LossSeenAtNextTick == [][phase = "check" /\ phase' = "decide" /\ cpc = "crashed" => captureFailed']_vars

\* The camera_pending count that gates the control channel is exact, with
\* drops, faults and a crash in between, but for the frames an exception of
\* the collector leaves counted; after one of those no command passes.
FramesAreCounted == TypeOK /\ PendingCountsFrames /\ LeakShutsGate

\* Commands and frames are executed in the order the producer sent them: no
\* deferred command is overtaken, no boundary overtakes a frame before it.
CommandsInOrder == []DeferredGoesFirst /\ BoundaryAfterFrames

\* The producer's picture of an episode follows its fate: results and
\* rotations only of a settled writer, a dead recorder by the next tick.
ProducerLearnsFate == [](RotationSettles /\ ResultIsSettled) /\ LossSeenAtNextTick
=============================================================================
