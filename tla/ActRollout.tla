----------------------------- MODULE ActRollout -----------------------------
(***************************************************************************)
(* The execution of a learned policy on the robot                          *)
(* (tools/act_physical_rollout.py), its command-free counterpart           *)
(* (tools/act_live_shadow.py) and the model process both talk to           *)
(* (tools/act_shadow_model_worker.py).                                     *)
(*                                                                         *)
(* Four parties: the command loop, the inference thread, the model process *)
(* behind a socket and the writer thread behind a bounded queue.  In the   *)
(* canonical mode the command loop makes the query itself.  Time counts    *)
(* command periods; every party may be slow, so ticks are late and the     *)
(* loop's tick number falls behind the clock.                              *)
(***************************************************************************)
EXTENDS TemporalEnsemble, Sequences, Functions

CONSTANTS
    Modes,              \* subset of {"canonical", "async", "shadow"}
    Writes,             \* write paths: subset of {"both", "none"}
    Duration,           \* of the loop, in periods
    MaxSourceAge, MaxPolicyAge,
    LogCapacity,        \* of the writer's queue, in rows
    MaxTime, MaxFaults  \* bounds

ASSUME RolloutAssumption ==
    /\ {Duration, MaxTime, MaxFaults, MaxSourceAge, MaxPolicyAge} \subseteq Nat
    /\ LogCapacity \in Nat \ {0}
    /\ Duration <= MaxTime

\* A chunk outlasts the freshness limit, as 60 steps at 30 Hz do the default
\* limit of 250 ms.
ASSUME FreshnessAssumption == MaxPolicyAge <= MaxSourceHorizon /\ MaxPolicyAge <= MaxPredictionAge

VARIABLES
    mode, writes, now, faults,
    src,        \* the cameras and state streams: time of the last sample, usable or not
    main,       \* the command loop
    inf,        \* the inference thread
    model,      \* the model process and its socket
    pending,    \* predictions for the command loop
    ens,        \* the ensemble
    log,        \* the writer thread and its queue
    arm, hand   \* the native worker with the target adapter, the RH56 worker

vars == <<mode, writes, now, faults, src, main, inf, model, pending, ens, log, arm, hand>>

NoCommand == [kind |-> "none", age |-> 0, id |-> 0]

\* run(): what is started, in order.
RolloutStart == <<"log", "model", "warmup", "hand", "cameras", "native", "status", "align", "activate", "inference">>
ShadowStart == <<"cameras", "jaka", "hand", "connect">>

\* Mutant: the model is stopped before the robot.
RolloutCleanup_ModelFirst ==
    <<"modelStop", "modelWait", "armStop", "joinInference", "handStop", "handCleanup", "save", "finish">>

\* The finally block of run(), in order, and that of the shadow.
RolloutCleanup ==
    <<"armStop", "joinInference", "handStop", "handCleanup", "modelStop", "modelWait", "save", "finish">>
ShadowCleanup == <<"close", "armStop", "handStop">>
CleanupOf == IF mode = "shadow" THEN ShadowCleanup ELSE RolloutCleanup

Init ==
    /\ mode \in Modes /\ writes \in (IF mode = "shadow" THEN {"none"} ELSE Writes)
    /\ now = 0 /\ faults = 0 /\ src = [time |-> 0, ok |-> TRUE]
    /\ main = [pc |-> "start", tick |-> 0, next |-> 0, abort |-> FALSE, sent |-> 0, late |-> 0, seen |-> 0,
               overrun |-> FALSE, plan |-> IF mode = "shadow" THEN ShadowStart ELSE RolloutStart, cmd |-> NoCommand]
    /\ inf = [pc |-> "off", due |-> 0, seq |-> 1, error |-> FALSE, stop |-> FALSE]
    /\ model = [up |-> FALSE, inbox |-> <<>>, outbox |-> <<>>]
    /\ pending = <<>> /\ ens = NewEnsemble
    /\ log = [pc |-> "off", queue |-> 0, written |-> 0, error |-> FALSE]
    /\ arm = [native |-> "off"] /\ hand = "off"

-----------------------------------------------------------------------------
(* The world *)

\* A wait for a time; past the bound every wait of the loop is over.
Due(t) == now >= t \/ now = MaxTime

\* The clock is that of the loop, from its first tick to its last.
Advance ==
    /\ now < MaxTime /\ main.pc \in {"due", "wait"} /\ now' = now + 1
    /\ UNCHANGED <<mode, writes, faults, src, main, inf, model, pending, ens, log, arm, hand>>

\* CameraReader._run and the state streams: a newer sample replaces the last.
Refresh ==
    /\ src.ok /\ src.time < now /\ main.pc \in {"due", "wait"} /\ src' = [src EXCEPT !.time = now]
    /\ UNCHANGED <<mode, writes, now, faults, main, inf, model, pending, ens, log, arm, hand>>

\* A camera thread ends with its error; latest() raises from then on.
CameraFails == src.ok /\ src' = [src EXCEPT !.ok = FALSE] /\ UNCHANGED <<model, log, arm, hand>>

\* The process that owns the arm exits: the native worker or, in the shadow,
\* the read-only sampler whose output _tail follows.
ArmProcessExits ==
    arm.native = "up" /\ arm' = [arm EXCEPT !.native = "down"] /\ UNCHANGED <<src, model, log, hand>>

\* The hand's thread ends with its error.
HandThreadFails == hand \in {"started", "active"} /\ hand' = "failed" /\ UNCHANGED <<src, model, log, arm>>

\* The model process exits: the peer's next read finds the connection closed.
ModelExits ==
    model.up /\ model' = [up |-> FALSE, inbox |-> <<>>, outbox |-> <<>>] /\ UNCHANGED <<src, log, arm, hand>>

\* The disk fails the writer thread.
WriterFails ==
    log.pc = "run" /\ log' = [log EXCEPT !.pc = "ended", !.error = TRUE] /\ UNCHANGED <<src, model, arm, hand>>

Breaks ==
    /\ faults < MaxFaults /\ faults' = faults + 1 /\ main.pc \notin {"start", "ended"}
    /\ CameraFails \/ ArmProcessExits \/ HandThreadFails \/ ModelExits \/ WriterFails
    /\ UNCHANGED <<mode, writes, now, main, inf, pending, ens>>

\* An observation that does not fit the checkpoint's contract.
ModelRefuses == [model EXCEPT !.inbox = Tail(@), !.outbox = Append(@, "error")]

\* The model process answers requests one at a time: a prediction with its
\* timing frame, an error, or the acknowledgement of a stop.
ModelServe ==
    /\ model.up /\ model.inbox # <<>>
    /\ \/ /\ Head(model.inbox) = "query" /\ UNCHANGED faults
          /\ model' = [model EXCEPT !.inbox = Tail(@), !.outbox = @ \o <<"prediction", "timing">>]
       \/ /\ Head(model.inbox) = "query" /\ faults < MaxFaults /\ faults' = faults + 1
          /\ model' = ModelRefuses
       \/ /\ Head(model.inbox) = "stop" /\ UNCHANGED faults
          /\ model' = [up |-> FALSE, inbox |-> <<>>, outbox |-> Append(model.outbox, "stopped")]
    /\ UNCHANGED <<mode, writes, now, src, main, inf, pending, ens, log, arm, hand>>

\* AsyncRolloutWriter._run: one row at a time, the sentinel last.
LogStep ==
    /\ log.pc = "run" /\ log.queue > 0
    /\ log' = [log EXCEPT !.queue = @ - 1, !.written = @ + 1]
    /\ UNCHANGED <<mode, writes, now, faults, src, main, inf, model, pending, ens, arm, hand>>

-----------------------------------------------------------------------------
(* Requests *)

\* A prediction is followed by its timing frame, and both are read.
Received == IF Head(model.outbox) = "prediction" THEN Tail(Tail(model.outbox)) ELSE Tail(model.outbox)

Answered == model.outbox # <<>> \/ ~model.up
IsPrediction == model.outbox # <<>> /\ Head(model.outbox) = "prediction"
Send(request) == [model EXCEPT !.inbox = Append(@, request)]
Receive == model' = IF model.outbox = <<>> THEN model ELSE [model EXCEPT !.outbox = Received]

\* snapshot(): every source usable and recent, the native worker live.
SnapshotOk == src.ok /\ now - src.time <= MaxSourceAge /\ arm.native = "up" /\ hand # "off"

\* submit(): a dead writer and a full queue are errors of the caller.
LogRoom(l) == ~l.error /\ l.queue < LogCapacity
Logged(l) == [l EXCEPT !.queue = IF @ < LogCapacity THEN @ + 1 ELSE @]

-----------------------------------------------------------------------------
(* The inference thread *)

InfFails == inf' = [inf EXCEPT !.pc = "ended", !.error = TRUE]

InfStart ==
    /\ inf.pc = "due" /\ ~inf.stop /\ now >= inf.due
    /\ IF SnapshotOk /\ model.up
       THEN model' = Send("query") /\ inf' = [inf EXCEPT !.pc = "wait"]
       ELSE InfFails /\ UNCHANGED model
    /\ UNCHANGED <<mode, writes, now, faults, src, main, pending, ens, log, arm, hand>>

\* Between two queries the stop request ends the thread.
InfStop ==
    /\ inf.pc = "due" /\ inf.stop /\ inf' = [inf EXCEPT !.pc = "ended"]
    /\ UNCHANGED <<mode, writes, now, faults, src, main, model, pending, ens, log, arm, hand>>

\* The tick a chunk that ends now starts at: the next one of the clock.
QueryCommandTick == now + 1

\* A deadline that has passed is skipped.
NextDue == IF inf.due + 1 <= now THEN now + 1 ELSE inf.due + 1

\* The newest predictions wait for the command loop, as many as the ensemble has
\* points; a full queue gives up its oldest one.
Publish(p) == LET q == IF Len(pending) = Capacity THEN Tail(pending) ELSE pending IN Append(q, p)

InfAnswer ==
    /\ inf.pc = "wait" /\ Answered /\ Receive
    /\ IF IsPrediction
       THEN /\ pending' = Publish([id |-> inf.seq, q |-> QueryCommandTick, end |-> now])
            /\ IF LogRoom(log)
               THEN log' = Logged(log) /\ inf' = [inf EXCEPT !.pc = "due", !.seq = @ + 1, !.due = NextDue]
               ELSE UNCHANGED log /\ inf' = [inf EXCEPT !.pc = "ended", !.error = TRUE, !.seq = @ + 1]
       ELSE InfFails /\ UNCHANGED <<pending, log>>
    /\ UNCHANGED <<mode, writes, now, faults, src, main, ens, arm, hand>>

-----------------------------------------------------------------------------
(* The command loop: start *)

Aborted(m) == [m EXCEPT !.pc = "cleanup", !.abort = TRUE, !.plan = CleanupOf]

StartLog(step) == IF step = "log" THEN [log EXCEPT !.pc = "run"] ELSE log
StartModel(step) == IF step \in {"model", "connect"} THEN [model EXCEPT !.up = TRUE] ELSE model
StartArm(step) == IF step \in {"native", "jaka"} THEN [arm EXCEPT !.native = "up"] ELSE arm
StartHand(step) ==
    CASE step = "hand" -> "started" [] step = "activate" /\ writes = "both" -> "active" [] OTHER -> hand

\* The canonical mode makes its queries itself: its thread is never started.
StartInference(step) ==
    IF step = "inference" /\ mode = "async" THEN [inf EXCEPT !.pc = "due", !.due = now] ELSE inf

\* One step of the start; each may raise.
Started(step) ==
    /\ log' = StartLog(step) /\ model' = StartModel(step) /\ arm' = StartArm(step)
    /\ hand' = StartHand(step) /\ inf' = StartInference(step)

StartStep ==
    /\ main.pc = "start"
    /\ \/ /\ Started(Head(main.plan)) /\ UNCHANGED faults
          /\ main' = [main EXCEPT !.plan = Tail(@), !.next = now,
                                  !.pc = IF Tail(main.plan) = <<>> THEN "due" ELSE "start"]
       \/ /\ faults < MaxFaults /\ faults' = faults + 1
          /\ main' = Aborted(main) /\ UNCHANGED <<log, model, hand, arm, inf>>
    /\ UNCHANGED <<mode, writes, now, src, pending, ens>>

-----------------------------------------------------------------------------
(* The command loop: a tick *)

\* What a tick looks at first.
PeersOk == arm.native = "up" /\ hand # "failed" /\ ~inf.error

\* What the commands sent after it are counted for.
PeerDown == arm.native # "up" \/ hand = "failed" \/ inf.error

\* A missed deadline moves the schedule, not the tick number.
NextCommand == IF main.next + 1 <= now THEN now + 1 ELSE main.next + 1
Looping == IF now < Duration THEN "due" ELSE "exit"

\* The freshness limit is on the newest query that contributes; a held action
\* has none.
FreshEnough(sel) == sel.kind = "policy" => now - sel.point.end <= MaxPolicyAge

\* The action is not finite, outside the arm's limits, or too far from what the
\* hand may be asked.
ActionRefused == faults < MaxFaults /\ faults' = faults + 1

\* The arm's target or heartbeat could not be sent.
PublicationFails == faults < MaxFaults /\ arm.native = "up" /\ faults' = faults + 1

\* The end of a tick with a selection: the action is projected and checked,
\* the arm's target (or heartbeat) and the hand's target are sent, the row is
\* handed to the writer.  Returns with an exception on the way, or goes on.
\* m is the loop as the tick has left it so far.
Issue(m, sel, rows) ==
    LET sent == [m EXCEPT !.sent = @ + 1, !.late = IF PeerDown THEN @ + 1 ELSE 0,
                             !.cmd = [kind |-> sel.kind, age |-> now - sel.point.end, id |-> sel.point.id]]
    IN \/ /\ src.ok /\ LogRoom(rows) /\ log' = Logged(rows) /\ UNCHANGED faults
          /\ main' = [sent EXCEPT !.tick = @ + 1, !.next = NextCommand, !.pc = Looping]
       \/ /\ ~(src.ok /\ LogRoom(rows)) /\ main' = Aborted(sent) /\ log' = rows /\ UNCHANGED faults
       \/ /\ ActionRefused \/ PublicationFails
          /\ main' = Aborted(m) /\ log' = rows

\* The buffer holds the points after this tick of the chunks that reach it, and
\* all of those made since the action now in force and of those that wait.
BacklogFits ==
    2 * Capacity > (MaxSourceHorizon + 1) * (MaxSourceHorizon + 2 * (MaxPolicyAge + Len(pending)))

\* History: the loop has once taken in more predictions than the buffer is sure
\* to hold.
Absorbing == [main EXCEPT !.overrun = @ \/ ~BacklogFits]

\* Async: the pending predictions join the ensemble, then the tick selects.
AsyncTick ==
    /\ mode = "async" /\ main.pc = "due" /\ Due(main.next)
    /\ IF ~PeersOk THEN main' = Aborted(main) /\ UNCHANGED <<ens, pending, log, faults>>
       ELSE LET filled == AddPredictions(ens, Range(pending))
                sel == Select(filled, main.tick)
                hold == [sel EXCEPT !.kind = IF @ = "none" THEN "startup" ELSE @]
            IN /\ ens' = sel.buffer /\ pending' = <<>>
               /\ IF FreshEnough(sel) THEN Issue(Absorbing, hold, log)
                  ELSE main' = Aborted(Absorbing) /\ UNCHANGED <<log, faults>>
    /\ UNCHANGED <<mode, writes, now, src, inf, model, arm, hand>>

\* Canonical: the loop itself asks and waits, however long it takes.
CanonicalAsk ==
    /\ mode = "canonical" /\ main.pc = "due" /\ Due(main.next)
    /\ IF PeersOk /\ SnapshotOk /\ model.up
       THEN model' = Send("query") /\ main' = [main EXCEPT !.pc = "wait"]
       ELSE main' = Aborted(main) /\ UNCHANGED model
    /\ UNCHANGED <<mode, writes, now, faults, src, inf, pending, ens, log, arm, hand>>

\* If the tick has a contributor at all, the query just made is the newest, and it
\* ended after the tick began: the check of its age cannot fail.  A buffer too
\* small for the chunk gives up its first points: the last action is held, or
\* there is none.
CanonicalAnswer ==
    /\ mode = "canonical" /\ main.pc = "wait" /\ Answered /\ Receive
    /\ IF IsPrediction /\ LogRoom(log)
       THEN LET p == [id |-> inf.seq, q |-> main.tick, end |-> now]
                sel == Select(AddPrediction(ens, p), main.tick)
            IN /\ inf' = [inf EXCEPT !.seq = @ + 1] /\ ens' = sel.buffer
               /\ IF sel.kind = "none"
                  THEN main' = Aborted(Absorbing) /\ log' = Logged(log) /\ UNCHANGED faults
                  ELSE Issue(Absorbing, sel, Logged(log))
       ELSE main' = Aborted(main) /\ UNCHANGED <<inf, ens, log, faults>>
    /\ UNCHANGED <<mode, writes, now, src, pending, arm, hand>>

\* Its reads of the cameras and of the two state streams.
ShadowSourcesOk == main.tick >= Duration \/ (src.ok /\ arm.native = "up" /\ hand = "started")

\* The shadow waits for two frames newer than the last, asks and records; at
\* the end it repeats the last observation twice and stops the model.
ShadowAsk ==
    /\ mode = "shadow" /\ main.pc = "due" /\ (Due(main.next) \/ main.tick >= Duration)
    /\ \/ /\ ShadowSourcesOk /\ model.up /\ (src.time > main.seen \/ main.tick >= Duration)
          /\ model' = Send(IF main.tick < Duration + 2 THEN "query" ELSE "stop")
          /\ main' = [main EXCEPT !.pc = "wait", !.seen = IF main.tick < Duration THEN src.time ELSE @]
       \/ /\ IF main.tick < Duration THEN ~(ShadowSourcesOk /\ model.up) \/ src.time = main.seen ELSE ~model.up
          /\ main' = Aborted(main) /\ UNCHANGED model
    /\ UNCHANGED <<mode, writes, now, faults, src, inf, pending, ens, log, arm, hand>>

ShadowAnswer ==
    /\ mode = "shadow" /\ main.pc = "wait" /\ Answered /\ Receive
    /\ main' = CASE IsPrediction -> [main EXCEPT !.pc = "due", !.tick = @ + 1, !.next = IF @ + 1 < now - 1 THEN now ELSE @ + 1]
                 [] main.tick >= Duration + 2 -> [main EXCEPT !.pc = "cleanup", !.plan = ShadowCleanup]
                 [] OTHER -> Aborted(main)
    /\ UNCHANGED <<mode, writes, now, faults, src, inf, pending, ens, log, arm, hand>>

-----------------------------------------------------------------------------
(* The command loop: end *)

\* After the deadline the inference thread is stopped, with patience.
ExitLoop ==
    /\ main.pc = "exit" /\ inf' = [inf EXCEPT !.stop = TRUE] /\ main' = [main EXCEPT !.pc = "join"]
    /\ UNCHANGED <<mode, writes, now, faults, src, model, pending, ens, log, arm, hand>>

ExitJoin ==
    /\ main.pc = "join"
    /\ main' = IF inf.pc \in {"off", "ended"} /\ ~inf.error
               THEN [main EXCEPT !.pc = "cleanup", !.plan = CleanupOf] ELSE Aborted(main)
    /\ UNCHANGED <<mode, writes, now, faults, src, inf, model, pending, ens, log, arm, hand>>

\* An aborted run is a terminal stop of the hand, a completed one a hold.
HandAfter == IF main.abort THEN "stopped" ELSE "held"

Goes(m) == [m EXCEPT !.plan = Tail(@), !.pc = IF Tail(m.plan) = <<>> THEN "ended" ELSE "cleanup"]

\* A step that is taken to its end.
CleanupStep ==
    /\ main.pc = "cleanup" /\ Head(main.plan) \notin {"modelWait", "finish"}
    /\ LET step == Head(main.plan) IN
       /\ main' = Goes(main)
       /\ arm' = IF step = "armStop" /\ arm.native = "up" THEN [arm EXCEPT !.native = "down"] ELSE arm
       /\ inf' = IF step = "joinInference" THEN [inf EXCEPT !.stop = TRUE] ELSE inf
       /\ hand' = CASE step = "handStop" /\ hand # "off" -> (IF mode = "shadow" THEN "stopped" ELSE HandAfter)
                    [] OTHER -> hand
       /\ model' = CASE step = "modelStop" /\ model.up -> Send("stop")
                     [] step = "close" -> [model EXCEPT !.up = FALSE]
                     [] OTHER -> model
    /\ UNCHANGED <<mode, writes, now, faults, src, pending, ens, log>>

\* The process that owns the arm may outlive its signals, and the wait for it
\* then raises; so may the hand worker's thread, the model process or the disk
\* make a step raise.  The steps after it are not taken.
CleanupRaises ==
    /\ main.pc = "cleanup"
    /\ \/ Head(main.plan) = "armStop" /\ arm.native = "up"
       \/ Head(main.plan) \in {"handCleanup", "modelStop", "save"}
    /\ faults < MaxFaults /\ faults' = faults + 1
    /\ main' = [main EXCEPT !.pc = "ended", !.abort = TRUE]
    /\ UNCHANGED <<mode, writes, now, src, inf, model, pending, ens, log, arm, hand>>

\* The answer to the stop, or the end of the connection; then the process is
\* ended.  The inference thread may still be reading from the same socket.
ModelWait ==
    /\ main.pc = "cleanup" /\ Head(main.plan) = "modelWait" /\ (model.outbox # <<>> \/ ~model.up)
    /\ model' = [up |-> FALSE, inbox |-> <<>>, outbox |-> IF model.outbox = <<>> THEN <<>> ELSE Received]
    /\ main' = Goes(main)
    /\ UNCHANGED <<mode, writes, now, faults, src, inf, pending, ens, log, arm, hand>>

\* Mutant: the end of the writer thread is waited for without a bound.
FinishLog_Unbounded ==
    /\ main.pc = "cleanup" /\ Head(main.plan) = "finish" /\ log.pc = "run" /\ log.queue = 0
    /\ main' = Goes(main) /\ log' = [log EXCEPT !.pc = "ended"]
    /\ UNCHANGED <<mode, writes, now, faults, src, inf, model, pending, ens, arm, hand>>

\* finish(): the sentinel is the last row; an error of the writer, or a writer
\* that is too slow, makes the run an abort.
FinishLog ==
    /\ main.pc = "cleanup" /\ Head(main.plan) = "finish"
    /\ \/ log.pc = "run" /\ log.queue = 0 /\ main' = Goes(main) /\ log' = [log EXCEPT !.pc = "ended"]
       \/ /\ log.pc # "run" \/ log.queue > 0
          /\ main' = [Goes(main) EXCEPT !.abort = TRUE] /\ UNCHANGED log
    /\ UNCHANGED <<mode, writes, now, faults, src, inf, model, pending, ens, arm, hand>>

MainStep ==
    \/ StartStep \/ AsyncTick \/ CanonicalAsk \/ CanonicalAnswer \/ ShadowAsk \/ ShadowAnswer
    \/ ExitLoop \/ ExitJoin \/ CleanupStep \/ CleanupRaises \/ ModelWait \/ FinishLog
InfStep == InfStart \/ InfStop \/ InfAnswer

Next == Advance \/ Refresh \/ Breaks \/ ModelServe \/ LogStep \/ MainStep \/ InfStep

\* The processes are scheduled and the model answers; time passes.
Spec ==
    /\ Init /\ [][Next]_vars
    /\ WF_vars(MainStep) /\ WF_vars(InfStep) /\ WF_vars(ModelServe) /\ WF_vars(LogStep) /\ WF_vars(Advance)

-----------------------------------------------------------------------------
(* Properties *)

TypeOK ==
    /\ mode \in Modes /\ now \in 0 .. MaxTime /\ faults \in 0 .. MaxFaults
    /\ main.pc \in {"start", "due", "wait", "exit", "join", "cleanup", "ended"}
    /\ inf.pc \in {"off", "due", "wait", "ended"} /\ Len(pending) <= Capacity
    /\ log.queue \in 0 .. LogCapacity /\ Cardinality(ens.points) <= Capacity
    /\ hand \in {"off", "started", "active", "failed", "held", "stopped"} /\ arm.native \in {"off", "up", "down"}

\* While the loop has never taken in more predictions than the buffer is sure to
\* hold, no command comes from a query that ended longer ago than the limit
\* allows: the limit is only on selections, and a held action must not slip past
\* it.
PolicyCommandsAreFresh ==
    main.overrun \/ (main.cmd.kind \in {"policy", "held"} => main.cmd.age <= MaxPolicyAge)

\* The same limit (--max-policy-age-ms) for every command that comes from the
\* policy.  A loop that was stalled breaks it: the backlog fills the buffer, the
\* points of the tick are given up, and the last action is held whatever its age.
NoStaleCommand == main.cmd.kind \in {"policy", "held"} => main.cmd.age <= MaxPolicyAge

\* A canonical command is led by the query made for it, unless the buffer is too
\* small for that.
CanonicalUsesOwnQuery ==
    [][mode = "canonical" /\ main'.sent > main.sent /\ ~main'.overrun =>
           main'.cmd.id = inf.seq /\ main'.cmd.kind = "policy"]_vars

\* After a peer failed at most the command that was under way is sent.
FailureStopsCommands == main.late <= 1

\* The cleanup was left at its first robot step, by a process that outlived its
\* signals.
ArmOutlivedStop == main.plan # <<>> /\ Head(main.plan) = "armStop"

\* However the run ended, the arm's worker is down and the hand does not follow
\* targets any more.  The one exception is the process that cannot be ended: the
\* hand is then not stopped either, and the run is an abort.
EndedIsSafe ==
    main.pc = "ended" =>
        IF ArmOutlivedStop THEN main.abort /\ arm.native = "up"
        ELSE arm.native # "up" /\ hand \notin {"active", "started"}

\* A run that reports no abort sent no command that is not in its record, and
\* no thread of it had failed.
CleanRunIsRecorded ==
    main.pc = "ended" /\ ~main.abort /\ mode # "shadow" =>
        log.written = main.sent + inf.seq - 1 /\ ~inf.error /\ ~log.error

\* The arm follows the model as it is now: no command of a stale query, and a
\* canonical one is led by the query made for it.
CommandsAreFresh == []PolicyCommandsAreFresh /\ CanonicalUsesOwnQuery

\* A failure of any peer ends the commands, the robot is left safe, and a run
\* that claims to be clean has its whole record.
FailureEndsSafely ==
    TypeOK /\ FailureStopsCommands /\ EndedIsSafe /\ CleanRunIsRecorded

\* The run ends, with its cleanup.
RunEnds == <>(main.pc = "ended")
=============================================================================
