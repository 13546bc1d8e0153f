---------------------------- MODULE JakaServoWorker ----------------------------
(***************************************************************************)
(* The native JAKA worker (native/jaka_servo_worker/main.cpp, run() in     *)
(* joint teleoperation mode) and the producer that feeds it through a Unix *)
(* datagram socket.  The worker takes the robot into servo mode, then once *)
(* per servo period drains the socket to the newest packet, applies it to  *)
(* the resampler, limits the next point and commands it, until a stop, a   *)
(* timeout or a fault, and releases the robot.                             *)
(*                                                                         *)
(* One joint stands for the six and its position is a small integer; the   *)
(* resampler's next point is any point of the segment it may be at.  Time  *)
(* is counted in servo cycles; how late a cycle may be is ServoSchedule's. *)
(***************************************************************************)
EXTENDS Integers, Sequences

CONSTANTS
    MaxPos,         \* the manufacturer position limits are 0..MaxPos
    Targets,        \* the joint positions the producer may ask for
    MaxVelocity,    \* output velocity boundary, per cycle
    MaxAcceleration,\* output acceleration boundary, per cycle
    MaxJerk,        \* output jerk boundary, per cycle
    AlignTolerance, \* startup_alignment_tolerance_rad
    MaxHoldCycles,  \* maximum_consecutive_output_acceleration_hold_cycles
    HoldAge,        \* hold_ns, in cycles
    MaxQueue,       \* datagrams the socket takes before the sender would block
    MaxSequence     \* bound on the packets explored

ASSUME WorkerAssumption ==
    /\ MaxPos \in Nat /\ Targets \subseteq 0..MaxPos
    /\ MaxVelocity \in Nat /\ MaxAcceleration \in Nat /\ MaxJerk \in Nat
    /\ AlignTolerance \in Nat /\ MaxHoldCycles \in Nat
    /\ HoldAge \in Nat \ {0} /\ MaxQueue \in Nat \ {0} /\ MaxSequence \in Nat

VARIABLES
    \* producer
    engaged,        \* prior_engaged of the loop
    sequence,       \* last_sequence of the adapter
    halted,         \* the adapter is stopped, or the producer is gone
    \* socket
    wire, socketOpen,
    \* robot and backend
    robot,          \* what the controller really is in: [edg, servo]
    backend,        \* what the worker believes: [connected, edg, servo]
    \* worker
    pc, error,      \* phase of run(); error_code
    received, lastSequence, age,  \* ever_received, last_sequence, age of the stream
    firstTarget, startHold,
    pauseRequested, stoppedReady,
    arm,            \* resampler and emitted motion
    holdCycles,     \* consecutive cycles held without progress
    samples,        \* parity of samples.count
    reported        \* a status with the startup reference was sent

producerVars == <<engaged, sequence, halted>>
robotVars == <<robot, backend>>
motionVars == <<firstTarget, startHold, pauseRequested, stoppedReady, arm, holdCycles>>
streamVars == <<received, lastSequence, age, samples>>
endVars == <<pc, error>>
vars == <<producerVars, wire, socketOpen, robotVars, endVars, streamVars,
          motionVars, reported>>

Position == 0..MaxPos
Kinds == {"joint", "heartbeat", "pause", "stop", "malformed"}
Packet == [seq : Nat, kind : Kinds, pos : Position]
Motion == [emitted : Position, destination : Position, active : BOOLEAN,
           velocity : Int, acceleration : Int]
Distance(a, b) == IF a < b THEN b - a ELSE a - b

Init ==
    /\ engaged = FALSE /\ sequence = 0 /\ halted = FALSE
    /\ wire = <<>> /\ socketOpen = TRUE
    /\ robot = [edg |-> FALSE, servo |-> FALSE]
    /\ backend = [connected |-> FALSE, edg |-> FALSE, servo |-> FALSE]
    /\ pc = "connect" /\ error = 0
    /\ received = FALSE /\ lastSequence = 0 /\ age = 0 /\ samples = 0
    /\ firstTarget = FALSE /\ startHold = 0
    /\ pauseRequested = FALSE /\ stoppedReady = FALSE
    /\ arm = [emitted |-> startHold, destination |-> startHold, active |-> FALSE,
              velocity |-> 0, acceleration |-> 0]
    /\ holdCycles = 0 /\ reported = FALSE

------------------------------------------------------------------------------
(* The producer: the adapter behind the teleoperation loop *)

Room == IF socketOpen THEN MaxQueue - Len(wire) ELSE 0
Delivered(packets) ==
    [i \in 1..(IF Len(packets) < Room THEN Len(packets) ELSE Room) |-> packets[i]]

\* A tick sends a target or a heartbeat or nothing, and after it a pause on the
\* edge from engaged to disengaged.
MainPacket(kind, pos) ==
    IF kind = "none" THEN <<>> ELSE <<[seq |-> sequence + 1, kind |-> kind, pos |-> pos]>>
PausePacket(after, sent) ==
    IF engaged /\ ~after THEN <<[seq |-> sequence + sent + 1, kind |-> "pause", pos |-> 0]>>
    ELSE <<>>
TickPackets(after, kind, pos) ==
    MainPacket(kind, pos) \o PausePacket(after, Len(MainPacket(kind, pos)))

\* A refused packet ends the run, except a heartbeat of an arm that was
\* disengaged already.
ProducerTick ==
    /\ reported /\ ~halted
    /\ \E after \in BOOLEAN, kind \in {"joint", "heartbeat", "none"}, pos \in Targets \cup {0} :
         LET all == TickPackets(after, kind, pos)
             refused == Len(Delivered(all)) < Len(all)
         IN /\ IF kind = "joint" THEN after /\ pos \in Targets ELSE pos = 0
            /\ engaged' = after /\ sequence' = sequence + Len(all) /\ sequence' <= MaxSequence
            /\ wire' = wire \o Delivered(all)
            /\ halted' = (refused /\ (engaged \/ after \/ kind # "heartbeat"))
    /\ UNCHANGED <<socketOpen, robotVars, endVars, streamVars, motionVars, reported>>

\* Mutant: the adapter does not refuse packets after its stop.
ProducerStop_NotLatched ==
    /\ reported /\ ~halted /\ sequence + 1 <= MaxSequence
    /\ sequence' = sequence + 1
    /\ wire' = wire \o Delivered(<<[seq |-> sequence + 1, kind |-> "stop", pos |-> 0]>>)
    /\ UNCHANGED <<engaged, halted, socketOpen, robotVars, endVars,
                   streamVars, motionVars, reported>>

ProducerStop ==
    /\ reported /\ ~halted /\ sequence + 1 <= MaxSequence
    /\ sequence' = sequence + 1 /\ halted' = TRUE
    /\ wire' = wire \o Delivered(<<[seq |-> sequence + 1, kind |-> "stop", pos |-> 0]>>)
    /\ UNCHANGED <<engaged, socketOpen, robotVars, endVars, streamVars,
                   motionVars, reported>>

ProducerDies ==
    /\ ~halted /\ halted' = TRUE
    /\ UNCHANGED <<engaged, sequence, wire, socketOpen, robotVars, endVars,
                   streamVars, motionVars, reported>>

\* A datagram of another size, header, checksum, kind or timestamp order.
MalformedDatagram ==
    /\ Room > 0
    /\ wire' = Append(wire, [seq |-> 0, kind |-> "malformed", pos |-> 0])
    /\ UNCHANGED <<producerVars, socketOpen, robotVars, endVars, streamVars, motionVars,
                   reported>>

------------------------------------------------------------------------------
(* Setup: login, verification, EDG, servo mode.  A failed SDK call throws;  *)
(* whether the controller did what was asked before it failed is unknown.   *)

\* Leaving the loop is a success or a fault; the outcome it reports is a label.
Throw(outcome) == pc' = "shutdown" /\ error' = 1

\* One setup call: the flag is set after the call succeeded.
SetupCall(at, then, flag, effect) ==
    /\ pc = at
    /\ \/ /\ pc' = then /\ UNCHANGED error
          /\ backend' = [backend EXCEPT ![flag] = TRUE]
          /\ robot' = IF effect THEN [robot EXCEPT ![flag] = TRUE] ELSE robot
       \/ /\ Throw("sdk_failure") /\ UNCHANGED backend
          /\ robot' \in IF effect THEN {robot, [robot EXCEPT ![flag] = TRUE]} ELSE {robot}
    /\ UNCHANGED <<producerVars, wire, socketOpen, streamVars, motionVars, reported>>

Connect == SetupCall("connect", "verify", "connected", FALSE)

Verify ==
    /\ pc = "verify"
    /\ \/ pc' = "edg" /\ UNCHANGED error
       \/ Throw("verification_failed")
    /\ UNCHANGED <<producerVars, wire, socketOpen, robotVars, streamVars, motionVars,
                   reported>>

EdgInit == SetupCall("edg", "servo", "edg", TRUE)
EnableServo == SetupCall("servo", "hold", "servo", TRUE)

\* The state read after EDG is the position held until the first target.
BeginHold ==
    /\ pc = "hold"
    /\ \/ /\ pc' = "loop" /\ UNCHANGED error
          /\ startHold' \in Position
          /\ arm' = [arm EXCEPT !.emitted = startHold', !.destination = startHold']
       \/ Throw("sdk_failure") /\ UNCHANGED <<startHold, arm>>
    /\ UNCHANGED <<producerVars, wire, socketOpen, robotVars, streamVars, firstTarget,
                   pauseRequested, stoppedReady, holdCycles, reported>>

------------------------------------------------------------------------------
(* Draining and applying the newest packet *)

Fresh == {i \in DOMAIN wire : wire[i].kind # "malformed" /\ (received => wire[i].seq > lastSequence)}
Newest == wire[CHOOSE i \in Fresh : \A j \in Fresh : wire[j].seq <= wire[i].seq]
Got(kind) == Fresh # {} /\ Newest.kind = kind
Invalid == \E i \in DOMAIN wire : wire[i].kind = "malformed"

\* hold() at the last emitted position; accept() of a new destination.
Hold(m) == [m EXCEPT !.destination = m.emitted, !.active = FALSE]
Accept(m, pos) == [m EXCEPT !.destination = pos, !.active = TRUE]

\* A heartbeat proves liveness and leaves the destination alone.
Applied ==
    IF Got("pause") THEN Hold(arm) ELSE IF Got("joint") THEN Accept(arm, Newest.pos) ELSE arm

PauseAfter == ~Got("joint") /\ (Got("pause") \/ pauseRequested)

\* The first target must be aligned with the held startup pose.
Misaligned == Got("joint") /\ ~firstTarget /\ Distance(Newest.pos, startHold) > AlignTolerance

\* The age of the stream, counted up to HoldAge.
AgeAfter == IF Fresh # {} \/ ~received THEN 0 ELSE IF age < HoldAge THEN age + 1 ELSE age

\* Mutant: the stream timeout is only checked while the arm is moving.
TimedOut_MovingOnly == arm.active /\ (received \/ Fresh # {}) /\ AgeAfter >= HoldAge

TimedOut == (received \/ Fresh # {}) /\ AgeAfter >= HoldAge

------------------------------------------------------------------------------
(* The next servo point *)

Between(a, b) == {p \in Position : (a <= p /\ p <= b) \/ (b <= p /\ p <= a)}
Proposed(m) == IF m.active THEN Between(m.emitted, m.destination) ELSE {m.emitted}

\* The proposed point crosses an output boundary from the last emitted state.
Acceleration(m, p) == (p - m.emitted) - m.velocity
Crosses(m, p) ==
    \/ Distance(p, m.emitted) > MaxVelocity
    \/ Distance(Acceleration(m, p), 0) > MaxAcceleration
    \/ Distance(Acceleration(m, p), m.acceleration) > MaxJerk

\* The point emitted instead is within every boundary, or the check of it throws.
Limited(m) == {p \in Position : ~Crosses(m, p)}

NoProgress(m, p) == m.destination # m.emitted /\ p = m.emitted

\* A limited point restarts the segment; an endpoint ends it.
Committed(m, p, limited, active) ==
    [m EXCEPT !.emitted = p, !.velocity = p - m.emitted,
              !.acceleration = Acceleration(m, p), !.active = limited \/ active]

\* Mutant: braking is complete when the velocity is zero.
AtRest_VelocityOnly(m) == m.velocity = 0

AtRest(m) == m.emitted = m.destination /\ m.velocity = 0 /\ m.acceleration = 0

------------------------------------------------------------------------------
(* One servo cycle *)

Drained ==
    /\ wire' = <<>>
    /\ received' = (received \/ Fresh # {}) /\ age' = AgeAfter
    /\ lastSequence' = IF Fresh # {} THEN Newest.seq ELSE lastSequence

Leave(outcome) == pc' = "shutdown" /\ UNCHANGED error

\* The loop's own ends: a signal or the last sample, the session's duration, a
\* late start.  None of them drains the socket or commands another point.
LeaveLoop ==
    /\ pc = "loop"
    /\ \/ Leave("completed")
       \/ Leave("maximum_session_duration")
       \/ Throw("start_timing")
    /\ UNCHANGED <<producerVars, wire, socketOpen, robotVars, streamVars, motionVars,
                   reported>>

\* What the drain brought ends the loop before anything is commanded; the
\* receive call itself may fail.
EndingPacket ==
    \/ Throw("target_transport_failure")
    \/ Misaligned /\ Throw("misaligned_first_target")
    \/ ~Misaligned /\ Invalid /\ Leave("invalid_command")
    \/ ~Misaligned /\ ~Invalid /\ Got("stop") /\ Leave("operator_stop_command")
    \/ ~Misaligned /\ ~Invalid /\ ~Got("stop") /\ TimedOut /\ Leave("command_stream_timeout")

EndingDrain ==
    /\ pc = "loop" /\ Drained
    /\ EndingPacket
    /\ arm' = IF Misaligned THEN arm ELSE Applied
    /\ pauseRequested' = (IF Misaligned THEN pauseRequested ELSE PauseAfter)
    /\ stoppedReady' = (stoppedReady /\ ~Got("pause") /\ (Misaligned \/ ~Got("joint")))
    /\ firstTarget' = (firstTarget \/ (Got("joint") /\ ~Misaligned))
    /\ UNCHANGED <<producerVars, socketOpen, robotVars, startHold, holdCycles, samples, reported>>

Commanding == ~Misaligned /\ ~Invalid /\ ~Got("stop") /\ ~TimedOut

\* The point is limited, checked and commanded; the pause is complete when the
\* arm is at rest where it is held.  Reads, health and tracking checks, the
\* final boundary check and the command itself may throw; a late completion
\* faults after the command.
Cycle ==
    /\ pc = "loop" /\ Drained /\ Commanding
    /\ firstTarget' = (firstTarget \/ Got("joint")) /\ pauseRequested' = PauseAfter
    /\ \/ /\ Throw("cycle_fault")
          /\ arm' = Applied /\ stoppedReady' = (stoppedReady /\ ~Got("pause") /\ ~Got("joint"))
          /\ UNCHANGED <<holdCycles, samples, reported>>
       \/ \E p \in Proposed(Applied), active \in BOOLEAN :
            LET limited == Crosses(Applied, p)
            IN \E q \in IF limited THEN Limited(Applied) ELSE {p} :
                 /\ active => Applied.active
                 /\ ~active /\ ~limited /\ Applied.active => q = Applied.destination
                 /\ arm' = Committed(Applied, q, limited, active)
                 /\ holdCycles' = IF limited /\ NoProgress(Applied, q) THEN holdCycles + 1 ELSE 0
                 /\ holdCycles' <= MaxHoldCycles
                 /\ stoppedReady' = (PauseAfter /\ AtRest(arm'))
                 /\ samples' = 1 - samples /\ reported' = TRUE
                 /\ \/ UNCHANGED endVars
                    \/ Throw("completion_timing")
    /\ UNCHANGED <<producerVars, socketOpen, robotVars, startHold>>

------------------------------------------------------------------------------
(* The end: the socket first, then the robot *)

CloseSocket ==
    /\ pc = "shutdown" /\ pc' = "cleanup"
    /\ socketOpen' = FALSE /\ wire' = <<>>
    /\ UNCHANGED <<producerVars, robotVars, error, streamVars, motionVars,
                   reported>>

\* Mutant: a failed cleanup call does not fail the worker.
ErrorAfter_Ignored(failed) == error

ErrorAfter(failed) == IF failed # {} /\ error = 0 THEN 1 ELSE error

\* Every call is made that the flags ask for, whatever the others return; a
\* failed call may or may not have left its mode.
Cleanup ==
    /\ pc = "cleanup" /\ pc' = "done"
    /\ \E failed \in SUBSET {f \in {"connected", "edg", "servo"} : backend[f]} :
         /\ error' = ErrorAfter(failed)
         /\ robot' \in {[edg |-> e, servo |-> s] : e, s \in BOOLEAN}
         /\ \A f \in {"edg", "servo"} :
              IF backend[f] THEN f \notin failed => ~robot'[f] ELSE robot'[f] = robot[f]
         /\ \A f \in failed \ {"connected"} : robot'[f] => robot[f]
    /\ backend' = [connected |-> FALSE, edg |-> FALSE, servo |-> FALSE]
    /\ UNCHANGED <<producerVars, wire, socketOpen, streamVars, motionVars,
                   reported>>

Producer == ProducerTick \/ ProducerStop \/ ProducerDies \/ MalformedDatagram
Setup == Connect \/ Verify \/ EdgInit \/ EnableServo \/ BeginHold
Loop == LeaveLoop \/ EndingDrain \/ Cycle
Next == Producer \/ Setup \/ Loop \/ CloseSocket \/ Cleanup

\* The worker's thread is scheduled and its SDK calls return.
Fairness == WF_vars(Setup) /\ WF_vars(Loop) /\ WF_vars(CloseSocket) /\ WF_vars(Cleanup)
Spec == Init /\ [][Next]_vars /\ Fairness

------------------------------------------------------------------------------
(* Properties *)

TypeOK ==
    /\ engaged \in BOOLEAN /\ sequence \in Nat /\ halted \in BOOLEAN
    /\ wire \in Seq(Packet) /\ Len(wire) <= MaxQueue /\ socketOpen \in BOOLEAN
    /\ robot \in [edg : BOOLEAN, servo : BOOLEAN]
    /\ backend \in [connected : BOOLEAN, edg : BOOLEAN, servo : BOOLEAN]
    /\ pc \in {"connect", "verify", "edg", "servo", "hold", "loop", "shutdown", "cleanup", "done"}
    /\ error \in {0, 1}
    /\ received \in BOOLEAN /\ lastSequence \in Nat /\ age \in 0..HoldAge /\ samples \in {0, 1}
    /\ firstTarget \in BOOLEAN /\ startHold \in Position
    /\ pauseRequested \in BOOLEAN /\ stoppedReady \in BOOLEAN
    /\ arm \in Motion /\ holdCycles \in 0..MaxHoldCycles /\ reported \in BOOLEAN

\* Until an aligned target has arrived the arm is commanded to the exact state
\* read after EDG, whatever heartbeats, pauses and delays come first.
StartupHolds == ~firstTarget => arm.emitted = startHold

\* STOPPED_READY is stable: once the worker has reported that braking is
\* complete, the commanded position does not change until a target arrives.
StoppedStaysStopped == [][stoppedReady /\ pauseRequested' => arm'.emitted = arm.emitted]_vars

\* An arm without a target to follow is commanded to one position: the one
\* read after EDG until the first target, and the one it braked to after
\* STOPPED_READY until the next.
RestsWithoutTarget == []StartupHolds /\ StoppedStaysStopped

\* A stop that the socket took ends the loop at the next drain: no later packet
\* of the producer can supersede it in the latest-only drain.
StopEndsLoop ==
    [][(\E i \in DOMAIN wire : wire[i].kind = "stop") /\ wire' = <<>> => pc' # "loop"]_vars

\* A worker that exits with success has taken the robot out of servo mode and
\* EDG, however far the setup got and whichever call failed.
CleanExitReleases == pc = "done" /\ error = 0 => ~robot.servo /\ ~robot.edg

\* A worker that has heard from its producer does not outlive it.
WorkerFollowsProducer == halted /\ received ~> pc = "done"

\* The recoverable pause: "Request recoverable braking; unlike stop(), future
\* targets remain allowed."  A drain that takes a pause which no target follows
\* leaves the worker braking, and not still moving to the old target.
PauseIsHonoured ==
    [][/\ \E i \in DOMAIN wire :
            /\ wire[i].kind = "pause"
            /\ \A j \in DOMAIN wire : wire[j].kind = "joint" => wire[j].seq < wire[i].seq
       /\ wire' = <<>> /\ pc' = "loop"
       => pauseRequested' \/ ~arm'.active]_vars
=============================================================================
