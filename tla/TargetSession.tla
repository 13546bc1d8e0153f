--------------------------- MODULE TargetSession ---------------------------
(***************************************************************************)
(* The three sessions that drive the shared target generator:              *)
(*   "robot"   SmoothQuestJakaSession on the physical arm: the measured     *)
(*             joints are the last status the native worker sent, a tick    *)
(*             has a compute budget, and refused candidates are retried at  *)
(*             smaller steps;                                              *)
(*   "sim"     the same session on the MuJoCo plant, without a budget;      *)
(*   "replay"  QuestJakaReplaySession over recorded datagrams, which gives  *)
(*             up the engagement at the first refusal.                      *)
(* The clutch itself is MotionClutch's subject: here an engagement is       *)
(* captured, updated, released and faulted.                                *)
(***************************************************************************)
EXTENDS TargetGenerator

CONSTANTS
    MaxBacktracks,   \* maximum_continuation_backtracks
    MinStep,         \* minimum_continuation_fraction, as a distance
    Engagements,     \* length of the replay's engagement_schedule_s
    MaxTicks         \* bound: control ticks and datagrams of a behaviour

ASSUME BoundsAssumption ==
    MaxBacktracks \in Nat /\ MinStep \in Nat /\ Engagements \in Nat /\ MaxTicks \in Nat

VARIABLES
    path,         \* which session this is
    continuation, \* continuation_enabled
    start,        \* history: where the arm was when the program started
    gen,          \* the target generator
    plant,        \* where the arm really is
    status,       \* the joints of the last status that was read
    clutch,       \* "Disengaged", "Armed" (replay only), "Engaged", "Fault"
    mapped,       \* the mapper holds a captured reference
    tick,         \* the tick under way
    before,       \* history: the generator when the tick's first evaluation began
    out,          \* what the last finished tick published
    schedule,     \* replay: scheduled engagements not yet used
    moment

targetVars == <<path, continuation, start, gen, plant, status, clutch, mapped, tick, before, out, schedule, moment>>
config == <<path, continuation, start>>

Idle == [pc |-> "idle", desired |-> 0, step |-> 0, backtracks |-> 0, late |-> FALSE,
         pushed |-> FALSE]

Published(kind, q) == [kind |-> kind, q |-> q]

TargetInit ==
    /\ path \in {"robot", "sim", "replay"}
    /\ continuation \in (IF path = "replay" THEN {FALSE} ELSE BOOLEAN)
    /\ start \in Joints \ Contact /\ plant = start
    /\ gen = NewGenerator(plant)
    /\ status = plant
    /\ clutch = "Disengaged" /\ mapped = FALSE
    /\ tick = Idle /\ before = gen
    /\ out = Published("none", plant)
    /\ schedule = (IF path = "replay" THEN Engagements ELSE 0)
    /\ moment = 0

\* A generator operation raised: the exception ends the session.
Raised(g) == g.raised
Stopped == [Idle EXCEPT !.pc = "raised"]

(***************************************************************************)
(* The physical and the simulated session.                                 *)
(***************************************************************************)
\* The joints that count as measured in this tick: the producer passes the last status,
\* the simulated session nothing, and then the last accepted target is the reference.
BranchReference == IF path = "robot" THEN status ELSE gen.safe

\* The producer reads the latest status before the tick; a status of a stopped arm also
\* refreshes the generator while the clutch is not engaged.
ReadStatus ==
    /\ path = "robot" /\ tick.pc = "idle"
    /\ status' = plant
    /\ \E stopped \in BOOLEAN :
         gen' = IF stopped /\ clutch # "Engaged" THEN Synchronize(gen, plant) ELSE gen
    /\ tick' = (IF Raised(gen') THEN Stopped ELSE Idle)
    /\ UNCHANGED <<config, plant, clutch, mapped, before, out, schedule, moment>>

\* The first evaluated pose: with continuation at most one tick's step from the last
\* accepted pose towards the desired one, otherwise the desired pose.
FirstStep(desired) ==
    LET distance == Abs(desired - gen'.target)
        most == IF MaxTargetJump < MaxTargetStep THEN MaxTargetJump ELSE MaxTargetStep
    IN IF continuation /\ distance > most THEN most ELSE distance

\* bounded_pose_step: so far along the segment from the last accepted pose.
StepToward(from, desired, step) == IF desired >= from THEN from + step ELSE from - step

EvaluationOf(desired) ==
    [Idle EXCEPT !.pc = "evaluate", !.desired = desired, !.step = FirstStep(desired)]

\* Mutant: the generator keeps the state it has.
CaptureFrom_Status(q) == CaptureReference(gen)

\* The clutch engages: the generator is synchronized with the measured joints, takes its
\* reference there, and the captured pose is the first desired one.  The MuJoCo generator
\* synchronizes with its plant instead.
CaptureFrom(q) ==
    LET synchronized == Synchronize(gen, q)
    IN IF Raised(synchronized) THEN synchronized ELSE CaptureReference(synchronized)

Capture ==
    /\ path # "replay" /\ tick.pc = "idle" /\ clutch = "Disengaged" /\ moment < MaxTicks
    /\ moment' = moment + 1
    /\ gen' = CaptureFrom(IF path = "robot" THEN status ELSE plant)
    /\ clutch' = "Engaged" /\ mapped' = TRUE
    /\ before' = gen'
    /\ tick' = (IF Raised(gen') THEN Stopped ELSE EvaluationOf(gen'.ik))
    /\ UNCHANGED <<config, plant, status, out, schedule>>

Update ==
    /\ path # "replay" /\ tick.pc = "idle" /\ clutch = "Engaged" /\ moment < MaxTicks
    /\ moment' = moment + 1
    /\ before' = gen
    /\ \E desired \in Poses : gen' = gen /\ tick' = EvaluationOf(desired)
    /\ UNCHANGED <<config, plant, status, clutch, mapped, out, schedule>>

\* The trigger is released, also after a fault: the mapper drops its reference.
Release ==
    /\ path # "replay" /\ tick.pc = "idle" /\ clutch \in {"Engaged", "Fault"}
    /\ clutch' = "Disengaged" /\ mapped' = FALSE
    /\ out' = Published("none", out.q)
    /\ UNCHANGED <<config, gen, plant, status, tick, before, schedule, moment>>

\* Only the physical session has a compute budget; once its deadline has passed the next
\* evaluation finds it spent.
Budget == IF path # "robot" THEN "none" ELSE IF tick.late THEN "spent" ELSE "open"

\* A refused candidate is tried again at half the step, unless time ran out, the joint
\* branch is undetermined, the step is small already, or the retries are used up.
Retries(result) ==
    /\ continuation /\ ~ Accepted(result)
    /\ result.reason \notin {Exhausted, "JOINT_BRANCH_DISCONTINUITY"}
    /\ tick.step > MinStep
    /\ tick.backtracks < MaxBacktracks

\* Mutant: the same step is tried again.
NextRetry_Same(t, late) == [t EXCEPT !.late = @ \/ late]

NextRetry(t, late) ==
    [t EXCEPT !.step = @ \div 2, !.backtracks = @ + 1, !.late = @ \/ late]

\* What the tick publishes: the target, a hard stop with a faulted clutch, or a
\* HOLD_REJECTED heartbeat.
Outcome(result) ==
    IF Accepted(result) THEN "target"
    ELSE IF result.stop \/ result.reason = "JOINT_BRANCH_DISCONTINUITY" THEN "stop"
    ELSE "hold"

Publish(result) ==
    /\ out' = Published(Outcome(result), IF Accepted(result) THEN result.q ELSE out.q)
    /\ clutch' = IF Outcome(result) = "stop" THEN "Fault" ELSE clutch
    /\ mapped' = (mapped /\ Outcome(result) # "stop")

\* One evaluation of the tick and what the session makes of it.
EvaluateTick ==
    /\ path # "replay" /\ tick.pc = "evaluate"
    /\ LET target == StepToward(gen.target, tick.desired, tick.step)
       IN \E result \in Evaluate(gen, target, BranchReference, moment, Budget) :
            /\ gen' = result.gen
            /\ tick' = (IF Raised(result.gen) THEN Stopped
                        ELSE IF Retries(result)
                        THEN NextRetry(tick, result.late)
                        ELSE [Idle EXCEPT !.late = tick.late \/ result.late,
                                          !.pushed = result.pushed])
            /\ IF tick'.pc = "idle" THEN Publish(result) ELSE UNCHANGED <<out, clutch, mapped>>
    /\ UNCHANGED <<config, plant, status, before, schedule, moment>>

\* The servo (or the simulated actuators) moves the arm towards the last accepted target;
\* the replay commands no target to its plant.
PlantMoves ==
    /\ tick.pc = "idle" /\ path # "replay"
    /\ plant' \in (Segment(plant, out.q) \cap Joints) \ {plant}
    /\ UNCHANGED <<config, gen, status, clutch, mapped, tick, before, out, schedule, moment>>

(***************************************************************************)
(* The replay session.  A datagram is malformed, carries no right hand       *)
(* ("other"), a right hand that cannot be used ("lost"), one too far from    *)
(* the last ("jump"), or a usable one.                                      *)
(***************************************************************************)

Disengage ==
    /\ clutch' = "Disengaged" /\ mapped' = FALSE
    /\ out' = Published("none", out.q)

Datagram ==
    /\ path = "replay" /\ tick.pc = "idle" /\ moment < MaxTicks
    /\ moment' = moment + 1

\* A datagram that cannot be parsed faults the operator; an unsafe right hand and a jump
\* while armed or engaged disengage it.
UnsafeDatagram ==
    /\ Datagram
    /\ Disengage
    /\ UNCHANGED <<config, gen, plant, status, tick, before, schedule>>

\* The schedule asks for an engagement: the operator is armed, and only a later right
\* hand captures the reference.
ScheduledEngagement ==
    /\ Datagram
    /\ clutch = "Disengaged" /\ schedule > 0
    /\ clutch' = "Armed" /\ schedule' = schedule - 1
    /\ UNCHANGED <<config, gen, plant, status, mapped, tick, before, out>>

\* The recorded evaluation has no deadline and no retry; a refusal is a fault.
Judge(g, desired) ==
    \E result \in Evaluate(g, desired, g.safe, moment', "none") :
      /\ gen' = result.gen
      /\ tick' = (IF Raised(result.gen) THEN Stopped ELSE Idle)
      /\ IF Accepted(result)
         THEN clutch' = "Engaged" /\ mapped' = TRUE /\ out' = Published("target", result.q)
         ELSE Disengage

ReplayCapture ==
    /\ Datagram
    /\ clutch = "Armed"
    /\ LET captured == CaptureFrom(plant)
       IN before' = captured /\ Judge(captured, captured.ik)
    /\ UNCHANGED <<config, plant, status, schedule>>

ReplayMotion ==
    /\ Datagram
    /\ clutch = "Engaged"
    /\ before' = gen
    /\ \E desired \in Poses : Judge(gen, desired)
    /\ UNCHANGED <<config, plant, status, schedule>>

TargetNext ==
    \/ ReadStatus \/ Capture \/ Update \/ Release \/ EvaluateTick \/ PlantMoves
    \/ UnsafeDatagram \/ ScheduledEngagement \/ ReplayCapture \/ ReplayMotion

\* A tick that has begun runs to its end: the loop has no wait in it.
TargetSpec == TargetInit /\ [][TargetNext]_targetVars /\ WF_targetVars(EvaluateTick)
-----------------------------------------------------------------------------
TargetTypeOK ==
    /\ path \in {"robot", "sim", "replay"} /\ continuation \in BOOLEAN
    /\ gen \in [ik : Joints, safe : Joints, target : Poses, origin : Poses,
                latch : BOOLEAN, at : 0..MaxTicks, raised : BOOLEAN]
    /\ {start, plant, status} \subseteq Joints
    /\ clutch \in {"Disengaged", "Armed", "Engaged", "Fault"} /\ mapped \in BOOLEAN
    /\ tick \in [pc : {"idle", "evaluate", "raised"}, desired : Poses, step : 0..(MaxQ + 1),
                 backtracks : 0..MaxBacktracks, late : BOOLEAN, pushed : BOOLEAN]
    /\ out \in [kind : {"none", "target", "hold", "stop"}, q : Joints]
    /\ schedule \in 0..Engagements /\ moment \in 0..MaxTicks

Finished == tick.pc = "evaluate" /\ tick'.pc = "idle"
Accepting(g) == [safe |-> g.safe, target |-> g.target, origin |-> g.origin, at |-> g.at]

\* A refused tick leaves no trace: whatever was tried (retries, the moved seed, a trial
\* that committed and was put back), a tick that publishes no target leaves the last
\* accepted joints, pose, workspace origin and tracker time as it found them.
RefusedLeavesNoTrace ==
    [][Finished /\ out'.kind # "target" => Accepting(gen') = Accepting(before)]_targetVars

\* The tracker takes strictly later timestamps only and raises otherwise: the several
\* evaluations and commits of one tick never present it the same timestamp twice.  The
\* only exception a session can meet is a measured state in contact.
RaisesOnlyInContact == tick.pc = "raised" => {plant, status} \cap Contact # {}

\* The soft margin is directional, and its reference is the measured arm, which lags: still,
\* through stale statuses, retries, recoveries and new engagements neither the accepted
\* target nor the arm ever leaves the soft range further than the arm started outside it.
MarginNeverWorsened ==
    LET low == IF start < SafeLow THEN start ELSE SafeLow
        high == IF start > SafeHigh THEN start ELSE SafeHigh
    IN {gen.safe, plant, status} \subseteq low..high

\* However a target came about, it is within one joint jump plus the recovery's seed step
\* of the last accepted joints (or of the joints captured at the start of the engagement).
AcceptedStepBounded ==
    [][out'.kind = "target" /\ moment' # 0 /\ gen'.at = moment' /\ gen.at # moment' =>
         Abs(gen'.safe - before'.safe) <= MaxJointJump + SeedStep]_targetVars

\* In a singular accepted state a tick that ran in time and whose last candidate did not
\* move away from the singularity either stops hard or publishes a less singular target: it
\* sends no heartbeat that keeps the stream alive while the operator pushes on.  (Beyond
\* the soft margin a candidate is judged at its clipped joints, so the claim is about
\* accepted states inside it.)
SingularStateStops ==
    [][Finished /\ ~ tick'.late /\ tick'.pushed
       /\ HardSingularity(before.safe) /\ before.safe \in SafeLow..SafeHigh =>
         \/ out'.kind = "stop"
         \/ out'.kind = "target" /\ SingularityRisk(out'.q) < SingularityRisk(before.safe)]_targetVars

\* An engagement starts from where the arm was measured, not from a refused candidate.
EngagedFromMeasured ==
    [][clutch # "Engaged" /\ clutch' = "Engaged" /\ tick'.pc # "raised" =>
         gen'.origin = IF path = "robot" THEN status ELSE plant]_targetVars

\* The mapper holds a reference only during an engagement: after a fault, a release or a
\* refused replay frame nothing is mapped until a new capture.
ReferenceOnlyWhileEngaged == mapped => clutch = "Engaged"

\* Whatever a tick tries, an accepted target is a vetted one and a refused one
\* changes nothing: one bounded step, never further outside the soft range
\* than the arm started, no trace of trials (evaluate, the recovery loop).
OnlyVettedTargets ==
    [](TargetTypeOK /\ RaisesOnlyInContact /\ MarginNeverWorsened) /\ AcceptedStepBounded /\ RefusedLeavesNoTrace

\* An engagement follows the measured arm: it starts where the arm is, ends
\* with its reference, and stops at a singularity it cannot leave.
FollowsMeasuredArm ==
    []ReferenceOnlyWhileEngaged /\ EngagedFromMeasured /\ SingularStateStops

\* Every tick ends: the retries are bounded whatever the evaluations say.
TickEnds == (tick.pc = "evaluate") ~> (tick.pc # "evaluate")
=============================================================================
