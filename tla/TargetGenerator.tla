-------------------------- MODULE TargetGenerator --------------------------
(***************************************************************************)
(* The shared JAKA target generator (SharedJakaTargetGenerator in           *)
(* simulation.py): every desired hand pose of the operator is solved by     *)
(* inverse kinematics from the last accepted joint target, judged against   *)
(* the feasibility limits, and either committed as the next accepted target *)
(* or refused.  Close to a joint limit a refused (or merely acceptable)     *)
(* candidate is compared with one solved from a seed moved towards the      *)
(* interior, on a snapshot that is put back afterwards.                     *)
(*                                                                         *)
(* The arm has one joint here: its position q and the pose it gives the     *)
(* palm are the same integer, so a pose beyond 0..MaxQ is out of reach.     *)
(* The singularity of the Jacobian grows linearly beyond RiskFrom.          *)
(* Orientation is folded into position (its checks have the same form),     *)
(* the periodic joints and the advisory velocity and acceleration estimates *)
(* are left out, and whether the wall clock has passed the tick's deadline  *)
(* at each of the places where the code looks is an input.                  *)
(***************************************************************************)
EXTENDS Integers, Sequences, FiniteSets

CONSTANTS
    MaxQ,             \* the manufacturer's joint range is 0..MaxQ
    SafeLow, SafeHigh,\* the range left by the soft joint_limit_margin_rad
    Zone,             \* joint_limit_avoidance_zone_rad
    SeedStep,         \* how far _toward_safe_seed moves a risky joint
    IkTolerance,      \* ik_position_tolerance_m
    MaxTargetJump,    \* maximum_target_jump_m
    MaxTargetStep,    \* maximum_tcp_velocity_m_s times the tick interval
    MaxJointJump,     \* maximum_joint_target_jump_rad
    MaxDisplacement,  \* maximum_target_displacement_m
    RiskFrom,         \* the singularity risk is positive beyond this position
    RecoverRisk, SlowRisk, HardRisk, \* thresholds of the singularity policy
    Hysteresis,       \* singularity_direction_hysteresis_ratio
    Contact,          \* the positions in which the model touches something
    Multibranch       \* ik_solver_mode = "joint_limit_multibranch"

\* FeasibilityLimits refuses thresholds that are negative or not ordered; the step limits
\* (bounded_pose_step) and the seed step (_toward_safe_seed) count as zero when negative.
ASSUME LimitsOrdered ==
    /\ {MaxQ, Zone, SeedStep, MaxTargetJump, MaxTargetStep, MaxDisplacement, Hysteresis} \subseteq Nat
    /\ {SafeLow, SafeHigh, IkTolerance, MaxJointJump,
        RiskFrom, RecoverRisk, SlowRisk, HardRisk} \subseteq Int
    /\ 0 <= SafeLow /\ SafeLow < SafeHigh /\ SafeHigh <= MaxQ
    /\ RecoverRisk < SlowRisk /\ SlowRisk < HardRisk
    /\ Contact \subseteq 0..MaxQ
    /\ Multibranch \in BOOLEAN

Joints == 0..MaxQ
Poses == 0..(MaxQ + 1)

Abs(x) == IF x < 0 THEN -x ELSE x
Segment(a, b) == {x \in Poses : (a <= x /\ x <= b) \/ (b <= x /\ x <= a)}
Clamp(q, low, high) == IF q < low THEN low ELSE IF q > high THEN high ELSE q

(***************************************************************************)
(* The generator: the joints held by the IK object, the last accepted       *)
(* joint target and pose, the pose the workspace is measured from, the      *)
(* slowdown latch, the timestamp of the last target the output tracker      *)
(* accepted (0: none since it was reset), and whether an operation raised.  *)
(***************************************************************************)
Generators ==
    [ik : Joints, safe : Joints, target : Poses, origin : Poses,
     latch : BOOLEAN, at : Nat, raised : BOOLEAN]

\* JointOutputFeasibilityTracker.reset: the next target has no predecessor.
ResetTracker(g) == [g EXCEPT !.at = 0]

\* set_authoritative_arm_joints_rad: the IK object takes these joints as they are.
SetAuthoritative(g, q) == [g EXCEPT !.ik = q]

\* set_arm_joints_rad: the IK object takes these joints inside the soft margin.
SetClipped(g, q) == [g EXCEPT !.ik = Clamp(q, SafeLow, SafeHigh)]

NewGenerator(q) ==
    [ik |-> q, safe |-> q, target |-> q, origin |-> q,
     latch |-> FALSE, at |-> 0, raised |-> FALSE]

\* Everything measured from the current pose starts again at the IK's joints.
CaptureReference(g) ==
    ResetTracker([g EXCEPT !.origin = g.ik, !.target = g.ik, !.safe = g.ik, !.latch = FALSE])

\* A measured state in contact is refused: the IK keeps its previous joints and
\* the caller gets a ValueError.
Synchronize(g, q) ==
    IF q \in Contact
    THEN [g EXCEPT !.raised = TRUE]
    ELSE CaptureReference(SetAuthoritative(g, q))

(***************************************************************************)
(* Risk.                                                                   *)
(***************************************************************************)
SingularityRisk(q) == IF q > RiskFrom THEN q - RiskFrom ELSE 0
HardSingularity(q) == SingularityRisk(q) > HardRisk

Direction(from, to) ==
    LET delta == SingularityRisk(to) - SingularityRisk(from)
    IN IF delta > Hysteresis THEN "TOWARD" ELSE IF delta < -Hysteresis THEN "AWAY" ELSE "TANGENT"

\* What is left of the range in the direction of the step.
Remaining(q, delta) ==
    IF q < SafeLow \/ q > SafeHigh THEN 0
    ELSE IF delta > 0 THEN SafeHigh - q
    ELSE IF delta < 0 THEN q - SafeLow
    ELSE Clamp(SafeHigh - q, 0, q - SafeLow)

LimitRisk(q, delta) == IF Remaining(q, delta) < Zone THEN Zone - Remaining(q, delta) ELSE 0

OutwardAtLimit(q, delta) ==
    /\ Remaining(q, delta) < Zone
    /\ IF q < SafeLow THEN delta < 0 ELSE IF q > SafeHigh THEN delta > 0 ELSE delta # 0

\* Beyond the soft margin a candidate may only hold or retreat towards the range,
\* judged against the measured joints.
MarginBlocked(q, reference) ==
    \/ q < SafeLow /\ ~ (reference < SafeLow /\ q >= reference)
    \/ q > SafeHigh /\ ~ (reference > SafeHigh /\ q <= reference)

\* Mutant: any jump of the joints is accepted.
ClassifyCandidate_AnyJump(g, t, q, reference, limited) ==
    IF Abs(t - g.origin) > MaxDisplacement THEN "OUTSIDE_ROBOT_WORKSPACE"
    ELSE IF Abs(t - g.target) > MaxTargetJump THEN "TARGET_JUMP"
    ELSE IF Abs(t - g.target) > MaxTargetStep THEN "LINEAR_VELOCITY_LIMIT"
    ELSE IF Abs(Clamp(q, SafeLow, SafeHigh) - t) > IkTolerance THEN "IK_POSITION_FAILED"
    ELSE IF MarginBlocked(q, reference) \/ limited THEN "JOINT_LIMIT"
    ELSE IF Clamp(q, SafeLow, SafeHigh) \in Contact THEN "COLLISION"
    ELSE "ACCEPTED"

\* The first limit that the candidate q for pose t breaks, in the code's order.
\* The pose reached is the one of the clipped joints, `limited` says that the IK ran
\* into the manufacturer's range.
ClassifyCandidate(g, t, q, reference, limited) ==
    IF Abs(t - g.origin) > MaxDisplacement THEN "OUTSIDE_ROBOT_WORKSPACE"
    ELSE IF Abs(t - g.target) > MaxTargetJump \/ Abs(q - g.safe) > MaxJointJump THEN "TARGET_JUMP"
    ELSE IF Abs(t - g.target) > MaxTargetStep THEN "LINEAR_VELOCITY_LIMIT"
    ELSE IF Abs(Clamp(q, SafeLow, SafeHigh) - t) > IkTolerance THEN "IK_POSITION_FAILED"
    ELSE IF MarginBlocked(q, reference) \/ limited THEN "JOINT_LIMIT"
    ELSE IF Clamp(q, SafeLow, SafeHigh) \in Contact THEN "COLLISION"
    ELSE "ACCEPTED"

(***************************************************************************)
(* One evaluation without recovery.  The choice c says when the deadline    *)
(* is found to have passed ("never", "start", "solving" or "checking"),     *)
(* what the solver returned and, if it solved, the joints it reached        *)
(* between its seed and the target.                                        *)
(***************************************************************************)
\* _solve_position_ik: damped, bounded steps from the seed towards the target; an
\* unreachable pose is approached only.
Solutions(seed, t) == Segment(seed, t)

\* apply_position_target looks at the deadline before every step, and its caller after it.
\* The budget of a tick is "none" (no deadline), "open" (it may run out) or "spent".
Choices(seed, t, budget) ==
    IF budget = "spent" THEN {[late |-> "start", solve |-> "none", raw |-> seed]}
    ELSE [late : {"never"}, solve : {"nonfinite", "nobranch"}, raw : {seed}]
         \cup [late : IF budget = "open" THEN {"never", "checking"} ELSE {"never"},
               solve : {"solved"}, raw : Solutions(seed, t)]
         \cup [late : IF budget = "open" THEN {"start", "solving"} ELSE {},
               solve : {"none"}, raw : {seed}]

Exhausted == "CONTROL_COMPUTE_BUDGET_EXHAUSTED"

Refused(g, reason) ==
    [gen |-> g, reason |-> reason, q |-> g.safe, stop |-> FALSE, pushed |-> FALSE,
     late |-> reason = Exhausted, solved |-> FALSE, outward |-> FALSE, limitRisk |-> 0, risk |-> 0, score |-> 0]

\* The latch follows every candidate that was solved, accepted or not.
Latched(g, q) ==
    IF SingularityRisk(q) <= RecoverRisk THEN FALSE
    ELSE IF SingularityRisk(q) >= SlowRisk THEN TRUE
    ELSE g.latch

\* The output tracker's prefilter needs a later timestamp than the last accepted one.
PrefilterRaises(g, now) == g.at # 0 /\ now <= g.at

\* The verdict on a solved candidate: hard singularity, limits, slowdown.
Verdict(g, t, q, reference, limited) ==
    LET clipped == Clamp(q, SafeLow, SafeHigh)
        direction == Direction(g.safe, clipped)
        escape == HardSingularity(g.safe) /\ direction = "AWAY"
        reason == ClassifyCandidate(g, t, q, reference, limited)
    IN IF HardSingularity(clipped) /\ ~ escape THEN "NEAR_SINGULARITY"
       ELSE IF reason = "ACCEPTED" /\ Latched(g, clipped) /\ direction = "TOWARD"
       THEN "SINGULARITY_SLOWDOWN"
       ELSE reason

\* The accepted state itself is singular and the candidate does not leave it.
HardStopRequired(g, q) ==
    HardSingularity(g.safe) /\ Direction(g.safe, Clamp(q, SafeLow, SafeHigh)) # "AWAY"

\* A late candidate keeps its verdict only if the accepted state demands a hard stop.
LateVerdict(reason, stop) == IF stop THEN reason ELSE Exhausted

Judged(g, t, reference, now, c) ==
    LET q == Clamp(c.raw, 0, MaxQ)
        clipped == Clamp(q, SafeLow, SafeHigh)
        stop == HardStopRequired(g, q)
        verdict == Verdict(g, t, q, reference, q # c.raw)
        moved == [SetClipped(g, q) EXCEPT !.latch = Latched(g, clipped),
                                          !.raised = PrefilterRaises(g, now)]
        limitRisk == LimitRisk(q, q - g.safe)
    IN [gen |-> IF c.late = "checking" THEN SetAuthoritative(moved, g.safe) ELSE moved,
        reason |-> IF c.late = "checking" THEN LateVerdict(verdict, stop) ELSE verdict,
        q |-> q, stop |-> stop, pushed |-> Direction(g.safe, clipped) # "AWAY",
        late |-> c.late = "checking", solved |-> TRUE,
        outward |-> OutwardAtLimit(q, q - g.safe),
        limitRisk |-> limitRisk, risk |-> SingularityRisk(clipped),
        score |-> Abs(q - g.safe) + limitRisk + SingularityRisk(clipped)]

\* The exits before a candidate exists: no time left, no time left while solving (the
\* partial joints are dropped), no finite joints, no equivalent joint branch.
EvaluateCandidate(g, t, reference, now, c) ==
    IF c.late = "start" THEN Refused(g, Exhausted)
    ELSE IF c.late = "solving"
    THEN Refused(SetAuthoritative(g, g.safe), Exhausted)
    ELSE IF c.solve = "nonfinite" THEN Refused(SetAuthoritative(g, g.safe), "INPUT_INVALID")
    ELSE IF c.solve = "nobranch"
    THEN Refused(SetAuthoritative(g, g.safe), "JOINT_BRANCH_DISCONTINUITY")
    ELSE Judged(g, t, reference, now, c)

\* Every result of one solve and its checks.
Candidates(g, t, reference, now, budget) ==
    {EvaluateCandidate(g, t, reference, now, c) : c \in Choices(g.safe, t, budget)}

Accepted(r) == r.reason = "ACCEPTED"

\* commit_prefilter: the tracker's time advances with accepted targets only.
TrackerCommits(g, now) == [g EXCEPT !.raised = @ \/ PrefilterRaises(g, now), !.at = now]

\* _commit_accepted_result: tracker, IK, last accepted joints and pose together.
Commit(g, q, t, now) ==
    [TrackerCommits(g, now) EXCEPT !.ik = q, !.safe = q, !.target = t]

Concluded(r, t, now) ==
    IF Accepted(r) THEN [r EXCEPT !.gen = Commit(r.gen, r.q, t, now)] ELSE r

(***************************************************************************)
(* Joint-limit recovery.                                                   *)
(***************************************************************************)
ShouldRecover(g, r) ==
    /\ Multibranch
    /\ \/ r.outward
       \/ /\ r.limitRisk > 0 \/ LimitRisk(g.safe, 0) > 0
          /\ r.reason \in {"JOINT_LIMIT", "IK_POSITION_FAILED"}

TowardSafeSeed(q) ==
    IF q > SafeHigh - Zone THEN q - SeedStep ELSE IF q < SafeLow + Zone THEN q + SeedStep ELSE q

\* _restore_recovery_state: what the trial did to the generator is undone.
Restore(snapshot, trial) == [snapshot EXCEPT !.raised = trial.raised]

\* An accepted alternate replaces a refused primary, or an accepted one that it clearly
\* improves on.
PrefersTrial(primary, trial) ==
    /\ Accepted(trial)
    /\ \/ ~ Accepted(primary)
       \/ /\ trial.score < primary.score
          /\ trial.limitRisk < primary.limitRisk \/ trial.risk < primary.risk

\* The better of the primary and the trial is committed on the restored snapshot.
TryRecovery(primary, trial, t, now) ==
    LET snapshot == primary.gen
        restored == Restore(snapshot, trial.gen)
        selected == IF PrefersTrial(primary, trial) THEN trial ELSE primary
        late == primary.late \/ trial.late
    IN IF Accepted(selected)
       THEN [selected EXCEPT !.gen = Commit(restored, selected.q, t, now), !.late = late]
       ELSE [selected EXCEPT
               !.gen = SetAuthoritative(restored, snapshot.safe),
               !.reason = IF trial.reason = Exhausted THEN Exhausted ELSE @,
               !.late = late]

\* The trial: an evaluation of the same pose and timestamp from the moved seed, which
\* commits if it is accepted.  Without time left it ends before it has solved anything.
Trials(primary, t, reference, now, budget) ==
    LET seed == TowardSafeSeed(primary.gen.safe)
        seeded == SetAuthoritative([primary.gen EXCEPT !.safe = seed], seed)
        left == IF primary.late THEN "spent" ELSE budget
    IN {Concluded(r, t, now) : r \in Candidates(seeded, t, reference, now, left)}

\* evaluate(): every result the call can return.  The exits before a candidate exists come
\* before recovery is considered.
Evaluate(g, t, reference, now, budget) ==
    UNION {IF primary.solved /\ ShouldRecover(g, primary)
           THEN {TryRecovery(primary, trial, t, now) :
                   trial \in Trials(primary, t, reference, now, budget)}
           ELSE {Concluded(primary, t, now)} :
              primary \in Candidates(g, t, reference, now, budget)}
=============================================================================
