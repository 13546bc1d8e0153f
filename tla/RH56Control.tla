----------------------------- MODULE RH56Control -----------------------------
(***************************************************************************)
(* The RH56 hand controller (src/rh56_driver/pc_direct_control.py), called *)
(* from one thread in the order in which RH56PcDirectWorker.run_cycle      *)
(* calls it: a cycle begins by holding or activating the controller        *)
(* (phase "begin") and then performs one serial operation, a position      *)
(* command or the poll of one feedback register (phase "operate").         *)
(*                                                                         *)
(* Normalised positions (0.0 open ... 1.0 closed) and force counts are     *)
(* integers on a coarse grid, so the code's 1e-12 tolerances are exact     *)
(* comparisons here.  Clocks are abstracted: `fresh' says whether          *)
(* now - last_feedback.monotonic_ns is within feedback_stale_timeout_ns,   *)
(* and whether a command falls before next_command_monotonic_ns is an      *)
(* input of Command.  The operation is one that permits position commands  *)
(* (HAND_ONLY or COMBINED), and Init is the state start() leaves behind.   *)
(***************************************************************************)
EXTENDS Integers

CONSTANTS
    Channels,            \* CANONICAL_HAND_ORDER
    MaxPos,              \* the closed end of the normalised range
    MaxClose,            \* safety.max_close_strength
    DeltaLimit,          \* hand_schema.hand_delta_limit
    MaxForce,            \* bound on FORCE_ACT
    ContactStopEnabled,  \* contact_stop.enabled
    RequireFreshForce,   \* contact_stop.require_fresh_force_before_closure_step
    ClosureBudget,       \* contact_stop.closure_budget_per_force_sample
    MaxClosureStep,      \* contact_stop.maximum_closure_step
    ForceOnset,          \* contact_stop.force_delta_onset
    ForceRelease,        \* contact_stop.force_delta_release
    MinClosingGap,       \* contact_stop.minimum_closing_gap
    MaxStallProgress,    \* contact_stop.maximum_stall_progress
    ReliefMargin,        \* contact_stop.relief_margin
    ReleaseOpenDelta,    \* contact_stop.release_open_delta
    ConsecutiveSamples,  \* contact_stop.consecutive_samples
    TerminalReasons      \* the reasons of an arm terminal stop

\* The checks the constructor makes on the configured policy.
ASSUME ContactPolicyAssumption ==
    /\ MaxPos \in Nat \ {0} /\ MaxClose \in 1..MaxPos /\ DeltaLimit \in Nat \ {0}
    /\ MaxForce \in Nat
    /\ ContactStopEnabled \in BOOLEAN /\ RequireFreshForce \in BOOLEAN
    /\ ClosureBudget \in 1..DeltaLimit /\ MaxClosureStep \in 1..ClosureBudget
    /\ ForceOnset \in Nat /\ ForceRelease \in Nat /\ ForceRelease < ForceOnset
    /\ MinClosingGap \in Nat \ {0} /\ MaxStallProgress \in Nat
    /\ ReliefMargin \in 0..DeltaLimit /\ ReleaseOpenDelta \in Nat \ {0}
    /\ ConsecutiveSamples \in Nat /\ ConsecutiveSamples >= 2

VARIABLES
    state, faultReason, port,                     \* lifecycle
    angle, force, fresh, progress, angleNew,      \* cached feedback
    lastCommand, lastRequested, requestedKnown,   \* command stage
    forceNext, transientHold, outcome,
    baseline, count, hold, latched, closureSeen,  \* contact stop, per channel
    relief, closureSince

lifeVars == <<state, faultReason, port>>
feedbackVars == <<angle, force, fresh, progress, angleNew>>
commandVars == <<lastCommand, lastRequested, requestedKnown, forceNext, transientHold>>
contactVars == <<baseline, count, hold, latched, closureSeen, relief, closureSince>>
controlVars == <<lifeVars, feedbackVars, commandVars, contactVars, outcome>>

Position == 0..MaxPos
Pose == [Channels -> Position]
ForceCounts == [Channels -> 0..MaxForce]
NoHold == -1              \* math.nan in _contact_hold_target
NoReason == "none"        \* fault_reason is None
ControllerReasons == {"feedback_timeout", "serial_feedback_failure", "device_error_status",
                      "feedback_stale_during_read", "serial_command_failure",
                      "serial_command_rejected", "pc_direct_worker_failure"}
FaultReasons == ControllerReasons \cup TerminalReasons
ASSUME TerminalReasonsAssumption ==
    NoReason \notin TerminalReasons /\ ControllerReasons \cap TerminalReasons = {}
Outcomes == {"none", "raised", "done", "inactive", "feedback_timeout_hold", "rate_limited",
             "contact_feedback_wait", "exact_duplicate_suppressed", "serial_write_success"}

Least(a, b) == IF a <= b THEN a ELSE b
Greatest(a, b) == IF a >= b THEN a ELSE b
Distance(a, b) == IF a >= b THEN a - b ELSE b - a

ControlInit ==
    /\ state = "HOLD" /\ faultReason = NoReason /\ port = "open"
    /\ angle \in Pose /\ force \in ForceCounts /\ fresh = TRUE
    /\ progress = [c \in Channels |-> 0] /\ angleNew = TRUE
    /\ lastCommand = angle /\ lastRequested = angle /\ requestedKnown = FALSE
    /\ forceNext = FALSE /\ transientHold = FALSE /\ outcome = "none"
    /\ baseline = force
    /\ count = [c \in Channels |-> 0] /\ hold = [c \in Channels |-> NoHold]
    /\ latched = [c \in Channels |-> FALSE] /\ closureSeen = [c \in Channels |-> FALSE]
    /\ relief = FALSE /\ closureSince = [c \in Channels |-> 0]

-----------------------------------------------------------------------------
(* Lifecycle *)

\* Fault is terminal for this instance and the first cause is kept.
Fault(reason) ==
    /\ state' = "FAULT"
    /\ faultReason' = IF faultReason = NoReason THEN reason ELSE faultReason
    /\ UNCHANGED port

Hold ==
    /\ state' = IF state = "FAULT" THEN state ELSE "HOLD"
    /\ UNCHANGED <<faultReason, port, feedbackVars, commandVars, outcome>>

ArmTerminalStop(reason) ==
    /\ Fault(reason)
    /\ outcome' = "done"
    /\ UNCHANGED <<feedbackVars, commandVars, contactVars>>

Cleanup ==
    /\ port' = "closed" /\ state' = "DISABLED" /\ outcome' = "done"
    /\ UNCHANGED <<faultReason, feedbackVars, commandVars, contactVars>>

\* Time passes until the last ANGLE sample is older than the stale boundary.
FeedbackExpires ==
    /\ fresh /\ fresh' = FALSE
    /\ UNCHANGED <<lifeVars, angle, force, progress, angleNew, commandVars, contactVars, outcome>>

ResetContactStop ==
    /\ baseline' = force
    /\ progress' = [c \in Channels |-> 0] /\ angleNew' = FALSE
    /\ count' = [c \in Channels |-> 0] /\ hold' = [c \in Channels |-> NoHold]
    /\ latched' = [c \in Channels |-> FALSE] /\ closureSeen' = [c \in Channels |-> FALSE]
    /\ relief' = FALSE /\ closureSince' = [c \in Channels |-> 0]

\* activate(): rebase on the measured pose and open a new contact episode.
Activate ==
    \/ /\ ~fresh
       /\ Fault("feedback_timeout") /\ outcome' = "raised"
       /\ UNCHANGED <<feedbackVars, commandVars, contactVars>>
    \/ /\ fresh /\ state = "FAULT"
       /\ outcome' = "raised"
       /\ UNCHANGED <<lifeVars, feedbackVars, commandVars, contactVars>>
    \/ /\ fresh /\ state # "FAULT"
       /\ lastCommand' = angle /\ lastRequested' = angle /\ requestedKnown' = TRUE
       /\ ResetContactStop
       /\ state' = "ACTIVE" /\ forceNext' = TRUE /\ outcome' = "done"
       /\ UNCHANGED <<faultReason, port, angle, force, fresh, transientHold>>

-----------------------------------------------------------------------------
(* Contact stop *)

ContactHeld(c) == latched[c] \/ count[c] > 0

ReleaseRequested(c, t) ==
    \/ t[c] <= hold[c] - ReleaseOpenDelta
    \/ /\ hold[c] <= ReleaseOpenDelta
       /\ requestedKnown /\ t[c] < lastRequested[c]

\* Mutant: only latched contacts limit, provisional ones do not.
ContactLimitedTarget_LatchedOnly(t, allowRelease) ==
    [c \in Channels |->
        IF ContactStopEnabled /\ latched[c] /\ ~(allowRelease /\ ReleaseRequested(c, t))
        THEN Least(t[c], hold[c])
        ELSE t[c]]

\* contact_limited_target(t, allow_release): the limited pose ...
ContactLimitedTarget(t, allowRelease) ==
    [c \in Channels |->
        IF ContactStopEnabled /\ ContactHeld(c) /\ ~(allowRelease /\ ReleaseRequested(c, t))
        THEN Least(t[c], hold[c])
        ELSE t[c]]

\* ... and the channels whose hold it releases.
Released(t) == {c \in Channels : ContactStopEnabled /\ ContactHeld(c) /\ ReleaseRequested(c, t)}

\* pop_contact_relief_target() after hold(): the opening pose, or the empty set.
ReliefPose ==
    LET pose == [c \in Channels |->
                    IF ContactHeld(c) /\ hold[c] # NoHold
                    THEN Least(lastCommand[c], Greatest(0, hold[c]))
                    ELSE lastCommand[c]]
    IN  IF relief /\ state # "FAULT" /\ \E c \in Channels : pose[c] < lastCommand[c]
        THEN {pose} ELSE {}

\* hold(reason) of a cycle that is not active, and the relief target it pops:
\* the pending flag is consumed by every call in HOLD.
HoldAndPopRelief ==
    /\ Hold
    /\ relief' = IF relief /\ state' = "HOLD" THEN FALSE ELSE relief
    /\ UNCHANGED <<baseline, count, hold, latched, closureSeen, closureSince>>

ForceDelta(c, f) == Distance(f[c], baseline[c])

FirstCandidate(c, f) ==
    /\ count[c] = 0 /\ closureSeen[c] /\ ForceDelta(c, f) >= ForceOnset
    /\ \/ lastRequested[c] - angle[c] >= MinClosingGap
       \/ lastRequested[c] + MinClosingGap >= angle[c]

ConfirmedCandidate(c, f) ==
    count[c] > 0 /\ ForceDelta(c, f) >= ForceRelease /\ progress[c] <= MaxStallProgress

Qualified(c, f) == ~latched[c] /\ (FirstCandidate(c, f) \/ ConfirmedCandidate(c, f))
Quiet(c, f) == ~latched[c] /\ ~Qualified(c, f)

\* The early return of _observe_contact_force: a FORCE sample is judged only
\* against an ANGLE sample that is newer than the last judged one.
Judged == ContactStopEnabled /\ state \in {"ACTIVE", "HOLD"} /\ requestedKnown /\ angleNew

\* One judged sample.  The baseline's exponential average is any value between
\* the old baseline and the sample.
JudgeForce(f) ==
    /\ count' = [c \in Channels |-> IF latched[c] THEN count[c]
                                    ELSE IF Qualified(c, f) THEN count[c] + 1 ELSE 0]
    /\ hold' = [c \in Channels |->
                   IF Quiet(c, f) THEN NoHold
                   ELSE IF Qualified(c, f) /\ count[c] = 0
                        THEN Greatest(0, Least(lastCommand[c], angle[c]) - ReliefMargin)
                        ELSE hold[c]]
    /\ latched' = [c \in Channels |->
                      latched[c] \/ (Qualified(c, f) /\ count[c] + 1 >= ConsecutiveSamples)]
    /\ relief' = (relief \/ (state = "HOLD" /\ \E c \in Channels : Qualified(c, f)))
    /\ baseline' \in ForceCounts
    /\ \A c \in Channels :
           IF Quiet(c, f) /\ ~closureSeen[c]
           THEN /\ Least(baseline[c], f[c]) <= baseline'[c]
                /\ baseline'[c] <= Greatest(baseline[c], f[c])
           ELSE baseline'[c] = baseline[c]
    /\ angleNew' = FALSE

ObserveContactForce(f) ==
    /\ closureSince' = [c \in Channels |-> 0]
    /\ \/ Judged /\ JudgeForce(f)
       \/ ~Judged /\ UNCHANGED <<baseline, count, hold, latched, relief, angleNew>>

-----------------------------------------------------------------------------
(* poll_feedback_register: one register per call *)

PollAngle(a) ==
    /\ angle' = a /\ fresh' = TRUE /\ transientHold' = FALSE
    /\ progress' = [c \in Channels |-> a[c] - angle[c]] /\ angleNew' = TRUE
    /\ outcome' = "done"
    /\ UNCHANGED <<lifeVars, force, lastCommand, lastRequested, requestedKnown, forceNext, contactVars>>

\* Mutant: a FORCE read does not end the transient hold.
PollForce_KeepsTransientHold(f) ==
    /\ force' = f /\ ObserveContactForce(f)
    /\ outcome' = "done"
    /\ UNCHANGED <<lifeVars, angle, fresh, progress, commandVars, closureSeen>>

PollForce(f) ==
    /\ force' = f /\ transientHold' = FALSE
    /\ ObserveContactForce(f)
    /\ outcome' = "done"
    /\ UNCHANGED <<lifeVars, angle, fresh, progress, lastCommand, lastRequested, requestedKnown,
                   forceNext, closureSeen>>

\* CURRENT, STATUS, and an ERROR register that reads zero.
PollOther ==
    /\ transientHold' = FALSE /\ outcome' = "done"
    /\ UNCHANGED <<lifeVars, feedbackVars, lastCommand, lastRequested, requestedKnown, forceNext, contactVars>>

\* A typed read timeout while the last snapshot is fresh defers one command.
PollTimeout ==
    /\ fresh
    /\ transientHold' = TRUE /\ outcome' = "feedback_timeout_hold"
    /\ UNCHANGED <<lifeVars, feedbackVars, lastCommand, lastRequested, requestedKnown, forceNext, contactVars>>

\* Every other way a poll ends latches FAULT and raises.
PollFails ==
    /\ \/ Fault("serial_feedback_failure") /\ UNCHANGED transientHold
       \/ /\ \E reason \in {"device_error_status", "feedback_stale_during_read"} : Fault(reason)
          /\ transientHold' = FALSE
    /\ outcome' = "raised"
    /\ UNCHANGED <<feedbackVars, lastCommand, lastRequested, requestedKnown, forceNext, contactVars>>

\* _require_open (transport_state is CLOSED exactly when the state is
\* DISABLED) raises without touching the controller; a read of a port that
\* another thread has closed fails.
PollClosed ==
    /\ state = "DISABLED"
    /\ outcome' = "raised"
    /\ UNCHANGED <<lifeVars, feedbackVars, commandVars, contactVars>>

PollForceRegister ==
    state # "DISABLED" /\ port = "open" /\ \E f \in ForceCounts : PollForce(f)

PollOtherRegister ==
    \/ PollClosed
    \/ /\ state # "DISABLED"
       /\ \/ port = "open" /\ ((\E a \in Pose : PollAngle(a)) \/ PollOther \/ PollTimeout)
          \/ PollFails

-----------------------------------------------------------------------------
(* command(): one disjunct per way it returns, in the code's order *)

Inactive(isRelief) == state # "ACTIVE" /\ ~(isRelief /\ state = "HOLD")
Ready(isRelief) == ~Inactive(isRelief) /\ fresh /\ ~transientHold

CommandInactive(isRelief) ==
    /\ Inactive(isRelief)
    /\ outcome' = "inactive"
    /\ UNCHANGED <<lifeVars, feedbackVars, commandVars, contactVars>>

CommandStale(isRelief) ==
    /\ ~Inactive(isRelief) /\ ~fresh
    /\ Fault("feedback_timeout") /\ outcome' = "raised"
    /\ UNCHANGED <<feedbackVars, commandVars, contactVars>>

CommandDeferred(isRelief) ==
    /\ ~Inactive(isRelief) /\ fresh /\ transientHold
    /\ transientHold' = FALSE /\ outcome' = "feedback_timeout_hold"
    /\ UNCHANGED <<lifeVars, feedbackVars, lastCommand, lastRequested, requestedKnown, forceNext, contactVars>>

CommandRateLimited(isRelief, forceWrite) ==
    /\ Ready(isRelief) /\ ~forceWrite
    /\ outcome' = "rate_limited"
    /\ UNCHANGED <<lifeVars, feedbackVars, commandVars, contactVars>>

\* The ValueErrors: a target outside the envelope, a measured activation that
\* is not forced or does not equal the measured pose.
Invalid(t, forceWrite, measured) ==
    \/ \E c \in Channels : t[c] > (IF measured THEN MaxPos ELSE MaxClose)
    \/ measured /\ (~forceWrite \/ t # angle)

CommandInvalid(t, forceWrite, measured, isRelief) ==
    /\ Ready(isRelief) /\ Invalid(t, forceWrite, measured)
    /\ outcome' = "raised"
    /\ UNCHANGED <<lifeVars, feedbackVars, commandVars, contactVars>>

Governed == ContactStopEnabled /\ RequireFreshForce

\* Mutant: the closure already written is not subtracted.
BudgetedTarget_Whole(t) ==
    [c \in Channels |->
        IF Governed /\ t[c] > lastCommand[c] THEN Least(t[c], lastCommand[c] + ClosureBudget) ELSE t[c]]

\* The closure budget left since the last FORCE sample, applied to the
\* channels that close.
BudgetedTarget(t) ==
    [c \in Channels |->
        IF Governed /\ t[c] > lastCommand[c]
        THEN Least(t[c], lastCommand[c] + Greatest(0, ClosureBudget - closureSince[c]))
        ELSE t[c]]

\* The pose command() goes on with after the contact stage.
ContactStage(t, measured) ==
    IF measured THEN t ELSE BudgetedTarget(ContactLimitedTarget(t, TRUE))

\* Every closing channel is out of budget and no channel opens.
ClosureBlocked(t, measured) ==
    LET limited == ContactLimitedTarget(t, TRUE)
        closing == {c \in Channels : limited[c] > lastCommand[c]}
        staged == BudgetedTarget(limited)
    IN  /\ ~measured /\ Governed /\ closing # {}
        /\ \A c \in closing : staged[c] <= lastCommand[c]
        /\ \A c \in Channels : staged[c] >= lastCommand[c]

Duplicate(t, forceWrite, measured) ==
    ~forceWrite /\ ~forceNext /\ ContactStage(t, measured) = lastCommand

\* The step towards the staged pose that one write may take.
SelectedStep(delta, measured) ==
    IF ~measured /\ Governed /\ delta >= 0
    THEN Least(delta, MaxClosureStep)
    ELSE Greatest(-DeltaLimit, Least(delta, DeltaLimit))

Selected(t, measured) ==
    [c \in Channels |->
        lastCommand[c] + SelectedStep(ContactStage(t, measured)[c] - lastCommand[c], measured)]

\* The closure of one write; it is accumulated and read only under the policy,
\* and only as what is left of the budget, so it saturates one past it.
ClosureOf(step) == IF Governed THEN Greatest(step, 0) ELSE 0

Freed(t, measured) == IF measured THEN {} ELSE Released(t)
StillClosing(t, measured) == [c \in Channels |-> closureSeen[c] /\ c \notin Freed(t, measured)]

\* What the contact stage leaves behind whichever way the command then ends.
ReleaseContacts(t, measured) ==
    LET freed == Freed(t, measured)
    IN  /\ count' = [c \in Channels |-> IF c \in freed THEN 0 ELSE count[c]]
        /\ hold' = [c \in Channels |-> IF c \in freed THEN NoHold ELSE hold[c]]
        /\ latched' = [c \in Channels |-> latched[c] /\ c \notin freed]
        /\ lastRequested' = t /\ requestedKnown' = TRUE
        /\ UNCHANGED <<baseline, relief>>

CommandWaits(t, forceWrite, measured, isRelief) ==
    /\ Ready(isRelief) /\ ~Invalid(t, forceWrite, measured)
    /\ \/ ClosureBlocked(t, measured) /\ outcome' = "contact_feedback_wait"
       \/ /\ ~ClosureBlocked(t, measured) /\ Duplicate(t, forceWrite, measured)
          /\ outcome' = "exact_duplicate_suppressed"
    /\ ReleaseContacts(t, measured)
    /\ closureSeen' = StillClosing(t, measured)
    /\ UNCHANGED <<lifeVars, feedbackVars, lastCommand, forceNext, transientHold, closureSince>>

\* The serial write: it succeeds, or it fails and latches FAULT.  Nothing is
\* committed by a write that fails.
CommandWrites(t, forceWrite, measured, isRelief) ==
    /\ Ready(isRelief) /\ ~Invalid(t, forceWrite, measured)
    /\ ~ClosureBlocked(t, measured) /\ ~Duplicate(t, forceWrite, measured)
    /\ ReleaseContacts(t, measured)
    /\ forceNext' = FALSE
    /\ \/ LET sel == Selected(t, measured) IN
          /\ port = "open"
          /\ lastCommand' = sel /\ outcome' = "serial_write_success"
          /\ closureSince' = [c \in Channels |->
                Least(ClosureBudget + 1, closureSince[c] + ClosureOf(sel[c] - lastCommand[c]))]
          /\ closureSeen' = [c \in Channels |-> sel[c] > lastCommand[c] \/ StillClosing(t, measured)[c]]
          /\ UNCHANGED lifeVars
       \/ /\ \E reason \in {"serial_command_failure", "serial_command_rejected"} : Fault(reason)
          /\ outcome' = "raised"
          /\ closureSeen' = StillClosing(t, measured)
          /\ UNCHANGED <<lastCommand, closureSince>>
    /\ UNCHANGED <<feedbackVars, transientHold>>

Command(t, forceWrite, measured, isRelief) ==
    \/ CommandInactive(isRelief)
    \/ CommandStale(isRelief)
    \/ CommandDeferred(isRelief)
    \/ CommandRateLimited(isRelief, forceWrite)
    \/ CommandInvalid(t, forceWrite, measured, isRelief)
    \/ CommandWaits(t, forceWrite, measured, isRelief)
    \/ CommandWrites(t, forceWrite, measured, isRelief)

-----------------------------------------------------------------------------
(* Properties of the controller under any caller *)

ControlTypeOK ==
    /\ state \in {"DISABLED", "HOLD", "ACTIVE", "FAULT"}
    /\ faultReason \in FaultReasons \cup {NoReason} /\ port \in {"open", "closed"}
    /\ angle \in Pose /\ force \in ForceCounts /\ fresh \in BOOLEAN
    /\ progress \in [Channels -> Int] /\ angleNew \in BOOLEAN
    /\ lastCommand \in Pose /\ lastRequested \in Pose /\ requestedKnown \in BOOLEAN
    /\ forceNext \in BOOLEAN /\ transientHold \in BOOLEAN /\ outcome \in Outcomes
    /\ baseline \in ForceCounts /\ count \in [Channels -> 0..ConsecutiveSamples]
    /\ hold \in [Channels -> Position \cup {NoHold}]
    /\ latched \in [Channels -> BOOLEAN] /\ closureSeen \in [Channels -> BOOLEAN]
    /\ relief \in BOOLEAN /\ closureSince \in [Channels -> Nat]

\* A channel with a provisional or latched contact always has a finite hold
\* pose, and only such a channel has one: min(requested, nan) in
\* contact_limited_target would let the closure through.
ContactHasHold ==
    \A c \in Channels : ContactHeld(c) <=> hold[c] # NoHold

\* A hand in HOLD is only ever opened: the relief write is the only write that
\* reaches it and it moves no channel towards closing
\* (pop_contact_relief_target and command(contact_relief=True)).
HeldHandOnlyOpens ==
    [][state = "HOLD" /\ state' # "ACTIVE" =>
         \A c \in Channels : lastCommand'[c] <= lastCommand[c]]_controlVars
=============================================================================
