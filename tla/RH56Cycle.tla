------------------------------ MODULE RH56Cycle ------------------------------
(***************************************************************************)
(* RH56PcDirectWorker.run_cycle without its mailbox: the controller of     *)
(* RH56Control under every sequence of cycles, held or active.  A cycle    *)
(* begins by holding the controller and popping the contact-relief target, *)
(* or by activating it from HOLD; it then performs one serial operation.   *)
(* A relief target takes precedence; otherwise an active cycle may command *)
(* and every cycle may poll.  RH56Worker adds the threads and the mailbox. *)
(***************************************************************************)
EXTENDS RH56Control

VARIABLES
    phase,          \* "begin", "operate" or "stopped" (the worker has returned)
    active,         \* the cycle's snapshot of _active_requested
    poppedTarget,   \* contact_relief_values: {} for None, else one pose
    closedSinceForce, \* history: closure written in this engagement since the last FORCE sample
    regrip          \* history: the step just taken moved lastCommand towards the measured pose

historyVars == <<closedSinceForce, regrip>>
turnVars == <<phase, active, poppedTarget>>
cycleVars == <<controlVars, turnVars, historyVars>>

CycleInit ==
    /\ ControlInit
    /\ phase = "begin" /\ active = FALSE /\ poppedTarget = {}
    /\ closedSinceForce = [c \in Channels |-> 0] /\ regrip = FALSE

NoWrite == UNCHANGED closedSinceForce /\ regrip' = FALSE

HoldCycle ==
    /\ phase = "begin" /\ phase' = "operate" /\ active' = FALSE
    /\ HoldAndPopRelief
    /\ poppedTarget' = ReliefPose
    /\ NoWrite

ActiveCycle ==
    /\ phase = "begin" /\ active' = TRUE /\ poppedTarget' = {}
    /\ IF state = "HOLD"
       THEN /\ Activate
            /\ phase' = IF outcome' = "raised" THEN "stopped" ELSE "operate"
       ELSE /\ phase' = "operate" /\ UNCHANGED controlVars
    /\ IF state = "HOLD" /\ state' = "ACTIVE"
       THEN closedSinceForce' = [c \in Channels |-> 0] /\ regrip' = TRUE
       ELSE NoWrite

\* A terminal reason in the snapshot: fault the controller and leave the loop.
TerminalCycle ==
    /\ phase = "begin" /\ phase' = "stopped"
    /\ \E reason \in TerminalReasons : ArmTerminalStop(reason)
    /\ UNCHANGED <<active, poppedTarget>> /\ NoWrite

EndOperation ==
    /\ phase = "operate"
    /\ phase' = IF outcome' = "raised" THEN "stopped" ELSE "begin"
    /\ poppedTarget' = {}
    /\ UNCHANGED active

\* The closure this write adds; the history saturates one past the budget.
Closed ==
    [c \in Channels |->
        Least(ClosureBudget + 1, closedSinceForce[c] + Greatest(0, lastCommand'[c] - lastCommand[c]))]

RelieveContact ==
    /\ \E t \in poppedTarget : Command(t, TRUE, FALSE, TRUE)
    /\ closedSinceForce' = Closed /\ regrip' = FALSE
    /\ EndOperation

\* An ordinary target, or the payload of a measured activation: the worker
\* refreshes it from the latest ANGLE_ACT.  Usually the cycle that writes it has
\* just activated the controller; when the producer has held and re-engaged
\* between two snapshots the controller is still ACTIVE, with the last command,
\* the contacts and the counters of the engagement before.
CommandTarget ==
    /\ active /\ poppedTarget = {}
    /\ \E t \in Pose, forceWrite, measured \in BOOLEAN :
          /\ IF measured THEN t = angle ELSE \A c \in Channels : t[c] <= MaxClose
          /\ Command(t, forceWrite, measured, FALSE)
          /\ regrip' = measured
    /\ closedSinceForce' = Closed
    /\ EndOperation

PollRegister ==
    /\ poppedTarget = {}
    /\ \/ PollForceRegister /\ closedSinceForce' = [c \in Channels |-> 0]
       \/ PollOtherRegister /\ UNCHANGED closedSinceForce
    /\ regrip' = FALSE
    /\ EndOperation

\* No register is due.
Idle ==
    /\ poppedTarget = {}
    /\ UNCHANGED controlVars /\ NoWrite
    /\ phase = "operate" /\ phase' = "begin"
    /\ UNCHANGED <<active, poppedTarget>>

CycleExpires ==
    /\ FeedbackExpires
    /\ UNCHANGED turnVars /\ NoWrite

\* cleanup() once the worker thread has returned.
CleanupAfterStop ==
    /\ phase = "stopped" /\ state # "DISABLED"
    /\ Cleanup
    /\ UNCHANGED turnVars /\ NoWrite

CycleNext ==
    \/ HoldCycle \/ ActiveCycle \/ TerminalCycle
    \/ RelieveContact \/ CommandTarget \/ PollRegister \/ Idle
    \/ CycleExpires \/ CleanupAfterStop

CycleSpec == CycleInit /\ [][CycleNext]_cycleVars

-----------------------------------------------------------------------------
(* Properties *)

CycleTypeOK ==
    /\ ControlTypeOK
    /\ phase \in {"begin", "operate", "stopped"} /\ active \in BOOLEAN
    /\ poppedTarget \in SUBSET Pose
    /\ closedSinceForce \in [Channels -> Nat] /\ regrip \in BOOLEAN

\* The last command follows the measured pose: activation, or the write that
\* re-engages a hand whose hold no snapshot has seen.
FollowsMeasured(c) == regrip' /\ lastCommand'[c] <= angle[c]

\* Under the fresh-force policy a target or a relief write that closes a channel
\* leaves the closure written since the last FORCE sample within the configured
\* budget, however the writes, polls, holds and re-engagements are ordered
\* (command(), the closure budget).  The closure is counted from the poses
\* written, those of measured activations included, not from the controller's
\* own counter; activate() grants a new budget.  A measured activation is
\* outside the budget and never closes the hand past where it is.
ClosureBudgetHolds ==
    [][Governed =>
         \A c \in Channels : lastCommand'[c] > lastCommand[c]
                               => closedSinceForce'[c] <= ClosureBudget \/ FollowsMeasured(c)]_cycleVars

\* While a contact is held on a channel no write closes the channel beyond
\* the hold pose, unless the operator's own opening has released the contact
\* (command() and contact_limited_target); the write that re-engages the hand
\* is not limited and closes it no further than where it is.
ContactCapsClosure ==
    [][ContactStopEnabled =>
         \A c \in Channels : ContactHeld(c) /\ lastCommand'[c] > lastCommand[c]
                               => \/ lastCommand'[c] <= hold[c]
                                  \/ hold'[c] = NoHold
                                  \/ FollowsMeasured(c)]_cycleVars

\* A popped relief target is attempted on the wire in the same cycle, or the
\* controller is faulted: no deferral, rate limit or suppression swallows the
\* one-shot opening after pop_contact_relief_target has consumed it.
ReliefIsAttempted ==
    [][poppedTarget # {} /\ poppedTarget' = {} =>
         outcome' = "serial_write_success" \/ state' = "FAULT"]_cycleVars

\* The contact stop under every order of writes, polls and holds: hold poses
\* and contacts agree, a held contact caps the closure of its channel and the
\* relief of a held hand opens it (contact_limited_target, command).
ContactStopsClosure == []ContactHasHold /\ ContactCapsClosure /\ HeldHandOnlyOpens
=============================================================================
