----------------------------- MODULE RH56Worker -----------------------------
(***************************************************************************)
(* RH56PcDirectWorker (src/rh56_driver/pc_direct_worker.py): the producer  *)
(* thread (the teleoperation loop) and the worker thread that owns the     *)
(* controller of RH56Control, sharing a latest-only mailbox under _lock.   *)
(*                                                                         *)
(* Every producer call is one critical section, hence one action.  The     *)
(* worker's cycle is cut at its own critical sections: the snapshot, the   *)
(* consumption of the force flag, and the serial operation.  cleanup() is  *)
(* cut at its joins.  The worker's wait on _wake is timed, so waking up is *)
(* always possible and a lost wake only delays it.  Whether a command is   *)
(* due is a free choice unless it is forced.  The feedback the worker      *)
(* publishes under _lock is the controller's own snapshot.                 *)
(***************************************************************************)
EXTENDS RH56Control

CONSTANTS
    MaxSequence,        \* bound on the submitted targets
    StaleDropEnabled,   \* diagnostics.stale_command_drop_enabled
    ReadTimeouts        \* whether register reads may time out

ASSUME WorkerAssumption ==
    MaxSequence \in Nat \ {0} /\ StaleDropEnabled \in BOOLEAN /\ ReadTimeouts \in BOOLEAN

VARIABLES
    activeRequested, pendingTarget, forcePending, terminal, submitted,  \* mailbox
    stop, failed, cleaning,                                             \* shutdown
    pc, snap, reliefTarget, writtenSequence, evaluated,                 \* worker thread
    lateWrites                                                          \* history

mailboxVars == <<activeRequested, pendingTarget, forcePending, terminal, submitted>>
shutdownVars == <<stop, failed, cleaning>>
workerVars == <<pc, snap, reliefTarget, writtenSequence, evaluated>>
vars == <<controlVars, mailboxVars, shutdownVars, workerVars, lateWrites>>

\* PendingTarget; the empty set is None.
Target == [seq : 1..MaxSequence, measured : BOOLEAN, values : Pose]
Slot == {{}} \cup {{t} : t \in Target}
Snapshot == [active : BOOLEAN, target : Slot, force : BOOLEAN, terminal : TerminalReasons \cup {NoReason}]

Init ==
    /\ ControlInit
    /\ activeRequested = FALSE /\ pendingTarget = {} /\ forcePending = FALSE
    /\ terminal = NoReason /\ submitted = 0
    /\ stop = FALSE /\ failed = FALSE /\ cleaning = "no"
    /\ pc = "loop" /\ reliefTarget = {} /\ writtenSequence = 0 /\ evaluated = 0
    /\ snap = [active |-> FALSE, target |-> {}, force |-> FALSE, terminal |-> NoReason]
    /\ lateWrites = 0

-----------------------------------------------------------------------------
(* The producer thread *)

ProducerMayCall == cleaning = "no"

\* Called on the grip's press edge, which follows at least one disengaged
\* tick and so a hold() (smooth_session.py).
ActivateFromMeasured ==
    /\ ProducerMayCall /\ ~activeRequested
    /\ ~failed /\ fresh /\ submitted < MaxSequence
    /\ activeRequested' = TRUE /\ submitted' = submitted + 1
    /\ pendingTarget' = {[seq |-> submitted + 1, measured |-> TRUE, values |-> angle]}
    /\ forcePending' = TRUE
    /\ lateWrites' = IF terminal = NoReason THEN 0 ELSE lateWrites
    /\ UNCHANGED <<terminal, controlVars, shutdownVars, workerVars>>

SubmitTarget ==
    /\ ProducerMayCall /\ ~failed /\ terminal = NoReason /\ submitted < MaxSequence
    /\ submitted' = submitted + 1
    /\ \E v \in Pose :
          /\ \A c \in Channels : v[c] <= MaxClose
          /\ pendingTarget' = {[seq |-> submitted + 1, measured |-> FALSE, values |-> v]}
    /\ UNCHANGED <<activeRequested, forcePending, terminal, controlVars, shutdownVars, workerVars, lateWrites>>

\* Mutant: a hold restarts the sequence.
HoldRequest_RestartsSequence ==
    /\ ProducerMayCall
    /\ activeRequested' = FALSE /\ pendingTarget' = {} /\ forcePending' = FALSE /\ submitted' = 0
    /\ UNCHANGED <<terminal, controlVars, shutdownVars, workerVars, lateWrites>>

HoldRequest ==
    /\ ProducerMayCall
    /\ activeRequested' = FALSE /\ pendingTarget' = {} /\ forcePending' = FALSE
    /\ UNCHANGED <<terminal, submitted, controlVars, shutdownVars, workerVars, lateWrites>>

\* Mutant: the latest terminal reason wins.
ArmTerminalStopRequest_LastWins(reason) ==
    /\ ProducerMayCall
    /\ terminal' = reason
    /\ activeRequested' = FALSE /\ pendingTarget' = {} /\ forcePending' = FALSE
    /\ UNCHANGED <<submitted, controlVars, shutdownVars, workerVars, lateWrites>>

ArmTerminalStopRequest(reason) ==
    /\ ProducerMayCall
    /\ terminal' = IF terminal = NoReason THEN reason ELSE terminal
    /\ activeRequested' = FALSE /\ pendingTarget' = {} /\ forcePending' = FALSE
    /\ UNCHANGED <<submitted, controlVars, shutdownVars, workerVars, lateWrites>>

\* cleanup(): signal, join; close the port under a worker that does not end
\* and join again; close the controller once more when the worker has ended.
CleanupBegin ==
    /\ cleaning = "no" /\ cleaning' = "joining" /\ stop' = TRUE
    /\ UNCHANGED <<failed, controlVars, mailboxVars, workerVars, lateWrites>>

CleanupJoined ==
    /\ cleaning \in {"joining", "rejoining"} /\ pc = "done"
    /\ Cleanup /\ cleaning' = "closed"
    /\ UNCHANGED <<stop, failed, mailboxVars, workerVars, lateWrites>>

CleanupJoinTimeout ==
    /\ cleaning = "joining" /\ pc # "done"
    /\ Cleanup /\ cleaning' = "rejoining"
    /\ UNCHANGED <<stop, failed, mailboxVars, workerVars, lateWrites>>

CleanupRejoinTimeout ==
    /\ cleaning = "rejoining" /\ pc # "done" /\ cleaning' = "raised"
    /\ UNCHANGED <<stop, failed, controlVars, mailboxVars, workerVars, lateWrites>>

-----------------------------------------------------------------------------
(* The worker thread *)

GoTo(here, next) == pc = here /\ pc' = next
\* An exception of a controller call leaves run_cycle for _run's handler.
GoToUnlessRaised(here, next) == pc = here /\ pc' = IF outcome' = "raised" THEN "failing" ELSE next

\* Mutant: the loop does not look at _stop.
Loop_IgnoresStop ==
    /\ GoTo("loop", "snapshot")
    /\ UNCHANGED <<controlVars, mailboxVars, shutdownVars, snap, reliefTarget, writtenSequence, evaluated, lateWrites>>

Loop ==
    /\ GoTo("loop", IF stop THEN "done" ELSE "snapshot")
    /\ UNCHANGED <<controlVars, mailboxVars, shutdownVars, snap, reliefTarget, writtenSequence, evaluated, lateWrites>>

TakeSnapshot ==
    /\ GoTo("snapshot", "begin")
    /\ snap' = [active |-> activeRequested, target |-> pendingTarget,
                force |-> forcePending, terminal |-> terminal]
    /\ UNCHANGED <<controlVars, mailboxVars, shutdownVars, reliefTarget, writtenSequence, evaluated, lateWrites>>

BeginTerminal ==
    /\ snap.terminal # NoReason
    /\ GoTo("begin", "done")
    /\ ArmTerminalStop(snap.terminal)
    /\ UNCHANGED <<mailboxVars, shutdownVars, snap, reliefTarget, writtenSequence, evaluated, lateWrites>>

BeginHeld ==
    /\ snap.terminal = NoReason /\ ~snap.active
    /\ GoTo("begin", "choose")
    /\ HoldAndPopRelief
    /\ reliefTarget' = ReliefPose
    /\ UNCHANGED <<mailboxVars, shutdownVars, snap, writtenSequence, evaluated, lateWrites>>

BeginActive ==
    /\ snap.terminal = NoReason /\ snap.active
    /\ IF state = "HOLD"
       THEN Activate /\ GoToUnlessRaised("begin", "choose")
       ELSE UNCHANGED controlVars /\ GoTo("begin", "choose")
    /\ UNCHANGED <<mailboxVars, shutdownVars, snap, reliefTarget, writtenSequence, evaluated, lateWrites>>

\* _target_requires_command.
RequiresCommand(t) ==
    \/ t.seq > evaluated
    \/ /\ ~t.measured /\ t.seq = writtenSequence
       /\ ContactLimitedTarget(t.values, FALSE) # lastCommand

Commandable == snap.active /\ \E t \in snap.target : RequiresCommand(t)

\* The force flag is consumed in a critical section of its own.
ConsumeForce ==
    /\ GoTo("choose", "command")
    /\ reliefTarget = {} /\ Commandable /\ snap.force
    /\ forcePending' = FALSE
    /\ UNCHANGED <<activeRequested, pendingTarget, terminal, submitted, controlVars, shutdownVars,
                   snap, reliefTarget, writtenSequence, evaluated, lateWrites>>

CommandDue == pc = "command" \/ (pc = "choose" /\ ~snap.force)

DropStaleTarget ==
    /\ StaleDropEnabled /\ pc = "choose" /\ ~snap.force /\ reliefTarget = {} /\ Commandable
    /\ pc' = "loop"
    /\ \E t \in snap.target : evaluated' = t.seq
    /\ UNCHANGED <<controlVars, mailboxVars, shutdownVars, snap, reliefTarget, writtenSequence, lateWrites>>

\* The payload of a measured activation is refreshed from the latest feedback.
IssueCommand ==
    /\ CommandDue /\ reliefTarget = {} /\ Commandable
    /\ \E t \in snap.target :
          /\ Command(IF t.measured THEN angle ELSE t.values, snap.force, t.measured, FALSE)
          /\ writtenSequence' = IF outcome' = "serial_write_success" THEN t.seq ELSE writtenSequence
          /\ evaluated' = IF outcome' \in {"serial_write_success", "exact_duplicate_suppressed"}
                          THEN t.seq ELSE evaluated
    /\ lateWrites' = IF outcome' = "serial_write_success" /\ (~activeRequested \/ terminal # NoReason)
                     THEN lateWrites + 1 ELSE lateWrites
    /\ pc' = IF outcome' = "raised" THEN "failing" ELSE "loop"
    /\ UNCHANGED <<mailboxVars, shutdownVars, snap, reliefTarget>>

IssueRelief ==
    /\ \E t \in reliefTarget : Command(t, TRUE, FALSE, TRUE)
    /\ GoToUnlessRaised("choose", "loop")
    /\ reliefTarget' = {}
    /\ UNCHANGED <<mailboxVars, shutdownVars, snap, writtenSequence, evaluated, lateWrites>>

\* No command is due: start the read of one register, or find none due.
StartRead ==
    /\ reliefTarget = {} /\ ~(Commandable /\ snap.force)
    /\ \E next \in {"reading", "loop"} : GoTo("choose", next)
    /\ UNCHANGED <<controlVars, mailboxVars, shutdownVars, snap, reliefTarget, writtenSequence, evaluated, lateWrites>>

EndRead ==
    /\ PollForceRegister \/ PollOtherRegister
    /\ ReadTimeouts \/ outcome' # "feedback_timeout_hold"
    /\ GoToUnlessRaised("reading", "loop")
    /\ UNCHANGED <<mailboxVars, shutdownVars, snap, reliefTarget, writtenSequence, evaluated, lateWrites>>

\* The handler of _run.
Fail ==
    /\ GoTo("failing", "done")
    /\ failed' = TRUE
    /\ IF faultReason = NoReason THEN Fault("pc_direct_worker_failure") ELSE UNCHANGED lifeVars
    /\ UNCHANGED <<feedbackVars, commandVars, contactVars, outcome, mailboxVars, stop, cleaning,
                   snap, reliefTarget, writtenSequence, evaluated, lateWrites>>

Expire ==
    /\ FeedbackExpires
    /\ UNCHANGED <<mailboxVars, shutdownVars, workerVars, lateWrites>>

Producer ==
    \/ ActivateFromMeasured \/ SubmitTarget \/ HoldRequest
    \/ \E reason \in TerminalReasons : ArmTerminalStopRequest(reason)
CleanupStep == CleanupBegin \/ CleanupJoined \/ CleanupJoinTimeout \/ CleanupRejoinTimeout
ReadStep == EndRead
WorkerStep ==
    \/ Loop \/ TakeSnapshot \/ BeginTerminal \/ BeginHeld \/ BeginActive
    \/ ConsumeForce \/ DropStaleTarget \/ IssueCommand \/ IssueRelief \/ StartRead \/ Fail

Next == Producer \/ CleanupStep \/ WorkerStep \/ ReadStep \/ Expire

\* The worker thread is scheduled, and a serial read returns because it has a
\* timeout of its own; cleanup() runs on once it has been called.
Fairness ==
    /\ WF_vars(WorkerStep \/ ReadStep)
    /\ WF_vars(CleanupJoined \/ CleanupRejoinTimeout)

Spec == Init /\ [][Next]_vars /\ Fairness

-----------------------------------------------------------------------------
(* Properties *)

TypeOK ==
    /\ ControlTypeOK
    /\ activeRequested \in BOOLEAN /\ pendingTarget \in Slot /\ forcePending \in BOOLEAN
    /\ terminal \in TerminalReasons \cup {NoReason} /\ submitted \in 0..MaxSequence
    /\ stop \in BOOLEAN /\ failed \in BOOLEAN
    /\ cleaning \in {"no", "joining", "rejoining", "raised", "closed"}
    /\ pc \in {"loop", "snapshot", "begin", "choose", "command", "reading", "failing", "done"}
    /\ snap \in Snapshot /\ reliefTarget \in SUBSET Pose
    /\ writtenSequence \in 0..MaxSequence /\ evaluated \in 0..MaxSequence
    /\ lateWrites \in Nat

\* Once hold() or arm_terminal_stop() has returned, at most the one target
\* that the worker had already taken from the mailbox still reaches the hand;
\* an activate_from_measured() after a terminal stop does not reopen it.
AtMostOneLateWrite == lateWrites <= 1

\* The hand never moves back to an older target: a successful write carries a
\* sequence at least as new as every earlier one, and never one that was not
\* submitted (written_sequence, the latest-only mailbox).
WritesNeverGoBack ==
    [][writtenSequence' >= writtenSequence /\ writtenSequence' <= submitted']_vars

\* A controller stopped by the arm reports the first reason that was armed,
\* unless a fault of its own came first (arm_terminal_stop, _fault).
TerminalReasonIsOwned ==
    [][terminal # NoReason /\ faultReason = NoReason /\ faultReason' \in TerminalReasons
         => faultReason' = terminal]_vars

\* When cleanup() has returned normally the worker has ended, the port is
\* closed and the controller is disabled, although the worker may have
\* re-opened the state between the two closes.
CleanupIsFinal ==
    cleaning = "closed" => pc = "done" /\ port = "closed" /\ state = "DISABLED"

\* A terminal stop ends the worker and leaves the hand out of its reach, the
\* controller faulted or the port closed, whatever the producer does next.
TerminalStopTookEffect ==
    terminal # NoReason => pc = "done" /\ (state = "FAULT" \/ port = "closed")

\* cleanup() has returned: it has closed the controller or reported that the
\* worker did not stop.
CleanupReturned == stop => cleaning \in {"closed", "raised"}

\* What the producer tells the hand is what the hand does, up to the one
\* target already taken: no second late write, no older target, and a held
\* hand is opened only (submit_target, hold, and the worker's replay).
HandObeysProducer ==
    []AtMostOneLateWrite /\ WritesNeverGoBack /\ HeldHandOnlyOpens

\* The end of the worker belongs to whoever asked first, and it is an end:
\* the first armed reason is reported and nothing runs after cleanup().
ShutdownIsFinal == []CleanupIsFinal /\ TerminalReasonIsOwned

\* A terminal stop ends the worker and a cleanup returns, whatever read,
\* write, wait or failure they meet it in (arm_terminal_stop, cleanup).  Both
\* are requested once and stay settled, so "always eventually" says that every
\* request is answered.
WorkerEnds == []<>(TerminalStopTookEffect /\ CleanupReturned)

\* "It must be written exactly once ... Deferring it would consume the worker's
\* one-shot force flag" (pc_direct_control.py, command()): a forced measured
\* activation is never deferred by an active controller.
ActivationIsNotDeferred ==
    [][pc = "command" /\ state = "ACTIVE" /\ (\E t \in snap.target : t.measured)
         => outcome' # "feedback_timeout_hold" \/ pc' = pc]_vars

\* "Replaying it without the activation force flag is a safety error"
\* (pc_direct_worker.py, _target_requires_command): the worker never commands
\* a measured activation without the force flag.
ActivationKeepsForce ==
    \A t \in snap.target :
        pc = "choose" /\ snap.active /\ t.measured /\ RequiresCommand(t) => snap.force

\* "Refresh the activation payload from the worker-owned latest ANGLE_ACT
\* immediately before the write so continuity is exact at the serial boundary"
\* (pc_direct_worker.py, run_cycle): a measured activation that is written
\* leaves the hand commanded to where it is.
ActivationIsExact ==
    [][outcome' = "serial_write_success" /\ pc = "command" /\ pc' # pc /\ (\E t \in snap.target : t.measured)
         => lastCommand' = angle]_vars
=============================================================================
