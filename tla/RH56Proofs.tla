------------------------------ MODULE RH56Proofs ------------------------------
(***************************************************************************)
(* Safety of the RH56 hand for every number of channels, every grid, every *)
(* force range, every contact policy the constructor accepts and every set *)
(* of stop reasons.  First, what every operation of the controller         *)
(* preserves, whoever calls it: the types, and the agreement of the        *)
(* contact counters with the hold poses.  Then the two specifications that *)
(* use the controller: RH56Cycle, and RH56Worker with its threads.         *)
(***************************************************************************)
EXTENDS RH56Cycle, RH56Worker, TLAPS

\* A channel that is not latched has counted fewer samples than latch it.
CountBelowLatch == \A c \in Channels : latched[c] \/ count[c] < ConsecutiveSamples

ControlInv == ControlTypeOK /\ ContactHasHold /\ CountBelowLatch

\* A new contact episode satisfies the agreement.
LEMMA FreshContacts ==
  /\ count = [c \in Channels |-> 0] /\ hold = [c \in Channels |-> NoHold]
  /\ latched = [c \in Channels |-> FALSE]
  => /\ ContactHasHold /\ CountBelowLatch
     /\ count \in [Channels -> 0..ConsecutiveSamples]
     /\ hold \in [Channels -> Position \cup {NoHold}]
     /\ latched \in [Channels -> BOOLEAN]
  <1> USE ContactPolicyAssumption
  <1> DEFINE Fresh == /\ count = [c \in Channels |-> 0] /\ hold = [c \in Channels |-> NoHold]
                      /\ latched = [c \in Channels |-> FALSE]
  <1>1. Fresh => \A c \in Channels : count[c] = 0 /\ hold[c] = NoHold /\ ~latched[c]
    BY Zenon
  <1>2. Fresh => latched \in [Channels -> BOOLEAN]
    BY Zenon
  <1>3. Fresh => /\ count \in [Channels -> 0..ConsecutiveSamples]
                 /\ hold \in [Channels -> Position \cup {NoHold}]
    BY SMT
  <1> HIDE DEF Fresh
  <1>4. Fresh => ContactHasHold /\ CountBelowLatch
    BY <1>1 DEF ContactHasHold, ContactHeld, CountBelowLatch
  <1> QED BY <1>2, <1>3, <1>4 DEF Fresh

\* The state start() leaves satisfies the invariant.
LEMMA InitControl == ControlInit => ControlInv
  <1> SUFFICES ASSUME ControlInit PROVE ControlInv
    OBVIOUS
  <1>1. /\ ContactHasHold /\ CountBelowLatch
        /\ count \in [Channels -> 0..ConsecutiveSamples]
        /\ hold \in [Channels -> Position \cup {NoHold}]
        /\ latched \in [Channels -> BOOLEAN]
    BY FreshContacts DEF ControlInit
  <1>2. closureSeen \in [Channels -> BOOLEAN]
    BY Zenon DEF ControlInit
  <1>3. progress \in [Channels -> Int] /\ closureSince \in [Channels -> Nat]
    BY SMT DEF ControlInit
  <1> QED BY <1>1, <1>2, <1>3 DEF ControlInit, ControlInv, ControlTypeOK, Outcomes

\* Operations that touch no contact state keep the agreement.
LEMMA SameContacts ==
  ASSUME ContactHasHold, CountBelowLatch, UNCHANGED <<count, hold, latched>>
  PROVE  ContactHasHold' /\ CountBelowLatch'
  BY DEF ContactHasHold, CountBelowLatch, ContactHeld

\* hold(), arm_terminal_stop(), cleanup(), the passage of time and the worker's
\* transport_fault() preserve the invariant.
LEMMA LifecycleControl ==
  ASSUME ControlInv,
         \/ HoldAndPopRelief
         \/ \E reason \in TerminalReasons : ArmTerminalStop(reason)
         \/ Cleanup
         \/ FeedbackExpires
  PROVE  ControlInv'
  <1>1. CASE HoldAndPopRelief
    BY <1>1, SameContacts DEF ControlInv, ControlTypeOK, HoldAndPopRelief, Hold, feedbackVars, commandVars
  <1>2. CASE \E reason \in TerminalReasons : ArmTerminalStop(reason)
    BY <1>2, SameContacts DEF ControlInv, ControlTypeOK, ArmTerminalStop, Fault, feedbackVars, commandVars,
       contactVars, FaultReasons, Outcomes
  <1>3. CASE Cleanup
    BY <1>3, SameContacts DEF ControlInv, ControlTypeOK, Cleanup, feedbackVars, commandVars, contactVars, Outcomes
  <1>4. CASE FeedbackExpires
    BY <1>4, SameContacts, ZenonT(60) DEF ControlInv, ControlTypeOK, FeedbackExpires, lifeVars, commandVars, contactVars
  <1> QED BY <1>1, <1>2, <1>3, <1>4

\* activate() opens a new contact episode in which the invariant holds.
LEMMA ActivateControl ==
  ASSUME ControlInv, Activate
  PROVE  ControlInv'
  <1> USE ContactPolicyAssumption
  <1>1. CASE ~fresh
    BY <1>1, SameContacts DEF ControlInv, ControlTypeOK, Activate, Fault, feedbackVars, commandVars,
       contactVars, FaultReasons, ControllerReasons, Outcomes
  <1>2. CASE fresh /\ state = "FAULT"
    BY <1>2, SameContacts DEF ControlInv, ControlTypeOK, Activate, lifeVars, feedbackVars, commandVars,
       contactVars, Outcomes
  <1>3. CASE fresh /\ state # "FAULT"
    <2>0. /\ lastCommand' = angle /\ lastRequested' = angle /\ requestedKnown' = TRUE
          /\ ResetContactStop
          /\ state' = "ACTIVE" /\ forceNext' = TRUE /\ outcome' = "done"
          /\ UNCHANGED <<faultReason, port, angle, force, fresh, transientHold>>
      BY <1>3 DEF Activate
    <2>1. /\ count' = [c \in Channels |-> 0] /\ hold' = [c \in Channels |-> NoHold]
          /\ latched' = [c \in Channels |-> FALSE] /\ closureSeen' = [c \in Channels |-> FALSE]
          /\ progress' = [c \in Channels |-> 0] /\ closureSince' = [c \in Channels |-> 0]
          /\ baseline' = force /\ angleNew' = FALSE /\ relief' = FALSE
      BY <2>0 DEF ResetContactStop
    <2>2. /\ ContactHasHold' /\ CountBelowLatch'
          /\ count' \in [Channels -> 0..ConsecutiveSamples]
          /\ hold' \in [Channels -> Position \cup {NoHold}]
          /\ latched' \in [Channels -> BOOLEAN]
      <3>1. \A c \in Channels : count'[c] = 0 /\ hold'[c] = NoHold /\ ~latched'[c]
        BY <2>1, Zenon
      <3>2. latched' \in [Channels -> BOOLEAN]
        BY <2>1, Zenon
      <3>3. count' \in [Channels -> 0..ConsecutiveSamples] /\ hold' \in [Channels -> Position \cup {NoHold}]
        BY <2>1, SMT
      <3>4. ContactHasHold' /\ CountBelowLatch'
        BY <3>1 DEF ContactHasHold, ContactHeld, CountBelowLatch
      <3> QED BY <3>2, <3>3, <3>4
    <2>3. closureSeen' \in [Channels -> BOOLEAN]
      BY <2>1, Zenon
    <2>4. progress' \in [Channels -> Int] /\ closureSince' \in [Channels -> Nat]
      BY <2>1, SMT
    <2> QED BY <2>0, <2>1, <2>2, <2>3, <2>4 DEF ControlInv, ControlTypeOK, Outcomes
  <1> QED BY <1>1, <1>2, <1>3

\* A judged FORCE sample keeps counters, latches and hold poses in agreement:
\* a channel that gains or keeps a contact has a hold pose inside the range.
LEMMA JudgedForceControl ==
  ASSUME ControlInv, NEW f \in ForceCounts, JudgeForce(f)
  PROVE  /\ ContactHasHold' /\ CountBelowLatch'
         /\ count' \in [Channels -> 0..ConsecutiveSamples]
         /\ hold' \in [Channels -> Position \cup {NoHold}]
         /\ latched' \in [Channels -> BOOLEAN]
         /\ relief' \in BOOLEAN
  <1> USE ContactPolicyAssumption
  <1>1. ASSUME NEW c \in Channels
        PROVE  /\ count'[c] \in 0..ConsecutiveSamples
               /\ hold'[c] \in Position \cup {NoHold}
               /\ (latched'[c] \/ count'[c] > 0) <=> hold'[c] # NoHold
               /\ latched'[c] \/ count'[c] < ConsecutiveSamples
    <2>1. /\ count[c] \in 0..ConsecutiveSamples /\ hold[c] \in Position \cup {NoHold}
          /\ lastCommand[c] \in Position /\ angle[c] \in Position
          /\ (latched[c] \/ count[c] > 0) <=> hold[c] # NoHold
          /\ latched[c] \/ count[c] < ConsecutiveSamples
      BY DEF ControlInv, ControlTypeOK, ContactHasHold, ContactHeld, CountBelowLatch, Pose
    <2>2. /\ count'[c] = IF latched[c] THEN count[c] ELSE IF Qualified(c, f) THEN count[c] + 1 ELSE 0
          /\ hold'[c] = IF Quiet(c, f) THEN NoHold
                        ELSE IF Qualified(c, f) /\ count[c] = 0
                             THEN Greatest(0, Least(lastCommand[c], angle[c]) - ReliefMargin)
                             ELSE hold[c]
          /\ latched'[c] <=> (latched[c] \/ (Qualified(c, f) /\ count[c] + 1 >= ConsecutiveSamples))
      BY Zenon DEF JudgeForce
    <2>3. Greatest(0, Least(lastCommand[c], angle[c]) - ReliefMargin) \in Position
      BY <2>1 DEF Greatest, Least, Position
    <2>4. CASE latched[c]
      BY <2>1, <2>2, <2>4 DEF Quiet, Qualified, NoHold
    <2>5. CASE ~latched[c] /\ Qualified(c, f)
      BY <2>1, <2>2, <2>3, <2>5 DEF Quiet, NoHold, Position
    <2>6. CASE ~latched[c] /\ ~Qualified(c, f)
      BY <2>1, <2>2, <2>6 DEF Quiet, NoHold
    <2> QED BY <2>4, <2>5, <2>6
  <1>2. count' \in [Channels -> 0..ConsecutiveSamples]
    BY <1>1 DEF JudgeForce
  <1>3. hold' \in [Channels -> Position \cup {NoHold}]
    BY <1>1 DEF JudgeForce
  <1>4. latched' \in [Channels -> BOOLEAN]
    BY Zenon DEF JudgeForce, ControlInv, ControlTypeOK
  <1>5. ContactHasHold' /\ CountBelowLatch'
    BY <1>1 DEF ContactHasHold, ContactHeld, CountBelowLatch
  <1>6. relief' \in BOOLEAN
    BY Zenon DEF JudgeForce, ControlInv, ControlTypeOK
  <1> QED BY <1>2, <1>3, <1>4, <1>5, <1>6

\* Every way a register poll ends preserves the invariant.
LEMMA PollControl ==
  ASSUME ControlInv, PollForceRegister \/ PollOtherRegister
  PROVE  ControlInv'
  <1>1. CASE PollForceRegister
    <2>1. PICK f \in ForceCounts : PollForce(f)
      BY <1>1 DEF PollForceRegister
    <2>2. closureSince' \in [Channels -> Nat]
      BY <2>1 DEF PollForce, ObserveContactForce
    <2>3. CASE JudgeForce(f)
      <3>1. baseline' \in ForceCounts /\ angleNew' = FALSE
        BY <2>3 DEF JudgeForce
      <3> QED BY <2>1, <2>2, <2>3, <3>1, JudgedForceControl
          DEF ControlInv, ControlTypeOK, PollForce, lifeVars, Outcomes
    <2>4. CASE UNCHANGED <<baseline, count, hold, latched, relief, angleNew>>
      BY <2>1, <2>2, <2>4, SameContacts DEF ControlInv, ControlTypeOK, PollForce, lifeVars, Outcomes
    <2> QED BY <2>1, <2>3, <2>4 DEF PollForce, ObserveContactForce
  <1>2. CASE PollOtherRegister
    <2>1. ASSUME NEW a \in Pose, PollAngle(a) PROVE ControlInv'
      <3>1. progress' \in [Channels -> Int]
        BY <2>1 DEF PollAngle, ControlInv, ControlTypeOK, Pose, Position
      <3> QED BY <2>1, <3>1, SameContacts
          DEF ControlInv, ControlTypeOK, PollAngle, lifeVars, contactVars, Outcomes
    <2>2. CASE PollClosed \/ PollOther \/ PollTimeout
      BY <2>2, SameContacts, ZenonT(60) DEF ControlInv, ControlTypeOK, PollClosed, PollOther, PollTimeout, lifeVars,
         feedbackVars, commandVars, contactVars, Outcomes
    <2>3. CASE PollFails
      BY <2>3, SameContacts DEF ControlInv, ControlTypeOK, PollFails, Fault, feedbackVars, contactVars,
         FaultReasons, ControllerReasons, Outcomes
    <2> QED BY <1>2, <2>1, <2>2, <2>3 DEF PollOtherRegister
  <1> QED BY <1>1, <1>2

\* The contact stage never leaves the normalised range.
LEMMA StageInRange ==
  ASSUME ControlInv, NEW t \in Pose, NEW measured \in BOOLEAN
  PROVE  ContactStage(t, measured) \in Pose
  <1> USE ContactPolicyAssumption
  <1>1. ContactLimitedTarget(t, TRUE) \in Pose
    <2>1. ASSUME NEW c \in Channels, ContactHeld(c) PROVE Least(t[c], hold[c]) \in Position
      <3>1. hold[c] \in Position
        BY <2>1 DEF ControlInv, ControlTypeOK, ContactHasHold
      <3> QED BY <3>1 DEF Least, Pose
    <2> QED BY <2>1 DEF ContactLimitedTarget, Pose
  <1>2. ASSUME NEW u \in Pose PROVE BudgetedTarget(u) \in Pose
    <2>1. ASSUME NEW c \in Channels, u[c] > lastCommand[c]
          PROVE  Least(u[c], lastCommand[c] + Greatest(0, ClosureBudget - closureSince[c])) \in Position
      <3>1. u[c] \in Position /\ lastCommand[c] \in Position /\ closureSince[c] \in Nat
        BY DEF ControlInv, ControlTypeOK, Pose
      <3> QED BY <2>1, <3>1 DEF Least, Greatest, Position
    <2> QED BY <2>1 DEF BudgetedTarget, Pose
  <1> QED BY <1>1, <1>2 DEF ContactStage

\* One write moves each channel from the last command towards the staged pose
\* and never past it.
LEMMA SelectedBetween ==
  ASSUME ControlInv, NEW t \in Pose, NEW measured \in BOOLEAN, NEW c \in Channels
  PROVE  LET goal == ContactStage(t, measured)[c] IN
         /\ goal >= lastCommand[c] => Selected(t, measured)[c] \in lastCommand[c]..goal
         /\ goal <= lastCommand[c] => Selected(t, measured)[c] \in goal..lastCommand[c]
  <1> USE ContactPolicyAssumption
  <1> DEFINE goal == ContactStage(t, measured)[c]
  <1>1. goal \in Position /\ lastCommand[c] \in Position
    BY StageInRange DEF ControlInv, ControlTypeOK, Pose
  <1>2. Selected(t, measured)[c] = lastCommand[c] + SelectedStep(goal - lastCommand[c], measured)
    BY Zenon DEF Selected
  <1> HIDE DEF goal
  <1>3. /\ goal >= lastCommand[c] =>
              /\ SelectedStep(goal - lastCommand[c], measured) \in Int
              /\ SelectedStep(goal - lastCommand[c], measured) >= 0
              /\ SelectedStep(goal - lastCommand[c], measured) <= goal - lastCommand[c]
        /\ goal <= lastCommand[c] =>
              /\ SelectedStep(goal - lastCommand[c], measured) \in Int
              /\ SelectedStep(goal - lastCommand[c], measured) <= 0
              /\ SelectedStep(goal - lastCommand[c], measured) >= goal - lastCommand[c]
    BY <1>1 DEF SelectedStep, Least, Greatest, Position
  <1>4. /\ goal >= lastCommand[c] => Selected(t, measured)[c] \in lastCommand[c]..goal
        /\ goal <= lastCommand[c] => Selected(t, measured)[c] \in goal..lastCommand[c]
    BY <1>1, <1>2, <1>3 DEF Position
  <1> QED BY <1>4 DEF goal

LEMMA SelectedInRange ==
  ASSUME ControlInv, NEW t \in Pose, NEW measured \in BOOLEAN
  PROVE  Selected(t, measured) \in Pose
  <1>1. ASSUME NEW c \in Channels PROVE Selected(t, measured)[c] \in Position
    <2>1. ContactStage(t, measured)[c] \in Position /\ lastCommand[c] \in Position
      BY StageInRange DEF ControlInv, ControlTypeOK, Pose
    <2> QED BY <2>1, SelectedBetween, ContactPolicyAssumption DEF Position
  <1> QED BY <1>1 DEF Selected, Pose

\* Releasing contacts clears counter, latch and hold pose together.
LEMMA ReleaseControl ==
  ASSUME ControlInv, NEW t \in Pose, NEW measured \in BOOLEAN, ReleaseContacts(t, measured)
  PROVE  /\ ContactHasHold' /\ CountBelowLatch'
         /\ count' \in [Channels -> 0..ConsecutiveSamples]
         /\ hold' \in [Channels -> Position \cup {NoHold}]
         /\ latched' \in [Channels -> BOOLEAN]
         /\ lastRequested' \in Pose /\ requestedKnown' \in BOOLEAN
         /\ baseline' \in ForceCounts /\ relief' \in BOOLEAN
  <1> USE ContactPolicyAssumption
  <1> DEFINE freed == Freed(t, measured)
  <1>1. /\ count' = [c \in Channels |-> IF c \in freed THEN 0 ELSE count[c]]
        /\ hold' = [c \in Channels |-> IF c \in freed THEN NoHold ELSE hold[c]]
        /\ latched' = [c \in Channels |-> latched[c] /\ c \notin freed]
        /\ lastRequested' = t /\ requestedKnown' = TRUE
        /\ UNCHANGED <<baseline, relief>>
    BY DEF ReleaseContacts
  <1> HIDE DEF freed
  <1>2. latched' \in [Channels -> BOOLEAN]
    BY <1>1, Zenon DEF ControlInv, ControlTypeOK
  <1>3. \A c \in Channels : latched'[c] <=> (latched[c] /\ c \notin freed)
    BY <1>1, Zenon
  <1>4. /\ count' \in [Channels -> 0..ConsecutiveSamples]
        /\ hold' \in [Channels -> Position \cup {NoHold}]
        /\ \A c \in Channels : /\ count'[c] = IF c \in freed THEN 0 ELSE count[c]
                               /\ hold'[c] = IF c \in freed THEN NoHold ELSE hold[c]
    BY <1>1 DEF ControlInv, ControlTypeOK
  <1>5. ContactHasHold' /\ CountBelowLatch'
    <2>1. ASSUME NEW c \in Channels
          PROVE  /\ (latched'[c] \/ count'[c] > 0) <=> hold'[c] # NoHold
                 /\ latched'[c] \/ count'[c] < ConsecutiveSamples
      <3>1. /\ (latched[c] \/ count[c] > 0) <=> hold[c] # NoHold
            /\ latched[c] \/ count[c] < ConsecutiveSamples
        BY DEF ControlInv, ContactHasHold, ContactHeld, CountBelowLatch
      <3> QED BY <3>1, <1>3, <1>4 DEF NoHold
    <2> QED BY <2>1 DEF ContactHasHold, ContactHeld, CountBelowLatch
  <1> QED BY <1>1, <1>2, <1>4, <1>5 DEF ControlInv, ControlTypeOK

\* A channel that a command does not release keeps the mark of its closure.
LEMMA StillClosingType ==
  ASSUME ControlInv, NEW t \in Pose, NEW measured \in BOOLEAN
  PROVE  StillClosing(t, measured) \in [Channels -> BOOLEAN]
  BY Zenon DEF StillClosing, ControlInv, ControlTypeOK

\* Every way command() ends preserves the invariant.
LEMMA CommandControl ==
  ASSUME ControlInv, NEW t \in Pose, NEW forceWrite \in BOOLEAN, NEW measured \in BOOLEAN,
         NEW isRelief \in BOOLEAN, Command(t, forceWrite, measured, isRelief)
  PROVE  ControlInv'
  <1>1. CASE \/ CommandInactive(isRelief) \/ CommandRateLimited(isRelief, forceWrite)
             \/ CommandInvalid(t, forceWrite, measured, isRelief)
    BY <1>1, SameContacts DEF ControlInv, ControlTypeOK, CommandInactive, CommandRateLimited, CommandInvalid,
       lifeVars, feedbackVars, commandVars, contactVars, Outcomes
  <1>2. CASE CommandStale(isRelief)
    BY <1>2, SameContacts DEF ControlInv, ControlTypeOK, CommandStale, Fault, feedbackVars, commandVars,
       contactVars, FaultReasons, ControllerReasons, Outcomes
  <1>3. CASE CommandDeferred(isRelief)
    BY <1>3, SameContacts DEF ControlInv, ControlTypeOK, CommandDeferred, lifeVars, feedbackVars, contactVars, Outcomes
  <1>4. CASE CommandWaits(t, forceWrite, measured, isRelief)
    <2>1. ReleaseContacts(t, measured) /\ closureSeen' = StillClosing(t, measured)
      BY <1>4 DEF CommandWaits
    <2>2. /\ outcome' \in Outcomes
          /\ UNCHANGED <<lifeVars, feedbackVars, lastCommand, forceNext, transientHold, closureSince>>
      BY <1>4 DEF CommandWaits, Outcomes
    <2> QED BY <2>1, <2>2, ReleaseControl, StillClosingType, ZenonT(60)
        DEF ControlInv, ControlTypeOK, lifeVars, feedbackVars
  <1>5. CASE CommandWrites(t, forceWrite, measured, isRelief)
    <2>1. /\ ReleaseContacts(t, measured) /\ forceNext' = FALSE
          /\ UNCHANGED <<feedbackVars, transientHold>>
      BY <1>5 DEF CommandWrites
    <2>2. CASE LET sel == Selected(t, measured) IN
               /\ port = "open"
               /\ lastCommand' = sel /\ outcome' = "serial_write_success"
               /\ closureSince' = [c \in Channels |->
                     Least(ClosureBudget + 1, closureSince[c] + ClosureOf(sel[c] - lastCommand[c]))]
               /\ closureSeen' = [c \in Channels |-> sel[c] > lastCommand[c] \/ StillClosing(t, measured)[c]]
               /\ UNCHANGED lifeVars
      <3>1. lastCommand' \in Pose
        BY <2>2, SelectedInRange
      <3>2. closureSince' \in [Channels -> Nat]
        <4> DEFINE sel == Selected(t, measured)
        <4>1. \A c \in Channels : sel[c] - lastCommand[c] \in Int /\ closureSince[c] \in Nat
          BY SelectedInRange DEF ControlInv, ControlTypeOK, Pose, Position
        <4>2. closureSince' = [c \in Channels |->
                 Least(ClosureBudget + 1, closureSince[c] + ClosureOf(sel[c] - lastCommand[c]))]
          BY <2>2
        <4> HIDE DEF sel
        <4> QED BY <4>1, <4>2, ContactPolicyAssumption DEF ClosureOf, Greatest, Least
      <3>3. closureSeen' \in [Channels -> BOOLEAN]
        BY <2>2, Zenon
      <3>4. outcome' \in Outcomes /\ UNCHANGED lifeVars
        BY <2>2 DEF Outcomes
      <3> QED BY <2>1, <3>1, <3>2, <3>3, <3>4, ReleaseControl DEF ControlInv, ControlTypeOK, lifeVars, feedbackVars
    <2>3. CASE /\ \E reason \in {"serial_command_failure", "serial_command_rejected"} : Fault(reason)
               /\ outcome' = "raised"
               /\ closureSeen' = StillClosing(t, measured)
               /\ UNCHANGED <<lastCommand, closureSince>>
      BY <2>1, <2>3, ReleaseControl, StillClosingType
         DEF ControlInv, ControlTypeOK, Fault, FaultReasons, ControllerReasons, feedbackVars, Outcomes
    <2> QED BY <1>5, <2>2, <2>3 DEF CommandWrites
  <1> QED BY <1>1, <1>2, <1>3, <1>4, <1>5 DEF Command

\* The pose that pop_contact_relief_target returns opens.
LEMMA ReliefPoseOpens ==
  ASSUME ControlInv
  PROVE  /\ ReliefPose \in SUBSET Pose
         /\ \A t \in ReliefPose : \A c \in Channels : t[c] <= lastCommand[c]
         /\ ReliefPose # {} => relief /\ state # "FAULT"
  <1> USE ContactPolicyAssumption
  <1> DEFINE pose == [c \in Channels |->
                        IF ContactHeld(c) /\ hold[c] # NoHold
                        THEN Least(lastCommand[c], Greatest(0, hold[c]))
                        ELSE lastCommand[c]]
  <1>1. ASSUME NEW c \in Channels
        PROVE  pose[c] \in Position /\ pose[c] <= lastCommand[c]
    <2>1. lastCommand[c] \in Position /\ hold[c] \in Position \cup {NoHold}
      BY DEF ControlInv, ControlTypeOK, Pose
    <2> QED BY <2>1 DEF Least, Greatest, Position
  <1>2. pose \in Pose
    BY <1>1 DEF Pose
  <1>3. ReliefPose \in {{pose}, {}} /\ (ReliefPose # {} => relief /\ state # "FAULT")
    BY Zenon DEF ReliefPose
  <1> HIDE DEF pose
  <1> QED BY <1>1, <1>2, <1>3

\* A step of the pose is a step of Selected or leaves the pose alone.
LEMMA CommandMoves ==
  ASSUME NEW t \in Pose, NEW forceWrite \in BOOLEAN, NEW measured \in BOOLEAN,
         NEW isRelief \in BOOLEAN, Command(t, forceWrite, measured, isRelief)
  PROVE  \/ UNCHANGED <<lastCommand, closureSince>>
         \/ /\ Ready(isRelief)
            /\ ReleaseContacts(t, measured)
            /\ lastCommand' = Selected(t, measured)
            /\ closureSince' = [c \in Channels |->
                  Least(ClosureBudget + 1,
                        closureSince[c] + ClosureOf(Selected(t, measured)[c] - lastCommand[c]))]
  <1>1. CASE \/ CommandInactive(isRelief) \/ CommandRateLimited(isRelief, forceWrite)
             \/ CommandInvalid(t, forceWrite, measured, isRelief) \/ CommandStale(isRelief)
             \/ CommandDeferred(isRelief) \/ CommandWaits(t, forceWrite, measured, isRelief)
    BY <1>1 DEF CommandInactive, CommandRateLimited, CommandInvalid, CommandStale, CommandDeferred,
       CommandWaits, commandVars, contactVars
  <1>2. CASE CommandWrites(t, forceWrite, measured, isRelief)
    BY <1>2, Zenon DEF CommandWrites
  <1> QED BY <1>1, <1>2 DEF Command

\* No command raises the relief flag, wakes a held hand or defers what follows.
LEMMA CommandQuiet ==
  ASSUME NEW t \in Pose, NEW forceWrite \in BOOLEAN, NEW measured \in BOOLEAN,
         NEW isRelief \in BOOLEAN, Command(t, forceWrite, measured, isRelief)
  PROVE  /\ UNCHANGED relief /\ (state' = state \/ state' = "FAULT")
         /\ transientHold' = transientHold \/ transientHold' = FALSE
  BY Zenon DEF Command, CommandInactive, CommandRateLimited, CommandInvalid, CommandStale, CommandDeferred,
     CommandWaits, CommandWrites, ReleaseContacts, Fault, commandVars, contactVars, lifeVars

\* A limited pose is nowhere above its target.
LEMMA LimitedOpens ==
  ASSUME ControlInv, NEW t \in Pose, NEW allowRelease \in BOOLEAN, NEW c \in Channels,
         t[c] <= lastCommand[c]
  PROVE  /\ ContactLimitedTarget(t, allowRelease)[c] \in Int
         /\ ContactLimitedTarget(t, allowRelease)[c] <= lastCommand[c]
  <1> DEFINE u == ContactLimitedTarget(t, allowRelease)
  <1>1. t[c] \in Int /\ hold[c] \in Int /\ lastCommand[c] \in Int
    <2>1. t[c] \in Position /\ hold[c] \in Position \cup {NoHold} /\ lastCommand[c] \in Position
      BY DEF ControlInv, ControlTypeOK, Pose
    <2> QED BY <2>1, ContactPolicyAssumption DEF Position, NoHold
  <1>2. u[c] = Least(t[c], hold[c]) \/ u[c] = t[c]
    BY Zenon DEF ContactLimitedTarget
  <1> HIDE DEF u
  <1>3. u[c] \in Int /\ u[c] <= lastCommand[c]
    BY <1>1, <1>2 DEF Least
  <1> QED BY <1>3 DEF u

\* A staged pose is nowhere above a target that is nowhere above the last command.
LEMMA StageOpens ==
  ASSUME ControlInv, NEW t \in Pose, NEW measured \in BOOLEAN, NEW c \in Channels,
         t[c] <= lastCommand[c]
  PROVE  ContactStage(t, measured)[c] <= lastCommand[c]
  <1> DEFINE allowRelease == TRUE
  <1> DEFINE u == ContactLimitedTarget(t, allowRelease)
  <1>1. ContactStage(t, measured)[c] = t[c] \/ ContactStage(t, measured)[c] = BudgetedTarget(u)[c]
    BY Zenon DEF ContactStage
  <1>2. BudgetedTarget(u)[c] = IF Governed /\ u[c] > lastCommand[c]
                               THEN Least(u[c], lastCommand[c] + Greatest(0, ClosureBudget - closureSince[c]))
                               ELSE u[c]
    BY Zenon DEF BudgetedTarget
  <1>3. allowRelease \in BOOLEAN
    OBVIOUS
  <1> HIDE DEF allowRelease
  <1>4. u[c] \in Int /\ u[c] <= lastCommand[c] /\ lastCommand[c] \in Int
    BY <1>3, LimitedOpens DEF ControlInv, ControlTypeOK, Pose, Position
  <1> HIDE DEF u
  <1>5. BudgetedTarget(u)[c] = u[c]
    BY <1>2, <1>4
  <1> QED BY <1>1, <1>4, <1>5

\* An ordinary command does not move a held hand.
LEMMA HeldHandIdle ==
  ASSUME NEW t \in Pose, NEW forceWrite \in BOOLEAN, NEW measured \in BOOLEAN,
         NEW isRelief \in BOOLEAN, ~isRelief, state = "HOLD",
         Command(t, forceWrite, measured, isRelief)
  PROVE  UNCHANGED lastCommand
  <1>1. ~Ready(isRelief)
    BY Zenon DEF Ready, Inactive
  <1> QED BY <1>1, CommandMoves

\* A command towards a pose that is nowhere above the last command closes no channel.
LEMMA OpeningCommandOpens ==
  ASSUME ControlInv, NEW t \in Pose, NEW forceWrite \in BOOLEAN, NEW measured \in BOOLEAN,
         NEW isRelief \in BOOLEAN, Command(t, forceWrite, measured, isRelief),
         NEW c \in Channels, t[c] <= lastCommand[c]
  PROVE  lastCommand'[c] <= lastCommand[c]
  <1>1. lastCommand[c] \in Int
    BY DEF ControlInv, ControlTypeOK, Pose, Position
  <1>2. UNCHANGED lastCommand \/ lastCommand' = Selected(t, measured)
    BY CommandMoves
  <1>3. ContactStage(t, measured)[c] <= lastCommand[c] /\ ContactStage(t, measured)[c] \in Int
    BY StageOpens, StageInRange DEF Pose, Position
  <1>4. Selected(t, measured)[c] <= lastCommand[c]
    BY <1>1, <1>3, SelectedBetween
  <1> QED BY <1>1, <1>2, <1>4

-----------------------------------------------------------------------------
(* RH56Cycle: the controller under every sequence of cycles *)

CycleTypes ==
    /\ phase \in {"begin", "operate", "stopped"} /\ active \in BOOLEAN
    /\ poppedTarget \in SUBSET Pose
    /\ closedSinceForce \in [Channels -> Nat] /\ regrip \in BOOLEAN

\* A popped relief target opens, and is issued in the cycle that popped it.
ReliefOpens ==
    \A t \in poppedTarget : \A c \in Channels : t[c] <= lastCommand[c]

\* The relief flag is raised by a completed FORCE read of a held hand, so no
\* transient hold stands when the next cycle pops it.
ReliefIsReady ==
    /\ relief => state # "ACTIVE"
    /\ state = "DISABLED" => phase = "stopped"
    /\ relief /\ state = "HOLD" => phase = "begin" /\ ~transientHold
    /\ poppedTarget # {} => phase = "operate" /\ state = "HOLD" /\ ~transientHold

\* The controller's counter covers every closure written since it was last reset.
CounterCovers == Governed => \A c \in Channels : closedSinceForce[c] <= closureSince[c]

CycleInv ==
    ControlInv /\ CycleTypes /\ CounterCovers /\ ReliefOpens /\ ReliefIsReady

-----------------------------------------------------------------------------
(* Facts about single operations *)

\* The staged pose of a target closes a channel by no more than the budget that
\* is left.
LEMMA StageWithinBudget ==
  ASSUME ControlInv, NEW t \in Pose, NEW measured \in BOOLEAN, NEW c \in Channels,
         ~measured, Governed
  PROVE  \/ ContactStage(t, measured)[c] <= lastCommand[c]
         \/ ContactStage(t, measured)[c] <= lastCommand[c] + Greatest(0, ClosureBudget - closureSince[c])
  <1> USE ContactPolicyAssumption
  <1>1. lastCommand[c] \in Position /\ closureSince[c] \in Nat
    BY DEF ControlInv, ControlTypeOK, Pose
  <1> DEFINE u == ContactLimitedTarget(t, TRUE)
  <1>2. ContactStage(t, measured)[c] =
           IF Governed /\ u[c] > lastCommand[c]
           THEN Least(u[c], lastCommand[c] + Greatest(0, ClosureBudget - closureSince[c]))
           ELSE u[c]
    BY Zenon DEF ContactStage, BudgetedTarget
  <1>3. u[c] \in Int
    <2>1. t[c] \in Position /\ hold[c] \in Position \cup {NoHold}
      BY DEF ControlInv, ControlTypeOK, Pose
    <2> QED BY <2>1 DEF ContactLimitedTarget, Least, Position, NoHold
  <1> HIDE DEF u
  <1> QED BY <1>1, <1>2, <1>3 DEF Least, Greatest, Position

\* A command that closes a channel writes a pose no further than the staged one.
LEMMA ClosingCommand ==
  ASSUME ControlInv, NEW t \in Pose, NEW forceWrite \in BOOLEAN, NEW measured \in BOOLEAN,
         NEW isRelief \in BOOLEAN, Command(t, forceWrite, measured, isRelief),
         NEW c \in Channels, lastCommand'[c] > lastCommand[c]
  PROVE  /\ ReleaseContacts(t, measured)
         /\ lastCommand[c] \in Int /\ lastCommand'[c] \in Int /\ ContactStage(t, measured)[c] \in Int
         /\ lastCommand'[c] <= ContactStage(t, measured)[c]
         /\ measured => lastCommand'[c] <= t[c]
  <1>1. lastCommand[c] \in Int
    BY ContactPolicyAssumption DEF ControlInv, ControlTypeOK, Pose, Position
  <1>2. ReleaseContacts(t, measured) /\ lastCommand' = Selected(t, measured)
    BY <1>1, CommandMoves
  <1> DEFINE goal == ContactStage(t, measured)[c]
  <1> DEFINE sel == Selected(t, measured)[c]
  <1>3. goal \in Int /\ sel \in Int
    <2>1. ContactStage(t, measured) \in Pose /\ Selected(t, measured) \in Pose
      BY StageInRange, SelectedInRange
    <2> QED BY <2>1, ContactPolicyAssumption DEF Pose, Position
  <1>4. sel > lastCommand[c] => sel <= goal
    BY <1>1, <1>3, SelectedBetween
  <1>5. measured => goal = t[c]
    BY Zenon DEF ContactStage
  <1> QED BY <1>1, <1>2, <1>3, <1>4, <1>5

\* The history of the written closure keeps its type.
LEMMA ClosedType ==
  ASSUME ControlInv, ControlInv', closedSinceForce \in [Channels -> Nat]
  PROVE  Closed \in [Channels -> Nat]
  <1> USE ContactPolicyAssumption
  <1>1. \A c \in Channels : /\ lastCommand'[c] - lastCommand[c] \in Int
                            /\ closedSinceForce[c] \in Nat
    BY DEF ControlInv, ControlTypeOK, Pose, Position
  <1> QED BY <1>1 DEF Closed, Least, Greatest

\* The counter grows by what a write closes, so it covers the history.
LEMMA CommandCounts ==
  ASSUME ControlInv, ControlInv', CycleTypes, CounterCovers, closedSinceForce' = Closed,
         NEW t \in Pose, NEW forceWrite \in BOOLEAN, NEW measured \in BOOLEAN,
         NEW isRelief \in BOOLEAN, Command(t, forceWrite, measured, isRelief)
  PROVE  CounterCovers'
  <1> USE ContactPolicyAssumption
  <1>0. Governed' = Governed
    BY DEF Governed
  <1> SUFFICES ASSUME Governed, NEW c \in Channels
               PROVE  closedSinceForce'[c] <= closureSince'[c]
    BY <1>0 DEF CounterCovers
  <1>1. /\ lastCommand[c] \in Position /\ lastCommand'[c] \in Position
        /\ closureSince[c] \in Nat /\ closedSinceForce[c] \in Nat
        /\ closedSinceForce[c] <= closureSince[c]
    BY DEF ControlInv, ControlTypeOK, Pose, CycleTypes, CounterCovers
  <1>2. closedSinceForce'[c] =
           Least(ClosureBudget + 1, closedSinceForce[c] + Greatest(0, lastCommand'[c] - lastCommand[c]))
    BY Zenon DEF Closed
  <1>3. CASE UNCHANGED <<lastCommand, closureSince>>
    BY <1>1, <1>2, <1>3 DEF Least, Greatest, Position
  <1>4. CASE /\ lastCommand' = Selected(t, measured)
             /\ closureSince' = [d \in Channels |->
                    Least(ClosureBudget + 1,
                          closureSince[d] + ClosureOf(Selected(t, measured)[d] - lastCommand[d]))]
    <2>1. closureSince'[c] = Least(ClosureBudget + 1,
                                   closureSince[c] + ClosureOf(lastCommand'[c] - lastCommand[c]))
      BY <1>4, Zenon
    <2> QED BY <1>1, <1>2, <2>1 DEF ClosureOf, Least, Greatest, Position
  <1> QED BY <1>3, <1>4, CommandMoves

-----------------------------------------------------------------------------
(* The inductive invariant *)

LEMMA InitCycle == CycleInit => CycleInv
  <1> SUFFICES ASSUME CycleInit PROVE CycleInv
    OBVIOUS
  <1> USE ContactPolicyAssumption
  <1>1. ControlInv
    BY InitControl DEF CycleInit
  <1>2. CycleTypes /\ ReliefOpens /\ ReliefIsReady
    BY DEF CycleInit, ControlInit, CycleTypes, ReliefOpens, ReliefIsReady
  <1>3. CounterCovers
    <2>1. closureSince = [c \in Channels |-> 0] /\ closedSinceForce = [c \in Channels |-> 0]
      BY DEF CycleInit, ControlInit
    <2>2. \A c \in Channels : closureSince[c] = 0 /\ closedSinceForce[c] = 0
      BY <2>1
    <2>3. 0 <= 0
      OBVIOUS
    <2> QED BY <2>2, <2>3, Zenon DEF CounterCovers
  <1> QED BY <1>1, <1>2, <1>3 DEF CycleInv

\* One step per action of RH56Cycle.
LEMMA CycleStep == CycleInv /\ [CycleNext]_cycleVars => CycleInv'
  <1> SUFFICES ASSUME CycleInv, [CycleNext]_cycleVars PROVE CycleInv'
    OBVIOUS
  <1> USE ContactPolicyAssumption
  <1>0. Governed' = Governed
    BY DEF Governed
  <1>1. CASE HoldCycle
    <2>1. HoldAndPopRelief /\ poppedTarget' = ReliefPose /\ phase' = "operate" /\ active' = FALSE
          /\ UNCHANGED closedSinceForce /\ regrip' = FALSE /\ phase = "begin"
      BY <1>1 DEF HoldCycle, NoWrite
    <2>2. ControlInv'
      BY <2>1, LifecycleControl DEF CycleInv
    <2>3. UNCHANGED <<lastCommand, closureSince, transientHold>>
      BY <2>1 DEF HoldAndPopRelief, Hold, commandVars
    <2>4. CycleTypes' /\ ReliefOpens'
      BY <2>1, <2>3, ReliefPoseOpens DEF CycleInv, CycleTypes, ReliefOpens
    <2>5. ReliefIsReady'
      <3>1. /\ state' = IF state = "FAULT" THEN state ELSE "HOLD"
            /\ relief' = IF relief /\ state' = "HOLD" THEN FALSE ELSE relief
        BY <2>1 DEF HoldAndPopRelief, Hold
      <3>2. relief \in BOOLEAN /\ state \in {"DISABLED", "HOLD", "ACTIVE", "FAULT"}
        BY DEF CycleInv, ControlInv, ControlTypeOK
      <3> QED BY <2>1, <2>3, <3>1, <3>2, ReliefPoseOpens DEF CycleInv, ReliefIsReady
    <2>6. CounterCovers'
      BY <1>0, <2>1, <2>3 DEF CycleInv, CounterCovers
    <2> QED BY <2>2, <2>4, <2>5, <2>6 DEF CycleInv
  <1>2. CASE ActiveCycle
    <2>1. /\ phase' \in {"operate", "stopped"} /\ active' = TRUE /\ poppedTarget' = {}
          /\ closedSinceForce' = IF state = "HOLD" /\ state' = "ACTIVE"
                                 THEN [c \in Channels |-> 0] ELSE closedSinceForce
          /\ phase = "begin" /\ regrip' \in BOOLEAN
      BY <1>2 DEF ActiveCycle, NoWrite
    <2>2. CASE state = "HOLD"
      <3>1. Activate
        BY <1>2, <2>2 DEF ActiveCycle
      <3>2. ControlInv'
        BY <3>1, ActivateControl DEF CycleInv
      <3>3. \/ UNCHANGED <<closureSince, relief>> /\ state' = "FAULT"
            \/ closureSince' = [c \in Channels |-> 0] /\ relief' = FALSE /\ state' = "ACTIVE"
        BY <2>2, <3>1 DEF Activate, ResetContactStop, Fault, contactVars
      <3>4. CounterCovers'
        BY <1>0, <2>1, <2>2, <3>3 DEF CycleInv, CounterCovers
      <3>5. CycleTypes' /\ ReliefOpens' /\ ReliefIsReady'
        BY <2>1, <3>3 DEF CycleInv, CycleTypes, ReliefOpens, ReliefIsReady
      <3> QED BY <3>2, <3>4, <3>5 DEF CycleInv
    <2>3. CASE state # "HOLD"
      <3>1. UNCHANGED controlVars
        BY <1>2, <2>3 DEF ActiveCycle
      <3>2. ControlInv'
        BY <3>1, SameContacts DEF CycleInv, ControlInv, ControlTypeOK, controlVars, lifeVars, feedbackVars,
           commandVars, contactVars
      <3>3. UNCHANGED <<closureSince, relief, state, transientHold>>
        BY <3>1 DEF controlVars, contactVars, lifeVars, commandVars
      <3>4. CounterCovers'
        BY <1>0, <2>1, <2>3, <3>3 DEF CycleInv, CounterCovers
      <3>5. CycleTypes' /\ ReliefOpens' /\ ReliefIsReady'
        BY <2>1, <2>3, <3>3 DEF CycleInv, CycleTypes, ReliefOpens, ReliefIsReady
      <3> QED BY <3>2, <3>4, <3>5 DEF CycleInv
    <2> QED BY <2>2, <2>3
  <1>3. CASE TerminalCycle \/ CleanupAfterStop \/ CycleExpires
    <2>1. ControlInv'
      BY <1>3, LifecycleControl DEF CycleInv, TerminalCycle, CleanupAfterStop, CycleExpires
    <2>2. UNCHANGED <<lastCommand, closureSince, relief, transientHold, active, poppedTarget, closedSinceForce>>
          /\ regrip' = FALSE
      BY <1>3 DEF TerminalCycle, CleanupAfterStop, CycleExpires, NoWrite, ArmTerminalStop, Cleanup, FeedbackExpires,
         commandVars, contactVars, turnVars
    <2>3. \/ UNCHANGED <<phase, state>>
          \/ phase = "begin" /\ phase' = "stopped" /\ state' = "FAULT"
          \/ phase = "stopped" /\ phase' = phase /\ state' = "DISABLED"
      BY <1>3 DEF TerminalCycle, CleanupAfterStop, CycleExpires, ArmTerminalStop, Fault, Cleanup, FeedbackExpires,
         lifeVars, turnVars
    <2>4. CounterCovers'
      BY <1>0, <2>2 DEF CycleInv, CounterCovers
    <2>5. CycleTypes' /\ ReliefOpens'
      BY <2>2, <2>3 DEF CycleInv, CycleTypes, ReliefOpens
    <2>6. ReliefIsReady'
      BY <2>2, <2>3 DEF CycleInv, ReliefIsReady
    <2> QED BY <2>1, <2>4, <2>5, <2>6 DEF CycleInv
  <1>4. CASE RelieveContact \/ CommandTarget
    <2>1. PICK t \in Pose, forceWrite \in BOOLEAN, measured \in BOOLEAN, isRelief \in BOOLEAN :
             Command(t, forceWrite, measured, isRelief) /\ regrip' = measured
      BY <1>4 DEF RelieveContact, CommandTarget, CycleInv, CycleTypes
    <2>2. closedSinceForce' = Closed /\ EndOperation
      BY <1>4 DEF RelieveContact, CommandTarget
    <2>3. ControlInv'
      BY <2>1, CommandControl DEF CycleInv
    <2>4. CounterCovers'
      BY <2>1, <2>2, <2>3, CommandCounts DEF CycleInv
    <2>5. CycleTypes' /\ ReliefOpens'
      <3>1. closedSinceForce' \in [Channels -> Nat]
        BY <2>2, <2>3, ClosedType DEF CycleInv, CycleTypes
      <3>2. regrip' \in BOOLEAN
        BY <2>1
      <3> QED BY <2>2, <3>1, <3>2 DEF EndOperation, CycleInv, CycleTypes, ReliefOpens
    <2>6. ReliefIsReady'
      <3>1. phase = "operate" /\ poppedTarget' = {}
        BY <2>2 DEF EndOperation
      <3>2. UNCHANGED relief /\ (state' = state \/ state' = "FAULT")
        BY <2>1, CommandQuiet
      <3> QED BY <3>1, <3>2 DEF CycleInv, ReliefIsReady
    <2> QED BY <2>3, <2>4, <2>5, <2>6 DEF CycleInv
  <1>5. CASE PollRegister
    <2>1. /\ PollForceRegister \/ PollOtherRegister
          /\ \/ PollForceRegister /\ closedSinceForce' = [c \in Channels |-> 0]
             \/ PollOtherRegister /\ UNCHANGED closedSinceForce
          /\ regrip' = FALSE /\ EndOperation
      BY <1>5 DEF PollRegister
    <2>2. ControlInv'
      BY <2>1, PollControl DEF CycleInv
    <2>3. \/ UNCHANGED <<closureSince, closedSinceForce>>
          \/ closureSince' = [c \in Channels |-> 0] /\ closedSinceForce' = [c \in Channels |-> 0]
      BY <2>1 DEF PollForceRegister, PollForce, ObserveContactForce, PollOtherRegister, PollClosed, PollAngle,
         PollOther, PollTimeout, PollFails, contactVars
    <2>4. CounterCovers'
      BY <1>0, <2>3 DEF CycleInv, CounterCovers
    <2>5. CycleTypes' /\ ReliefOpens'
      <3>1. closedSinceForce' \in [Channels -> Nat]
        BY <2>3 DEF CycleInv, CycleTypes
      <3> QED BY <2>1, <3>1 DEF EndOperation, CycleInv, CycleTypes, ReliefOpens
    <2>6. ReliefIsReady'
      <3>1. phase = "operate" /\ poppedTarget' = {} /\ phase' = IF outcome' = "raised" THEN "stopped" ELSE "begin"
        BY <2>1 DEF EndOperation
      <3>2. CASE PollForceRegister
        <4>1. PICK f \in ForceCounts : PollForce(f)
          BY <3>2 DEF PollForceRegister
        <4>2. state' = state /\ transientHold' = FALSE /\ outcome' = "done"
          BY <4>1 DEF PollForce, lifeVars
        <4>3. relief' => relief \/ state = "HOLD"
          BY <4>1, Zenon DEF PollForce, ObserveContactForce, JudgeForce
        <4> QED BY <3>1, <4>2, <4>3 DEF CycleInv, ReliefIsReady
      <3>3. CASE PollOtherRegister
        <4>1. UNCHANGED relief /\ (state' = state \/ state' = "FAULT")
          BY <3>3 DEF PollOtherRegister, PollClosed, PollAngle, PollOther, PollTimeout, PollFails, Fault,
             contactVars, lifeVars
        <4> QED BY <3>1, <4>1 DEF CycleInv, ReliefIsReady
      <3> QED BY <2>1, <3>2, <3>3
    <2> QED BY <2>2, <2>4, <2>5, <2>6 DEF CycleInv
  <1>6. CASE Idle \/ UNCHANGED cycleVars
    <2>1. /\ UNCHANGED <<controlVars, closedSinceForce, active, poppedTarget>> /\ regrip' \in BOOLEAN
          /\ (phase = "operate" /\ phase' = "begin" /\ poppedTarget = {}) \/ UNCHANGED phase
      BY <1>6 DEF Idle, NoWrite, cycleVars, turnVars, historyVars, CycleInv, CycleTypes
    <2>2. ControlInv'
      BY <2>1, SameContacts DEF CycleInv, ControlInv, ControlTypeOK, controlVars, lifeVars, feedbackVars,
         commandVars, contactVars
    <2>3. UNCHANGED <<lastCommand, closureSince, relief, state, transientHold>>
      BY <2>1 DEF controlVars, contactVars, lifeVars, commandVars
    <2>4. CounterCovers'
      BY <1>0, <2>1, <2>3 DEF CycleInv, CounterCovers
    <2>5. CycleTypes' /\ ReliefOpens'
      BY <2>1, <2>3 DEF CycleInv, CycleTypes, ReliefOpens
    <2>6. ReliefIsReady'
      BY <2>1, <2>3 DEF CycleInv, ReliefIsReady
    <2> QED BY <2>2, <2>4, <2>5, <2>6 DEF CycleInv
  <1> QED BY <1>1, <1>2, <1>3, <1>4, <1>5, <1>6 DEF CycleNext

-----------------------------------------------------------------------------
(* The theorems *)

LEMMA CycleInvariant == CycleSpec => []CycleInv
  BY InitCycle, CycleStep, PTL DEF CycleSpec

\* Every reachable state of the controller is well typed: in particular no
\* command, whatever the policy, leaves the normalised range.
THEOREM CycleTypeCorrect == CycleSpec => []CycleTypeOK
  <1>1. CycleInv => CycleTypeOK
    BY DEF CycleInv, CycleTypes, CycleTypeOK, ControlInv
  <1> QED BY <1>1, CycleInvariant, PTL

\* The NaN hold pose of contact_limited_target is never compared with.
THEOREM CycleContactHoldCorrect == CycleSpec => []ContactHasHold
  <1>1. CycleInv => ContactHasHold
    BY DEF CycleInv, ControlInv
  <1> QED BY <1>1, CycleInvariant, PTL

\* The actions that issue no command: activation is the only one that moves
\* the last command, to the measured pose, and it opens a new contact episode.
LEMMA OtherActionsKeepPose ==
  ASSUME [CycleNext]_cycleVars, ~RelieveContact, ~CommandTarget
  PROVE  \/ UNCHANGED lastCommand
         \/ /\ state = "HOLD" /\ state' = "ACTIVE" /\ hold' = [c \in Channels |-> NoHold]
            /\ lastCommand' = angle /\ regrip' = TRUE
  <1>1. CASE ActiveCycle
    BY <1>1 DEF ActiveCycle, Activate, ResetContactStop, commandVars, controlVars
  <1>2. CASE HoldCycle \/ TerminalCycle \/ CycleExpires \/ CleanupAfterStop \/ Idle \/ UNCHANGED cycleVars
    BY <1>2 DEF HoldCycle, HoldAndPopRelief, Hold, TerminalCycle, ArmTerminalStop, CycleExpires, FeedbackExpires,
       CleanupAfterStop, Cleanup, Idle, cycleVars, controlVars, commandVars
  <1>3. CASE PollRegister
    BY <1>3 DEF PollRegister, PollForceRegister, PollForce, PollOtherRegister, PollClosed, PollAngle, PollOther,
       PollTimeout, PollFails, commandVars
  <1> QED BY <1>1, <1>2, <1>3 DEF CycleNext

\* A step that closes a channel commands a target, or follows the measured pose.
LEMMA ClosingStep ==
  ASSUME CycleInv, [CycleNext]_cycleVars, NEW c \in Channels, lastCommand'[c] > lastCommand[c],
         ~FollowsMeasured(c)
  PROVE  \E t \in Pose, forceWrite, isRelief \in BOOLEAN :
            Command(t, forceWrite, FALSE, isRelief) /\ closedSinceForce' = Closed
  <1> USE ContactPolicyAssumption
  <1>1. lastCommand[c] \in Int /\ angle[c] \in Int
    BY DEF CycleInv, ControlInv, ControlTypeOK, Pose, Position
  <1>2. RelieveContact \/ CommandTarget
    <2>1. UNCHANGED lastCommand => FALSE
      BY <1>1
    <2>2. lastCommand' = angle /\ regrip' = TRUE => FALSE
      BY <1>1 DEF FollowsMeasured
    <2> QED BY <2>1, <2>2, OtherActionsKeepPose
  <1>3. PICK t \in Pose, forceWrite \in BOOLEAN, measured \in BOOLEAN, isRelief \in BOOLEAN :
           /\ measured => t = angle
           /\ Command(t, forceWrite, measured, isRelief) /\ regrip' = measured
    BY <1>2 DEF RelieveContact, CommandTarget, CycleInv, CycleTypes
  <1>4. closedSinceForce' = Closed
    BY <1>2 DEF RelieveContact, CommandTarget
  <1>5. measured => lastCommand'[c] <= angle[c]
    BY <1>3, ClosingCommand DEF CycleInv
  <1>6. measured = FALSE
    BY <1>3, <1>5 DEF FollowsMeasured
  <1> QED BY <1>3, <1>4, <1>6

\* A target or a relief write of command() never takes a channel past the closure
\* budget between two FORCE samples: the controller's counter covers everything
\* written, the poses of measured activations included.
THEOREM ClosureBudgetCorrect == CycleSpec => ClosureBudgetHolds
  <1> DEFINE Kept == Governed =>
                 \A c \in Channels : lastCommand'[c] > lastCommand[c]
                                       => closedSinceForce'[c] <= ClosureBudget \/ FollowsMeasured(c)
  <1>1. ASSUME CycleInv, [CycleNext]_cycleVars PROVE Kept
    <2> USE <1>1, ContactPolicyAssumption
    <2> SUFFICES ASSUME Governed, NEW c \in Channels, lastCommand'[c] > lastCommand[c], ~FollowsMeasured(c)
                 PROVE  closedSinceForce'[c] <= ClosureBudget
      OBVIOUS
    <2> DEFINE measured == FALSE
    <2>1. PICK t \in Pose, forceWrite \in BOOLEAN, isRelief \in BOOLEAN :
             Command(t, forceWrite, measured, isRelief) /\ closedSinceForce' = Closed
      BY ClosingStep
    <2>2. measured \in BOOLEAN /\ ~measured
      OBVIOUS
    <2> HIDE DEF measured
    <2> DEFINE goal == ContactStage(t, measured)[c]
    <2>3. /\ lastCommand[c] \in Int /\ lastCommand'[c] \in Int /\ goal \in Int
          /\ lastCommand'[c] <= goal
      BY <2>1, <2>2, ClosingCommand DEF CycleInv
    <2>4. \/ goal <= lastCommand[c]
          \/ goal <= lastCommand[c] + Greatest(0, ClosureBudget - closureSince[c])
      BY <2>2, StageWithinBudget DEF CycleInv
    <2>5. /\ closedSinceForce[c] \in Nat /\ closureSince[c] \in Nat
          /\ closedSinceForce[c] <= closureSince[c]
      BY DEF CycleInv, CycleTypes, ControlInv, ControlTypeOK, CounterCovers
    <2>6. closedSinceForce'[c] =
             Least(ClosureBudget + 1, closedSinceForce[c] + Greatest(0, lastCommand'[c] - lastCommand[c]))
      BY <2>1, Zenon DEF Closed
    <2> HIDE DEF goal
    <2> QED BY <2>3, <2>4, <2>5, <2>6 DEF Least, Greatest
  <1>2. CycleInv /\ [CycleNext]_cycleVars => [Kept]_cycleVars
    BY <1>1
  <1> QED BY <1>2, CycleInvariant, PTL DEF CycleSpec, ClosureBudgetHolds

\* contact_limited_target caps every channel it does not release.
LEMMA StageCapped ==
  ASSUME ControlInv, NEW t \in Pose, NEW measured \in BOOLEAN, ~measured,
         NEW c \in Channels, ContactStopEnabled, ContactHeld(c),
         c \notin Released(t)
  PROVE  ContactStage(t, measured)[c] <= lastCommand[c] \/ ContactStage(t, measured)[c] <= hold[c]
  <1> USE ContactPolicyAssumption
  <1> DEFINE u == ContactLimitedTarget(t, TRUE)
  <1>1. t[c] \in Position /\ hold[c] \in Position \cup {NoHold} /\ lastCommand[c] \in Position
        /\ closureSince[c] \in Nat
    BY DEF ControlInv, ControlTypeOK, Pose
  <1>2. u[c] = Least(t[c], hold[c])
    BY Zenon DEF ContactLimitedTarget, Released
  <1>3. ContactStage(t, measured)[c] =
           IF Governed /\ u[c] > lastCommand[c]
           THEN Least(u[c], lastCommand[c] + Greatest(0, ClosureBudget - closureSince[c]))
           ELSE u[c]
    BY Zenon DEF ContactStage, BudgetedTarget
  <1> HIDE DEF u
  <1>4. u[c] \in Int /\ u[c] <= hold[c] /\ hold[c] \in Int
    BY <1>1, <1>2 DEF Least, Position, NoHold
  <1>5. ContactStage(t, measured)[c] <= u[c]
    BY <1>1, <1>3, <1>4 DEF Least, Greatest, Position
  <1>6. ContactStage(t, measured)[c] \in Int
    BY StageInRange DEF Pose, Position
  <1> QED BY <1>4, <1>5, <1>6

\* A held contact caps the closure of its channel (contact_limited_target)
\* under every order of cycles, unless the operator's opening releases it or the
\* hand is re-engaged where it is.
THEOREM ContactCapCorrect == CycleSpec => ContactCapsClosure
  <1> DEFINE Caps == ContactStopEnabled =>
                 \A c \in Channels : ContactHeld(c) /\ lastCommand'[c] > lastCommand[c]
                                       => \/ lastCommand'[c] <= hold[c]
                                          \/ hold'[c] = NoHold
                                          \/ FollowsMeasured(c)
  <1>1. ASSUME CycleInv, [CycleNext]_cycleVars PROVE Caps
    <2> USE <1>1
    <2> SUFFICES ASSUME ContactStopEnabled, NEW c \in Channels, ContactHeld(c),
                        lastCommand'[c] > lastCommand[c], hold'[c] # NoHold, ~FollowsMeasured(c)
                 PROVE  lastCommand'[c] <= hold[c]
      OBVIOUS
    <2> DEFINE measured == FALSE
    <2>1. PICK t \in Pose, forceWrite \in BOOLEAN, isRelief \in BOOLEAN :
             Command(t, forceWrite, measured, isRelief)
      BY ClosingStep
    <2>2. measured \in BOOLEAN /\ ~measured
      OBVIOUS
    <2> HIDE DEF measured
    <2> DEFINE goal == ContactStage(t, measured)[c]
    <2>3. /\ ReleaseContacts(t, measured)
          /\ lastCommand[c] \in Int /\ lastCommand'[c] \in Int /\ goal \in Int
          /\ lastCommand'[c] <= goal
      BY <2>1, <2>2, ClosingCommand DEF CycleInv
    <2>4. hold[c] \in Int
      BY ContactPolicyAssumption DEF CycleInv, ControlInv, ControlTypeOK, Position, NoHold
    <2>5. c \notin Released(t)
      BY <2>2, <2>3, Zenon DEF ReleaseContacts, Freed
    <2>6. goal <= lastCommand[c] \/ goal <= hold[c]
      BY <2>2, <2>5, StageCapped DEF CycleInv
    <2> HIDE DEF goal
    <2> QED BY <2>3, <2>4, <2>6
  <1>2. CycleInv /\ [CycleNext]_cycleVars => [Caps]_cycleVars
    BY <1>1
  <1> QED BY <1>2, CycleInvariant, PTL DEF CycleSpec, ContactCapsClosure

\* The write that reaches a held hand is the relief write, and it only opens.
THEOREM CycleHeldHandCorrect == CycleSpec => HeldHandOnlyOpens
  <1> DEFINE Opens == state = "HOLD" /\ state' # "ACTIVE" =>
                        \A c \in Channels : lastCommand'[c] <= lastCommand[c]
  <1>1. ASSUME CycleInv, [CycleNext]_cycleVars PROVE Opens
    <2> USE <1>1
    <2> SUFFICES ASSUME state = "HOLD", state' # "ACTIVE", NEW c \in Channels
                 PROVE  lastCommand'[c] <= lastCommand[c]
      OBVIOUS
    <2>1. lastCommand[c] \in Int
      BY DEF CycleInv, ControlInv, ControlTypeOK, Pose, Position
    <2>2. CASE UNCHANGED lastCommand
      BY <2>1, <2>2
    <2>3. CASE CommandTarget
      <3> DEFINE isRelief == FALSE
      <3>1. PICK t \in Pose, forceWrite \in BOOLEAN, measured \in BOOLEAN :
               Command(t, forceWrite, measured, isRelief)
        BY <2>3, Zenon DEF CommandTarget
      <3>2. isRelief \in BOOLEAN /\ ~isRelief
        OBVIOUS
      <3> HIDE DEF isRelief
      <3> QED BY <2>1, <3>1, <3>2, HeldHandIdle
    <2>4. CASE RelieveContact
      <3> DEFINE relieving == TRUE
      <3> DEFINE measured == FALSE
      <3>1. PICK t \in poppedTarget : Command(t, relieving, measured, relieving)
        BY <2>4, Zenon DEF RelieveContact
      <3>2. t \in Pose /\ t[c] <= lastCommand[c]
        BY DEF CycleInv, CycleTypes, ReliefOpens
      <3>3. measured \in BOOLEAN /\ relieving \in BOOLEAN
        OBVIOUS
      <3> HIDE DEF measured, relieving
      <3> QED BY <3>1, <3>2, <3>3, OpeningCommandOpens DEF CycleInv
    <2> QED BY <2>2, <2>3, <2>4, OtherActionsKeepPose
  <1>2. CycleInv /\ [CycleNext]_cycleVars => [Opens]_controlVars
    BY <1>1
  <1> QED BY <1>2, CycleInvariant, PTL DEF CycleSpec, HeldHandOnlyOpens

\* pop_contact_relief_target consumes the one-shot opening: when the command
\* envelope is the whole range, the opening is written in the same cycle or
\* the controller is faulted.
THEOREM ReliefCorrect ==
  ASSUME MaxClose = MaxPos
  PROVE  CycleSpec => ReliefIsAttempted
  <1> DEFINE Attempted == poppedTarget # {} /\ poppedTarget' = {} =>
                            outcome' = "serial_write_success" \/ state' = "FAULT"
  <1>1. ASSUME CycleInv, [CycleNext]_cycleVars PROVE Attempted
    <2> USE <1>1
    <2> SUFFICES ASSUME poppedTarget # {}, poppedTarget' = {}
                 PROVE  outcome' = "serial_write_success" \/ state' = "FAULT"
      OBVIOUS
    <2>1. phase = "operate" /\ state = "HOLD" /\ ~transientHold
      BY DEF CycleInv, ReliefIsReady
    <2>2. RelieveContact
      BY <2>1 DEF CycleNext, cycleVars, turnVars, HoldCycle, ActiveCycle, TerminalCycle, CommandTarget, PollRegister, Idle,
         CycleExpires, CleanupAfterStop
    <2>3. PICK t \in poppedTarget : Command(t, TRUE, FALSE, TRUE)
      BY <2>2 DEF RelieveContact
    <2>4. t \in Pose /\ \A c \in Channels : t[c] <= lastCommand[c]
      BY DEF CycleInv, CycleTypes, ReliefOpens
    <2>5. ~Inactive(TRUE)
      BY <2>1 DEF Inactive
    <2>6. ~Invalid(t, TRUE, FALSE)
      BY <2>4, ContactPolicyAssumption DEF Invalid, Pose, Position
    <2>7. ~ClosureBlocked(t, FALSE)
      <3> DEFINE allowRelease == TRUE
      <3> DEFINE limited == ContactLimitedTarget(t, allowRelease)
      <3>1. allowRelease \in BOOLEAN
        OBVIOUS
      <3> HIDE DEF allowRelease
      <3>2. \A c \in Channels : lastCommand[c] \in Int /\ limited[c] \in Int /\ limited[c] <= lastCommand[c]
        BY <2>4, <3>1, LimitedOpens DEF CycleInv, ControlInv, ControlTypeOK, Pose, Position
      <3> HIDE DEF limited
      <3>3. \A c \in Channels : ~(limited[c] > lastCommand[c])
        BY <3>2
      <3> QED BY <3>3, Zenon DEF ClosureBlocked, limited, allowRelease
    <2>8. ~Duplicate(t, TRUE, FALSE) /\ ~CommandRateLimited(TRUE, TRUE) /\ ~CommandInactive(TRUE)
          /\ ~CommandDeferred(TRUE) /\ ~CommandInvalid(t, TRUE, FALSE, TRUE) /\ ~CommandWaits(t, TRUE, FALSE, TRUE)
      BY <2>1, <2>5, <2>6, <2>7, Zenon DEF Duplicate, CommandRateLimited, CommandInactive, CommandDeferred,
         CommandInvalid, CommandWaits
    <2>9. CommandStale(TRUE) \/ CommandWrites(t, TRUE, FALSE, TRUE)
      BY <2>3, <2>8 DEF Command
    <2>10. CASE CommandStale(TRUE)
      BY <2>10 DEF CommandStale, Fault
    <2>11. CASE CommandWrites(t, TRUE, FALSE, TRUE)
      BY <2>11, Zenon DEF CommandWrites, Fault
    <2> QED BY <2>9, <2>10, <2>11
  <1>2. CycleInv /\ [CycleNext]_cycleVars => [Attempted]_cycleVars
    BY <1>1
  <1> QED BY <1>2, CycleInvariant, PTL DEF CycleSpec, ReliefIsAttempted

\* The contact stop of contact_limited_target and its state: a contact has the
\* hold pose it is compared with, a held contact caps its channel, and what
\* reaches a held hand opens it.
THEOREM ContactStopCorrect == CycleSpec => ContactStopsClosure
BY CycleContactHoldCorrect, ContactCapCorrect, CycleHeldHandCorrect, PTL DEF ContactStopsClosure

-----------------------------------------------------------------------------
(* RH56Worker: producer, mailbox and worker thread *)

WorkerTypeOK ==
    /\ activeRequested \in BOOLEAN /\ pendingTarget \in Slot /\ forcePending \in BOOLEAN
    /\ terminal \in TerminalReasons \cup {NoReason} /\ submitted \in 0..MaxSequence
    /\ stop \in BOOLEAN /\ failed \in BOOLEAN
    /\ cleaning \in {"no", "joining", "rejoining", "raised", "closed"}
    /\ pc \in {"loop", "snapshot", "begin", "choose", "command", "reading", "failing", "done"}
    /\ snap \in Snapshot /\ reliefTarget \in SUBSET Pose
    /\ writtenSequence \in 0..MaxSequence /\ evaluated \in 0..MaxSequence
    /\ lateWrites \in Nat

\* The worker holds a snapshot that may still lead to a write.
WriterArmed ==
    pc \in {"begin", "choose", "command"} /\ snap.active /\ snap.terminal = NoReason

\* A late write needs an armed snapshot, and using it up disarms the worker
\* until the next activation.
LateWriteInv ==
    /\ pc \in {"choose", "command"} => snap.terminal = NoReason
    /\ lateWrites <= 1
    /\ lateWrites = 1 => (~activeRequested \/ terminal # NoReason) /\ ~WriterArmed

\* The terminal reason in a snapshot is the one in the mailbox: the first
\* reason is never replaced.
SnapshotReason == pc = "begin" /\ snap.terminal # NoReason => snap.terminal = terminal

\* Sequences only flow forwards through the mailbox.
SequenceInv ==
    /\ \A t \in pendingTarget : t.seq <= submitted
    /\ \A t \in snap.target : t.seq <= submitted
    /\ writtenSequence <= evaluated /\ evaluated <= submitted

\* A relief pose opens and waits only at the choice of the operation.
ReliefInv ==
    /\ reliefTarget # {} => pc = "choose"
    /\ \A t \in reliefTarget : \A c \in Channels : t[c] <= lastCommand[c]

WorkerInv ==
    /\ ControlInv /\ WorkerTypeOK /\ LateWriteInv /\ SnapshotReason
    /\ SequenceInv /\ ReliefInv /\ CleanupIsFinal

-----------------------------------------------------------------------------
(* The types *)

LEMMA TargetFields ==
  ASSUME NEW slot \in Slot, NEW t \in slot
  PROVE  t \in Target /\ t.seq \in 1..MaxSequence /\ t.measured \in BOOLEAN /\ t.values \in Pose /\ slot = {t}
  BY DEF Slot, Target

LEMMA SnapshotFields ==
  ASSUME WorkerTypeOK
  PROVE  /\ snap.active \in BOOLEAN /\ snap.target \in Slot /\ snap.force \in BOOLEAN
         /\ snap.terminal \in TerminalReasons \cup {NoReason}
  BY DEF WorkerTypeOK, Snapshot

\* IssueCommand and IssueRelief are commands of the controller.
LEMMA IssueIsCommand ==
  ASSUME ControlInv, WorkerTypeOK, IssueCommand \/ IssueRelief
  PROVE  \E t \in Pose, forceWrite, measured, isRelief \in BOOLEAN : Command(t, forceWrite, measured, isRelief)
  <1>1. CASE IssueCommand
    <2>1. PICK t \in snap.target : Command(IF t.measured THEN angle ELSE t.values, snap.force, t.measured, FALSE)
      BY <1>1 DEF IssueCommand
    <2>2. t.measured \in BOOLEAN /\ t.values \in Pose /\ angle \in Pose /\ snap.force \in BOOLEAN
      BY TargetFields, SnapshotFields DEF ControlInv, ControlTypeOK
    <2>3. (IF t.measured THEN angle ELSE t.values) \in Pose
      BY <2>2
    <2> QED BY <2>1, <2>2, <2>3, Zenon
  <1>2. CASE IssueRelief
    BY <1>2, Zenon DEF IssueRelief, WorkerTypeOK
  <1> QED BY <1>1, <1>2

\* Every step keeps the controller's invariant.
LEMMA WorkerControl ==
  ASSUME ControlInv, WorkerTypeOK, LateWriteInv, [Next]_vars
  PROVE  ControlInv'
  <1>1. CASE UNCHANGED controlVars
    BY <1>1, SameContacts DEF ControlInv, ControlTypeOK, controlVars, lifeVars, feedbackVars, commandVars, contactVars
  <1>2. CASE HoldAndPopRelief \/ Cleanup \/ FeedbackExpires
    BY <1>2, LifecycleControl
  <1>3. CASE BeginTerminal
    BY <1>3, SnapshotFields, LifecycleControl DEF BeginTerminal
  <1>4. CASE Activate
    BY <1>4, ActivateControl
  <1>5. CASE IssueCommand \/ IssueRelief
    BY <1>5, IssueIsCommand, CommandControl
  <1>6. CASE PollForceRegister \/ PollOtherRegister
    BY <1>6, PollControl
  <1>7. CASE Fail
    BY <1>7, SameContacts DEF Fail, Fault, ControlInv, ControlTypeOK, lifeVars, feedbackVars, commandVars, contactVars,
       FaultReasons, ControllerReasons
  <1>8. CASE Producer
    BY <1>1, <1>8 DEF Producer, ActivateFromMeasured, SubmitTarget, HoldRequest, ArmTerminalStopRequest
  <1>9. CASE CleanupStep
    BY <1>1, <1>2, <1>9 DEF CleanupStep, CleanupBegin, CleanupJoined, CleanupJoinTimeout, CleanupRejoinTimeout
  <1>10. CASE WorkerStep
    BY <1>1, <1>2, <1>3, <1>4, <1>5, <1>7, <1>10 DEF WorkerStep, Loop, TakeSnapshot, BeginHeld, BeginActive,
       ConsumeForce, DropStaleTarget, StartRead
  <1>11. CASE ReadStep \/ Expire
    BY <1>2, <1>6, <1>11 DEF ReadStep, EndRead, Expire
  <1> QED BY <1>1, <1>8, <1>9, <1>10, <1>11 DEF Next, vars

\* Every step keeps the types of the mailbox and of the worker.
LEMMA WorkerTypes ==
  ASSUME ControlInv, WorkerTypeOK, [Next]_vars
  PROVE  WorkerTypeOK'
  <1> USE WorkerAssumption
  <1>1. CASE ActivateFromMeasured
    <2>1. /\ activeRequested' = TRUE /\ submitted' = submitted + 1 /\ submitted < MaxSequence
          /\ pendingTarget' = {[seq |-> submitted + 1, measured |-> TRUE, values |-> angle]}
          /\ forcePending' = TRUE
          /\ lateWrites' = IF terminal = NoReason THEN 0 ELSE lateWrites
          /\ UNCHANGED <<terminal, shutdownVars, workerVars>>
      BY <1>1 DEF ActivateFromMeasured
    <2>2. submitted + 1 \in 1..MaxSequence /\ angle \in Pose
      BY <2>1 DEF WorkerTypeOK, ControlInv, ControlTypeOK
    <2>3. pendingTarget' \in Slot
      BY <2>1, <2>2 DEF Slot, Target
    <2> QED BY <2>1, <2>2, <2>3 DEF WorkerTypeOK, shutdownVars, workerVars
  <1>2. CASE SubmitTarget
    <2>1. PICK v \in Pose : pendingTarget' = {[seq |-> submitted + 1, measured |-> FALSE, values |-> v]}
      BY <1>2 DEF SubmitTarget
    <2>2. submitted + 1 \in 1..MaxSequence /\ submitted' = submitted + 1
      BY <1>2 DEF WorkerTypeOK, SubmitTarget
    <2>3. pendingTarget' \in Slot
      BY <2>1, <2>2 DEF Slot, Target
    <2> QED BY <1>2, <2>2, <2>3 DEF SubmitTarget, WorkerTypeOK, shutdownVars, workerVars
  <1>3. CASE HoldRequest \/ (\E reason \in TerminalReasons : ArmTerminalStopRequest(reason))
    <2>1. pendingTarget' \in Slot
      BY <1>3 DEF HoldRequest, ArmTerminalStopRequest, Slot
    <2> QED BY <1>3, <2>1 DEF HoldRequest, ArmTerminalStopRequest, WorkerTypeOK, shutdownVars, workerVars
  <1>4. CASE CleanupStep \/ Expire
    BY <1>4, ZenonT(60) DEF CleanupStep, CleanupBegin, CleanupJoined, CleanupJoinTimeout, CleanupRejoinTimeout, Expire,
       WorkerTypeOK, mailboxVars, shutdownVars, workerVars
  <1>5. CASE TakeSnapshot
    <2>1. snap' \in Snapshot
      BY <1>5 DEF TakeSnapshot, WorkerTypeOK, Snapshot
    <2> QED BY <1>5, <2>1 DEF TakeSnapshot, GoTo, WorkerTypeOK, mailboxVars, shutdownVars
  <1>6. CASE BeginHeld
    BY <1>6, ReliefPoseOpens DEF BeginHeld, GoTo, WorkerTypeOK, mailboxVars, shutdownVars
  <1>7. CASE Loop \/ BeginTerminal \/ BeginActive \/ ConsumeForce \/ StartRead \/ Fail \/ ReadStep
    BY <1>7, ZenonT(60) DEF Loop, BeginTerminal, BeginActive, ConsumeForce, StartRead, Fail, ReadStep, EndRead, GoTo,
       GoToUnlessRaised, WorkerTypeOK, mailboxVars, shutdownVars
  <1>8. CASE DropStaleTarget
    <2>1. evaluated' \in 0..MaxSequence
      BY <1>8, TargetFields, SnapshotFields DEF DropStaleTarget
    <2> QED BY <1>8, <2>1 DEF DropStaleTarget, WorkerTypeOK, mailboxVars, shutdownVars
  <1>9. CASE IssueCommand
    <2>1. evaluated' \in 0..MaxSequence /\ writtenSequence' \in 0..MaxSequence
      <3>1. PICK t \in snap.target :
              /\ writtenSequence' = IF outcome' = "serial_write_success" THEN t.seq ELSE writtenSequence
              /\ evaluated' = IF outcome' \in {"serial_write_success", "exact_duplicate_suppressed"}
                              THEN t.seq ELSE evaluated
        BY <1>9 DEF IssueCommand
      <3>2. t.seq \in 0..MaxSequence
        BY TargetFields, SnapshotFields
      <3> QED BY <3>1, <3>2 DEF WorkerTypeOK
    <2>2. lateWrites' \in Nat
      BY <1>9 DEF IssueCommand, WorkerTypeOK
    <2> QED BY <1>9, <2>1, <2>2 DEF IssueCommand, WorkerTypeOK, mailboxVars, shutdownVars
  <1>10. CASE IssueRelief
    BY <1>10 DEF IssueRelief, GoToUnlessRaised, WorkerTypeOK, mailboxVars, shutdownVars
  <1>11. CASE UNCHANGED vars
    BY <1>11 DEF vars, WorkerTypeOK, mailboxVars, shutdownVars, workerVars
  <1> QED BY <1>1, <1>2, <1>3, <1>4, <1>5, <1>6, <1>7, <1>8, <1>9, <1>10, <1>11 DEF Next, Producer, WorkerStep

-----------------------------------------------------------------------------
(* The parts of the inductive invariant *)

\* A write uses up the armed snapshot; a request after it arms a new one.
LEMMA LateWriteStep ==
  ASSUME WorkerTypeOK, LateWriteInv, [Next]_vars
  PROVE  LateWriteInv'
  <1> USE DEF LateWriteInv, WriterArmed
  <1>1. CASE Producer
    BY <1>1 DEF Producer, ActivateFromMeasured, SubmitTarget, HoldRequest, ArmTerminalStopRequest, workerVars
  <1>2. CASE CleanupStep \/ Expire \/ UNCHANGED vars
    BY <1>2 DEF CleanupStep, CleanupBegin, CleanupJoined, CleanupJoinTimeout, CleanupRejoinTimeout, Expire, vars,
       mailboxVars, workerVars
  <1>3. CASE TakeSnapshot
    BY <1>3 DEF TakeSnapshot, GoTo, mailboxVars
  <1>4. CASE IssueCommand
    BY <1>4 DEF IssueCommand, CommandDue, Commandable, mailboxVars, WorkerTypeOK
  <1>5. CASE \/ Loop \/ BeginTerminal \/ BeginHeld \/ BeginActive \/ ConsumeForce \/ DropStaleTarget \/ IssueRelief
             \/ StartRead \/ Fail \/ ReadStep
    <2>1. UNCHANGED <<snap, lateWrites, activeRequested, terminal>>
      BY <1>5 DEF Loop, BeginTerminal, BeginHeld, BeginActive, ConsumeForce, DropStaleTarget, IssueRelief, StartRead,
         Fail, ReadStep, EndRead, mailboxVars
    <2>2. \/ pc' \notin {"begin", "choose", "command"}
          \/ pc = "begin" /\ snap.terminal = NoReason
          \/ pc = "choose"
      BY <1>5 DEF Loop, BeginTerminal, BeginHeld, BeginActive, ConsumeForce, DropStaleTarget, IssueRelief, StartRead,
         Fail, ReadStep, EndRead, GoTo, GoToUnlessRaised
    <2> QED BY <2>1, <2>2
  <1> QED BY <1>1, <1>2, <1>3, <1>4, <1>5 DEF Next, WorkerStep

LEMMA SnapshotReasonStep ==
  ASSUME SnapshotReason, [Next]_vars
  PROVE  SnapshotReason'
  <1> USE DEF SnapshotReason
  <1>1. CASE Producer
    BY <1>1 DEF Producer, ActivateFromMeasured, SubmitTarget, HoldRequest, ArmTerminalStopRequest, workerVars
  <1>2. CASE CleanupStep \/ Expire \/ UNCHANGED vars
    BY <1>2 DEF CleanupStep, CleanupBegin, CleanupJoined, CleanupJoinTimeout, CleanupRejoinTimeout, Expire, vars,
       mailboxVars, workerVars
  <1>3. CASE TakeSnapshot
    BY <1>3 DEF TakeSnapshot, mailboxVars
  <1>4. CASE ReadStep \/ (WorkerStep /\ ~TakeSnapshot)
    BY <1>4 DEF WorkerStep, Loop, BeginTerminal, BeginHeld, BeginActive, ConsumeForce, DropStaleTarget, IssueCommand,
       IssueRelief, StartRead, Fail, ReadStep, EndRead, GoTo, GoToUnlessRaised
  <1> QED BY <1>1, <1>2, <1>3, <1>4 DEF Next

\* Sequences: a target is numbered when it is submitted and a command needs a
\* number the worker has not evaluated, or the one it wrote last.
LEMMA SequenceStep ==
  ASSUME WorkerTypeOK, SequenceInv, [Next]_vars
  PROVE  SequenceInv' /\ writtenSequence' >= writtenSequence
  <1> USE DEF SequenceInv
  <1>0. /\ submitted \in Nat /\ evaluated \in Nat /\ writtenSequence \in Nat
        /\ \A t \in pendingTarget : t.seq \in Nat
        /\ \A t \in snap.target : t.seq \in Nat
    <2>1. \A t \in pendingTarget : t.seq \in 1..MaxSequence
      BY TargetFields DEF WorkerTypeOK
    <2>2. \A t \in snap.target : t.seq \in 1..MaxSequence
      BY TargetFields, SnapshotFields
    <2> QED BY <2>1, <2>2, WorkerAssumption DEF WorkerTypeOK
  <1>1. CASE ActivateFromMeasured
    BY <1>0, <1>1 DEF ActivateFromMeasured, workerVars
  <1>2. CASE SubmitTarget
    BY <1>0, <1>2 DEF SubmitTarget, workerVars
  <1>3. CASE HoldRequest \/ (\E reason \in TerminalReasons : ArmTerminalStopRequest(reason))
    BY <1>0, <1>3 DEF HoldRequest, ArmTerminalStopRequest, workerVars
  <1>4. CASE CleanupStep \/ Expire \/ UNCHANGED vars
    BY <1>0, <1>4 DEF CleanupStep, CleanupBegin, CleanupJoined, CleanupJoinTimeout, CleanupRejoinTimeout, Expire, vars,
       mailboxVars, workerVars
  <1>5. CASE TakeSnapshot
    BY <1>0, <1>5 DEF TakeSnapshot, mailboxVars
  <1>6. CASE DropStaleTarget \/ IssueCommand
    <2>1. PICK t \in snap.target :
            /\ writtenSequence' \in {t.seq, writtenSequence} /\ evaluated' \in {t.seq, evaluated}
            /\ writtenSequence' = t.seq => evaluated' = t.seq \/ writtenSequence' = writtenSequence
      BY <1>6 DEF DropStaleTarget, IssueCommand
    <2>2. t.seq > evaluated \/ t.seq = writtenSequence
      <3>1. PICK u \in snap.target : RequiresCommand(u)
        BY <1>6 DEF DropStaleTarget, IssueCommand, Commandable
      <3>2. u = t
        BY TargetFields, SnapshotFields
      <3> QED BY <3>1, <3>2 DEF RequiresCommand
    <2>3. UNCHANGED <<snap, pendingTarget, submitted>>
      BY <1>6 DEF DropStaleTarget, IssueCommand, mailboxVars
    <2> QED BY <1>0, <2>1, <2>2, <2>3
  <1>7. CASE \/ Loop \/ BeginTerminal \/ BeginHeld \/ BeginActive \/ ConsumeForce \/ IssueRelief
             \/ StartRead \/ Fail \/ ReadStep
    <2>1. UNCHANGED <<snap, pendingTarget, submitted, writtenSequence, evaluated>>
      BY <1>7 DEF Loop, BeginTerminal, BeginHeld, BeginActive, ConsumeForce, IssueRelief, StartRead,
         Fail, ReadStep, EndRead, mailboxVars
    <2> QED BY <1>0, <2>1
  <1> QED BY <1>1, <1>2, <1>3, <1>4, <1>5, <1>6, <1>7 DEF Next, Producer, WorkerStep

\* Only activation and commands move the last command.
LEMMA QuietSteps ==
  ASSUME [Next]_vars, ~BeginActive, ~IssueCommand, ~IssueRelief
  PROVE  UNCHANGED lastCommand
  <1>1. CASE Producer \/ CleanupStep \/ Expire \/ UNCHANGED vars
    BY <1>1 DEF Producer, ActivateFromMeasured, SubmitTarget, HoldRequest, ArmTerminalStopRequest, CleanupStep,
       CleanupBegin, CleanupJoined, CleanupJoinTimeout, CleanupRejoinTimeout, Cleanup, Expire, FeedbackExpires, vars,
       controlVars, commandVars
  <1>2. CASE WorkerStep
    BY <1>2 DEF WorkerStep, Loop, TakeSnapshot, BeginTerminal, ArmTerminalStop, BeginHeld, HoldAndPopRelief, Hold,
       ConsumeForce, DropStaleTarget, StartRead, Fail, controlVars, commandVars
  <1>3. CASE ReadStep
    BY <1>3 DEF ReadStep, EndRead, PollForceRegister, PollForce, PollOtherRegister, PollClosed, PollAngle, PollOther,
       PollTimeout, PollFails, commandVars
  <1> QED BY <1>1, <1>2, <1>3 DEF Next

LEMMA ReliefStep ==
  ASSUME ControlInv, ReliefInv, [Next]_vars
  PROVE  ReliefInv'
  <1> USE DEF ReliefInv
  <1>1. CASE BeginHeld
    <2>1. reliefTarget' = ReliefPose /\ pc' = "choose" /\ UNCHANGED lastCommand
      BY <1>1 DEF BeginHeld, GoTo, HoldAndPopRelief, Hold, commandVars
    <2> QED BY <2>1, ReliefPoseOpens
  <1>2. CASE IssueRelief
    BY <1>2 DEF IssueRelief
  <1>3. CASE BeginActive \/ IssueCommand \/ ConsumeForce \/ DropStaleTarget \/ StartRead
    <2>1. reliefTarget' = {}
      BY <1>3 DEF BeginActive, IssueCommand, ConsumeForce, DropStaleTarget, StartRead, GoTo, GoToUnlessRaised
    <2> QED BY <2>1
  <1>4. CASE Loop \/ TakeSnapshot \/ BeginTerminal \/ Fail \/ ReadStep
    <2>1. reliefTarget' = {}
      BY <1>4 DEF Loop, TakeSnapshot, BeginTerminal, Fail, ReadStep, EndRead, GoTo, GoToUnlessRaised
    <2> QED BY <2>1
  <1>5. CASE Producer \/ CleanupStep \/ Expire \/ UNCHANGED vars
    <2>1. UNCHANGED workerVars
      BY <1>5 DEF Producer, ActivateFromMeasured, SubmitTarget, HoldRequest, ArmTerminalStopRequest, CleanupStep,
         CleanupBegin, CleanupJoined, CleanupJoinTimeout, CleanupRejoinTimeout, Expire, vars
    <2>2. UNCHANGED lastCommand
      BY <1>5 DEF Producer, ActivateFromMeasured, SubmitTarget, HoldRequest, ArmTerminalStopRequest, CleanupStep,
         CleanupBegin, CleanupJoined, CleanupJoinTimeout, CleanupRejoinTimeout, Cleanup, Expire, FeedbackExpires, vars,
         controlVars, commandVars
    <2> QED BY <2>1, <2>2 DEF workerVars
  <1> QED BY <1>1, <1>2, <1>3, <1>4, <1>5 DEF Next, WorkerStep

\* After cleanup() has returned no step of either thread touches the port.
LEMMA CleanupFinalStep ==
  ASSUME CleanupIsFinal, [Next]_vars
  PROVE  CleanupIsFinal'
  <1> USE DEF CleanupIsFinal
  <1>1. CASE Producer
    BY <1>1 DEF Producer, ActivateFromMeasured, SubmitTarget, HoldRequest, ArmTerminalStopRequest, ProducerMayCall,
       shutdownVars
  <1>2. CASE CleanupStep
    BY <1>2 DEF CleanupStep, CleanupBegin, CleanupJoined, CleanupJoinTimeout, CleanupRejoinTimeout, Cleanup, workerVars
  <1>3. CASE Expire \/ UNCHANGED vars
    BY <1>3 DEF Expire, FeedbackExpires, vars, controlVars, lifeVars, shutdownVars, workerVars
  <1>4. CASE WorkerStep \/ ReadStep
    BY <1>4 DEF WorkerStep, Loop, TakeSnapshot, BeginTerminal, BeginHeld, BeginActive, ConsumeForce, DropStaleTarget,
       IssueCommand, CommandDue, IssueRelief, StartRead, Fail, ReadStep, EndRead, GoTo, GoToUnlessRaised, shutdownVars
  <1> QED BY <1>1, <1>2, <1>3, <1>4 DEF Next

-----------------------------------------------------------------------------
(* The theorems *)

LEMMA WorkerInit == Init => WorkerInv
  <1> SUFFICES ASSUME Init PROVE WorkerInv
    OBVIOUS
  <1>1. ControlInv
    BY InitControl DEF Init
  <1>2. WorkerTypeOK
    <2>1. {} \in Slot
      BY DEF Slot
    <2>2. snap = [active |-> FALSE, target |-> {}, force |-> FALSE, terminal |-> NoReason]
      BY DEF Init
    <2>3. snap \in Snapshot
      BY <2>1, <2>2 DEF Snapshot
    <2>4. 0 \in 0..MaxSequence
      BY WorkerAssumption
    <2> QED BY <2>1, <2>3, <2>4 DEF Init, WorkerTypeOK
  <1>3. LateWriteInv /\ SnapshotReason /\ SequenceInv /\ ReliefInv /\ CleanupIsFinal
    BY DEF Init, LateWriteInv, WriterArmed, SnapshotReason, SequenceInv, ReliefInv, CleanupIsFinal
  <1> QED BY <1>1, <1>2, <1>3 DEF WorkerInv

LEMMA WorkerStepInv == WorkerInv /\ [Next]_vars => WorkerInv'
  BY WorkerControl, WorkerTypes, LateWriteStep, SnapshotReasonStep, SequenceStep, ReliefStep, CleanupFinalStep
     DEF WorkerInv

LEMMA WorkerInvariant == Spec => []WorkerInv
  BY WorkerInit, WorkerStepInv, PTL DEF Spec

\* Both threads keep the mailbox, the snapshot and the controller well typed.
THEOREM TypeCorrect == Spec => []TypeOK
  <1>1. WorkerInv => TypeOK
    BY DEF WorkerInv, WorkerTypeOK, TypeOK, ControlInv
  <1> QED BY <1>1, WorkerInvariant, PTL

\* hold() and arm_terminal_stop() stop the hand but for the one target the
\* worker had already taken.
THEOREM LateWriteCorrect == Spec => []AtMostOneLateWrite
  <1>1. WorkerInv => AtMostOneLateWrite
    BY DEF WorkerInv, LateWriteInv, AtMostOneLateWrite
  <1> QED BY <1>1, WorkerInvariant, PTL

\* cleanup() that returns normally leaves nothing running and the port closed.
THEOREM CleanupCorrect == Spec => []CleanupIsFinal
  <1>1. WorkerInv => CleanupIsFinal
    BY DEF WorkerInv
  <1> QED BY <1>1, WorkerInvariant, PTL

\* The contact holds stay in agreement under the threaded worker.
THEOREM ContactHoldCorrect == Spec => []ContactHasHold
  <1>1. WorkerInv => ContactHasHold
    BY DEF WorkerInv, ControlInv
  <1> QED BY <1>1, WorkerInvariant, PTL

\* The written sequence never goes back and was always submitted.
THEOREM SequenceCorrect == Spec => WritesNeverGoBack
  <1> DEFINE Forward == writtenSequence' >= writtenSequence /\ writtenSequence' <= submitted'
  <1>1. ASSUME WorkerInv, [Next]_vars PROVE Forward
    <2>1. SequenceInv' /\ WorkerTypeOK' /\ writtenSequence' >= writtenSequence
      BY <1>1, SequenceStep, WorkerTypes DEF WorkerInv
    <2>2. writtenSequence' \in Nat /\ evaluated' \in Nat /\ submitted' \in Nat
      BY <2>1, WorkerAssumption DEF WorkerTypeOK
    <2> QED BY <2>1, <2>2 DEF SequenceInv
  <1>2. WorkerInv /\ [Next]_vars => [Forward]_vars
    BY <1>1
  <1> QED BY <1>2, WorkerInvariant, PTL DEF Spec, WritesNeverGoBack

\* The first armed reason is the one the controller reports.
THEOREM TerminalReasonCorrect == Spec => TerminalReasonIsOwned
  <1> DEFINE Owned == terminal # NoReason /\ faultReason = NoReason /\ faultReason' \in TerminalReasons
                        => faultReason' = terminal
  <1>1. ASSUME WorkerInv, [Next]_vars PROVE Owned
    <2> USE <1>1
    <2> SUFFICES ASSUME faultReason = NoReason, faultReason' \in TerminalReasons
                 PROVE  faultReason' = terminal
      OBVIOUS
    <2>0. NoReason \notin TerminalReasons /\ ControllerReasons \cap TerminalReasons = {}
      BY TerminalReasonsAssumption
    <2>1. faultReason' # NoReason
      BY <2>0
    <2>2. faultReason' \notin ControllerReasons
      BY <2>0
    <2>3. CASE BeginTerminal
      BY <2>3 DEF BeginTerminal, GoTo, ArmTerminalStop, Fault, WorkerInv, SnapshotReason
    <2>4. CASE IssueCommand \/ IssueRelief
      <3>1. PICK t \in Pose, forceWrite \in BOOLEAN, measured \in BOOLEAN, isRelief \in BOOLEAN :
               Command(t, forceWrite, measured, isRelief)
        BY <2>4, IssueIsCommand DEF WorkerInv
      <3>2. faultReason' = faultReason \/ faultReason' \in ControllerReasons
        BY <3>1, Zenon DEF Command, CommandInactive, CommandRateLimited, CommandInvalid, CommandStale, CommandDeferred,
           CommandWaits, CommandWrites, Fault, ControllerReasons, lifeVars
      <3> QED BY <2>1, <2>2, <3>2
    <2>5. CASE ReadStep
      <3>1. faultReason' = faultReason \/ faultReason' \in ControllerReasons
        BY <2>5 DEF ReadStep, EndRead, PollForceRegister, PollForce, PollOtherRegister, PollClosed, PollAngle, PollOther,
           PollTimeout, PollFails, Fault, ControllerReasons, lifeVars
      <3> QED BY <2>1, <2>2, <3>1
    <2>6. CASE BeginActive \/ Fail
      <3>1. faultReason' = faultReason \/ faultReason' \in ControllerReasons
        BY <2>6 DEF BeginActive, Activate, Fail, Fault, ControllerReasons, lifeVars, controlVars
      <3> QED BY <2>1, <2>2, <3>1
    <2>7. CASE \/ Producer \/ CleanupStep \/ Expire \/ UNCHANGED vars \/ Loop \/ TakeSnapshot \/ BeginHeld
               \/ ConsumeForce \/ DropStaleTarget \/ StartRead
      <3>1. faultReason' = faultReason
        BY <2>7 DEF Producer, ActivateFromMeasured, SubmitTarget, HoldRequest, ArmTerminalStopRequest, CleanupStep,
           CleanupBegin, CleanupJoined, CleanupJoinTimeout, CleanupRejoinTimeout, Cleanup, Expire, FeedbackExpires,
           Loop, TakeSnapshot, BeginHeld, HoldAndPopRelief, Hold, ConsumeForce, DropStaleTarget, StartRead, vars,
           controlVars, lifeVars
      <3> QED BY <2>1, <3>1
    <2> QED BY <2>3, <2>4, <2>5, <2>6, <2>7 DEF Next, WorkerStep
  <1>2. WorkerInv /\ [Next]_vars => [Owned]_vars
    BY <1>1
  <1> QED BY <1>2, WorkerInvariant, PTL DEF Spec, TerminalReasonIsOwned

\* The relief write is the only write of a held hand, and it opens.
THEOREM HeldHandCorrect == Spec => HeldHandOnlyOpens
  <1> DEFINE Opens == state = "HOLD" /\ state' # "ACTIVE" =>
                        \A c \in Channels : lastCommand'[c] <= lastCommand[c]
  <1>1. ASSUME WorkerInv, [Next]_vars PROVE Opens
    <2> USE <1>1
    <2> SUFFICES ASSUME state = "HOLD", state' # "ACTIVE", NEW c \in Channels
                 PROVE  lastCommand'[c] <= lastCommand[c]
      OBVIOUS
    <2>1. lastCommand[c] \in Int
      BY DEF WorkerInv, ControlInv, ControlTypeOK, Pose, Position
    <2>2. CASE UNCHANGED lastCommand
      BY <2>1, <2>2
    <2>3. CASE BeginActive
      <3>1. UNCHANGED lastCommand
        BY <2>3 DEF BeginActive, Activate, commandVars
      <3> QED BY <2>1, <3>1
    <2>4. CASE IssueCommand
      <3> DEFINE isRelief == FALSE
      <3>1. PICK t \in snap.target :
               Command(IF t.measured THEN angle ELSE t.values, snap.force, t.measured, isRelief)
        BY <2>4, Zenon DEF IssueCommand
      <3>2. isRelief \in BOOLEAN /\ ~isRelief
        OBVIOUS
      <3>3. t.measured \in BOOLEAN /\ t.values \in Pose /\ angle \in Pose /\ snap.force \in BOOLEAN
        BY TargetFields, SnapshotFields DEF WorkerInv, ControlInv, ControlTypeOK
      <3> HIDE DEF isRelief
      <3>4. (IF t.measured THEN angle ELSE t.values) \in Pose
        BY <3>3
      <3>5. UNCHANGED lastCommand
        BY <3>1, <3>2, <3>3, <3>4, HeldHandIdle
      <3> QED BY <2>1, <3>5
    <2>5. CASE IssueRelief
      <3> DEFINE relieving == TRUE
      <3> DEFINE measured == FALSE
      <3>1. PICK t \in reliefTarget : Command(t, relieving, measured, relieving)
        BY <2>5, Zenon DEF IssueRelief
      <3>2. t \in Pose /\ t[c] <= lastCommand[c]
        BY DEF WorkerInv, WorkerTypeOK, ReliefInv
      <3>3. measured \in BOOLEAN /\ relieving \in BOOLEAN
        OBVIOUS
      <3> HIDE DEF measured, relieving
      <3> QED BY <3>1, <3>2, <3>3, OpeningCommandOpens DEF WorkerInv
    <2> QED BY <2>2, <2>3, <2>4, <2>5, QuietSteps
  <1>2. WorkerInv /\ [Next]_vars => [Opens]_controlVars
    BY <1>1
  <1> QED BY <1>2, WorkerInvariant, PTL DEF Spec, HeldHandOnlyOpens

\* The hand obeys its producer: one late write at the most, sequences that never
\* go back, and a held hand that is opened only.
THEOREM ProducerCorrect == Spec => HandObeysProducer
BY LateWriteCorrect, SequenceCorrect, HeldHandCorrect, PTL DEF HandObeysProducer

\* The first terminal reason is the reported one, and nothing follows a cleanup.
THEOREM ShutdownCorrect == Spec => ShutdownIsFinal
BY CleanupCorrect, TerminalReasonCorrect, PTL DEF ShutdownIsFinal
=============================================================================
