----------------------------- MODULE QuestSession -----------------------------
(***************************************************************************)
(* The Quest teleoperation producer: SmoothQuestJakaSession.control_tick,  *)
(* src/quest_jaka_sim/smooth_session.py, fed by LiveQuestControllerRouter, *)
(* driving the arm through JakaAcceptedJointTargetAdapter and the hand     *)
(* through the RH56 worker, inside the producer loop of                    *)
(* tools/quest_jaka_hardware.py.                                           *)
(*                                                                         *)
(* One unit of "now" is a control period.  A datagram drained before a     *)
(* tick was received in this period or Lag periods ago.  The HTS           *)
(* stream (right hand and head) is seen only through its validity at the   *)
(* tick; inverse kinematics and the feasibility gates only through the     *)
(* result of the last continuation attempt.                                *)
(***************************************************************************)
EXTENDS QuestController, Sequences

CONSTANTS
  RecoveryTimeout,  \* input_recovery_timeout_ns, in control periods
  Lag,              \* control periods a received datagram may wait undrained
  MaxNow            \* bound: control periods explored

ASSUME SessionAssumption ==
  RecoveryTimeout \in Nat \ {0} /\ Lag \in {0, 1} /\ MaxNow \in Nat

VARIABLES
  now,       \* time of the next control tick
  provider,  \* ControllerProvider
  gate,      \* ControllerClutchAdapter
  arm,       \* session.arm_clutch
  hand,      \* session.hand_clutch
  mapper,    \* arm_mapper holds a captured reference
  handRef,   \* the hand references of _capture_hand_reference are set
  recovery,  \* _input_recovery_started_ns
  hold,      \* _input_recovery_persistent_hold
  refGen,    \* reference_generation
  accepted,  \* _accepted_sequence
  handOut,   \* what the RH56 output was last told: held, active or terminal
  prior,     \* prior_engaged of the producer loop
  stopped,   \* jaka_adapter.stopped; the loop has been left
  sent,      \* the packets of the last tick, in dispatch order
  history    \* reading aids for the properties, see HistoryInit

input == <<provider, gate>>
session == <<arm, hand, mapper, handRef, recovery, hold, refGen, accepted>>
outputs == <<handOut, prior, stopped, sent>>
vars == <<now, input, session, outputs, history>>

\* What the properties need to remember: the index trigger was seen released
\* since the last capture (released) and by a sample newer than the active arm
\* fault (rearmed); both controls were seen released in one packet since the
\* controller last became unusable (both); the generation of the last target
\* sent (gen) and whether a pause or stop followed it (paused).
HistoryInit ==
  [released |-> FALSE, rearmed |-> FALSE, both |-> FALSE, gen |-> 0,
   paused |-> TRUE]

Init ==
  /\ now = 1
  /\ provider = ProviderInit
  /\ gate = GateInit
  /\ arm = ClutchInit
  /\ hand = ClutchInit
  /\ mapper = FALSE
  /\ handRef = FALSE
  /\ recovery = None
  /\ hold = FALSE
  /\ refGen = 0
  /\ accepted = 0
  /\ handOut = "held"
  /\ prior = FALSE
  /\ stopped = FALSE
  /\ sent = <<>>
  /\ history = HistoryInit

\* A datagram drained now was received at most Lag periods ago, and not before
\* the controller packet drained before it.
ReceiveTimes == {t \in (now - Lag) .. now : t >= provider.at}

\* The router publishes the provider's snapshot to the session: the adapter
\* takes its step.  The frame itself is recomputed by the tick's own poll.
Publish(p, t) ==
  /\ provider' = p
  /\ gate' = GateStep(gate, p, t)
  /\ history' = [history EXCEPT !.both =
       \/ /\ ControllerValid(p, t) /\ p.index = "low" /\ p.grip = "low"
       \/ /\ history.both
          /\ ControllerValid(p, t)
          /\ p.session = provider.session]

\* LiveQuestControllerRouter.ingest of a well-formed CTRL datagram
ControllerPacket ==
  /\ ~stopped
  /\ \E pkt \in Packet, t \in ReceiveTimes : Publish(Update(provider, pkt, t), t)
  /\ UNCHANGED <<now, session, outputs>>

\* LiveQuestControllerRouter.ingest of a malformed CTRL datagram
MalformedController ==
  /\ ~stopped
  /\ \E t \in ReceiveTimes : Publish(Invalidate(provider), t)
  /\ UNCHANGED <<now, session, outputs>>

\* Mutant: the arm clutch is not faulted.
MalformedHandData_HandOnly ==
  /\ ~stopped
  /\ \E t \in (now - Lag) .. now : hand' = ClutchFault(hand, t)
  /\ mapper' = FALSE
  /\ handRef' = FALSE
  /\ UNCHANGED <<now, input, arm, recovery, hold, refGen, accepted, outputs,
                 history>>

\* SmoothQuestJakaSession.ingest of a malformed HTS datagram: wrist and skeleton
\* share it, so both clutches fault, at the time it was received.
MalformedHandData ==
  /\ ~stopped
  /\ \E t \in (now - Lag) .. now :
       /\ arm' = ClutchFault(arm, t)
       /\ hand' = ClutchFault(hand, t)
  /\ mapper' = FALSE
  /\ handRef' = FALSE
  /\ history' = [history EXCEPT !.rearmed = FALSE]
  /\ UNCHANGED <<now, input, recovery, hold, refGen, accepted, outputs>>

-----------------------------------------------------------------------------
(* One control tick.  in = [tracked, head, features]: the right hand is    *)
(* tracked and fresh, the head pose is, and retargeting the skeleton gave  *)
(* valid features.  The definitions below follow control_tick's order.     *)

Inputs == {in \in [tracked : BOOLEAN, head : BOOLEAN, features : BOOLEAN] :
             in.features => in.tracked}

\* Mutant: the timer is not reset when the stream is back.
RecoveryTimer_NoReset(left, in) ==
  IF refGen = 0 \/ hold THEN recovery
  ELSE IF ~(left /\ in.tracked) /\ recovery = None THEN now
  ELSE recovery

\* The input recovery timer, started while the arm stream is invalid.
RecoveryTimer(left, in) ==
  IF refGen = 0 \/ hold THEN recovery
  ELSE IF left /\ in.tracked THEN None
  ELSE IF recovery = None THEN now
  ELSE recovery

\* A lost controller faults a clutch that is not faulted yet.
ControllerLoss(c, left) ==
  IF ~left /\ c.state # "fault" THEN ClutchFault(c, now) ELSE c

\* Wrist loss belongs to the arm channel alone.
WristLoss(c, in) ==
  IF ~in.tracked /\ c.state = "engaged" THEN ClutchFault(c, now) ELSE c

ArmTick(f, in) ==
  ArmStep(WristLoss(ControllerLoss(arm, f.left), in), f.index, now,
          f.left, in.tracked, in.tracked /\ in.head)

\* The hand machine receives the grip only: skeleton_valid=True.
HandTick(f) ==
  HandStep(ControllerLoss(hand, f.left), f.grip, now, f.left, TRUE)

\* Mutant: a lost wrist faults the hand clutch as well.
HandAfter_WristLoss(f, in) == ControllerLoss(HandTick(f).clutch, in.tracked)

\* The hand half of the tick: references are captured on the press edge, or
\* the grip cycle faults; otherwise they are dropped, and the RH56 output held,
\* whenever the clutch is not active.
HandAfter(f, in) ==
  LET step == HandTick(f)
  IN IF step.action = "reacquire" /\ ~in.features
     THEN ClutchFault(step.clutch, now) ELSE step.clutch

HandActive(c) == c.state \in {"acquiring", "engaged"}

HandRefAfter(f, in) ==
  IF HandTick(f).action = "reacquire" THEN in.features
  ELSE handRef /\ HandActive(HandTick(f).clutch)

HandOutAfter(f, in) ==
  CASE HandTick(f).action = "reacquire" /\ in.features  -> "active"
    [] HandTick(f).action = "reacquire" /\ ~in.features -> handOut
    [] HandTick(f).action # "reacquire" ->
         IF HandActive(HandTick(f).clutch) THEN handOut ELSE "held"

HandHalf(f, in) ==
  /\ hand' = HandAfter(f, in)
  /\ handRef' = HandRefAfter(f, in)

\* What reaches the arm output in a tick.
Target(generation) == [kind |-> "target", gen |-> generation]
Heartbeat == [kind |-> "heartbeat", gen |-> 0]
Refused == [kind |-> "refused", gen |-> 0]
Pause == [kind |-> "pause", gen |-> 0]
Stop == [kind |-> "stop", gen |-> 0]

\* The engagement ended in this tick: the native worker must be paused.
ClutchEdge(failed) == prior /\ arm'.state # "engaged" /\ ~failed

\* The producer loop after control_tick.  out is the session's packet, if it
\* made one, and applied whether the transport took it (its refusal is recorded
\* in sent); failed is
\* _control_output_failed.  A failed dispatch stops the arm and terminates the
\* hand; a clutch that left ENGAGED is paused, and a pause that cannot be sent
\* ends the loop the same way.
AfterTick(out, applied, failed, handOutput) ==
  LET edge == ClutchEdge(failed)
  IN \E pauseSent \in BOOLEAN :
       LET leave == failed \/ (edge /\ ~pauseSent)
           delivered == (IF applied \/ out = <<>> THEN out ELSE <<Refused>>)
                          \o (IF edge /\ pauseSent THEN <<Pause>> ELSE <<>>)
                          \o (IF leave THEN <<Stop>> ELSE <<>>)
       IN /\ prior' = (arm'.state = "engaged")
          /\ stopped' = leave
          /\ handOut' = IF leave THEN "terminal" ELSE handOutput
          /\ sent' = delivered

\* No target this tick: the recovery deadline turns into a persistent hold,
\* and a faulted or a live disengaged arm publishes a heartbeat.
NoTarget(f, in, step) ==
  LET timer == RecoveryTimer(f.left, in)
      kept == hold /\ step.clutch.state # "disengaged"
      timedOut == timer # None /\ now - timer > RecoveryTimeout /\ ~kept
      clutch == IF timedOut THEN ClutchFault(step.clutch, now) ELSE step.clutch
      captured == refGen > 0 /\ clutch.cycles > 0
      inRecovery == clutch.state = "fault" /\ captured
      live == clutch.state = "disengaged" /\ captured /\ f.left /\ in.tracked
      out == IF inRecovery \/ live THEN <<Heartbeat>> ELSE <<>>
  IN \E applied \in BOOLEAN :
       /\ arm' = clutch
       /\ hold' = (kept \/ timedOut)
       /\ recovery' = IF timedOut THEN None ELSE timer
       /\ mapper' = FALSE
       /\ AfterTick(out, applied, inRecovery /\ ~applied, HandOutAfter(f, in))
       /\ UNCHANGED <<refGen, accepted>>

\* _arm_target on a press edge completes the capture in the same tick.
ArmTarget(step) ==
  IF step.action = "capture" THEN ReferenceCaptured(step.clutch)
  ELSE step.clutch

Generation(step) == IF step.action = "capture" THEN refGen + 1 ELSE refGen

\* What the last continuation attempt can be: accepted, rejected (any gate, or
\* the compute budget), or a hard stop (branch discontinuity, or a hard
\* singularity at the accepted state).
Results == {"accepted", "rejected", "hard_stop"}

\* A hard stop faults the clutch; a rejection never does.
ArmOnResult(step, result) ==
  IF result = "hard_stop" THEN ClutchFault(ArmTarget(step), now)
  ELSE ArmTarget(step)

PacketOnResult(step, result) ==
  CASE result = "accepted"  -> <<Target(Generation(step))>>
    [] result = "rejected"  -> <<Heartbeat>>
    [] result = "hard_stop" -> <<>>

\* A target exists; an update needs the mapper's reference.
HasTarget(f, in, step) ==
  \E result \in Results, applied \in BOOLEAN :
    /\ step.action = "update" => mapper
    /\ arm' = ArmOnResult(step, result)
    /\ mapper' = (result # "hard_stop")
    /\ refGen' = Generation(step)
    /\ accepted' = IF result = "accepted" THEN accepted + 1 ELSE accepted
    /\ hold' = (hold /\ step.clutch.state # "disengaged")
    /\ recovery' = RecoveryTimer(f.left, in)
    /\ AfterTick(PacketOnResult(step, result), applied,
                 result = "hard_stop" \/ ~applied, HandOutAfter(f, in))

\* The history of one tick.
Remember(f) ==
  LET seen == f.left /\ Fresh(f.index, now) /\ f.index.value = "low"
      refaulted == arm'.faultAt \notin {arm.faultAt, None}
      targets == {p \in {sent'[i] : i \in DOMAIN sent'} : p.kind = "target"}
      pauses == {p \in {sent'[i] : i \in DOMAIN sent'} :
                   p.kind \in {"pause", "stop"}}
  IN history' =
       [released |-> (refGen' = refGen /\ (history.released \/ seen)),
        rearmed |-> /\ ~refaulted
                    /\ \/ history.rearmed
                       \/ seen /\ f.index.at > arm.faultAt,
        both |-> history.both /\ f.left,
        gen |-> IF targets = {} THEN history.gen ELSE refGen',
        paused |-> pauses # {} \/ (targets = {} /\ history.paused)]

Tick ==
  /\ ~stopped
  /\ now < MaxNow
  /\ now' = now + 1
  /\ gate' = GateStep(gate, provider, now)
  /\ \E in \in Inputs :
       LET f == Frame(provider, gate', now)
           step == ArmTick(f, in)
       IN /\ HandHalf(f, in)
          /\ \/ step.action = "freeze" /\ NoTarget(f, in, step)
             \/ step.action # "freeze" /\ HasTarget(f, in, step)
          /\ Remember(f)
  /\ UNCHANGED provider

\* The loop is left: the RH56 worker failed, the native worker exited, the
\* receiver or an output raised.  The arm is stopped, the hand terminated.
Abort ==
  /\ ~stopped
  /\ stopped' = TRUE
  /\ handOut' = "terminal"
  /\ sent' = <<Stop>>
  /\ history' = [history EXCEPT !.paused = TRUE]
  /\ UNCHANGED <<now, input, session, prior>>

\* The run's duration is over, or the operator interrupts it.
Finish ==
  /\ ~stopped
  /\ stopped' = TRUE
  /\ handOut' = "held"
  /\ sent' = <<Stop>>
  /\ history' = [history EXCEPT !.paused = TRUE]
  /\ UNCHANGED <<now, input, session, prior>>

Next == ControllerPacket \/ MalformedController \/ MalformedHandData
          \/ Tick \/ Abort \/ Finish

Spec == Init /\ [][Next]_vars
-----------------------------------------------------------------------------
Message == [kind : {"target", "heartbeat", "refused", "pause", "stop"}, gen : Nat]

History == [released : BOOLEAN, rearmed : BOOLEAN, both : BOOLEAN,
            gen : Nat, paused : BOOLEAN]

TypeOK ==
  /\ now \in Nat \ {0}
  /\ provider \in Provider
  /\ gate \in Gate
  /\ arm \in Clutch
  /\ hand \in Clutch
  /\ mapper \in BOOLEAN
  /\ handRef \in BOOLEAN
  /\ recovery \in Nat \cup {None}
  /\ hold \in BOOLEAN
  /\ refGen \in Nat
  /\ accepted \in Nat
  /\ handOut \in {"held", "active", "terminal"}
  /\ prior \in BOOLEAN
  /\ stopped \in BOOLEAN
  /\ sent \in Seq(Message)
  /\ history \in History

\* An engaged arm always has the reference its targets are computed from:
\* LatchedHeadYawArmMapper.target would raise without one, and every path that
\* clears the mapper must also have taken the clutch out of ENGAGED.
EngagedHasReference == arm.state = "engaged" => mapper

\* A grip cycle that is under way has its hand references, and the RH56 output
\* was activated for it and not held since.
GripHasReference ==
  HandActive(hand) /\ ~stopped => handRef /\ handOut = "active"

\* The persistent hold that follows an input recovery timeout keeps the arm
\* clutch faulted: it cannot outlive the release that re-arms the clutch, and
\* no press can engage under it.
HoldKeepsArmFaulted == hold => arm.state = "fault" /\ recovery = None

\* While the input recovery timer runs, the arm is not following the wrist,
\* and the timer never outlives its deadline.
RecoveryFreezesArm ==
  recovery # None => arm.state # "engaged" /\ now - recovery <= RecoveryTimeout + 1

\* Release before press: a reference is captured only after the index trigger
\* was seen released since the previous capture, whatever faults, session
\* changes and lost packets lie between.
ReleaseBeforeCapture == [][refGen' # refGen => history.released]_vars

\* A tick leaves a clutch active only if the controller has been usable and of
\* one session ever since some packet showed both controls released.
SharedReleaseBeforePress ==
  [][now' # now /\ (arm'.state = "engaged" \/ HandActive(hand'))
       => history'.both]_vars

\* No target of a new engagement reaches the native worker until the previous
\* engagement was paused there.
PauseBetweenEngagements ==
  [][history'.gen # history.gen => history.paused]_vars

\* Losing the wrist, the head or the skeleton, or a fault of the arm, never
\* takes an active grip away: while the loop goes on, only the grip itself or
\* the shared controller does.
HandSurvivesArmLoss ==
  [][now' # now /\ HandActive(hand) /\ provider.grip # "low"
       /\ ControllerValid(provider, now) /\ ~gate'.release
       => HandActive(hand')]_vars

\* require_release, "Re-arm only after a new valid released sample is
\* observed": the arm leaves its fault only if a released sample newer than
\* the fault was observed.
RearmedByNewRelease ==
  [][arm.state = "fault" /\ arm'.state = "disengaged"
       => history'.rearmed]_vars

\* Hold-to-run: after a tick the arm is engaged only while the latest
\* controller sample does not show the index trigger released.  A sample that
\* carries the number last observed is the exception: AnalogHoldToRun.observe
\* cannot tell the first packet of a restarted sender from the old one.
EngagedWhileHeld ==
  [][now' # now /\ arm'.state = "engaged" /\ provider.seq # arm.last
       => provider.index # "low"]_vars

\* Neither machine is active without what its targets are computed from: the
\* arm's mapper reference, the hand's references and an activated output.
ActiveHasReference == EngagedHasReference /\ GripHasReference

\* The recovery of a lost input stays a frozen arm that ends by its deadline,
\* in the operator's release or in a hold that only a release leaves.
RecoveryIsContained == HoldKeepsArmFaulted /\ RecoveryFreezesArm

\* Hold-to-run: every engagement starts from a press after a release, of both
\* controls after the controller was lost, the arm's lasts at most while its
\* trigger is held, the hand's at least while its grip is held over a valid
\* controller, whatever the arm loses, and an engagement of the arm is paused
\* at the native worker before the next one sends a target.
HoldToRun ==
  /\ ReleaseBeforeCapture
  /\ SharedReleaseBeforePress
  /\ EngagedWhileHeld
  /\ HandSurvivesArmLoss
  /\ PauseBetweenEngagements

\* The recovery of a lost input is a hold in which "the native heartbeat
\* remains live": every tick of it delivers or at least attempts a packet.
RecoveryKeepsHeartbeat ==
  [][now' # now /\ ~stopped' /\ (recovery' # None \/ hold')
       => sent' # <<>>]_vars
=============================================================================
