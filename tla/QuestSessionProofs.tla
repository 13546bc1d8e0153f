-------------------------- MODULE QuestSessionProofs --------------------------
(***************************************************************************)
(* Proofs about QuestSession, for every set of sessions, sequence numbers  *)
(* and trigger bands and every value of the timeouts.                      *)
(*                                                                         *)
(* The invariants checked by the runs are not inductive one by one: that a *)
(* persistent hold is faulted needs the timer to be off under it, the      *)
(* timer needs a captured reference, and the arm must never rest in        *)
(* REFERENCE_CAPTURE, which control_tick completes within one tick.        *)
(* SessionInv is their conjunction with these two facts.                   *)
(*                                                                         *)
(* The hold-to-run contract is about presses, releases and pauses that lie *)
(* in the past.  HistoryInv says what the session still remembers of them  *)
(* whenever an engagement could start, and the contract follows from the   *)
(* two invariants together.                                                *)
(***************************************************************************)
EXTENDS QuestSession, TLAPS

TimerNeedsReference == refGen = 0 => recovery = None

CaptureIsInstant == arm.state # "acquiring"

SessionInv ==
  /\ TypeOK
  /\ EngagedHasReference
  /\ GripHasReference
  /\ HoldKeepsArmFaulted
  /\ RecoveryFreezesArm
  /\ TimerNeedsReference
  /\ CaptureIsInstant

-----------------------------------------------------------------------------
(* The clutch machines.                                                    *)

\* AnalogHoldToRun.observe keeps the machine's state and the record's type.
LEMMA ObserveType ==
  ASSUME NEW c \in Clutch, NEW s \in Sample, NEW fresh \in BOOLEAN
  PROVE  /\ Observe(c, s, fresh) \in Clutch
         /\ Observe(c, s, fresh).state = c.state
         /\ Observe(c, s, fresh).faultAt = c.faultAt
         /\ Observe(c, s, fresh).start = c.start
         /\ Observe(c, s, fresh).cycles = c.cycles
<1> DEFINE o == Observe(c, s, fresh)
<1>1. CASE ~fresh \/ s.seq = c.last
  BY <1>1 DEF Observe
<1>2. CASE ~(~fresh \/ s.seq = c.last)
  <2> DEFINE p == CASE s.value = "high" -> "yes" [] s.value = "low" -> "no"
                    [] OTHER -> c.pressed
  <2>1. p \in {"unknown", "yes", "no"}
    BY DEF Clutch
  <2>2. o = [c EXCEPT !.last = s.seq, !.pressed = p,
                      !.rel = c.rel \/ s.value = "low"]
    BY <1>2 DEF Observe
  <2> HIDE DEF p
  <2>3. s.seq \in Nat /\ (c.rel \/ s.value = "low") \in BOOLEAN
    BY DEF Sample, Clutch
  <2> QED BY <2>1, <2>2, <2>3 DEF Clutch
<1> QED BY <1>1, <1>2

\* A fault of either machine leaves a well-typed clutch in TRACKING_FAULT.
LEMMA FaultType ==
  ASSUME NEW c \in Clutch, NEW t \in Nat
  PROVE  /\ ClutchFault(c, t) \in Clutch
         /\ ClutchFault(c, t).state = "fault"
         /\ ClutchFault(c, t).cycles = c.cycles
BY DEF ClutchFault, RequireRelease, Clutch, ClutchStates

\* What ArmClutchMachine.step may do: a capture needs the controller and the
\* capture inputs, an update an engaged clutch with a valid wrist, and a
\* faulted clutch can only stay faulted or disengage.
LEMMA ArmStepFacts ==
  ASSUME NEW c \in Clutch, NEW s \in Sample, NEW t \in Nat,
         NEW controller \in BOOLEAN, NEW continuous \in BOOLEAN,
         NEW capture \in BOOLEAN, c.state # "acquiring"
  PROVE  LET r == ArmStep(c, s, t, controller, continuous, capture)
         IN /\ r.clutch \in Clutch
            /\ r.action \in {"freeze", "capture", "update"}
            /\ r.action = "freeze" =>
                 r.clutch.state \notin {"engaged", "acquiring"}
            /\ r.action = "capture" => /\ controller /\ capture
                                       /\ c.state = "disengaged"
                                       /\ r.clutch.state = "acquiring"
            /\ r.action = "update" => /\ controller /\ continuous
                                      /\ c.state = "engaged"
                                      /\ r.clutch.state = "engaged"
            /\ c.state = "fault" =>
                 /\ r.action = "freeze"
                 /\ r.clutch.state \in {"fault", "disengaged"}
<1> DEFINE fresh == controller /\ Fresh(s, t)
           o == Observe(c, s, fresh)
           r == ArmStep(c, s, t, controller, continuous, capture)
<1>1. fresh \in BOOLEAN
  BY DEF Fresh, Sample
<1>2. o \in Clutch /\ o.state = c.state
  BY <1>1, ObserveType
<1>3. ClutchFault(o, t) \in Clutch /\ ClutchFault(o, t).state = "fault"
  BY <1>2, FaultType
<1>4. c.state \in {"waiting", "disengaged", "engaged", "fault"}
  BY DEF Clutch, ClutchStates
<1> HIDE DEF o
<1>5. CASE c.state = "waiting"
  <2>1. r = Freeze(Arm(o, fresh))
    BY <1>5, <1>2 DEF ArmStep, o
  <2> QED BY <2>1, <1>5, <1>2, <1>1 DEF Freeze, Arm, Clutch, ClutchStates
<1>6. CASE c.state = "fault"
  <2>1. r = Freeze(Recover(o, s, fresh, capture))
    BY <1>6, <1>2 DEF ArmStep, o
  <2>2. \/ Recover(o, s, fresh, capture) = o
        \/ Recover(o, s, fresh, capture)
             = [o EXCEPT !.state = "disengaged", !.faultAt = None]
    BY DEF Recover
  <2> DEFINE n == Recover(o, s, fresh, capture)
  <2> HIDE DEF n, r
  <2>3. n \in Clutch /\ n.state \in {"fault", "disengaged"}
    BY <2>2, <1>6, <1>2 DEF n, Clutch, ClutchStates
  <2>4. r = [clutch |-> n, action |-> "freeze"]
    BY <2>1 DEF n, Freeze
  <2> QED BY <2>3, <2>4, <1>6 DEF r
<1>7. CASE c.state = "disengaged"
  <2>1. CASE ~fresh
    <3>1. r = Freeze(ClutchFault(o, t))
      BY <1>7, <1>2, <2>1 DEF ArmStep, o
    <3> QED BY <3>1, <1>3, <1>7 DEF Freeze
  <2>2. CASE fresh
    <3>1. r = IF ~RisingEdge(c, o) THEN Freeze(o)
              ELSE IF ~capture THEN Freeze(ClutchFault(o, t))
              ELSE [clutch |-> [o EXCEPT !.state = "acquiring"],
                    action |-> "capture"]
      BY <1>7, <1>2, <2>2 DEF ArmStep, o
    <3> QED BY <3>1, <1>3, <1>2, <1>7, <2>2 DEF Freeze, Clutch, ClutchStates
  <2> QED BY <2>1, <2>2
<1>8. CASE c.state = "engaged"
  <2>1. CASE ~fresh
    <3>1. r = Freeze(ClutchFault(o, t))
      BY <1>8, <1>2, <2>1 DEF ArmStep, o
    <3> QED BY <3>1, <1>3, <1>8 DEF Freeze
  <2>2. CASE fresh
    <3>1. r = IF ~continuous THEN Freeze(ClutchFault(o, t))
              ELSE IF o.pressed = "no"
              THEN Freeze([o EXCEPT !.state = "disengaged"])
              ELSE [clutch |-> o, action |-> "update"]
      BY <1>8, <1>2, <2>2 DEF ArmStep, o
    <3> QED BY <3>1, <1>3, <1>2, <1>8, <2>2 DEF Freeze, Clutch, ClutchStates
  <2> QED BY <2>1, <2>2
<1> QED BY <1>4, <1>5, <1>6, <1>7, <1>8

\* Starting a cycle keeps the type of either clutch.
LEMMA CycleType ==
  ASSUME NEW c \in Clutch, NEW t \in Nat
  PROVE  /\ [c EXCEPT !.state = "acquiring", !.start = t,
                      !.cycles = c.cycles + 1] \in Clutch
         /\ ReferenceCaptured(c) \in Clutch
         /\ ReferenceCaptured(c).state = "engaged"
<1>1. PICK n \in Nat : n = c.cycles + 1
  BY DEF Clutch
<1>2. [c EXCEPT !.state = "acquiring", !.start = t, !.cycles = n] \in Clutch
  BY DEF Clutch, ClutchStates
<1>3. /\ [c EXCEPT !.state = "engaged", !.cycles = n] \in Clutch
      /\ [c EXCEPT !.state = "engaged", !.cycles = n].state = "engaged"
  BY DEF Clutch, ClutchStates
<1> QED BY <1>1, <1>2, <1>3 DEF ReferenceCaptured

\* HandClutchMachine.step keeps the type, and only a reacquisition makes an
\* inactive hand clutch active.
LEMMA HandStepFacts ==
  ASSUME NEW c \in Clutch, NEW s \in Sample, NEW t \in Nat,
         NEW controller \in BOOLEAN, NEW skeleton \in BOOLEAN
  PROVE  LET r == HandStep(c, s, t, controller, skeleton)
         IN /\ r.clutch \in Clutch
            /\ r.action # "reacquire" /\ HandActive(r.clutch) => HandActive(c)
<1> DEFINE fresh == controller /\ Fresh(s, t)
           o == Observe(c, s, fresh)
           r == HandStep(c, s, t, controller, skeleton)
<1>1. fresh \in BOOLEAN
  BY DEF Fresh, Sample
<1>2. o \in Clutch /\ o.state = c.state
  BY <1>1, ObserveType
<1>3. ClutchFault(o, t) \in Clutch /\ ClutchFault(o, t).state = "fault"
  BY <1>2, FaultType
<1> HIDE DEF o
<1>4. c.state \in ClutchStates
  BY DEF Clutch
<1>5. CASE c.state = "waiting"
  <2>1. r = Freeze(Arm(o, fresh))
    BY <1>5, <1>2 DEF HandStep, o
  <2> QED BY <2>1, <1>5, <1>2, <1>1 DEF Freeze, Arm, HandActive, Clutch, ClutchStates
<1>6. CASE c.state = "fault"
  <2>1. r = Freeze(Recover(o, s, fresh, skeleton))
    BY <1>6, <1>2 DEF HandStep, o
  <2>2. \/ Recover(o, s, fresh, skeleton) = o
        \/ Recover(o, s, fresh, skeleton)
             = [o EXCEPT !.state = "disengaged", !.faultAt = None]
    BY DEF Recover
  <2> DEFINE n == Recover(o, s, fresh, skeleton)
  <2> HIDE DEF n, r
  <2>3. n \in Clutch /\ n.state \in {"fault", "disengaged"}
    BY <2>2, <1>6, <1>2 DEF n, Clutch, ClutchStates
  <2>4. r = [clutch |-> n, action |-> "freeze"]
    BY <2>1 DEF n, Freeze
  <2> QED BY <2>3, <2>4 DEF r, HandActive
<1>7. CASE c.state \notin {"waiting", "fault"} /\ ~fresh
  <2>1. r = Freeze(ClutchFault(o, t))
    BY <1>7, <1>4, <1>2 DEF HandStep, ClutchStates, o
  <2> QED BY <2>1, <1>3 DEF Freeze, HandActive
<1>8. CASE c.state = "disengaged" /\ fresh
  <2>1. r = IF ~RisingEdge(c, o) THEN Freeze(o)
            ELSE IF ~skeleton THEN Freeze(ClutchFault(o, t))
            ELSE [clutch |-> [o EXCEPT !.state = "acquiring", !.start = t,
                                       !.cycles = o.cycles + 1],
                  action |-> "reacquire"]
    BY <1>8, <1>2 DEF HandStep, o
  <2>2. [o EXCEPT !.state = "acquiring", !.start = t, !.cycles = o.cycles + 1]
          \in Clutch
    BY <1>2, CycleType
  <2>5. r \in {[clutch |-> o, action |-> "freeze"],
               [clutch |-> ClutchFault(o, t), action |-> "freeze"],
               [clutch |-> [o EXCEPT !.state = "acquiring", !.start = t,
                                     !.cycles = o.cycles + 1],
                action |-> "reacquire"]}
    BY <2>1 DEF Freeze
  <2> HIDE DEF r
  <2>3. r.clutch \in Clutch
    BY <2>5, <2>2, <1>2, <1>3
  <2>4. r.action # "reacquire" => r.clutch.state \in {"disengaged", "fault"}
    BY <2>5, <1>2, <1>3, <1>8
  <2> QED BY <2>3, <2>4 DEF HandActive, r
<1>9. CASE c.state \in {"acquiring", "engaged"} /\ fresh
  <2>1. HandActive(c)
    BY <1>9 DEF HandActive
  <2>2. r = IF ~skeleton THEN Freeze(ClutchFault(o, t))
            ELSE IF o.pressed = "no"
            THEN Freeze([o EXCEPT !.state = "disengaged", !.start = None])
            ELSE [clutch |-> IF o.state = "acquiring" /\ t - o.start >= Reacquire
                             THEN [o EXCEPT !.state = "engaged"] ELSE o,
                  action |-> "update"]
    BY <1>9, <1>2 DEF HandStep, o
  <2>3. [o EXCEPT !.state = "disengaged", !.start = None] \in Clutch
    BY <1>2 DEF Clutch, ClutchStates
  <2>4. [o EXCEPT !.state = "engaged"] \in Clutch
    BY <1>2 DEF Clutch, ClutchStates
  <2>5. r.clutch \in Clutch
    BY <2>2, <2>3, <2>4, <1>2, <1>3 DEF Freeze
  <2> QED BY <2>1, <2>5
<1> QED BY <1>4, <1>5, <1>6, <1>7, <1>8, <1>9 DEF ClutchStates

-----------------------------------------------------------------------------
(* The controller side.                                                    *)

\* Only well-typed packets reach the provider, and an update keeps its type.
LEMMA ProviderType ==
  ASSUME NEW p \in Provider, NEW pkt \in Packet, NEW t \in Nat
  PROVE  Update(p, pkt, t) \in Provider /\ Invalidate(p) \in Provider
<1>1. pkt \in [session : SessionIds, seq : Nat, facts : BOOLEAN,
               index : Bands, grip : Bands]
  BY ControllerAssumption DEF Packet
<1>2. Accept(p, pkt, t) \in Provider
  BY <1>1 DEF Accept, Provider
<1>3. p.retired \cup ({p.session} \ {NoSession}) \in SUBSET SessionIds
  BY DEF Provider
<1>4. [Accept(p, pkt, t) EXCEPT
         !.retired = p.retired \cup ({p.session} \ {NoSession})] \in Provider
  BY <1>2, <1>3 DEF Provider
<1>5. Update(p, pkt, t) \in Provider
  BY <1>2, <1>4 DEF Update
<1>6. Invalidate(p) \in Provider
  BY DEF Invalidate, Provider
<1> QED BY <1>5, <1>6

\* The adapter's step and the samples it hands to the clutches are well typed.
LEMMA GateType ==
  ASSUME NEW p \in Provider, NEW g \in Gate, NEW t \in Nat
  PROVE  /\ ControllerValid(p, t) \in BOOLEAN
         /\ GateStep(g, p, t) \in Gate
         /\ Frame(p, g, t).index \in Sample
         /\ Frame(p, g, t).grip \in Sample
         /\ Frame(p, g, t).left \in BOOLEAN
<1>1. ControllerValid(p, t) \in BOOLEAN
  BY DEF ControllerValid, Provider
<1>2. GateStep(g, p, t) \in Gate
  BY <1>1 DEF GateStep, Gate, Provider
<1> DEFINE v == ControllerValid(p, t) /\ ~g.release
<1>3. v \in BOOLEAN
  BY <1>1 DEF Gate
<1>4. Frame(p, g, t) = [index |-> SampleOf(p, p.index, v),
                       grip |-> SampleOf(p, p.grip, v),
                       left |-> ControllerValid(p, t)]
  BY DEF Frame
<1> HIDE DEF v
<1>5. /\ SampleOf(p, p.index, v) \in Sample
      /\ SampleOf(p, p.grip, v) \in Sample
  BY <1>3 DEF SampleOf, Sample, Provider, Bands
<1> QED BY <1>1, <1>2, <1>4, <1>5

-----------------------------------------------------------------------------
(* The producer loop after control_tick.                                   *)

\* Every packet is a message.
LEMMA MessageTypes ==
  /\ Heartbeat \in Message
  /\ Refused \in Message
  /\ Pause \in Message
  /\ Stop \in Message
  /\ \A g \in Nat : Target(g) \in Message
BY DEF Heartbeat, Refused, Pause, Stop, Target, Message

\* The loop keeps the outputs well typed, and the hand output it leaves in a
\* running loop is the session's.
LEMMA AfterTickFacts ==
  ASSUME TypeOK, arm' \in Clutch, NEW out \in Seq(Message),
         NEW applied \in BOOLEAN, NEW failed \in BOOLEAN,
         NEW handOutput \in {"held", "active", "terminal"},
         AfterTick(out, applied, failed, handOutput)
  PROVE  /\ prior' \in BOOLEAN
         /\ stopped' \in BOOLEAN
         /\ handOut' \in {"held", "active", "terminal"}
         /\ sent' \in Seq(Message)
         /\ ~stopped' => handOut' = handOutput
<1> DEFINE edge == ClutchEdge(failed)
<1>1. edge \in BOOLEAN
  BY DEF ClutchEdge, TypeOK
<1>2. PICK pauseSent \in BOOLEAN :
        LET leave == failed \/ (edge /\ ~pauseSent)
            delivered == (IF applied \/ out = <<>> THEN out ELSE <<Refused>>)
                           \o (IF edge /\ pauseSent THEN <<Pause>> ELSE <<>>)
                           \o (IF leave THEN <<Stop>> ELSE <<>>)
        IN /\ prior' = (arm'.state = "engaged")
           /\ stopped' = leave
           /\ handOut' = IF leave THEN "terminal" ELSE handOutput
           /\ sent' = delivered
  BY DEF AfterTick
<1> DEFINE leave == failed \/ (edge /\ ~pauseSent)
           a == IF applied \/ out = <<>> THEN out ELSE <<Refused>>
           b == IF edge /\ pauseSent THEN <<Pause>> ELSE <<>>
           d == IF leave THEN <<Stop>> ELSE <<>>
<1> HIDE DEF edge
<1>3. leave \in BOOLEAN
  BY <1>1
<1>4. /\ <<>> \in Seq(Message) /\ <<Refused>> \in Seq(Message)
      /\ <<Pause>> \in Seq(Message) /\ <<Stop>> \in Seq(Message)
  BY MessageTypes
<1>5. a \in Seq(Message) /\ b \in Seq(Message) /\ d \in Seq(Message)
  BY <1>4
<1> HIDE DEF a, b, d, leave
<1>6. sent' = (a \o b) \o d
  BY <1>2 DEF a, b, d, leave
<1>7. sent' \in Seq(Message)
  BY <1>5, <1>6
<1>8. prior' \in BOOLEAN
  BY <1>2
<1>9. stopped' = leave /\ handOut' = IF leave THEN "terminal" ELSE handOutput
  BY <1>2 DEF leave
<1> QED BY <1>3, <1>7, <1>8, <1>9

\* The history stays well typed.
LEMMA HistoryType ==
  ASSUME TypeOK, refGen' \in Nat, NEW f, f.left \in BOOLEAN, f.index \in Sample,
         Remember(f)
  PROVE  history' \in History
<1> DEFINE seen == f.left /\ Fresh(f.index, now) /\ f.index.value = "low"
<1>1. history.released \in BOOLEAN /\ history.both \in BOOLEAN
      /\ history.gen \in Nat /\ refGen' \in Nat
  BY DEF TypeOK, History
<1> QED BY <1>1 DEF Remember, History

-----------------------------------------------------------------------------
(* One control tick, in its halves.                                        *)

\* The hand half: an active grip cycle leaves the tick with its references and
\* an activated output, because only a capture with features starts one.
LEMMA HandHalfFacts ==
  ASSUME TypeOK, GripHasReference, ~stopped, NEW f, NEW in \in Inputs,
         f.left \in BOOLEAN, f.grip \in Sample, HandHalf(f, in)
  PROVE  /\ hand' \in Clutch
         /\ handRef' \in BOOLEAN
         /\ HandOutAfter(f, in) \in {"held", "active", "terminal"}
         /\ HandActive(hand') => handRef' /\ HandOutAfter(f, in) = "active"
<1> DEFINE c == ControllerLoss(hand, f.left)
           yes == TRUE
           step == HandTick(f)
<1>1. in.features \in BOOLEAN
  BY DEF Inputs
<1>2. c \in Clutch /\ (HandActive(c) => HandActive(hand))
  <2>1. ClutchFault(hand, now) \in Clutch /\ ClutchFault(hand, now).state = "fault"
    BY FaultType DEF TypeOK
  <2> QED BY <2>1 DEF ControllerLoss, HandActive, TypeOK
<1> HIDE DEF c
<1>3. step = HandStep(c, f.grip, now, f.left, yes)
  BY DEF HandTick, c
<1>4. yes \in BOOLEAN /\ now \in Nat
  BY DEF TypeOK
<1> HIDE DEF yes, step
<1>5. /\ step.clutch \in Clutch
      /\ step.action # "reacquire" /\ HandActive(step.clutch) => HandActive(c)
  BY <1>2, <1>3, <1>4, HandStepFacts
<1>6. ClutchFault(step.clutch, now) \in Clutch
      /\ ~HandActive(ClutchFault(step.clutch, now))
  BY <1>4, <1>5, FaultType DEF HandActive
<1>7. /\ hand' = IF step.action = "reacquire" /\ ~in.features
                 THEN ClutchFault(step.clutch, now) ELSE step.clutch
      /\ handRef' = IF step.action = "reacquire" THEN in.features
                    ELSE handRef /\ HandActive(step.clutch)
  BY DEF HandHalf, HandAfter, HandRefAfter, step
<1>8. HandOutAfter(f, in) =
        CASE step.action = "reacquire" /\ in.features  -> "active"
          [] step.action = "reacquire" /\ ~in.features -> handOut
          [] step.action # "reacquire" ->
               IF HandActive(step.clutch) THEN handOut ELSE "held"
  BY DEF HandOutAfter, step
<1>9. CASE step.action = "reacquire" /\ in.features
  BY <1>9, <1>5, <1>7, <1>8
<1>10. CASE step.action = "reacquire" /\ ~in.features
  BY <1>10, <1>1, <1>6, <1>7, <1>8 DEF TypeOK
<1>11. CASE step.action # "reacquire"
  <2>1. hand' = step.clutch /\ handRef' = (handRef /\ HandActive(step.clutch))
    BY <1>11, <1>7
  <2>2. HandOutAfter(f, in) = IF HandActive(step.clutch) THEN handOut ELSE "held"
    BY <1>11, <1>8
  <2>3. HandActive(step.clutch) => handRef /\ handOut = "active"
    BY <1>2, <1>5, <1>11 DEF GripHasReference
  <2> QED BY <2>1, <2>2, <2>3, <1>5 DEF TypeOK, HandActive
<1> QED BY <1>1, <1>9, <1>10, <1>11

\* The recovery timer runs only on an invalid stream after a capture, never
\* under a persistent hold, and keeps the time it was started at.
LEMMA TimerFacts ==
  ASSUME SessionInv, NEW left \in BOOLEAN, NEW in \in Inputs
  PROVE  LET timer == RecoveryTimer(left, in)
         IN /\ timer \in Nat \cup {None}
            /\ refGen = 0 \/ hold \/ (left /\ in.tracked) => timer = None
            /\ timer # None => now - timer >= 0 \/ timer = recovery
BY DEF SessionInv, TypeOK, TimerNeedsReference, HoldKeepsArmFaulted,
       RecoveryTimer, Inputs

\* A tick without a target: the arm half of the invariant.
LEMMA NoTargetFacts ==
  ASSUME SessionInv, NEW f, NEW in \in Inputs, f.left \in BOOLEAN, NEW step,
         step.clutch \in Clutch,
         step.clutch.state \notin {"engaged", "acquiring"},
         arm.state = "fault" => step.clutch.state \in {"fault", "disengaged"},
         HandOutAfter(f, in) \in {"held", "active", "terminal"},
         now' = now + 1, NoTarget(f, in, step)
  PROVE  /\ arm' \in Clutch /\ arm'.state \notin {"engaged", "acquiring"}
         /\ mapper' = FALSE /\ hold' \in BOOLEAN
         /\ recovery' \in Nat \cup {None}
         /\ refGen' = refGen /\ accepted' = accepted
         /\ hold' => arm'.state = "fault" /\ recovery' = None
         /\ recovery' # None => now' - recovery' <= RecoveryTimeout + 1
         /\ refGen = 0 => recovery' = None
         /\ prior' \in BOOLEAN /\ stopped' \in BOOLEAN
         /\ handOut' \in {"held", "active", "terminal"}
         /\ sent' \in Seq(Message)
         /\ ~stopped' => handOut' = HandOutAfter(f, in)
<1> DEFINE timer == RecoveryTimer(f.left, in)
           kept == hold /\ step.clutch.state # "disengaged"
           timedOut == timer # None /\ now - timer > RecoveryTimeout /\ ~kept
           clutch == IF timedOut THEN ClutchFault(step.clutch, now)
                     ELSE step.clutch
           captured == refGen > 0 /\ clutch.cycles > 0
           inRecovery == clutch.state = "fault" /\ captured
           live == clutch.state = "disengaged" /\ captured /\ f.left /\ in.tracked
           out == IF inRecovery \/ live THEN <<Heartbeat>> ELSE <<>>
<1>1. PICK applied \in BOOLEAN :
        /\ arm' = clutch
        /\ hold' = (kept \/ timedOut)
        /\ recovery' = IF timedOut THEN None ELSE timer
        /\ mapper' = FALSE
        /\ AfterTick(out, applied, inRecovery /\ ~applied, HandOutAfter(f, in))
        /\ UNCHANGED <<refGen, accepted>>
  BY DEF NoTarget
<1>2. /\ timer \in Nat \cup {None}
      /\ refGen = 0 \/ hold \/ (f.left /\ in.tracked) => timer = None
  BY TimerFacts
<1> HIDE DEF timer
<1>3. ClutchFault(step.clutch, now) \in Clutch
      /\ ClutchFault(step.clutch, now).state = "fault"
  BY FaultType DEF SessionInv, TypeOK
<1>4. kept \in BOOLEAN /\ timedOut \in BOOLEAN
  BY DEF SessionInv, TypeOK
<1>5. clutch \in Clutch /\ clutch.state \notin {"engaged", "acquiring"}
      /\ (timedOut => clutch.state = "fault")
      /\ (~timedOut => clutch.state = step.clutch.state)
  BY <1>3
<1>6. kept => step.clutch.state = "fault" /\ timer = None
  BY <1>2 DEF SessionInv, HoldKeepsArmFaulted
<1>7. ~timedOut /\ timer # None => now + 1 - timer <= RecoveryTimeout + 1
  BY <1>2, <1>6, SessionAssumption DEF SessionInv, TypeOK
<1> HIDE DEF clutch, kept, timedOut
<1>8. out \in Seq(Message)
  BY MessageTypes
<1>9. (inRecovery /\ ~applied) \in BOOLEAN
  BY DEF SessionInv, TypeOK
<1> HIDE DEF out, inRecovery
<1>10. arm' \in Clutch /\ AfterTick(out, applied, inRecovery /\ ~applied, HandOutAfter(f, in))
  BY <1>1, <1>5
<1>11. /\ prior' \in BOOLEAN /\ stopped' \in BOOLEAN
       /\ handOut' \in {"held", "active", "terminal"}
       /\ sent' \in Seq(Message)
       /\ ~stopped' => handOut' = HandOutAfter(f, in)
  BY <1>8, <1>9, <1>10, AfterTickFacts DEF SessionInv
<1>12. hold' => arm'.state = "fault" /\ recovery' = None
  BY <1>1, <1>4, <1>5, <1>6
<1>13. recovery' # None => now' - recovery' <= RecoveryTimeout + 1
  <2>1. recovery' = IF timedOut THEN None ELSE timer
    BY <1>1
  <2>2. recovery' # None => ~timedOut /\ timer # None /\ recovery' = timer
    BY <2>1
  <2>3. now \in Nat
    BY DEF SessionInv, TypeOK
  <2> QED BY <2>2, <2>3, <1>2, <1>7, SessionAssumption
<1>14. refGen = 0 => recovery' = None
  BY <1>1, <1>2
<1>15. hold' \in BOOLEAN /\ recovery' \in Nat \cup {None}
  BY <1>1, <1>2, <1>4
<1> QED BY <1>1, <1>5, <1>11, <1>12, <1>13, <1>14, <1>15

\* A tick with a target: it had the controller and the wrist, so the timer is
\* off and no hold is left; the mapper holds a reference unless a hard stop
\* took the arm out of ENGAGED.
LEMMA HasTargetFacts ==
  ASSUME SessionInv, NEW f, NEW in \in Inputs, f.left \in BOOLEAN, NEW step,
         step.clutch \in Clutch, step.action \in {"capture", "update"},
         step.action = "update" => step.clutch.state = "engaged",
         f.left, in.tracked, arm.state # "fault",
         HandOutAfter(f, in) \in {"held", "active", "terminal"},
         now' = now + 1, HasTarget(f, in, step)
  PROVE  /\ arm' \in Clutch /\ arm'.state \in {"engaged", "fault"}
         /\ mapper' \in BOOLEAN /\ (arm'.state = "engaged" => mapper')
         /\ hold' = FALSE
         /\ recovery' = None
         /\ refGen' \in Nat /\ accepted' \in Nat
         /\ prior' \in BOOLEAN /\ stopped' \in BOOLEAN
         /\ handOut' \in {"held", "active", "terminal"}
         /\ sent' \in Seq(Message)
         /\ ~stopped' => handOut' = HandOutAfter(f, in)
<1>1. PICK result \in Results, applied \in BOOLEAN :
        /\ arm' = ArmOnResult(step, result)
        /\ mapper' = (result # "hard_stop")
        /\ refGen' = Generation(step)
        /\ accepted' = IF result = "accepted" THEN accepted + 1 ELSE accepted
        /\ hold' = (hold /\ step.clutch.state # "disengaged")
        /\ recovery' = RecoveryTimer(f.left, in)
        /\ AfterTick(PacketOnResult(step, result), applied,
                     result = "hard_stop" \/ ~applied, HandOutAfter(f, in))
  BY DEF HasTarget
<1>2. now \in Nat /\ refGen \in Nat /\ accepted \in Nat /\ hold = FALSE
  BY DEF SessionInv, TypeOK, HoldKeepsArmFaulted
<1>3. ArmTarget(step) \in Clutch /\ ArmTarget(step).state = "engaged"
  BY <1>2, CycleType DEF ArmTarget
<1>4. /\ ClutchFault(ArmTarget(step), now) \in Clutch
      /\ ClutchFault(ArmTarget(step), now).state = "fault"
  BY <1>2, <1>3, FaultType
<1>5. /\ ArmOnResult(step, result) \in Clutch
      /\ ArmOnResult(step, result).state
           = IF result = "hard_stop" THEN "fault" ELSE "engaged"
  BY <1>3, <1>4 DEF ArmOnResult
<1>6. arm' \in Clutch /\ arm'.state \in {"engaged", "fault"}
      /\ (arm'.state = "engaged" => result # "hard_stop")
  BY <1>1, <1>5
<1>7. mapper' \in BOOLEAN /\ (arm'.state = "engaged" => mapper')
  BY <1>1, <1>6
<1>8. hold' = FALSE /\ recovery' = None
  <2>1. RecoveryTimer(f.left, in) = None
    BY TimerFacts
  <2>2. hold' = FALSE
    BY <1>1, <1>2
  <2> QED BY <2>1, <2>2, <1>1
<1>9. Generation(step) \in Nat
  BY <1>2 DEF Generation
<1>10. refGen' \in Nat /\ accepted' \in Nat
  BY <1>1, <1>2, <1>9
<1>11. PacketOnResult(step, result) \in Seq(Message)
  <2>1. Target(Generation(step)) \in Message /\ Heartbeat \in Message
    BY <1>9, MessageTypes
  <2>2. /\ result = "accepted" =>
             PacketOnResult(step, result) = <<Target(Generation(step))>>
        /\ result = "rejected" => PacketOnResult(step, result) = <<Heartbeat>>
        /\ result = "hard_stop" => PacketOnResult(step, result) = <<>>
    BY DEF PacketOnResult
  <2>3. result \in {"accepted", "rejected", "hard_stop"}
    BY DEF Results
  <2>4. /\ <<Target(Generation(step))>> \in Seq(Message)
        /\ <<Heartbeat>> \in Seq(Message) /\ <<>> \in Seq(Message)
    BY <2>1
  <2> QED BY <2>2, <2>3, <2>4
<1> DEFINE failed == result = "hard_stop" \/ ~applied
<1>12. failed \in BOOLEAN
  OBVIOUS
<1>13. AfterTick(PacketOnResult(step, result), applied, failed,
                 HandOutAfter(f, in))
  BY <1>1
<1> HIDE DEF failed
<1>14. /\ prior' \in BOOLEAN /\ stopped' \in BOOLEAN
       /\ handOut' \in {"held", "active", "terminal"}
       /\ sent' \in Seq(Message)
       /\ ~stopped' => handOut' = HandOutAfter(f, in)
  BY <1>6, <1>11, <1>12, <1>13, AfterTickFacts DEF SessionInv
<1> QED BY <1>6, <1>7, <1>8, <1>10, <1>14

\* What control_tick does to the arm clutch before stepping it.
LEMMA LossFacts ==
  ASSUME SessionInv, NEW left \in BOOLEAN, NEW in \in Inputs
  PROVE  LET c == WristLoss(ControllerLoss(arm, left), in)
         IN /\ c \in Clutch
            /\ c.state # "acquiring"
            /\ arm.state = "fault" => c.state = "fault"
<1>1. now \in Nat /\ arm \in Clutch /\ arm.state # "acquiring"
  BY DEF SessionInv, TypeOK, CaptureIsInstant
<1>2. ClutchFault(arm, now) \in Clutch /\ ClutchFault(arm, now).state = "fault"
  BY <1>1, FaultType
<1> DEFINE d == ControllerLoss(arm, left)
<1>3. d \in Clutch /\ d.state # "acquiring" /\ (arm.state = "fault" => d.state = "fault")
  BY <1>1, <1>2 DEF ControllerLoss
<1> HIDE DEF d
<1>4. ClutchFault(d, now) \in Clutch /\ ClutchFault(d, now).state = "fault"
  BY <1>1, <1>3, FaultType
<1>5. LET c == WristLoss(d, in)
      IN /\ c \in Clutch
         /\ c.state # "acquiring"
         /\ arm.state = "fault" => c.state = "fault"
  BY <1>3, <1>4 DEF WristLoss
<1> QED BY <1>5 DEF d

\* A control tick keeps the invariant.
LEMMA TickPreserves == SessionInv /\ Tick => SessionInv'
<1> SUFFICES ASSUME SessionInv, Tick PROVE SessionInv'
  OBVIOUS
<1> DEFINE f == Frame(provider, gate', now)
<1>1. PICK in \in Inputs :
        LET step == ArmTick(f, in)
        IN /\ HandHalf(f, in)
           /\ \/ step.action = "freeze" /\ NoTarget(f, in, step)
              \/ step.action # "freeze" /\ HasTarget(f, in, step)
           /\ Remember(f)
  BY DEF Tick
<1>2. /\ now \in Nat \ {0} /\ provider \in Provider /\ gate \in Gate
      /\ now' = now + 1 /\ provider' = provider /\ ~stopped
      /\ gate' = GateStep(gate, provider, now)
  BY DEF Tick, SessionInv, TypeOK
<1>3. gate' \in Gate /\ provider' \in Provider /\ now' \in Nat \ {0}
  BY <1>2, GateType
<1>4. f.index \in Sample /\ f.grip \in Sample /\ f.left \in BOOLEAN
  BY <1>2, <1>3, GateType
<1> HIDE DEF f
<1>5. /\ hand' \in Clutch
      /\ handRef' \in BOOLEAN
      /\ HandOutAfter(f, in) \in {"held", "active", "terminal"}
      /\ HandActive(hand') => handRef' /\ HandOutAfter(f, in) = "active"
  BY <1>1, <1>2, <1>4, HandHalfFacts DEF SessionInv
<1> DEFINE c == WristLoss(ControllerLoss(arm, f.left), in)
           both == in.tracked /\ in.head
           step == ArmTick(f, in)
<1>6. c \in Clutch /\ c.state # "acquiring" /\ (arm.state = "fault" => c.state = "fault")
  BY <1>4, LossFacts
<1>7. in.tracked \in BOOLEAN /\ both \in BOOLEAN /\ (both => in.tracked)
  BY DEF Inputs
<1>8. step = ArmStep(c, f.index, now, f.left, in.tracked, both)
  BY DEF ArmTick
<1> HIDE DEF c, both, step
<1>9. /\ step.clutch \in Clutch
      /\ step.action \in {"freeze", "capture", "update"}
      /\ step.action = "freeze" =>
           step.clutch.state \notin {"engaged", "acquiring"}
      /\ step.action = "capture" => f.left /\ both /\ c.state = "disengaged"
      /\ step.action = "update" => /\ f.left /\ in.tracked
                                   /\ c.state = "engaged"
                                   /\ step.clutch.state = "engaged"
      /\ c.state = "fault" => step.clutch.state \in {"fault", "disengaged"}
  BY <1>2, <1>4, <1>6, <1>7, <1>8, ArmStepFacts
<1>10. CASE step.action = "freeze"
  <2>1. NoTarget(f, in, step)
    BY <1>1, <1>10 DEF step
  <2>2. /\ arm' \in Clutch /\ arm'.state \notin {"engaged", "acquiring"}
        /\ mapper' = FALSE /\ hold' \in BOOLEAN
        /\ recovery' \in Nat \cup {None}
        /\ refGen' = refGen /\ accepted' = accepted
        /\ hold' => arm'.state = "fault" /\ recovery' = None
        /\ recovery' # None => now' - recovery' <= RecoveryTimeout + 1
        /\ refGen = 0 => recovery' = None
        /\ prior' \in BOOLEAN /\ stopped' \in BOOLEAN
        /\ handOut' \in {"held", "active", "terminal"}
        /\ sent' \in Seq(Message)
        /\ ~stopped' => handOut' = HandOutAfter(f, in)
    BY <2>1, <1>2, <1>4, <1>5, <1>6, <1>9, <1>10, NoTargetFacts
  <2>3. refGen' \in Nat /\ accepted' \in Nat
    BY <2>2 DEF SessionInv, TypeOK
  <2>4. history' \in History
    BY <1>1, <1>4, <2>3, HistoryType DEF SessionInv
  <2>5. TypeOK'
    BY <1>3, <1>5, <2>2, <2>3, <2>4 DEF TypeOK
  <2> QED
    BY <1>5, <2>2, <2>5
    DEF SessionInv, EngagedHasReference, GripHasReference, HoldKeepsArmFaulted,
        RecoveryFreezesArm, TimerNeedsReference, CaptureIsInstant
<1>11. CASE step.action # "freeze"
  <2>1. HasTarget(f, in, step)
    BY <1>1, <1>11 DEF step
  <2>2. f.left /\ in.tracked /\ arm.state # "fault"
        /\ step.action \in {"capture", "update"}
        /\ (step.action = "update" => step.clutch.state = "engaged")
    BY <1>6, <1>7, <1>9, <1>11
  <2>3. /\ arm' \in Clutch /\ arm'.state \in {"engaged", "fault"}
        /\ mapper' \in BOOLEAN /\ (arm'.state = "engaged" => mapper')
        /\ hold' = FALSE
        /\ recovery' = None
        /\ refGen' \in Nat /\ accepted' \in Nat
        /\ prior' \in BOOLEAN /\ stopped' \in BOOLEAN
        /\ handOut' \in {"held", "active", "terminal"}
        /\ sent' \in Seq(Message)
        /\ ~stopped' => handOut' = HandOutAfter(f, in)
    BY <2>1, <2>2, <1>2, <1>4, <1>5, <1>9, HasTargetFacts
  <2>4. history' \in History
    BY <1>1, <1>4, <2>3, HistoryType DEF SessionInv
  <2>5. TypeOK'
    <3>1. hold' \in BOOLEAN /\ recovery' \in Nat \cup {None}
      BY <2>3
    <3> QED BY <1>3, <1>5, <2>3, <2>4, <3>1 DEF TypeOK
  <2> QED
    BY <1>5, <2>3, <2>5
    DEF SessionInv, EngagedHasReference, GripHasReference, HoldKeepsArmFaulted,
        RecoveryFreezesArm, TimerNeedsReference, CaptureIsInstant
<1> QED BY <1>10, <1>11

-----------------------------------------------------------------------------
(* The other steps, and the theorems.                                      *)

\* Publishing a snapshot touches neither the clutches nor the outputs.
LEMMA PublishPreserves ==
  ASSUME SessionInv, NEW p \in Provider, NEW t \in Nat, Publish(p, t),
         UNCHANGED <<now, session, outputs>>
  PROVE  SessionInv'
<1>1. gate' \in Gate /\ provider' \in Provider
  BY GateType DEF Publish, SessionInv, TypeOK
<1> DEFINE b == \/ /\ ControllerValid(p, t) /\ p.index = "low" /\ p.grip = "low"
                \/ /\ history.both
                   /\ ControllerValid(p, t)
                   /\ p.session = provider.session
<1>2. history' = [history EXCEPT !.both = b]
  BY DEF Publish
<1>3. b \in BOOLEAN
  OBVIOUS
<1> HIDE DEF b
<1>4. history' \in History
  BY <1>2, <1>3 DEF SessionInv, TypeOK, History
<1>5. TypeOK'
  BY <1>1, <1>4 DEF SessionInv, TypeOK, session, outputs
<1> QED
  BY <1>5
  DEF SessionInv, EngagedHasReference, GripHasReference, HoldKeepsArmFaulted,
      RecoveryFreezesArm, TimerNeedsReference, CaptureIsInstant, HandActive,
      session, outputs

\* A malformed hand datagram faults both clutches, so nothing is active.
LEMMA MalformedPreserves == SessionInv /\ MalformedHandData => SessionInv'
<1> SUFFICES ASSUME SessionInv, MalformedHandData PROVE SessionInv'
  OBVIOUS
<1>1. PICK t \in (now - Lag) .. now :
        arm' = ClutchFault(arm, t) /\ hand' = ClutchFault(hand, t)
  BY DEF MalformedHandData
<1>2. t \in Nat
  BY SessionAssumption DEF SessionInv, TypeOK
<1>3. /\ arm' \in Clutch /\ arm'.state = "fault"
      /\ hand' \in Clutch /\ hand'.state = "fault"
  BY <1>1, <1>2, FaultType DEF SessionInv, TypeOK
<1> DEFINE no == FALSE
<1>4. no \in BOOLEAN /\ history' = [history EXCEPT !.rearmed = no]
      /\ mapper' = no /\ handRef' = no
  BY DEF MalformedHandData
<1> HIDE DEF no
<1>5. history' \in History
  BY <1>4 DEF SessionInv, TypeOK, History
<1>6. TypeOK'
  BY <1>3, <1>4, <1>5 DEF MalformedHandData, SessionInv, TypeOK, input, outputs
<1> QED
  BY <1>3, <1>6
  DEF MalformedHandData, SessionInv, EngagedHasReference, GripHasReference,
      HoldKeepsArmFaulted, RecoveryFreezesArm, TimerNeedsReference,
      CaptureIsInstant, HandActive, input, outputs

\* Leaving the loop only stops the outputs.
LEMMA LeavePreserves == SessionInv /\ (Abort \/ Finish) => SessionInv'
<1> SUFFICES ASSUME SessionInv, Abort \/ Finish PROVE SessionInv'
  OBVIOUS
<1> DEFINE yes == TRUE
<1>1. /\ yes \in BOOLEAN /\ stopped' = yes
      /\ history' = [history EXCEPT !.paused = yes]
      /\ handOut' \in {"held", "active", "terminal"} /\ sent' = <<Stop>>
      /\ UNCHANGED <<now, input, session, prior>>
  BY DEF Abort, Finish
<1>2. stopped'
  BY DEF Abort, Finish
<1> HIDE DEF yes
<1>3. history' \in History
  BY <1>1 DEF SessionInv, TypeOK, History
<1>4. sent' \in Seq(Message)
  BY <1>1, MessageTypes
<1>5. TypeOK'
  BY <1>1, <1>3, <1>4 DEF SessionInv, TypeOK, input, session
<1> QED
  BY <1>1, <1>2, <1>5
  DEF SessionInv, EngagedHasReference, GripHasReference, HoldKeepsArmFaulted,
      RecoveryFreezesArm, TimerNeedsReference, CaptureIsInstant, HandActive,
      input, session

\* The invariant holds initially.
LEMMA InitInv == Init => SessionInv
<1> SUFFICES ASSUME Init PROVE SessionInv
  OBVIOUS
<1> DEFINE no == FALSE
           yes == TRUE
<1>1. no \in BOOLEAN /\ yes \in BOOLEAN
  OBVIOUS
<1>2. /\ ProviderInit = [session |-> NoSession, seq |-> 0, facts |-> no,
                         index |-> "low", grip |-> "low", at |-> 0,
                         retired |-> {}, forced |-> no]
      /\ GateInit = [release |-> yes, session |-> NoSession]
      /\ ClutchInit = [state |-> "waiting", pressed |-> "unknown", rel |-> no,
                       last |-> None, faultAt |-> None, cycles |-> 0,
                       start |-> None]
      /\ HistoryInit = [released |-> no, rearmed |-> no, both |-> no, gen |-> 0,
                        paused |-> yes]
  BY DEF ProviderInit, GateInit, ClutchInit, HistoryInit
<1> HIDE DEF no, yes
<1>3. ProviderInit \in Provider
  BY <1>1, <1>2 DEF Provider, Bands
<1>4. GateInit \in Gate
  BY <1>1, <1>2 DEF Gate
<1>5. ClutchInit \in Clutch /\ ClutchInit.state = "waiting"
  BY <1>1, <1>2 DEF Clutch, ClutchStates
<1>6. HistoryInit \in History
  BY <1>1, <1>2 DEF History
<1>7. now \in Nat \ {0} /\ refGen \in Nat /\ accepted \in Nat
      /\ sent \in Seq(Message) /\ recovery = None
  BY DEF Init
<1>8. /\ mapper \in BOOLEAN /\ handRef \in BOOLEAN /\ hold \in BOOLEAN
      /\ prior \in BOOLEAN /\ stopped \in BOOLEAN
      /\ handOut \in {"held", "active", "terminal"}
  BY DEF Init
<1>9. TypeOK
  BY <1>3, <1>4, <1>5, <1>6, <1>7, <1>8 DEF TypeOK, Init
<1>10. arm.state = "waiting" /\ hand.state = "waiting" /\ ~hold
  BY <1>5 DEF Init
<1> QED
  BY <1>7, <1>9, <1>10
  DEF SessionInv, EngagedHasReference, GripHasReference, HoldKeepsArmFaulted,
      RecoveryFreezesArm, TimerNeedsReference, CaptureIsInstant, HandActive

\* Every step keeps the invariant.
LEMMA NextInv == SessionInv /\ [Next]_vars => SessionInv'
<1> SUFFICES ASSUME SessionInv, [Next]_vars PROVE SessionInv'
  OBVIOUS
<1>1. ASSUME NEW t \in ReceiveTimes PROVE t \in Nat
  BY <1>1, SessionAssumption DEF ReceiveTimes, SessionInv, TypeOK
<1>2. CASE ControllerPacket
  <2>1. PICK pkt \in Packet, t \in ReceiveTimes :
          Publish(Update(provider, pkt, t), t)
    BY <1>2 DEF ControllerPacket
  <2>2. Update(provider, pkt, t) \in Provider /\ t \in Nat
    BY <1>1, ProviderType DEF SessionInv, TypeOK
  <2>3. UNCHANGED <<now, session, outputs>>
    BY <1>2 DEF ControllerPacket
  <2> QED BY <2>1, <2>2, <2>3, PublishPreserves
<1>3. CASE MalformedController
  <2>1. PICK t \in ReceiveTimes : Publish(Invalidate(provider), t)
    BY <1>3 DEF MalformedController
  <2>2. Invalidate(provider) \in Provider /\ t \in Nat
    BY <1>1 DEF SessionInv, TypeOK, Invalidate, Provider
  <2>3. UNCHANGED <<now, session, outputs>>
    BY <1>3 DEF MalformedController
  <2> QED BY <2>1, <2>2, <2>3, PublishPreserves
<1>4. CASE MalformedHandData
  BY <1>4, MalformedPreserves
<1>5. CASE Tick
  BY <1>5, TickPreserves
<1>6. CASE Abort \/ Finish
  BY <1>6, LeavePreserves
<1>7. CASE UNCHANGED vars
  <2>1. TypeOK'
    BY <1>7 DEF SessionInv, TypeOK, vars, input, session, outputs
  <2> QED
    BY <1>7, <2>1
    DEF SessionInv, EngagedHasReference, GripHasReference, HoldKeepsArmFaulted,
        RecoveryFreezesArm, TimerNeedsReference, CaptureIsInstant, HandActive,
        vars, input, session, outputs
<1> QED BY <1>2, <1>3, <1>4, <1>5, <1>6, <1>7 DEF Next

\* The inductive invariant.
LEMMA Invariance == Spec => []SessionInv
BY InitInv, NextInv, PTL DEF Spec

\* Every variable of the session keeps its type.
THEOREM TypeCorrect == Spec => []TypeOK
<1>1. SessionInv => TypeOK
  BY DEF SessionInv
<1> QED BY <1>1, Invariance, PTL

\* control_tick never asks LatchedHeadYawArmMapper for a target without the
\* reference of the engagement.
THEOREM ReferenceCorrect == Spec => []EngagedHasReference
<1>1. SessionInv => EngagedHasReference
  BY DEF SessionInv
<1> QED BY <1>1, Invariance, PTL

\* A grip cycle under way always has its hand references and an activated RH56
\* output.
THEOREM GripCorrect == Spec => []GripHasReference
<1>1. SessionInv => GripHasReference
  BY DEF SessionInv
<1> QED BY <1>1, Invariance, PTL

\* The persistent hold after an input recovery timeout keeps the arm clutch
\* faulted and the recovery timer off.
THEOREM HoldCorrect == Spec => []HoldKeepsArmFaulted
<1>1. SessionInv => HoldKeepsArmFaulted
  BY DEF SessionInv
<1> QED BY <1>1, Invariance, PTL

\* The arm never follows the wrist while input recovery runs, and recovery
\* ends by its deadline.
THEOREM RecoveryCorrect == Spec => []RecoveryFreezesArm
<1>1. SessionInv => RecoveryFreezesArm
  BY DEF SessionInv
<1> QED BY <1>1, Invariance, PTL

\* Whichever of the two machines is active has all it computes targets from.
THEOREM ActiveReferenceCorrect == Spec => []ActiveHasReference
<1>1. SessionInv => ActiveHasReference
  BY DEF SessionInv, ActiveHasReference
<1> QED BY <1>1, Invariance, PTL

\* A lost input leaves the arm frozen until its deadline or a persistent hold.
THEOREM ContainmentCorrect == Spec => []RecoveryIsContained
<1>1. SessionInv => RecoveryIsContained
  BY DEF SessionInv, RecoveryIsContained
<1> QED BY <1>1, Invariance, PTL

-----------------------------------------------------------------------------
(* Hold-to-run.  The action properties compare a step with what happened   *)
(* before it, so they rest on what the machines' state says about the      *)
(* history: a trigger read as released was seen released since the last    *)
(* capture; an open gate means both controls were seen released; an arm    *)
(* that is not followed any more is paused, or will be in the tick that    *)
(* finds it faulted.                                                       *)

ReleaseRemembered == arm.pressed = "no" => history.released

GripHeld == HandActive(hand) => hand.pressed = "yes"

GateRemembered ==
  /\ gate.session = provider.session
  /\ provider.at <= now
  /\ ~gate.release => history.both
  /\ /\ ControllerValid(provider, now)
     /\ provider.index = "low"
     /\ provider.grip = "low"
     => history.both

PauseRemembered ==
  /\ arm.state = "engaged" => prior
  /\ prior /\ arm.state # "engaged" => arm.state = "fault"
  /\ ~prior => history.paused
  /\ arm.state = "engaged" => history.gen = refGen \/ history.paused

HistoryInv ==
  ReleaseRemembered /\ GripHeld /\ GateRemembered /\ PauseRemembered

\* AnalogHoldToRun reads its trigger as released only after a released sample,
\* and sees a rising edge only in a new sample of a trigger read as released.
LEMMA ObservePressed ==
  ASSUME NEW c \in Clutch, NEW s \in Sample, NEW fresh \in BOOLEAN
  PROVE  LET o == Observe(c, s, fresh)
         IN /\ o.pressed = "no" => c.pressed = "no" \/ (fresh /\ s.value = "low")
            /\ o.pressed = "unknown" => c.pressed = "unknown"
            /\ fresh /\ s.value # "low" /\ o.pressed = "no" => c.pressed = "no"
            /\ fresh /\ s.seq # c.last /\ s.value = "low" => o.pressed = "no"
            /\ RisingEdge(c, o) => c.pressed = "no" /\ fresh
                                   /\ s.seq # c.last /\ s.value = "high"
<1> DEFINE o == Observe(c, s, fresh)
<1>1. CASE ~fresh \/ s.seq = c.last
  BY <1>1 DEF Observe, RisingEdge
<1>2. CASE ~(~fresh \/ s.seq = c.last)
  <2> DEFINE p == CASE s.value = "high" -> "yes" [] s.value = "low" -> "no"
                    [] OTHER -> c.pressed
  <2>1. s.value \in {"low", "band", "high"}
    BY DEF Sample, Bands
  <2>2. /\ s.value = "high" => p = "yes"
        /\ s.value = "low" => p = "no"
        /\ s.value = "band" => p = c.pressed
    OBVIOUS
  <2>3. o = [c EXCEPT !.last = s.seq, !.pressed = p,
                      !.rel = c.rel \/ s.value = "low"]
    BY <1>2 DEF Observe
  <2> HIDE DEF p
  <2>4. o.pressed = p
    BY <2>3 DEF Clutch
  <2> HIDE DEF o
  <2>5. RisingEdge(c, o) => c.pressed = "no" /\ o.pressed = "yes"
    BY DEF RisingEdge
  <2> QED BY <1>2, <2>1, <2>2, <2>4, <2>5 DEF o
<1> QED BY <1>1, <1>2

\* A fault forgets the trigger.
LEMMA FaultForgets ==
  ASSUME NEW c \in Clutch, NEW t \in Nat
  PROVE  ClutchFault(c, t).pressed = "unknown" /\ ClutchFault(c, t).last = None
BY DEF ClutchFault, RequireRelease, Clutch

\* ArmClutchMachine.step: what a capture and an update say about the sample,
\* and where a trigger that is read as released comes from.
LEMMA ArmStepPressed ==
  ASSUME NEW c \in Clutch, NEW s \in Sample, NEW t \in Nat,
         NEW controller \in BOOLEAN, NEW continuous \in BOOLEAN,
         NEW capture \in BOOLEAN, c.state # "acquiring"
  PROVE  LET r == ArmStep(c, s, t, controller, continuous, capture)
             fresh == controller /\ Fresh(s, t)
         IN /\ r.clutch.pressed = "no" =>
                 c.pressed = "no" \/ (fresh /\ s.value = "low")
            /\ r.action = "capture" => /\ fresh /\ c.pressed = "no"
                                       /\ s.value = "high"
                                       /\ r.clutch.pressed # "no"
            /\ r.action = "update" => /\ fresh
                                      /\ s.seq # c.last => s.value # "low"
<1> DEFINE fresh == controller /\ Fresh(s, t)
           o == Observe(c, s, fresh)
           r == ArmStep(c, s, t, controller, continuous, capture)
<1>1. fresh \in BOOLEAN
  BY DEF Fresh, Sample
<1>2. o \in Clutch /\ o.state = c.state
  BY <1>1, ObserveType
<1>3. /\ o.pressed = "no" => c.pressed = "no" \/ (fresh /\ s.value = "low")
      /\ fresh /\ s.seq # c.last /\ s.value = "low" => o.pressed = "no"
      /\ RisingEdge(c, o) => c.pressed = "no" /\ s.value = "high"
  BY <1>1, ObservePressed
<1>4. ClutchFault(o, t).pressed = "unknown"
  BY <1>2, FaultForgets
<1>5. c.state \in {"waiting", "disengaged", "engaged", "fault"}
  BY DEF Clutch, ClutchStates
<1>6. \A n \in Clutch : Freeze(n).clutch = n /\ Freeze(n).action = "freeze"
  BY DEF Freeze
<1>7. ClutchFault(o, t) \in Clutch
  BY <1>2, FaultType
<1> HIDE DEF o, fresh
<1>8. CASE c.state \in {"waiting", "fault"}
  <2> DEFINE n == IF c.state = "waiting" THEN Arm(o, fresh)
                  ELSE Recover(o, s, fresh, capture)
  <2>1. r = Freeze(n)
    BY <1>8, <1>2 DEF ArmStep, o, fresh
  <2>2. n.pressed = o.pressed
    BY <1>2 DEF Arm, Recover, Clutch
  <2> HIDE DEF n, r
  <2>3. r.clutch = n /\ r.action = "freeze"
    BY <2>1 DEF Freeze
  <2> QED BY <2>2, <2>3, <1>3 DEF r, fresh
<1>9. CASE c.state = "disengaged"
  <2>1. CASE ~fresh
    <3>1. r = Freeze(ClutchFault(o, t))
      BY <1>9, <1>2, <2>1 DEF ArmStep, o, fresh
    <3> QED BY <3>1, <1>4, <1>6, <1>7
  <2>2. CASE fresh
    <3> DEFINE n == [o EXCEPT !.state = "acquiring"]
    <3>1. \/ r = Freeze(o)
          \/ r = Freeze(ClutchFault(o, t))
          \/ RisingEdge(c, o) /\ r = [clutch |-> n, action |-> "capture"]
      BY <1>9, <1>2, <2>2 DEF ArmStep, o, fresh
    <3>2. n.pressed = o.pressed
      BY <1>2 DEF Clutch
    <3>3. RisingEdge(c, o) => o.pressed = "yes"
      BY DEF RisingEdge
    <3> HIDE DEF n, r
    <3>4. /\ r.clutch.pressed = "no" => c.pressed = "no" \/ s.value = "low"
          /\ r.action = "capture" => /\ c.pressed = "no"
                                     /\ s.value = "high"
                                     /\ r.clutch.pressed # "no"
          /\ r.action = "update" => (s.seq # c.last => s.value # "low")
      BY <3>1, <3>2, <3>3, <1>2, <1>3, <1>4, <1>6, <1>7, <2>2
    <3> QED BY <3>4, <2>2 DEF r, fresh
  <2> QED BY <2>1, <2>2
<1>10. CASE c.state = "engaged"
  <2>1. CASE ~fresh
    <3>1. r = Freeze(ClutchFault(o, t))
      BY <1>10, <1>2, <2>1 DEF ArmStep, o, fresh
    <3> QED BY <3>1, <1>4, <1>6, <1>7
  <2>2. CASE fresh
    <3> DEFINE n == [o EXCEPT !.state = "disengaged"]
    <3>1. \/ r = Freeze(ClutchFault(o, t))
          \/ r = Freeze(n)
          \/ o.pressed # "no" /\ r = [clutch |-> o, action |-> "update"]
      BY <1>10, <1>2, <2>2 DEF ArmStep, o, fresh
    <3>2. n.pressed = o.pressed /\ n \in Clutch
      BY <1>2 DEF Clutch, ClutchStates
    <3> HIDE DEF n, r
    <3>3. /\ r.clutch.pressed = "no" => c.pressed = "no" \/ s.value = "low"
          /\ r.action = "capture" => /\ c.pressed = "no"
                                     /\ s.value = "high"
                                     /\ r.clutch.pressed # "no"
          /\ r.action = "update" => (s.seq # c.last => s.value # "low")
      BY <3>1, <3>2, <1>2, <1>3, <1>4, <1>6, <1>7, <2>2
    <3> QED BY <3>3, <2>2 DEF r, fresh
  <2> QED BY <2>1, <2>2
<1> QED BY <1>5, <1>8, <1>9, <1>10 DEF fresh

\* HandClutchMachine.step: an active clutch is held, has a fresh sample, and
\* stays active while its sample does not show the grip released.
LEMMA HandStepPressed ==
  ASSUME NEW c \in Clutch, NEW s \in Sample, NEW t \in Nat,
         NEW controller \in BOOLEAN, NEW skeleton \in BOOLEAN,
         HandActive(c) => c.pressed = "yes"
  PROVE  LET r == HandStep(c, s, t, controller, skeleton)
             fresh == controller /\ Fresh(s, t)
         IN /\ HandActive(r.clutch) => fresh /\ r.clutch.pressed = "yes"
            /\ HandActive(c) /\ fresh /\ skeleton /\ s.value # "low" =>
                 HandActive(r.clutch) /\ r.action = "update"
<1> DEFINE fresh == controller /\ Fresh(s, t)
           o == Observe(c, s, fresh)
           r == HandStep(c, s, t, controller, skeleton)
<1>1. fresh \in BOOLEAN
  BY DEF Fresh, Sample
<1>2. o \in Clutch /\ o.state = c.state
  BY <1>1, ObserveType
<1>3. /\ o.pressed = "unknown" => c.pressed = "unknown"
      /\ fresh /\ s.value # "low" /\ o.pressed = "no" => c.pressed = "no"
  BY <1>1, ObservePressed
<1>4. ClutchFault(o, t).state = "fault"
  BY <1>2, FaultType
<1>5. c.state \in ClutchStates /\ o.pressed \in {"unknown", "yes", "no"}
  BY <1>2 DEF Clutch
<1>6. \A n : Freeze(n).clutch = n /\ Freeze(n).action = "freeze"
  BY DEF Freeze
<1> HIDE DEF o, fresh
<1>7. CASE c.state \in {"waiting", "fault"}
  <2> DEFINE n == IF c.state = "waiting" THEN Arm(o, fresh)
                  ELSE Recover(o, s, fresh, skeleton)
  <2>1. r = Freeze(n)
    BY <1>7, <1>2 DEF HandStep, o, fresh
  <2>2. n.state \in {"waiting", "fault", "disengaged"}
    BY <1>2, <1>7 DEF Arm, Recover, Clutch
  <2> HIDE DEF n, r
  <2> QED BY <2>1, <2>2, <1>6, <1>7 DEF r, HandActive
<1>8. CASE c.state \notin {"waiting", "fault"} /\ ~fresh
  <2>1. r = Freeze(ClutchFault(o, t))
    BY <1>8, <1>5, <1>2 DEF HandStep, ClutchStates, o, fresh
  <2> QED BY <2>1, <1>4, <1>6, <1>8 DEF HandActive, fresh
<1>9. CASE c.state = "disengaged" /\ fresh
  <2> DEFINE n == [o EXCEPT !.state = "acquiring", !.start = t,
                            !.cycles = o.cycles + 1]
  <2>1. \/ r = Freeze(o)
        \/ r = Freeze(ClutchFault(o, t))
        \/ RisingEdge(c, o) /\ r = [clutch |-> n, action |-> "reacquire"]
    BY <1>9, <1>2 DEF HandStep, o, fresh
  <2>2. n.pressed = o.pressed
    BY <1>2 DEF Clutch
  <2>3. RisingEdge(c, o) => o.pressed = "yes"
    BY DEF RisingEdge
  <2> HIDE DEF n, r
  <2>4. HandActive(r.clutch) => r.clutch.pressed = "yes"
    BY <2>1, <2>2, <2>3, <1>2, <1>4, <1>6, <1>9 DEF HandActive
  <2>5. ~HandActive(c)
    BY <1>9 DEF HandActive
  <2> QED BY <2>4, <2>5, <1>9 DEF r, fresh
<1>10. CASE c.state \in {"acquiring", "engaged"} /\ fresh
  <2> DEFINE n == [o EXCEPT !.state = "disengaged", !.start = None]
             m == IF o.state = "acquiring" /\ t - o.start >= Reacquire
                  THEN [o EXCEPT !.state = "engaged"] ELSE o
  <2>1. r = IF ~skeleton THEN Freeze(ClutchFault(o, t))
            ELSE IF o.pressed = "no" THEN Freeze(n)
            ELSE [clutch |-> m, action |-> "update"]
    BY <1>10, <1>2 DEF HandStep, o, fresh
  <2>2. n.state = "disengaged" /\ m.pressed = o.pressed
        /\ m.state \in {"acquiring", "engaged"}
    BY <1>2, <1>10 DEF Clutch
  <2>3. c.pressed = "yes"
    BY <1>10 DEF HandActive
  <2> HIDE DEF n, m, r
  <2>4. HandActive(r.clutch) => r.clutch.pressed = "yes"
    BY <2>1, <2>2, <2>3, <1>3, <1>4, <1>5, <1>6 DEF HandActive
  <2>5. skeleton /\ s.value # "low" => HandActive(r.clutch) /\ r.action = "update"
    BY <2>1, <2>2, <2>3, <1>3, <1>10 DEF HandActive
  <2> QED BY <2>4, <2>5, <1>10 DEF r, fresh
<1> QED BY <1>5, <1>7, <1>8, <1>9, <1>10 DEF ClutchStates, fresh

\* The samples of a frame are the provider's latest packet; they are fresh
\* exactly while the controller is valid and the gate is open.
LEMMA FrameFacts ==
  ASSUME NEW p \in Provider, NEW g \in Gate, NEW t \in Nat
  PROVE  LET f == Frame(p, g, t)
         IN /\ f.left = ControllerValid(p, t)
            /\ Fresh(f.index, t) => ControllerValid(p, t) /\ ~g.release
            /\ Fresh(f.grip, t) => ControllerValid(p, t) /\ ~g.release
            /\ ControllerValid(p, t) =>
                 /\ f.index.value = p.index /\ f.index.seq = p.seq
                 /\ f.grip.value = p.grip
            /\ ControllerValid(p, t) /\ ~g.release => Fresh(f.grip, t)
<1> DEFINE v == ControllerValid(p, t) /\ ~g.release
           f == Frame(p, g, t)
<1>1. f = [index |-> SampleOf(p, p.index, v), grip |-> SampleOf(p, p.grip, v),
           left |-> ControllerValid(p, t)]
  BY DEF Frame
<1>2. ControllerValid(p, t) =>
        p.session # NoSession /\ t >= p.at /\ t - p.at <= Stale
  BY DEF ControllerValid
<1> HIDE DEF v, f
<1>3. p.session # NoSession =>
        /\ f.index = [value |-> p.index, at |-> p.at, seq |-> p.seq, valid |-> v]
        /\ f.grip = [value |-> p.grip, at |-> p.at, seq |-> p.seq, valid |-> v]
  BY <1>1 DEF SampleOf
<1>4. p.session = NoSession => ~f.index.valid /\ ~f.grip.valid
  BY <1>1 DEF SampleOf
<1>5. (Fresh(f.index, t) => v) /\ (Fresh(f.grip, t) => v)
  BY <1>3, <1>4 DEF Fresh
<1>6. ControllerValid(p, t) /\ ~g.release => Fresh(f.grip, t)
  <2>1. (f.grip.valid = v /\ f.grip.at = p.at) \/ p.session = NoSession
    BY <1>3
  <2>2. ControllerValid(p, t) /\ ~g.release => v
    BY DEF v
  <2> QED BY <2>1, <2>2, <1>2 DEF Fresh
<1>7. f.left = ControllerValid(p, t)
  BY <1>1
<1> QED BY <1>2, <1>3, <1>5, <1>6, <1>7 DEF v, f

SentTargets == {p \in {sent'[i] : i \in DOMAIN sent'} : p.kind = "target"}
SentPauses ==
  {p \in {sent'[i] : i \in DOMAIN sent'} : p.kind \in {"pause", "stop"}}

\* The producer loop: a clutch that left ENGAGED, or a failed output, puts a
\* pause or a stop on the wire, and only a target the transport took is sent.
LEMMA LoopFacts ==
  ASSUME prior \in BOOLEAN, NEW out, NEW applied \in BOOLEAN,
         NEW failed \in BOOLEAN, NEW handOutput,
         out = <<>> \/ \E m : out = <<m>>,
         AfterTick(out, applied, failed, handOutput)
  PROVE  /\ prior' = (arm'.state = "engaged")
         /\ failed \/ (prior /\ arm'.state # "engaged") => SentPauses # {}
         /\ SentTargets # {} =>
              applied /\ out # <<>> /\ out[1].kind = "target"
<1>1. ClutchEdge(failed) \in BOOLEAN
      /\ (ClutchEdge(failed) <=> prior /\ arm'.state # "engaged" /\ ~failed)
  BY DEF ClutchEdge
<1> DEFINE edge == ClutchEdge(failed)
<1>2. PICK pauseSent \in BOOLEAN :
        LET leave == failed \/ (edge /\ ~pauseSent)
            delivered == (IF applied \/ out = <<>> THEN out ELSE <<Refused>>)
                           \o (IF edge /\ pauseSent THEN <<Pause>> ELSE <<>>)
                           \o (IF leave THEN <<Stop>> ELSE <<>>)
        IN /\ prior' = (arm'.state = "engaged")
           /\ stopped' = leave
           /\ handOut' = IF leave THEN "terminal" ELSE handOutput
           /\ sent' = delivered
  BY DEF AfterTick
<1> DEFINE leave == failed \/ (edge /\ ~pauseSent)
           a == IF applied \/ out = <<>> THEN out ELSE <<Refused>>
           b == IF edge /\ pauseSent THEN <<Pause>> ELSE <<>>
           d == IF leave THEN <<Stop>> ELSE <<>>
<1> HIDE DEF edge
<1>3. a = <<>> \/ \E m : a = <<m>>
  OBVIOUS
<1>4. a # <<>> /\ a[1].kind = "target" =>
        applied /\ out # <<>> /\ out[1].kind = "target"
  BY DEF Refused
<1>5. (b = <<Pause>> \/ b = <<>>) /\ (d = <<Stop>> \/ d = <<>>)
  OBVIOUS
<1>6. failed \/ edge => b = <<Pause>> \/ d = <<Stop>>
  BY <1>1
<1> HIDE DEF a, b, d, leave
<1>7. sent' = (a \o b) \o d
  BY <1>2 DEF a, b, d, leave
<1>8. \A i \in DOMAIN sent' :
        \/ a # <<>> /\ sent'[i] = a[1]
        \/ sent'[i] = Pause
        \/ sent'[i] = Stop
  BY <1>3, <1>5, <1>7
<1>9. b = <<Pause>> \/ d = <<Stop>> =>
        \E i \in DOMAIN sent' : sent'[i] \in {Pause, Stop}
  <2>1. CASE a = <<>> /\ b = <<>>
    BY <2>1, <1>5, <1>7
  <2>2. CASE a = <<>> /\ b = <<Pause>>
    <3>1. 1 \in DOMAIN sent' /\ sent'[1] = Pause
      BY <2>2, <1>5, <1>7
    <3> QED BY <3>1
  <2>3. CASE (\E m : a = <<m>>) /\ b = <<>> /\ d = <<Stop>>
    <3>1. 2 \in DOMAIN sent' /\ sent'[2] = Stop
      BY <2>3, <1>7
    <3> QED BY <3>1
  <2>4. CASE (\E m : a = <<m>>) /\ b = <<Pause>>
    <3>1. 2 \in DOMAIN sent' /\ sent'[2] = Pause
      BY <2>4, <1>5, <1>7
    <3> QED BY <3>1
  <2> QED BY <2>1, <2>2, <2>3, <2>4, <1>3, <1>5
<1>10. Pause.kind = "pause" /\ Stop.kind = "stop"
  BY DEF Pause, Stop
<1>11. failed \/ edge => SentPauses # {}
  BY <1>6, <1>9, <1>10 DEF SentPauses
<1>12. SentTargets # {} => a # <<>> /\ a[1].kind = "target"
  BY <1>8, <1>10 DEF SentTargets
<1>13. prior' = (arm'.state = "engaged")
  BY <1>2
<1>14. failed \/ (prior /\ arm'.state # "engaged") => failed \/ edge
  BY <1>1 DEF edge
<1> QED BY <1>4, <1>11, <1>12, <1>13, <1>14

\* A lost controller or wrist either leaves the arm clutch alone or faults it.
LEMMA LossKeeps ==
  ASSUME SessionInv, NEW left \in BOOLEAN, NEW in \in Inputs
  PROVE  LET c == WristLoss(ControllerLoss(arm, left), in)
         IN c = arm \/ (c.state = "fault" /\ c.pressed = "unknown")
<1>1. now \in Nat /\ arm \in Clutch
  BY DEF SessionInv, TypeOK
<1>2. \A k \in Clutch : /\ ClutchFault(k, now).pressed = "unknown"
                        /\ ClutchFault(k, now).state = "fault"
  BY <1>1, FaultForgets, FaultType
<1> DEFINE d == ControllerLoss(arm, left)
<1>3. d = arm \/ (d \in Clutch /\ d.state = "fault" /\ d.pressed = "unknown")
  BY <1>1, <1>2, FaultType DEF ControllerLoss
<1> HIDE DEF d
<1>4. WristLoss(d, in) = d \/ WristLoss(d, in) = ClutchFault(d, now)
  BY DEF WristLoss
<1> QED BY <1>1, <1>2, <1>3, <1>4 DEF d

\* What a tick without a target puts out: the arm is not engaged and no target
\* is sent.
LEMMA NoTargetLoop ==
  ASSUME SessionInv, NEW f, NEW in \in Inputs, f.left \in BOOLEAN, NEW step,
         step.clutch \in Clutch,
         step.clutch.state \notin {"engaged", "acquiring"},
         NoTarget(f, in, step)
  PROVE  /\ arm'.pressed = "no" => step.clutch.pressed = "no"
         /\ arm'.state # "engaged"
         /\ refGen' = refGen
         /\ prior' = (arm'.state = "engaged")
         /\ SentTargets = {}
         /\ prior => SentPauses # {}
<1> DEFINE timer == RecoveryTimer(f.left, in)
           kept == hold /\ step.clutch.state # "disengaged"
           timedOut == timer # None /\ now - timer > RecoveryTimeout /\ ~kept
           clutch == IF timedOut THEN ClutchFault(step.clutch, now)
                     ELSE step.clutch
           captured == refGen > 0 /\ clutch.cycles > 0
           inRecovery == clutch.state = "fault" /\ captured
           live == clutch.state = "disengaged" /\ captured /\ f.left /\ in.tracked
           out == IF inRecovery \/ live THEN <<Heartbeat>> ELSE <<>>
<1>1. PICK applied \in BOOLEAN :
        /\ arm' = clutch
        /\ AfterTick(out, applied, inRecovery /\ ~applied, HandOutAfter(f, in))
        /\ refGen' = refGen
  BY DEF NoTarget
<1> HIDE DEF timedOut
<1>2. /\ clutch.state # "engaged"
      /\ clutch.pressed = "no" => step.clutch.pressed = "no"
  BY FaultType, FaultForgets DEF SessionInv, TypeOK
<1>3. (inRecovery /\ ~applied) \in BOOLEAN
  BY DEF SessionInv, TypeOK
<1>4. out = <<>> \/ out = <<Heartbeat>>
  OBVIOUS
<1> HIDE DEF clutch, inRecovery, out
<1>5. /\ prior' = (arm'.state = "engaged")
      /\ prior /\ arm'.state # "engaged" => SentPauses # {}
      /\ SentTargets # {} => out # <<>> /\ out[1].kind = "target"
  BY <1>1, <1>3, <1>4, LoopFacts DEF SessionInv, TypeOK
<1>6. SentTargets = {}
  BY <1>4, <1>5 DEF Heartbeat
<1> QED BY <1>1, <1>2, <1>5, <1>6

\* What a tick with a target puts out: a target is sent only by an arm that
\* stays engaged, and a new generation only by a capture.
LEMMA HasTargetLoop ==
  ASSUME SessionInv, NEW f, NEW in \in Inputs, f.left \in BOOLEAN, NEW step,
         step.clutch \in Clutch, step.action \in {"capture", "update"},
         step.action = "update" => step.clutch.state = "engaged",
         HasTarget(f, in, step)
  PROVE  /\ arm'.pressed = "no" => step.clutch.pressed = "no"
         /\ refGen' = IF step.action = "capture" THEN refGen + 1 ELSE refGen
         /\ prior' = (arm'.state = "engaged")
         /\ prior /\ arm'.state # "engaged" => SentPauses # {}
         /\ SentTargets # {} => arm'.state = "engaged"
<1>1. PICK result \in Results, applied \in BOOLEAN :
        /\ arm' = ArmOnResult(step, result)
        /\ refGen' = Generation(step)
        /\ AfterTick(PacketOnResult(step, result), applied,
                     result = "hard_stop" \/ ~applied, HandOutAfter(f, in))
  BY DEF HasTarget
<1>2. /\ ArmTarget(step) \in Clutch /\ ArmTarget(step).state = "engaged"
      /\ ArmTarget(step).pressed = step.clutch.pressed
  BY CycleType DEF ArmTarget, ReferenceCaptured, Clutch
<1>3. ClutchFault(ArmTarget(step), now).pressed = "unknown"
  BY <1>2, FaultForgets DEF SessionInv, TypeOK
<1>4. /\ result = "accepted" =>
           PacketOnResult(step, result) = <<Target(Generation(step))>>
      /\ result = "rejected" => PacketOnResult(step, result) = <<Heartbeat>>
      /\ result = "hard_stop" => PacketOnResult(step, result) = <<>>
  BY DEF PacketOnResult
<1> DEFINE failed == result = "hard_stop" \/ ~applied
           out == PacketOnResult(step, result)
<1>5. failed \in BOOLEAN /\ (out = <<>> \/ \E m : out = <<m>>)
  BY <1>4 DEF Results
<1>6. AfterTick(out, applied, failed, HandOutAfter(f, in))
  BY <1>1
<1> HIDE DEF failed, out
<1>7. /\ prior' = (arm'.state = "engaged")
      /\ prior /\ arm'.state # "engaged" => SentPauses # {}
      /\ SentTargets # {} => out # <<>> /\ out[1].kind = "target"
  BY <1>5, <1>6, LoopFacts DEF SessionInv, TypeOK
<1>8. SentTargets # {} => result = "accepted"
  BY <1>4, <1>7 DEF out, Heartbeat, Results
<1> QED BY <1>1, <1>2, <1>3, <1>7, <1>8 DEF ArmOnResult, Generation

\* What one tick remembers.
LEMMA RememberFacts ==
  ASSUME NEW f, Remember(f)
  PROVE  /\ history'.released = (refGen' = refGen
                 /\ (history.released \/ (f.left /\ Fresh(f.index, now)
                                            /\ f.index.value = "low")))
         /\ history'.both = (history.both /\ f.left)
         /\ history'.gen = IF SentTargets = {} THEN history.gen ELSE refGen'
         /\ history'.paused =
              (SentPauses # {} \/ (SentTargets = {} /\ history.paused))
BY DEF Remember, SentTargets, SentPauses

\* The action properties of a tick, as one formula.
HoldStep ==
  /\ refGen' # refGen => history.released
  /\ arm'.state = "engaged" \/ HandActive(hand') => history'.both
  /\ history'.gen # history.gen => history.paused
  /\ /\ HandActive(hand) /\ provider.grip # "low"
     /\ ControllerValid(provider, now) /\ ~gate'.release
     => HandActive(hand')
  /\ arm'.state = "engaged" /\ provider.seq # arm.last => provider.index # "low"

\* An open gate, after the adapter's step, means both controls were seen
\* released.
LEMMA GateOpens ==
  ASSUME SessionInv, HistoryInv, gate' = GateStep(gate, provider, now),
         ~gate'.release
  PROVE  ControllerValid(provider, now) /\ history.both
<1> DEFINE required == gate.release \/ provider.session # gate.session
<1>1. gate'.release = (\/ provider.session = NoSession
                       \/ ~ControllerValid(provider, now)
                       \/ required /\ ~(provider.index = "low"
                                          /\ provider.grip = "low"))
  BY DEF GateStep
<1>2. ~required => history.both
  BY DEF HistoryInv, GateRemembered
<1>3. ControllerValid(provider, now) /\ provider.index = "low"
        /\ provider.grip = "low" => history.both
  BY DEF HistoryInv, GateRemembered
<1> HIDE DEF required
<1> QED BY <1>1, <1>2, <1>3

\* The hand half of a tick keeps an active grip held and needs an open gate
\* for it; only the grip or the shared controller takes it away.
LEMMA HandHold ==
  ASSUME SessionInv, HistoryInv, gate' \in Gate, NEW in \in Inputs,
         HandHalf(Frame(provider, gate', now), in)
  PROVE  /\ HandActive(hand') =>
              /\ ControllerValid(provider, now) /\ ~gate'.release
              /\ hand'.pressed = "yes"
         /\ /\ HandActive(hand) /\ provider.grip # "low"
            /\ ControllerValid(provider, now) /\ ~gate'.release
            => HandActive(hand')
<1> DEFINE f == Frame(provider, gate', now)
           c == ControllerLoss(hand, f.left)
           yes == TRUE
           step == HandTick(f)
<1>1. /\ provider \in Provider /\ now \in Nat /\ hand \in Clutch
      /\ (HandActive(hand) => hand.pressed = "yes")
  BY DEF SessionInv, TypeOK, HistoryInv, GripHeld
<1>2. f.grip \in Sample /\ f.left \in BOOLEAN
  BY <1>1, GateType
<1>3. /\ f.left = ControllerValid(provider, now)
      /\ Fresh(f.grip, now) => ControllerValid(provider, now) /\ ~gate'.release
      /\ ControllerValid(provider, now) => f.grip.value = provider.grip
      /\ ControllerValid(provider, now) /\ ~gate'.release => Fresh(f.grip, now)
  BY <1>1, FrameFacts
<1> HIDE DEF f
<1>4. /\ c \in Clutch
      /\ c = hand \/ ~HandActive(c)
      /\ f.left => c = hand
  BY <1>1, FaultType DEF ControllerLoss, HandActive
<1>5. step = HandStep(c, f.grip, now, f.left, yes) /\ yes \in BOOLEAN
  BY DEF HandTick
<1> HIDE DEF c, step
<1>6. HandActive(c) => c.pressed = "yes"
  BY <1>1, <1>4
<1>7. /\ HandActive(step.clutch) =>
           f.left /\ Fresh(f.grip, now) /\ step.clutch.pressed = "yes"
      /\ HandActive(c) /\ f.left /\ Fresh(f.grip, now) /\ f.grip.value # "low" =>
           HandActive(step.clutch) /\ step.action = "update"
  <2> HIDE DEF yes
  <2>1. /\ HandActive(step.clutch) =>
             f.left /\ Fresh(f.grip, now) /\ step.clutch.pressed = "yes"
        /\ HandActive(c) /\ (f.left /\ Fresh(f.grip, now)) /\ yes
             /\ f.grip.value # "low" =>
             HandActive(step.clutch) /\ step.action = "update"
    BY <1>1, <1>2, <1>4, <1>5, <1>6, HandStepPressed
  <2> QED BY <2>1 DEF yes
<1>8. step.clutch \in Clutch
  BY <1>1, <1>2, <1>4, <1>5, HandStepFacts
<1>9. hand' = IF step.action = "reacquire" /\ ~in.features
              THEN ClutchFault(step.clutch, now) ELSE step.clutch
  BY DEF HandHalf, HandAfter, step, f
<1>10. ~HandActive(ClutchFault(step.clutch, now))
  BY <1>1, <1>8, FaultType DEF HandActive
<1> QED BY <1>3, <1>4, <1>7, <1>9, <1>10

\* A control tick keeps the history true and satisfies the action properties.
LEMMA TickHolds ==
  SessionInv /\ HistoryInv /\ Tick => HistoryInv' /\ HoldStep
<1> SUFFICES ASSUME SessionInv, HistoryInv, Tick PROVE HistoryInv' /\ HoldStep
  OBVIOUS
<1> DEFINE f == Frame(provider, gate', now)
<1>1. PICK in \in Inputs :
        LET step == ArmTick(f, in)
        IN /\ HandHalf(f, in)
           /\ \/ step.action = "freeze" /\ NoTarget(f, in, step)
              \/ step.action # "freeze" /\ HasTarget(f, in, step)
           /\ Remember(f)
  BY DEF Tick
<1>2. /\ now \in Nat \ {0} /\ provider \in Provider /\ gate \in Gate
      /\ arm \in Clutch /\ hand \in Clutch
      /\ history.released \in BOOLEAN /\ history.both \in BOOLEAN
      /\ refGen \in Nat /\ history.gen \in Nat
      /\ now' = now + 1 /\ provider' = provider
      /\ gate' = GateStep(gate, provider, now)
  BY DEF Tick, SessionInv, TypeOK, History
<1>3. gate' \in Gate
  BY <1>2, GateType
<1>4. f.index \in Sample /\ f.grip \in Sample /\ f.left \in BOOLEAN
  BY <1>2, <1>3, GateType
<1>5. /\ f.left = ControllerValid(provider, now)
      /\ Fresh(f.index, now) => ControllerValid(provider, now) /\ ~gate'.release
      /\ ControllerValid(provider, now) =>
           f.index.value = provider.index /\ f.index.seq = provider.seq
  BY <1>2, <1>3, FrameFacts
<1>6. /\ HandActive(hand') =>
           /\ ControllerValid(provider, now) /\ ~gate'.release
           /\ hand'.pressed = "yes"
      /\ /\ HandActive(hand) /\ provider.grip # "low"
         /\ ControllerValid(provider, now) /\ ~gate'.release
         => HandActive(hand')
  BY <1>1, <1>3, HandHold
<1>7. ~gate'.release => ControllerValid(provider, now) /\ history.both
  BY <1>2, GateOpens
<1> HIDE DEF f
<1> DEFINE c == WristLoss(ControllerLoss(arm, f.left), in)
           both == in.tracked /\ in.head
           step == ArmTick(f, in)
<1>8. c = arm \/ (c.state = "fault" /\ c.pressed = "unknown")
  BY <1>4, LossKeeps
<1>9. c \in Clutch /\ c.state # "acquiring"
  BY <1>4, LossFacts
<1>10. now \in Nat
  BY <1>2
<1>11. in.tracked \in BOOLEAN /\ both \in BOOLEAN
  BY DEF Inputs
<1>12. step = ArmStep(c, f.index, now, f.left, in.tracked, both)
  BY DEF ArmTick
<1> HIDE DEF c, both, step
<1>13. /\ step.clutch \in Clutch
       /\ step.action \in {"freeze", "capture", "update"}
       /\ step.action = "freeze" =>
            step.clutch.state \notin {"engaged", "acquiring"}
       /\ step.action = "capture" => c.state = "disengaged"
       /\ step.action = "update" => /\ c.state = "engaged"
                                    /\ step.clutch.state = "engaged"
  BY <1>4, <1>11, <1>12, <1>9, <1>10, ArmStepFacts
<1>14. /\ step.clutch.pressed = "no" =>
            \/ c.pressed = "no"
            \/ f.left /\ Fresh(f.index, now) /\ f.index.value = "low"
       /\ step.action = "capture" =>
            /\ Fresh(f.index, now) /\ c.pressed = "no"
            /\ f.index.value = "high" /\ step.clutch.pressed # "no"
       /\ step.action = "update" =>
            /\ Fresh(f.index, now)
            /\ f.index.seq # c.last => f.index.value # "low"
  BY <1>4, <1>11, <1>12, <1>9, <1>10, ArmStepPressed
<1>15. \/ step.action = "freeze" /\ NoTarget(f, in, step)
       \/ step.action # "freeze" /\ HasTarget(f, in, step)
  BY <1>1 DEF step
<1>16. /\ history'.released = (refGen' = refGen
              /\ (history.released \/ (f.left /\ Fresh(f.index, now)
                                         /\ f.index.value = "low")))
       /\ history'.both = (history.both /\ f.left)
       /\ history'.gen = IF SentTargets = {} THEN history.gen ELSE refGen'
       /\ history'.paused =
            (SentPauses # {} \/ (SentTargets = {} /\ history.paused))
  BY <1>1, RememberFacts
<1>17. /\ arm'.pressed = "no" => step.clutch.pressed = "no"
       /\ refGen' = IF step.action = "capture" THEN refGen + 1 ELSE refGen
       /\ prior' = (arm'.state = "engaged")
       /\ prior /\ arm'.state # "engaged" => SentPauses # {}
       /\ SentTargets # {} => arm'.state = "engaged"
       /\ arm'.state = "engaged" => step.action # "freeze"
  <2>1. CASE step.action = "freeze"
    BY <2>1, <1>4, <1>13, <1>15, NoTargetLoop
  <2>2. CASE step.action # "freeze"
    BY <2>2, <1>4, <1>13, <1>15, HasTargetLoop
  <2> QED BY <2>1, <2>2
<1>18. c.state \in {"disengaged", "engaged"} => c = arm
  BY <1>8
<1>19. ReleaseRemembered'
  BY <1>8, <1>13, <1>14, <1>16, <1>17 DEF HistoryInv, ReleaseRemembered
<1>20. GripHeld'
  BY <1>6 DEF GripHeld
<1>21. GateRemembered'
  <2>1. gate'.session = provider.session
    BY <1>2 DEF GateStep
  <2>2. ControllerValid(provider, now + 1) => ControllerValid(provider, now)
    BY <1>2, ClutchAssumption
       DEF ControllerValid, HistoryInv, GateRemembered, Provider
  <2>3. provider.at <= now + 1
    BY <1>2 DEF HistoryInv, GateRemembered, Provider
  <2>4. ControllerValid(provider, now) /\ provider.index = "low"
          /\ provider.grip = "low" => history'.both
    BY <1>5, <1>16 DEF HistoryInv, GateRemembered
  <2>5. ~gate'.release => history'.both
    BY <1>5, <1>7, <1>16
  <2>6. ControllerValid(provider, now)' = ControllerValid(provider, now + 1)
    BY <1>2 DEF ControllerValid
  <2> QED BY <2>1, <2>2, <2>3, <2>4, <2>5, <2>6, <1>2 DEF GateRemembered
<1>22. step.action = "capture" => ~prior /\ history.paused
  BY <1>13, <1>18 DEF HistoryInv, PauseRemembered
<1>23. step.action = "update" => history.gen = refGen \/ history.paused
  BY <1>13, <1>18 DEF HistoryInv, PauseRemembered
<1>24. PauseRemembered'
  <2>1. ~prior' => history'.paused
    BY <1>16, <1>17 DEF HistoryInv, PauseRemembered
  <2>2. arm'.state = "engaged" => history'.gen = refGen' \/ history'.paused
    BY <1>13, <1>16, <1>17, <1>22, <1>23
  <2> QED BY <2>1, <2>2, <1>17 DEF PauseRemembered
<1>25. HoldStep
  <2>1. refGen' # refGen => history.released
    BY <1>13, <1>14, <1>17, <1>18 DEF HistoryInv, ReleaseRemembered
  <2>2. arm'.state = "engaged" \/ HandActive(hand') => history'.both
    BY <1>5, <1>6, <1>7, <1>13, <1>14, <1>16, <1>17
  <2>3. history'.gen # history.gen => history.paused
    BY <1>13, <1>16, <1>17, <1>22, <1>23
  <2>4. arm'.state = "engaged" /\ provider.seq # arm.last
          => provider.index # "low"
    BY <1>5, <1>13, <1>14, <1>17, <1>18
  <2> QED BY <1>6, <2>1, <2>2, <2>3, <2>4 DEF HoldStep
<1> QED BY <1>19, <1>20, <1>21, <1>24, <1>25 DEF HistoryInv

\* Publishing a snapshot: the adapter opens its gate only for a packet that
\* shows both controls released, or stays open in the same valid session.
LEMMA PublishHolds ==
  ASSUME SessionInv, HistoryInv, NEW p \in Provider, NEW t \in Nat, t <= now,
         t >= p.at, Publish(p, t), UNCHANGED <<now, session, outputs>>
  PROVE  HistoryInv'
<1>1. /\ provider' = p /\ gate' = GateStep(gate, p, t)
      /\ now' = now /\ arm' = arm /\ hand' = hand /\ refGen' = refGen
      /\ prior' = prior
  BY DEF Publish, session, outputs
<1> DEFINE b == \/ /\ ControllerValid(p, t) /\ p.index = "low" /\ p.grip = "low"
                \/ /\ history.both
                   /\ ControllerValid(p, t)
                   /\ p.session = provider.session
           required == gate.release \/ p.session # gate.session
<1>2. history' = [history EXCEPT !.both = b]
  BY DEF Publish
<1>3. b \in BOOLEAN
  OBVIOUS
<1> HIDE DEF b
<1>4. /\ history'.both = b /\ history'.released = history.released
      /\ history'.gen = history.gen /\ history'.paused = history.paused
  BY <1>2 DEF SessionInv, TypeOK, History
<1>5. gate'.session = p.session
  BY <1>1 DEF GateStep
<1>6. ~gate'.release =>
        /\ ControllerValid(p, t)
        /\ ~required \/ (p.index = "low" /\ p.grip = "low")
  BY <1>1 DEF GateStep
<1>7. ~required => history.both /\ p.session = provider.session
  BY DEF HistoryInv, GateRemembered
<1>8. ~gate'.release => history'.both
  BY <1>4, <1>6, <1>7 DEF b
<1>9. p.at <= now
  BY DEF SessionInv, TypeOK, Provider
<1>10. ControllerValid(p, now) => ControllerValid(p, t)
  BY ClutchAssumption DEF ControllerValid, Provider, SessionInv, TypeOK
<1>11. ControllerValid(p, now) /\ p.index = "low" /\ p.grip = "low"
         => history'.both
  BY <1>4, <1>10 DEF b
<1>12. ControllerValid(provider, now)' = ControllerValid(p, now)
  BY <1>1 DEF ControllerValid
<1>13. GateRemembered'
  BY <1>1, <1>5, <1>8, <1>9, <1>11, <1>12 DEF GateRemembered
<1>14. ReleaseRemembered' /\ GripHeld' /\ PauseRemembered'
  BY <1>1, <1>4 DEF HistoryInv, ReleaseRemembered, GripHeld, PauseRemembered,
                    HandActive
<1> QED BY <1>13, <1>14 DEF HistoryInv

\* A malformed hand datagram faults both clutches and forgets their triggers.
LEMMA MalformedHolds ==
  SessionInv /\ HistoryInv /\ MalformedHandData => HistoryInv'
<1> SUFFICES ASSUME SessionInv, HistoryInv, MalformedHandData PROVE HistoryInv'
  OBVIOUS
<1>1. PICK t \in (now - Lag) .. now :
        arm' = ClutchFault(arm, t) /\ hand' = ClutchFault(hand, t)
  BY DEF MalformedHandData
<1>2. t \in Nat
  BY SessionAssumption DEF SessionInv, TypeOK
<1>3. /\ arm'.state = "fault" /\ arm'.pressed = "unknown"
      /\ hand'.state = "fault"
  BY <1>1, <1>2, FaultType, FaultForgets DEF SessionInv, TypeOK
<1> DEFINE no == FALSE
<1>4. /\ history' = [history EXCEPT !.rearmed = no]
      /\ now' = now /\ provider' = provider /\ gate' = gate /\ prior' = prior
  BY DEF MalformedHandData, input, outputs
<1> HIDE DEF no
<1>5. /\ history'.both = history.both /\ history'.paused = history.paused
  BY <1>4 DEF SessionInv, TypeOK, History
<1>6. ReleaseRemembered' /\ GripHeld' /\ PauseRemembered'
  BY <1>3, <1>4, <1>5
     DEF HistoryInv, ReleaseRemembered, GripHeld, PauseRemembered, HandActive
<1>7. ControllerValid(provider, now)' = ControllerValid(provider, now)
  BY <1>4 DEF ControllerValid
<1>8. GateRemembered'
  BY <1>4, <1>5, <1>7 DEF HistoryInv, GateRemembered
<1> QED BY <1>6, <1>8 DEF HistoryInv

\* Leaving the loop stops the arm, which counts as a pause.
LEMMA LeaveHolds ==
  SessionInv /\ HistoryInv /\ (Abort \/ Finish) => HistoryInv'
<1> SUFFICES ASSUME SessionInv, HistoryInv, Abort \/ Finish PROVE HistoryInv'
  OBVIOUS
<1> DEFINE yes == TRUE
<1>1. /\ history' = [history EXCEPT !.paused = yes]
      /\ UNCHANGED <<now, input, session, prior>>
  BY DEF Abort, Finish
<1>2. yes
  OBVIOUS
<1> HIDE DEF yes
<1>3. /\ history'.both = history.both /\ history'.released = history.released
      /\ history'.gen = history.gen /\ history'.paused = yes
  BY <1>1 DEF SessionInv, TypeOK, History
<1>4. ReleaseRemembered' /\ GripHeld' /\ PauseRemembered'
  BY <1>1, <1>2, <1>3
     DEF HistoryInv, ReleaseRemembered, GripHeld, PauseRemembered, HandActive,
         session
<1>5. ControllerValid(provider, now)' = ControllerValid(provider, now)
  BY <1>1 DEF ControllerValid, input
<1>6. GateRemembered'
  BY <1>1, <1>3, <1>5 DEF HistoryInv, GateRemembered, input
<1> QED BY <1>4, <1>6 DEF HistoryInv

\* Initially both triggers are unknown, the gate is closed and the arm counts
\* as paused.
LEMMA InitHistory == Init => HistoryInv
<1> SUFFICES ASSUME Init PROVE HistoryInv
  OBVIOUS
<1>1. /\ arm.pressed = "unknown" /\ arm.state = "waiting"
      /\ hand.state = "waiting"
  BY DEF Init, ClutchInit
<1>2. /\ gate.release /\ gate.session = NoSession
      /\ provider.session = NoSession /\ provider.at = 0 /\ now = 1
  BY DEF Init, GateInit, ProviderInit
<1>3. ~prior /\ history.paused
  BY DEF Init, HistoryInit
<1>4. ~ControllerValid(provider, now)
  BY <1>2 DEF ControllerValid
<1> QED
  BY <1>1, <1>2, <1>3, <1>4
  DEF HistoryInv, ReleaseRemembered, GripHeld, GateRemembered, PauseRemembered,
      HandActive

\* Every step keeps the history true; a tick satisfies the action properties.
LEMMA NextHolds ==
  SessionInv /\ HistoryInv /\ [Next]_vars => HistoryInv' /\ (Tick => HoldStep)
<1> SUFFICES ASSUME SessionInv, HistoryInv, [Next]_vars PROVE HistoryInv'
  BY TickHolds
<1>1. ASSUME NEW t \in ReceiveTimes
      PROVE  t \in Nat /\ t <= now /\ t >= provider.at
  BY <1>1, SessionAssumption DEF ReceiveTimes, SessionInv, TypeOK
<1>2. provider \in Provider /\ provider.at \in Nat
  BY DEF SessionInv, TypeOK, Provider
<1>3. CASE ControllerPacket
  <2>1. PICK pkt \in Packet, t \in ReceiveTimes :
          Publish(Update(provider, pkt, t), t)
    BY <1>3 DEF ControllerPacket
  <2>2. t \in Nat /\ t <= now /\ t >= provider.at
    BY <1>1
  <2>3. Update(provider, pkt, t) \in Provider
    BY <1>2, <2>2, ProviderType
  <2>4. Update(provider, pkt, t).at \in {provider.at, t}
    BY <1>2 DEF Update, Accept, Provider
  <2>5. UNCHANGED <<now, session, outputs>>
    BY <1>3 DEF ControllerPacket
  <2>6. t >= Update(provider, pkt, t).at
    BY <2>2, <2>4
  <2> QED BY <2>1, <2>2, <2>3, <2>5, <2>6, PublishHolds
<1>4. CASE MalformedController
  <2>1. PICK t \in ReceiveTimes : Publish(Invalidate(provider), t)
    BY <1>4 DEF MalformedController
  <2>2. t \in Nat /\ t <= now /\ t >= provider.at
    BY <1>1
  <2>3. Invalidate(provider) \in Provider
        /\ Invalidate(provider).at = provider.at
    BY <1>2 DEF Invalidate, Provider
  <2>4. UNCHANGED <<now, session, outputs>>
    BY <1>4 DEF MalformedController
  <2> QED BY <2>1, <2>2, <2>3, <2>4, PublishHolds
<1>5. CASE MalformedHandData
  BY <1>5, MalformedHolds
<1>6. CASE Tick
  BY <1>6, TickHolds
<1>7. CASE Abort \/ Finish
  BY <1>7, LeaveHolds
<1>8. CASE UNCHANGED vars
  <2>1. ControllerValid(provider, now)' = ControllerValid(provider, now)
    BY <1>8 DEF ControllerValid, vars, input
  <2> QED
    BY <1>8, <2>1
    DEF HistoryInv, ReleaseRemembered, GripHeld, GateRemembered,
        PauseRemembered, HandActive, vars, input, session, outputs
<1> QED BY <1>3, <1>4, <1>5, <1>6, <1>7, <1>8 DEF Next

\* Between ticks time, the reference and what was last sent stand still.
LEMMA OnlyTicks ==
  SessionInv /\ [Next]_vars =>
    Tick \/ (now' = now /\ refGen' = refGen /\ history'.gen = history.gen)
<1> SUFFICES ASSUME SessionInv, [Next]_vars, ~Tick
             PROVE  now' = now /\ refGen' = refGen /\ history'.gen = history.gen
  OBVIOUS
<1>1. \A x : [history EXCEPT !.both = x].gen = history.gen
             /\ [history EXCEPT !.rearmed = x].gen = history.gen
             /\ [history EXCEPT !.paused = x].gen = history.gen
  BY DEF SessionInv, TypeOK, History
<1>2. CASE ControllerPacket \/ MalformedController
  <2>1. PICK p, t : Publish(p, t)
    BY <1>2 DEF ControllerPacket, MalformedController
  <2>2. PICK x : history' = [history EXCEPT !.both = x]
    BY <2>1 DEF Publish
  <2>3. now' = now /\ refGen' = refGen
    BY <1>2 DEF ControllerPacket, MalformedController, session
  <2> QED BY <1>1, <2>2, <2>3
<1>3. CASE MalformedHandData
  BY <1>1, <1>3 DEF MalformedHandData
<1>4. CASE Abort \/ Finish
  BY <1>1, <1>4 DEF Abort, Finish, session
<1>5. CASE UNCHANGED vars
  BY <1>5 DEF vars, session
<1> QED BY <1>2, <1>3, <1>4, <1>5 DEF Next

\* Both invariants together.
LEMMA HistoryInvariance == Spec => [](SessionInv /\ HistoryInv)
<1>1. Init => HistoryInv
  BY InitHistory
<1>2. SessionInv /\ HistoryInv /\ [Next]_vars => HistoryInv'
  BY NextHolds
<1> QED BY <1>1, <1>2, InitInv, NextInv, PTL DEF Spec

\* control_tick: losing the wrist, the head or the skeleton never takes an
\* active grip away while the controller is valid, its gate open and the grip
\* not released.
THEOREM HandSurvivalCorrect == Spec => HandSurvivesArmLoss
<1>1. SessionInv /\ HistoryInv /\ [Next]_vars =>
        [now' # now /\ HandActive(hand) /\ provider.grip # "low"
           /\ ControllerValid(provider, now) /\ ~gate'.release
           => HandActive(hand')]_vars
  BY NextHolds, OnlyTicks DEF HoldStep
<1> QED BY <1>1, HistoryInvariance, PTL DEF Spec, HandSurvivesArmLoss

\* Hold-to-run: a reference is captured only after the trigger was seen
\* released since the last capture, a machine is active only after both
\* controls were seen released in the current session, the arm stays engaged
\* only while the trigger is held, the hand while its grip is, and a new generation of targets is sent only
\* after the previous engagement was paused at the native worker.
THEOREM HoldToRunCorrect == Spec => HoldToRun
<1>1. SessionInv /\ HistoryInv /\ [Next]_vars =>
        [refGen' # refGen => history.released]_vars
  BY NextHolds, OnlyTicks DEF HoldStep
<1>2. SessionInv /\ HistoryInv /\ [Next]_vars =>
        [now' # now /\ (arm'.state = "engaged" \/ HandActive(hand'))
           => history'.both]_vars
  BY NextHolds, OnlyTicks DEF HoldStep
<1>3. SessionInv /\ HistoryInv /\ [Next]_vars =>
        [now' # now /\ arm'.state = "engaged" /\ provider.seq # arm.last
           => provider.index # "low"]_vars
  BY NextHolds, OnlyTicks DEF HoldStep
<1>4. SessionInv /\ HistoryInv /\ [Next]_vars =>
        [history'.gen # history.gen => history.paused]_vars
  BY NextHolds, OnlyTicks DEF HoldStep
<1>5. Spec => ReleaseBeforeCapture
  BY <1>1, HistoryInvariance, PTL DEF Spec, ReleaseBeforeCapture
<1>6. Spec => SharedReleaseBeforePress
  BY <1>2, HistoryInvariance, PTL DEF Spec, SharedReleaseBeforePress
<1>7. Spec => EngagedWhileHeld
  BY <1>3, HistoryInvariance, PTL DEF Spec, EngagedWhileHeld
<1>8. Spec => PauseBetweenEngagements
  BY <1>4, HistoryInvariance, PTL DEF Spec, PauseBetweenEngagements
<1> QED BY <1>5, <1>6, <1>7, <1>8, HandSurvivalCorrect DEF HoldToRun
=============================================================================
