----------------------------- MODULE MotionClutch -----------------------------
(***************************************************************************)
(* The two hold-to-run clutches of src/motion_input/clutch.py, as          *)
(* operators on records.  A clutch record holds the machine's state        *)
(* together with its AnalogHoldToRun trigger (pressed, rel, last), the     *)
(* time of its active fault and its cycle_count; the hand clutch uses      *)
(* "start" for reacquisition_started_ns.  A sample is one                  *)
(* AnalogClutchSample: its value is one of the three hysteresis bands      *)
(* ("low" <= released_at, "high" >= pressed_at, "band" between them).      *)
(* A step returns the clutch afterwards and the ClutchAction it reports.   *)
(***************************************************************************)
EXTENDS Integers

CONSTANTS
  Stale,       \* stale_after_ns, in control periods
  Reacquire    \* reacquisition_duration_ns, in control periods

ASSUME ClutchAssumption == Stale \in Nat \ {0} /\ Reacquire \in Nat \ {0}

None == -1     \* Python's None where the value is a time or a sequence

Bands == {"low", "band", "high"}
ClutchStates ==
  {"waiting", "disengaged", "acquiring", "engaged", "fault"}
Actions == {"freeze", "capture", "reacquire", "update"}

Sample == [value : Bands, at : Nat, seq : Nat, valid : BOOLEAN]
Clutch == [state : ClutchStates, pressed : {"unknown", "yes", "no"},
           rel : BOOLEAN, last : Nat \cup {None}, faultAt : Nat \cup {None},
           cycles : Nat, start : Nat \cup {None}]

ClutchInit ==
  [state |-> "waiting", pressed |-> "unknown", rel |-> FALSE, last |-> None,
   faultAt |-> None, cycles |-> 0, start |-> None]

\* AnalogClutchSample.fresh
Fresh(s, t) == s.valid /\ t >= s.at /\ t - s.at <= Stale

\* AnalogHoldToRun.require_release
RequireRelease(c) ==
  [c EXCEPT !.rel = FALSE, !.pressed = "unknown", !.last = None]

\* AnalogHoldToRun.observe: a sample already observed changes nothing, and the
\* hysteresis band keeps the previous reading.
Observe(c, s, fresh) ==
  IF ~fresh \/ s.seq = c.last THEN c
  ELSE [c EXCEPT !.last = s.seq,
                 !.pressed = CASE s.value = "high" -> "yes"
                               [] s.value = "low"  -> "no"
                               [] OTHER            -> c.pressed,
                 !.rel = c.rel \/ s.value = "low"]

\* The rising edge observe reports for the step from c to o.
RisingEdge(c, o) == o.rel /\ c.pressed = "no" /\ o.pressed = "yes"

\* ArmClutchMachine.fault and HandClutchMachine.fault
ClutchFault(c, t) ==
  [RequireRelease(c) EXCEPT !.state = "fault", !.faultAt = t, !.start = None]

Freeze(c) == [clutch |-> c, action |-> "freeze"]

\* A faulted clutch re-arms on a released trigger whose sample is newer than
\* the fault, once the inputs it needs are valid again.
Recover(o, s, fresh, inputs) ==
  IF fresh /\ o.pressed = "no" /\ s.at > o.faultAt /\ inputs
  THEN [o EXCEPT !.state = "disengaged", !.faultAt = None]
  ELSE o

Arm(o, fresh) ==
  IF fresh /\ o.pressed = "no" THEN [o EXCEPT !.state = "disengaged"] ELSE o

\* ArmClutchMachine.step.  "acquiring" is REFERENCE_CAPTURE.
ArmStep(c, s, t, controller, continuous, capture) ==
  LET fresh == controller /\ Fresh(s, t)
      o == Observe(c, s, fresh)
  IN CASE o.state = "waiting" -> Freeze(Arm(o, fresh))
       [] o.state = "fault" -> Freeze(Recover(o, s, fresh, capture))
       [] o.state \notin {"waiting", "fault"} /\ ~fresh ->
            Freeze(ClutchFault(o, t))
       [] o.state = "acquiring" /\ fresh -> Freeze(o)
       [] o.state = "disengaged" /\ fresh ->
            IF ~RisingEdge(c, o) THEN Freeze(o)
            ELSE IF ~capture THEN Freeze(ClutchFault(o, t))
            ELSE [clutch |-> [o EXCEPT !.state = "acquiring"],
                  action |-> "capture"]
       [] o.state = "engaged" /\ fresh ->
            IF ~continuous THEN Freeze(ClutchFault(o, t))
            ELSE IF o.pressed = "no"
            THEN Freeze([o EXCEPT !.state = "disengaged"])
            ELSE [clutch |-> o, action |-> "update"]

\* ArmClutchMachine.reference_captured; the caller is in REFERENCE_CAPTURE.
ReferenceCaptured(c) ==
  [c EXCEPT !.state = "engaged", !.cycles = c.cycles + 1]

\* HandClutchMachine.step.  "acquiring" is REACQUIRE.
HandStep(c, s, t, controller, skeleton) ==
  LET fresh == controller /\ Fresh(s, t)
      o == Observe(c, s, fresh)
  IN CASE o.state = "waiting" -> Freeze(Arm(o, fresh))
       [] o.state = "fault" -> Freeze(Recover(o, s, fresh, skeleton))
       [] o.state \notin {"waiting", "fault"} /\ ~fresh ->
            Freeze(ClutchFault(o, t))
       [] o.state = "disengaged" /\ fresh ->
            IF ~RisingEdge(c, o) THEN Freeze(o)
            ELSE IF ~skeleton THEN Freeze(ClutchFault(o, t))
            ELSE [clutch |-> [o EXCEPT !.state = "acquiring", !.start = t,
                                       !.cycles = o.cycles + 1],
                  action |-> "reacquire"]
       [] o.state \in {"acquiring", "engaged"} /\ fresh ->
            IF ~skeleton THEN Freeze(ClutchFault(o, t))
            ELSE IF o.pressed = "no"
            THEN Freeze([o EXCEPT !.state = "disengaged", !.start = None])
            ELSE [clutch |-> IF o.state = "acquiring" /\ t - o.start >= Reacquire
                             THEN [o EXCEPT !.state = "engaged"] ELSE o,
                  action |-> "update"]
=============================================================================
