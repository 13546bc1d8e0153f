----------------------------- MODULE ServoSchedule -----------------------------
(***************************************************************************)
(* The deadline arithmetic of the native JAKA servo loop (run() in         *)
(* native/jaka_servo_worker/main.cpp, joint teleoperation mode): absolute  *)
(* deadlines one period apart, late wakes and late completions, the grace  *)
(* at startup, re-alignment after a delay, and the time at which the       *)
(* resampler is evaluated.  What the loop does with the packets it         *)
(* receives is in JakaServoWorker; here a cycle is a start and an end.     *)
(* All times are in one unit; the scheduler decides how late each of them  *)
(* is.  The names of this module and of JakaServoWorker are distinct, so    *)
(* that one module can extend both.                                        *)
(***************************************************************************)
EXTENDS Integers

CONSTANTS
    Period,         \* servo_period_ns
    PeriodSlack,    \* start period beyond Period that is a warning (0.8 ms)
    WakeSlack,      \* wake lateness that is a warning (2 ms)
    GraceCycles,    \* startup_timing_grace_cycles
    MaxTime         \* bound on the time explored

ASSUME ScheduleAssumption ==
    /\ Period \in Nat \ {0} /\ PeriodSlack \in Nat /\ WakeSlack \in Nat
    /\ PeriodSlack <= WakeSlack /\ WakeSlack < Period
    /\ GraceCycles \in Nat /\ MaxTime \in Nat

VARIABLES
    phase,      \* "sleep", "cycle", or "fault"
    now,        \* the monotonic clock, at the last start or end of a cycle
    deadline,   \* the deadline of the cycle under way, or of the last one
    previous,   \* the reference of the start period
    everReceived,   \* ever_received
    grace,      \* startup_timing_grace_active
    graceSpent, \* startup_timing_cycles
    warnings,   \* consecutive_timing_warnings
    misses,     \* consecutive_completion_misses
    realign,    \* schedule_realign of the cycle under way
    servoTime,  \* last_servo_time_ns of the resampler
    outcome,    \* why the loop ended
    lastStart,  \* history: when the last cycle started
    wasLate     \* history: the cycle before the present one started late

scheduleVars == <<phase, now, deadline, previous, everReceived, grace, graceSpent, warnings,
          misses, realign, servoTime, outcome, lastStart, wasLate>>

\* The loop starts with the clock, the deadline and the reference aligned; the
\* resampler was initialised at the EDG handoff, before that.
ScheduleInit ==
    /\ phase = "sleep" /\ now \in {0, 1} /\ deadline = now /\ previous = now
    /\ everReceived = FALSE /\ grace = TRUE /\ graceSpent = 0
    /\ warnings = 0 /\ misses = 0 /\ realign = FALSE /\ servoTime = 0
    /\ outcome = "completed" /\ lastStart = now /\ wasLate = FALSE

------------------------------------------------------------------------------
(* One cycle *)

\* The grace ends with the first packet or after its cycles.
GraceAfter == grace /\ ~everReceived /\ graceSpent < GraceCycles

Lateness(start) == IF start > deadline + Period THEN start - (deadline + Period) ELSE 0

HardStart(start) ==
    \/ start - previous > 2 * Period
    \/ Lateness(start) >= Period /\ ~GraceAfter

Warning(start) ==
    start - previous > Period + PeriodSlack \/ Lateness(start) > WakeSlack

WarningsAfter(start) == IF Warning(start) THEN warnings + 1 ELSE 0

\* A late wake evaluates once at the current time, any other on the grid.
EvaluationTime(start) == IF Warning(start) THEN start ELSE deadline + Period

StartFault(start) ==
    \/ HardStart(start) /\ outcome' = "hard_start_timing_miss"
    \/ /\ ~HardStart(start) /\ WarningsAfter(start) >= 2 /\ ~GraceAfter
       /\ outcome' = "consecutive_start_timing_misses"

StartProceeds(start) ==
    ~HardStart(start) /\ (WarningsAfter(start) < 2 \/ GraceAfter)

\* The thread sleeps until the next deadline (not at all when that is past)
\* and is woken some time later.
StartCycle ==
    /\ phase = "sleep"
    /\ \E start \in now..MaxTime :
         /\ start >= deadline + Period
         /\ now' = start /\ deadline' = deadline + Period /\ lastStart' = start
         /\ grace' = GraceAfter
         /\ graceSpent' = IF GraceAfter THEN graceSpent + 1 ELSE graceSpent
         /\ wasLate' = (Lateness(start) > PeriodSlack)
         /\ \/ /\ StartFault(start)
               /\ phase' = "fault"
               /\ UNCHANGED <<everReceived, warnings, realign, servoTime>>
            \/ /\ StartProceeds(start)
               /\ warnings' = WarningsAfter(start) /\ realign' = Warning(start)
               /\ everReceived' \in {everReceived, TRUE}
               /\ IF EvaluationTime(start) < servoTime
                    THEN phase' = "fault" /\ outcome' = "servo_time_moved_backwards"
                         /\ UNCHANGED servoTime
                    ELSE phase' = "cycle" /\ servoTime' = EvaluationTime(start)
                         /\ UNCHANGED outcome
    /\ UNCHANGED <<previous, misses>>

CompletionMissed(end) == end > deadline + Period

HardCompletion(end) ==
    \/ end > deadline + Period + Period \div 2
    \/ misses + 1 >= 2 /\ ~(grace /\ ~everReceived)

\* Mutant: a late completion keeps the old grid.
RealignedDeadline_KeepsGrid(end) ==
    IF realign /\ ~CompletionMissed(end) THEN lastStart ELSE deadline

\* A late completion re-arms from the completion, a late start from the start.
RealignedDeadline(end) ==
    IF CompletionMissed(end) THEN end ELSE IF realign THEN lastStart ELSE deadline

\* Mutant: the start-period reference stays at the start of a late cycle.
ReferenceAfter_Start(end) == lastStart

\* The tick skipped by a late completion is not a late start of the next.
ReferenceAfter(end) == IF CompletionMissed(end) THEN end ELSE lastStart

\* The command is written and the cycle ends: on time, late, or too late.
EndCycle ==
    /\ phase = "cycle"
    /\ \E end \in now..MaxTime :
         /\ now' = end
         /\ misses' = IF CompletionMissed(end) THEN misses + 1 ELSE 0
         /\ IF CompletionMissed(end) /\ HardCompletion(end)
              THEN /\ phase' = "fault" /\ outcome' = "hard_completion_timing_miss"
                   /\ previous' = lastStart /\ UNCHANGED deadline
              ELSE /\ phase' = "sleep"
                   /\ deadline' = RealignedDeadline(end)
                   /\ previous' = ReferenceAfter(end)
                   /\ UNCHANGED outcome
    /\ UNCHANGED <<everReceived, grace, graceSpent, warnings, realign, servoTime, lastStart, wasLate>>

ScheduleNext == StartCycle \/ EndCycle
ScheduleSpec == ScheduleInit /\ [][ScheduleNext]_scheduleVars

------------------------------------------------------------------------------
(* Properties *)

\* The counters stay in range and the clock never runs behind the last start.
ScheduleTypeOK ==
    /\ phase \in {"sleep", "cycle", "fault"}
    /\ now \in Nat /\ deadline \in Nat /\ previous \in Nat /\ servoTime \in Nat
    /\ lastStart \in 0..now
    /\ everReceived \in BOOLEAN /\ grace \in BOOLEAN /\ realign \in BOOLEAN /\ wasLate \in BOOLEAN
    /\ graceSpent \in 0..GraceCycles /\ warnings \in Nat /\ misses \in Nat
    /\ outcome \in {"completed", "hard_start_timing_miss", "consecutive_start_timing_misses",
                    "servo_time_moved_backwards", "hard_completion_timing_miss"}

\* Late starts, late completions and re-alignments never make the loop
\* evaluate the resampler at a time before its last point, which would throw
\* "servo evaluation time moved backwards" in the middle of a motion.
EvaluationAdvances == outcome # "servo_time_moved_backwards"

\* When the loop goes to sleep its next deadline is not in the past: no delay
\* makes it emit ServoJ commands back to back to catch up.
NextDeadlineAhead == phase = "sleep" => deadline + Period >= now

\* Whatever delays it meets, the loop neither goes back in servo time nor
\* catches up: the timeline it evaluates and the deadlines it sleeps to only
\* move forward (the re-alignment in run()).
TimelineAdvances == EvaluationAdvances /\ NextDeadlineAhead

\* "A single sub-period scheduler delay is recoverable": a start less than one
\* period late ends the loop only when the start before it was late as well.
OneDelayIsTolerated ==
    [][outcome' # outcome /\ outcome' # "hard_completion_timing_miss" /\ now' - deadline' < Period
         => wasLate /\ wasLate']_scheduleVars
=============================================================================
