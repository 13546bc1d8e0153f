-------------------------- MODULE EpisodeCollector --------------------------
(***************************************************************************)
(* SingleEpisodeCollector (src/episode_dataset/collector.py) as operators  *)
(* on a record: the capture state machine, the start gate and the decision *)
(* made at every slot of the dataset grid.  It is used by the recorder     *)
(* process with deferred finalization, so a terminal call only notes what  *)
(* finalize_pending has to do.                                             *)
(*                                                                         *)
(* A control sample is what the decisions look at:                         *)
(*   ordered   its sources advance in the host clock's domain              *)
(*   active    capture_active, the record intent of the producer           *)
(*   ready     reference, measured state and two fresh frames are there    *)
(*   fault     alarm, tracking fault or lost heartbeat                     *)
(*   due       the grid has a slot at or before the sample                 *)
(*   control   the control timeline is fresh at the slot                   *)
(*   cams      freshness of each camera at the slot                        *)
(*   fields    every required field is present                             *)
(* A writer reply w says how begin, a row and a raw record were taken.     *)
(***************************************************************************)
EXTENDS Integers

CONSTANTS
    Roles,              \* camera roles
    StaleLimit,         \* camera_consecutive_stale_limit
    FieldLimit,         \* canonical_required_field_consecutive_limit
    RetryStart          \* retry_start_rejections: the staging format

ASSUME CollectorAssumption ==
    StaleLimit \in Nat \ {0} /\ FieldLimit \in Nat \ {0} /\ RetryStart \in BOOLEAN

CaptureState == {"IDLE", "ARMING", "REC", "FINALIZING", "DONE"}
EpisodeStatus == {"COMPLETED", "ABORTED", "INVALID"}
Freshness == {"fresh", "stale", "severe"}

Sample == [ordered : BOOLEAN, active : BOOLEAN, ready : BOOLEAN, fault : BOOLEAN, due : BOOLEAN,
           control : BOOLEAN, cams : [Roles -> Freshness], fields : BOOLEAN]
Reply == [begin : {"ok", "rejected", "failed"}, row : {"ok", "full", "failed"}, raw : {"ok", "failed"}]

Collector == [state : CaptureState, pressed : BOOLEAN, deferred : {"none", "reject", "finish", "discard", "abort"},
              status : EpisodeStatus \cup {"none"}, result : BOOLEAN,
              stale : [Roles -> 0 .. StaleLimit], fieldRun : 0 .. FieldLimit]

NewCollector ==
    [state |-> "IDLE", pressed |-> FALSE, deferred |-> "none", status |-> "none", result |-> FALSE,
     stale |-> [r \in Roles |-> 0], fieldRun |-> 0]

Done(c, todo, status) == [c EXCEPT !.state = "DONE", !.deferred = todo, !.status = status]

\* abort(): before the recording there is only a rejected start.
Abort(c, invalid) ==
    IF c.state = "DONE" THEN c
    ELSE IF c.state \in {"IDLE", "ARMING"} THEN Done(c, "reject", "INVALID")
    ELSE Done(c, "abort", IF invalid THEN "INVALID" ELSE "ABORTED")

\* shutdown() outside DONE; closing the idle writer is the caller's.
Shutdown(c) == IF c.state = "IDLE" THEN [c EXCEPT !.state = "DONE"] ELSE Abort(c, FALSE)

Finish(c) ==
    IF c.state = "DONE" THEN c
    ELSE IF c.state # "REC" THEN Shutdown(c)
    ELSE Done(c, "finish", "COMPLETED")

DiscardCurrent(c) ==
    IF c.state = "DONE" THEN c
    ELSE Done(c, IF c.state \in {"IDLE", "ARMING"} THEN "reject" ELSE "discard", "INVALID")

\* What finalize_pending asks of the writer, and the collector after it;
\* an exception of the writer leaves the collector where it was going.
PendingCall(c) == IF c.result THEN "none" ELSE c.deferred
FinalizePending(c, raised) ==
    IF PendingCall(c) = "none" THEN c
    ELSE [c EXCEPT !.deferred = "none", !.result = ~raised,
                   !.state = IF raised /\ c.deferred # "reject" THEN "FINALIZING" ELSE "DONE"]

\* ingest_camera: a device clock that runs backwards ends a recording; a
\* host timestamp that does, or a failing writer, ends it in any state.
IngestCamera(c, regressed, w) ==
    IF c.state = "DONE" THEN c
    ELSE IF regressed THEN Abort(c, TRUE)
    ELSE IF c.state = "REC" /\ w.raw = "failed" THEN Abort(c, FALSE) ELSE c

\* A slot whose camera frames are too old becomes a metadata-only row.
StaleSlot(c, s, w) ==
    LET stale == [r \in Roles |-> IF s.cams[r] = "fresh" THEN 0
                                  ELSE IF c.stale[r] < StaleLimit THEN c.stale[r] + 1 ELSE StaleLimit]
        persistent == \E r \in Roles : stale[r] = StaleLimit /\ s.cams[r] = "severe"
        noted == [c EXCEPT !.stale = stale]
    IN IF w.raw = "failed" \/ persistent THEN Abort(noted, FALSE) ELSE noted

MissingFieldSlot(c, w) ==
    LET noted == [c EXCEPT !.stale = [r \in Roles |-> 0],
                           !.fieldRun = IF c.fieldRun < FieldLimit THEN c.fieldRun + 1 ELSE FieldLimit]
    IN IF w.raw = "failed" THEN Abort(noted, FALSE)
       ELSE IF noted.fieldRun = FieldLimit THEN Abort(noted, TRUE) ELSE noted

\* _append_canonical; a full recorder queue costs the row, not the episode.
AppendCanonical(c, s, w) ==
    IF ~s.control THEN Abort(c, FALSE)
    ELSE IF \E r \in Roles : s.cams[r] # "fresh" THEN StaleSlot(c, s, w)
    ELSE IF ~s.fields THEN MissingFieldSlot(c, w)
    ELSE LET clean == [c EXCEPT !.stale = [r \in Roles |-> 0], !.fieldRun = 0] IN
         IF w.row = "failed" \/ (w.row = "full" /\ w.raw = "failed") THEN Abort(clean, FALSE) ELSE clean

\* Whether the slot is offered to the writer as a row.
OffersRow(s) == s.control /\ s.fields /\ \A r \in Roles : s.cams[r] = "fresh"

\* _start_if_ready: the writer's gate rejects, fails, or opens the episode
\* and takes slot 0.
StartIfReady(c, s, w) ==
    IF ~s.ready THEN c
    ELSE CASE w.begin = "ok" ->
                LET opened == AppendCanonical([c EXCEPT !.state = "REC"], s, w) IN
                IF w.raw = "failed" THEN Abort(opened, FALSE) ELSE opened
           [] w.begin = "rejected" /\ RetryStart -> c
           [] OTHER -> Done(c, "reject", "INVALID")

\* The press edge arms, a release before the first sample rejects.
ArmingSample(c, s, w) ==
    LET edge == s.active /\ ~c.pressed
        armed == [c EXCEPT !.pressed = s.active,
                           !.state = IF c.state = "IDLE" /\ edge THEN "ARMING" ELSE c.state]
    IN IF armed.state # "ARMING" THEN armed
       ELSE IF ~s.active THEN (IF c.pressed THEN Done(armed, "reject", "INVALID") ELSE armed)
       ELSE StartIfReady(armed, s, w)

\* A sample of a running recording: faults, the release, then the slot.
RecordingSample(c, s, w) ==
    LET seen == [c EXCEPT !.pressed = s.active] IN
    IF w.raw = "failed" \/ s.fault THEN Abort(seen, FALSE)
    ELSE IF c.pressed /\ ~s.active THEN Done(seen, "finish", "COMPLETED")
    ELSE IF s.due THEN AppendCanonical(seen, s, w) ELSE seen

\* _index_control_sources: a source that runs backwards ends the capture.
IndexControlSources(c, s) == IF s.ordered THEN c ELSE Abort(c, TRUE)

IngestControl(c, s, w) ==
    IF c.state = "DONE" THEN c
    ELSE IF ~s.ordered THEN IndexControlSources(c, s)
    ELSE CASE c.state \in {"IDLE", "ARMING"} -> ArmingSample(c, s, w)
           [] c.state = "REC" -> RecordingSample(c, s, w)
           [] OTHER -> [c EXCEPT !.pressed = s.active]

\* Whether the writer's begin, or a row, is called for this sample.
CallsBegin(c, s) ==
    /\ c.state \in {"IDLE", "ARMING"} /\ s.ordered /\ s.active /\ s.ready
    /\ c.state = "ARMING" \/ ~c.pressed
CallsRow(c, s, w) ==
    /\ OffersRow(s)
    /\ \/ CallsBegin(c, s) /\ w.begin = "ok"
       \/ c.state = "REC" /\ s.ordered /\ ~s.fault /\ w.raw = "ok" /\ s.due /\ (s.active \/ ~c.pressed)
=============================================================================
