------------------------ MODULE EpisodeRecorderProofs ------------------------
(***************************************************************************)
(* Proofs about EpisodeRecorder, for every set of camera roles and every   *)
(* capacity of the three queues.                                           *)
(*                                                                         *)
(* Three facts carry the proofs.  A frame is in exactly one place: a       *)
(* queue, the forwarder's hand or the recorder's hand (HandInv), so the    *)
(* pending count can be exact.  The producer offers at most one rotation   *)
(* at a time and nothing that ends an episode before its loop is over      *)
(* (OrderInv).  And what the reports say of rows and episodes never runs   *)
(* ahead of the recorder, nor behind the producer (RotateInv): "no rows"   *)
(* after "rows" can only mean that the rotation was executed.              *)
(***************************************************************************)
EXTENDS EpisodeRecorder, FiniteSetTheorems, WellFoundedInduction, TLAPS

Phases ==
    {"starting", "check", "decide", "joinForwarder", "request", "await", "stopping", "joining", "closed"}
Places == {"create", "next", "take", "pass", "dispatch", "camera", "ended", "crashed"}
Message ==
    [kind : {"ready", "error", "state", "response"}, state : CaptureState, status : EpisodeStatus \cup {"none"},
     rows : BOOLEAN, episode : 0 .. MaxEpisodes, result : BOOLEAN, raised : BOOLEAN]
Proxy ==
    [state : CaptureState, status : EpisodeStatus \cup {"none"}, rows : BOOLEAN, episode : 0 .. MaxEpisodes,
     result : BOOLEAN]
CommandType == [kind : Kinds, active : BOOLEAN]
WriterType == [phase : Settled \cup {"new", "open"}, rows : BOOLEAN]

ProducerTypes ==
    /\ phase \in Phases
    /\ idle \in BOOLEAN /\ active \in BOOLEAN /\ rotating \in BOOLEAN /\ captureFailed \in BOOLEAN
ForwarderTypes ==
    /\ fpc \in {"off", "loop", "put", "ended"} /\ frameRole \in Roles \cup {NoRole} /\ forwarderStop \in BOOLEAN
HandleTypes ==
    /\ proxy \in Proxy /\ recorderError \in BOOLEAN
    /\ latest \in Seq(Message) /\ \A i \in 1 .. Len(latest) : latest[i].kind = "state"
    /\ response \in Seq(Message) /\ \A i \in 1 .. Len(response) : response[i].kind = "response"
ChannelTypes ==
    /\ control \in Seq(CommandType) /\ Len(control) <= ControlSlots
    /\ status \in Seq(Message) /\ Len(status) <= StatusSlots
    /\ cameraQueue \in [Roles -> 0 .. CameraSlots] /\ pending \in Nat
    /\ ahead \in [Roles -> Nat]
RecorderTypes ==
    /\ cpc \in Places /\ cmd \in CommandType /\ deferred \in CommandType /\ inHand \in Roles \cup {NoRole}
    /\ col \in Collector /\ writer \in WriterType /\ episode \in 0 .. MaxEpisodes
TypeInv == ProducerTypes /\ ForwarderTypes /\ HandleTypes /\ ChannelTypes /\ RecorderTypes

\* Where a frame and a command can be.
HandInv ==
    /\ fpc = "put" <=> frameRole # NoRole
    /\ inHand # NoRole => cpc \in {"camera", "crashed"}
    /\ cpc = "camera" => inHand # NoRole
    /\ phase = "starting" => fpc = "off"
    /\ cmd # NoCommand => cpc \in {"pass", "dispatch", "crashed"}

\* The frames before a boundary are still somewhere; a boundary that passed
\* the gate, and was not followed by another, has none before it.
AheadInv == \A r \in Roles : ahead[r] <= FramesAhead[r]
GateInv == DeferredGoesFirst /\ (cpc = "dispatch" /\ LastBoundary => \A r \in Roles : ahead[r] = 0)

\* The commands in the queue and in the recorder's hands: what ends an
\* episode is sent after the loop, and no rotation comes after it or after
\* another rotation.
Looping == {"starting", "check", "decide", "joinForwarder"}
Late == {"finish", "discard_current", "shutdown", "finalize_pending", "stop"}
InQueue(kinds) == \E i \in 1 .. Len(control) : control[i].kind \in kinds
InHands(kinds) == cmd.kind \in kinds \/ deferred.kind \in kinds
RotateFlies == InQueue({"rotate"}) \/ InHands({"rotate"})
OrderInv ==
    /\ \A i, j \in 1 .. Len(control) :
          control[i].kind \in Late \cup {"rotate"} /\ control[j].kind = "rotate" => j <= i
    /\ InHands(Late \cup {"rotate"}) => ~InQueue({"rotate"})
    /\ phase \in Looping => ~InQueue(Late) /\ ~InHands(Late)
    /\ \A i \in 1 .. Len(control) : control[i].kind = "control" => control[i].active
    /\ cmd.kind = "control" => cmd.active
    /\ deferred.kind = "control" => deferred.active

\* The collector and the writer of the current episode.
Ended == {"finalized", "discarded"}
WriterFits(c, w) ==
    /\ c.deferred # "none" => c.state = "DONE"
    /\ w.rows =>
         /\ c.state \in {"REC", "FINALIZING", "DONE"}
         /\ c.state = "DONE" /\ ~c.result => c.deferred \in {"finish", "abort", "discard"}
    /\ w.phase \in Ended => c.state \in {"DONE", "FINALIZING"}
    /\ c.result => w.phase \in Ended /\ c.state = "DONE"
WriterInv == WriterFits(col, writer)

\* A result anybody was told of belongs to a settled writer.
Settlement == (left \cup {writer.phase}) \cap Ended # {}
Told == {status[i] : i \in {j \in 1 .. Len(status) : status[j].kind \in {"state", "response"}}}
ResultInv ==
    /\ RotationSettles
    /\ proxy.result => Settlement
    /\ \A m \in Told : m.result => Settlement
    /\ \A i \in 1 .. Len(latest) : latest[i].result => Settlement
    /\ \A i \in 1 .. Len(response) : response[i].result => Settlement

\* While the producer loops: as long as a rotation flies everybody says "rows"
\* of the same episode; without one the proxy knows the episode; and reports
\* are never older than the proxy.
NotRotated ==
    /\ writer.rows /\ proxy.rows /\ proxy.episode = episode
    /\ \A m \in Told : m.rows /\ m.episode = episode
StreamInv ==
    /\ ~col.result
    /\ latest # <<>> => latest[1].rows = proxy.rows /\ latest[1].episode = proxy.episode
    /\ col.state = "FINALIZING" => rotating /\ NotRotated
    /\ RotateFlies => NotRotated
    /\ ~rotating => proxy.episode = episode /\ \A m \in Told : m.episode = episode
    /\ proxy.episode = episode => \A m \in Told : m.episode = episode /\ (proxy.rows => m.rows)
    /\ proxy.episode = episode /\ proxy.rows => writer.rows
    /\ \A m \in Told : m.episode = episode /\ m.rows => writer.rows
    /\ proxy.episode = episode \/ proxy.rows
    /\ \A m \in Told : m.episode = episode \/ m.rows
RotateInv ==
    /\ RotateFlies => rotating /\ episode < MaxEpisodes /\ writer.rows /\ ~col.result /\ col.state # "FINALIZING"
    /\ phase \in Looping => StreamInv

\* While the producer loops, an episode that is done was not completed.
Judged(state, verdict) == state = "DONE" => verdict \in {"ABORTED", "INVALID"}
LossInv ==
    phase \in Looping =>
        /\ Judged(col.state, col.status)
        /\ \A m \in Told : Judged(m.state, m.status)
        /\ latest # <<>> => Judged(latest[1].state, latest[1].status)
        /\ latest = <<>> => proxy.status # "COMPLETED"

RecorderInv ==
    /\ TypeInv /\ HandInv /\ PendingCountsFrames /\ AheadInv /\ GateInv
    /\ OrderInv /\ WriterInv /\ ResultInv /\ RotateInv /\ LossInv

LeakInv == leaked \in Nat /\ LeakShutsGate

USE RecorderAssumption

-----------------------------------------------------------------------------
(* Sets and sequences *)

\* A set of positions has a last one.
LEMMA LastPosition ==
  ASSUME NEW n \in Nat, NEW X, X \subseteq 1 .. n, X # {}
  PROVE  Max(X) \in X
<1> DEFINE Y == {n - x : x \in X}
<1>1. \A x \in X : x \in Int /\ n - x \in Nat
  OBVIOUS
<1>2. Y # {} /\ Y \subseteq Nat
  <2>1. PICK x \in X : TRUE
    OBVIOUS
  <2>2. n - x \in Y
    BY Zenon
  <2>3. ASSUME NEW y \in Y PROVE y \in Nat
    <3>1. PICK z \in X : y = n - z
      BY Zenon
    <3> QED
      BY <1>1, <3>1
  <2> QED
    BY <2>2, <2>3, Zenon
<1>3. \E y \in Y : \A z \in Y : ~(<<z, y>> \in OpToRel(<, Nat))
  <2> HIDE DEF Y
  <2> QED
    BY <1>2, NatLessThanWellFounded, WFMin
<1>4. PICK y \in Y : \A z \in Y : ~(<<z, y>> \in OpToRel(<, Nat))
  BY <1>3
<1>5. PICK x \in X : y = n - x
  BY <1>4, Zenon
<1>6. ASSUME NEW u \in X PROVE x >= u
  <2>1. n - u \in Y
    BY Zenon
  <2>2. n - u \in Nat /\ y \in Nat /\ x \in Int /\ u \in Int
    BY <1>1, <1>2, <2>1
  <2>3. ~(n - u < y)
    <3>1. ~(<<n - u, y>> \in OpToRel(<, Nat))
      BY <1>4, <2>1, Zenon
    <3> HIDE DEF Y
    <3> QED
      BY <2>2, <3>1 DEF OpToRel
  <2> QED
    BY <1>5, <2>2, <2>3
<1>7. \E m \in X : \A u \in X : m >= u
  BY <1>6
<1> QED
  BY <1>7 DEF Max

\* The larger of a number and zero.
LEMMA MaxWithZero ==
  ASSUME NEW i \in Int
  PROVE  Max({0, i}) = IF i > 0 THEN i ELSE 0
<1> DEFINE m == IF i > 0 THEN i ELSE 0
<1>1. m \in {0, i} /\ \A y \in {0, i} : m >= y
  OBVIOUS
<1>2. \A x \in {0, i} : (\A y \in {0, i} : x >= y) => x = m
  OBVIOUS
<1> QED
  BY <1>1, <1>2 DEF Max

\* The lesser of two numbers.
LEMMA MinOfTwo ==
  ASSUME NEW a \in Nat, NEW b \in Nat
  PROVE  Min({a, b}) \in {a, b} /\ Min({a, b}) <= a /\ Min({a, b}) <= b
<1>1. \E m \in {a, b} : \A u \in {a, b} : m <= u
  OBVIOUS
<1>2. Min({a, b}) \in {a, b} /\ \A u \in {a, b} : Min({a, b}) <= u
  BY <1>1 DEF Min
<1> QED
  BY <1>2

\* The part of the commands that fits into the control queue.
LEMMA Fits ==
  ASSUME TypeInv, NEW commands \in Seq(CommandType)
  PROVE  /\ Fitting(commands) \in Seq(CommandType)
         /\ Len(control) + Len(Fitting(commands)) <= ControlSlots
         /\ \A i \in 1 .. Len(Fitting(commands)) : i \in 1 .. Len(commands) /\ Fitting(commands)[i] = commands[i]
<1> DEFINE room == ControlSlots - Len(control)
           n == Min({Len(commands), room})
<1>1. room \in Nat /\ Len(commands) \in Nat /\ Len(control) \in Nat
  BY DEF TypeInv, ChannelTypes
<1> HIDE DEF room
<1>2. n \in Nat /\ n <= Len(commands) /\ n <= room
  BY <1>1, MinOfTwo
<1>3. Fitting(commands) = SubSeq(commands, 1, n)
  BY DEF Fitting, room
<1> HIDE DEF n
<1>4. SubSeq(commands, 1, n) \in Seq(CommandType) /\ Len(SubSeq(commands, 1, n)) = n
      /\ \A i \in 1 .. n : SubSeq(commands, 1, n)[i] = commands[i]
  BY <1>1, <1>2
<1> QED
  BY <1>1, <1>2, <1>3, <1>4 DEF room

\* Elements of a concatenation.
LEMMA Joined ==
  ASSUME NEW S, NEW p \in Seq(S), NEW q \in Seq(S)
  PROVE  /\ p \o q \in Seq(S) /\ Len(p \o q) = Len(p) + Len(q)
         /\ \A i \in 1 .. Len(p) : (p \o q)[i] = p[i]
         /\ \A i \in 1 .. Len(q) : Len(p) + i \in 1 .. Len(p \o q) /\ (p \o q)[Len(p) + i] = q[i]
         /\ \A i \in 1 .. Len(p \o q) : i \in 1 .. Len(p) \/ (i - Len(p) \in 1 .. Len(q) /\ (p \o q)[i] = q[i - Len(p)])
OBVIOUS

\* Two commands before others that are all the same.
LEMMA TwoBefore ==
  ASSUME NEW S, NEW a \in S, NEW b \in S, NEW c \in S, NEW q \in Seq(S), \A i \in 1 .. Len(q) : q[i] = c
  PROVE  /\ <<a, b>> \o q \in Seq(S)
         /\ \A i \in 1 .. Len(<<a, b>> \o q) : (<<a, b>> \o q)[i] = IF i = 1 THEN a ELSE IF i = 2 THEN b ELSE c
<1> DEFINE p == <<a, b>>
<1>1. p \in Seq(S) /\ Len(p) = 2 /\ p[1] = a /\ p[2] = b
  OBVIOUS
<1> HIDE DEF p
<1>2. p \o q \in Seq(S) /\ Len(p \o q) = 2 + Len(q)
  <2>1. p \o q \in Seq(S)
    BY <1>1, Zenon, Joined
  <2>2. Len(p \o q) = Len(p) + Len(q)
    BY <1>1, Joined, ZenonT(60)
  <2> QED
    BY <1>1, <2>1, <2>2
<1>3. ASSUME NEW i \in 1 .. Len(p \o q) PROVE (p \o q)[i] = IF i = 1 THEN a ELSE IF i = 2 THEN b ELSE c
  <2>1. CASE i <= 2
    BY <1>1, <1>2, <2>1
  <2>2. CASE i > 2
    <3>1. i - 2 \in 1 .. Len(q) /\ (p \o q)[i] = q[i - 2]
      BY <1>1, <1>2, <2>2
    <3> QED
      BY <2>2, <3>1
  <2> QED
    BY <2>1, <2>2
<1> QED
  BY <1>2, <1>3 DEF p

-----------------------------------------------------------------------------
(* The collector *)

\* An episode that runs: only its end may be noted for finalization.
Sound(c) == c \in Collector /\ (c.deferred # "none" => c.state = "DONE")
Running(c) == Sound(c) /\ c.state = "REC"
\* It was cut off while it was recorded.
CutOff(d) == d.state = "DONE" /\ d.deferred = "abort" /\ d.status \in {"ABORTED", "INVALID"}

\* What a frame or a sample of an active recording may make of the collector.
Moves(c, d) ==
    /\ Sound(d) /\ d.result = c.result
    /\ c.state = "DONE" => d = c
    /\ c.state # "DONE" /\ d.state = "DONE" => d.status \in {"ABORTED", "INVALID"}
    /\ c.state \in {"REC", "FINALIZING"} => d.state = c.state \/ CutOff(d)
    /\ c.state \in {"IDLE", "ARMING"} => d.state # "FINALIZING"

LEMMA AbortMoves ==
  ASSUME NEW c, Sound(c), NEW invalid \in BOOLEAN
  PROVE  /\ Moves(c, Abort(c, invalid))
         /\ c.state \in {"REC", "FINALIZING"} => CutOff(Abort(c, invalid))
         /\ c.state # "DONE" => Abort(c, invalid).state = "DONE"
BY ZenonT(60) DEF Sound, Moves, CutOff, Abort, Done, Collector, CaptureState, EpisodeStatus

LEMMA CameraMoves ==
  ASSUME NEW c, Sound(c), NEW regressed \in BOOLEAN, NEW w
  PROVE  Moves(c, IngestCamera(c, regressed, w))
<1>1. Moves(c, c)
  BY DEF Sound, Moves, Collector, CaptureState
<1> QED
  BY <1>1, AbortMoves DEF IngestCamera

LEMMA AppendCuts ==
  ASSUME NEW c, Running(c), NEW s, NEW w
  PROVE  LET d == AppendCanonical(c, s, w) IN
         /\ Sound(d) /\ d.result = c.result
         /\ d.state = "REC" \/ CutOff(d)
<1> DEFINE Kept(d) == Running(d) /\ d.result = c.result
           Good(d) == Sound(d) /\ d.result = c.result /\ (d.state = "REC" \/ CutOff(d))
<1>1. ASSUME NEW d, Kept(d) PROVE Good(d) /\ \A b \in BOOLEAN : Good(Abort(d, b))
  BY <1>1, AbortMoves DEF Running, Sound, Moves
<1>2. ASSUME NEW f \in [Roles -> 0 .. StaleLimit]
      PROVE  Kept([c EXCEPT !.stale = f]) /\ \A n \in 0 .. FieldLimit : Kept([c EXCEPT !.stale = f, !.fieldRun = n])
  BY <1>2 DEF Running, Sound, Collector
<1>3. StaleLimit \in Nat \ {0} /\ FieldLimit \in Nat \ {0} /\ c.stale \in [Roles -> 0 .. StaleLimit]
      /\ c.fieldRun \in 0 .. FieldLimit
  BY CollectorAssumption DEF Running, Sound, Collector
<1> HIDE DEF Kept, Good
<1>4. Good(Abort(c, FALSE))
  BY <1>1 DEF Kept, Running
<1>5. Good(StaleSlot(c, s, w))
  <2> DEFINE f == [r \in Roles |-> IF s.cams[r] = "fresh" THEN 0
                                   ELSE IF c.stale[r] < StaleLimit THEN c.stale[r] + 1 ELSE StaleLimit]
  <2>1. f \in [Roles -> 0 .. StaleLimit]
    BY <1>3
  <2> HIDE DEF f
  <2>2. Kept([c EXCEPT !.stale = f])
    BY <2>1, <1>2
  <2> QED
    BY <2>2, <1>1 DEF StaleSlot, f
<1>6. Good(MissingFieldSlot(c, w))
  <2> DEFINE n == IF c.fieldRun < FieldLimit THEN c.fieldRun + 1 ELSE FieldLimit
             f == [r \in Roles |-> 0]
             noted == [c EXCEPT !.stale = f, !.fieldRun = n]
  <2>1. n \in 0 .. FieldLimit /\ f \in [Roles -> 0 .. StaleLimit]
    BY <1>3
  <2>2. Kept(noted)
    <3> HIDE DEF n, f
    <3> QED
      BY <2>1, <1>2
  <2> HIDE DEF noted
  <2> QED
    BY <2>2, <1>1 DEF MissingFieldSlot, noted
<1>7. Good([c EXCEPT !.stale = [r \in Roles |-> 0], !.fieldRun = 0])
      /\ Good(Abort([c EXCEPT !.stale = [r \in Roles |-> 0], !.fieldRun = 0], FALSE))
  <2> DEFINE f == [r \in Roles |-> 0]
             clean == [c EXCEPT !.stale = f, !.fieldRun = 0]
  <2>1. 0 \in 0 .. FieldLimit /\ f \in [Roles -> 0 .. StaleLimit]
    BY <1>3
  <2>2. Kept(clean)
    <3> HIDE DEF f
    <3> QED
      BY <2>1, <1>2
  <2> HIDE DEF clean
  <2>3. Good(clean) /\ Good(Abort(clean, FALSE))
    BY <2>2, <1>1
  <2> QED
    BY <2>3 DEF clean
<1>8. Good(AppendCanonical(c, s, w))
  BY <1>4, <1>5, <1>6, <1>7 DEF AppendCanonical
<1> QED
  BY <1>8 DEF Good

\* A sample with a record intent; what it means that the writer's begin is
\* called and taken.
LEMMA ControlMoves ==
  ASSUME NEW c, Sound(c), NEW s, NEW w, s.active = TRUE
  PROVE  /\ Moves(c, IngestControl(c, s, w))
         /\ CallsBegin(c, s) /\ w.begin = "ok" =>
               IngestControl(c, s, w).state = "REC" \/ CutOff(IngestControl(c, s, w))
<1>1. CASE c.state = "DONE"
  BY <1>1 DEF IngestControl, CallsBegin, Moves, Sound
<1>2. CASE c.state # "DONE" /\ ~s.ordered
  BY <1>2, AbortMoves DEF IngestControl, IndexControlSources, CallsBegin
<1>3. CASE c.state \in {"IDLE", "ARMING"} /\ s.ordered
  <2> DEFINE state == IF c.state = "IDLE" /\ ~c.pressed THEN "ARMING" ELSE c.state
             armed == [c EXCEPT !.pressed = TRUE, !.state = state]
             opened == [armed EXCEPT !.state = "REC"]
  <2>1. Sound(armed) /\ armed.result = c.result /\ armed.state = state /\ state \in {"IDLE", "ARMING"}
    BY <1>3 DEF Sound, Collector, CaptureState
  <2>2. Running(opened) /\ opened.result = c.result
    BY <1>3 DEF Running, Sound, Collector, CaptureState
  <2> DEFINE d == AppendCanonical(opened, s, w)
  <2>3. Sound(d) /\ d.result = c.result /\ (d.state = "REC" \/ CutOff(d))
    <3> HIDE DEF opened
    <3> QED
      BY <2>2, AppendCuts
  <2>4. Sound(Abort(d, FALSE)) /\ Abort(d, FALSE).result = c.result /\ CutOff(Abort(d, FALSE))
    <3> HIDE DEF d
    <3> QED
      BY <2>3, AbortMoves DEF CutOff, Moves
  <2>5. Sound(Done(armed, "reject", "INVALID")) /\ Done(armed, "reject", "INVALID").result = c.result
        /\ Done(armed, "reject", "INVALID").state = "DONE" /\ Done(armed, "reject", "INVALID").status = "INVALID"
    BY <2>1, ZenonT(60) DEF Done, Sound, Collector, CaptureState, EpisodeStatus
  <2>6. IngestControl(c, s, w) = IF state # "ARMING" THEN armed ELSE StartIfReady(armed, s, w)
    BY <1>3, <2>1 DEF IngestControl, ArmingSample
  <2>7. StartIfReady(armed, s, w) =
          IF ~s.ready THEN armed
          ELSE CASE w.begin = "ok" -> IF w.raw = "failed" THEN Abort(d, FALSE) ELSE d
                 [] w.begin = "rejected" /\ RetryStart -> armed
                 [] OTHER -> Done(armed, "reject", "INVALID")
    BY DEF StartIfReady
  <2>8. CallsBegin(c, s) => state = "ARMING" /\ s.ready
    BY <1>3 DEF CallsBegin
  <2> HIDE DEF armed, opened, d, state
  <2>9. IngestControl(c, s, w) \in {armed, d, Abort(d, FALSE), Done(armed, "reject", "INVALID")}
        /\ (CallsBegin(c, s) /\ w.begin = "ok" => IngestControl(c, s, w) \in {d, Abort(d, FALSE)})
    BY <2>6, <2>7, <2>8
  <2> QED
    BY <1>3, <2>1, <2>3, <2>4, <2>5, <2>9 DEF Moves, CutOff
<1>4. CASE c.state = "REC" /\ s.ordered
  <2> DEFINE seen == [c EXCEPT !.pressed = TRUE]
  <2>1. Running(seen) /\ seen.result = c.result
    BY <1>4 DEF Running, Sound, Collector
  <2>2. Sound(Abort(seen, FALSE)) /\ Abort(seen, FALSE).result = c.result /\ CutOff(Abort(seen, FALSE))
    <3> HIDE DEF seen
    <3> QED
      BY <2>1, AbortMoves DEF Running, Moves
  <2>3. LET d == AppendCanonical(seen, s, w) IN
        Sound(d) /\ d.result = c.result /\ (d.state = "REC" \/ CutOff(d))
    <3> HIDE DEF seen
    <3> QED
      BY <2>1, AppendCuts
  <2>4. IngestControl(c, s, w) \in {seen, Abort(seen, FALSE), AppendCanonical(seen, s, w)}
    BY <1>4 DEF IngestControl, RecordingSample
  <2> HIDE DEF seen
  <2>5. ~CallsBegin(c, s)
    BY <1>4 DEF CallsBegin
  <2> QED
    BY <1>4, <2>1, <2>2, <2>3, <2>4, <2>5 DEF Moves, CutOff, Running
<1>5. CASE c.state = "FINALIZING" /\ s.ordered
  BY <1>5 DEF IngestControl, CallsBegin, Moves, Sound, Collector, CaptureState
<1> QED
  BY <1>1, <1>2, <1>3, <1>4, <1>5 DEF Sound, Collector, CaptureState

\* Every sample of the producer carries the intent of its command.
LEMMA SampleIntent ==
  ASSUME NEW on \in BOOLEAN, NEW sw \in OneAnomaly(on)
  PROVE  sw[1].active = on
<1> DEFINE base == [Nominal EXCEPT !.active = on]
           fields == {"ordered", "ready", "fault", "due", "control", "fields"}
<1>1. base.active = on
  BY DEF Nominal
<1>2. ASSUME NEW f \in fields PROVE [base EXCEPT ![f] = ~@].active = on
  <2>1. CASE f = "ordered"
    BY <2>1 DEF Nominal
  <2>2. CASE f = "ready"
    BY <2>2 DEF Nominal
  <2>3. CASE f = "fault"
    BY <2>3 DEF Nominal
  <2>4. CASE f = "due"
    BY <2>4 DEF Nominal
  <2>5. CASE f = "control"
    BY <2>5 DEF Nominal
  <2>6. CASE f = "fields"
    BY <2>6 DEF Nominal
  <2> QED
    BY <2>1, <2>2, <2>3, <2>4, <2>5, <2>6
<1>3. ASSUME NEW r \in Roles, NEW v PROVE [base EXCEPT !.cams[r] = v].active = on
  BY DEF Nominal
<1> DEFINE A == {<<[base EXCEPT ![f] = ~@], AllWell>> : f \in fields}
           B == {<<[base EXCEPT !.cams[r] = v], AllWell>> : r \in Roles, v \in {"stale", "severe"}}
           C == {<<base, [AllWell EXCEPT !.begin = v]>> : v \in {"rejected", "failed"}}
           D == {<<base, [AllWell EXCEPT !.row = v]>> : v \in {"full", "failed"}}
<1>4. sw = <<base, AllWell>> \/ sw \in A \/ sw \in B \/ sw \in C \/ sw \in D
      \/ sw = <<base, [AllWell EXCEPT !.raw = "failed"]>>
  <2>1. sw \in Anomalies(base)
    BY DEF OneAnomaly
  <2> HIDE DEF base
  <2> QED
    BY <2>1 DEF Anomalies
<1>5. CASE sw \in A
  <2>1. PICK f \in fields : sw = <<[base EXCEPT ![f] = ~@], AllWell>>
    BY <1>5, Zenon
  <2>2. sw[1] = [base EXCEPT ![f] = ~@]
    BY <2>1
  <2> HIDE DEF base, fields
  <2> QED
    BY <1>2, <2>2
<1>6. CASE sw \in B
  <2>1. PICK r \in Roles, v \in {"stale", "severe"} : sw = <<[base EXCEPT !.cams[r] = v], AllWell>>
    <3> HIDE DEF base
    <3> QED
      BY <1>6
  <2>2. sw[1] = [base EXCEPT !.cams[r] = v]
    BY <2>1
  <2> HIDE DEF base
  <2> QED
    BY <1>3, <2>2
<1>7. CASE ~(sw \in A \/ sw \in B)
  <2>1. \E w : sw = <<base, w>>
    <3> HIDE DEF base, A, B
    <3> QED
      BY <1>4, <1>7
  <2> HIDE DEF base
  <2> QED
    BY <1>1, <2>1
<1> HIDE DEF A, B
<1> QED
  BY <1>5, <1>6, <1>7

-----------------------------------------------------------------------------
(* The reports *)

\* A report is appended, and an old one may have made room for it.
LEMMA Reported ==
  ASSUME TypeInv, NEW m \in Message, status' = PutLatest(status, m)
  PROVE  /\ status' \in Seq(Message) /\ Len(status') <= StatusSlots
         /\ Told' \subseteq Told \cup {m}
<1>1. status \in Seq(Message) /\ Len(status) <= StatusSlots /\ StatusSlots \in Nat \ {0}
  BY DEF TypeInv, ChannelTypes
<1>2. status' \in Seq(Message) /\ Len(status') <= StatusSlots
  BY <1>1 DEF PutLatest
<1>3. \A i \in 1 .. Len(status') : status'[i] = m \/ \E j \in 1 .. Len(status) : status'[i] = status[j]
  <2>1. CASE Len(status) < StatusSlots
    <3>1. status' = Append(status, m)
      BY <2>1 DEF PutLatest
    <3>2. \A i \in 1 .. Len(status') : (i \in 1 .. Len(status) /\ status'[i] = status[i]) \/ status'[i] = m
      BY <3>1, <1>1
    <3> QED
      BY <3>2
  <2>2. CASE Len(status) >= StatusSlots
    <3>1. status # <<>> /\ status' = Append(Tail(status), m)
      BY <2>2, <1>1 DEF PutLatest
    <3>2. Tail(status) \in Seq(Message) /\ Len(Tail(status)) = Len(status) - 1
          /\ \A i \in 1 .. Len(Tail(status)) : Tail(status)[i] = status[i + 1]
      BY <3>1, <1>1
    <3>3. \A i \in 1 .. Len(status') : (i + 1 \in 1 .. Len(status) /\ status'[i] = status[i + 1]) \/ status'[i] = m
      <4> DEFINE t == Tail(status)
      <4>1. t \in Seq(Message) /\ Len(t) = Len(status) - 1 /\ \A i \in 1 .. Len(t) : t[i] = status[i + 1]
        BY <3>2
      <4>2. status' = Append(t, m)
        BY <3>1
      <4> HIDE DEF t
      <4>3. \A i \in 1 .. Len(status') : (i \in 1 .. Len(t) /\ status'[i] = t[i]) \/ status'[i] = m
        BY <4>1, <4>2
      <4> QED
        BY <4>1, <4>3, <1>1
    <3> QED
      BY <3>3
  <2> QED
    BY <2>1, <2>2, <1>1
<1>4. ASSUME NEW x \in Told' PROVE x \in Told \cup {m}
  <2>1. PICK i \in 1 .. Len(status') : x = status'[i] /\ status'[i].kind \in {"state", "response"}
    BY <1>4 DEF Told
  <2> QED
    BY <1>3, <2>1 DEF Told
<1> QED
  BY <1>2, <1>4

\* What is told is a message of its kind.
LEMMA ToldMessages ==
  ASSUME TypeInv
  PROVE  \A m \in Told : m \in Message
BY DEF TypeInv, ChannelTypes, Told

\* The last report of a kind, if there is one.
LEMMA LastReport ==
  ASSUME TypeInv, NEW kind \in {"state", "response"}, NEW old
  PROVE  LastOf(Reports(kind), old) = old
         \/ \E m \in Told : m.kind = kind /\ LastOf(Reports(kind), old) = <<m>>
<1>1. Len(status) \in Nat /\ Reports(kind) \subseteq 1 .. Len(status)
  BY DEF TypeInv, ChannelTypes, Reports
<1>2. ASSUME Reports(kind) # {} PROVE status[Max(Reports(kind))] \in Told /\ status[Max(Reports(kind))].kind = kind
  <2>1. Max(Reports(kind)) \in Reports(kind)
    BY <1>1, <1>2, LastPosition
  <2> QED
    BY <2>1 DEF Reports, Told
<1> QED
  BY <1>2 DEF LastOf

\* What a poll of the handle hears.
Hears ==
    /\ latest' = LastOf(Reports("state"), latest)
    /\ response' = LastOf(Reports("response"), response)
    /\ status' = <<>>

LEMMA Heard ==
  ASSUME TypeInv, Hears
  PROVE  /\ latest' \in Seq(Message) /\ \A i \in 1 .. Len(latest') : latest'[i].kind = "state"
         /\ response' \in Seq(Message) /\ \A i \in 1 .. Len(response') : response'[i].kind = "response"
         /\ latest' = latest \/ \E m \in Told : latest' = <<m>>
         /\ response' = response \/ \E m \in Told : response' = <<m>>
         /\ status' \in Seq(Message) /\ Len(status') <= StatusSlots /\ Told' = {}
<1>1. latest' = latest \/ \E m \in Told : m.kind = "state" /\ latest' = <<m>>
  BY LastReport DEF Hears
<1>2. response' = response \/ \E m \in Told : m.kind = "response" /\ response' = <<m>>
  BY LastReport DEF Hears
<1>3. status' = <<>> /\ Told' = {}
  BY DEF Hears, Told
<1>4. latest' \in Seq(Message) /\ \A i \in 1 .. Len(latest') : latest'[i].kind = "state"
  <2>1. CASE latest' = latest
    BY <2>1 DEF TypeInv, HandleTypes
  <2>2. ASSUME NEW m \in Told, m.kind = "state", latest' = <<m>>
        PROVE  latest' \in Seq(Message) /\ \A i \in 1 .. Len(latest') : latest'[i].kind = "state"
    <3>1. m \in Message
      BY ToldMessages
    <3> QED
      BY <2>2, <3>1
  <2> QED
    BY <1>1, <2>1, <2>2
<1>5. response' \in Seq(Message) /\ \A i \in 1 .. Len(response') : response'[i].kind = "response"
  <2>1. CASE response' = response
    BY <2>1 DEF TypeInv, HandleTypes
  <2>2. ASSUME NEW m \in Told, m.kind = "response", response' = <<m>>
        PROVE  response' \in Seq(Message) /\ \A i \in 1 .. Len(response') : response'[i].kind = "response"
    <3>1. m \in Message
      BY ToldMessages
    <3> QED
      BY <2>2, <3>1
  <2> QED
    BY <1>2, <2>1, <2>2
<1> QED
  BY <1>1, <1>2, <1>3, <1>4, <1>5

LEMMA PollHears ==
  ASSUME TypeInv, Poll
  PROVE  Hears /\ recorderError' \in BOOLEAN /\ (cpc = "crashed" => recorderError')
BY DEF TypeInv, HandleTypes, Poll, Hears, ReportedError

\* The proxy after it looked at a report.
LEMMA Synced ==
  ASSUME NEW p \in Proxy, NEW report \in Seq(Message), NEW lost \in BOOLEAN
  PROVE  LET q == SyncWith(p, report, lost) IN
         /\ q \in Proxy
         /\ report = <<>> => q.rows = p.rows /\ q.episode = p.episode /\ q.result = p.result
                             /\ (q.status = p.status \/ q.status = "ABORTED")
         /\ report # <<>> =>
              /\ q.rows = report[1].rows /\ q.episode = report[1].episode
              /\ q.result => p.result \/ report[1].result
         /\ lost => q.state = "DONE"
         /\ q.state = "DONE" /\ q.status = "COMPLETED" =>
              IF report = <<>> THEN p.status = "COMPLETED"
              ELSE report[1].state = "DONE" /\ report[1].status \in {"none", "COMPLETED"}
<1> DEFINE q == SyncWith(p, report, lost)
           applied == IF report = <<>> THEN p ELSE ApplyStatus(p, report[1])
<1>1. applied \in Proxy
  <2>1. report # <<>> => report[1] \in Message
    OBVIOUS
  <2> QED
    BY <2>1 DEF Proxy, Message, ApplyStatus
<1>2. q \in Proxy /\ q.rows = applied.rows /\ q.episode = applied.episode /\ q.result = applied.result
      /\ (q.status = applied.status \/ q.status = "ABORTED") /\ (lost => q.state = "DONE")
      /\ (q.state = "DONE" /\ q.status = "COMPLETED" => applied.state = "DONE" /\ applied.status = "COMPLETED")
  <2>1. q = IF lost /\ applied.state # "DONE" THEN Failed(applied) ELSE applied
    BY DEF SyncWith
  <2> HIDE DEF applied, q
  <2> QED
    BY <1>1, <2>1 DEF Failed, Proxy, CaptureState, EpisodeStatus
<1> HIDE DEF q
<1>3. CASE report = <<>>
  BY <1>2, <1>3 DEF q
<1>4. CASE report # <<>>
  BY <1>2, <1>4 DEF q, ApplyStatus
<1> QED
  BY <1>3, <1>4

-----------------------------------------------------------------------------
(* The control queue *)

LEMMA Sent ==
  ASSUME TypeInv, NEW commands \in Seq(CommandType), SendAll(commands)
  PROVE  \E F \in Seq(CommandType) :
            /\ control' = control \o F /\ control' \in Seq(CommandType) /\ Len(control') <= ControlSlots
            /\ \A i \in 1 .. Len(F) : i \in 1 .. Len(commands) /\ F[i] = commands[i]
            /\ recorderError' \in BOOLEAN
            /\ ahead' = IF HasBoundary(F) THEN FramesAhead ELSE ahead
<1>1. control \in Seq(CommandType) /\ Len(control) <= ControlSlots
  BY DEF TypeInv, ChannelTypes
<1>2. CASE recorderError
  <2>1. control' = control /\ recorderError' = TRUE /\ ahead' = ahead
    BY <1>2 DEF SendAll
  <2>2. control' = control \o <<>> /\ <<>> \in Seq(CommandType) /\ ~HasBoundary(<<>>)
    BY <1>1, <2>1 DEF HasBoundary
  <2> DEFINE F == <<>>
  <2>3. F \in Seq(CommandType) /\ Len(F) = 0
    OBVIOUS
  <2> HIDE DEF F
  <2>4. control' = control \o F /\ ~HasBoundary(F)
    BY <2>2 DEF F
  <2>5. /\ control' \in Seq(CommandType) /\ Len(control') <= ControlSlots /\ recorderError' \in BOOLEAN
        /\ \A i \in 1 .. Len(F) : i \in 1 .. Len(commands) /\ F[i] = commands[i]
        /\ ahead' = IF HasBoundary(F) THEN FramesAhead ELSE ahead
    BY <1>1, <2>1, <2>3, <2>4
  <2> QED
    BY <2>3, <2>4, <2>5
<1>3. CASE ~recorderError
  <2> DEFINE F == Fitting(commands)
  <2>1. F \in Seq(CommandType) /\ Len(control) + Len(F) <= ControlSlots
        /\ \A i \in 1 .. Len(F) : i \in 1 .. Len(commands) /\ F[i] = commands[i]
    BY Fits
  <2>2. control' = control \o F /\ ahead' = IF HasBoundary(F) THEN FramesAhead ELSE ahead
    BY <1>3, Zenon DEF SendAll
  <2>4. recorderError' \in BOOLEAN
    BY <1>3 DEF SendAll
  <2> HIDE DEF F
  <2>3. control' \in Seq(CommandType) /\ Len(control') <= ControlSlots
    BY <1>1, <2>1, <2>2, Joined
  <2> QED
    BY <2>1, <2>2, <2>3, <2>4
<1> QED
  BY <1>2, <1>3 DEF TypeInv, HandleTypes

\* More commands in the queue: the frames before the boundaries.
LEMMA SentAhead ==
  ASSUME TypeInv, AheadInv, GateInv, NEW F \in Seq(CommandType), control' = control \o F,
         ahead' = IF HasBoundary(F) THEN FramesAhead ELSE ahead,
         UNCHANGED <<cameraQueue, inHand, frameRole, cmd, cpc, deferred>>
  PROVE  AheadInv' /\ GateInv' /\ ahead' \in [Roles -> Nat]
<1>1. control \in Seq(CommandType) /\ cameraQueue \in [Roles -> Nat] /\ ahead \in [Roles -> Nat]
  BY DEF TypeInv, ChannelTypes
<1>2. FramesAhead' = FramesAhead /\ FramesAhead \in [Roles -> Nat]
  BY <1>1 DEF FramesAhead
<1>3. AheadInv' /\ ahead' \in [Roles -> Nat]
  BY <1>1, <1>2 DEF AheadInv
<1>4. HasBoundary(control) \/ HasBoundary(F) => HasBoundary(control')
  <2>1. /\ \A i \in 1 .. Len(control) : i \in 1 .. Len(control') /\ control'[i] = control[i]
        /\ \A i \in 1 .. Len(F) : Len(control) + i \in 1 .. Len(control') /\ control'[Len(control) + i] = F[i]
    BY <1>1, Joined
  <2> QED
    BY <2>1 DEF HasBoundary
<1>5. LastBoundary' => LastBoundary /\ ahead' = ahead
  BY <1>4 DEF LastBoundary
<1> QED
  BY <1>3, <1>5 DEF GateInv, DeferredGoesFirst

\* More commands in the queue, no rotation among them.
LEMMA SentOrder ==
  ASSUME TypeInv, OrderInv, NEW F \in Seq(CommandType), control' = control \o F,
         \A i \in 1 .. Len(F) : F[i].kind # "rotate" /\ (F[i].kind = "control" => F[i].active),
         phase' \in Looping => phase \in Looping /\ \A i \in 1 .. Len(F) : F[i].kind \notin Late,
         UNCHANGED <<cmd, deferred>>
  PROVE  OrderInv' /\ (RotateFlies' <=> RotateFlies)
<1>1. control \in Seq(CommandType)
  BY DEF TypeInv, ChannelTypes
<1>2. /\ \A i \in 1 .. Len(control) : i \in 1 .. Len(control') /\ control'[i] = control[i]
      /\ \A i \in 1 .. Len(control') :
            i \in 1 .. Len(control) \/ (i - Len(control) \in 1 .. Len(F) /\ control'[i] = F[i - Len(control)])
      /\ Len(control) \in Nat /\ Len(control') \in Nat
  BY <1>1, Joined
<1>3. ASSUME NEW i \in 1 .. Len(control'), control'[i].kind = "rotate"
      PROVE  i \in 1 .. Len(control) /\ control[i].kind = "rotate"
  BY <1>2, <1>3
<1>4. InQueue({"rotate"})' <=> InQueue({"rotate"})
  BY <1>2, <1>3 DEF InQueue
<1>5. \A i, j \in 1 .. Len(control') :
         control'[i].kind \in Late \cup {"rotate"} /\ control'[j].kind = "rotate" => j <= i
  <2> SUFFICES ASSUME NEW i \in 1 .. Len(control'), NEW j \in 1 .. Len(control'),
                      control'[i].kind \in Late \cup {"rotate"}, control'[j].kind = "rotate"
               PROVE  j <= i
    OBVIOUS
  <2>1. j \in 1 .. Len(control) /\ control[j].kind = "rotate"
    BY <1>3
  <2>2. CASE i \in 1 .. Len(control)
    BY <1>2, <2>1, <2>2 DEF OrderInv
  <2> QED
    BY <1>2, <2>1, <2>2
<1>6. phase' \in Looping => ~InQueue(Late)'
  BY <1>2 DEF InQueue, OrderInv
<1>7. \A i \in 1 .. Len(control') : control'[i].kind = "control" => control'[i].active
  BY <1>2 DEF OrderInv
<1> QED
  BY <1>4, <1>5, <1>6, <1>7 DEF OrderInv, InHands, RotateFlies

-----------------------------------------------------------------------------
(* The frames *)

LEMMA Queued ==
  ASSUME TypeInv
  PROVE  /\ IsFiniteSet(FramePlaces) /\ QueuedFrames \in Nat
         /\ QueuedFrames = 0 => \A r \in Roles : cameraQueue[r] = 0
         /\ (\A r \in Roles : cameraQueue[r] = 0) => QueuedFrames = 0
<1>1. cameraQueue \in [Roles -> 0 .. CameraSlots] /\ CameraSlots \in Nat \ {0} /\ IsFiniteSet(Roles)
  BY RecorderAssumption DEF TypeInv, ChannelTypes
<1>2. IsFiniteSet(Roles \X (1 .. CameraSlots))
  <2>1. IsFiniteSet(1 .. CameraSlots)
    BY <1>1, FS_Interval
  <2> QED
    BY <1>1, <2>1, FS_Product, Zenon
<1>3. IsFiniteSet(FramePlaces)
  BY <1>2, FS_Subset, Zenon DEF FramePlaces
<1>4. (FramePlaces = {}) <=> (\A r \in Roles : cameraQueue[r] = 0)
  <2>1. ASSUME NEW r \in Roles, cameraQueue[r] # 0 PROVE <<r, 1>> \in FramePlaces
    BY <1>1, <2>1 DEF FramePlaces
  <2>2. ASSUME NEW x \in FramePlaces PROVE \E r \in Roles : cameraQueue[r] # 0
    BY <1>1, <2>2 DEF FramePlaces
  <2> QED
    BY <2>1, <2>2
<1> QED
  BY <1>3, <1>4, FS_CardinalityType, FS_EmptySet DEF QueuedFrames

\* The same of the queues after a step.
LEMMA QueuedNext ==
  ASSUME cameraQueue' \in [Roles -> 0 .. CameraSlots]
  PROVE  QueuedFrames' \in Nat
<1>1. FramePlaces' \subseteq Roles \X (1 .. CameraSlots)
  BY DEF FramePlaces
<1>2. IsFiniteSet(Roles \X (1 .. CameraSlots))
  <2>1. IsFiniteSet(1 .. CameraSlots)
    BY RecorderAssumption, FS_Interval
  <2> QED
    BY <2>1, RecorderAssumption, FS_Product, Zenon
<1>3. IsFiniteSet(FramePlaces')
  BY <1>1, <1>2, FS_Subset, Zenon
<1> QED
  BY <1>3, FS_CardinalityType DEF QueuedFrames

LEMMA FrameAdded ==
  ASSUME TypeInv, NEW r \in Roles, cameraQueue[r] < CameraSlots,
         cameraQueue' = [cameraQueue EXCEPT ![r] = @ + 1]
  PROVE  QueuedFrames' = QueuedFrames + 1
<1>1. cameraQueue \in [Roles -> 0 .. CameraSlots] /\ CameraSlots \in Nat \ {0}
  BY RecorderAssumption DEF TypeInv, ChannelTypes
<1> DEFINE x == <<r, cameraQueue[r] + 1>>
<1>2. x \notin FramePlaces /\ x \in Roles \X (1 .. CameraSlots)
  BY <1>1 DEF FramePlaces
<1>3. FramePlaces' = FramePlaces \cup {x}
  <2>1. ASSUME NEW y \in Roles \X (1 .. CameraSlots)
        PROVE  y[2] <= cameraQueue'[y[1]] <=> y[2] <= cameraQueue[y[1]] \/ y = x
    BY <1>1
  <2> HIDE DEF x
  <2> QED
    BY <1>2, <2>1 DEF FramePlaces
<1> HIDE DEF x
<1> QED
  BY <1>2, <1>3, Queued, FS_AddElement DEF QueuedFrames

LEMMA FrameRemoved ==
  ASSUME TypeInv, NEW r \in Roles, cameraQueue[r] > 0,
         cameraQueue' = [cameraQueue EXCEPT ![r] = @ - 1]
  PROVE  QueuedFrames' = QueuedFrames - 1
<1>1. cameraQueue \in [Roles -> 0 .. CameraSlots] /\ CameraSlots \in Nat \ {0}
  BY RecorderAssumption DEF TypeInv, ChannelTypes
<1> DEFINE x == <<r, cameraQueue[r]>>
<1>2. x \in FramePlaces
  BY <1>1 DEF FramePlaces
<1>3. FramePlaces' = FramePlaces \ {x}
  <2>1. ASSUME NEW y \in Roles \X (1 .. CameraSlots)
        PROVE  y[2] <= cameraQueue'[y[1]] <=> y[2] <= cameraQueue[y[1]] /\ y # x
    BY <1>1
  <2> HIDE DEF x
  <2> QED
    BY <1>2, <2>1 DEF FramePlaces
<1> HIDE DEF x
<1> QED
  BY <1>2, <1>3, Queued, FS_RemoveElement DEF QueuedFrames

-----------------------------------------------------------------------------
(* Steps that leave a part of the invariant alone *)

LEMMA CountKept ==
  PendingCountsFrames /\ UNCHANGED <<cameraQueue, pending, fpc, inHand, leaked>> => PendingCountsFrames'
<1> SUFFICES ASSUME PendingCountsFrames, UNCHANGED <<cameraQueue, pending, fpc, inHand, leaked>>
             PROVE  PendingCountsFrames'
  OBVIOUS
<1>1. QueuedFrames' = QueuedFrames
  BY DEF QueuedFrames, FramePlaces
<1> QED
  BY <1>1 DEF PendingCountsFrames

LEMMA AheadKept ==
  AheadInv /\ UNCHANGED <<ahead, cameraQueue, inHand, frameRole>> => AheadInv'
BY DEF AheadInv, FramesAhead

LEMMA GateKept ==
  GateInv /\ UNCHANGED <<deferred, cpc, cmd, control, ahead>> => GateInv'
BY DEF GateInv, DeferredGoesFirst, LastBoundary, HasBoundary

LEMMA OrderKept ==
  OrderInv /\ UNCHANGED <<control, cmd, deferred>> /\ (phase' \in Looping => phase \in Looping)
  => OrderInv' /\ (RotateFlies' <=> RotateFlies)
BY DEF OrderInv, InQueue, InHands, RotateFlies

LEMMA WriterKept ==
  WriterInv /\ UNCHANGED <<col, writer>> => WriterInv'
BY DEF WriterInv

\* A settlement stays one.
LEMMA SettlementKept ==
  ASSUME left \subseteq left', writer.phase \in Ended => writer'.phase \in Ended, Settlement
  PROVE  Settlement'
BY DEF Settlement

LEMMA ResultKept ==
  ASSUME ResultInv, UNCHANGED <<left, writer>>, proxy'.result = proxy.result, UNCHANGED <<latest, response>>,
         Told' \subseteq Told
  PROVE  ResultInv'
BY DEF ResultInv, RotationSettles, Settlement

\* The producer and the recorder did nothing that the other could tell.
LEMMA RotateKept ==
  ASSUME RotateInv, UNCHANGED <<rotating, episode, writer, latest, col>>, Told' \subseteq Told,
         proxy'.rows = proxy.rows, proxy'.episode = proxy.episode,
         phase' \in Looping => phase \in Looping, RotateFlies' => RotateFlies
  PROVE  RotateInv'
<1>1. NotRotated => NotRotated'
  BY DEF NotRotated
<1>2. phase' \in Looping => StreamInv'
  BY <1>1 DEF RotateInv, StreamInv
<1> QED
  BY <1>2 DEF RotateInv

LEMMA LossKept ==
  ASSUME LossInv, UNCHANGED <<col, latest>>, Told' \subseteq Told, phase' \in Looping => phase \in Looping,
         proxy'.status = proxy.status \/ proxy'.status # "COMPLETED"
  PROVE  LossInv'
BY DEF LossInv, Judged

-----------------------------------------------------------------------------
(* The proxy listens *)

LEMMA SyncKeeps ==
  ASSUME RecorderInv, Hears, NEW lost \in BOOLEAN, NEW q, q = SyncWith(proxy, latest', lost),
         proxy'.rows = q.rows, proxy'.episode = q.episode, proxy'.result = q.result, proxy'.status = q.status,
         UNCHANGED <<left, writer, col, episode, rotating, control, cmd, deferred>>,
         phase' \in Looping => phase \in Looping
  PROVE  /\ q \in Proxy /\ ResultInv' /\ RotateInv' /\ LossInv'
         /\ phase \in Looping /\ lost => q.state = "DONE" /\ q.status # "COMPLETED"
<1>1. TypeInv /\ proxy \in Proxy
  BY DEF RecorderInv, TypeInv, HandleTypes
<1>2. latest' \in Seq(Message) /\ Told' = {}
      /\ (latest' = latest \/ \E m \in Told : latest' = <<m>>)
      /\ (response' = response \/ \E m \in Told : response' = <<m>>)
  BY <1>1, Heard
<1>3. /\ q \in Proxy
      /\ latest' = <<>> => q.rows = proxy.rows /\ q.episode = proxy.episode /\ q.result = proxy.result
                           /\ (q.status = proxy.status \/ q.status = "ABORTED")
      /\ latest' # <<>> =>
           /\ q.rows = latest'[1].rows /\ q.episode = latest'[1].episode
           /\ q.result => proxy.result \/ latest'[1].result
      /\ lost => q.state = "DONE"
      /\ q.state = "DONE" /\ q.status = "COMPLETED" =>
           IF latest' = <<>> THEN proxy.status = "COMPLETED"
           ELSE latest'[1].state = "DONE" /\ latest'[1].status \in {"none", "COMPLETED"}
  BY <1>1, <1>2, Synced
<1>4. ResultInv'
  <2>1. \A i \in 1 .. Len(latest') : latest'[i].result => Settlement
    BY <1>2 DEF RecorderInv, ResultInv
  <2>2. \A i \in 1 .. Len(response') : response'[i].result => Settlement
    BY <1>2 DEF RecorderInv, ResultInv
  <2>3. q.result => Settlement
    <3>1. latest' # <<>> => 1 \in 1 .. Len(latest')
      BY <1>2
    <3> QED
      BY <1>3, <2>1, <3>1 DEF RecorderInv, ResultInv
  <2>4. Settlement' <=> Settlement
    BY DEF Settlement
  <2> QED
    BY <1>2, <2>1, <2>2, <2>3, <2>4 DEF RecorderInv, ResultInv, RotationSettles
<1>5. RotateInv'
  <2>1. RotateFlies' <=> RotateFlies
    BY OrderKept DEF RecorderInv
  <2>2. ASSUME phase' \in Looping PROVE StreamInv'
    <3>1. StreamInv
      BY <2>2 DEF RecorderInv, RotateInv
    <3>2. \/ q.rows = proxy.rows /\ q.episode = proxy.episode
          \/ \E m \in Told : q.rows = m.rows /\ q.episode = m.episode
      <4>1. CASE latest' = <<>>
        BY <1>3, <4>1
      <4>2. CASE latest' # <<>> /\ latest' = latest
        BY <1>3, <3>1, <4>2 DEF StreamInv
      <4>3. CASE \E m \in Told : latest' = <<m>>
        BY <1>3, <4>3
      <4> QED
        BY <1>2, <4>1, <4>2, <4>3
    <3>3. NotRotated => NotRotated'
      BY <1>2, <3>2 DEF NotRotated
    <3>4. latest' # <<>> => latest'[1].rows = proxy'.rows /\ latest'[1].episode = proxy'.episode
      BY <1>3
    <3>5. /\ ~rotating => proxy'.episode = episode
          /\ proxy'.episode = episode /\ proxy'.rows => writer.rows
          /\ proxy'.episode = episode \/ proxy'.rows
      BY <3>1, <3>2 DEF StreamInv
    <3> QED
      BY <1>2, <2>1, <3>1, <3>3, <3>4, <3>5 DEF StreamInv
  <2> QED
    BY <2>1, <2>2 DEF RecorderInv, RotateInv
<1>6. LossInv' /\ (phase \in Looping /\ lost => q.state = "DONE" /\ q.status # "COMPLETED")
  <2>1. phase \in Looping /\ latest' # <<>> => Judged(latest'[1].state, latest'[1].status)
    BY <1>2 DEF RecorderInv, LossInv
  <2>2. latest' = <<>> => latest = <<>>
    BY <1>2
  <2> QED
    BY <1>2, <1>3, <2>1, <2>2 DEF RecorderInv, LossInv, Judged
<1> QED
  BY <1>3, <1>4, <1>5, <1>6

-----------------------------------------------------------------------------
(* The recorder settles and reports *)

\* The writer after the collector's finalize_pending.
LEMMA Settling ==
  ASSUME NEW c \in Collector, NEW w \in WriterType, WriterFits(c, w), NEW raised \in BOOLEAN,
         raised => PendingCall(c) # "none"
  PROVE  LET d == FinalizePending(c, raised)
             v == Settle(c, w, raised) IN
         /\ d \in Collector /\ v \in WriterType /\ WriterFits(d, v)
         /\ v.rows = w.rows /\ (w.phase \in Ended => v.phase \in Ended)
         /\ d.state = "FINALIZING" => c.state = "FINALIZING" \/ raised
         /\ c.state = "DONE" /\ ~raised => d.state = "DONE"
         /\ ~raised /\ w.rows /\ c.state = "DONE" => v.phase \in Ended
<1>1. c.deferred \in {"none", "reject", "finish", "discard", "abort"} /\ c.result \in BOOLEAN
  BY DEF Collector
<1>2. CASE PendingCall(c) = "none"
  <2>1. FinalizePending(c, raised) = c /\ Settle(c, w, raised) = w
    BY <1>2 DEF FinalizePending, Settle
  <2>2. ~raised /\ w.rows /\ c.state = "DONE" => w.phase \in Ended
    BY <1>1, <1>2 DEF PendingCall, WriterFits
  <2> QED
    BY <1>2, <2>1, <2>2
<1>3. CASE PendingCall(c) # "none"
  <2> DEFINE d == [c EXCEPT !.deferred = "none", !.result = ~raised,
                           !.state = IF raised /\ c.deferred # "reject" THEN "FINALIZING" ELSE "DONE"]
  <2>1. FinalizePending(c, raised) = d
    BY <1>3 DEF FinalizePending
  <2>2. d \in Collector /\ d.deferred = "none" /\ d.result = ~raised
        /\ d.state = IF raised /\ c.deferred # "reject" THEN "FINALIZING" ELSE "DONE"
    BY DEF Collector, CaptureState
  <2>3. PendingCall(c) = c.deferred /\ ~c.result /\ c.deferred # "none" /\ c.state = "DONE"
    BY <1>1, <1>3 DEF PendingCall, WriterFits
  <2> HIDE DEF d
  <2>4. CASE raised
    <3>1. Settle(c, w, raised) = w
      BY <2>4 DEF Settle
    <3> QED
      BY <2>1, <2>2, <2>3, <2>4, <3>1 DEF WriterFits
  <2>5. CASE ~raised
    <3>1. Settle(c, w, raised) \in {[w EXCEPT !.phase = "discarded"], [w EXCEPT !.phase = "finalized"]}
      BY <1>1, <2>3, <2>5 DEF Settle
    <3>2. Settle(c, w, raised) \in WriterType /\ Settle(c, w, raised).rows = w.rows
          /\ Settle(c, w, raised).phase \in Ended
      BY <3>1 DEF WriterType, Settled, Ended
    <3> QED
      BY <2>1, <2>2, <2>5, <3>2 DEF WriterFits
  <2> QED
    BY <2>4, <2>5
<1> QED
  BY <1>2, <1>3

\* A writer is only closed while it is idle: nothing was written or settled.
LEMMA Closing ==
  ASSUME NEW c \in Collector, NEW w \in WriterType, WriterFits(c, w)
  PROVE  /\ CloseIdle(c, w) \in WriterType /\ CloseIdle(c, w).rows = w.rows
         /\ CloseIdle(c, w).phase \in Ended <=> w.phase \in Ended
         /\ WriterFits(c, CloseIdle(c, w))
         /\ c.state = "IDLE" => ~w.rows /\ ~c.result /\ c.deferred = "none"
BY DEF WriterFits, CloseIdle, WriterType, Ended, Settled, Collector, CaptureState

\* A report of the episode that goes on: what it says is what is there.
LEMMA ReportKeeps ==
  ASSUME RecorderInv, NEW kind \in {"state", "response"}, NEW raised \in BOOLEAN,
         Report(kind, col', writer', episode', raised),
         col' \in Collector, writer' \in WriterType, WriterFits(col', writer'),
         writer.phase \in Ended => writer'.phase \in Ended, writer.rows => writer'.rows,
         RotateFlies' => RotateFlies /\ col'.result = col.result /\ (col'.state = "FINALIZING" => col.state = "FINALIZING"),
         phase \in Looping =>
            /\ ~col'.result /\ Judged(col'.state, col'.status)
            /\ col'.state = "FINALIZING" => col.state = "FINALIZING" \/ RotateFlies,
         UNCHANGED <<phase, rotating, proxy, latest, response, left, episode>>
  PROVE  /\ status' \in Seq(Message) /\ Len(status') <= StatusSlots
         /\ WriterInv' /\ ResultInv' /\ RotateInv' /\ LossInv'
<1> DEFINE m == [kind |-> kind, state |-> col'.state, status |-> col'.status, rows |-> writer'.rows,
                 episode |-> episode', result |-> col'.result, raised |-> raised]
<1>1. TypeInv /\ episode \in 0 .. MaxEpisodes
  BY DEF RecorderInv, TypeInv, RecorderTypes
<1>2. m \in Message
  BY <1>1 DEF Message, Collector, WriterType
<1>3. status' = PutLatest(status, m)
  BY Zenon DEF Report
<1>4. /\ m.rows = writer'.rows /\ m.episode = episode /\ m.result = col'.result
      /\ m.state = col'.state /\ m.status = col'.status
  OBVIOUS
<1> HIDE DEF m
<1>5. status' \in Seq(Message) /\ Len(status') <= StatusSlots /\ Told' \subseteq Told \cup {m}
  BY <1>1, <1>2, <1>3, Reported
<1>6. WriterInv'
  BY DEF WriterInv
<1>7. ResultInv'
  <2>1. Settlement => Settlement'
    BY SettlementKept
  <2>2. col'.result => Settlement'
    BY DEF WriterFits, Settlement
  <2>3. \A x \in Told' : x.result => Settlement'
    BY <1>4, <1>5, <2>1, <2>2 DEF RecorderInv, ResultInv
  <2> QED
    BY <2>1, <2>3 DEF RecorderInv, ResultInv, RotationSettles
<1>8. RotateInv'
  <2>1. ASSUME phase \in Looping, NotRotated PROVE NotRotated'
    BY <1>4, <1>5, <2>1 DEF NotRotated
  <2>2. ASSUME phase \in Looping PROVE StreamInv'
    <3>1. StreamInv
      BY <2>2 DEF RecorderInv, RotateInv
    <3>2. col'.state = "FINALIZING" => rotating /\ NotRotated
      BY <2>2, <3>1 DEF StreamInv, RecorderInv, RotateInv
    <3>3. RotateFlies' => NotRotated'
      BY <2>1, <2>2, <3>1 DEF StreamInv
    <3>4. /\ ~rotating => proxy.episode = episode /\ \A x \in Told' : x.episode = episode
          /\ proxy.episode = episode => \A x \in Told' : x.episode = episode /\ (proxy.rows => x.rows)
          /\ proxy.episode = episode /\ proxy.rows => writer'.rows
          /\ \A x \in Told' : x.episode = episode /\ x.rows => writer'.rows
          /\ \A x \in Told' : x.episode = episode \/ x.rows
      BY <1>4, <1>5, <3>1 DEF StreamInv
    <3> QED
      BY <2>1, <2>2, <3>1, <3>2, <3>3, <3>4 DEF StreamInv
  <2> QED
    BY <2>2 DEF RecorderInv, RotateInv
<1>9. LossInv'
  BY <1>4, <1>5 DEF RecorderInv, LossInv
<1> QED
  BY <1>5, <1>6, <1>7, <1>8, <1>9

\* A command was executed: the recorder's hands are empty.
LEMMA HandsEmpty ==
  ASSUME RecorderInv, cpc = "dispatch"
  PROVE  /\ deferred = NoCommand /\ inHand = NoRole
         /\ cmd.kind = "rotate" => RotateFlies
BY DEF RecorderInv, GateInv, DeferredGoesFirst, HandInv, RotateFlies, InHands, NoCommand

LEMMA Executed ==
  ASSUME RecorderInv, cpc = "dispatch", cpc' \in {"next", "ended"}, cmd' = NoCommand,
         UNCHANGED <<phase, control, deferred, ahead, fpc, frameRole, inHand>>
  PROVE  /\ HandInv' /\ GateInv' /\ OrderInv'
         /\ RotateFlies' => RotateFlies /\ cmd.kind \notin Late \cup {"rotate"}
<1>1. deferred = NoCommand /\ inHand = NoRole /\ NoCommand.kind = "none"
  BY HandsEmpty DEF NoCommand
<1>2. HandInv'
  BY <1>1 DEF RecorderInv, HandInv
<1>3. GateInv'
  BY <1>1 DEF GateInv, DeferredGoesFirst
<1>4. \A K : InQueue(K)' <=> InQueue(K)
  BY DEF InQueue
<1>5. ~InHands({"rotate"})' /\ ~InHands(Late)' /\ ~InHands(Late \cup {"rotate"})'
  BY <1>1 DEF InHands, Late
<1>6. OrderInv'
  BY <1>1, <1>4, <1>5 DEF RecorderInv, OrderInv
<1>7. RotateFlies' => RotateFlies /\ cmd.kind \notin Late \cup {"rotate"}
  BY <1>4, <1>5 DEF RecorderInv, RotateFlies, OrderInv, InHands
<1> QED
  BY <1>2, <1>3, <1>6, <1>7

-----------------------------------------------------------------------------
(* The steps of the producer *)

USE DEF producerVars, handleVars, forwarderVars, recorderVars

LEMMA InitHolds == Init => RecorderInv
<1> SUFFICES ASSUME Init PROVE RecorderInv
  OBVIOUS
<1> USE DEF Init
<1>1. /\ NewCollector \in Collector /\ NewCollector.state = "IDLE" /\ NewCollector.deferred = "none"
      /\ NewCollector.result = FALSE
  BY CollectorAssumption DEF NewCollector, Collector, CaptureState, EpisodeStatus
<1>2. TypeInv
  <2>1. ProducerTypes /\ ForwarderTypes
    BY DEF ProducerTypes, Phases, ForwarderTypes
  <2>2. HandleTypes
    <3>1. proxy \in Proxy /\ recorderError \in BOOLEAN
      <4>1. 0 \in 0 .. MaxEpisodes
        BY RecorderAssumption
      <4>2. proxy = [state |-> "IDLE", status |-> "none", rows |-> FALSE, episode |-> 0, result |-> FALSE]
        OBVIOUS
      <4>3. proxy \in Proxy
        BY <4>1, <4>2 DEF Proxy, CaptureState, EpisodeStatus
      <4> QED
        BY <4>3
    <3>2. latest \in Seq(Message) /\ response \in Seq(Message) /\ Len(latest) = 0 /\ Len(response) = 0
      OBVIOUS
    <3> QED
      BY <3>1, <3>2 DEF HandleTypes
  <2>3. ChannelTypes
    BY RecorderAssumption DEF ChannelTypes
  <2>4. RecorderTypes
    BY RecorderAssumption, <1>1 DEF RecorderTypes, Places, NewWriter, WriterType, CommandType, NoCommand, Kinds
  <2> QED
    BY <2>1, <2>2, <2>3, <2>4 DEF TypeInv
<1>3. HandInv
  BY RecorderAssumption DEF HandInv, NoRole
<1>4. PendingCountsFrames
  <2>1. QueuedFrames = 0
    BY <1>2, Queued
  <2> QED
    BY <2>1 DEF PendingCountsFrames
<1>5. AheadInv
  <2>1. ASSUME NEW r \in Roles PROVE ahead[r] = 0 /\ FramesAhead[r] = 0
    BY RecorderAssumption DEF FramesAhead, NoRole
  <2> HIDE DEF Init
  <2>2. ASSUME NEW r \in Roles PROVE ahead[r] <= FramesAhead[r]
    <3>1. ahead[r] = 0 /\ FramesAhead[r] = 0
      BY <2>1
    <3>2. 0 <= 0
      OBVIOUS
    <3> QED
      BY <3>1, <3>2, Zenon
  <2> QED
    BY <2>2 DEF AheadInv
<1>6. GateInv
  BY DEF GateInv, DeferredGoesFirst
<1>7. OrderInv /\ ~RotateFlies
  BY DEF OrderInv, InHands, InQueue, RotateFlies, NoCommand, Looping, Late
<1>8. WriterInv
  BY <1>1 DEF WriterInv, WriterFits, NewWriter, Ended
<1>9. Told = {}
  BY DEF Told
<1>10. ResultInv /\ LossInv
  BY <1>1, <1>9 DEF ResultInv, RotationSettles, LossInv, Judged
<1>11. RotateInv
  BY <1>1, <1>7, <1>9 DEF RotateInv, StreamInv
<1> QED
  BY <1>2, <1>3, <1>4, <1>5, <1>6, <1>7, <1>8, <1>10, <1>11 DEF RecorderInv

LEMMA StartReadyKeeps == RecorderInv /\ StartReady => RecorderInv'
<1> SUFFICES ASSUME RecorderInv, StartReady PROVE RecorderInv'
  OBVIOUS
<1> USE DEF StartReady
<1>1. status' \in Seq(Message) /\ Len(status') <= StatusSlots /\ Told' \subseteq Told
  <2>1. status \in Seq(Message) /\ status # <<>> /\ status' = Tail(status) /\ Len(status) <= StatusSlots
    BY DEF RecorderInv, TypeInv, ChannelTypes
  <2>2. status' \in Seq(Message) /\ Len(status') = Len(status) - 1
        /\ \A i \in 1 .. Len(status') : i + 1 \in 1 .. Len(status) /\ status'[i] = status[i + 1]
    BY <2>1
  <2> QED
    BY <2>1, <2>2, RecorderAssumption DEF Told
<1>2. TypeInv'
  <2>1. ProducerTypes' /\ ForwarderTypes'
    BY DEF RecorderInv, TypeInv, ProducerTypes, ForwarderTypes, Phases
  <2>2. HandleTypes' /\ RecorderTypes'
    BY DEF RecorderInv, TypeInv, HandleTypes, RecorderTypes
  <2>3. ChannelTypes'
    BY <1>1 DEF RecorderInv, TypeInv, ChannelTypes
  <2> QED
    BY <2>1, <2>2, <2>3 DEF TypeInv
<1>3. HandInv' /\ PendingCountsFrames'
  <2>1. fpc # "put" /\ fpc' # "put"
    BY DEF RecorderInv, HandInv
  <2>2. QueuedFrames' = QueuedFrames
    BY DEF QueuedFrames, FramePlaces
  <2> QED
    BY <2>1, <2>2 DEF RecorderInv, HandInv, PendingCountsFrames
<1>4. AheadInv' /\ GateInv' /\ WriterInv'
  BY AheadKept, GateKept, WriterKept DEF RecorderInv
<1>5. phase' \in Looping /\ phase \in Looping
  BY DEF Looping
<1>6. OrderInv' /\ (RotateFlies' <=> RotateFlies)
  BY <1>5, OrderKept DEF RecorderInv
<1>7. ResultInv'
  BY <1>1, ResultKept DEF RecorderInv
<1>8. RotateInv'
  BY <1>1, <1>5, <1>6, RotateKept DEF RecorderInv
<1>9. LossInv'
  BY <1>1, <1>5, LossKept DEF RecorderInv
<1> QED
  BY <1>2, <1>3, <1>4, <1>6, <1>7, <1>8, <1>9 DEF RecorderInv

\* A poll of the handle, as far as the types go.
LEMMA PollTypes ==
  ASSUME TypeInv, Hears, recorderError' \in BOOLEAN, proxy' \in Proxy
  PROVE  /\ HandleTypes'
         /\ UNCHANGED <<control, cameraQueue, pending, ahead>> => ChannelTypes'
BY Heard DEF TypeInv, HandleTypes, ChannelTypes

\* A poll outside the loop, by which the proxy may learn what was told.
LEMMA LatePoll ==
  ASSUME RecorderInv, Hears, phase' \notin Looping, UNCHANGED <<left, writer, control, cmd, deferred, rotating, episode, col>>,
         proxy'.result => Settlement
  PROVE  ResultInv' /\ RotateInv' /\ LossInv'
<1>1. TypeInv
  BY DEF RecorderInv
<1>2. Told' = {} /\ (latest' = latest \/ \E m \in Told : latest' = <<m>>)
      /\ (response' = response \/ \E m \in Told : response' = <<m>>)
  BY <1>1, Heard
<1>3. ResultInv'
  <2>1. \A i \in 1 .. Len(latest') : latest'[i].result => Settlement
    BY <1>2 DEF RecorderInv, ResultInv
  <2>2. \A i \in 1 .. Len(response') : response'[i].result => Settlement
    BY <1>2 DEF RecorderInv, ResultInv
  <2>3. Settlement' <=> Settlement
    BY DEF Settlement
  <2> QED
    BY <1>2, <2>1, <2>2, <2>3 DEF RecorderInv, ResultInv, RotationSettles
<1>4. RotateFlies' => RotateFlies
  BY OrderKept DEF RecorderInv
<1> QED
  BY <1>3, <1>4 DEF RecorderInv, RotateInv, LossInv

LEMMA StartFailsKeeps == RecorderInv /\ StartFails => RecorderInv'
<1> SUFFICES ASSUME RecorderInv, StartFails PROVE RecorderInv'
  OBVIOUS
<1> USE DEF StartFails
<1>1. TypeInv /\ Hears /\ recorderError' \in BOOLEAN /\ phase' \notin Looping
  BY PollHears DEF RecorderInv, Looping
<1>2. TypeInv'
  <2>1. ProducerTypes' /\ ForwarderTypes' /\ RecorderTypes'
    BY DEF RecorderInv, TypeInv, ProducerTypes, ForwarderTypes, RecorderTypes, Phases
  <2>2. HandleTypes' /\ ChannelTypes'
    BY <1>1, PollTypes DEF TypeInv, HandleTypes
  <2> QED
    BY <2>1, <2>2 DEF TypeInv
<1>3. HandInv'
  BY DEF RecorderInv, HandInv
<1>4. PendingCountsFrames' /\ AheadInv' /\ GateInv' /\ WriterInv'
  BY CountKept, AheadKept, GateKept, WriterKept DEF RecorderInv
<1>5. OrderInv'
  BY <1>1, OrderKept DEF RecorderInv
<1>6. ResultInv' /\ RotateInv' /\ LossInv'
  BY <1>1, LatePoll DEF RecorderInv, ResultInv
<1> QED
  BY <1>2, <1>3, <1>4, <1>5, <1>6 DEF RecorderInv

LEMMA TickCheckKeeps ==
  RecorderInv /\ TickCheck => RecorderInv' /\ (cpc = "crashed" => captureFailed')
<1> SUFFICES ASSUME RecorderInv, TickCheck PROVE RecorderInv' /\ (cpc = "crashed" => captureFailed')
  OBVIOUS
<1> USE DEF TickCheck
<1>1. TypeInv /\ Hears /\ recorderError' \in BOOLEAN /\ (cpc = "crashed" => recorderError')
  BY PollHears DEF RecorderInv
<1>2. phase \in Looping /\ phase' \in Looping
  BY DEF Looping
<1>3. /\ proxy' \in Proxy /\ ResultInv' /\ RotateInv' /\ LossInv'
      /\ recorderError' => proxy'.state = "DONE" /\ proxy'.status # "COMPLETED"
  BY <1>1, <1>2, SyncKeeps DEF Sync
<1>4. captureFailed' \in BOOLEAN
  BY DEF RecorderInv, TypeInv, ProducerTypes
<1>5. TypeInv'
  <2>1. ProducerTypes' /\ ForwarderTypes' /\ RecorderTypes'
    BY <1>4 DEF RecorderInv, TypeInv, ProducerTypes, ForwarderTypes, RecorderTypes, Phases
  <2>2. HandleTypes' /\ ChannelTypes'
    BY <1>1, <1>3, PollTypes
  <2> QED
    BY <2>1, <2>2 DEF TypeInv
<1>6. HandInv'
  BY DEF RecorderInv, HandInv
<1>7. PendingCountsFrames' /\ AheadInv' /\ GateInv' /\ WriterInv'
  BY CountKept, AheadKept, GateKept, WriterKept DEF RecorderInv
<1>8. OrderInv'
  BY <1>2, OrderKept DEF RecorderInv
<1> QED
  BY <1>1, <1>3, <1>5, <1>6, <1>7, <1>8 DEF RecorderInv

LEMMA EndSessionKeeps == RecorderInv /\ EndSession => RecorderInv'
<1> SUFFICES ASSUME RecorderInv, EndSession PROVE RecorderInv'
  OBVIOUS
<1> USE DEF EndSession
<1>1. TypeInv'
  BY DEF RecorderInv, TypeInv, ProducerTypes, ForwarderTypes, HandleTypes, ChannelTypes, RecorderTypes, Phases
<1>2. phase' \in Looping /\ phase \in Looping /\ Told' = Told
  BY DEF Looping, Told
<1>3. HandInv'
  BY DEF RecorderInv, HandInv
<1>4. PendingCountsFrames' /\ AheadInv' /\ GateInv' /\ WriterInv'
  BY CountKept, AheadKept, GateKept, WriterKept DEF RecorderInv
<1>5. OrderInv' /\ (RotateFlies' <=> RotateFlies)
  BY <1>2, OrderKept DEF RecorderInv
<1>6. ResultInv' /\ RotateInv' /\ LossInv'
  BY <1>2, <1>5, ResultKept, RotateKept, LossKept DEF RecorderInv
<1> QED
  BY <1>1, <1>3, <1>4, <1>5, <1>6 DEF RecorderInv

LEMMA CutEpisodeKeeps == RecorderInv /\ CutEpisode => RecorderInv'
<1> SUFFICES ASSUME RecorderInv, CutEpisode PROVE RecorderInv'
  OBVIOUS
<1> USE DEF CutEpisode
<1> DEFINE lost == ReportedError
           synced == SyncWith(proxy, latest', lost)
<1>1. TypeInv /\ Hears /\ lost \in BOOLEAN /\ phase' \notin Looping
  BY DEF RecorderInv, TypeInv, HandleTypes, Hears, Looping, ReportedError
<1>2. PICK kind \in IF synced.state = "REC" THEN {"discard_current", "finish", "abort"} ELSE {"shutdown"} :
         /\ proxy' = IF kind = "discard_current" THEN synced ELSE [synced EXCEPT !.state = "DONE"]
         /\ IF lost THEN recorderError' = TRUE /\ UNCHANGED <<control, ahead>>
            ELSE /\ control' = control \o Fitting(CutCommands(kind))
                 /\ ahead' = IF HasBoundary(Fitting(CutCommands(kind))) THEN FramesAhead ELSE ahead
                 /\ recorderError' = (Fitting(CutCommands(kind)) # CutCommands(kind))
  BY Zenon
<1> HIDE DEF lost
<1> DEFINE commands == CutCommands(kind)
<1>3. commands \in Seq(CommandType) /\ \A i \in 1 .. Len(commands) : commands[i].kind \notin {"rotate", "control"}
  <2>1. kind \in {"discard_current", "finish", "abort", "shutdown"}
    BY <1>2
  <2>2. commands = <<[kind |-> "flush_camera", active |-> FALSE], [kind |-> kind, active |-> FALSE]>>
    BY DEF CutCommands, Command
  <2> HIDE DEF commands
  <2> QED
    BY <2>1, <2>2 DEF CommandType, Kinds, Boundary
<1> HIDE DEF commands
<1>4. PICK F \in Seq(CommandType) :
         /\ control' = control \o F /\ control' \in Seq(CommandType) /\ Len(control') <= ControlSlots
         /\ \A i \in 1 .. Len(F) : F[i].kind \notin {"rotate", "control"}
         /\ recorderError' \in BOOLEAN
         /\ ahead' = IF HasBoundary(F) THEN FramesAhead ELSE ahead
  <2>1. control \in Seq(CommandType) /\ Len(control) <= ControlSlots
    BY <1>1 DEF TypeInv, ChannelTypes
  <2>2. CASE lost
    <3> DEFINE F == <<>>
    <3>1. F \in Seq(CommandType) /\ Len(F) = 0
      OBVIOUS
    <3>2. control' = control /\ recorderError' = TRUE /\ ahead' = ahead
      BY <1>2, <2>2
    <3>3. control' = control \o F
      BY <2>1, <3>2
    <3> HIDE DEF F
    <3>4. ~HasBoundary(F)
      BY <3>1 DEF HasBoundary
    <3>5. /\ control' \in Seq(CommandType) /\ Len(control') <= ControlSlots
          /\ \A i \in 1 .. Len(F) : F[i].kind \notin {"rotate", "control"}
          /\ recorderError' \in BOOLEAN
          /\ ahead' = IF HasBoundary(F) THEN FramesAhead ELSE ahead
      BY <2>1, <3>1, <3>2, <3>4
    <3> QED
      BY <3>1, <3>3, <3>5
  <2>3. CASE ~lost
    <3> DEFINE F == Fitting(commands)
    <3>1. F \in Seq(CommandType) /\ Len(control) + Len(F) <= ControlSlots
          /\ \A i \in 1 .. Len(F) : i \in 1 .. Len(commands) /\ F[i] = commands[i]
      BY <1>1, <1>3, Fits
    <3>2. control' = control \o F /\ ahead' = IF HasBoundary(F) THEN FramesAhead ELSE ahead
      BY <1>2, <2>3, Zenon DEF commands
    <3>3. recorderError' \in BOOLEAN
      BY <1>2, <2>3
    <3> HIDE DEF F
    <3>4. control' \in Seq(CommandType) /\ Len(control') <= ControlSlots
      BY <2>1, <3>1, <3>2, Joined
    <3>5. \A i \in 1 .. Len(F) : F[i].kind \notin {"rotate", "control"}
      BY <1>3, <3>1
    <3> QED
      BY <3>1, <3>2, <3>3, <3>4, <3>5
  <2> QED
    BY <2>2, <2>3
<1>5. synced \in Proxy /\ (synced.result => Settlement)
  <2>1. latest' \in Seq(Message) /\ (latest' = latest \/ \E m \in Told : latest' = <<m>>)
    BY <1>1, Heard
  <2>2. \A i \in 1 .. Len(latest') : latest'[i].result => Settlement
    BY <2>1 DEF RecorderInv, ResultInv
  <2>3. latest' # <<>> => 1 \in 1 .. Len(latest')
    BY <2>1
  <2>4. proxy \in Proxy /\ (proxy.result => Settlement)
    BY DEF RecorderInv, TypeInv, HandleTypes, ResultInv
  <2> QED
    BY <1>1, <2>1, <2>2, <2>3, <2>4, Synced, SMTT(60)
<1>6. proxy' \in Proxy /\ (proxy'.result => Settlement)
  <2> HIDE DEF synced
  <2> QED
    BY <1>2, <1>5 DEF Proxy, CaptureState
<1>7. AheadInv' /\ GateInv' /\ ahead' \in [Roles -> Nat]
  BY <1>1, <1>4, SentAhead DEF RecorderInv
<1>8. OrderInv'
  BY <1>1, <1>4, SentOrder DEF RecorderInv
<1>9. TypeInv'
  <2>1. ProducerTypes' /\ ForwarderTypes' /\ RecorderTypes'
    BY DEF RecorderInv, TypeInv, ProducerTypes, ForwarderTypes, RecorderTypes, Phases
  <2>2. HandleTypes'
    BY <1>1, <1>4, <1>6, PollTypes
  <2>3. ChannelTypes'
    BY <1>1, <1>4, <1>7, Heard DEF TypeInv, ChannelTypes
  <2> QED
    BY <2>1, <2>2, <2>3 DEF TypeInv
<1>10. HandInv'
  BY DEF RecorderInv, HandInv
<1>11. PendingCountsFrames' /\ WriterInv'
  BY CountKept, WriterKept DEF RecorderInv
<1>12. ResultInv'
  <2>1. Told' = {} /\ (latest' = latest \/ \E m \in Told : latest' = <<m>>)
        /\ (response' = response \/ \E m \in Told : response' = <<m>>)
    BY <1>1, Heard
  <2>2. \A i \in 1 .. Len(latest') : latest'[i].result => Settlement
    BY <2>1 DEF RecorderInv, ResultInv
  <2>3. \A i \in 1 .. Len(response') : response'[i].result => Settlement
    BY <2>1 DEF RecorderInv, ResultInv
  <2>4. Settlement' <=> Settlement
    BY DEF Settlement
  <2> QED
    BY <1>6, <2>1, <2>2, <2>3, <2>4 DEF RecorderInv, ResultInv, RotationSettles
<1>13. RotateInv' /\ LossInv'
  <2>1. RotateFlies' <=> RotateFlies
    BY <1>1, <1>4, SentOrder DEF RecorderInv
  <2> QED
    BY <1>1, <2>1 DEF RecorderInv, RotateInv, LossInv
<1> QED
  BY <1>7, <1>8, <1>9, <1>10, <1>11, <1>12, <1>13 DEF RecorderInv

\* A single command that ends the session is put into the queue.
LEMMA LastCommands ==
  ASSUME RecorderInv, phase' \notin Looping, NEW kind \in {"finalize_pending", "stop"},
         Len(control) < ControlSlots, control' = Append(control, Command(kind)),
         UNCHANGED <<cmd, deferred, cpc, ahead, cameraQueue, inHand, frameRole, rotating, episode, writer, col>>
  PROVE  /\ control' \in Seq(CommandType) /\ Len(control') <= ControlSlots
         /\ GateInv' /\ OrderInv' /\ RotateInv' /\ LossInv'
<1> DEFINE F == <<Command(kind)>>
<1>1. control \in Seq(CommandType) /\ TypeInv
  BY DEF RecorderInv, TypeInv, ChannelTypes
<1>2. Command(kind) \in CommandType /\ Command(kind).kind = kind
  BY DEF Command, CommandType, Kinds
<1>3. F \in Seq(CommandType) /\ Len(F) = 1 /\ F[1] = Command(kind) /\ control' = control \o F
  BY <1>1, <1>2
<1> HIDE DEF F
<1>4. ~HasBoundary(F)
  BY <1>2, <1>3 DEF HasBoundary, Boundary
<1>5. GateInv'
  BY <1>1, <1>3, <1>4, SentAhead DEF RecorderInv
<1>6. OrderInv' /\ (RotateFlies' <=> RotateFlies)
  <2>1. \A i \in 1 .. Len(F) : F[i].kind # "rotate" /\ F[i].kind # "control"
    BY <1>2, <1>3
  <2> QED
    BY <1>1, <1>3, <2>1, SentOrder DEF RecorderInv
<1>7. control' \in Seq(CommandType) /\ Len(control') <= ControlSlots
  BY <1>1, <1>2
<1> QED
  BY <1>5, <1>6, <1>7 DEF RecorderInv, RotateInv, LossInv

LEMMA RequestFinalizeKeeps == RecorderInv /\ RequestFinalize => RecorderInv'
<1> SUFFICES ASSUME RecorderInv, RequestFinalize PROVE RecorderInv'
  OBVIOUS
<1> USE DEF RequestFinalize
<1>1. phase' \notin Looping /\ phase' \in Phases /\ Told' = Told
  BY DEF Looping, Phases, Told
<1>2. control' \in Seq(CommandType) /\ Len(control') <= ControlSlots /\ GateInv' /\ OrderInv' /\ RotateInv' /\ LossInv'
  <2>1. CASE control' = control
    <3>1. GateInv' /\ OrderInv' /\ (RotateFlies' <=> RotateFlies)
      BY <1>1, <2>1, GateKept, OrderKept DEF RecorderInv
    <3> QED
      BY <1>1, <2>1, <3>1 DEF RecorderInv, TypeInv, ChannelTypes, RotateInv, LossInv
  <2>2. CASE control' # control
    <3>1. Len(control) < ControlSlots /\ control' = Append(control, Command("finalize_pending"))
      BY <2>2
    <3> QED
      BY <1>1, <3>1, LastCommands
  <2> QED
    BY <2>1, <2>2
<1>3. proxy' \in Proxy /\ proxy'.result = proxy.result
  BY DEF RecorderInv, TypeInv, HandleTypes, Proxy, Failed, CaptureState, EpisodeStatus
<1>4. TypeInv'
  <2>1. ProducerTypes' /\ ForwarderTypes' /\ RecorderTypes'
    BY <1>1 DEF RecorderInv, TypeInv, ProducerTypes, ForwarderTypes, RecorderTypes
  <2>2. HandleTypes' /\ ChannelTypes'
    BY <1>2, <1>3 DEF RecorderInv, TypeInv, HandleTypes, ChannelTypes
  <2> QED
    BY <2>1, <2>2 DEF TypeInv
<1>5. HandInv'
  BY DEF RecorderInv, HandInv
<1>6. PendingCountsFrames' /\ AheadInv' /\ WriterInv'
  BY CountKept, AheadKept, WriterKept DEF RecorderInv
<1>7. ResultInv'
  BY <1>1, <1>3, ResultKept DEF RecorderInv
<1> QED
  BY <1>2, <1>4, <1>5, <1>6, <1>7 DEF RecorderInv

\* The answer, or its absence, is taken in.
LEMMA AwaitKeeps == RecorderInv /\ (AwaitResponse \/ AwaitFails) => RecorderInv'
<1> SUFFICES ASSUME RecorderInv, AwaitResponse \/ AwaitFails PROVE RecorderInv'
  OBVIOUS
<1>1. /\ Poll /\ phase = "await" /\ phase' = "stopping"
      /\ proxy' = Failed(proxy) \/ (response' # <<>> /\ proxy' = ApplyStatus(proxy, response'[1]))
      /\ UNCHANGED <<idle, active, rotating, captureFailed, forwarderVars, control, cameraQueue, pending, recorderVars,
                     left, ahead, leaked>>
  BY Zenon DEF AwaitResponse, AwaitFails
<1>2. TypeInv /\ Hears /\ recorderError' \in BOOLEAN /\ phase' \notin Looping
  BY <1>1, PollHears DEF RecorderInv, Looping
<1>3. proxy' \in Proxy /\ (proxy'.result => Settlement)
  <2>1. response' \in Seq(Message) /\ (response' = response \/ \E m \in Told : response' = <<m>>)
    BY <1>2, Heard
  <2>2. \A i \in 1 .. Len(response') : response'[i].result => Settlement
    BY <2>1 DEF RecorderInv, ResultInv
  <2>3. response' # <<>> => response'[1] \in Message /\ (response'[1].result => Settlement)
    BY <2>1, <2>2
  <2>4. proxy \in Proxy /\ (proxy.result => Settlement)
    BY DEF RecorderInv, TypeInv, HandleTypes, ResultInv
  <2>5. Failed(proxy) \in Proxy /\ Failed(proxy).result = proxy.result
    BY <2>4 DEF Failed, Proxy, CaptureState, EpisodeStatus
  <2>6. ASSUME NEW m \in Message, m.result => Settlement
        PROVE  ApplyStatus(proxy, m) \in Proxy /\ (ApplyStatus(proxy, m).result => Settlement)
    BY <2>4, <2>6 DEF ApplyStatus, Proxy, Message
  <2>7. CASE proxy' = Failed(proxy)
    BY <2>4, <2>5, <2>7
  <2>8. CASE response' # <<>> /\ proxy' = ApplyStatus(proxy, response'[1])
    BY <2>3, <2>6, <2>8
  <2> QED
    BY <1>1, <2>7, <2>8
<1>4. TypeInv'
  <2>1. ProducerTypes' /\ ForwarderTypes' /\ RecorderTypes'
    BY <1>1 DEF RecorderInv, TypeInv, ProducerTypes, ForwarderTypes, RecorderTypes, Phases
  <2>2. HandleTypes' /\ ChannelTypes'
    BY <1>1, <1>2, <1>3, PollTypes
  <2> QED
    BY <2>1, <2>2 DEF TypeInv
<1>5. HandInv'
  BY <1>1 DEF RecorderInv, HandInv
<1>6. PendingCountsFrames' /\ AheadInv' /\ GateInv' /\ WriterInv' /\ OrderInv'
  BY <1>1, <1>2, CountKept, AheadKept, GateKept, WriterKept, OrderKept DEF RecorderInv
<1>7. ResultInv' /\ RotateInv' /\ LossInv'
  BY <1>1, <1>2, <1>3, LatePoll
<1> QED
  BY <1>4, <1>5, <1>6, <1>7 DEF RecorderInv

LEMMA StopRecorderKeeps == RecorderInv /\ StopRecorder => RecorderInv'
<1> SUFFICES ASSUME RecorderInv, StopRecorder PROVE RecorderInv'
  OBVIOUS
<1> USE DEF StopRecorder
<1>1. phase' \notin Looping /\ phase' \in Phases /\ Told' = Told
  BY DEF Looping, Phases, Told
<1>2. control' \in Seq(CommandType) /\ Len(control') <= ControlSlots /\ GateInv' /\ OrderInv' /\ RotateInv' /\ LossInv'
  <2>1. CASE control' = control
    <3>1. GateInv' /\ OrderInv' /\ (RotateFlies' <=> RotateFlies)
      BY <1>1, <2>1, GateKept, OrderKept DEF RecorderInv
    <3> QED
      BY <1>1, <2>1, <3>1 DEF RecorderInv, TypeInv, ChannelTypes, RotateInv, LossInv
  <2>2. CASE control' # control
    <3>1. Len(control) < ControlSlots /\ control' = Append(control, Command("stop"))
      BY <2>2
    <3> QED
      BY <1>1, <3>1, LastCommands
  <2> QED
    BY <2>1, <2>2
<1>3. TypeInv'
  <2>1. ProducerTypes' /\ ForwarderTypes' /\ RecorderTypes'
    BY <1>1 DEF RecorderInv, TypeInv, ProducerTypes, ForwarderTypes, RecorderTypes
  <2>2. HandleTypes' /\ ChannelTypes'
    BY <1>2 DEF RecorderInv, TypeInv, HandleTypes, ChannelTypes
  <2> QED
    BY <2>1, <2>2 DEF TypeInv
<1>4. HandInv'
  BY DEF RecorderInv, HandInv
<1>5. PendingCountsFrames' /\ AheadInv' /\ WriterInv'
  BY CountKept, AheadKept, WriterKept DEF RecorderInv
<1>6. ResultInv'
  BY <1>1, ResultKept DEF RecorderInv
<1> QED
  BY <1>2, <1>3, <1>4, <1>5, <1>6 DEF RecorderInv

LEMMA JoinRecorderKeeps == RecorderInv /\ JoinRecorder => RecorderInv'
<1> SUFFICES ASSUME RecorderInv, JoinRecorder PROVE RecorderInv'
  OBVIOUS
<1> USE DEF JoinRecorder
<1>1. TypeInv /\ Hears /\ recorderError' \in BOOLEAN /\ phase' \notin Looping
  BY PollHears DEF RecorderInv, Looping
<1>2. cpc' \in {"ended", "crashed"} /\ (cpc' = "ended" => cpc = "ended")
  BY DEF Alive
<1>3. TypeInv'
  <2>1. ProducerTypes' /\ ForwarderTypes' /\ RecorderTypes'
    BY <1>2 DEF RecorderInv, TypeInv, ProducerTypes, ForwarderTypes, RecorderTypes, Phases, Places
  <2>2. HandleTypes' /\ ChannelTypes'
    BY <1>1, PollTypes DEF TypeInv, HandleTypes
  <2> QED
    BY <2>1, <2>2 DEF TypeInv
<1>4. HandInv'
  BY <1>2 DEF RecorderInv, HandInv
<1>5. PendingCountsFrames' /\ AheadInv' /\ WriterInv' /\ OrderInv'
  BY <1>1, CountKept, AheadKept, WriterKept, OrderKept DEF RecorderInv
<1>6. GateInv'
  BY <1>2 DEF RecorderInv, GateInv, DeferredGoesFirst
<1>7. ResultInv' /\ RotateInv' /\ LossInv'
  BY <1>1, LatePoll DEF RecorderInv, ResultInv
<1> QED
  BY <1>3, <1>4, <1>5, <1>6, <1>7 DEF RecorderInv

\* The decision of a tick: at most one rotation is in flight, and the
\* landing is only seen when it is true.
LEMMA TickDecideKeeps ==
  ASSUME RecorderInv, NEW released \in BOOLEAN, NEW long \in BOOLEAN, TickDecide(released, long)
  PROVE  RecorderInv'
<1> DEFINE rows == proxy.rows
           rotate == released /\ rows /\ idle /\ ~rotating /\ long /\ ~captureFailed
           flying == rotating \/ rotate
           landed == flying /\ ~rows /\ ~released
           commands == (IF rotate THEN RotateCommands ELSE <<>>)
                       \o (IF Records(active', rotating') THEN <<SampleCommand(active')>> ELSE <<>>)
<1>1. /\ phase = "decide" /\ phase' = "check" /\ SendAll(commands)
      /\ rotate => proxy.episode < MaxEpisodes
      /\ proxy' = IF recorderError' THEN Failed(proxy) ELSE proxy
      /\ UNCHANGED <<captureFailed, latest, response, forwarderVars, cameraQueue, pending, status, recorderVars, left,
                     leaked>>
  BY Zenon DEF TickDecide
<1>2. /\ captureFailed => UNCHANGED <<idle, active, rotating>>
      /\ ~captureFailed => idle' = (released /\ (IF rows THEN ~rotate ELSE idle)) /\ rotating' = (flying /\ ~landed)
      /\ ~captureFailed =>
           active' = CASE landed -> TRUE
                       [] released /\ rows -> IF ~idle \/ rotate THEN FALSE ELSE active
                       [] released /\ proxy.state = "ARMING" -> FALSE
                       [] ~released /\ ~rotating -> TRUE
                       [] OTHER -> active
  BY Zenon DEF TickDecide
<1>3. TypeInv /\ idle \in BOOLEAN /\ active \in BOOLEAN /\ rotating \in BOOLEAN /\ captureFailed \in BOOLEAN
      /\ proxy \in Proxy /\ phase \in Looping /\ phase' \in Looping
  BY <1>1 DEF RecorderInv, TypeInv, ProducerTypes, HandleTypes, Looping
<1>4. idle' \in BOOLEAN /\ active' \in BOOLEAN /\ rotating' \in BOOLEAN
  BY <1>2, <1>3 DEF Proxy
<1>5. StreamInv /\ (RotateFlies => rotating /\ NotRotated)
  BY <1>3 DEF RecorderInv, RotateInv, StreamInv
<1>6. proxy' \in Proxy /\ proxy'.rows = rows /\ proxy'.episode = proxy.episode /\ proxy'.result = proxy.result
      /\ (proxy'.status = proxy.status \/ proxy'.status = "ABORTED")
  BY <1>1, <1>3 DEF Failed, Proxy, CaptureState, EpisodeStatus
<1>7. rotate => /\ ~RotateFlies /\ ~captureFailed /\ rotating' /\ proxy.episode = episode /\ episode < MaxEpisodes
                /\ writer.rows /\ ~col.result /\ col.state # "FINALIZING" /\ NotRotated
  <2>1. rotate => ~RotateFlies /\ ~captureFailed /\ rotating' /\ rows
    BY <1>2, <1>5
  <2>2. ~rotating /\ rows => /\ proxy.episode = episode /\ writer.rows /\ ~col.result /\ col.state # "FINALIZING"
                             /\ NotRotated
    BY <1>3, <1>5 DEF StreamInv, NotRotated, Proxy
  <2> QED
    BY <1>1, <2>1, <2>2
<1>8. rotating /\ NotRotated => rotating'
  BY <1>2 DEF NotRotated
<1>9. ~rotating' => proxy.episode = episode /\ \A m \in Told : m.episode = episode
  <2>1. CASE ~rotating
    BY <1>5, <2>1 DEF StreamInv
  <2>2. CASE rotating /\ ~rotating'
    <3>1. ~rows
      BY <1>2, <2>2
    <3>2. proxy.episode = episode
      BY <1>5, <3>1 DEF StreamInv
    <3> QED
      BY <1>5, <3>2 DEF StreamInv
  <2> QED
    BY <2>1, <2>2
<1> DEFINE sample == [kind |-> "control", active |-> TRUE]
           flush == [kind |-> "flush_camera", active |-> FALSE]
           turn == [kind |-> "rotate", active |-> FALSE]
<1>10. /\ commands \in Seq(CommandType)
       /\ \/ /\ ~rotate
             /\ \A i \in 1 .. Len(commands) : commands[i] = sample
          \/ /\ rotate
             /\ \A i \in 1 .. Len(commands) : commands[i] = IF i = 1 THEN flush ELSE IF i = 2 THEN turn ELSE sample
  <2>1. Records(active', rotating') => SampleCommand(active') = sample
    BY <1>4 DEF Records, SampleCommand
  <2>2. sample \in CommandType /\ flush \in CommandType /\ turn \in CommandType
    BY DEF CommandType, Kinds, Boundary
  <2>3. RotateCommands = <<flush, turn>>
    BY DEF RotateCommands, Command
  <2> DEFINE tail == IF Records(active', rotating') THEN <<SampleCommand(active')>> ELSE <<>>
  <2>4. tail \in {<<>>, <<sample>>}
    BY <2>1
  <2>5. commands = (IF rotate THEN <<flush, turn>> ELSE <<>>) \o tail
    BY <2>3
  <2> HIDE DEF commands, tail, rotate, sample, flush, turn
  <2>6. tail \in Seq(CommandType) /\ \A i \in 1 .. Len(tail) : tail[i] = sample
    <3>1. CASE tail = <<>>
      BY <3>1
    <3>2. CASE tail = <<sample>>
      BY <2>2, <3>2
    <3> QED
      BY <2>4, <3>1, <3>2
  <2>7. CASE rotate
    <3>1. commands = <<flush, turn>> \o tail
      BY <2>5, <2>7
    <3> QED
      BY <2>2, <2>6, <2>7, <3>1, TwoBefore
  <2>8. CASE ~rotate
    <3>1. commands = tail
      BY <2>4, <2>5, <2>6, <2>8
    <3> QED
      BY <2>6, <2>8, <3>1
  <2> QED
    BY <2>7, <2>8
<1> HIDE DEF commands
<1>11. PICK F \in Seq(CommandType) :
         /\ control' = control \o F /\ control' \in Seq(CommandType) /\ Len(control') <= ControlSlots
         /\ \A i \in 1 .. Len(F) : i \in 1 .. Len(commands) /\ F[i] = commands[i]
         /\ recorderError' \in BOOLEAN
         /\ ahead' = IF HasBoundary(F) THEN FramesAhead ELSE ahead
  BY <1>1, <1>3, <1>10, Sent
<1>12. AheadInv' /\ GateInv' /\ ahead' \in [Roles -> Nat]
  BY <1>1, <1>3, <1>11, SentAhead DEF RecorderInv
<1>13. TypeInv'
  <2>1. ProducerTypes' /\ ForwarderTypes' /\ RecorderTypes'
    BY <1>1, <1>3, <1>4 DEF TypeInv, ProducerTypes, ForwarderTypes, RecorderTypes, Phases
  <2>2. HandleTypes' /\ ChannelTypes'
    BY <1>1, <1>3, <1>6, <1>11, <1>12 DEF TypeInv, HandleTypes, ChannelTypes
  <2> QED
    BY <2>1, <2>2 DEF TypeInv
<1>14. HandInv'
  BY <1>1 DEF RecorderInv, HandInv
<1>15. PendingCountsFrames' /\ WriterInv'
  BY <1>1, CountKept, WriterKept DEF RecorderInv
<1>16. Told' = Told
  BY <1>1 DEF Told
<1>17. ResultInv' /\ LossInv'
  BY <1>1, <1>3, <1>6, <1>16, ResultKept, LossKept DEF RecorderInv
<1>18. OrderInv' /\ (~rotate => (RotateFlies' <=> RotateFlies))
  <2>1. CASE ~rotate
    <3>1. \A i \in 1 .. Len(F) : F[i] = sample
      BY <1>10, <1>11, <2>1
    <3>2. \A i \in 1 .. Len(F) : F[i].kind \notin Late \cup {"rotate"} /\ F[i].active
      BY <3>1 DEF Late
    <3> QED
      BY <1>1, <1>3, <1>11, <3>2, SentOrder DEF RecorderInv
  <2>2. CASE rotate
    <3>1. control \in Seq(CommandType) /\ Len(control) \in Nat
      BY <1>3 DEF TypeInv, ChannelTypes
    <3>2. /\ \A i \in 1 .. Len(control) : i \in 1 .. Len(control') /\ control'[i] = control[i]
          /\ \A i \in 1 .. Len(control') :
                i \in 1 .. Len(control) \/ (i - Len(control) \in 1 .. Len(F) /\ control'[i] = F[i - Len(control)])
      BY <1>11, <3>1, Joined
    <3>3. \A i \in 1 .. Len(commands) : commands[i] = IF i = 1 THEN flush ELSE IF i = 2 THEN turn ELSE sample
      BY <1>10, <2>2
    <3>4. \A i \in 1 .. Len(commands) : /\ commands[i].kind \notin Late
                                        /\ commands[i].kind = "control" => commands[i].active
                                        /\ commands[i].kind = "rotate" => i = 2
      BY <3>3 DEF Late
    <3>5. \A i \in 1 .. Len(F) : /\ F[i].kind \notin Late
                                 /\ F[i].kind = "control" => F[i].active
                                 /\ F[i].kind = "rotate" => i = 2
      BY <1>11, <3>4
    <3>6. ~InQueue({"rotate"}) /\ ~InHands({"rotate"}) /\ ~InQueue(Late) /\ ~InHands(Late)
      BY <1>3, <1>7, <2>2 DEF RotateFlies, RecorderInv, OrderInv
    <3>7. \A i \in 1 .. Len(control') : /\ control'[i].kind \notin Late
                                        /\ control'[i].kind = "rotate" => i = Len(control) + 2
                                        /\ control'[i].kind = "control" => control'[i].active
      <4> SUFFICES ASSUME NEW i \in 1 .. Len(control')
                   PROVE  /\ control'[i].kind \notin Late
                          /\ control'[i].kind = "rotate" => i = Len(control) + 2
                          /\ control'[i].kind = "control" => control'[i].active
        OBVIOUS
      <4>1. CASE i \in 1 .. Len(control)
        BY <3>2, <3>6, <4>1 DEF InQueue, RecorderInv, OrderInv
      <4>2. CASE i - Len(control) \in 1 .. Len(F) /\ control'[i] = F[i - Len(control)]
        BY <3>1, <3>5, <4>2
      <4> QED
        BY <3>2, <4>1, <4>2
    <3>8. \A i, j \in 1 .. Len(control') :
             control'[i].kind \in Late \cup {"rotate"} /\ control'[j].kind = "rotate" => j <= i
      BY <3>1, <3>7
    <3>9. ~InQueue(Late)' /\ ~InHands(Late)' /\ ~InHands(Late \cup {"rotate"})'
      BY <1>1, <3>6, <3>7 DEF InQueue, InHands
    <3>10. (cmd'.kind = "control" => cmd'.active) /\ (deferred'.kind = "control" => deferred'.active)
      BY <1>1 DEF RecorderInv, OrderInv
    <3> QED
      BY <2>2, <3>7, <3>8, <3>9, <3>10 DEF OrderInv
  <2> QED
    BY <2>1, <2>2
<1>19. RotateInv'
  <2>1. NotRotated' <=> NotRotated
    BY <1>1, <1>6, <1>16 DEF NotRotated
  <2>2. RotateFlies' => rotating' /\ episode' < MaxEpisodes /\ writer'.rows /\ ~col'.result /\ col'.state # "FINALIZING"
                        /\ NotRotated'
    <3>1. CASE rotate
      BY <1>1, <1>7, <2>1, <3>1
    <3>2. CASE ~rotate
      BY <1>1, <1>5, <1>8, <1>18, <2>1, <3>2 DEF RecorderInv, RotateInv
    <3> QED
      BY <3>1, <3>2
  <2>3. col'.state = "FINALIZING" => rotating' /\ NotRotated'
    BY <1>1, <1>5, <1>8, <2>1 DEF StreamInv
  <2>4. StreamInv'
    BY <1>1, <1>5, <1>6, <1>9, <1>16, <2>2, <2>3 DEF StreamInv
  <2> QED
    BY <2>2, <2>4 DEF RotateInv
<1> QED
  BY <1>12, <1>13, <1>14, <1>15, <1>17, <1>18, <1>19 DEF RecorderInv

-----------------------------------------------------------------------------
(* The steps of the forwarder *)

LEMMA ForwardLoopKeeps == RecorderInv /\ LeakInv /\ ForwardLoop => RecorderInv'
<1> SUFFICES ASSUME RecorderInv, LeakInv, ForwardLoop PROVE RecorderInv'
  OBVIOUS
<1>1. /\ fpc = "loop" /\ Poll /\ proxy' = Sync(proxy)
      /\ UNCHANGED <<producerVars, forwarderStop, control, cameraQueue, recorderVars, left, ahead, leaked>>
      /\ \/ fpc' \in {"loop", "ended"} /\ UNCHANGED <<frameRole, pending>>
         \/ fpc' = "put" /\ frameRole' \in Roles /\ pending' = pending + 1
  BY DEF ForwardLoop
<1>2. TypeInv /\ Hears /\ recorderError' \in BOOLEAN
  BY <1>1, PollHears DEF RecorderInv
<1>3. proxy' \in Proxy /\ ResultInv' /\ RotateInv' /\ LossInv'
  BY <1>1, <1>2, SyncKeeps DEF Sync
<1>4. frameRole = NoRole /\ NoRole \notin Roles /\ pending \in Nat /\ phase # "starting"
  BY <1>1, RecorderAssumption DEF RecorderInv, HandInv, NoRole, TypeInv, ChannelTypes
<1>5. TypeInv'
  <2>1. ProducerTypes' /\ RecorderTypes'
    BY <1>1 DEF RecorderInv, TypeInv, ProducerTypes, RecorderTypes
  <2>2. ForwarderTypes'
    BY <1>1, <1>2 DEF TypeInv, ForwarderTypes
  <2>3. HandleTypes'
    BY <1>2, <1>3, PollTypes
  <2>4. ChannelTypes'
    BY <1>1, <1>2, <1>4, Heard, SMTT(60) DEF TypeInv, ChannelTypes
  <2> QED
    BY <2>1, <2>2, <2>3, <2>4 DEF TypeInv
<1>6. HandInv'
  BY <1>1, <1>4 DEF RecorderInv, HandInv
<1>7. PendingCountsFrames'
  <2>1. QueuedFrames' = QueuedFrames /\ QueuedFrames \in Nat
    BY <1>1, <1>2, Queued DEF QueuedFrames, FramePlaces
  <2> QED
    BY <1>1, <1>4, <2>1 DEF RecorderInv, PendingCountsFrames, LeakInv
<1>8. AheadInv'
  <2>1. cameraQueue \in [Roles -> Nat] /\ ahead \in [Roles -> Nat]
    BY <1>2 DEF TypeInv, ChannelTypes
  <2>2. \A r \in Roles : FramesAhead'[r] >= FramesAhead[r]
    BY <1>1, <1>4, <2>1 DEF FramesAhead
  <2>3. FramesAhead \in [Roles -> Nat] /\ FramesAhead' \in [Roles -> Nat]
    BY <1>1, <2>1 DEF FramesAhead
  <2> QED
    BY <1>1, <2>1, <2>2, <2>3 DEF RecorderInv, AheadInv
<1>9. GateInv' /\ WriterInv' /\ OrderInv'
  BY <1>1, GateKept, WriterKept, OrderKept DEF RecorderInv
<1> QED
  BY <1>3, <1>5, <1>6, <1>7, <1>8, <1>9 DEF RecorderInv

LEMMA ForwardPutKeeps == RecorderInv /\ LeakInv /\ ForwardPut => RecorderInv'
<1> SUFFICES ASSUME RecorderInv, LeakInv, ForwardPut PROVE RecorderInv'
  OBVIOUS
<1> DEFINE full == cameraQueue[frameRole] = CameraSlots
<1>1. /\ fpc = "put" /\ fpc' = "loop" /\ frameRole' = NoRole
      /\ cameraQueue' = [cameraQueue EXCEPT ![frameRole] = IF full THEN @ ELSE @ + 1]
      /\ pending' = IF full THEN pending - 1 ELSE pending
      /\ ahead' = [ahead EXCEPT ![frameRole] = IF full /\ @ > 0 THEN @ - 1 ELSE @]
      /\ UNCHANGED <<producerVars, handleVars, forwarderStop, control, status, recorderVars, left, leaked>>
  BY DEF ForwardPut
<1>2. TypeInv /\ cameraQueue \in [Roles -> 0 .. CameraSlots] /\ ahead \in [Roles -> Nat] /\ CameraSlots \in Nat \ {0}
      /\ pending \in Nat /\ frameRole \in Roles /\ NoRole \notin Roles
  BY <1>1, RecorderAssumption
     DEF RecorderInv, TypeInv, ChannelTypes, HandInv, NoRole, ForwarderTypes
<1>3. cameraQueue' \in [Roles -> 0 .. CameraSlots] /\ ahead' \in [Roles -> Nat]
  BY <1>1, <1>2
<1>4. PendingCountsFrames' /\ pending' \in Nat
  <2>1. /\ pending = QueuedFrames + 1 + (IF inHand # NoRole THEN 1 ELSE 0) + leaked
        /\ QueuedFrames \in Nat /\ leaked \in Nat
    BY <1>1, <1>2, Queued DEF RecorderInv, PendingCountsFrames, LeakInv
  <2>2. QueuedFrames' = IF full THEN QueuedFrames ELSE QueuedFrames + 1
    <3>1. CASE full
      <4>1. cameraQueue' = cameraQueue
        BY <1>1, <1>2, <3>1
      <4> QED
        BY <3>1, <4>1 DEF QueuedFrames, FramePlaces
    <3>2. CASE ~full
      <4>1. cameraQueue' = [cameraQueue EXCEPT ![frameRole] = @ + 1] /\ cameraQueue[frameRole] < CameraSlots
        BY <1>1, <1>2, <3>2
      <4> QED
        BY <1>2, <3>2, <4>1, FrameAdded
    <3> QED
      BY <3>1, <3>2
  <2> QED
    BY <1>1, <2>1, <2>2 DEF PendingCountsFrames
<1>5. TypeInv'
  <2>1. ProducerTypes' /\ RecorderTypes' /\ HandleTypes'
    BY <1>1 DEF RecorderInv, TypeInv, ProducerTypes, RecorderTypes, HandleTypes
  <2>2. ForwarderTypes' /\ ChannelTypes'
    BY <1>1, <1>2, <1>3, <1>4 DEF TypeInv, ForwarderTypes, ChannelTypes
  <2> QED
    BY <2>1, <2>2 DEF TypeInv
<1>6. HandInv'
  BY <1>1 DEF RecorderInv, HandInv
<1>7. AheadInv'
  <2> SUFFICES ASSUME NEW r \in Roles PROVE ahead'[r] <= FramesAhead'[r]
    BY DEF AheadInv
  <2> DEFINE hand == IF inHand = r THEN 1 ELSE 0
  <2>1. ahead[r] <= cameraQueue[r] + hand + (IF frameRole = r THEN 1 ELSE 0)
    BY DEF RecorderInv, AheadInv, FramesAhead
  <2>2. FramesAhead'[r] = cameraQueue'[r] + hand /\ hand \in {0, 1}
    BY <1>1, <1>2, <1>3 DEF FramesAhead
  <2>3. CASE r = frameRole
    <3>1. cameraQueue'[r] = (IF full THEN cameraQueue[r] ELSE cameraQueue[r] + 1)
          /\ ahead'[r] = (IF full /\ ahead[r] > 0 THEN ahead[r] - 1 ELSE ahead[r])
          /\ cameraQueue[r] \in Nat /\ ahead[r] \in Nat
      BY <1>1, <1>2, <2>3
    <3> HIDE DEF hand
    <3> QED
      BY <2>1, <2>2, <2>3, <3>1
  <2>4. CASE r # frameRole
    <3>1. cameraQueue'[r] = cameraQueue[r] /\ ahead'[r] = ahead[r] /\ cameraQueue[r] \in Nat /\ ahead[r] \in Nat
      BY <1>1, <1>2, <2>4
    <3> HIDE DEF hand
    <3> QED
      BY <2>1, <2>2, <2>4, <3>1
  <2> QED
    BY <2>3, <2>4
<1>8. GateInv'
  <2>1. ASSUME \A r \in Roles : ahead[r] = 0 PROVE \A r \in Roles : ahead'[r] = 0
    BY <1>1, <1>2, <2>1
  <2> QED
    BY <1>1, <2>1 DEF RecorderInv, GateInv, DeferredGoesFirst, LastBoundary, HasBoundary
<1>9. WriterInv' /\ OrderInv' /\ (RotateFlies' <=> RotateFlies) /\ Told' = Told
  BY <1>1, WriterKept, OrderKept DEF RecorderInv, Told
<1>10. ResultInv' /\ RotateInv' /\ LossInv'
  BY <1>1, <1>9, ResultKept, RotateKept, LossKept DEF RecorderInv
<1> QED
  BY <1>4, <1>5, <1>6, <1>7, <1>8, <1>9, <1>10 DEF RecorderInv

\* A camera that fails, or an exception in the thread.
LEMMA ForwardAbortKeeps == RecorderInv /\ (ForwardFault \/ ForwardCrash) => RecorderInv'
<1> SUFFICES ASSUME RecorderInv, ForwardFault \/ ForwardCrash PROVE RecorderInv'
  OBVIOUS
<1> DEFINE commands == <<Command("flush_camera"), Command("abort")>>
<1>1. /\ fpc = "loop" /\ fpc' \in {"loop", "ended"} /\ SendAll(commands) /\ proxy' = [proxy EXCEPT !.state = "DONE"]
      /\ UNCHANGED <<producerVars, latest, response, frameRole, forwarderStop, cameraQueue, pending, status, recorderVars,
                     left, leaked>>
  BY DEF ForwardFault, ForwardCrash
<1>2. TypeInv /\ Told' = Told /\ proxy \in Proxy
  BY <1>1 DEF RecorderInv, Told, TypeInv, HandleTypes
<1>3. commands \in Seq(CommandType)
      /\ \A i \in 1 .. Len(commands) : commands[i].kind \notin Late \cup {"rotate", "control"}
  <2>1. commands = <<[kind |-> "flush_camera", active |-> FALSE], [kind |-> "abort", active |-> FALSE]>>
    BY DEF Command
  <2> HIDE DEF commands
  <2> QED
    BY <2>1 DEF CommandType, Kinds, Boundary, Late
<1> HIDE DEF commands
<1>4. PICK F \in Seq(CommandType) :
         /\ control' = control \o F /\ control' \in Seq(CommandType) /\ Len(control') <= ControlSlots
         /\ \A i \in 1 .. Len(F) : i \in 1 .. Len(commands) /\ F[i] = commands[i]
         /\ recorderError' \in BOOLEAN
         /\ ahead' = IF HasBoundary(F) THEN FramesAhead ELSE ahead
  BY <1>1, <1>2, <1>3, Sent
<1>5. AheadInv' /\ GateInv' /\ ahead' \in [Roles -> Nat]
  BY <1>1, <1>2, <1>4, SentAhead DEF RecorderInv
<1>6. OrderInv' /\ (RotateFlies' <=> RotateFlies)
  <2>1. \A i \in 1 .. Len(F) : F[i].kind \notin Late \cup {"rotate", "control"}
    BY <1>3, <1>4
  <2> QED
    BY <1>1, <1>2, <1>4, <2>1, SentOrder DEF RecorderInv
<1>7. proxy' \in Proxy /\ proxy'.rows = proxy.rows /\ proxy'.episode = proxy.episode /\ proxy'.result = proxy.result
      /\ proxy'.status = proxy.status
  BY <1>1, <1>2 DEF Proxy, CaptureState
<1>8. TypeInv'
  <2>1. ProducerTypes' /\ ForwarderTypes' /\ RecorderTypes'
    BY <1>1 DEF RecorderInv, TypeInv, ProducerTypes, ForwarderTypes, RecorderTypes
  <2>2. HandleTypes' /\ ChannelTypes'
    BY <1>1, <1>4, <1>5, <1>7 DEF RecorderInv, TypeInv, HandleTypes, ChannelTypes
  <2> QED
    BY <2>1, <2>2 DEF TypeInv
<1>9. HandInv'
  BY <1>1 DEF RecorderInv, HandInv
<1>10. PendingCountsFrames'
  <2>1. QueuedFrames' = QueuedFrames
    BY <1>1 DEF QueuedFrames, FramePlaces
  <2> QED
    BY <1>1, <2>1 DEF RecorderInv, PendingCountsFrames
<1>11. WriterInv'
  BY <1>1, WriterKept DEF RecorderInv
<1>12. ResultInv' /\ RotateInv' /\ LossInv'
  BY <1>1, <1>2, <1>6, <1>7, ResultKept, RotateKept, LossKept DEF RecorderInv
<1> QED
  BY <1>5, <1>6, <1>8, <1>9, <1>10, <1>11, <1>12 DEF RecorderInv

-----------------------------------------------------------------------------
(* The steps of the recorder process *)

\* What most of them leave alone.
LEMMA OthersKept ==
  ASSUME TypeInv, UNCHANGED <<producerVars, handleVars, forwarderVars>>
  PROVE  ProducerTypes' /\ ForwarderTypes' /\ HandleTypes'
BY DEF TypeInv, ProducerTypes, ForwarderTypes, HandleTypes

LEMMA CreateEpisodeKeeps == RecorderInv /\ CreateEpisode => RecorderInv'
<1> SUFFICES ASSUME RecorderInv, CreateEpisode PROVE RecorderInv'
  OBVIOUS
<1>1. PICK kind \in {"ready", "error"} :
         /\ status' = PutLatest(status, [kind |-> kind, state |-> "IDLE", status |-> "none", rows |-> FALSE,
                                         episode |-> 0, result |-> FALSE, raised |-> FALSE])
         /\ cpc' = IF kind = "ready" THEN "next" ELSE "ended"
  BY DEF CreateEpisode
<1> DEFINE m == [kind |-> kind, state |-> "IDLE", status |-> "none", rows |-> FALSE, episode |-> 0, result |-> FALSE,
                 raised |-> FALSE]
<1>2. /\ cpc = "create" /\ cpc' \in {"next", "ended"} /\ status' = PutLatest(status, m)
      /\ UNCHANGED <<producerVars, handleVars, forwarderVars, control, cameraQueue, pending, cmd, deferred, inHand, col,
                     writer, episode, left, ahead, leaked>>
  BY <1>1 DEF CreateEpisode
<1>3. m \in Message /\ m.kind \notin {"state", "response"}
  <2>1. 0 \in 0 .. MaxEpisodes
    BY RecorderAssumption
  <2> QED
    BY <2>1 DEF Message, CaptureState, EpisodeStatus
<1> HIDE DEF m
<1>4. status' \in Seq(Message) /\ Len(status') <= StatusSlots /\ Told' \subseteq Told
  <2>1. TypeInv
    BY DEF RecorderInv
  <2>2. status' \in Seq(Message) /\ Len(status') <= StatusSlots /\ Told' \subseteq Told \cup {m}
    BY <1>2, <1>3, <2>1, Reported
  <2>3. \A x \in Told' : x.kind \in {"state", "response"}
    BY DEF Told
  <2> QED
    BY <1>3, <2>2, <2>3
<1>5. TypeInv'
  <2>1. ProducerTypes' /\ ForwarderTypes' /\ HandleTypes'
    BY <1>2, OthersKept DEF RecorderInv
  <2>2. ChannelTypes' /\ RecorderTypes'
    BY <1>2, <1>4 DEF RecorderInv, TypeInv, ChannelTypes, RecorderTypes, Places
  <2> QED
    BY <2>1, <2>2 DEF TypeInv
<1>6. HandInv' /\ GateInv'
  BY <1>2 DEF RecorderInv, HandInv, GateInv, DeferredGoesFirst
<1>7. PendingCountsFrames' /\ AheadInv' /\ WriterInv' /\ OrderInv' /\ (RotateFlies' <=> RotateFlies)
  BY <1>2, CountKept, AheadKept, WriterKept, OrderKept DEF RecorderInv
<1>8. ResultInv' /\ RotateInv' /\ LossInv'
  BY <1>2, <1>4, <1>7, ResultKept, RotateKept, LossKept DEF RecorderInv
<1> QED
  BY <1>5, <1>6, <1>7, <1>8 DEF RecorderInv

LEMMA NextCommandKeeps == RecorderInv /\ NextCommand => RecorderInv'
<1> SUFFICES ASSUME RecorderInv, NextCommand PROVE RecorderInv'
  OBVIOUS
<1>1. /\ cpc = "next"
      /\ UNCHANGED <<producerVars, handleVars, forwarderVars, control, pending, status, col, writer, episode, left,
                     ahead, leaked>>
  BY DEF NextCommand
<1>2. TypeInv /\ inHand = NoRole /\ cmd = NoCommand /\ NoRole \notin Roles /\ Told' = Told
  BY <1>1, RecorderAssumption DEF RecorderInv, HandInv, NoRole, Told
<1>3. cameraQueue \in [Roles -> 0 .. CameraSlots] /\ ahead \in [Roles -> Nat] /\ CameraSlots \in Nat \ {0}
  BY <1>2, RecorderAssumption DEF TypeInv, ChannelTypes
<1>4. ProducerTypes' /\ ForwarderTypes' /\ HandleTypes' /\ WriterInv'
  BY <1>1, <1>2, OthersKept, WriterKept DEF RecorderInv
<1>5. CASE cpc' = "camera"
  <2>1. PICK r \in Roles : /\ cameraQueue[r] > 0 /\ cameraQueue' = [cameraQueue EXCEPT ![r] = @ - 1]
                           /\ inHand' = r /\ UNCHANGED <<cmd, deferred>>
    BY <1>5 DEF NextCommand
  <2>2. TypeInv'
    <3>1. cameraQueue' \in [Roles -> 0 .. CameraSlots]
      BY <1>3, <2>1
    <3> QED
      BY <1>1, <1>2, <1>4, <1>5, <2>1, <3>1 DEF TypeInv, ChannelTypes, RecorderTypes, Places
  <2>3. HandInv'
    BY <1>1, <1>2, <1>5, <2>1 DEF RecorderInv, HandInv
  <2>4. PendingCountsFrames'
    <3>1. QueuedFrames' = QueuedFrames - 1 /\ QueuedFrames \in Nat
      BY <1>2, <2>1, FrameRemoved, Queued
    <3> QED
      BY <1>1, <1>2, <2>1, <3>1 DEF RecorderInv, PendingCountsFrames
  <2>5. AheadInv'
    <3>1. \A s \in Roles : FramesAhead'[s] = FramesAhead[s]
      BY <1>1, <1>2, <1>3, <2>1 DEF FramesAhead
    <3> QED
      BY <1>1, <3>1 DEF RecorderInv, AheadInv
  <2>6. GateInv'
    BY <1>1, <1>2, <1>5, <2>1 DEF RecorderInv, GateInv, DeferredGoesFirst
  <2>7. OrderInv' /\ (RotateFlies' <=> RotateFlies)
    BY <1>1, <2>1, OrderKept DEF RecorderInv
  <2>8. ResultInv' /\ RotateInv' /\ LossInv'
    BY <1>1, <1>2, <2>7, ResultKept, RotateKept, LossKept DEF RecorderInv
  <2> QED
    BY <1>4, <2>2, <2>3, <2>4, <2>5, <2>6, <2>7, <2>8 DEF RecorderInv
<1>6. CASE cpc' # "camera"
  <2>1. /\ UNCHANGED <<cameraQueue, inHand>> /\ cpc' \in {"pass", "take"}
        /\ \/ cpc' = "pass" /\ cmd' = deferred /\ deferred' = NoCommand
           \/ deferred = NoCommand /\ UNCHANGED <<cmd, deferred>>
    BY <1>6 DEF NextCommand
  <2>2. NoCommand \in CommandType /\ NoCommand.kind = "none"
    BY DEF NoCommand, CommandType, Kinds
  <2>3. TypeInv'
    BY <1>1, <1>2, <1>4, <2>1, <2>2 DEF TypeInv, ChannelTypes, RecorderTypes, Places
  <2>4. HandInv'
    BY <1>1, <1>2, <2>1 DEF RecorderInv, HandInv
  <2>5. PendingCountsFrames' /\ AheadInv'
    BY <1>1, <2>1, CountKept, AheadKept DEF RecorderInv
  <2>6. GateInv'
    BY <1>1, <2>1 DEF RecorderInv, GateInv, DeferredGoesFirst
  <2>7. /\ InHands({"rotate"})' <=> InHands({"rotate"})
        /\ InHands(Late)' <=> InHands(Late)
        /\ InHands(Late \cup {"rotate"})' <=> InHands(Late \cup {"rotate"})
    BY <1>2, <2>1, <2>2 DEF InHands, Late
  <2>8. \A K : InQueue(K)' <=> InQueue(K)
    BY <1>1 DEF InQueue
  <2>9. (cmd'.kind = "control" => cmd'.active) /\ (deferred'.kind = "control" => deferred'.active)
    BY <2>1, <2>2 DEF RecorderInv, OrderInv
  <2>10. OrderInv' /\ (RotateFlies' <=> RotateFlies)
    BY <1>1, <2>7, <2>8, <2>9 DEF RecorderInv, OrderInv, RotateFlies
  <2>11. ResultInv' /\ RotateInv' /\ LossInv'
    BY <1>1, <1>2, <2>10, ResultKept, RotateKept, LossKept DEF RecorderInv
  <2> QED
    BY <1>4, <2>3, <2>4, <2>5, <2>6, <2>10, <2>11 DEF RecorderInv
<1> QED
  BY <1>5, <1>6

LEMMA TakeControlKeeps == RecorderInv /\ TakeControl => RecorderInv'
<1> SUFFICES ASSUME RecorderInv, TakeControl PROVE RecorderInv'
  OBVIOUS
<1>1. /\ cpc = "take" /\ cpc' \in {"next", "pass"}
      /\ UNCHANGED <<producerVars, handleVars, forwarderVars, cameraQueue, pending, status, deferred, inHand, col, writer,
                     episode, left, ahead, leaked>>
      /\ \/ cpc' = "next" /\ UNCHANGED <<control, cmd>>
         \/ cpc' = "pass" /\ control # <<>> /\ cmd' = Head(control) /\ control' = Tail(control)
  BY DEF TakeControl
<1>2. TypeInv /\ inHand = NoRole /\ cmd = NoCommand /\ deferred = NoCommand /\ NoCommand.kind = "none" /\ Told' = Told
  BY <1>1 DEF RecorderInv, HandInv, GateInv, DeferredGoesFirst, NoCommand, Told
<1>3. ProducerTypes' /\ ForwarderTypes' /\ HandleTypes' /\ WriterInv' /\ PendingCountsFrames' /\ AheadInv'
  BY <1>1, <1>2, OthersKept, WriterKept, CountKept, AheadKept DEF RecorderInv
<1>4. control \in Seq(CommandType) /\ Len(control) <= ControlSlots
  BY <1>2 DEF TypeInv, ChannelTypes
<1>5. HandInv' /\ GateInv'
  BY <1>1, <1>2 DEF RecorderInv, HandInv, GateInv, DeferredGoesFirst
<1>6. /\ control' \in Seq(CommandType) /\ Len(control') <= ControlSlots /\ cmd' \in CommandType
      /\ OrderInv' /\ (RotateFlies' => RotateFlies)
  <2>1. CASE UNCHANGED <<control, cmd>>
    BY <1>1, <1>2, <1>4, <2>1, OrderKept DEF RecorderInv, TypeInv, RecorderTypes
  <2>2. CASE control # <<>> /\ cmd' = Head(control) /\ control' = Tail(control)
    <3>1. /\ control' \in Seq(CommandType) /\ Len(control') = Len(control) - 1 /\ Len(control) \in Nat \ {0}
          /\ cmd' = control[1] /\ cmd' \in CommandType
          /\ \A i \in 1 .. Len(control') : i + 1 \in 1 .. Len(control) /\ control'[i] = control[i + 1]
      BY <1>4, <2>2
    <3>2. \A K : InQueue(K)' => InQueue(K)
      BY <3>1 DEF InQueue
    <3>3. \A K : cmd'.kind \in K => InQueue(K)
      BY <3>1 DEF InQueue
    <3>4. deferred'.kind = "none"
      BY <1>1, <1>2
    <3>5. InHands({"rotate"})' => InQueue({"rotate"})
      BY <3>3, <3>4 DEF InHands
    <3>6. InHands(Late)' => InQueue(Late)
      BY <3>3, <3>4 DEF InHands, Late
    <3>7. \A i, j \in 1 .. Len(control') :
             control'[i].kind \in Late \cup {"rotate"} /\ control'[j].kind = "rotate" => j <= i
      <4> SUFFICES ASSUME NEW i \in 1 .. Len(control'), NEW j \in 1 .. Len(control'),
                          control'[i].kind \in Late \cup {"rotate"}, control'[j].kind = "rotate"
                   PROVE  j <= i
        OBVIOUS
      <4>1. i + 1 \in 1 .. Len(control) /\ j + 1 \in 1 .. Len(control)
            /\ control[i + 1].kind \in Late \cup {"rotate"} /\ control[j + 1].kind = "rotate"
        BY <3>1
      <4>2. j + 1 <= i + 1
        BY <4>1 DEF RecorderInv, OrderInv
      <4> QED
        BY <3>1, <4>2
    <3>8. InHands(Late \cup {"rotate"})' => ~InQueue({"rotate"})'
      <4> SUFFICES ASSUME InHands(Late \cup {"rotate"})', NEW j \in 1 .. Len(control'), control'[j].kind \in {"rotate"}
                   PROVE  FALSE
        BY DEF InQueue
      <4>1. control[1].kind \in Late \cup {"rotate"}
        BY <3>1, <3>4 DEF InHands, Late
      <4>2. j + 1 \in 1 .. Len(control) /\ control[j + 1].kind = "rotate" /\ 1 \in 1 .. Len(control)
        BY <3>1
      <4>3. j + 1 <= 1
        BY <4>1, <4>2 DEF RecorderInv, OrderInv
      <4> QED
        BY <3>1, <4>3
    <3>9. /\ \A i \in 1 .. Len(control') : control'[i].kind = "control" => control'[i].active
          /\ cmd'.kind = "control" => cmd'.active
      BY <3>1 DEF RecorderInv, OrderInv
    <3>10. phase' \in Looping => ~InQueue(Late)' /\ ~InHands(Late)'
      BY <1>1, <3>2, <3>6 DEF RecorderInv, OrderInv
    <3>11. OrderInv'
      BY <3>4, <3>7, <3>8, <3>9, <3>10 DEF OrderInv
    <3>12. RotateFlies' => RotateFlies
      BY <3>2, <3>5 DEF RotateFlies
    <3>13. Len(control') <= ControlSlots
      BY <1>4, <3>1, RecorderAssumption
    <3> QED
      BY <3>1, <3>11, <3>12, <3>13
  <2> QED
    BY <1>1, <2>1, <2>2
<1>7. TypeInv'
  BY <1>1, <1>2, <1>3, <1>6 DEF TypeInv, ChannelTypes, RecorderTypes, Places
<1>8. ResultInv' /\ RotateInv' /\ LossInv'
  BY <1>1, <1>2, <1>6, ResultKept, RotateKept, LossKept DEF RecorderInv
<1> QED
  BY <1>3, <1>5, <1>6, <1>7, <1>8 DEF RecorderInv

\* The gate: no frame is pending, so none that was sent before is left.
LEMMA PassOrDeferKeeps == RecorderInv /\ LeakInv /\ PassOrDefer => RecorderInv'
<1> SUFFICES ASSUME RecorderInv, LeakInv, PassOrDefer PROVE RecorderInv'
  OBVIOUS
<1>1. /\ cpc = "pass"
      /\ UNCHANGED <<producerVars, handleVars, forwarderVars, control, cameraQueue, pending, status, inHand, col, writer,
                     episode, left, ahead, leaked>>
      /\ \/ pending > 0 /\ cpc' = "next" /\ deferred' = cmd /\ cmd' = NoCommand
         \/ ~(pending > 0) /\ cpc' = "dispatch" /\ UNCHANGED <<cmd, deferred>>
  BY DEF PassOrDefer
<1>2. TypeInv /\ inHand = NoRole /\ deferred = NoCommand /\ NoCommand.kind = "none" /\ Told' = Told
      /\ NoCommand \in CommandType /\ NoRole \notin Roles
  BY <1>1, RecorderAssumption
     DEF RecorderInv, HandInv, GateInv, DeferredGoesFirst, NoCommand, Told, CommandType, Kinds, NoRole
<1>3. ProducerTypes' /\ ForwarderTypes' /\ HandleTypes' /\ WriterInv' /\ PendingCountsFrames' /\ AheadInv'
  BY <1>1, <1>2, OthersKept, WriterKept, CountKept, AheadKept DEF RecorderInv
<1>4. TypeInv'
  BY <1>1, <1>2, <1>3 DEF TypeInv, ChannelTypes, RecorderTypes, Places
<1>5. HandInv'
  BY <1>1, <1>2 DEF RecorderInv, HandInv
<1>6. GateInv'
  <2>1. CASE pending > 0
    BY <1>1, <2>1 DEF GateInv, DeferredGoesFirst
  <2>2. CASE ~(pending > 0)
    <3>1. pending = 0 /\ QueuedFrames \in Nat
      BY <1>2, <2>2, Queued DEF TypeInv, ChannelTypes
    <3>2. QueuedFrames = 0 /\ fpc # "put"
      BY <1>2, <3>1 DEF RecorderInv, PendingCountsFrames, LeakInv
    <3>3. frameRole = NoRole
      BY <3>2 DEF RecorderInv, HandInv
    <3>4. ASSUME NEW r \in Roles PROVE ahead[r] = 0
      <4>1. cameraQueue[r] = 0 /\ ahead[r] \in Nat /\ r # NoRole
        BY <1>2, <3>2, Queued DEF TypeInv, ChannelTypes
      <4>2. FramesAhead[r] = 0
        BY <1>2, <3>3, <4>1 DEF FramesAhead
      <4>3. ahead[r] <= FramesAhead[r]
        BY DEF RecorderInv, AheadInv
      <4> QED
        BY <4>1, <4>2, <4>3
    <3> QED
      BY <1>1, <1>2, <2>2, <3>4 DEF GateInv, DeferredGoesFirst
  <2> QED
    BY <2>1, <2>2
<1>7. /\ InHands({"rotate"})' <=> InHands({"rotate"})
      /\ InHands(Late)' <=> InHands(Late)
      /\ InHands(Late \cup {"rotate"})' <=> InHands(Late \cup {"rotate"})
  BY <1>1, <1>2 DEF InHands, Late
<1>8. \A K : InQueue(K)' <=> InQueue(K)
  BY <1>1 DEF InQueue
<1>9. (cmd'.kind = "control" => cmd'.active) /\ (deferred'.kind = "control" => deferred'.active)
  BY <1>1, <1>2 DEF RecorderInv, OrderInv
<1>10. OrderInv' /\ (RotateFlies' <=> RotateFlies)
  BY <1>1, <1>7, <1>8, <1>9 DEF RecorderInv, OrderInv, RotateFlies
<1>11. ResultInv' /\ RotateInv' /\ LossInv'
  BY <1>1, <1>2, <1>10, ResultKept, RotateKept, LossKept DEF RecorderInv
<1> QED
  BY <1>3, <1>4, <1>5, <1>6, <1>10, <1>11 DEF RecorderInv

LEMMA CrashKeeps == RecorderInv /\ Crash => RecorderInv'
<1> SUFFICES ASSUME RecorderInv, Crash PROVE RecorderInv'
  OBVIOUS
<1> USE DEF Crash
<1>1. TypeInv /\ Told' = Told
  BY DEF RecorderInv, Told
<1>2. ProducerTypes' /\ ForwarderTypes' /\ HandleTypes' /\ WriterInv' /\ PendingCountsFrames' /\ AheadInv'
  BY <1>1, OthersKept, WriterKept, CountKept, AheadKept DEF RecorderInv
<1>3. TypeInv'
  BY <1>1, <1>2 DEF TypeInv, ChannelTypes, RecorderTypes, Places
<1>4. HandInv' /\ GateInv'
  BY DEF RecorderInv, HandInv, GateInv, DeferredGoesFirst
<1>5. OrderInv' /\ (RotateFlies' <=> RotateFlies)
  BY OrderKept DEF RecorderInv
<1>6. ResultInv' /\ RotateInv' /\ LossInv'
  BY <1>1, <1>5, ResultKept, RotateKept, LossKept DEF RecorderInv
<1> QED
  BY <1>2, <1>3, <1>4, <1>5, <1>6 DEF RecorderInv

\* The collector and the writer are sound, whatever the actor.
LEMMA ColSound ==
  ASSUME RecorderInv
  PROVE  /\ Sound(col) /\ col \in Collector /\ writer \in WriterType /\ WriterFits(col, writer)
         /\ episode \in 0 .. MaxEpisodes
         /\ phase \in Looping => ~col.result /\ Judged(col.state, col.status)
BY DEF RecorderInv, TypeInv, RecorderTypes, WriterInv, WriterFits, Sound, LossInv, RotateInv, StreamInv

\* A frame or a sample moves the collector: the writer still fits.
LEMMA MovesFit ==
  ASSUME RecorderInv, NEW d, Moves(col, d)
  PROVE  /\ d \in Collector /\ WriterFits(d, writer) /\ d.result = col.result
         /\ d.state = "FINALIZING" => col.state = "FINALIZING"
         /\ phase \in Looping => Judged(d.state, d.status)
<1>1. /\ Sound(col) /\ col \in Collector /\ WriterFits(col, writer)
      /\ phase \in Looping => Judged(col.state, col.status)
  BY ColSound
<1>2. col.state \in {"IDLE", "ARMING", "REC", "FINALIZING", "DONE"}
  BY <1>1 DEF Collector, CaptureState
<1>3. Sound(d) /\ d \in Collector
  BY DEF Moves, Sound
<1> QED
  BY <1>1, <1>2, <1>3 DEF Moves, Sound, CutOff, WriterFits, Judged

LEMMA DispatchCameraKeeps == RecorderInv /\ LeakInv /\ DispatchCamera => RecorderInv'
<1> SUFFICES ASSUME RecorderInv, LeakInv, DispatchCamera PROVE RecorderInv'
  OBVIOUS
<1>1. /\ cpc = "camera" /\ cpc' = "next"
      /\ \/ /\ \E regressed \in BOOLEAN : col' = IngestCamera(col, regressed, AllWell)
            /\ pending' = pending - 1 /\ leaked' = leaked
         \/ /\ col.state = "REC" /\ col' = Abort(col, FALSE)
            /\ leaked' = leaked + 1 /\ pending' = pending
      /\ inHand' = NoRole
      /\ ahead' = [ahead EXCEPT ![inHand] = IF @ > 0 THEN @ - 1 ELSE @]
      /\ Report("state", col', writer, episode, FALSE)
      /\ UNCHANGED <<producerVars, handleVars, forwarderVars, control, cameraQueue, cmd, deferred, writer, episode, left>>
  BY Zenon DEF DispatchCamera
<1>2. TypeInv /\ inHand \in Roles /\ inHand # NoRole /\ cmd = NoCommand /\ ahead \in [Roles -> Nat]
      /\ cameraQueue \in [Roles -> 0 .. CameraSlots]
  BY <1>1 DEF RecorderInv, TypeInv, HandInv, RecorderTypes, ChannelTypes
<1>3. Moves(col, col')
  BY <1>1, ColSound, CameraMoves, AbortMoves
<1>4. OrderInv' /\ (RotateFlies' <=> RotateFlies)
  BY <1>1, OrderKept DEF RecorderInv
<1>5. status' \in Seq(Message) /\ Len(status') <= StatusSlots /\ WriterInv' /\ ResultInv' /\ RotateInv' /\ LossInv'
  <2>1. Report("state", col', writer', episode', FALSE)
    BY <1>1
  <2>2. /\ col' \in Collector /\ WriterFits(col', writer) /\ col'.result = col.result
        /\ col'.state = "FINALIZING" => col.state = "FINALIZING"
        /\ phase \in Looping => Judged(col'.state, col'.status)
    BY <1>3, MovesFit
  <2>3. writer' \in WriterType /\ WriterFits(col', writer') /\ (phase \in Looping => ~col.result)
    BY <1>1, <2>2, ColSound
  <2> QED
    BY <1>1, <1>4, <2>1, <2>2, <2>3, ReportKeeps
<1>6. PendingCountsFrames' /\ pending' \in Nat
  <2>1. QueuedFrames' = QueuedFrames /\ QueuedFrames \in Nat
    BY <1>1, <1>2, Queued DEF QueuedFrames, FramePlaces
  <2> DEFINE hand == IF fpc = "put" THEN 1 ELSE 0
  <2>2. pending = QueuedFrames + hand + 1 + leaked /\ leaked \in Nat /\ hand \in {0, 1}
    BY <1>2 DEF RecorderInv, PendingCountsFrames, LeakInv
  <2>3. PendingCountsFrames' <=> pending' = QueuedFrames' + hand + 0 + leaked'
    BY <1>1 DEF PendingCountsFrames
  <2>4. \/ pending' = pending - 1 /\ leaked' = leaked
        \/ pending' = pending /\ leaked' = leaked + 1
    BY <1>1
  <2> HIDE DEF hand
  <2> QED
    BY <2>1, <2>2, <2>3, <2>4
<1>7. AheadInv' /\ ahead' \in [Roles -> Nat]
  <2>1. ahead' \in [Roles -> Nat]
    BY <1>1, <1>2
  <2>2. ASSUME NEW r \in Roles PROVE ahead'[r] <= FramesAhead'[r]
    <3> DEFINE other == IF frameRole = r THEN 1 ELSE 0
    <3>1. ahead[r] <= cameraQueue[r] + (IF inHand = r THEN 1 ELSE 0) + other
      BY DEF RecorderInv, AheadInv, FramesAhead
    <3>2. FramesAhead'[r] = cameraQueue[r] + other /\ other \in {0, 1}
      BY <1>1, <1>2, RecorderAssumption DEF FramesAhead, NoRole
    <3>3. ahead'[r] = IF r = inHand /\ ahead[r] > 0 THEN ahead[r] - 1 ELSE ahead[r]
      BY <1>1, <1>2
    <3>4. ahead[r] \in Nat /\ cameraQueue[r] \in Nat
      BY <1>2
    <3> HIDE DEF other
    <3> QED
      BY <3>1, <3>2, <3>3, <3>4
  <2> QED
    BY <2>1, <2>2 DEF AheadInv
<1>8. TypeInv'
  <2>1. ProducerTypes' /\ ForwarderTypes' /\ HandleTypes'
    BY <1>1, <1>2, OthersKept
  <2>2. col' \in Collector
    BY <1>3 DEF Moves, Sound
  <2> QED
    BY <1>1, <1>2, <1>5, <1>6, <1>7, <2>1, <2>2 DEF TypeInv, ChannelTypes, RecorderTypes, Places
<1>9. HandInv' /\ GateInv'
  BY <1>1, <1>2 DEF RecorderInv, HandInv, GateInv, DeferredGoesFirst
<1> QED
  BY <1>4, <1>5, <1>6, <1>7, <1>8, <1>9 DEF RecorderInv

\* A command that leaves the frames and the episode's number alone.
LEMMA Dispatched ==
  ASSUME RecorderInv, cpc = "dispatch", cpc' \in {"next", "ended"}, cmd' = NoCommand,
         UNCHANGED <<producerVars, handleVars, forwarderVars, control, cameraQueue, pending, deferred, inHand, episode,
                     left, ahead, leaked>>,
         (UNCHANGED <<col, status>> /\ writer'.rows = writer.rows /\ phase \notin Looping)
         \/ \E kind \in {"state", "response"}, raised \in BOOLEAN : Report(kind, col', writer', episode', raised),
         col' \in Collector, writer' \in WriterType, WriterFits(col', writer'),
         writer.phase \in Ended => writer'.phase \in Ended, writer.rows => writer'.rows,
         cmd.kind \notin Late \cup {"rotate"} =>
            col'.result = col.result /\ (col'.state = "FINALIZING" => col.state = "FINALIZING"),
         phase \in Looping =>
            /\ ~col'.result /\ Judged(col'.state, col'.status)
            /\ col'.state = "FINALIZING" => col.state = "FINALIZING" \/ RotateFlies
  PROVE  RecorderInv'
<1>1. HandInv' /\ GateInv' /\ OrderInv' /\ (RotateFlies' => RotateFlies /\ cmd.kind \notin Late \cup {"rotate"})
  BY Executed
<1>2. TypeInv
  BY DEF RecorderInv
<1>3. status' \in Seq(Message) /\ Len(status') <= StatusSlots /\ WriterInv' /\ ResultInv' /\ RotateInv' /\ LossInv'
  <2>1. CASE UNCHANGED <<col, status>> /\ writer'.rows = writer.rows /\ phase \notin Looping
    <3>1. Settlement => Settlement'
      BY SettlementKept
    <3>2. Told' = Told
      BY <2>1 DEF Told
    <3>3. ResultInv'
      BY <3>1, <3>2 DEF RecorderInv, ResultInv, RotationSettles
    <3>4. RotateInv' /\ LossInv'
      BY <1>1, <2>1 DEF RecorderInv, RotateInv, LossInv
    <3> QED
      BY <1>2, <2>1, <3>3, <3>4 DEF WriterInv, TypeInv, ChannelTypes
  <2>2. CASE \E kind \in {"state", "response"}, raised \in BOOLEAN : Report(kind, col', writer', episode', raised)
    BY <1>1, <2>2, ReportKeeps
  <2> QED
    BY <2>1, <2>2
<1>4. PendingCountsFrames' /\ AheadInv'
  BY CountKept, AheadKept DEF RecorderInv
<1>5. TypeInv'
  <2>1. ProducerTypes' /\ ForwarderTypes' /\ HandleTypes'
    BY <1>2, OthersKept
  <2>2. NoCommand \in CommandType
    BY DEF NoCommand, CommandType, Kinds
  <2> QED
    BY <1>2, <1>3, <2>1, <2>2 DEF TypeInv, ChannelTypes, RecorderTypes, Places
<1> QED
  BY <1>1, <1>3, <1>4, <1>5 DEF RecorderInv

LEMMA DispatchControlKeeps == RecorderInv /\ DispatchControl => RecorderInv'
<1> SUFFICES ASSUME RecorderInv, DispatchControl PROVE RecorderInv'
  OBVIOUS
<1>1. PICK sw \in OneAnomaly(cmd.active) :
         /\ col' = IngestControl(col, sw[1], sw[2])
         /\ writer' = [phase |-> IF CallsBegin(col, sw[1]) /\ sw[2].begin = "ok" THEN "open" ELSE writer.phase,
                       rows |-> writer.rows \/ (CallsRow(col, sw[1], sw[2]) /\ sw[2].row = "ok")]
  BY Zenon DEF DispatchControl
<1>2. /\ cpc = "dispatch" /\ cpc' = "next" /\ cmd' = NoCommand /\ cmd.kind = "control"
      /\ Report("state", col', writer', episode, FALSE)
      /\ UNCHANGED <<producerVars, handleVars, forwarderVars, control, cameraQueue, pending, deferred, inHand, episode,
                     left, ahead, leaked>>
  BY Zenon DEF DispatchControl, Idling
<1>3. sw[1].active = TRUE
  <2>1. cmd.active = TRUE
    BY <1>2 DEF RecorderInv, OrderInv, TypeInv, RecorderTypes, CommandType
  <2> QED
    BY <2>1, SampleIntent
<1>4. /\ Sound(col) /\ col \in Collector /\ writer \in WriterType /\ WriterFits(col, writer)
      /\ phase \in Looping => ~col.result
  BY ColSound
<1> DEFINE begun == CallsBegin(col, sw[1]) /\ sw[2].begin = "ok"
           wrote == CallsRow(col, sw[1], sw[2]) /\ sw[2].row = "ok"
<1>5. Moves(col, col') /\ (begun => col'.state = "REC" \/ CutOff(col'))
  BY <1>1, <1>3, <1>4, ControlMoves
<1>6. /\ col' \in Collector /\ WriterFits(col', writer) /\ col'.result = col.result
      /\ col'.state = "FINALIZING" => col.state = "FINALIZING"
      /\ phase \in Looping => Judged(col'.state, col'.status)
  BY <1>5, MovesFit
<1>7. begun => col.state \in {"IDLE", "ARMING"}
  BY DEF CallsBegin
<1>8. wrote => begun \/ col.state = "REC"
  BY DEF CallsRow
<1>9. wrote => col'.state = "REC" \/ CutOff(col')
  BY <1>5, <1>8 DEF Moves
<1>10. writer'.phase = (IF begun THEN "open" ELSE writer.phase) /\ writer'.rows = (writer.rows \/ wrote)
       /\ writer' \in WriterType
  <2> HIDE DEF begun, wrote
  <2>1. (writer.rows \/ wrote) \in BOOLEAN
    OBVIOUS
  <2>2. (IF begun THEN "open" ELSE writer.phase) \in Settled \cup {"new", "open"}
    BY <1>4 DEF WriterType
  <2>3. writer' = [phase |-> IF begun THEN "open" ELSE writer.phase, rows |-> writer.rows \/ wrote]
    BY <1>1 DEF begun, wrote
  <2> QED
    BY <2>1, <2>2, <2>3 DEF WriterType
<1> HIDE DEF begun, wrote
<1>11. writer.phase \in Ended => ~begun
  BY <1>4, <1>7 DEF WriterFits
<1>12. begun => ~col.result
  BY <1>4, <1>7 DEF WriterFits
<1>13. WriterFits(col', writer')
  BY <1>5, <1>6, <1>9, <1>10, <1>11, <1>12 DEF WriterFits, CutOff, Ended
<1>14. \E kind \in {"state", "response"}, raised \in BOOLEAN : Report(kind, col', writer', episode', raised)
  <2>1. Report("state", col', writer', episode', FALSE)
    BY <1>2
  <2> QED
    BY <2>1
<1> QED
  BY <1>2, <1>4, <1>6, <1>10, <1>11, <1>13, <1>14, Dispatched

LEMMA DispatchFlushKeeps == RecorderInv /\ LeakInv /\ DispatchFlush => RecorderInv'
<1> SUFFICES ASSUME RecorderInv, LeakInv, DispatchFlush PROVE RecorderInv'
  OBVIOUS
<1>1. /\ cpc = "dispatch" /\ cpc' = "next" /\ cmd' = NoCommand /\ cmd.kind = "flush_camera"
      /\ \/ /\ col' \in (IF QueuedFrames = 0 THEN {col} ELSE {IngestCamera(col, x, AllWell) : x \in BOOLEAN})
            /\ cameraQueue' = [r \in Roles |-> 0]
            /\ pending' = pending - QueuedFrames /\ leaked' = leaked
         \/ /\ col' = col
            /\ cameraQueue' \in [Roles -> 0 .. CameraSlots] /\ (\A r \in Roles : cameraQueue'[r] <= cameraQueue[r])
            /\ pending' = pending - QueuedFrames + QueuedFrames' + 1 /\ leaked' = leaked + 1
      /\ ahead' = [r \in Roles |-> Max({0, ahead[r] + cameraQueue'[r] - cameraQueue[r]})]
      /\ Report("state", col', writer, episode, FALSE)
      /\ UNCHANGED <<producerVars, handleVars, forwarderVars, control, deferred, inHand, writer, episode, left>>
  BY DEF DispatchFlush, Idling
<1>2. TypeInv /\ ahead \in [Roles -> Nat] /\ cameraQueue \in [Roles -> 0 .. CameraSlots] /\ CameraSlots \in Nat \ {0}
  BY RecorderAssumption DEF RecorderInv, TypeInv, ChannelTypes
<1>3. Moves(col, col')
  <2>1. Moves(col, col)
    BY ColSound DEF Moves, Sound, Collector, CaptureState
  <2> QED
    BY <1>1, <2>1, ColSound, CameraMoves
<1>4. HandInv' /\ OrderInv' /\ (RotateFlies' => RotateFlies)
  <2>1. OrderInv' /\ (RotateFlies' => RotateFlies)
    <3>1. \A K : InQueue(K)' <=> InQueue(K)
      BY <1>1 DEF InQueue
    <3>2. deferred = NoCommand /\ NoCommand.kind = "none"
      BY <1>1, HandsEmpty DEF NoCommand
    <3>3. ~InHands({"rotate"})' /\ ~InHands(Late)' /\ ~InHands(Late \cup {"rotate"})'
      BY <1>1, <3>2 DEF InHands, Late
    <3>4. (cmd'.kind = "control" => cmd'.active) /\ (deferred'.kind = "control" => deferred'.active)
      BY <1>1, <3>2
    <3> QED
      BY <1>1, <3>1, <3>3, <3>4 DEF RecorderInv, OrderInv, RotateFlies
  <2>2. HandInv'
    BY <1>1, HandsEmpty DEF RecorderInv, HandInv
  <2> QED
    BY <2>1, <2>2
<1>5. status' \in Seq(Message) /\ Len(status') <= StatusSlots /\ WriterInv' /\ ResultInv' /\ RotateInv' /\ LossInv'
  <2>1. Report("state", col', writer', episode', FALSE)
    BY <1>1
  <2>2. /\ col' \in Collector /\ WriterFits(col', writer) /\ col'.result = col.result
        /\ col'.state = "FINALIZING" => col.state = "FINALIZING"
        /\ phase \in Looping => Judged(col'.state, col'.status)
    BY <1>3, MovesFit
  <2>3. writer' \in WriterType /\ WriterFits(col', writer') /\ (phase \in Looping => ~col.result)
    BY <1>1, <2>2, ColSound
  <2> QED
    BY <1>1, <1>4, <2>1, <2>2, <2>3, ReportKeeps
<1>6. /\ cameraQueue' \in [Roles -> 0 .. CameraSlots] /\ ahead' \in [Roles -> Nat]
      /\ \A r \in Roles :
            /\ cameraQueue'[r] <= cameraQueue[r]
            /\ ahead'[r] = IF ahead[r] + cameraQueue'[r] > cameraQueue[r]
                          THEN ahead[r] + cameraQueue'[r] - cameraQueue[r] ELSE 0
  <2>1. cameraQueue' \in [Roles -> 0 .. CameraSlots] /\ \A r \in Roles : cameraQueue'[r] <= cameraQueue[r]
    BY <1>1, <1>2
  <2>2. ASSUME NEW r \in Roles
        PROVE  ahead'[r] = IF ahead[r] + cameraQueue'[r] > cameraQueue[r]
                           THEN ahead[r] + cameraQueue'[r] - cameraQueue[r] ELSE 0
    <3>1. ahead[r] \in Nat /\ cameraQueue[r] \in Nat /\ cameraQueue'[r] \in Nat
      BY <1>2, <2>1
    <3>2. Max({0, ahead[r] + cameraQueue'[r] - cameraQueue[r]})
            = IF ahead[r] + cameraQueue'[r] - cameraQueue[r] > 0 THEN ahead[r] + cameraQueue'[r] - cameraQueue[r] ELSE 0
      BY <3>1, MaxWithZero
    <3>3. ahead'[r] = Max({0, ahead[r] + cameraQueue'[r] - cameraQueue[r]})
      BY <1>1
    <3> QED
      BY <3>1, <3>2, <3>3
  <2>3. ASSUME NEW r \in Roles PROVE ahead'[r] \in Nat
    BY <1>2, <2>1, <2>2
  <2>4. ahead' = [r \in Roles |-> ahead'[r]]
    BY <1>1
  <2>5. ahead' \in [Roles -> Nat]
    BY <2>3, <2>4
  <2> QED
    BY <2>1, <2>2, <2>5
<1>7. PendingCountsFrames' /\ pending' \in Nat
  <2> DEFINE putting == IF fpc = "put" THEN 1 ELSE 0
             holding == IF inHand # NoRole THEN 1 ELSE 0
             queued == QueuedFrames'
  <2>1. /\ pending = QueuedFrames + putting + holding + leaked
        /\ QueuedFrames \in Nat /\ leaked \in Nat /\ putting \in {0, 1} /\ holding \in {0, 1}
    BY <1>2, Queued DEF RecorderInv, PendingCountsFrames, LeakInv
  <2>2. PendingCountsFrames' <=> pending' = queued + putting + holding + leaked'
    BY <1>1 DEF PendingCountsFrames
  <2>3. queued \in Nat
    BY <1>6, QueuedNext
  <2>4. CASE cameraQueue' = [r \in Roles |-> 0] /\ pending' = pending - QueuedFrames /\ leaked' = leaked
    <3>1. FramePlaces' = {}
      BY <1>2, <2>4 DEF FramePlaces
    <3>2. queued = 0
      BY <3>1, FS_EmptySet DEF QueuedFrames
    <3> HIDE DEF putting, holding, queued
    <3> QED
      BY <2>1, <2>2, <2>4, <3>2
  <2>5. CASE pending' = pending - QueuedFrames + queued + 1 /\ leaked' = leaked + 1
    <3> HIDE DEF putting, holding, queued
    <3> QED
      BY <2>1, <2>2, <2>3, <2>5
  <2> QED
    BY <1>1, <2>4, <2>5
<1>8. AheadInv'
  <2>1. ASSUME NEW r \in Roles PROVE ahead'[r] <= FramesAhead'[r]
    <3> DEFINE hand == IF inHand = r THEN 1 ELSE 0
               other == IF frameRole = r THEN 1 ELSE 0
    <3>1. ahead[r] <= cameraQueue[r] + hand + other
      BY DEF RecorderInv, AheadInv, FramesAhead
    <3>2. FramesAhead'[r] = cameraQueue'[r] + hand + other /\ other \in {0, 1} /\ hand \in {0, 1}
      BY <1>1 DEF FramesAhead
    <3>3. ahead'[r] = IF ahead[r] + cameraQueue'[r] > cameraQueue[r]
                      THEN ahead[r] + cameraQueue'[r] - cameraQueue[r] ELSE 0
      BY <1>6
    <3>4. ahead[r] \in Nat /\ cameraQueue[r] \in Nat /\ cameraQueue'[r] \in Nat
      BY <1>2, <1>6
    <3> HIDE DEF other, hand
    <3> QED
      BY <3>1, <3>2, <3>3, <3>4
  <2> QED
    BY <2>1 DEF AheadInv
<1>9. GateInv'
  BY <1>1, HandsEmpty DEF GateInv, DeferredGoesFirst
<1>10. TypeInv'
  <2>1. ProducerTypes' /\ ForwarderTypes' /\ HandleTypes'
    BY <1>1, <1>2, OthersKept
  <2>2. col' \in Collector /\ NoCommand \in CommandType
    BY <1>3 DEF Moves, Sound, NoCommand, CommandType, Kinds
  <2> QED
    BY <1>1, <1>2, <1>5, <1>6, <1>7, <2>1, <2>2 DEF TypeInv, ChannelTypes, RecorderTypes, Places
<1> QED
  BY <1>4, <1>5, <1>7, <1>8, <1>9, <1>10 DEF RecorderInv

\* The calls that end an episode, with the closing of an idle writer.
LEMMA EndsFit ==
  ASSUME NEW c, Sound(c), NEW w \in WriterType, WriterFits(c, w)
  PROVE  /\ Finish(c) \in Collector /\ WriterFits(Finish(c), CloseIdle(c, w)) /\ Finish(c).result = c.result
         /\ Shutdown(c) \in Collector /\ WriterFits(Shutdown(c), CloseIdle(c, w))
         /\ DiscardCurrent(c) \in Collector /\ WriterFits(DiscardCurrent(c), w) /\ DiscardCurrent(c).state = "DONE"
         /\ Finish(c).state = "DONE"
<1>1. c \in Collector /\ c.state \in {"IDLE", "ARMING", "REC", "FINALIZING", "DONE"}
  BY DEF Sound, Collector, CaptureState
<1> DEFINE a == Abort(c, FALSE)
           v == CloseIdle(c, w)
           idle1 == [c EXCEPT !.state = "DONE"]
           done(todo, verdict) == [c EXCEPT !.state = "DONE", !.deferred = todo, !.status = verdict]
<1>2. /\ a \in Collector /\ a.result = c.result /\ a.state = "DONE"
      /\ c.state \in {"REC", "FINALIZING"} => a.deferred = "abort"
      /\ c.state = "DONE" => a = c
  <2>1. Moves(c, a) /\ (c.state \in {"REC", "FINALIZING"} => CutOff(a)) /\ (c.state # "DONE" => a.state = "DONE")
    <3>1. FALSE \in BOOLEAN
      OBVIOUS
    <3> QED
      BY <3>1, AbortMoves
  <2> HIDE DEF a
  <2> QED
    BY <2>1 DEF Moves, Sound, CutOff
<1>3. /\ v \in WriterType /\ v.rows = w.rows /\ (v.phase \in Ended <=> w.phase \in Ended) /\ WriterFits(c, v)
      /\ c.state = "IDLE" => ~w.rows /\ ~c.result /\ c.deferred = "none"
  BY <1>1, Closing
<1>4. idle1 \in Collector /\ idle1.state = "DONE" /\ idle1.deferred = c.deferred /\ idle1.result = c.result
  BY <1>1 DEF Collector, CaptureState
<1>5. ASSUME NEW todo \in {"none", "reject", "finish", "discard", "abort"}, NEW verdict \in {"COMPLETED", "INVALID"}
      PROVE  /\ done(todo, verdict) \in Collector /\ done(todo, verdict).state = "DONE"
             /\ done(todo, verdict).deferred = todo /\ done(todo, verdict).result = c.result
  BY <1>1 DEF Collector, CaptureState, EpisodeStatus
<1>6. /\ Shutdown(c) = IF c.state = "IDLE" THEN idle1 ELSE a
      /\ Finish(c) = IF c.state = "DONE" THEN c ELSE IF c.state # "REC" THEN Shutdown(c) ELSE done("finish", "COMPLETED")
      /\ DiscardCurrent(c) = IF c.state = "DONE" THEN c
                             ELSE done(IF c.state \in {"IDLE", "ARMING"} THEN "reject" ELSE "discard", "INVALID")
  BY Zenon DEF Shutdown, Finish, DiscardCurrent, Done
<1> HIDE DEF a, v, idle1, done
<1>7. Shutdown(c) \in Collector /\ Shutdown(c).result = c.result /\ Shutdown(c).state = "DONE"
      /\ WriterFits(Shutdown(c), v)
  <2>1. CASE c.state = "IDLE"
    BY <1>3, <1>4, <1>6, <2>1 DEF WriterFits
  <2>2. CASE c.state # "IDLE"
    BY <1>1, <1>2, <1>3, <1>6, <2>2 DEF WriterFits
  <2> QED
    BY <2>1, <2>2
<1>8. Finish(c) \in Collector /\ Finish(c).result = c.result /\ Finish(c).state = "DONE" /\ WriterFits(Finish(c), v)
  <2>1. CASE c.state = "REC"
    BY <1>3, <1>5, <1>6, <2>1 DEF WriterFits
  <2>2. CASE c.state # "REC"
    BY <1>1, <1>3, <1>6, <1>7, <2>2
  <2> QED
    BY <2>1, <2>2
<1>9. DiscardCurrent(c) \in Collector /\ WriterFits(DiscardCurrent(c), w) /\ DiscardCurrent(c).state = "DONE"
  <2>1. CASE c.state = "DONE"
    BY <1>1, <1>6, <2>1
  <2>2. CASE c.state \in {"IDLE", "ARMING"}
    <3>1. DiscardCurrent(c) = done("reject", "INVALID")
      BY <1>6, <2>2
    <3> QED
      BY <1>5, <2>2, <3>1 DEF WriterFits
  <2>3. CASE c.state \in {"REC", "FINALIZING"}
    <3>1. DiscardCurrent(c) = done("discard", "INVALID")
      BY <1>6, <2>3
    <3> QED
      BY <1>5, <2>3, <3>1 DEF WriterFits
  <2> QED
    BY <1>1, <2>1, <2>2, <2>3
<1> QED
  BY <1>7, <1>8, <1>9 DEF v

LEMMA DispatchEndKeeps == RecorderInv /\ DispatchEnd => RecorderInv'
<1> SUFFICES ASSUME RecorderInv, DispatchEnd PROVE RecorderInv'
  OBVIOUS
<1>1. PICK raised \in BOOLEAN :
          IF cmd.kind = "shutdown" /\ col.state = "DONE"
          THEN /\ raised => PendingCall(col) # "none"
               /\ col' = FinalizePending(col, raised) /\ writer' = Settle(col, writer, raised)
               /\ Report("state", col', writer', episode, raised)
          ELSE /\ ~raised
               /\ col' = CASE cmd.kind = "finish" -> Finish(col)
                           [] cmd.kind = "abort" -> Abort(col, FALSE)
                           [] OTHER -> Shutdown(col)
               /\ writer' = IF cmd.kind = "abort" THEN writer ELSE CloseIdle(col, writer)
               /\ Report("state", col', writer', episode, FALSE)
  BY Zenon DEF DispatchEnd
<1>2. /\ cpc = "dispatch" /\ cpc' = "next" /\ cmd' = NoCommand /\ cmd.kind \in {"finish", "abort", "shutdown"}
      /\ UNCHANGED <<producerVars, handleVars, forwarderVars, control, cameraQueue, pending, deferred, inHand, episode,
                     left, ahead, leaked>>
  BY Zenon DEF DispatchEnd, Idling
<1>3. /\ Sound(col) /\ col \in Collector /\ writer \in WriterType /\ WriterFits(col, writer)
      /\ phase \in Looping => ~col.result
  BY ColSound
<1>4. cmd.kind # "abort" => cmd.kind \in Late /\ phase \notin Looping
  BY <1>2 DEF Late, RecorderInv, OrderInv, InHands
<1>5. \E kind \in {"state", "response"}, b \in BOOLEAN : Report(kind, col', writer', episode', b)
  <2>1. \E b \in BOOLEAN : Report("state", col', writer', episode', b)
    BY <1>1, <1>2
  <2> QED
    BY <2>1
<1>6. CASE cmd.kind = "shutdown" /\ col.state = "DONE"
  <2>1. /\ raised => PendingCall(col) # "none"
        /\ col' = FinalizePending(col, raised) /\ writer' = Settle(col, writer, raised)
    BY <1>1, <1>6
  <2>2. /\ col' \in Collector /\ writer' \in WriterType /\ WriterFits(col', writer') /\ writer'.rows = writer.rows
        /\ writer.phase \in Ended => writer'.phase \in Ended
    BY <1>3, <2>1, Settling
  <2> QED
    BY <1>2, <1>4, <1>5, <1>6, <2>2, Dispatched
<1>7. CASE cmd.kind = "abort"
  <2>1. col' = Abort(col, FALSE) /\ writer' = writer
    BY <1>1, <1>7
  <2>2. Moves(col, col')
    BY <1>3, <2>1, AbortMoves
  <2>3. /\ col' \in Collector /\ WriterFits(col', writer) /\ col'.result = col.result
        /\ col'.state = "FINALIZING" => col.state = "FINALIZING"
        /\ phase \in Looping => Judged(col'.state, col'.status)
    BY <2>2, MovesFit
  <2> QED
    BY <1>2, <1>3, <1>5, <2>1, <2>3, Dispatched
<1>8. CASE cmd.kind # "abort" /\ ~(cmd.kind = "shutdown" /\ col.state = "DONE")
  <2>1. col' \in {Finish(col), Shutdown(col)} /\ writer' = CloseIdle(col, writer)
    BY <1>1, <1>8
  <2>2. /\ Finish(col) \in Collector /\ WriterFits(Finish(col), CloseIdle(col, writer))
        /\ Shutdown(col) \in Collector /\ WriterFits(Shutdown(col), CloseIdle(col, writer))
    BY <1>3, EndsFit
  <2>3. /\ writer' \in WriterType /\ writer'.rows = writer.rows
        /\ writer.phase \in Ended => writer'.phase \in Ended
    BY <1>3, <2>1, Closing
  <2>4. col' \in Collector /\ WriterFits(col', writer')
    BY <2>1, <2>2
  <2> QED
    BY <1>2, <1>4, <1>5, <1>8, <2>3, <2>4, Dispatched
<1> QED
  BY <1>6, <1>7, <1>8

LEMMA DispatchDiscardKeeps == RecorderInv /\ DispatchDiscard => RecorderInv'
<1> SUFFICES ASSUME RecorderInv, DispatchDiscard PROVE RecorderInv'
  OBVIOUS
<1> DEFINE c == DiscardCurrent(col)
<1>1. PICK raised \in BOOLEAN :
          /\ raised => PendingCall(c) # "none"
          /\ col' = FinalizePending(c, raised) /\ writer' = Settle(c, writer, raised)
          /\ Report("state", col', writer', episode, raised)
  BY Zenon DEF DispatchDiscard
<1>2. /\ cpc = "dispatch" /\ cpc' = "next" /\ cmd' = NoCommand /\ cmd.kind = "discard_current"
      /\ UNCHANGED <<producerVars, handleVars, forwarderVars, control, cameraQueue, pending, deferred, inHand, episode,
                     left, ahead, leaked>>
  BY Zenon DEF DispatchDiscard, Idling
<1>3. cmd.kind \in Late /\ phase \notin Looping
  BY <1>2 DEF Late, RecorderInv, OrderInv, InHands
<1>4. c \in Collector /\ WriterFits(c, writer) /\ writer \in WriterType
  BY ColSound, EndsFit
<1> HIDE DEF c
<1>5. /\ col' \in Collector /\ writer' \in WriterType /\ WriterFits(col', writer') /\ writer'.rows = writer.rows
      /\ writer.phase \in Ended => writer'.phase \in Ended
  BY <1>1, <1>4, Settling
<1>6. \E kind \in {"state", "response"}, b \in BOOLEAN : Report(kind, col', writer', episode', b)
  <2>1. Report("state", col', writer', episode', raised)
    BY <1>1, <1>2
  <2> QED
    BY <2>1
<1> QED
  BY <1>2, <1>3, <1>5, <1>6, Dispatched

\* The episode that is left behind has rows, so there is something to settle.
LEMMA DispatchRotateKeeps == RecorderInv /\ DispatchRotate => RecorderInv'
<1> SUFFICES ASSUME RecorderInv, DispatchRotate PROVE RecorderInv'
  OBVIOUS
<1> DEFINE c == IF col.state = "REC" THEN Finish(col) ELSE col
<1>1. PICK raised \in BOOLEAN :
          /\ raised => PendingCall(c) # "none"
          /\ IF raised
             THEN /\ col' = FinalizePending(c, TRUE) /\ UNCHANGED <<writer, episode, left>>
             ELSE /\ left' = left \cup {Settle(c, CloseIdle(col, writer), FALSE).phase}
                  /\ col' = NewCollector /\ writer' = NewWriter /\ episode' = episode + 1
          /\ Report("state", col', writer', episode', raised)
  BY Zenon DEF DispatchRotate
<1>2. /\ cpc = "dispatch" /\ cpc' = "next" /\ cmd' = NoCommand /\ cmd.kind = "rotate"
      /\ UNCHANGED <<producerVars, handleVars, forwarderVars, control, cameraQueue, pending, deferred, inHand, ahead,
                     leaked>>
  BY Zenon DEF DispatchRotate, Idling
<1>3. /\ Sound(col) /\ col \in Collector /\ writer \in WriterType /\ WriterFits(col, writer)
      /\ episode \in 0 .. MaxEpisodes /\ MaxEpisodes \in Nat
  BY ColSound, RecorderAssumption
<1>4. RotateFlies /\ rotating /\ episode < MaxEpisodes /\ writer.rows /\ ~col.result /\ col.state # "FINALIZING"
  BY <1>2, HandsEmpty DEF RecorderInv, RotateInv
<1>5. phase \in Looping => StreamInv /\ NotRotated
  BY <1>4 DEF RecorderInv, RotateInv, StreamInv
<1>6. c \in Collector /\ WriterFits(c, writer) /\ c.state = "DONE" /\ c.result = col.result
      /\ CloseIdle(col, writer) = writer
  <2>1. col.state \in {"REC", "DONE"}
    BY <1>3, <1>4 DEF WriterFits
  <2>2. CloseIdle(col, writer) = writer
    BY <2>1 DEF CloseIdle
  <2>3. /\ Finish(col) \in Collector /\ WriterFits(Finish(col), writer) /\ Finish(col).state = "DONE"
        /\ Finish(col).result = col.result
    BY <1>3, <2>2, EndsFit
  <2> QED
    BY <1>3, <2>1, <2>2, <2>3
<1>7. c.deferred \in {"finish", "abort", "discard"} /\ PendingCall(c) = c.deferred
  BY <1>3, <1>4, <1>6 DEF WriterFits, PendingCall
<1> HIDE DEF c
<1>8. CASE raised
  <2>1. col' = FinalizePending(c, TRUE) /\ UNCHANGED <<writer, episode, left>>
    BY <1>1, <1>8
  <2>2. col' = [c EXCEPT !.deferred = "none", !.result = FALSE, !.state = "FINALIZING"]
    BY <1>7, <2>1 DEF FinalizePending
  <2>3. col' \in Collector /\ col'.state = "FINALIZING" /\ col'.result = FALSE /\ col'.deferred = "none"
    BY <1>6, <2>2 DEF Collector, CaptureState
  <2>4. WriterFits(col', writer)
    BY <1>3, <1>4, <2>3 DEF WriterFits
  <2>5. \E kind \in {"state", "response"}, b \in BOOLEAN : Report(kind, col', writer', episode', b)
    <3>1. Report("state", col', writer', episode', TRUE)
      BY <1>1, <1>8
    <3> QED
      BY <3>1
  <2> QED
    BY <1>2, <1>3, <1>4, <2>1, <2>3, <2>4, <2>5, Dispatched DEF Judged
<1>9. CASE ~raised
  <2>1. /\ left' = left \cup {Settle(c, writer, FALSE).phase}
        /\ col' = NewCollector /\ writer' = NewWriter /\ episode' = episode + 1
        /\ Report("state", col', writer', episode', FALSE)
    BY <1>1, <1>6, <1>9
  <2>2. /\ col' \in Collector /\ col'.state = "IDLE" /\ col'.deferred = "none" /\ col'.result = FALSE
        /\ col'.status = "none"
    BY <2>1, CollectorAssumption DEF NewCollector, Collector, CaptureState, EpisodeStatus
  <2>3. writer' \in WriterType /\ writer'.rows = FALSE /\ writer'.phase = "new"
    BY <2>1 DEF NewWriter, WriterType
  <2>4. Settle(c, writer, FALSE).phase \in Ended
    BY <1>3, <1>7 DEF Settle, Ended, WriterType
  <2>5. episode' \in 0 .. MaxEpisodes /\ episode' # episode
    BY <1>3, <1>4, <2>1
  <2> DEFINE m == [kind |-> "state", state |-> col'.state, status |-> col'.status, rows |-> writer'.rows,
                   episode |-> episode', result |-> col'.result, raised |-> FALSE]
  <2>6. m \in Message
    BY <2>2, <2>3, <2>5 DEF Message, Collector
  <2>7. status' = PutLatest(status, m)
    BY <2>1, Zenon DEF Report
  <2>8. m.rows = FALSE /\ m.episode = episode' /\ m.result = FALSE /\ m.state = "IDLE"
    BY <2>2, <2>3
  <2> HIDE DEF m
  <2>9. status' \in Seq(Message) /\ Len(status') <= StatusSlots /\ Told' \subseteq Told \cup {m}
    BY <2>6, <2>7, Reported DEF RecorderInv
  <2>10. HandInv' /\ GateInv' /\ OrderInv' /\ ~RotateFlies'
    BY <1>2, Executed DEF Late
  <2>11. WriterInv'
    BY <2>2, <2>3 DEF WriterInv, WriterFits, Ended
  <2>12. ResultInv'
    <3>1. Settlement'
      BY <2>1, <2>4 DEF Settlement
    <3>2. left' \subseteq Settled
      BY <2>1, <2>4 DEF RecorderInv, ResultInv, RotationSettles, Ended, Settled
    <3> QED
      BY <3>1, <3>2 DEF ResultInv, RotationSettles
  <2>13. RotateInv'
    <3>1. ASSUME phase \in Looping PROVE StreamInv'
      <4>1. proxy' = proxy /\ rotating' = rotating /\ latest' = latest /\ proxy.rows /\ proxy.episode = episode
        BY <1>2, <1>5, <3>1 DEF NotRotated
      <4>2. \A x \in Told' : (x.rows /\ x.episode = episode) \/ (~x.rows /\ x.episode = episode')
        BY <1>5, <2>8, <2>9, <3>1 DEF NotRotated
      <4>3. latest # <<>> => latest[1].rows = proxy.rows /\ latest[1].episode = proxy.episode
        BY <1>5, <3>1 DEF StreamInv
      <4>4. /\ ~col'.result /\ col'.state # "FINALIZING"
            /\ proxy'.episode # episode' /\ proxy'.rows /\ rotating'
            /\ \A x \in Told' : x.episode = episode' /\ x.rows => writer'.rows
            /\ \A x \in Told' : x.episode = episode' \/ x.rows
        BY <1>4, <2>2, <2>5, <4>1, <4>2
      <4> QED
        BY <2>10, <4>1, <4>3, <4>4 DEF StreamInv
    <3> QED
      BY <1>2, <2>10, <3>1 DEF RotateInv
  <2>14. LossInv'
    BY <1>2, <2>2, <2>8, <2>9 DEF RecorderInv, LossInv, Judged
  <2>15. PendingCountsFrames' /\ AheadInv'
    BY <1>2, CountKept, AheadKept DEF RecorderInv
  <2>16. TypeInv'
    <3>1. ProducerTypes' /\ ForwarderTypes' /\ HandleTypes'
      BY <1>2, OthersKept DEF RecorderInv
    <3>2. NoCommand \in CommandType
      BY DEF NoCommand, CommandType, Kinds
    <3> QED
      BY <1>2, <2>2, <2>3, <2>5, <2>9, <3>1, <3>2 DEF RecorderInv, TypeInv, ChannelTypes, RecorderTypes, Places
  <2> QED
    BY <2>10, <2>11, <2>12, <2>13, <2>14, <2>15, <2>16 DEF RecorderInv
<1> QED
  BY <1>8, <1>9

LEMMA DispatchLastKeeps == RecorderInv /\ DispatchLast => RecorderInv'
<1> SUFFICES ASSUME RecorderInv, DispatchLast PROVE RecorderInv'
  OBVIOUS
<1>1. PICK raised \in BOOLEAN :
          IF cmd.kind = "stop" THEN ~raised /\ writer' = CloseIdle(col, writer) /\ UNCHANGED <<col, status>>
          ELSE /\ raised => PendingCall(col) # "none"
               /\ col' = FinalizePending(col, raised) /\ writer' = CloseIdle(col, Settle(col, writer, raised))
               /\ Report("response", col', writer', episode, raised)
  BY Zenon DEF DispatchLast
<1>2. /\ cpc = "dispatch" /\ cpc' = "ended" /\ cmd' = NoCommand /\ cmd.kind \in {"finalize_pending", "stop"}
      /\ UNCHANGED <<producerVars, handleVars, forwarderVars, control, cameraQueue, pending, deferred, inHand, episode,
                     left, ahead, leaked>>
  BY Zenon DEF DispatchLast
<1>3. cmd.kind \in Late /\ phase \notin Looping
  BY <1>2 DEF Late, RecorderInv, OrderInv, InHands
<1>4. Sound(col) /\ col \in Collector /\ writer \in WriterType /\ WriterFits(col, writer)
  BY ColSound
<1>5. CASE cmd.kind = "stop"
  <2>1. writer' = CloseIdle(col, writer) /\ UNCHANGED <<col, status>>
    BY <1>1, <1>5
  <2>2. /\ writer' \in WriterType /\ writer'.rows = writer.rows /\ WriterFits(col, writer')
        /\ writer.phase \in Ended => writer'.phase \in Ended
    BY <1>4, <2>1, Closing
  <2> QED
    BY <1>2, <1>3, <1>4, <2>1, <2>2, Dispatched
<1>6. CASE cmd.kind # "stop"
  <2> DEFINE v == Settle(col, writer, raised)
  <2>1. /\ raised => PendingCall(col) # "none"
        /\ col' = FinalizePending(col, raised) /\ writer' = CloseIdle(col, v)
        /\ Report("response", col', writer', episode, raised)
    BY <1>1, <1>6
  <2>2. /\ col' \in Collector /\ v \in WriterType /\ WriterFits(col', v) /\ v.rows = writer.rows
        /\ writer.phase \in Ended => v.phase \in Ended
    BY <1>4, <2>1, Settling
  <2>3. /\ writer' \in WriterType /\ writer'.rows = writer.rows /\ WriterFits(col', writer')
        /\ writer.phase \in Ended => writer'.phase \in Ended
    <3>1. CASE col.state = "IDLE"
      <4>1. PendingCall(col) = "none"
        BY <1>4, <3>1, Closing DEF PendingCall
      <4>2. col' = col /\ v = writer
        BY <2>1, <4>1 DEF FinalizePending, Settle
      <4> QED
        BY <1>4, <2>1, <4>2, Closing
    <3>2. CASE col.state # "IDLE"
      <4>1. writer' = v
        BY <2>1, <3>2 DEF CloseIdle
      <4> QED
        BY <2>2, <4>1
    <3> QED
      BY <3>1, <3>2
  <2>4. \E kind \in {"state", "response"}, b \in BOOLEAN : Report(kind, col', writer', episode', b)
    <3>1. Report("response", col', writer', episode', raised)
      BY <1>2, <2>1
    <3> QED
      BY <3>1
  <2> QED
    BY <1>2, <1>3, <2>2, <2>3, <2>4, Dispatched
<1> QED
  BY <1>5, <1>6

-----------------------------------------------------------------------------
(* The theorems *)

LEMMA StepKeeps == RecorderInv /\ LeakInv /\ [Next]_vars => RecorderInv'
<1> SUFFICES ASSUME RecorderInv, LeakInv, [Next]_vars PROVE RecorderInv'
  OBVIOUS
<1>1. CASE ProducerStep
  BY <1>1, StartReadyKeeps, StartFailsKeeps, TickCheckKeeps, TickDecideKeeps, EndSessionKeeps, CutEpisodeKeeps,
     RequestFinalizeKeeps, AwaitKeeps, StopRecorderKeeps, JoinRecorderKeeps DEF ProducerStep
<1>2. CASE ForwardLoop \/ ForwardPut \/ ForwardFault \/ ForwardCrash
  BY <1>2, ForwardLoopKeeps, ForwardPutKeeps, ForwardAbortKeeps
<1>3. CASE RecorderStep
  BY <1>3, CreateEpisodeKeeps, NextCommandKeeps, TakeControlKeeps, PassOrDeferKeeps, DispatchCameraKeeps,
     DispatchControlKeeps, DispatchFlushKeeps, DispatchEndKeeps, DispatchDiscardKeeps, DispatchRotateKeeps,
     DispatchLastKeeps DEF RecorderStep
<1>4. CASE Crash
  BY <1>4, CrashKeeps
<1>5. CASE UNCHANGED vars
  <2>1. TypeInv' /\ HandInv' /\ Told' = Told
    BY <1>5 DEF RecorderInv, vars, TypeInv, ProducerTypes, ForwarderTypes, HandleTypes, ChannelTypes, RecorderTypes,
                HandInv, Told
  <2>2. PendingCountsFrames' /\ AheadInv' /\ GateInv' /\ WriterInv' /\ OrderInv' /\ (RotateFlies' <=> RotateFlies)
    BY <1>5, CountKept, AheadKept, GateKept, WriterKept, OrderKept DEF RecorderInv, vars
  <2>3. ResultInv' /\ RotateInv' /\ LossInv'
    BY <1>5, <2>1, <2>2, ResultKept, RotateKept, LossKept DEF RecorderInv, vars
  <2> QED
    BY <2>1, <2>2, <2>3 DEF RecorderInv
<1> QED
  BY <1>1, <1>2, <1>3, <1>4, <1>5 DEF Next

\* A frame that stays counted keeps the recorder at its frames: every other
\* command waits for a count of zero.
LEMMA LeakKept == RecorderInv /\ LeakInv /\ [Next]_vars => LeakInv'
<1> SUFFICES ASSUME RecorderInv, LeakInv, [Next]_vars PROVE LeakInv'
  OBVIOUS
<1>1. CASE ProducerStep
  <2>1. UNCHANGED leaked /\ (cpc' = cpc \/ cpc' = "crashed")
    BY <1>1 DEF ProducerStep, StartReady, StartFails, TickCheck, TickDecide, EndSession, CutEpisode, RequestFinalize,
                AwaitResponse, AwaitFails, StopRecorder, JoinRecorder, recorderVars
  <2> QED
    BY <2>1 DEF LeakInv, LeakShutsGate
<1>2. CASE ForwardLoop \/ ForwardPut \/ ForwardFault \/ ForwardCrash
  BY <1>2 DEF ForwardLoop, ForwardPut, ForwardFault, ForwardCrash, recorderVars, LeakInv, LeakShutsGate
<1>3. CASE NextCommand
  <2>1. QueuedFrames \in Nat /\ (leaked > 0 => pending > 0)
    BY Queued DEF RecorderInv, LeakInv, PendingCountsFrames
  <2> QED
    BY <1>3, <2>1 DEF NextCommand, LeakInv, LeakShutsGate
<1>4. CASE DispatchCamera
  <2>1. cpc' = "next" /\ (leaked' = leaked \/ leaked' = leaked + 1)
    BY <1>4 DEF DispatchCamera
  <2> QED
    BY <2>1 DEF LeakInv, LeakShutsGate
<1>5. CASE DispatchFlush
  <2>1. cpc' = "next" /\ (leaked' = leaked \/ leaked' = leaked + 1)
    BY <1>5 DEF DispatchFlush, Idling
  <2> QED
    BY <2>1 DEF LeakInv, LeakShutsGate
<1>6. CASE CreateEpisode \/ TakeControl \/ PassOrDefer
  BY <1>6 DEF CreateEpisode, TakeControl, PassOrDefer, LeakInv, LeakShutsGate
<1>7. CASE DispatchControl \/ DispatchEnd \/ DispatchDiscard \/ DispatchRotate \/ DispatchLast
  BY <1>7 DEF DispatchControl, DispatchEnd, DispatchDiscard, DispatchRotate, DispatchLast, Idling, LeakInv,
              LeakShutsGate
<1>8. CASE Crash \/ UNCHANGED vars
  BY <1>8 DEF Crash, vars, recorderVars, LeakInv, LeakShutsGate
<1> QED
  BY <1>1, <1>2, <1>3, <1>4, <1>5, <1>6, <1>7, <1>8 DEF Next, RecorderStep

\* Every reachable state has the parts of the invariant: the place of every
\* frame and command, the order of the commands, and what the reports may say
\* of the episode.
THEOREM RecorderInvariance == Spec => [](RecorderInv /\ LeakInv)
<1>1. Init => RecorderInv /\ LeakInv
  BY InitHolds DEF Init, LeakInv, LeakShutsGate
<1>2. RecorderInv /\ LeakInv /\ [Next]_vars => RecorderInv' /\ LeakInv'
  BY StepKeeps, LeakKept
<1> QED
  BY <1>1, <1>2, PTL DEF Spec

\* The queues never hold more than they may, the episode numbers stay within
\* the bound, and at most the queued frames and the two in hand precede a
\* boundary.
THEOREM RecorderTypeCorrect == Spec => []TypeOK
<1>1. RecorderInv /\ LeakInv => TypeOK
  <2> SUFFICES ASSUME RecorderInv, LeakInv PROVE TypeOK
    OBVIOUS
  <2>1. TypeInv
    BY DEF RecorderInv
  <2>2. /\ phase \in {"starting", "check", "decide", "joinForwarder", "request", "await", "stopping", "joining", "closed"}
        /\ {idle, active, rotating, captureFailed, recorderError, forwarderStop} \subseteq BOOLEAN
        /\ fpc \in {"off", "loop", "put", "ended"} /\ frameRole \in Roles \cup {NoRole}
    BY <2>1 DEF TypeInv, ProducerTypes, Phases, ForwarderTypes, HandleTypes
  <2>3. proxy \in [state : CaptureState, status : EpisodeStatus \cup {"none"}, rows : BOOLEAN, episode : 0 .. MaxEpisodes,
                   result : BOOLEAN]
    BY <2>1 DEF TypeInv, HandleTypes, Proxy
  <2>4. /\ Len(control) <= ControlSlots /\ Len(status) <= StatusSlots
        /\ \A i \in 1 .. Len(control) : control[i].kind \in Kinds
        /\ cameraQueue \in [Roles -> 0 .. CameraSlots] /\ pending \in Nat
    <3>1. /\ control \in Seq(CommandType) /\ Len(control) <= ControlSlots /\ Len(status) <= StatusSlots
          /\ cameraQueue \in [Roles -> 0 .. CameraSlots] /\ pending \in Nat
      BY <2>1 DEF TypeInv, ChannelTypes
    <3>2. \A i \in 1 .. Len(control) : control[i] \in CommandType
      BY <3>1
    <3>3. \A i \in 1 .. Len(control) : control[i].kind \in Kinds
      BY <3>2 DEF CommandType
    <3> QED
      BY <3>1, <3>3
  <2>5. /\ cpc \in {"create", "next", "take", "pass", "dispatch", "camera", "ended", "crashed"}
        /\ cmd.kind \in Kinds /\ deferred.kind \in Kinds /\ inHand \in Roles \cup {NoRole}
        /\ col \in Collector /\ episode \in 0 .. MaxEpisodes
        /\ writer \in [phase : Settled \cup {"new", "open"}, rows : BOOLEAN]
    BY <2>1 DEF TypeInv, RecorderTypes, Places, CommandType, WriterType
  <2>6. ahead \in [Roles -> 0 .. CameraSlots + 2]
    <3>1. ASSUME NEW r \in Roles PROVE ahead[r] \in 0 .. CameraSlots + 2
      <4>1. cameraQueue[r] \in 0 .. CameraSlots /\ ahead[r] \in Nat /\ CameraSlots \in Nat
        BY <2>1, RecorderAssumption DEF TypeInv, ChannelTypes
      <4>2. ahead[r] <= cameraQueue[r] + (IF inHand = r THEN 1 ELSE 0) + (IF frameRole = r THEN 1 ELSE 0)
        BY DEF RecorderInv, AheadInv, FramesAhead
      <4> QED
        BY <4>1, <4>2
    <3> QED
      BY <2>1, <3>1 DEF TypeInv, ChannelTypes
  <2> QED
    BY <2>2, <2>3, <2>4, <2>5, <2>6 DEF TypeOK, LeakInv
<1> QED
  BY <1>1, RecorderInvariance, PTL

\* The camera_pending count is exact in every reachable state: what is
\* counted is queued, in the forwarder's hand or in the recorder's, or was
\* stumbled over; and after a frame of the last kind no command passes.
THEOREM FramesCorrect == Spec => []FramesAreCounted
<1>1. RecorderInv /\ LeakInv => PendingCountsFrames /\ LeakShutsGate
  BY DEF RecorderInv, LeakInv
<1>2. TypeOK /\ PendingCountsFrames /\ LeakShutsGate => FramesAreCounted
  BY DEF FramesAreCounted
<1> QED
  BY <1>1, <1>2, RecorderInvariance, RecorderTypeCorrect, PTL

\* No deferred command is overtaken, and a boundary is executed after every
\* frame that had been counted when it was sent.
THEOREM OrderCorrect == Spec => CommandsInOrder
<1>1. RecorderInv => DeferredGoesFirst
  BY DEF RecorderInv, GateInv
<1>2. RecorderInv => [cpc = "dispatch" /\ LastBoundary /\ cpc' = "next" => \A r \in Roles : ahead[r] = 0]_vars
  BY DEF RecorderInv, GateInv
<1> QED
  BY <1>1, <1>2, RecorderInvariance, PTL DEF CommandsInOrder, BoundaryAfterFrames

\* Rotations and results only of a settled writer, and a dead recorder ends
\* the capture at the next tick.
THEOREM FateCorrect == Spec => ProducerLearnsFate
<1>1. RecorderInv => RotationSettles /\ ResultIsSettled
  BY DEF RecorderInv, ResultInv, ResultIsSettled, Settlement, Ended
<1>2. RecorderInv /\ [Next]_vars => [phase = "check" /\ phase' = "decide" /\ cpc = "crashed" => captureFailed']_vars
  <2> SUFFICES ASSUME RecorderInv, Next, phase = "check", phase' = "decide", cpc = "crashed" PROVE captureFailed'
    OBVIOUS
  <2>1. phase' # phase
    OBVIOUS
  <2>2. ~(ForwardLoop \/ ForwardPut \/ ForwardFault \/ ForwardCrash \/ Crash)
    BY <2>1 DEF ForwardLoop, ForwardPut, ForwardFault, ForwardCrash, Crash
  <2>3. ~RecorderStep
    BY <2>1 DEF RecorderStep, CreateEpisode, NextCommand, TakeControl, PassOrDefer, DispatchCamera, DispatchControl,
                DispatchFlush, DispatchEnd, DispatchDiscard, DispatchRotate, DispatchLast
  <2>4. TickCheck
    BY <2>2, <2>3 DEF Next, ProducerStep, StartReady, StartFails, TickDecide, EndSession, CutEpisode, RequestFinalize,
                      AwaitResponse, AwaitFails, StopRecorder, JoinRecorder
  <2> QED
    BY <2>4, TickCheckKeeps
<1> QED
  BY <1>1, <1>2, RecorderInvariance, PTL DEF Spec, ProducerLearnsFate, LossSeenAtNextTick

=============================================================================
