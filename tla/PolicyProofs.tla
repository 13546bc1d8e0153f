--------------------------- MODULE PolicyProofs ----------------------------
(***************************************************************************)
(* Proofs about the policy execution (ActRollout) and about the offline    *)
(* tools that make its datasets (DatasetPipeline), for every value of      *)
(* their constants.                                                        *)
(*                                                                         *)
(* ActRollout.                                                             *)
(* The parts of the invariant: the points of one query agree on when it    *)
(* was made (IdInv), so a buffer is in a strict order and the trim bounds  *)
(* it; a command sent past a failure leaves the loop in front of the       *)
(* failed peer (LateInv); the cleanup runs the rest of its plan, and what  *)
(* is behind it was done (PlanInv); as long as nobody failed, every        *)
(* command and every answer is in the writer's hands (RecordInv).          *)
(* For the age of the commands (FreshInv): the buffer is made of the ends  *)
(* of chunks, which are in the order of the clock (ChunkInv, QueryInv);    *)
(* the chunk of the action in force reaches the next tick (TickInv), and a *)
(* canonical query is newer than all of the buffer (OwnInv).  How many     *)
(* points come after a tick is counted with a rectangle (FewLater).        *)
(*                                                                         *)
(* DatasetPipeline.                                                        *)
(* A shard's files were written in order and its metadata is ahead of      *)
(* every index (StagingInv); what a build read is no older than its        *)
(* fingerprint and a root passed its checks (BuildInv); a view has read    *)
(* roots that were in place (ViewInv); an entry was vetted and everything  *)
(* counted was cited from one (ArchiveInv); the ids of a root are those of *)
(* its manifest (InputInv), so its rows are what the loops over one        *)
(* recording return: a loop is a function of the turns taken (IsLoop),     *)
(* which exists, and what its turns keep holds at its end (LoopInduction). *)
(***************************************************************************)
EXTENDS ActRollout, DatasetPipeline, FiniteSetTheorems, SequenceTheorems,
        WellFoundedInduction, TLAPS

Places == {"start", "due", "wait", "exit", "join", "cleanup", "ended"}
Point == [id : Nat, q : Nat, end : Nat, t : Nat]
ChunkType == [id : Nat, q : Nat, end : Nat]
HandState == {"off", "started", "active", "failed", "held", "stopped"}

LogType == [pc : {"off", "run", "ended"}, queue : 0 .. LogCapacity, written : Nat, error : BOOLEAN]

LoopType(m) ==
    m \in [pc : Places, tick : Nat, next : {m.next}, abort : BOOLEAN, sent : Nat, late : Nat, seen : {m.seen},
           overrun : BOOLEAN, plan : {m.plan}, cmd : {m.cmd}]
LoopTypes == LoopType(main)
ThreadTypes ==
    /\ inf \in [pc : {"off", "due", "wait", "ended"}, due : {inf.due}, seq : Nat, error : BOOLEAN, stop : BOOLEAN]
    /\ log \in LogType
WorldTypes ==
    /\ mode \in Modes /\ now \in 0 .. MaxTime /\ faults \in 0 .. MaxFaults
    /\ hand \in HandState /\ arm \in [native : {"off", "up", "down"}]
BufferTypes ==
    /\ pending \in Seq(ChunkType) /\ Len(pending) <= Capacity
    /\ ens \in [points : SUBSET Point, last : {ens.last}]
    /\ IsFiniteSet(ens.points) /\ Cardinality(ens.points) <= Capacity
TypeInv == LoopTypes /\ ThreadTypes /\ WorldTypes /\ BufferTypes

\* A query has one tick it was made for and one time it ended.
Waiting == {pending[i] : i \in 1 .. Len(pending)}
Agree(x, y) == x.id = y.id => x.q = y.q /\ x.end = y.end
IdInv ==
    /\ \A x \in ens.points \cup Waiting : x.id < inf.seq
    /\ \A x, y \in ens.points \cup Waiting : Agree(x, y)

\* A second command past a failure would need a peer that came back.
LateInv ==
    /\ FailureStopsCommands
    /\ main.pc = "start" => main.late = 0
    /\ main.pc \in {"due", "wait"} /\ main.late = 1 => PeerDown
    /\ mode = "canonical" /\ main.pc = "wait" => main.late = 0

\* What is left of the cleanup, and what it has done.
Behind(k, step) == \E j \in 1 .. k - 1 : CleanupOf[j] = step
ArmIsDown == arm.native # "up"
HandIsQuiet == hand \notin {"active", "started"}
PlanInv ==
    /\ main.pc = "cleanup" =>
         \E k \in 1 .. Len(CleanupOf) :
            /\ main.plan = SubSeq(CleanupOf, k, Len(CleanupOf))
            /\ Behind(k, "armStop") => ArmIsDown
            /\ Behind(k, "handStop") => HandIsQuiet
    /\ EndedIsSafe

\* The record of a run nobody failed in.
Recorded == log.written + log.queue = main.sent + inf.seq - 1
RecordInv ==
    /\ main.pc = "start" => ~log.error
    /\ log.pc = "run" => ~log.error
    /\ mode # "shadow" /\ ~main.abort =>
         /\ ~inf.error => Recorded
         /\ main.pc \in {"cleanup", "ended"} => inf.pc \in {"off", "ended"} /\ ~inf.error
         /\ main.pc = "ended" => log.pc = "ended" /\ log.queue = 0 /\ ~log.error

RolloutInv == TypeInv /\ IdInv /\ LateInv /\ PlanInv /\ RecordInv

-----------------------------------------------------------------------------
(* The ensemble *)

\* In a strict order as many points are before a point as it has a rank; the
\* trim keeps the ranks below the capacity.
LEMMA TrimBounds ==
  ASSUME NEW S \in SUBSET Point, IsFiniteSet(S),
         \A x, y \in S : x.t = y.t /\ x.id = y.id => x = y
  PROVE  /\ TrimCapacity(S) \subseteq S /\ IsFiniteSet(TrimCapacity(S))
         /\ Cardinality(TrimCapacity(S)) <= Capacity
<1> DEFINE Earlier(x) == {y \in S : Before(x, y)}
           Kept == TrimCapacity(S)
           rank == [x \in Kept |-> Cardinality(Earlier(x))]
<1>1. Kept \subseteq S
  BY DEF TrimCapacity
<1>2. IsFiniteSet(Kept)
  BY <1>1, FS_Subset
<1>3. \A x \in S : IsFiniteSet(Earlier(x)) /\ Cardinality(Earlier(x)) \in Nat
  <2> TAKE x \in S
  <2>1. Earlier(x) \in SUBSET S
    OBVIOUS
  <2> QED
    BY <2>1, FS_Subset, FS_CardinalityType
<1>4. \A x, y \in S : Before(x, y) => Cardinality(Earlier(y)) < Cardinality(Earlier(x))
  <2> SUFFICES ASSUME NEW x \in S, NEW y \in S, Before(x, y)
               PROVE  Cardinality(Earlier(y)) < Cardinality(Earlier(x))
    OBVIOUS
  <2>1. Earlier(y) \in SUBSET Earlier(x)
    BY DEF Before, Point
  <2>2. y \in Earlier(x) /\ y \notin Earlier(y)
    BY DEF Before, Point
  <2>3. Earlier(x) # Earlier(y)
    BY <2>2
  <2> HIDE DEF Earlier
  <2> QED
    BY <2>1, <2>3, <1>3, FS_Subset
<1>5. \A x, y \in S : x = y \/ Before(x, y) \/ Before(y, x)
  BY DEF Before, Point
<1>6. Capacity \in Nat \ {0}
  BY EnsembleAssumption
<1>7. \A x \in Kept : rank[x] \in 0 .. Capacity - 1
  BY <1>3, <1>6 DEF TrimCapacity
<1>8. rank \in Injection(Kept, 0 .. Capacity - 1)
  <2>1. rank \in [Kept -> 0 .. Capacity - 1]
    BY <1>7
  <2>2. ASSUME NEW x \in Kept, NEW y \in Kept, rank[x] = rank[y]
        PROVE  x = y
    <3>1. Cardinality(Earlier(x)) = Cardinality(Earlier(y))
      BY <2>2
    <3> HIDE DEF Earlier, Kept
    <3> QED
      BY <3>1, <1>1, <1>3, <1>4, <1>5
  <2> HIDE DEF rank, Kept
  <2> QED
    BY <2>1, <2>2 DEF Injection, IsInjective
<1>9. IsFiniteSet(0 .. Capacity - 1) /\ Cardinality(0 .. Capacity - 1) = Capacity
  BY <1>6, FS_Interval
<1> HIDE DEF Kept, rank
<1>10. Cardinality(Kept) <= Cardinality(0 .. Capacity - 1)
  BY <1>8, <1>9, FS_Injection
<1> QED
  BY <1>1, <1>2, <1>9, <1>10 DEF Kept

\* A chunk has finitely many points, each of the chunk's query.
LEMMA ChunkIsFinite ==
  ASSUME NEW p \in ChunkType
  PROVE  /\ ChunkPoints(p) \subseteq Point /\ IsFiniteSet(ChunkPoints(p))
         /\ \A x \in ChunkPoints(p) : x.id = p.id /\ x.q = p.q /\ x.end = p.end
<1> DEFINE at == [h \in 0 .. MaxSourceHorizon |-> [id |-> p.id, q |-> p.q, end |-> p.end, t |-> p.q + h]]
<1>1. MaxSourceHorizon \in Nat
  BY EnsembleAssumption
<1>2. at \in Surjection(0 .. MaxSourceHorizon, ChunkPoints(p))
  BY DEF ChunkPoints, Surjection
<1>3. IsFiniteSet(0 .. MaxSourceHorizon)
  BY <1>1, FS_Interval
<1>4. IsFiniteSet(ChunkPoints(p))
  <2> HIDE DEF at
  <2> QED
    BY <1>2, <1>3, FS_Surjection
<1>5. \A x \in ChunkPoints(p) : x \in Point /\ x.id = p.id /\ x.q = p.q /\ x.end = p.end
  BY <1>1 DEF ChunkPoints, ChunkType, Point
<1> QED
  BY <1>4, <1>5

\* Points of a query.
Source(x, w) == x.id = w.id /\ x.q = w.q /\ x.end = w.end

\* The chunks the trim looks at: a chunk lacks at most its first points.
ChunkBound(x) == x.q <= x.t /\ x.t <= x.q + MaxSourceHorizon
Succ(x) == [x EXCEPT !.t = @ + 1]
Shape(S) == \A x \in S : ChunkBound(x) /\ (x.t < x.q + MaxSourceHorizon => Succ(x) \in S)
Ordered(S) == \A x, y \in S : x.id < y.id => x.q < y.q
Joined(points, chunks) == points \cup UNION {ChunkPoints(p) : p \in chunks}

LEMMA JoinedPoints ==
  ASSUME NEW points \in SUBSET Point, IsFiniteSet(points), NEW chunks \in SUBSET ChunkType, IsFiniteSet(chunks)
  PROVE  /\ Joined(points, chunks) \in SUBSET Point /\ IsFiniteSet(Joined(points, chunks))
         /\ \A x \in Joined(points, chunks) : \E w \in points \cup chunks : Source(x, w)
         /\ \A x \in Joined(points, chunks) : x \in points \/ \E w \in chunks : Source(x, w)
         /\ Shape(points) => Shape(Joined(points, chunks))
<1> DEFINE Fresh == UNION {ChunkPoints(p) : p \in chunks}
           All == Joined(points, chunks)
<1>1. All = points \cup Fresh
  BY DEF Joined
<1>2. IsFiniteSet({ChunkPoints(p) : p \in chunks})
  <2> DEFINE f == [p \in chunks |-> ChunkPoints(p)]
  <2>1. f \in Surjection(chunks, {ChunkPoints(p) : p \in chunks})
    BY DEF Surjection
  <2> HIDE DEF f
  <2> QED
    BY <2>1, FS_Surjection
<1>3. \A T \in {ChunkPoints(p) : p \in chunks} : IsFiniteSet(T)
  BY ChunkIsFinite
<1>4. IsFiniteSet(Fresh)
  BY <1>2, <1>3, FS_UNION
<1>5. All \in SUBSET Point
  BY <1>1, ChunkIsFinite
<1>6. IsFiniteSet(All)
  <2> HIDE DEF Fresh
  <2>1. IsFiniteSet(points \cup Fresh)
    BY <1>4, FS_Union
  <2> QED
    BY <1>1, <2>1
<1>7. \A x \in Fresh : \E p \in chunks : x \in ChunkPoints(p) /\ Source(x, p)
  <2> TAKE x \in Fresh
  <2>1. PICK p \in chunks : x \in ChunkPoints(p)
    OBVIOUS
  <2>2. Source(x, p)
    BY <2>1, ChunkIsFinite DEF Source
  <2> QED
    BY <2>1, <2>2
<1>8. \A x \in points : Source(x, x)
  BY DEF Source
<1>9. \A x \in Fresh : ChunkBound(x) /\ (x.t < x.q + MaxSourceHorizon => Succ(x) \in Fresh)
  <2> TAKE x \in Fresh
  <2>1. PICK p \in chunks : x \in ChunkPoints(p)
    OBVIOUS
  <2>2. PICK h \in 0 .. MaxSourceHorizon : x = [id |-> p.id, q |-> p.q, end |-> p.end, t |-> p.q + h]
    BY <2>1 DEF ChunkPoints
  <2>3. p.q \in Nat /\ MaxSourceHorizon \in Nat
    BY EnsembleAssumption DEF ChunkType
  <2>4. ChunkBound(x)
    BY <2>2, <2>3 DEF ChunkBound
  <2>5. ASSUME x.t < x.q + MaxSourceHorizon PROVE Succ(x) \in ChunkPoints(p)
    <3>1. h + 1 \in 0 .. MaxSourceHorizon /\ x.t + 1 = p.q + (h + 1)
      BY <2>2, <2>3, <2>5
    <3>2. Succ(x) = [id |-> p.id, q |-> p.q, end |-> p.end, t |-> p.q + (h + 1)]
      BY <2>2, <3>1 DEF Succ
    <3> QED
      BY <3>1, <3>2 DEF ChunkPoints
  <2> QED
    BY <2>1, <2>4, <2>5
<1> HIDE DEF All, Fresh
<1>10. Shape(points) => Shape(All)
  BY <1>1, <1>9 DEF Shape
<1> QED
  BY <1>1, <1>5, <1>6, <1>7, <1>8, <1>10 DEF All

\* Where the points of a filled buffer come from, and how many there are.
LEMMA FilledBuffer ==
  ASSUME BufferTypes, NEW chunks \in SUBSET ChunkType, IsFiniteSet(chunks),
         \A x, y \in ens.points \cup chunks : Agree(x, y)
  PROVE  LET filled == AddPredictions(ens, chunks) IN
         /\ filled \in [points : SUBSET Point, last : {ens.last}]
         /\ IsFiniteSet(filled.points) /\ Cardinality(filled.points) <= Capacity
         /\ \A x \in filled.points : \E w \in ens.points \cup chunks : Source(x, w)
<1> DEFINE All == Joined(ens.points, chunks)
<1>1. ens \in [points : SUBSET Point, last : {ens.last}] /\ IsFiniteSet(ens.points)
  BY DEF BufferTypes
<1>2. All \in SUBSET Point /\ IsFiniteSet(All)
  BY <1>1, JoinedPoints
<1>3. \A x \in All : \E w \in ens.points \cup chunks : Source(x, w)
  BY <1>1, JoinedPoints
<1>4. \A x, y \in All : x.t = y.t /\ x.id = y.id => x = y
  <2> SUFFICES ASSUME NEW x \in All, NEW y \in All, x.t = y.t, x.id = y.id
               PROVE  x = y
    OBVIOUS
  <2>1. PICK v \in ens.points \cup chunks : Source(x, v)
    BY <1>3
  <2>2. PICK w \in ens.points \cup chunks : Source(y, w)
    BY <1>3
  <2>3. Agree(v, w)
    OBVIOUS
  <2>4. x.q = y.q /\ x.end = y.end
    BY <2>1, <2>2, <2>3 DEF Source, Agree
  <2>5. x \in Point /\ y \in Point
    BY <1>2
  <2> QED
    BY <2>4, <2>5 DEF Point
<1> DEFINE filled == AddPredictions(ens, chunks)
<1>5. filled = [points |-> TrimCapacity(All), last |-> ens.last]
  BY <1>1 DEF AddPredictions, Joined
<1> HIDE DEF All
<1>6. TrimCapacity(All) \subseteq All /\ IsFiniteSet(TrimCapacity(All)) /\ Cardinality(TrimCapacity(All)) <= Capacity
  BY <1>2, <1>4, TrimBounds
<1>7. filled.points = TrimCapacity(All) /\ filled \in [points : SUBSET Point, last : {ens.last}]
  BY <1>2, <1>5, <1>6
<1> HIDE DEF filled
<1> QED
  BY <1>3, <1>6, <1>7 DEF filled

\* A selection takes points away and leaves the rest as it is.
LEMMA SelectShrinks ==
  ASSUME NEW e, NEW tick, e.points \subseteq Point, IsFiniteSet(e.points), Cardinality(e.points) <= Capacity
  PROVE  LET b == Select(e, tick).buffer IN
         /\ b \in [points : SUBSET Point, last : {b.last}] /\ b.points \subseteq e.points
         /\ IsFiniteSet(b.points) /\ Cardinality(b.points) <= Capacity
<1> DEFINE b == Select(e, tick).buffer
           P == {x \in Expire(e.points, tick) : x.t # tick}
<1>1. P \in SUBSET e.points
  BY DEF Expire
<1>2. b = [points |-> P, last |-> b.last]
  BY DEF Select
<1> HIDE DEF P, b
<1>3. b.points = P /\ b \in [points : SUBSET Point, last : {b.last}]
  BY <1>1, <1>2
<1>4. IsFiniteSet(P) /\ Cardinality(P) <= Cardinality(e.points)
  BY <1>1, FS_Subset
<1>5. Cardinality(P) \in Nat /\ Cardinality(e.points) \in Nat /\ Capacity \in Nat
  BY <1>4, FS_CardinalityType, EnsembleAssumption
<1>6. Cardinality(P) <= Capacity
  BY <1>4, <1>5
<1> QED
  BY <1>1, <1>3, <1>4, <1>6 DEF b

\* The predictions that wait are finitely many.
LEMMA WaitingIsFinite ==
  ASSUME pending \in Seq(ChunkType)
  PROVE  Range(pending) = Waiting /\ Waiting \in SUBSET ChunkType /\ IsFiniteSet(Waiting)
<1>1. Range(pending) = Waiting
  BY DEF Range, Waiting
<1>2. Waiting \in SUBSET ChunkType
  BY DEF Waiting
<1>3. pending \in Surjection(1 .. Len(pending), Waiting)
  BY DEF Surjection, Waiting
<1>4. IsFiniteSet(1 .. Len(pending))
  BY FS_Interval
<1> QED
  BY <1>1, <1>2, <1>3, <1>4, FS_Surjection

-----------------------------------------------------------------------------
(* Buffers and queries *)

\* What is left of agreed points agrees; the next id is new.
LEMMA TransferIds ==
  ASSUME IdInv, NEW N, NEW seq \in Nat, seq >= inf.seq, inf.seq \in Nat,
         \A x \in N : x.id \in Nat, \A w \in ens.points \cup Waiting : w.id \in Nat,
         NEW p, p.id = inf.seq,
         \A x \in N : \/ \E w \in ens.points \cup Waiting : Source(x, w)
                      \/ seq > inf.seq /\ Source(x, p)
  PROVE  (\A x \in N : x.id < seq) /\ (\A x, y \in N : Agree(x, y))
<1> DEFINE Old == ens.points \cup Waiting
<1>1. \A w \in Old : w.id < inf.seq /\ w.id \in Nat
  BY DEF IdInv
<1>2. \A v, w \in Old : Agree(v, w)
  BY DEF IdInv
<1> HIDE DEF Old
<1>3. \A x \in N : (\E w \in Old : Source(x, w)) \/ (seq > inf.seq /\ Source(x, p))
  BY DEF Old
<1>4. ASSUME NEW x \in N PROVE x.id < seq
  BY <1>1, <1>3 DEF Source
<1>5. ASSUME NEW x \in N, NEW y \in N PROVE Agree(x, y)
  <2> SUFFICES ASSUME x.id = y.id PROVE x.q = y.q /\ x.end = y.end
    BY DEF Agree
  <2>1. CASE \E v \in Old : Source(x, v)
    <3>1. PICK v \in Old : Source(x, v)
      BY <2>1
    <3>2. x.id # inf.seq
      BY <3>1, <1>1 DEF Source
    <3>3. PICK w \in Old : Source(y, w)
      BY <3>2, <1>3 DEF Source
    <3>4. Agree(v, w)
      BY <1>2
    <3> QED
      BY <3>1, <3>3, <3>4 DEF Source, Agree
  <2>2. CASE Source(x, p)
    <3>1. ~\E w \in Old : Source(y, w)
      BY <2>2, <1>1 DEF Source
    <3> QED
      BY <2>2, <3>1, <1>3 DEF Source
  <2> QED
    BY <2>1, <2>2, <1>3
<1> QED
  BY <1>4, <1>5

\* Nothing that a buffer is made of changes.
LEMMA SameBuffers ==
  ASSUME BufferTypes, IdInv, ens' = ens, pending' = pending, inf'.seq = inf.seq
  PROVE  BufferTypes' /\ IdInv'
BY DEF BufferTypes, IdInv, Waiting, Agree

\* Every point and every chunk has an id.
LEMMA IdsAreNumbers ==
  ASSUME BufferTypes
  PROVE  \A w \in ens.points \cup Waiting : w.id \in Nat
<1>1. ens.points \subseteq Point /\ Waiting \subseteq ChunkType
  BY WaitingIsFinite DEF BufferTypes
<1> QED
  BY <1>1 DEF Point, ChunkType

\* The command loop takes all that waits.
LEMMA AsyncBuffers ==
  ASSUME BufferTypes, IdInv, ThreadTypes, inf' = inf, pending' = <<>>,
         ens' = Select(AddPredictions(ens, Range(pending)), main.tick).buffer
  PROVE  BufferTypes' /\ IdInv'
<1> DEFINE filled == AddPredictions(ens, Range(pending))
<1>1. Range(pending) = Waiting /\ Waiting \in SUBSET ChunkType /\ IsFiniteSet(Waiting)
  BY WaitingIsFinite DEF BufferTypes
<1>2. \A x, y \in ens.points \cup Waiting : Agree(x, y)
  BY DEF IdInv
<1>3. /\ filled \in [points : SUBSET Point, last : {ens.last}]
      /\ IsFiniteSet(filled.points) /\ Cardinality(filled.points) <= Capacity
      /\ \A x \in filled.points : \E w \in ens.points \cup Waiting : Source(x, w)
  BY <1>1, <1>2, FilledBuffer
<1>4. ens' = Select(filled, main.tick).buffer
  OBVIOUS
<1> HIDE DEF filled
<1>5. /\ ens' \in [points : SUBSET Point, last : {ens'.last}] /\ ens'.points \subseteq filled.points
      /\ IsFiniteSet(ens'.points) /\ Cardinality(ens'.points) <= Capacity
  BY <1>3, <1>4, SelectShrinks
<1>6. Waiting' = {}
  BY DEF Waiting
<1>7. Capacity \in Nat /\ inf.seq \in Nat
  BY EnsembleAssumption DEF ThreadTypes
<1>8. BufferTypes'
  BY <1>5, <1>7 DEF BufferTypes
<1>9. \A x \in ens'.points : x.id \in Nat /\ \E w \in ens.points \cup Waiting : Source(x, w)
  BY <1>3, <1>5 DEF Point
<1>10. (\A x \in ens'.points : x.id < inf.seq) /\ (\A x, y \in ens'.points : Agree(x, y))
  <2> DEFINE N == ens'.points
  <2>1. PICK p : p = [id |-> inf.seq]
    OBVIOUS
  <2>2. p.id = inf.seq
    BY <2>1
  <2>3. \A w \in ens.points \cup Waiting : w.id \in Nat
    BY IdsAreNumbers
  <2>4. \A x \in N : \/ \E w \in ens.points \cup Waiting : Source(x, w)
                     \/ inf.seq > inf.seq /\ Source(x, p)
    BY <1>9
  <2>5. (\A x \in N : x.id \in Nat) /\ inf.seq >= inf.seq
    BY <1>7, <1>9
  <2> HIDE DEF N
  <2>6. (\A x \in N : x.id < inf.seq) /\ (\A x, y \in N : Agree(x, y))
    BY <2>2, <2>3, <2>4, <2>5, <1>7, TransferIds
  <2> QED
    BY <2>6 DEF N
<1> QED
  BY <1>6, <1>8, <1>10 DEF IdInv, Agree

\* The canonical loop adds the query it waited for.
LEMMA CanonicalBuffers ==
  ASSUME BufferTypes, IdInv, ThreadTypes, LoopTypes, WorldTypes, pending' = pending, inf'.seq = inf.seq + 1,
         ens' = Select(AddPrediction(ens, [id |-> inf.seq, q |-> main.tick, end |-> now]), main.tick).buffer
  PROVE  BufferTypes' /\ IdInv'
<1> DEFINE p == [id |-> inf.seq, q |-> main.tick, end |-> now]
           filled == AddPredictions(ens, {p})
<1>1. p \in ChunkType /\ p.id = inf.seq /\ inf.seq \in Nat /\ inf.seq + 1 > inf.seq
  BY RolloutAssumption DEF ChunkType, ThreadTypes, LoopTypes, LoopType, WorldTypes
<1>2. \A w \in ens.points \cup Waiting : w.id \in Nat /\ w.id < inf.seq
  BY IdsAreNumbers DEF IdInv
<1>3. \A x, y \in ens.points : Agree(x, y)
  BY DEF IdInv
<1> HIDE DEF p
<1>4. \A x, y \in ens.points \cup {p} : Agree(x, y)
  BY <1>1, <1>2, <1>3 DEF Agree
<1>5. {p} \in SUBSET ChunkType /\ IsFiniteSet({p})
  BY <1>1, FS_Singleton
<1>6. /\ filled \in [points : SUBSET Point, last : {ens.last}]
      /\ IsFiniteSet(filled.points) /\ Cardinality(filled.points) <= Capacity
      /\ \A x \in filled.points : \E w \in ens.points \cup {p} : Source(x, w)
  BY <1>4, <1>5, FilledBuffer
<1>7. ens' = Select(filled, main.tick).buffer
  BY DEF AddPrediction, p
<1> HIDE DEF filled
<1>8. /\ ens' \in [points : SUBSET Point, last : {ens'.last}] /\ ens'.points \subseteq filled.points
      /\ IsFiniteSet(ens'.points) /\ Cardinality(ens'.points) <= Capacity
  BY <1>6, <1>7, SelectShrinks
<1>9. BufferTypes'
  BY <1>8 DEF BufferTypes
<1>10. Waiting' = Waiting
  BY DEF Waiting
<1>11. \A x \in ens'.points \cup Waiting : x.id \in Nat
  BY <1>2, <1>8 DEF Point
<1>12. \A x \in ens'.points \cup Waiting : \/ \E w \in ens.points \cup Waiting : Source(x, w)
                                           \/ inf.seq + 1 > inf.seq /\ Source(x, p)
  <2>1. ASSUME NEW x \in ens'.points
        PROVE  (\E w \in ens.points \cup Waiting : Source(x, w)) \/ Source(x, p)
    BY <1>6, <1>8
  <2>2. ASSUME NEW x \in Waiting PROVE \E w \in ens.points \cup Waiting : Source(x, w)
    BY DEF Source
  <2> QED
    BY <2>1, <2>2, <1>1
<1>13. inf.seq + 1 \in Nat /\ inf.seq + 1 >= inf.seq
  BY <1>1
<1>14. (\A x \in ens'.points \cup Waiting : x.id < inf.seq + 1) /\ (\A x, y \in ens'.points \cup Waiting : Agree(x, y))
  <2> DEFINE N == ens'.points \cup Waiting
  <2>1. \A w \in ens.points \cup Waiting : w.id \in Nat
    BY <1>2
  <2>2. \A x \in N : \/ \E w \in ens.points \cup Waiting : Source(x, w)
                     \/ inf.seq + 1 > inf.seq /\ Source(x, p)
    BY <1>12
  <2>3. \A x \in N : x.id \in Nat
    BY <1>11
  <2> HIDE DEF N
  <2>4. (\A x \in N : x.id < inf.seq + 1) /\ (\A x, y \in N : Agree(x, y))
    BY <1>1, <1>13, <2>1, <2>2, <2>3, TransferIds
  <2> QED
    BY <2>4 DEF N
<1> QED
  BY <1>9, <1>10, <1>14 DEF IdInv, Agree

\* A full queue gives up its oldest prediction.
LEMMA PublishWaiting ==
  ASSUME BufferTypes, NEW p \in ChunkType, pending' = Publish(p)
  PROVE  Waiting' \subseteq Waiting \cup {p}
<1> DEFINE rest == IF Len(pending) = Capacity THEN Tail(pending) ELSE pending
<1>1. pending \in Seq(ChunkType) /\ Capacity \in Nat \ {0} /\ pending' = Append(rest, p)
  BY EnsembleAssumption DEF BufferTypes, Publish
<1>2. rest \in Seq(ChunkType) /\ \A i \in 1 .. Len(rest) : rest[i] \in Waiting
  <2>1. CASE Len(pending) = Capacity
    <3>1. pending # <<>> /\ rest = Tail(pending)
      BY <2>1, <1>1
    <3> HIDE DEF rest
    <3>2. rest \in Seq(ChunkType) /\ \A i \in 1 .. Len(rest) : i + 1 \in 1 .. Len(pending) /\ rest[i] = pending[i + 1]
      BY <3>1, <1>1
    <3> QED
      BY <3>2 DEF Waiting
  <2>2. CASE Len(pending) # Capacity
    BY <2>2, <1>1 DEF Waiting
  <2> QED
    BY <2>1, <2>2
<1> HIDE DEF rest
<1>3. \A i \in 1 .. Len(pending') : (i \in 1 .. Len(rest) /\ pending'[i] = rest[i]) \/ pending'[i] = p
  BY <1>1, <1>2
<1> QED
  BY <1>2, <1>3 DEF Waiting

\* The inference thread publishes a query; the oldest one may be given up.
LEMMA PublishedBuffers ==
  ASSUME BufferTypes, IdInv, ThreadTypes, WorldTypes, ens' = ens, inf'.seq = inf.seq + 1,
         pending' = Publish([id |-> inf.seq, q |-> QueryCommandTick, end |-> now])
  PROVE  BufferTypes' /\ IdInv'
<1> DEFINE p == [id |-> inf.seq, q |-> QueryCommandTick, end |-> now]
           rest == IF Len(pending) = Capacity THEN Tail(pending) ELSE pending
<1>1. p \in ChunkType /\ p.id = inf.seq /\ inf.seq \in Nat /\ inf.seq + 1 > inf.seq
  BY RolloutAssumption DEF ChunkType, QueryCommandTick, ThreadTypes, WorldTypes
<1>2. pending' = Append(rest, p)
  BY DEF Publish
<1>3. pending \in Seq(ChunkType) /\ Len(pending) <= Capacity /\ Capacity \in Nat \ {0}
  BY EnsembleAssumption DEF BufferTypes
<1> HIDE DEF p
<1>4. rest \in Seq(ChunkType) /\ Len(rest) < Capacity /\ \A i \in 1 .. Len(rest) : rest[i] \in Waiting
  <2>1. CASE Len(pending) = Capacity
    <3>1. pending # <<>> /\ rest = Tail(pending)
      BY <2>1, <1>3
    <3> HIDE DEF rest
    <3>2. /\ rest \in Seq(ChunkType) /\ Len(rest) = Len(pending) - 1
          /\ \A i \in 1 .. Len(rest) : i + 1 \in 1 .. Len(pending) /\ rest[i] = pending[i + 1]
      BY <3>1, <1>3
    <3> QED
      BY <2>1, <3>2, <1>3 DEF Waiting
  <2>2. CASE Len(pending) # Capacity
    BY <2>2, <1>3 DEF Waiting
  <2> QED
    BY <2>1, <2>2
<1> HIDE DEF rest
<1>5. pending' \in Seq(ChunkType) /\ Len(pending') <= Capacity
  <2>1. rest \in Seq(ChunkType) /\ p \in ChunkType
    BY <1>1, <1>4
  <2>2. Append(rest, p) \in Seq(ChunkType) /\ Len(Append(rest, p)) = Len(rest) + 1 /\ Len(rest) \in Nat
    BY <2>1
  <2>3. Len(rest) + 1 <= Capacity
    BY <2>2, <1>3, <1>4
  <2> QED
    BY <2>2, <2>3, <1>2, Zenon
<1>7. BufferTypes'
  BY <1>5 DEF BufferTypes
<1>8. Waiting' \subseteq Waiting \cup {p}
  BY <1>1, PublishWaiting DEF p
<1>9. \A w \in ens.points \cup Waiting : w.id \in Nat
  BY IdsAreNumbers
<1> DEFINE N == ens.points \cup Waiting \cup {p}
<1>10. \A x \in N : \/ \E w \in ens.points \cup Waiting : Source(x, w)
                    \/ inf.seq + 1 > inf.seq /\ Source(x, p)
  BY <1>1 DEF Source
<1>11. \A x \in N : x.id \in Nat
  BY <1>1, <1>9
<1>12. inf.seq + 1 \in Nat /\ inf.seq + 1 >= inf.seq
  BY <1>1
<1> HIDE DEF N
<1>13. (\A x \in N : x.id < inf.seq + 1) /\ (\A x, y \in N : Agree(x, y))
  BY <1>1, <1>9, <1>10, <1>11, <1>12, TransferIds
<1>14. ens'.points \cup Waiting' \subseteq N
  BY <1>8 DEF N
<1> QED
  BY <1>7, <1>13, <1>14 DEF IdInv, Agree

-----------------------------------------------------------------------------
(* Types *)

\* The end of a tick: a command was sent and its row is in the queue, or the
\* run is aborted.
CommandSent(rows) ==
    /\ main'.pc \in {"due", "exit"} /\ main'.abort = main.abort /\ main'.sent = main.sent + 1
    /\ main'.late = (IF PeerDown THEN main.late + 1 ELSE 0)
    /\ ~rows.error /\ rows.queue < LogCapacity /\ log' = [rows EXCEPT !.queue = @ + 1]
GivesUp == main'.pc = "cleanup" /\ main'.abort /\ main'.plan = CleanupOf
IssueOutcome(rows) ==
    \/ CommandSent(rows)
    \/ GivesUp /\ main'.late \in {main.late, IF PeerDown THEN main.late + 1 ELSE 0} /\ log' = rows

LEMMA AbortIsLoop ==
  ASSUME LoopTypes, main' = Aborted(main)
  PROVE  LoopTypes' /\ GivesUp /\ main'.late = main.late /\ main'.sent = main.sent
BY DEF LoopTypes, LoopType, Aborted, GivesUp, Places

\* The loop that has taken in predictions differs in its history alone.
Alike(m) ==
    /\ LoopType(m) /\ m.pc = main.pc /\ m.tick = main.tick /\ m.next = main.next /\ m.abort = main.abort
    /\ m.sent = main.sent /\ m.late = main.late /\ m.cmd = main.cmd
LEMMA AbsorbingIsAlike ==
  ASSUME LoopTypes
  PROVE  Alike(Absorbing) /\ (~Absorbing.overrun => ~main.overrun /\ BacklogFits)
<1> DEFINE grown == main.overrun \/ ~BacklogFits
<1>1. grown \in BOOLEAN
  OBVIOUS
<1>2. Absorbing = [main EXCEPT !.overrun = grown]
  BY DEF Absorbing
<1> HIDE DEF grown
<1>3. Alike(Absorbing) /\ Absorbing.overrun = grown
  BY <1>1, <1>2 DEF LoopTypes, LoopType, Alike
<1> QED
  BY <1>3 DEF grown

LEMMA AlikeAborts ==
  ASSUME NEW m, Alike(m), main' = Aborted(m)
  PROVE  /\ LoopTypes' /\ GivesUp /\ main'.late = main.late /\ main'.sent = main.sent
         /\ main'.cmd = main.cmd /\ main'.overrun = m.overrun
BY DEF Alike, LoopTypes, LoopType, Aborted, GivesUp, Places

LEMMA LoggedIsLog ==
  ASSUME NEW rows \in LogType, LogRoom(rows)
  PROVE  Logged(rows) = [rows EXCEPT !.queue = @ + 1] /\ Logged(rows) \in LogType
BY RolloutAssumption DEF LogType, Logged, LogRoom

LEMMA IssueEffect ==
  ASSUME LoopTypes, NEW m, Alike(m), NEW sel, NEW rows \in LogType, faults \in 0 .. MaxFaults, Issue(m, sel, rows)
  PROVE  LoopTypes' /\ log' \in LogType /\ faults' \in 0 .. MaxFaults /\ IssueOutcome(rows)
<1> DEFINE sent == [m EXCEPT !.sent = @ + 1, !.late = IF PeerDown THEN @ + 1 ELSE 0,
                                !.cmd = [kind |-> sel.kind, age |-> now - sel.point.end, id |-> sel.point.id]]
           went == [sent EXCEPT !.tick = @ + 1, !.next = NextCommand, !.pc = Looping]
<1> DEFINE late == IF PeerDown THEN main.late + 1 ELSE 0
<1>4. late \in Nat
  BY DEF LoopTypes, LoopType
<1>5. /\ LoopType(sent) /\ sent.abort = main.abort /\ sent.sent = main.sent + 1 /\ sent.late = late
  <2>1. sent = [m EXCEPT !.sent = main.sent + 1, !.late = late,
                         !.cmd = [kind |-> sel.kind, age |-> now - sel.point.end, id |-> sel.point.id]]
    BY DEF Alike, LoopType
  <2>2. main.sent + 1 \in Nat /\ LoopType(m) /\ m.abort = main.abort
    BY DEF LoopTypes, LoopType, Alike
  <2> HIDE DEF late, sent
  <2> QED
    BY <2>1, <2>2, <1>4, Zenon DEF LoopType
<1> HIDE DEF sent
<1>1. CASE src.ok /\ LogRoom(rows) /\ log' = Logged(rows) /\ faults' = faults /\ main' = went
  <2>1. Looping \in {"due", "exit"}
    BY DEF Looping
  <2>2. LoopTypes' /\ main'.pc \in {"due", "exit"} /\ main'.abort = main.abort /\ main'.sent = main.sent + 1
        /\ main'.late = late
    <3>1. sent.tick + 1 \in Nat
      BY <1>5 DEF LoopType
    <3>2. Looping \in Places
      BY <2>1 DEF Places
    <3>3. main' = [sent EXCEPT !.tick = sent.tick + 1, !.next = NextCommand, !.pc = Looping]
      BY <1>1
    <3> HIDE DEF went, late
    <3>4. LoopTypes' /\ main'.pc = Looping /\ main'.abort = sent.abort /\ main'.sent = sent.sent /\ main'.late = sent.late
      BY <1>5, <3>1, <3>2, <3>3, Zenon DEF LoopTypes, LoopType
    <3> QED
      BY <1>5, <2>1, <3>4
  <2> QED
    BY <1>1, <2>2, LoggedIsLog DEF IssueOutcome, CommandSent, LogRoom
<1>2. CASE main' = Aborted(sent) /\ log' = rows /\ faults' = faults
  <2>1. LoopTypes' /\ GivesUp /\ main'.late = late
    BY <1>2, <1>5 DEF LoopTypes, LoopType, Places, Aborted, GivesUp
  <2> QED
    BY <1>2, <2>1 DEF IssueOutcome
<1>3. CASE (ActionRefused \/ PublicationFails) /\ main' = Aborted(m) /\ log' = rows
  <2>1. faults' \in 0 .. MaxFaults
    BY <1>3, RolloutAssumption DEF ActionRefused, PublicationFails
  <2> QED
    BY <1>3, <2>1, AlikeAborts DEF IssueOutcome
<1> QED
  BY <1>1, <1>2, <1>3 DEF Issue, sent

\* A tick of the asynchronous loop.
LEMMA AsyncEffect ==
  ASSUME TypeInv, IdInv, AsyncTick
  PROVE  /\ LoopTypes' /\ log' \in LogType /\ faults' \in 0 .. MaxFaults /\ BufferTypes' /\ IdInv'
         /\ \/ GivesUp /\ main'.late = main.late /\ log' = log
            \/ ~PeerDown /\ IssueOutcome(log)
<1>1. CASE ~PeersOk
  <2>1. main' = Aborted(main) /\ UNCHANGED <<ens, pending, log, faults, inf>>
    BY <1>1 DEF AsyncTick
  <2> QED
    BY <2>1, AbortIsLoop, SameBuffers DEF TypeInv, ThreadTypes, WorldTypes
<1>2. CASE PeersOk
  <2> DEFINE sel == Select(AddPredictions(ens, Range(pending)), main.tick)
             hold == [sel EXCEPT !.kind = IF @ = "none" THEN "startup" ELSE @]
  <2>1. /\ ens' = sel.buffer /\ pending' = <<>> /\ inf' = inf
        /\ \/ Issue(Absorbing, hold, log)
           \/ main' = Aborted(Absorbing) /\ UNCHANGED <<log, faults>>
    BY <1>2 DEF AsyncTick
  <2>2. BufferTypes' /\ IdInv'
    BY <2>1, AsyncBuffers DEF TypeInv
  <2> HIDE DEF sel, hold
  <2>3. ~PeerDown
    BY <1>2 DEF PeersOk, PeerDown, TypeInv, ThreadTypes
  <2>4. LoopTypes /\ log \in LogType /\ faults \in 0 .. MaxFaults
    BY DEF TypeInv, ThreadTypes, WorldTypes
  <2>5. CASE Issue(Absorbing, hold, log)
    BY <2>2, <2>3, <2>4, <2>5, IssueEffect, AbsorbingIsAlike
  <2>6. CASE main' = Aborted(Absorbing) /\ UNCHANGED <<log, faults>>
    BY <2>2, <2>4, <2>6, AlikeAborts, AbsorbingIsAlike
  <2> QED
    BY <2>1, <2>5, <2>6
<1> QED
  BY <1>1, <1>2

\* An answer of the canonical loop: the query is recorded before the command.
LEMMA CanonicalEffect ==
  ASSUME TypeInv, IdInv, CanonicalAnswer
  PROVE  /\ LoopTypes' /\ ThreadTypes' /\ faults' \in 0 .. MaxFaults /\ BufferTypes' /\ IdInv'
         /\ inf'.error = inf.error /\ inf'.pc = inf.pc
         /\ \/ GivesUp /\ main'.late = main.late
            \/ /\ inf'.seq = inf.seq + 1 /\ LogRoom(log)
               /\ IssueOutcome([log EXCEPT !.queue = @ + 1])
<1>1. LoopTypes /\ log \in LogType /\ faults \in 0 .. MaxFaults
  BY DEF TypeInv, ThreadTypes, WorldTypes
<1>2. CASE ~(IsPrediction /\ LogRoom(log))
  <2>1. main' = Aborted(main) /\ UNCHANGED <<ens, pending, log, faults, inf>>
    BY <1>2 DEF CanonicalAnswer
  <2> QED
    BY <1>1, <2>1, AbortIsLoop, SameBuffers DEF TypeInv, ThreadTypes
<1>3. CASE IsPrediction /\ LogRoom(log)
  <2> DEFINE p == [id |-> inf.seq, q |-> main.tick, end |-> now]
             sel == Select(AddPrediction(ens, p), main.tick)
  <2>1. /\ inf' = [inf EXCEPT !.seq = @ + 1] /\ ens' = sel.buffer /\ pending' = pending
        /\ \/ Issue(Absorbing, sel, Logged(log))
           \/ main' = Aborted(Absorbing) /\ log' = Logged(log) /\ faults' = faults
    BY <1>3 DEF CanonicalAnswer
  <2>2. inf'.seq = inf.seq + 1 /\ inf'.error = inf.error /\ inf'.pc = inf.pc
        /\ inf' \in [pc : {"off", "due", "wait", "ended"}, due : {inf'.due}, seq : Nat, error : BOOLEAN, stop : BOOLEAN]
    BY <2>1 DEF TypeInv, ThreadTypes
  <2>3. BufferTypes' /\ IdInv'
    BY <2>1, <2>2, CanonicalBuffers DEF TypeInv
  <2> HIDE DEF p, sel
  <2>4. Logged(log) \in LogType /\ Logged(log) = [log EXCEPT !.queue = @ + 1]
    BY <1>1, <1>3, LoggedIsLog
  <2>5. LoopTypes' /\ log' \in LogType /\ faults' \in 0 .. MaxFaults /\ IssueOutcome(Logged(log))
    <3>1. CASE Issue(Absorbing, sel, Logged(log))
      BY <1>1, <2>4, <3>1, IssueEffect, AbsorbingIsAlike
    <3>2. CASE main' = Aborted(Absorbing) /\ log' = Logged(log) /\ faults' = faults
      BY <1>1, <2>4, <3>2, AlikeAborts, AbsorbingIsAlike DEF IssueOutcome
    <3> QED
      BY <2>1, <3>1, <3>2
  <2> QED
    BY <1>3, <2>2, <2>3, <2>4, <2>5 DEF ThreadTypes
<1> QED
  BY <1>2, <1>3

\* The world's own steps leave the loop and its buffers alone.
Environment == Advance \/ Refresh \/ Breaks \/ ModelServe \/ LogStep
LEMMA EnvironmentEffect ==
  ASSUME TypeInv, Environment
  PROVE  /\ UNCHANGED <<mode, main, inf, pending, ens>> /\ log' \in LogType
         /\ now' \in 0 .. MaxTime /\ faults' \in 0 .. MaxFaults
         /\ arm' = arm \/ (arm.native = "up" /\ arm' = [arm EXCEPT !.native = "down"])
         /\ hand' = hand \/ (hand \in {"started", "active"} /\ hand' = "failed")
         /\ \/ log' = log
            \/ log.pc = "run" /\ log'.pc = "run" /\ log'.written + log'.queue = log.written + log.queue /\ log'.error = log.error
            \/ log.pc = "run" /\ log'.pc = "ended" /\ log'.error /\ log'.written + log'.queue = log.written + log.queue
               /\ main.pc \notin {"start", "ended"}
<1> USE RolloutAssumption
<1>1. log \in LogType /\ now \in 0 .. MaxTime /\ faults \in 0 .. MaxFaults
  BY DEF TypeInv, ThreadTypes, WorldTypes
<1>2. CASE Advance
  BY <1>1, <1>2 DEF Advance
<1>3. CASE Refresh
  BY <1>1, <1>3 DEF Refresh
<1>4. CASE Breaks
  <2>1. faults' \in 0 .. MaxFaults /\ UNCHANGED <<mode, now, main, inf, pending, ens>> /\ main.pc \notin {"start", "ended"}
    BY <1>1, <1>4 DEF Breaks
  <2>2. CASE UNCHANGED log
    BY <1>1, <1>4, <2>1, <2>2 DEF Breaks, CameraFails, ArmProcessExits, HandThreadFails, ModelExits, WriterFails
  <2>3. CASE WriterFails
    BY <1>1, <2>1, <2>3 DEF WriterFails, LogType
  <2> QED
    BY <1>4, <2>2, <2>3 DEF Breaks, CameraFails, ArmProcessExits, HandThreadFails, ModelExits
<1>5. CASE ModelServe
  BY <1>1, <1>5 DEF ModelServe
<1>6. CASE LogStep
  <2>1. UNCHANGED <<mode, now, faults, main, inf, pending, ens, arm, hand>> /\ log.pc = "run" /\ log.queue > 0
        /\ log' = [log EXCEPT !.queue = @ - 1, !.written = @ + 1]
    BY <1>6 DEF LogStep
  <2>2. log' = [log EXCEPT !.queue = log.queue - 1, !.written = log.written + 1]
    BY <1>1, <2>1 DEF LogType
  <2>3. log' \in LogType /\ log'.pc = "run" /\ log'.error = log.error /\ log'.queue = log.queue - 1
        /\ log'.written = log.written + 1
    <3>1. log.queue - 1 \in 0 .. LogCapacity /\ log.written + 1 \in Nat
      BY <1>1, <2>1 DEF LogType
    <3> QED
      BY <1>1, <2>1, <2>2, <3>1, Zenon DEF LogType
  <2>4. log'.written + log'.queue = log.written + log.queue
    BY <1>1, <2>3 DEF LogType
  <2> QED
    BY <1>1, <2>1, <2>3, <2>4
<1> QED
  BY <1>2, <1>3, <1>4, <1>5, <1>6 DEF Environment

\* A step of the inference thread: an answer that is recorded moves the two
\* sides of the account together.
Account(l, i) == (l.written + l.queue) - i.seq
LEMMA InferenceEffect ==
  ASSUME TypeInv, IdInv, InfStep
  PROVE  /\ UNCHANGED <<mode, now, faults, main, ens, arm, hand>> /\ inf.pc \in {"due", "wait"}
         /\ ThreadTypes' /\ BufferTypes' /\ IdInv' /\ (inf.error => inf'.error)
         /\ log'.pc = log.pc /\ log'.error = log.error
         /\ ~inf'.error => Account(log', inf') = Account(log, inf)
<1>1. ThreadTypes /\ log \in LogType
  BY DEF TypeInv, ThreadTypes
<1>2. ASSUME UNCHANGED <<mode, now, faults, main, ens, arm, hand, pending, log>>, inf.pc \in {"due", "wait"},
             \/ inf' = [inf EXCEPT !.pc = "wait"] \/ inf' = [inf EXCEPT !.pc = "ended"] \/ InfFails
      PROVE  /\ ThreadTypes' /\ BufferTypes' /\ IdInv' /\ (inf.error => inf'.error)
             /\ log'.pc = log.pc /\ log'.error = log.error
             /\ ~inf'.error => Account(log', inf') = Account(log, inf)
  <2>1. ThreadTypes' /\ inf'.seq = inf.seq /\ (inf.error => inf'.error)
    BY <1>1, <1>2 DEF ThreadTypes, InfFails
  <2> QED
    BY <1>2, <2>1, SameBuffers DEF TypeInv, Account
<1>3. CASE InfStart
  <2>1. UNCHANGED <<mode, now, faults, main, ens, arm, hand, pending, log>> /\ inf.pc = "due"
    BY <1>3 DEF InfStart
  <2>2. inf' = [inf EXCEPT !.pc = "wait"] \/ InfFails
    BY <1>3 DEF InfStart
  <2> QED
    BY <1>2, <2>1, <2>2
<1>4. CASE InfStop
  <2>1. UNCHANGED <<mode, now, faults, main, ens, arm, hand, pending, log>> /\ inf.pc = "due"
    BY <1>4 DEF InfStop
  <2>2. inf' = [inf EXCEPT !.pc = "ended"]
    BY <1>4 DEF InfStop
  <2> QED
    BY <1>2, <2>1, <2>2
<1>5. CASE InfAnswer
  <2>1. UNCHANGED <<mode, now, faults, main, ens, arm, hand>> /\ inf.pc = "wait"
    BY <1>5 DEF InfAnswer
  <2>2. CASE ~IsPrediction
    <3>1. InfFails /\ UNCHANGED <<pending, log>>
      BY <1>5, <2>2 DEF InfAnswer
    <3> QED
      BY <1>2, <2>1, <3>1
  <2>3. CASE IsPrediction /\ LogRoom(log)
    <3>1. /\ pending' = Publish([id |-> inf.seq, q |-> QueryCommandTick, end |-> now]) /\ log' = Logged(log)
          /\ inf' = [inf EXCEPT !.pc = "due", !.seq = @ + 1, !.due = NextDue]
      BY <1>5, <2>3 DEF InfAnswer
    <3>2. inf.seq + 1 \in Nat
      BY <1>1 DEF ThreadTypes
    <3>3. /\ inf' \in [pc : {"off", "due", "wait", "ended"}, due : {inf'.due}, seq : Nat, error : BOOLEAN, stop : BOOLEAN]
          /\ inf'.seq = inf.seq + 1 /\ inf'.error = inf.error
      BY <1>1, <3>1, <3>2 DEF ThreadTypes
    <3>4. BufferTypes' /\ IdInv'
      BY <2>1, <3>1, <3>3, PublishedBuffers DEF TypeInv
    <3>5. log' = [log EXCEPT !.queue = log.queue + 1] /\ log' \in LogType
      BY <1>1, <2>3, <3>1, LoggedIsLog
    <3>6. log'.pc = log.pc /\ log'.error = log.error /\ log'.written = log.written /\ log'.queue = log.queue + 1
      BY <1>1, <3>5 DEF LogType
    <3>7. Account(log', inf') = Account(log, inf)
      BY <1>1, <3>3, <3>6 DEF Account, LogType, ThreadTypes
    <3> QED
      BY <2>1, <3>3, <3>4, <3>5, <3>6, <3>7 DEF ThreadTypes
  <2>4. CASE IsPrediction /\ ~LogRoom(log)
    <3>1. /\ pending' = Publish([id |-> inf.seq, q |-> QueryCommandTick, end |-> now]) /\ log' = log
          /\ inf' = [inf EXCEPT !.pc = "ended", !.error = TRUE, !.seq = @ + 1]
      BY <1>5, <2>4 DEF InfAnswer
    <3>2. inf.seq + 1 \in Nat
      BY <1>1 DEF ThreadTypes
    <3>3. /\ inf' \in [pc : {"off", "due", "wait", "ended"}, due : {inf'.due}, seq : Nat, error : BOOLEAN, stop : BOOLEAN]
          /\ inf'.seq = inf.seq + 1 /\ inf'.error
      BY <1>1, <3>1, <3>2 DEF ThreadTypes
    <3>4. BufferTypes' /\ IdInv'
      BY <2>1, <3>1, <3>3, PublishedBuffers DEF TypeInv
    <3> QED
      BY <1>1, <2>1, <3>1, <3>3, <3>4 DEF ThreadTypes
  <2> QED
    BY <2>2, <2>3, <2>4
<1> QED
  <2>1. UNCHANGED <<mode, now, faults, main, ens, arm, hand>> /\ inf.pc \in {"due", "wait"}
    BY DEF InfStep, InfStart, InfStop, InfAnswer
  <2> QED
    BY <2>1, <1>3, <1>4, <1>5 DEF InfStep

\* A step of the start.
LEMMA StartEffect ==
  ASSUME TypeInv, StartStep
  PROVE  /\ LoopTypes' /\ ThreadTypes' /\ WorldTypes' /\ UNCHANGED <<mode, pending, ens>> /\ main.pc = "start"
         /\ inf'.seq = inf.seq /\ inf'.error = inf.error
         /\ log'.queue = log.queue /\ log'.written = log.written /\ log'.error = log.error
         /\ main'.late = main.late /\ main'.sent = main.sent
         /\ GivesUp \/ (main'.pc \in {"start", "due"} /\ main'.abort = main.abort)
<1>1. LoopTypes /\ ThreadTypes /\ log \in LogType /\ WorldTypes
  BY DEF TypeInv, ThreadTypes
<1>2. UNCHANGED <<mode, now, pending, ens>> /\ main.pc = "start"
  BY DEF StartStep
<1>3. CASE faults < MaxFaults /\ faults' = faults + 1 /\ main' = Aborted(main) /\ UNCHANGED <<log, hand, arm, inf>>
  <2>1. faults' \in 0 .. MaxFaults
    BY <1>1, <1>3, RolloutAssumption DEF WorldTypes
  <2> QED
    BY <1>1, <1>2, <1>3, <2>1, AbortIsLoop DEF ThreadTypes, WorldTypes
<1>4. ASSUME NEW step, Started(step), UNCHANGED faults,
             main' = [main EXCEPT !.plan = Tail(@), !.next = now, !.pc = IF Tail(main.plan) = <<>> THEN "due" ELSE "start"]
      PROVE  /\ LoopTypes' /\ ThreadTypes' /\ WorldTypes' /\ inf'.seq = inf.seq /\ inf'.error = inf.error
             /\ log'.queue = log.queue /\ log'.written = log.written /\ log'.error = log.error
             /\ main'.late = main.late /\ main'.sent = main.sent
             /\ main'.pc \in {"start", "due"} /\ main'.abort = main.abort
  <2>1. LoopTypes' /\ main'.late = main.late /\ main'.sent = main.sent
        /\ main'.pc \in {"start", "due"} /\ main'.abort = main.abort
    BY <1>1, <1>4 DEF LoopTypes, LoopType, Places
  <2>2. log' \in LogType /\ log'.queue = log.queue /\ log'.written = log.written /\ log'.error = log.error
    BY <1>1, <1>4 DEF Started, StartLog, LogType
  <2>3. ThreadTypes' /\ inf'.seq = inf.seq /\ inf'.error = inf.error
    BY <1>1, <1>4, <2>2 DEF Started, StartInference, ThreadTypes
  <2>4. hand' \in HandState
    BY <1>1, <1>4 DEF Started, StartHand, HandState, WorldTypes
  <2>5. arm' \in [native : {"off", "up", "down"}]
    BY <1>1, <1>4 DEF Started, StartArm, WorldTypes
  <2> QED
    BY <1>1, <1>2, <1>4, <2>1, <2>2, <2>3, <2>4, <2>5 DEF WorldTypes
<1> QED
  BY <1>2, <1>3, <1>4 DEF StartStep

\* The loop asks, or hears an answer and sends nothing.
LEMMA QuietEffect ==
  ASSUME TypeInv, CanonicalAsk \/ ShadowAsk \/ ShadowAnswer
  PROVE  /\ UNCHANGED <<mode, now, faults, inf, pending, ens, log, arm, hand>> /\ main.pc \in {"due", "wait"}
         /\ LoopTypes' /\ main'.late = main.late /\ main'.sent = main.sent
         /\ main'.pc = "wait" => mode = "shadow" \/ ~PeerDown
         /\ \/ GivesUp
            \/ main'.pc \in {"due", "wait"} /\ main'.abort = main.abort
            \/ mode = "shadow" /\ main'.pc = "cleanup" /\ main'.plan = CleanupOf
<1>1. LoopTypes
  BY DEF TypeInv
<1>2. CASE main' = Aborted(main)
  <2>1. UNCHANGED <<mode, now, faults, inf, pending, ens, log, arm, hand>> /\ main.pc \in {"due", "wait"}
    BY DEF CanonicalAsk, ShadowAsk, ShadowAnswer
  <2> QED
    BY <1>1, <1>2, <2>1, AbortIsLoop DEF GivesUp
<1>3. CASE CanonicalAsk /\ PeersOk /\ SnapshotOk /\ model.up
  <2>1. UNCHANGED <<mode, now, faults, inf, pending, ens, log, arm, hand>> /\ main.pc = "due"
        /\ main' = [main EXCEPT !.pc = "wait"]
    BY <1>3 DEF CanonicalAsk
  <2>2. ~PeerDown
    BY <1>3 DEF PeersOk, PeerDown
  <2>3. LoopTypes' /\ main'.late = main.late /\ main'.sent = main.sent /\ main'.pc = "wait" /\ main'.abort = main.abort
    BY <1>1, <2>1 DEF LoopTypes, LoopType, Places
  <2> QED
    BY <2>1, <2>2, <2>3
<1>4. CASE ShadowAsk /\ main' # Aborted(main)
  <2>1. UNCHANGED <<mode, now, faults, inf, pending, ens, log, arm, hand>> /\ main.pc = "due" /\ mode = "shadow"
        /\ main' = [main EXCEPT !.pc = "wait", !.seen = IF main.tick < Duration THEN src.time ELSE @]
    BY <1>4 DEF ShadowAsk
  <2>2. LoopTypes' /\ main'.late = main.late /\ main'.sent = main.sent /\ main'.pc = "wait" /\ main'.abort = main.abort
    BY <1>1, <2>1 DEF LoopTypes, LoopType, Places
  <2> QED
    BY <2>1, <2>2
<1>5. CASE ShadowAnswer /\ main' # Aborted(main)
  <2>1. UNCHANGED <<mode, now, faults, inf, pending, ens, log, arm, hand>> /\ main.pc = "wait" /\ mode = "shadow"
    BY <1>5 DEF ShadowAnswer
  <2>2. CASE main' = [main EXCEPT !.pc = "due", !.tick = @ + 1, !.next = IF @ + 1 < now - 1 THEN now ELSE @ + 1]
    <3>1. PICK n : main' = [main EXCEPT !.pc = "due", !.tick = main.tick + 1, !.next = n]
      BY <2>2
    <3>2. main.tick + 1 \in Nat /\ LoopType(main) /\ "due" \in Places
      BY <1>1 DEF LoopTypes, LoopType, Places
    <3>3. LoopTypes' /\ main'.late = main.late /\ main'.sent = main.sent /\ main'.pc = "due" /\ main'.abort = main.abort
      BY <3>1, <3>2, Zenon DEF LoopTypes, LoopType
    <3> QED
      BY <2>1, <3>3
  <2>3. CASE main' = [main EXCEPT !.pc = "cleanup", !.plan = ShadowCleanup]
    <3>1. LoopTypes' /\ main'.late = main.late /\ main'.sent = main.sent /\ main'.pc = "cleanup"
          /\ main'.plan = ShadowCleanup
      BY <1>1, <2>3 DEF LoopTypes, LoopType, Places
    <3> QED
      BY <2>1, <3>1 DEF CleanupOf
  <2> QED
    BY <1>5, <2>2, <2>3 DEF ShadowAnswer
<1> QED
  BY <1>2, <1>3, <1>4, <1>5 DEF CanonicalAsk

\* The loop ends: the thread is asked to stop, then waited for.
LEMMA ExitEffect ==
  ASSUME TypeInv, ExitLoop \/ ExitJoin
  PROVE  /\ UNCHANGED <<mode, now, faults, pending, ens, log, arm, hand>> /\ main.pc \in {"exit", "join"}
         /\ LoopTypes' /\ ThreadTypes' /\ main'.late = main.late /\ main'.sent = main.sent
         /\ inf'.pc = inf.pc /\ inf'.seq = inf.seq /\ inf'.error = inf.error
         /\ \/ GivesUp
            \/ main'.pc = "join" /\ main'.abort = main.abort
            \/ /\ main'.pc = "cleanup" /\ main'.plan = CleanupOf /\ main'.abort = main.abort
               /\ inf.pc \in {"off", "ended"} /\ ~inf.error
<1>1. LoopTypes /\ ThreadTypes
  BY DEF TypeInv
<1>2. CASE ExitLoop
  BY <1>1, <1>2 DEF ExitLoop, LoopTypes, LoopType, Places, ThreadTypes
<1>3. CASE ExitJoin /\ inf.pc \in {"off", "ended"} /\ ~inf.error
  BY <1>1, <1>3 DEF ExitJoin, LoopTypes, LoopType, Places, ThreadTypes
<1>4. CASE ExitJoin /\ ~(inf.pc \in {"off", "ended"} /\ ~inf.error)
  <2>1. main' = Aborted(main) /\ UNCHANGED <<mode, now, faults, pending, ens, log, arm, hand, inf>> /\ main.pc = "join"
    BY <1>4 DEF ExitJoin
  <2> QED
    BY <1>1, <2>1, AbortIsLoop DEF ThreadTypes
<1> QED
  BY <1>2, <1>3, <1>4

\* A step of the cleanup that does not raise goes to the next one; a step that
\* raises ends the program.
MovesOn ==
    /\ main'.plan = Tail(main.plan) /\ main'.pc = (IF Tail(main.plan) = <<>> THEN "ended" ELSE "cleanup")
    /\ (ArmIsDown => ArmIsDown') /\ (HandIsQuiet => HandIsQuiet')
    /\ (Head(main.plan) = "armStop" => ArmIsDown') /\ (Head(main.plan) = "handStop" => HandIsQuiet')
Raises ==
    /\ main'.pc = "ended" /\ main'.abort /\ main'.plan = main.plan
    /\ \/ Head(main.plan) = "armStop" /\ arm.native = "up"
       \/ Head(main.plan) \in {"handCleanup", "modelStop", "save"}
    /\ arm' = arm /\ hand' = hand /\ log' = log

LEMMA GoesOn ==
  ASSUME LoopTypes, main.pc = "cleanup"
  PROVE  /\ LoopType(Goes(main)) /\ Goes(main).late = main.late /\ Goes(main).sent = main.sent
         /\ Goes(main).abort = main.abort /\ Goes(main).plan = Tail(main.plan)
         /\ Goes(main).pc = IF Tail(main.plan) = <<>> THEN "ended" ELSE "cleanup"
BY DEF LoopTypes, LoopType, Goes, Places

LEMMA CleanupEffect ==
  ASSUME TypeInv, CleanupStep \/ CleanupRaises \/ ModelWait \/ FinishLog
  PROVE  /\ UNCHANGED <<mode, pending, ens>> /\ main.pc = "cleanup"
         /\ LoopTypes' /\ ThreadTypes' /\ WorldTypes' /\ main'.late = main.late /\ main'.sent = main.sent
         /\ inf'.pc = inf.pc /\ inf'.seq = inf.seq /\ inf'.error = inf.error
         /\ log'.queue = log.queue /\ log'.written = log.written /\ log'.error = log.error
         /\ log' = log \/ log'.pc = "ended"
         /\ MovesOn \/ Raises
         /\ main.abort => main'.abort
         /\ Head(main.plan) = "finish" /\ ~main'.abort => log.pc = "run" /\ log'.pc = "ended" /\ log.queue = 0
<1>1. LoopTypes /\ ThreadTypes /\ WorldTypes /\ log \in LogType
  BY DEF TypeInv, ThreadTypes
<1>2. CASE CleanupStep
  <2> DEFINE step == Head(main.plan)
  <2>1. /\ UNCHANGED <<mode, now, faults, pending, ens, log>> /\ main.pc = "cleanup" /\ main' = Goes(main)
        /\ step # "finish"
        /\ arm' = (IF step = "armStop" /\ arm.native = "up" THEN [arm EXCEPT !.native = "down"] ELSE arm)
        /\ inf' = (IF step = "joinInference" THEN [inf EXCEPT !.stop = TRUE] ELSE inf)
        /\ hand' = CASE step = "handStop" /\ hand # "off" -> (IF mode = "shadow" THEN "stopped" ELSE HandAfter)
                     [] OTHER -> hand
    BY <1>2 DEF CleanupStep
  <2> HIDE DEF step
  <2>2. ThreadTypes' /\ inf'.pc = inf.pc /\ inf'.seq = inf.seq /\ inf'.error = inf.error
    BY <1>1, <2>1 DEF ThreadTypes
  <2>3. arm' \in [native : {"off", "up", "down"}] /\ (ArmIsDown => ArmIsDown') /\ (step = "armStop" => ArmIsDown')
    BY <1>1, <2>1 DEF WorldTypes, ArmIsDown
  <2>4. hand' = hand \/ hand' \in {"stopped", "held"}
    BY <2>1 DEF HandAfter
  <2>5. step = "handStop" => hand' \in {"stopped", "held"} \/ hand' = "off"
    BY <2>1 DEF HandAfter
  <2>6. hand' \in HandState /\ (HandIsQuiet => HandIsQuiet') /\ (step = "handStop" => HandIsQuiet')
    BY <1>1, <2>4, <2>5 DEF WorldTypes, HandState, HandIsQuiet
  <2>7. WorldTypes'
    BY <1>1, <2>1, <2>3, <2>6 DEF WorldTypes
  <2>8. LoopTypes' /\ main'.late = main.late /\ main'.sent = main.sent /\ main'.abort = main.abort
        /\ main'.plan = Tail(main.plan) /\ main'.pc = (IF Tail(main.plan) = <<>> THEN "ended" ELSE "cleanup")
    BY <1>1, <2>1, GoesOn DEF LoopTypes
  <2>9. MovesOn
    BY <2>3, <2>6, <2>8 DEF MovesOn, step
  <2> QED
    BY <2>1, <2>2, <2>7, <2>8, <2>9 DEF step
<1>3. CASE CleanupRaises
  <2>1. /\ UNCHANGED <<mode, now, inf, pending, ens, log, arm, hand>> /\ main.pc = "cleanup"
        /\ faults < MaxFaults /\ faults' = faults + 1
        /\ main' = [main EXCEPT !.pc = "ended", !.abort = TRUE]
        /\ \/ Head(main.plan) = "armStop" /\ arm.native = "up"
           \/ Head(main.plan) \in {"handCleanup", "modelStop", "save"}
    BY <1>3 DEF CleanupRaises
  <2>2. LoopTypes' /\ main'.late = main.late /\ main'.sent = main.sent /\ main'.pc = "ended" /\ main'.abort
        /\ main'.plan = main.plan
    BY <1>1, <2>1 DEF LoopTypes, LoopType, Places
  <2>3. WorldTypes' /\ ThreadTypes'
    BY <1>1, <2>1, RolloutAssumption DEF WorldTypes, ThreadTypes
  <2> QED
    BY <2>1, <2>2, <2>3 DEF Raises
<1>4. CASE ModelWait
  <2>1. /\ UNCHANGED <<mode, now, faults, inf, pending, ens, log, arm, hand>> /\ main.pc = "cleanup"
        /\ main' = Goes(main) /\ Head(main.plan) = "modelWait"
    BY <1>4 DEF ModelWait
  <2>2. LoopTypes' /\ main'.late = main.late /\ main'.sent = main.sent /\ main'.abort = main.abort
        /\ main'.plan = Tail(main.plan) /\ main'.pc = (IF Tail(main.plan) = <<>> THEN "ended" ELSE "cleanup")
    BY <1>1, <2>1, GoesOn DEF LoopTypes
  <2>3. MovesOn
    BY <2>1, <2>2 DEF MovesOn, ArmIsDown, HandIsQuiet
  <2> QED
    BY <1>1, <2>1, <2>2, <2>3 DEF WorldTypes, ThreadTypes
<1>5. CASE FinishLog
  <2>1. /\ UNCHANGED <<mode, now, faults, inf, pending, ens, arm, hand>> /\ main.pc = "cleanup"
        /\ Head(main.plan) = "finish"
        /\ \/ log.pc = "run" /\ log.queue = 0 /\ main' = Goes(main) /\ log' = [log EXCEPT !.pc = "ended"]
           \/ main' = [Goes(main) EXCEPT !.abort = TRUE] /\ log' = log
    BY <1>5 DEF FinishLog
  <2>2. /\ LoopTypes' /\ main'.late = main.late /\ main'.sent = main.sent
        /\ main'.plan = Tail(main.plan) /\ main'.pc = (IF Tail(main.plan) = <<>> THEN "ended" ELSE "cleanup")
        /\ (main' = Goes(main) /\ main'.abort = main.abort) \/ main'.abort
    BY <1>1, <2>1, GoesOn DEF LoopTypes, LoopType
  <2>3. MovesOn
    BY <2>1, <2>2 DEF MovesOn, ArmIsDown, HandIsQuiet
  <2>4. /\ log' \in LogType /\ log'.queue = log.queue /\ log'.written = log.written /\ log'.error = log.error
        /\ log' = log \/ (log'.pc = "ended" /\ log.pc = "run" /\ log.queue = 0)
        /\ ~main'.abort => log'.pc = "ended" /\ log.pc = "run" /\ log.queue = 0
    BY <1>1, <2>1, GoesOn DEF LogType, LoopTypes, LoopType
  <2> QED
    BY <1>1, <2>1, <2>2, <2>3, <2>4 DEF WorldTypes, ThreadTypes
<1> QED
  BY <1>2, <1>3, <1>4, <1>5

-----------------------------------------------------------------------------
(* The plan of the cleanup *)

\* What is left after a step is what was left, without its first element.
LEMMA PlanSuffixes ==
  ASSUME NEW S, NEW s \in Seq(S), NEW k \in 1 .. Len(s)
  PROVE  LET rest == SubSeq(s, k, Len(s)) IN
         /\ rest # <<>> /\ Head(rest) = s[k] /\ Tail(rest) = SubSeq(s, k + 1, Len(s))
         /\ Tail(rest) = <<>> <=> k = Len(s)
<1> DEFINE rest == SubSeq(s, k, Len(s))
<1>1. /\ rest \in Seq(S) /\ Len(rest) = Len(s) - k + 1
      /\ \A i \in 1 .. Len(rest) : rest[i] = s[k + i - 1]
  OBVIOUS
<1>2. rest # <<>> /\ Head(rest) = s[k]
  <2> HIDE DEF rest
  <2>1. 1 \in 1 .. Len(rest) /\ k + 1 - 1 = k
    BY <1>1
  <2>2. rest # <<>>
    BY <2>1
  <2>3. Head(rest) = rest[1]
    BY <1>1, <2>2
  <2>4. rest[1] = s[k + 1 - 1]
    BY <1>1, <2>1
  <2> QED
    BY <2>1, <2>2, <2>3, <2>4
<1>3. /\ SubSeq(s, k + 1, Len(s)) \in Seq(S) /\ Len(SubSeq(s, k + 1, Len(s))) = Len(s) - k
      /\ \A i \in 1 .. Len(s) - k : SubSeq(s, k + 1, Len(s))[i] = s[k + i]
  OBVIOUS
<1> HIDE DEF rest
<1>4. /\ Tail(rest) \in Seq(S) /\ Len(Tail(rest)) = Len(s) - k
      /\ \A i \in 1 .. Len(s) - k : Tail(rest)[i] = s[k + i]
  BY <1>1, <1>2
<1>5. Tail(rest) = SubSeq(s, k + 1, Len(s))
  <2> DEFINE t == Tail(rest)
             u == SubSeq(s, k + 1, Len(s))
  <2>1. t \in Seq(S) /\ u \in Seq(S) /\ Len(t) = Len(u) /\ \A i \in 1 .. Len(t) : t[i] = u[i]
    <3>1. Len(s) - k \in Nat
      OBVIOUS
    <3> QED  BY <1>3, <1>4, <3>1
  <2>2. t = u
    <3> HIDE DEF t, u
    <3> QED  BY <2>1, SeqEqual
  <2> QED  BY <2>2
<1>6. Tail(rest) = <<>> <=> k = Len(s)
  <2> DEFINE t == Tail(rest)
  <2>1. t \in Seq(S) /\ Len(t) = Len(s) - k /\ Len(s) \in Nat
    BY <1>4
  <2> HIDE DEF t
  <2>2. t = <<>> <=> Len(t) = 0
    BY <2>1
  <2>3. Len(t) = 0 <=> k = Len(s)
    BY <2>1
  <2> QED
    BY <2>2, <2>3 DEF t
<1> QED
  BY <1>2, <1>5, <1>6 DEF rest

\* The two plans, by position.
Steps == {"close", "armStop", "joinInference", "handStop", "handCleanup", "modelStop", "modelWait", "save", "finish"}
LEMMA PlanShape ==
  /\ CleanupOf \in Seq(Steps) /\ Len(CleanupOf) \in Nat \ {0}
  /\ SubSeq(CleanupOf, 1, Len(CleanupOf)) = CleanupOf
  /\ Behind(Len(CleanupOf) + 1, "armStop") /\ Behind(Len(CleanupOf) + 1, "handStop")
  /\ mode # "shadow" => CleanupOf[Len(CleanupOf)] = "finish"
  /\ \A k \in 1 .. Len(CleanupOf) :
        CleanupOf[k] \in {"handCleanup", "modelStop", "save"} => Behind(k, "armStop") /\ Behind(k, "handStop")
<1>1. CASE mode = "shadow"
  <2>1. CleanupOf = <<"close", "armStop", "handStop">>
    BY <1>1 DEF CleanupOf, ShadowCleanup
  <2> DEFINE t == <<"close", "armStop", "handStop">>
  <2>8. t \in Seq(Steps)
    BY DEF Steps
  <2>6. Len(t) = 3 /\ t[1] = "close" /\ t[2] = "armStop" /\ t[3] = "handStop"
    OBVIOUS
  <2> HIDE DEF t
  <2>7. CleanupOf = t
    BY <2>1 DEF t
  <2>2. CleanupOf \in Seq(Steps) /\ Len(CleanupOf) = 3
        /\ CleanupOf[1] = "close" /\ CleanupOf[2] = "armStop" /\ CleanupOf[3] = "handStop"
    BY <2>6, <2>7, <2>8
  <2>3. SubSeq(CleanupOf, 1, Len(CleanupOf)) = CleanupOf
    BY <2>2
  <2>4. Behind(4, "armStop") /\ Behind(4, "handStop")
    BY <2>2 DEF Behind
  <2>5. \A k \in 1 .. 3 : CleanupOf[k] \notin {"handCleanup", "modelStop", "save"}
    BY <2>2
  <2> QED
    BY <1>1, <2>2, <2>3, <2>4, <2>5
<1>2. CASE mode # "shadow"
  <2>1. CleanupOf = <<"armStop", "joinInference", "handStop", "handCleanup", "modelStop", "modelWait", "save", "finish">>
    BY <1>2 DEF CleanupOf, RolloutCleanup
  <2> DEFINE t == <<"armStop", "joinInference", "handStop", "handCleanup", "modelStop", "modelWait", "save", "finish">>
  <2>8. t \in Seq(Steps)
    BY DEF Steps
  <2>6. Len(t) = 8 /\ t[1] = "armStop" /\ t[2] = "joinInference" /\ t[3] = "handStop" /\ t[8] = "finish"
    OBVIOUS
  <2> HIDE DEF t
  <2>7. CleanupOf = t
    BY <2>1 DEF t
  <2>2. /\ CleanupOf \in Seq(Steps) /\ Len(CleanupOf) = 8
        /\ CleanupOf[1] = "armStop" /\ CleanupOf[2] = "joinInference" /\ CleanupOf[3] = "handStop"
        /\ CleanupOf[8] = "finish"
    BY <2>6, <2>7, <2>8
  <2>3. SubSeq(CleanupOf, 1, Len(CleanupOf)) = CleanupOf
    BY <2>2
  <2>4. \A k \in 4 .. 9 : Behind(k, "armStop") /\ Behind(k, "handStop")
    BY <2>2 DEF Behind
  <2>5. \A k \in 1 .. 8 : CleanupOf[k] \in {"handCleanup", "modelStop", "save"} => k \in 4 .. 9
    BY <2>2
  <2> QED
    BY <1>2, <2>2, <2>3, <2>4, <2>5
<1> QED
  BY <1>1, <1>2

\* A cleanup begins at its first step.
LEMMA PlanBegins ==
  ASSUME mode' = mode, main'.pc = "cleanup", main'.plan = CleanupOf
  PROVE  PlanInv'
<1>1. CleanupOf' = CleanupOf
  BY DEF CleanupOf
<1>2. CleanupOf \in Seq(Steps) /\ Len(CleanupOf) \in Nat \ {0} /\ SubSeq(CleanupOf, 1, Len(CleanupOf)) = CleanupOf
  BY PlanShape
<1>3. ~Behind(1, "armStop")' /\ ~Behind(1, "handStop")'
  BY DEF Behind
<1>4. 1 \in 1 .. Len(CleanupOf)
  BY <1>2
<1>5. EndedIsSafe'
  BY DEF EndedIsSafe
<1> QED
  BY <1>1, <1>2, <1>3, <1>4, <1>5 DEF PlanInv

\* Outside the cleanup there is no plan to follow.
LEMMA PlanIdle ==
  ASSUME main'.pc \notin {"cleanup", "ended"}
  PROVE  PlanInv'
BY DEF PlanInv, EndedIsSafe

\* What is stopped is not started again.
LEMMA PlanStays ==
  ASSUME PlanInv, mode' = mode, main' = main, ArmIsDown => ArmIsDown', HandIsQuiet => HandIsQuiet',
         arm' = arm \/ main.pc # "ended"
  PROVE  PlanInv'
<1>1. CleanupOf' = CleanupOf
  BY DEF CleanupOf
<1>2. EndedIsSafe'
  BY DEF PlanInv, EndedIsSafe, ArmOutlivedStop, ArmIsDown, HandIsQuiet
<1>3. ASSUME main.pc = "cleanup"
      PROVE  \E k \in 1 .. Len(CleanupOf') :
               /\ main'.plan = SubSeq(CleanupOf', k, Len(CleanupOf'))
               /\ Behind(k, "armStop")' => ArmIsDown'
               /\ Behind(k, "handStop")' => HandIsQuiet'
  <2>1. PICK k \in 1 .. Len(CleanupOf) :
            /\ main.plan = SubSeq(CleanupOf, k, Len(CleanupOf))
            /\ Behind(k, "armStop") => ArmIsDown
            /\ Behind(k, "handStop") => HandIsQuiet
    BY <1>3 DEF PlanInv
  <2>2. (Behind(k, "armStop")' <=> Behind(k, "armStop")) /\ (Behind(k, "handStop")' <=> Behind(k, "handStop"))
    BY <1>1 DEF Behind
  <2> QED
    BY <1>1, <2>1, <2>2
<1> QED
  BY <1>2, <1>3 DEF PlanInv

\* The cleanup goes on, or ends with everything behind it.
LEMMA PlanMoves ==
  ASSUME PlanInv, mode' = mode, main.pc = "cleanup", MovesOn
  PROVE  PlanInv' /\ (main'.pc = "ended" /\ mode # "shadow" => Head(main.plan) = "finish")
<1>1. CleanupOf' = CleanupOf
  BY DEF CleanupOf
<1>2. PICK k \in 1 .. Len(CleanupOf) :
          /\ main.plan = SubSeq(CleanupOf, k, Len(CleanupOf))
          /\ Behind(k, "armStop") => ArmIsDown
          /\ Behind(k, "handStop") => HandIsQuiet
  BY DEF PlanInv
<1>3. CleanupOf \in Seq(Steps)
  BY PlanShape
<1>4. /\ Head(main.plan) = CleanupOf[k] /\ Tail(main.plan) = SubSeq(CleanupOf, k + 1, Len(CleanupOf))
      /\ Tail(main.plan) = <<>> <=> k = Len(CleanupOf)
  BY <1>2, <1>3, PlanSuffixes
<1>5. \A step : Behind(k + 1, step) => Behind(k, step) \/ CleanupOf[k] = step
  BY DEF Behind
<1>6. (Behind(k + 1, "armStop") => ArmIsDown') /\ (Behind(k + 1, "handStop") => HandIsQuiet')
  BY <1>2, <1>4, <1>5 DEF MovesOn
<1>7. CASE k = Len(CleanupOf)
  <2>1. main'.pc = "ended"
    BY <1>4, <1>7 DEF MovesOn
  <2>2. ArmIsDown' /\ HandIsQuiet' /\ main'.plan = <<>>
    BY <1>4, <1>6, <1>7, PlanShape DEF MovesOn
  <2>3. PlanInv'
    BY <2>1, <2>2 DEF PlanInv, EndedIsSafe, ArmOutlivedStop, ArmIsDown, HandIsQuiet
  <2> QED
    BY <1>4, <1>7, <2>3, PlanShape
<1>8. CASE k # Len(CleanupOf)
  <2>1. main'.pc = "cleanup" /\ main'.plan = SubSeq(CleanupOf, k + 1, Len(CleanupOf))
    BY <1>4, <1>8 DEF MovesOn
  <2>2. k + 1 \in 1 .. Len(CleanupOf)
    BY <1>3, <1>8
  <2>3. /\ Behind(k + 1, "armStop")' <=> Behind(k + 1, "armStop")
        /\ Behind(k + 1, "handStop")' <=> Behind(k + 1, "handStop")
    BY <1>1 DEF Behind
  <2>4. EndedIsSafe'
    BY <2>1 DEF EndedIsSafe
  <2> QED
    BY <1>1, <1>6, <2>1, <2>2, <2>3, <2>4 DEF PlanInv
<1> QED
  BY <1>7, <1>8

\* A step that raises is the stop of the arm, or comes after both stops.
LEMMA PlanRaises ==
  ASSUME PlanInv, main.pc = "cleanup", Raises
  PROVE  PlanInv'
<1>1. PICK k \in 1 .. Len(CleanupOf) :
          /\ main.plan = SubSeq(CleanupOf, k, Len(CleanupOf))
          /\ Behind(k, "armStop") => ArmIsDown
          /\ Behind(k, "handStop") => HandIsQuiet
  BY DEF PlanInv
<1>2. Head(main.plan) = CleanupOf[k] /\ main.plan # <<>>
  BY <1>1, PlanShape, PlanSuffixes
<1>3. CASE Head(main.plan) = "armStop" /\ arm.native = "up"
  BY <1>2, <1>3 DEF Raises, PlanInv, EndedIsSafe, ArmOutlivedStop
<1>4. CASE Head(main.plan) \in {"handCleanup", "modelStop", "save"}
  <2>1. Behind(k, "armStop") /\ Behind(k, "handStop")
    BY <1>2, <1>4, PlanShape
  <2>2. ArmIsDown' /\ HandIsQuiet'
    BY <1>1, <2>1 DEF Raises, ArmIsDown, HandIsQuiet
  <2>3. ~ArmOutlivedStop'
    BY <1>4 DEF Raises, ArmOutlivedStop
  <2> QED
    BY <2>2, <2>3 DEF Raises, PlanInv, EndedIsSafe, ArmIsDown, HandIsQuiet
<1> QED
  BY <1>3, <1>4 DEF Raises

-----------------------------------------------------------------------------
(* Failures and the record *)

\* Away from the waits only the count matters.
LEMMA LateAway ==
  ASSUME main'.late <= 1, main'.pc \notin {"start", "due", "wait"}
  PROVE  LateInv'
BY DEF LateInv, FailureStopsCommands

\* A failure before the command is still one after it.
LEMMA LateSame ==
  ASSUME LateInv, mode' = mode, main'.late = main.late, main'.pc = main.pc, PeerDown => PeerDown'
  PROVE  LateInv'
BY DEF LateInv, FailureStopsCommands

\* The end of a tick that began with at most one late command.
LEMMA LateIssue ==
  ASSUME LoopTypes, LateInv, NEW rows, IssueOutcome(rows), main.late = 0 \/ ~PeerDown,
         UNCHANGED <<arm, hand>> /\ inf'.error = inf.error
  PROVE  LateInv'
<1>1. PeerDown' <=> PeerDown
  BY DEF PeerDown
<1>2. main.late \in Nat /\ main.late <= 1
  BY DEF LoopTypes, LoopType, LateInv, FailureStopsCommands
<1>3. CASE CommandSent(rows)
  <2>1. main'.pc \in {"due", "exit"} /\ main'.late \in {0, 1} /\ (main'.late = 1 => PeerDown')
    BY <1>1, <1>2, <1>3 DEF CommandSent
  <2> QED
    BY <2>1 DEF LateInv, FailureStopsCommands
<1>4. CASE ~CommandSent(rows)
  <2>1. main'.pc = "cleanup" /\ main'.late <= 1
    BY <1>2, <1>4 DEF IssueOutcome, GivesUp
  <2> QED
    BY <2>1, LateAway
<1> QED
  BY <1>3, <1>4

\* A command and an answer of a run that goes on are both in the queue.
LEMMA RecordIssue ==
  ASSUME TypeInv, RecordInv, NEW rows \in LogType, IssueOutcome(rows), mode' = mode,
         rows.error = log.error, rows.pc = log.pc, inf'.seq \in Nat, inf'.error = inf.error, main.pc \in {"due", "wait"},
         (rows.written + rows.queue) - inf'.seq = Account(log, inf)
  PROVE  RecordInv'
<1>1. /\ log.pc = "run" => ~log.error
      /\ mode # "shadow" /\ ~main.abort /\ ~inf.error => Recorded
  BY DEF RecordInv
<1>2. CASE GivesUp
  <2>1. main'.pc # "start" /\ main'.abort /\ log'.pc = log.pc /\ log'.error = log.error
    BY <1>2 DEF GivesUp, IssueOutcome, CommandSent, LogType
  <2> QED
    BY <1>1, <2>1 DEF RecordInv
<1>3. CASE CommandSent(rows)
  <2>1. log'.pc = log.pc /\ log'.error = log.error /\ log'.written = rows.written /\ log'.queue = rows.queue + 1
    BY <1>3 DEF CommandSent, LogType
  <2>2. main'.pc \in {"due", "exit"} /\ main'.abort = main.abort /\ main'.sent = main.sent + 1
    BY <1>3 DEF CommandSent
  <2>3. ASSUME Recorded PROVE Recorded'
    <3>1. /\ log.written \in Nat /\ log.queue \in Nat /\ rows.written \in Nat /\ rows.queue \in Nat
          /\ inf.seq \in Nat /\ main.sent \in Nat /\ inf'.seq \in Nat
      BY RolloutAssumption DEF TypeInv, LoopTypes, LoopType, ThreadTypes, LogType
    <3>2. /\ log.written + log.queue = main.sent + inf.seq - 1
          /\ (rows.written + rows.queue) - inf'.seq = (log.written + log.queue) - inf.seq
      BY <2>3 DEF Recorded, Account
    <3>3. rows.written + (rows.queue + 1) = (main.sent + 1) + inf'.seq - 1
      <4> DEFINE w == rows.written
                 q == rows.queue
                 n == inf'.seq
                 total == log.written + log.queue
      <4>1. w \in Nat /\ q \in Nat /\ n \in Nat /\ total \in Nat /\ inf.seq \in Nat /\ main.sent \in Nat
        BY <3>1
      <4>2. total = main.sent + inf.seq - 1 /\ (w + q) - n = total - inf.seq
        BY <3>2
      <4> HIDE DEF w, q, n, total
      <4>3. w + (q + 1) = (main.sent + 1) + n - 1
        BY <4>1, <4>2
      <4> QED
        BY <4>3 DEF w, q, n
    <3> QED
      BY <2>1, <2>2, <3>3 DEF Recorded
  <2> QED
    BY <1>1, <2>1, <2>2, <2>3 DEF RecordInv
<1> QED
  BY <1>2, <1>3 DEF IssueOutcome

\* What nothing is added to stays recorded.
LEMMA SameRecord ==
  ASSUME TypeInv, ThreadTypes', main'.sent = main.sent,
         log'.written + log'.queue = log.written + log.queue, inf'.seq = inf.seq
  PROVE  Recorded' <=> Recorded
BY DEF Recorded, TypeInv, LoopTypes, LoopType, ThreadTypes, LogType

LEMMA RolloutInit == Init => RolloutInv
<1> SUFFICES ASSUME Init PROVE RolloutInv
  OBVIOUS
<1> USE RolloutAssumption, EnsembleAssumption
<1>1. LoopTypes
  BY DEF Init, LoopTypes, LoopType, Places
<1>2. ThreadTypes
  BY DEF Init, ThreadTypes, LogType
<1>3. WorldTypes
  BY DEF Init, WorldTypes, HandState
<1>4. ens.points = {} /\ ens \in [points : SUBSET Point, last : {ens.last}]
  BY DEF Init, NewEnsemble
<1>5. BufferTypes
  BY <1>4, FS_EmptySet DEF Init, BufferTypes
<1>6. IdInv
  BY <1>4 DEF Init, IdInv, Waiting
<1>7. main.pc = "start" /\ main.late = 0 /\ main.sent = 0
  BY DEF Init
<1>8. LateInv
  BY <1>7 DEF LateInv, FailureStopsCommands
<1>9. PlanInv
  BY <1>7 DEF PlanInv, EndedIsSafe
<1>10. log.queue = 0 /\ log.written = 0 /\ ~log.error /\ inf.seq = 1
  BY DEF Init
<1>11. RecordInv
  BY <1>7, <1>10 DEF RecordInv, Recorded
<1> QED
  BY <1>1, <1>2, <1>3, <1>5, <1>6, <1>8, <1>9, <1>11 DEF RolloutInv, TypeInv

\* The world fails, answers and writes.
LEMMA EnvironmentStep ==
  ASSUME RolloutInv, Environment
  PROVE  RolloutInv'
<1>1. TypeInv /\ IdInv /\ LateInv /\ PlanInv /\ RecordInv
  BY DEF RolloutInv
<1>2. /\ UNCHANGED <<mode, main, inf, pending, ens>> /\ log' \in LogType
      /\ now' \in 0 .. MaxTime /\ faults' \in 0 .. MaxFaults
      /\ arm' = arm \/ (arm.native = "up" /\ arm' = [arm EXCEPT !.native = "down"])
      /\ hand' = hand \/ (hand \in {"started", "active"} /\ hand' = "failed")
      /\ \/ log' = log
         \/ log.pc = "run" /\ log'.pc = "run" /\ log'.written + log'.queue = log.written + log.queue /\ log'.error = log.error
         \/ log.pc = "run" /\ log'.pc = "ended" /\ log'.error /\ log'.written + log'.queue = log.written + log.queue
            /\ main.pc \notin {"start", "ended"}
  BY <1>1, EnvironmentEffect
<1>3. /\ arm' \in [native : {"off", "up", "down"}] /\ (ArmIsDown => ArmIsDown')
      /\ (arm.native # "up" => arm'.native # "up")
  BY <1>1, <1>2 DEF TypeInv, WorldTypes, ArmIsDown
<1>4. hand' \in HandState /\ (HandIsQuiet => HandIsQuiet') /\ (hand = "failed" => hand' = "failed")
  BY <1>1, <1>2 DEF TypeInv, WorldTypes, HandState, HandIsQuiet
<1>5. BufferTypes' /\ IdInv'
  BY <1>1, <1>2, SameBuffers DEF TypeInv
<1>6. LoopTypes' /\ ThreadTypes'
  BY <1>1, <1>2 DEF TypeInv, LoopTypes, ThreadTypes
<1>7. TypeInv'
  BY <1>1, <1>2, <1>3, <1>4, <1>5, <1>6 DEF TypeInv, WorldTypes
<1>8. PeerDown => PeerDown'
  BY <1>2, <1>3, <1>4 DEF PeerDown
<1>9. LateInv'
  BY <1>1, <1>2, <1>8, LateSame
<1>12. arm' = arm \/ main.pc # "ended"
  BY DEF Environment, Advance, Refresh, Breaks, ModelServe, LogStep
<1>10. PlanInv'
  BY <1>1, <1>2, <1>3, <1>4, <1>12, PlanStays
<1>11. RecordInv'
  <2>1. log'.written + log'.queue = log.written + log.queue
    BY <1>2
  <2>2. Recorded' <=> Recorded
    BY <1>1, <1>2, <1>6, <2>1, SameRecord
  <2>3. CASE log' = log
    BY <1>1, <1>2, <2>2, <2>3 DEF RecordInv
  <2>4. CASE log' # log
    <3>1. log.pc = "run" /\ (log'.pc = "run" => ~log'.error) /\ (main.pc = "start" => ~log'.error)
      BY <1>1, <1>2, <2>4 DEF RecordInv
    <3> QED
      BY <1>1, <1>2, <2>2, <3>1 DEF RecordInv
  <2> QED
    BY <2>3, <2>4
<1> QED
  BY <1>5, <1>7, <1>9, <1>10, <1>11 DEF RolloutInv

\* The inference thread asks, hears and ends.
LEMMA InferenceStep ==
  ASSUME RolloutInv, InfStep
  PROVE  RolloutInv'
<1>1. TypeInv /\ IdInv /\ LateInv /\ PlanInv /\ RecordInv
  BY DEF RolloutInv
<1>2. /\ UNCHANGED <<mode, now, faults, main, ens, arm, hand>> /\ inf.pc \in {"due", "wait"}
      /\ ThreadTypes' /\ BufferTypes' /\ IdInv' /\ (inf.error => inf'.error)
      /\ log'.pc = log.pc /\ log'.error = log.error
      /\ ~inf'.error => Account(log', inf') = Account(log, inf)
  BY <1>1, InferenceEffect
<1>3. TypeInv'
  BY <1>1, <1>2 DEF TypeInv, LoopTypes, WorldTypes
<1>4. PeerDown => PeerDown'
  BY <1>2 DEF PeerDown
<1>5. LateInv'
  BY <1>1, <1>2, <1>4, LateSame
<1>6. PlanInv'
  BY <1>1, <1>2, PlanStays DEF ArmIsDown, HandIsQuiet
<1>7. ~inf'.error /\ Recorded => Recorded'
  BY <1>1, <1>2 DEF Recorded, Account, TypeInv, LoopTypes, LoopType, ThreadTypes, LogType
<1>8. mode # "shadow" /\ ~main.abort => main.pc \notin {"cleanup", "ended"}
  BY <1>1, <1>2 DEF RecordInv
<1>9. RecordInv'
  BY <1>1, <1>2, <1>7, <1>8 DEF RecordInv
<1> QED
  BY <1>2, <1>3, <1>5, <1>6, <1>9 DEF RolloutInv

\* The loop starts the parties, one after the other.
LEMMA StartingStep ==
  ASSUME RolloutInv, StartStep
  PROVE  RolloutInv'
<1>1. TypeInv /\ IdInv /\ LateInv /\ PlanInv /\ RecordInv
  BY DEF RolloutInv
<1>2. /\ LoopTypes' /\ ThreadTypes' /\ WorldTypes' /\ UNCHANGED <<mode, pending, ens>> /\ main.pc = "start"
      /\ inf'.seq = inf.seq /\ inf'.error = inf.error
      /\ log'.queue = log.queue /\ log'.written = log.written /\ log'.error = log.error
      /\ main'.late = main.late /\ main'.sent = main.sent
      /\ GivesUp \/ (main'.pc \in {"start", "due"} /\ main'.abort = main.abort)
  BY <1>1, StartEffect
<1>3. BufferTypes' /\ IdInv'
  BY <1>1, <1>2, SameBuffers DEF TypeInv
<1>4. TypeInv'
  BY <1>2, <1>3 DEF TypeInv
<1>5. main'.late = 0
  BY <1>1, <1>2 DEF LateInv
<1>6. LateInv'
  BY <1>5 DEF LateInv, FailureStopsCommands
<1>7. PlanInv'
  BY <1>2, PlanBegins, PlanIdle DEF GivesUp
<1>8. Recorded' <=> Recorded
  BY <1>1, <1>2, SameRecord
<1>9. RecordInv'
  BY <1>1, <1>2, <1>8 DEF RecordInv, GivesUp
<1> QED
  BY <1>3, <1>4, <1>6, <1>7, <1>9 DEF RolloutInv

\* A tick of the asynchronous loop.
LEMMA AsyncStep ==
  ASSUME RolloutInv, AsyncTick
  PROVE  RolloutInv'
<1>1. TypeInv /\ IdInv /\ LateInv /\ PlanInv /\ RecordInv /\ LoopTypes /\ log \in LogType
  BY DEF RolloutInv, TypeInv, ThreadTypes
<1>2. UNCHANGED <<mode, now, inf, arm, hand>> /\ main.pc = "due"
  BY DEF AsyncTick
<1>3. /\ LoopTypes' /\ log' \in LogType /\ faults' \in 0 .. MaxFaults /\ BufferTypes' /\ IdInv'
      /\ \/ GivesUp /\ main'.late = main.late /\ log' = log
         \/ ~PeerDown /\ IssueOutcome(log)
  BY <1>1, AsyncEffect
<1>4. TypeInv'
  BY <1>1, <1>2, <1>3 DEF TypeInv, WorldTypes, ThreadTypes
<1>5. CASE GivesUp /\ main'.late = main.late /\ log' = log
  <2>1. LateInv'
    BY <1>1, <1>5, LateAway DEF GivesUp, LateInv, FailureStopsCommands
  <2>2. PlanInv'
    BY <1>2, <1>5, PlanBegins DEF GivesUp
  <2>3. RecordInv'
    BY <1>1, <1>2, <1>5 DEF GivesUp, RecordInv
  <2> QED
    BY <1>3, <1>4, <2>1, <2>2, <2>3 DEF RolloutInv
<1>6. CASE ~PeerDown /\ IssueOutcome(log)
  <2>1. LateInv'
    BY <1>1, <1>2, <1>6, LateIssue
  <2>2. PlanInv'
    BY <1>2, <1>6, PlanBegins, PlanIdle DEF IssueOutcome, CommandSent, GivesUp
  <2>3. inf'.seq \in Nat /\ (log.written + log.queue) - inf'.seq = Account(log, inf)
    BY <1>1, <1>2 DEF Account, TypeInv, ThreadTypes
  <2>4. RecordInv'
    BY <1>1, <1>2, <1>6, <2>3, RecordIssue
  <2> QED
    BY <1>3, <1>4, <2>1, <2>2, <2>4 DEF RolloutInv
<1> QED
  BY <1>3, <1>5, <1>6

\* The canonical loop hears its answer.
LEMMA CanonicalStep ==
  ASSUME RolloutInv, CanonicalAnswer
  PROVE  RolloutInv'
<1>1. TypeInv /\ IdInv /\ LateInv /\ PlanInv /\ RecordInv /\ LoopTypes /\ log \in LogType /\ ThreadTypes
  BY DEF RolloutInv, TypeInv, ThreadTypes
<1>2. UNCHANGED <<mode, now, arm, hand>> /\ main.pc = "wait" /\ mode = "canonical"
  BY DEF CanonicalAnswer
<1>3. main.late = 0
  BY <1>1, <1>2 DEF LateInv
<1>4. /\ LoopTypes' /\ ThreadTypes' /\ faults' \in 0 .. MaxFaults /\ BufferTypes' /\ IdInv'
      /\ inf'.error = inf.error /\ inf'.pc = inf.pc
      /\ \/ GivesUp /\ main'.late = main.late
         \/ inf'.seq = inf.seq + 1 /\ LogRoom(log) /\ IssueOutcome([log EXCEPT !.queue = @ + 1])
  BY <1>1, CanonicalEffect
<1>5. TypeInv'
  BY <1>1, <1>2, <1>4 DEF TypeInv, WorldTypes
<1>6. PlanInv'
  BY <1>2, <1>4, PlanBegins, PlanIdle DEF IssueOutcome, CommandSent, GivesUp
<1>7. CASE inf'.seq = inf.seq + 1 /\ LogRoom(log) /\ IssueOutcome([log EXCEPT !.queue = @ + 1])
  <2> DEFINE rows == [log EXCEPT !.queue = @ + 1]
  <2>1. rows \in LogType
    BY <1>1, <1>7, LoggedIsLog
  <2>2. rows.error = log.error /\ rows.pc = log.pc /\ rows.written = log.written /\ rows.queue = log.queue + 1
    BY <1>1 DEF LogType
  <2>3. IssueOutcome(rows)
    BY <1>7
  <2> HIDE DEF rows
  <2>4. LateInv'
    BY <1>1, <1>2, <1>3, <1>4, <2>3, LateIssue
  <2>5. inf'.seq \in Nat /\ (rows.written + rows.queue) - inf'.seq = Account(log, inf)
    BY <1>1, <1>7, <2>2 DEF Account, ThreadTypes, LogType
  <2>6. RecordInv'
    BY <1>1, <1>2, <1>4, <2>1, <2>2, <2>3, <2>5, RecordIssue
  <2> QED
    BY <1>4, <1>5, <1>6, <2>4, <2>6 DEF RolloutInv
<1>8. CASE GivesUp /\ main'.late = main.late
  <2>1. LateInv'
    BY <1>3, <1>8, LateAway DEF GivesUp
  <2>2. log'.pc = log.pc /\ log'.error = log.error
    <3>1. CASE ~(IsPrediction /\ LogRoom(log))
      BY <3>1 DEF CanonicalAnswer
    <3>2. CASE IsPrediction /\ LogRoom(log)
      <4>1. log' = Logged(log) \/ \E sel : Issue(Absorbing, sel, Logged(log))
        BY <3>2 DEF CanonicalAnswer
      <4>2. log' = Logged(log) \/ log' = Logged(Logged(log))
        BY <4>1 DEF Issue
      <4> QED
        BY <1>1, <4>2 DEF Logged, LogType
    <3> QED
      BY <3>1, <3>2
  <2>3. RecordInv'
    BY <1>1, <1>8, <2>2 DEF GivesUp, RecordInv
  <2> QED
    BY <1>4, <1>5, <1>6, <2>1, <2>3 DEF RolloutInv
<1> QED
  BY <1>4, <1>7, <1>8

\* The loop asks, or hears that there is nothing to send.
LEMMA QuietStep ==
  ASSUME RolloutInv, CanonicalAsk \/ ShadowAsk \/ ShadowAnswer
  PROVE  RolloutInv'
<1>1. TypeInv /\ IdInv /\ LateInv /\ PlanInv /\ RecordInv
  BY DEF RolloutInv
<1>2. /\ UNCHANGED <<mode, now, faults, inf, pending, ens, log, arm, hand>> /\ main.pc \in {"due", "wait"}
      /\ LoopTypes' /\ main'.late = main.late /\ main'.sent = main.sent
      /\ main'.pc = "wait" => mode = "shadow" \/ ~PeerDown
      /\ \/ GivesUp
         \/ main'.pc \in {"due", "wait"} /\ main'.abort = main.abort
         \/ mode = "shadow" /\ main'.pc = "cleanup" /\ main'.plan = CleanupOf
  BY <1>1, QuietEffect
<1>3. BufferTypes' /\ IdInv'
  BY <1>1, <1>2, SameBuffers DEF TypeInv
<1>4. TypeInv'
  BY <1>1, <1>2, <1>3 DEF TypeInv, ThreadTypes, WorldTypes
<1>5. PeerDown' <=> PeerDown
  BY <1>2 DEF PeerDown
<1>6. main.late \in Nat /\ main.late <= 1 /\ (main.late = 1 => PeerDown)
  BY <1>1, <1>2 DEF LateInv, FailureStopsCommands, TypeInv, LoopTypes, LoopType
<1>7. LateInv'
  <2>1. main'.late \in Nat /\ main'.late <= 1 /\ (main'.late = 1 => PeerDown') /\ mode' = mode
        /\ main'.pc # "start" /\ (main'.pc = "wait" => mode = "shadow" \/ ~PeerDown')
    BY <1>2, <1>5, <1>6 DEF GivesUp
  <2>2. mode = "canonical" => mode # "shadow"
    OBVIOUS
  <2>3. main'.late = 0 \/ main'.late = 1
    BY <2>1
  <2> QED
    BY <2>1, <2>2, <2>3 DEF LateInv, FailureStopsCommands
<1>8. PlanInv'
  BY <1>2, PlanBegins, PlanIdle DEF GivesUp
<1>9. Recorded' <=> Recorded
  BY <1>1, <1>2, <1>4, SameRecord DEF TypeInv
<1>10. RecordInv'
  BY <1>1, <1>2, <1>9 DEF RecordInv, GivesUp
<1> QED
  BY <1>3, <1>4, <1>7, <1>8, <1>10 DEF RolloutInv

\* The loop is over.
LEMMA ExitStep ==
  ASSUME RolloutInv, ExitLoop \/ ExitJoin
  PROVE  RolloutInv'
<1>1. TypeInv /\ IdInv /\ LateInv /\ PlanInv /\ RecordInv
  BY DEF RolloutInv
<1>2. /\ UNCHANGED <<mode, now, faults, pending, ens, log, arm, hand>> /\ main.pc \in {"exit", "join"}
      /\ LoopTypes' /\ ThreadTypes' /\ main'.late = main.late /\ main'.sent = main.sent
      /\ inf'.pc = inf.pc /\ inf'.seq = inf.seq /\ inf'.error = inf.error
      /\ \/ GivesUp
         \/ main'.pc = "join" /\ main'.abort = main.abort
         \/ /\ main'.pc = "cleanup" /\ main'.plan = CleanupOf /\ main'.abort = main.abort
            /\ inf.pc \in {"off", "ended"} /\ ~inf.error
  BY <1>1, ExitEffect
<1>3. BufferTypes' /\ IdInv'
  BY <1>1, <1>2, SameBuffers DEF TypeInv
<1>4. TypeInv'
  BY <1>1, <1>2, <1>3 DEF TypeInv, WorldTypes
<1>5. LateInv'
  BY <1>1, <1>2, LateAway DEF GivesUp, LateInv, FailureStopsCommands
<1>6. PlanInv'
  BY <1>2, PlanBegins, PlanIdle DEF GivesUp
<1>7. Recorded' <=> Recorded
  BY <1>1, <1>2, SameRecord
<1>8. RecordInv'
  BY <1>1, <1>2, <1>7 DEF RecordInv, GivesUp
<1> QED
  BY <1>3, <1>4, <1>5, <1>6, <1>8 DEF RolloutInv

\* The cleanup.
LEMMA CleaningStep ==
  ASSUME RolloutInv, CleanupStep \/ CleanupRaises \/ ModelWait \/ FinishLog
  PROVE  RolloutInv'
<1>1. TypeInv /\ IdInv /\ LateInv /\ PlanInv /\ RecordInv
  BY DEF RolloutInv
<1>2. /\ UNCHANGED <<mode, pending, ens>> /\ main.pc = "cleanup"
      /\ LoopTypes' /\ ThreadTypes' /\ WorldTypes' /\ main'.late = main.late /\ main'.sent = main.sent
      /\ inf'.pc = inf.pc /\ inf'.seq = inf.seq /\ inf'.error = inf.error
      /\ log'.queue = log.queue /\ log'.written = log.written /\ log'.error = log.error
      /\ log' = log \/ log'.pc = "ended"
      /\ MovesOn \/ Raises
      /\ main.abort => main'.abort
      /\ Head(main.plan) = "finish" /\ ~main'.abort => log.pc = "run" /\ log'.pc = "ended" /\ log.queue = 0
  BY <1>1, CleanupEffect
<1>3. BufferTypes' /\ IdInv'
  BY <1>1, <1>2, SameBuffers DEF TypeInv
<1>4. TypeInv'
  BY <1>2, <1>3 DEF TypeInv
<1>5. main'.pc \in {"cleanup", "ended"}
  BY <1>2 DEF MovesOn, Raises
<1>6. LateInv'
  BY <1>1, <1>2, <1>5, LateAway DEF LateInv, FailureStopsCommands
<1>7. PlanInv' /\ (main'.pc = "ended" /\ mode # "shadow" /\ ~main'.abort => Head(main.plan) = "finish")
  BY <1>1, <1>2, PlanMoves, PlanRaises DEF Raises
<1>8. Recorded' <=> Recorded
  BY <1>1, <1>2, SameRecord
<1>9. RecordInv'
  <2>1. (log'.pc = "run" => ~log'.error) /\ (log.pc = "run" => ~log.error)
    BY <1>1, <1>2 DEF RecordInv
  <2>2. ASSUME mode # "shadow", ~main'.abort
        PROVE  /\ Recorded' /\ inf'.pc \in {"off", "ended"} /\ ~inf'.error
               /\ main'.pc = "ended" => log'.pc = "ended" /\ log'.queue = 0 /\ ~log'.error
    <3>1. ~main.abort
      BY <1>2, <2>2
    <3>2. Recorded /\ inf.pc \in {"off", "ended"} /\ ~inf.error
      BY <1>1, <1>2, <2>2, <3>1 DEF RecordInv
    <3>3. main'.pc = "ended" => log'.pc = "ended" /\ log'.queue = 0 /\ ~log'.error
      BY <1>2, <1>7, <2>1, <2>2
    <3> QED
      BY <1>2, <1>8, <3>2, <3>3
  <2> QED
    BY <1>2, <1>5, <2>1, <2>2 DEF RecordInv
<1> QED
  BY <1>3, <1>4, <1>6, <1>7, <1>9 DEF RolloutInv

\* Nothing happens.
LEMMA StutterStep ==
  ASSUME RolloutInv, UNCHANGED vars
  PROVE  RolloutInv'
<1>1. TypeInv /\ IdInv /\ LateInv /\ PlanInv /\ RecordInv
  BY DEF RolloutInv
<1>2. UNCHANGED <<mode, now, faults, main, inf, pending, ens, log, arm, hand>>
  BY DEF vars
<1>3. BufferTypes' /\ IdInv'
  BY <1>1, <1>2, SameBuffers DEF TypeInv
<1>4. TypeInv'
  BY <1>1, <1>2, <1>3 DEF TypeInv, LoopTypes, ThreadTypes, WorldTypes
<1>5. LateInv'
  BY <1>1, <1>2, LateSame DEF PeerDown
<1>6. PlanInv'
  BY <1>1, <1>2, PlanStays DEF ArmIsDown, HandIsQuiet
<1>7. RecordInv'
  BY <1>1, <1>2 DEF RecordInv, Recorded
<1> QED
  BY <1>3, <1>4, <1>5, <1>6, <1>7 DEF RolloutInv

-----------------------------------------------------------------------------
(* The theorems *)

\* What the four parties keep together, in every state of a run.
THEOREM RolloutInvariance == Spec => []RolloutInv
<1>1. Init => RolloutInv
  BY RolloutInit
<1>2. RolloutInv /\ [Next]_vars => RolloutInv'
  <2> SUFFICES ASSUME RolloutInv, [Next]_vars PROVE RolloutInv'
    OBVIOUS
  <2>1. CASE Next
    BY <2>1, EnvironmentStep, InferenceStep, StartingStep, AsyncStep, CanonicalStep, QuietStep, ExitStep, CleaningStep
       DEF Next, MainStep, Environment
  <2>2. CASE UNCHANGED vars
    BY <2>2, StutterStep
  <2> QED
    BY <2>1, <2>2
<1> QED
  BY <1>1, <1>2, PTL DEF Spec

\* However many queries wait and whichever party fails, at most the command
\* under way is sent after the failure, the robot is left safe, a clean report
\* has its whole record and the buffer stays within its capacity.
THEOREM FailureCorrect == Spec => []FailureEndsSafely
<1>1. RolloutInv => FailureEndsSafely
  <2> SUFFICES ASSUME RolloutInv PROVE FailureEndsSafely
    OBVIOUS
  <2>1. TypeOK
    BY DEF RolloutInv, TypeInv, LoopTypes, LoopType, ThreadTypes, LogType, WorldTypes, BufferTypes, TypeOK, Places, HandState
  <2>2. FailureStopsCommands /\ EndedIsSafe
    BY DEF RolloutInv, LateInv, PlanInv
  <2>3. CleanRunIsRecorded
    <3> SUFFICES ASSUME main.pc = "ended", ~main.abort, mode # "shadow"
                 PROVE  log.written = main.sent + inf.seq - 1 /\ ~inf.error /\ ~log.error
      BY DEF CleanRunIsRecorded
    <3>1. Recorded /\ log.queue = 0 /\ ~inf.error /\ ~log.error
      BY DEF RolloutInv, RecordInv
    <3>2. log.written \in Nat
      BY DEF RolloutInv, TypeInv, ThreadTypes, LogType
    <3> QED
      BY <3>1, <3>2 DEF Recorded
  <2> QED
    BY <2>1, <2>2, <2>3 DEF FailureEndsSafely
<1> QED
  BY <1>1, RolloutInvariance, PTL

------------------------------------------------------------------------------
(* Which points a full buffer keeps *)

\* Among finitely many queries one is the newest.
LEMMA NewestExists ==
  ASSUME NEW S \in SUBSET Point, S # {}, NEW n \in Nat, \A x \in S : x.id < n
  PROVE  \E x \in S : \A y \in S : y.id <= x.id
<1> DEFINE D == {n - x.id : x \in S}
<1>1. D \subseteq Nat /\ D # {}
  BY DEF Point
<1>2. \E d \in D : \A c \in D : ~(<<c, d>> \in OpToRel(<, Nat))
  BY <1>1, NatLessThanWellFounded, WFMin
<1>3. PICK d \in D : \A c \in D : ~(c < d)
  BY <1>1, <1>2 DEF OpToRel
<1>4. PICK x \in S : d = n - x.id
  OBVIOUS
<1>5. ASSUME NEW y \in S PROVE y.id <= x.id
  <2>1. n - y.id \in D
    OBVIOUS
  <2>2. ~(n - y.id < n - x.id)
    BY <1>3, <1>4, <2>1
  <2> QED
    BY <2>2 DEF Point
<1> QED
  BY <1>5

\* The points after a tick: two for each cell of a rectangle at the most.  The
\* chunks made up to the tick fill half of its first columns, and their mirror
\* image the other half; every later chunk has two columns of its own.
Sides == {0, 1}
CellColumn(tick, q, chunk, side) ==
    IF q > tick THEN MaxSourceHorizon + 2 * (chunk - 1) + side
    ELSE IF side = 0 THEN tick - q ELSE MaxSourceHorizon - 1 - (tick - q)
CellRow(tick, q, t, side) ==
    IF q > tick THEN t - q ELSE IF side = 0 THEN t - tick - 1 ELSE MaxSourceHorizon - (t - tick - 1)

LEMMA CellInside ==
  ASSUME NEW tick \in Nat, NEW chunks \in Nat, NEW q \in Nat, NEW t \in Nat, NEW chunk \in Int, NEW side \in Sides,
         t > tick, q <= t, t <= q + MaxSourceHorizon, q > tick => chunk \in 1 .. chunks
  PROVE  /\ CellColumn(tick, q, chunk, side) \in 0 .. MaxSourceHorizon + 2 * chunks - 1
         /\ CellRow(tick, q, t, side) \in 0 .. MaxSourceHorizon
BY EnsembleAssumption DEF CellColumn, CellRow, Sides

LEMMA CellsDiffer ==
  ASSUME NEW tick \in Nat, NEW q \in Nat, NEW t \in Nat, NEW chunk \in Int, NEW side \in Sides,
         t > tick, q <= t, t <= q + MaxSourceHorizon, q > tick => chunk >= 1,
         NEW q2 \in Nat, NEW t2 \in Nat, NEW chunk2 \in Int, NEW side2 \in Sides,
         t2 > tick, q2 <= t2, t2 <= q2 + MaxSourceHorizon, q2 > tick => chunk2 >= 1,
         q > tick /\ q2 > tick /\ chunk = chunk2 => q = q2,
         CellColumn(tick, q, chunk, side) = CellColumn(tick, q2, chunk2, side2),
         CellRow(tick, q, t, side) = CellRow(tick, q2, t2, side2)
  PROVE  q = q2 /\ t = t2 /\ side = side2
<1>1. MaxSourceHorizon \in Nat
  BY EnsembleAssumption
<1>2. CASE q <= tick /\ q2 <= tick
  BY <1>1, <1>2 DEF CellColumn, CellRow, Sides
<1>3. CASE q > tick /\ q2 > tick
  <2>1. 2 * (chunk - 1) + side = 2 * (chunk2 - 1) + side2 /\ t - q = t2 - q2
    BY <1>1, <1>3 DEF CellColumn, CellRow, Sides
  <2>2. chunk = chunk2 /\ side = side2
    BY <2>1 DEF Sides
  <2> QED
    BY <1>3, <2>1, <2>2
<1>4. CASE q <= tick /\ q2 > tick
  BY <1>1, <1>4 DEF CellColumn, CellRow, Sides
<1>5. CASE q > tick /\ q2 <= tick
  BY <1>1, <1>5 DEF CellColumn, CellRow, Sides
<1> QED
  BY <1>2, <1>3, <1>4, <1>5

LEMMA FewLater ==
  ASSUME NEW S \in SUBSET Point, IsFiniteSet(S), NEW tick \in Nat, NEW ahead \in Nat, NEW waits \in Seq(ChunkType),
         \A x, y \in S : x.q = y.q /\ x.t = y.t => x = y,
         \A x \in S : ChunkBound(x),
         \A x \in S : x.q <= tick + ahead \/ \E i \in 1 .. Len(waits) : waits[i].q = x.q
  PROVE  2 * Cardinality({x \in S : x.t > tick})
           <= (MaxSourceHorizon + 1) * (MaxSourceHorizon + 2 * (ahead + Len(waits)))
<1> DEFINE H == MaxSourceHorizon
           later == {x \in S : x.t > tick}
           chunks == ahead + Len(waits)
           width == H + 2 * chunks
           place(x) == CHOOSE i \in 1 .. Len(waits) : waits[i].q = x.q
           chunk(x) == IF x.q <= tick THEN 0 ELSE IF x.q <= tick + ahead THEN x.q - tick ELSE ahead + place(x)
           cell == [z \in later \X Sides |->
                       <<CellColumn(tick, z[1].q, chunk(z[1]), z[2]), CellRow(tick, z[1].q, z[1].t, z[2])>>]
           Cells == (0 .. width - 1) \X (0 .. H)
<1>1. H \in Nat /\ Len(waits) \in Nat /\ chunks \in Nat
  BY EnsembleAssumption
<1>2. ASSUME NEW x \in later
      PROVE  /\ x.q \in Nat /\ x.t \in Nat /\ x.t > tick /\ x.q <= x.t /\ x.t <= x.q + MaxSourceHorizon
             /\ x.q > tick + ahead => place(x) \in 1 .. Len(waits) /\ waits[place(x)].q = x.q
  BY <1>2 DEF Point, ChunkBound
<1> HIDE DEF place, later
<1>3. ASSUME NEW x \in later
      PROVE  chunk(x) \in Int /\ (x.q > tick => chunk(x) \in 1 .. chunks)
  BY <1>1, <1>2, SMTT(60)
<1>4. ASSUME NEW x \in later, NEW y \in later, x.q > tick, y.q > tick, chunk(x) = chunk(y)
      PROVE  x.q = y.q
  <2>1. x.q \in Nat /\ y.q \in Nat
    BY <1>2
  <2>2. CASE x.q <= tick + ahead /\ y.q <= tick + ahead
    BY <1>4, <2>1, <2>2
  <2>3. CASE x.q > tick + ahead /\ y.q > tick + ahead
    <3>1. place(x) = place(y)
      BY <1>1, <1>2, <1>4, <2>3, SMTT(60)
    <3> QED
      BY <1>2, <2>3, <3>1
  <2>4. CASE x.q > tick + ahead /\ y.q <= tick + ahead
    <3>1. chunk(x) > ahead /\ chunk(y) <= ahead
      BY <1>1, <1>2, <1>4, <2>1, <2>4
    <3> QED
      BY <1>3, <1>4, <3>1
  <2>5. CASE y.q > tick + ahead /\ x.q <= tick + ahead
    <3>1. chunk(y) > ahead /\ chunk(x) <= ahead
      BY <1>1, <1>2, <1>4, <2>1, <2>5
    <3> QED
      BY <1>3, <1>4, <3>1
  <2> QED
    BY <2>1, <2>2, <2>3, <2>4, <2>5
<1> HIDE DEF chunk, chunks
<1>5. cell \in Injection(later \X Sides, Cells)
  <2>1. cell \in [later \X Sides -> Cells]
    <3> SUFFICES ASSUME NEW x \in later, NEW s \in Sides
                 PROVE  CellColumn(tick, x.q, chunk(x), s) \in 0 .. width - 1 /\ CellRow(tick, x.q, x.t, s) \in 0 .. H
      OBVIOUS
    <3>1. PICK q, t, c : q = x.q /\ t = x.t /\ c = chunk(x)
      OBVIOUS
    <3>2. /\ q \in Nat /\ t \in Nat /\ t > tick /\ q <= t /\ t <= q + MaxSourceHorizon
          /\ c \in Int /\ (q > tick => c \in 1 .. chunks)
      BY <1>2, <1>3, <3>1
    <3> HIDE DEF cell, Cells
    <3>3. CellColumn(tick, q, c, s) \in 0 .. MaxSourceHorizon + 2 * chunks - 1 /\ CellRow(tick, q, t, s) \in 0 .. MaxSourceHorizon
      BY <1>1, <3>2, CellInside
    <3>4. width - 1 = MaxSourceHorizon + 2 * chunks - 1
      BY <1>1
    <3> QED
      BY <3>1, <3>3, <3>4
  <2>2. \A x, y \in later : \A s, r \in Sides : cell[<<x, s>>] = cell[<<y, r>>] => x = y /\ s = r
    <3> SUFFICES ASSUME NEW x \in later, NEW y \in later, NEW s \in Sides, NEW r \in Sides,
                        cell[<<x, s>>] = cell[<<y, r>>]
                 PROVE  x = y /\ s = r
      OBVIOUS
    <3>1. PICK q, t, c : q = x.q /\ t = x.t /\ c = chunk(x)
      OBVIOUS
    <3>2. PICK q2, t2, c2 : q2 = y.q /\ t2 = y.t /\ c2 = chunk(y)
      OBVIOUS
    <3>3. CellColumn(tick, q, c, s) = CellColumn(tick, q2, c2, r) /\ CellRow(tick, q, t, s) = CellRow(tick, q2, t2, r)
      BY <3>1, <3>2
    <3>4. /\ q \in Nat /\ t \in Nat /\ t > tick /\ q <= t /\ t <= q + MaxSourceHorizon
          /\ q2 \in Nat /\ t2 \in Nat /\ t2 > tick /\ q2 <= t2 /\ t2 <= q2 + MaxSourceHorizon
          /\ c \in Int /\ c2 \in Int /\ (q > tick => c >= 1) /\ (q2 > tick => c2 >= 1)
          /\ q > tick /\ q2 > tick /\ c = c2 => q = q2
      BY <1>1, <1>2, <1>3, <1>4, <3>1, <3>2
    <3> HIDE DEF cell, Cells
    <3>5. q = q2 /\ t = t2 /\ s = r
      BY <3>3, <3>4, CellsDiffer
    <3>6. x \in S /\ y \in S
      BY DEF later
    <3> QED
      BY <3>1, <3>2, <3>5, <3>6
  <2> HIDE DEF cell, Cells
  <2>3. ASSUME NEW z \in later \X Sides, NEW w \in later \X Sides, cell[z] = cell[w] PROVE z = w
    <3>1. PICK x \in later, s \in Sides : z = <<x, s>>
      OBVIOUS
    <3>2. PICK y \in later, r \in Sides : w = <<y, r>>
      OBVIOUS
    <3>3. cell[<<x, s>>] = cell[<<y, r>>]
      BY <2>3, <3>1, <3>2, Zenon
    <3> QED
      BY <2>2, <3>1, <3>2, <3>3
  <2> QED
    BY <2>1, <2>3 DEF Injection, IsInjective
<1>6. IsFiniteSet(Cells) /\ Cardinality(Cells) = width * (H + 1)
  <2> HIDE DEF H
  <2>1. width \in Nat
    BY <1>1
  <2>2. IsFiniteSet(0 .. width - 1) /\ Cardinality(0 .. width - 1) = width
    <3> DEFINE top == width - 1
    <3> HIDE DEF width
    <3>1. top \in Int /\ width = top + 1 /\ (0 > top => width = 0)
      BY <2>1
    <3> HIDE DEF top
    <3>2. IsFiniteSet(0 .. top) /\ Cardinality(0 .. top) = IF 0 > top THEN 0 ELSE top - 0 + 1
      BY <3>1, FS_Interval
    <3>3. Cardinality(0 .. top) = width
      BY <2>1, <3>1, <3>2
    <3> QED
      BY <3>2, <3>3 DEF top
  <2>3. IsFiniteSet(0 .. H) /\ Cardinality(0 .. H) = H + 1
    BY <1>1, FS_Interval
  <2> QED
    BY <2>2, <2>3, FS_Product
<1>7. IsFiniteSet(later) /\ Cardinality(later) \in Nat
  <2>1. later \in SUBSET S
    BY DEF later
  <2> QED
    BY <2>1, FS_Subset, FS_CardinalityType
<1>8. Cardinality(later \X Sides) = Cardinality(later) * 2
  <2>1. IsFiniteSet(Sides) /\ Cardinality(Sides) = 2
    <3> DEFINE one == {0}
    <3>1. IsFiniteSet(one) /\ Cardinality(one) = 1
      BY FS_Singleton, Zenon
    <3>2. 1 \notin one /\ Sides = one \cup {1}
      BY DEF Sides
    <3> HIDE DEF one
    <3> QED
      BY <3>1, <3>2, FS_AddElement
  <2> QED
    BY <2>1, <1>7, FS_Product
<1> HIDE DEF cell, Cells, width
<1>9. Cardinality(later) * 2 <= width * (H + 1)
  BY <1>5, <1>6, <1>8, FS_Injection
<1>10. width \in Nat
  BY <1>1 DEF width
<1> HIDE DEF H
<1>11. 2 * Cardinality(later) <= (H + 1) * width
  BY <1>1, <1>7, <1>9, <1>10
<1> QED
  BY <1>11 DEF H, later, width, chunks

\* The trim and the selection take the first points of chunks.
LEMMA TrimShape ==
  ASSUME NEW S \in SUBSET Point, IsFiniteSet(S), Shape(S)
  PROVE  Shape(TrimCapacity(S))
<1> DEFINE Earlier(x) == {y \in S : Before(x, y)}
<1>1. ASSUME NEW x \in TrimCapacity(S), x.t < x.q + MaxSourceHorizon
      PROVE  Succ(x) \in TrimCapacity(S)
  <2>1. x \in S /\ Succ(x) \in S /\ Cardinality(Earlier(x)) < Capacity
    BY <1>1 DEF Shape, TrimCapacity
  <2>2. x.t \in Nat /\ Succ(x).t = x.t + 1
    BY <2>1 DEF Point, Succ
  <2>3. Earlier(Succ(x)) \in SUBSET Earlier(x)
    <3> SUFFICES ASSUME NEW y \in S, Before(Succ(x), y) PROVE Before(x, y)
      OBVIOUS
    <3>1. y.t \in Nat
      BY DEF Point
    <3> QED
      BY <2>2, <3>1 DEF Before
  <2>4. Earlier(x) \in SUBSET S
    OBVIOUS
  <2> HIDE DEF Earlier
  <2>5. IsFiniteSet(Earlier(x)) /\ Cardinality(Earlier(x)) \in Nat
    BY <2>4, FS_Subset, FS_CardinalityType
  <2>6. /\ Cardinality(Earlier(Succ(x))) <= Cardinality(Earlier(x))
        /\ Cardinality(Earlier(Succ(x))) \in Nat
    BY <2>3, <2>5, FS_Subset, FS_CardinalityType
  <2>7. Cardinality(Earlier(Succ(x))) < Capacity
    BY <2>1, <2>5, <2>6, EnsembleAssumption
  <2> QED
    BY <2>1, <2>7 DEF TrimCapacity, Earlier
<1>2. \A x \in TrimCapacity(S) : ChunkBound(x)
  BY DEF Shape, TrimCapacity
<1> QED
  BY <1>1, <1>2 DEF Shape

LEMMA SelectShape ==
  ASSUME NEW S \in SUBSET Point, Shape(S), NEW tick \in Nat
  PROVE  Shape({x \in Expire(S, tick) : x.t # tick})
<1> DEFINE R == {x \in Expire(S, tick) : x.t # tick}
<1>1. ASSUME NEW x \in R, x.t < x.q + MaxSourceHorizon
      PROVE  Succ(x) \in R
  <2>1. x \in S /\ x.t \in Nat /\ x.t >= tick /\ x.t # tick /\ Succ(x).t = x.t + 1
    BY DEF Expire, Point, Succ
  <2>2. Succ(x) \in S
    BY <1>1, <2>1 DEF Shape
  <2> QED
    BY <2>1, <2>2 DEF Expire
<1>2. \A x \in R : ChunkBound(x)
  BY DEF Shape, Expire
<1> QED
  BY <1>1, <1>2 DEF Shape

\* The newest point of the tick is kept if there is one point of a query and
\* tick, the chunks are within the horizon, their queries are near or wait, and
\* the buffer has room for the points after the tick.
OnePerQuery(S) == \A x, y \in S : x.q = y.q /\ x.t = y.t => x = y
ChunksFit(S) == \A x \in S : ChunkBound(x)
NearOrWaiting(S, tick, ahead, waits) ==
  \A x \in S : x.q <= tick + ahead \/ \E i \in 1 .. Len(waits) : waits[i].q = x.q
RoomFor(ahead, waits) ==
  2 * Capacity > (MaxSourceHorizon + 1) * (MaxSourceHorizon + 2 * (ahead + Len(waits)))
NewestAt(x, S, tick) == x \in S /\ x.t = tick /\ \A y \in S : y.t = tick => y.id <= x.id
LEMMA NewestIsKept ==
  ASSUME NEW S \in SUBSET Point, IsFiniteSet(S), NEW tick \in Nat, NEW ahead \in Nat, NEW waits \in Seq(ChunkType),
         OnePerQuery(S), ChunksFit(S), NearOrWaiting(S, tick, ahead, waits), RoomFor(ahead, waits),
         NEW x, NewestAt(x, S, tick)
  PROVE  x \in TrimCapacity(S)
<1> DEFINE later == {y \in S : y.t > tick}
           earlier == {y \in S : Before(x, y)}
           bound == (MaxSourceHorizon + 1) * (MaxSourceHorizon + 2 * (ahead + Len(waits)))
<1>1. 2 * Cardinality(later) <= bound
  BY FewLater DEF OnePerQuery, ChunksFit, NearOrWaiting
<1>2. earlier \in SUBSET later
  BY DEF NewestAt, Before, Point
<1>3. later \in SUBSET S
  OBVIOUS
<1>4. bound \in Nat /\ 2 * Capacity > bound /\ Capacity \in Nat
  BY EnsembleAssumption DEF RoomFor
<1> HIDE DEF later, earlier, bound
<1>5. IsFiniteSet(later) /\ Cardinality(later) \in Nat
  BY <1>3, FS_Subset, FS_CardinalityType
<1>6. Cardinality(earlier) \in Nat /\ Cardinality(earlier) <= Cardinality(later)
  BY <1>2, <1>5, FS_Subset, FS_CardinalityType
<1>7. Cardinality(earlier) < Capacity
  BY <1>1, <1>4, <1>5, <1>6
<1> QED
  BY <1>7 DEF NewestAt, TrimCapacity, earlier

\* What a selection selects.
Candidates(S, tick) == {x \in S : x.t = tick /\ tick - x.q <= MaxPredictionAge}
LEMMA SelectNewest ==
  ASSUME NEW S \in SUBSET Point, NEW n \in Nat, NEW tick \in Nat, NEW e, e.points = S,
         \A x \in S : x.id < n, \A x, y \in S : x.q = y.q /\ x.t = y.t => x = y, Ordered(S),
         \A x, y \in S : Agree(x, y)
  PROVE  LET s == Select(e, tick) IN
         /\ s.buffer = [points |-> {x \in Expire(S, tick) : x.t # tick}, last |-> s.point]
         /\ Candidates(S, tick) # {} =>
               /\ s.kind = "policy" /\ s.point \in Candidates(S, tick)
               /\ \A y \in Candidates(S, tick) : y.id <= s.point.id
         /\ Candidates(S, tick) = {} =>
               s.point = e.last /\ s.kind = IF e.last = NoPoint THEN "none" ELSE "held"
<1> DEFINE C == {x \in Expire(S, tick) : x.t = tick /\ tick - x.q <= MaxPredictionAge}
           newest == CHOOSE x \in C : \A y \in C : y = x \/ OlderQuery(y, x)
<1>1. C = Candidates(S, tick)
  BY DEF Expire, Candidates, Point
<1>2. ASSUME C # {}
      PROVE  newest \in C /\ \A y \in C : y.id <= newest.id
  <2>1. C \in SUBSET S /\ C \in SUBSET Point
    BY DEF Expire
  <2> HIDE DEF C
  <2>2. PICK x \in C : \A y \in C : y.id <= x.id
    BY <1>2, <2>1, NewestExists
  <2>3. \A y \in C : y = x \/ OlderQuery(y, x)
    <3> TAKE y \in C
    <3>1. x \in Point /\ y \in Point /\ x \in S /\ y \in S /\ y.id <= x.id
      BY <2>1, <2>2
    <3>2. CASE y.id < x.id
      BY <3>1, <3>2 DEF Ordered, OlderQuery
    <3>3. CASE y.id = x.id
      <4>1. y.q = x.q /\ y.t = tick /\ x.t = tick
        BY <3>1, <3>3 DEF Agree, C
      <4> QED
        BY <3>1, <4>1
    <3> QED
      BY <3>1, <3>2, <3>3 DEF Point
  <2>4. newest \in C /\ \A y \in C : y = newest \/ OlderQuery(y, newest)
    BY <2>2, <2>3
  <2>5. ASSUME NEW y \in C PROVE y.id <= newest.id
    <3> HIDE DEF newest
    <3>1. y \in Point /\ newest \in Point /\ y \in S /\ newest \in S
      BY <2>1, <2>4
    <3>2. CASE y = newest
      BY <3>1, <3>2 DEF Point
    <3>3. CASE OlderQuery(y, newest)
      <4>1. ~(newest.id < y.id)
        BY <3>1, <3>3 DEF Ordered, OlderQuery, Point
      <4> QED
        BY <3>1, <4>1 DEF Point
    <3> QED
      BY <2>4, <3>2, <3>3
  <2> QED
    BY <2>4, <2>5
<1>3. Select(e, tick) =
        [buffer |-> [points |-> {x \in Expire(S, tick) : x.t # tick}, last |-> IF C = {} THEN e.last ELSE newest],
         kind |-> IF C # {} THEN "policy" ELSE IF (IF C = {} THEN e.last ELSE newest) = NoPoint THEN "none" ELSE "held",
         point |-> IF C = {} THEN e.last ELSE newest]
  BY DEF Select
<1> HIDE DEF C, newest
<1> QED
  BY <1>1, <1>2, <1>3

-----------------------------------------------------------------------------
(* No command of a stale query *)

StartOf == IF mode = "shadow" THEN ShadowStart ELSE RolloutStart

\* Until the loop runs there is nothing to select from.
StartInv ==
    main.pc = "start" =>
        /\ ens = NewEnsemble /\ pending = <<>> /\ inf.pc = "off" /\ main.tick = 0
        /\ \E k \in 1 .. Len(StartOf) : main.plan = SubSeq(StartOf, k, Len(StartOf))

\* The buffer has chunks without their first points, in the order of the queries.
Known == ens.points \cup Waiting
ChunkInv == Shape(ens.points) /\ Ordered(Known)

\* The inference thread: a query starts at the tick after its end, and the next
\* one ends later.
QueryInv ==
    IF mode = "async"
    THEN /\ inf.due \in Nat
         /\ \A x \in Known :
               /\ x.q = x.end + 1 /\ x.q <= now + 1
               /\ inf.pc = "due" => x.q <= inf.due
               /\ inf.pc = "wait" => x.q <= now
    ELSE inf.pc = "off" /\ pending = <<>>

\* The action in force was recent, and its chunk goes on.
LastInv ==
    ens.last # NoPoint =>
        /\ ens.last.t = main.tick - 1 /\ ens.last.q <= ens.last.t /\ ens.last.q = ens.last.end + 1
        /\ main.next <= ens.last.q + MaxPolicyAge /\ Succ(ens.last) \in ens.points
TickInv ==
    mode = "async" /\ main.pc = "due" =>
        /\ main.next \in Nat /\ main.tick <= main.next /\ main.next <= MaxTime
        /\ \A x \in ens.points : x.q <= main.next
        /\ ens.last \in Point /\ LastInv

\* The canonical loop: every query is older than the one it makes next.
OwnInv == mode = "canonical" /\ main.pc \in {"start", "due", "wait"} => \A x \in ens.points : x.q < main.tick

FreshInv == StartInv /\ ChunkInv /\ QueryInv /\ TickInv /\ OwnInv /\ NoStaleCommand

\* The points of the buffer and of one more chunk, or several.
LEMMA KnownPoints ==
  ASSUME BufferTypes, IdInv, ChunkInv
  PROVE  LET All == Joined(ens.points, Waiting) IN
         /\ All \in SUBSET Point /\ IsFiniteSet(All) /\ Shape(All) /\ Ordered(All)
         /\ \A x \in All : x.id < inf.seq
         /\ \A x, y \in All : Agree(x, y)
         /\ \A x, y \in All : x.q = y.q /\ x.t = y.t => x = y
         /\ \A x \in All : \E w \in Known : Source(x, w)
         /\ \A x \in All : x \in ens.points \/ \E w \in Waiting : Source(x, w)
<1> DEFINE All == Joined(ens.points, Waiting)
<1>1. ens.points \in SUBSET Point /\ IsFiniteSet(ens.points) /\ Waiting \in SUBSET ChunkType /\ IsFiniteSet(Waiting)
  BY WaitingIsFinite DEF BufferTypes
<1>2. /\ All \in SUBSET Point /\ IsFiniteSet(All) /\ Shape(All)
      /\ \A x \in All : \E w \in Known : Source(x, w)
      /\ \A x \in All : x \in ens.points \/ \E w \in Waiting : Source(x, w)
  BY <1>1, JoinedPoints DEF ChunkInv, Known
<1>3. /\ \A w \in Known : w.id < inf.seq /\ w.id \in Nat /\ w.q \in Nat
      /\ \A v, w \in Known : Agree(v, w)
  BY <1>1 DEF IdInv, Known, Point, ChunkType
<1> HIDE DEF All
<1>4. /\ \A x \in All : x.id < inf.seq
      /\ \A x, y \in All : Agree(x, y)
  BY <1>2, <1>3 DEF Source, Agree
<1>5. Ordered(All)
  BY <1>2 DEF Ordered, Source, ChunkInv
<1>6. ASSUME NEW x \in All, NEW y \in All, x.q = y.q, x.t = y.t PROVE x = y
  <2>1. x \in Point /\ y \in Point
    BY <1>2
  <2>2. x.id = y.id
    BY <1>5, <1>6, <2>1 DEF Ordered, Point
  <2>3. x.end = y.end
    BY <1>4, <2>2 DEF Agree
  <2> QED
    BY <1>6, <2>1, <2>2, <2>3 DEF Point
<1> QED
  BY <1>2, <1>4, <1>5, <1>6 DEF All

\* What a command carries, and where the loop goes after it.
Command(sel) == [kind |-> sel.kind, age |-> now - sel.point.end, id |-> sel.point.id]
LEMMA IssueCommand ==
  ASSUME LoopTypes, NEW sel, NEW rows, Issue(Absorbing, sel, rows)
  PROVE  /\ main'.pc \in {"due", "exit", "cleanup"}
         /\ main'.cmd = Command(sel) \/ (main'.cmd = main.cmd /\ main'.sent = main.sent)
         /\ main'.pc = "due" =>
               main'.tick = main.tick + 1 /\ main'.next = NextCommand /\ now < Duration
         /\ main'.overrun = Absorbing.overrun
<1> DEFINE sent == [Absorbing EXCEPT !.sent = @ + 1, !.late = IF PeerDown THEN @ + 1 ELSE 0, !.cmd = Command(sel)]
<1>1. Alike(Absorbing)
  BY AbsorbingIsAlike
<1>2. /\ sent.cmd = Command(sel) /\ sent.tick = main.tick /\ sent.next = main.next
      /\ sent.overrun = Absorbing.overrun /\ DOMAIN sent = DOMAIN Absorbing
  BY <1>1 DEF Alike, LoopType
<1>3. \/ main' = [sent EXCEPT !.tick = @ + 1, !.next = NextCommand, !.pc = Looping]
      \/ main' = Aborted(sent)
      \/ main' = Aborted(Absorbing)
  BY DEF Issue, Command
<1>4. DOMAIN Absorbing = {"pc", "tick", "next", "abort", "sent", "late", "seen", "overrun", "plan", "cmd"}
  BY <1>1 DEF Alike, LoopType
<1> HIDE DEF sent
<1>5. CASE main' = [sent EXCEPT !.tick = @ + 1, !.next = NextCommand, !.pc = Looping]
  <2>1. /\ main'.tick = main.tick + 1 /\ main'.next = NextCommand /\ main'.pc = Looping /\ main'.cmd = Command(sel)
        /\ main'.overrun = Absorbing.overrun
    BY <1>2, <1>4, <1>5
  <2> QED
    BY <2>1 DEF Looping
<1>6. CASE main' = Aborted(sent)
  BY <1>2, <1>4, <1>6 DEF Aborted
<1>7. CASE main' = Aborted(Absorbing)
  BY <1>1, <1>7, AlikeAborts DEF GivesUp
<1> QED
  BY <1>3, <1>5, <1>6, <1>7

\* While the buffer has room, a tick after a first action never holds: the
\* chunk of the action in force reaches the tick, and the newest one is kept.
LEMMA NothingIsHeld ==
  ASSUME TypeInv, IdInv, FreshInv, BacklogFits, mode = "async", main.pc = "due", Due(main.next), ens.last # NoPoint
  PROVE  Candidates(TrimCapacity(Joined(ens.points, Waiting)), main.tick) # {}
<1> DEFINE All == Joined(ens.points, Waiting)
           last == ens.last
           tick == main.tick
           Now == {x \in All : x.t = tick}
<1>1. /\ All \in SUBSET Point /\ IsFiniteSet(All) /\ Shape(All) /\ Ordered(All)
      /\ \A x \in All : x.id < inf.seq
      /\ \A x, y \in All : Agree(x, y)
      /\ \A x, y \in All : x.q = y.q /\ x.t = y.t => x = y
      /\ \A x \in All : \E w \in Known : Source(x, w)
      /\ \A x \in All : x \in ens.points \/ \E w \in Waiting : Source(x, w)
  BY KnownPoints DEF TypeInv, FreshInv
<1>2. /\ tick \in Nat /\ main.next \in Nat /\ tick <= main.next
      /\ \A x \in ens.points : x.q <= main.next
      /\ last \in Point /\ last.t = tick - 1 /\ last.q <= last.t
      /\ main.next <= last.q + MaxPolicyAge /\ Succ(last) \in ens.points
  BY DEF FreshInv, TickInv, LastInv, TypeInv, LoopTypes, LoopType
<1>3. /\ MaxPolicyAge \in Nat /\ MaxPredictionAge \in Nat /\ MaxPolicyAge <= MaxPredictionAge /\ inf.seq \in Nat
      /\ pending \in Seq(ChunkType)
  BY RolloutAssumption, EnsembleAssumption, FreshnessAssumption DEF TypeInv, ThreadTypes, BufferTypes
<1>4. ens.points \subseteq All
  BY DEF Joined
<1>5. Succ(last) \in Now /\ Succ(last).id = last.id /\ Succ(last).q = last.q
  BY <1>2, <1>4 DEF Succ, Point
<1>6. \A w \in Waiting : \E i \in 1 .. Len(pending) : pending[i] = w
  BY DEF Waiting
<1>7. RoomFor(MaxPolicyAge, pending)
  BY DEF BacklogFits, RoomFor
<1> HIDE DEF All
<1>8. NearOrWaiting(All, tick, MaxPolicyAge, pending)
  <2> SUFFICES \A x \in All : x.q <= tick + MaxPolicyAge \/ \E i \in 1 .. Len(pending) : pending[i].q = x.q
    BY DEF NearOrWaiting
  <2> TAKE x \in All
  <2>1. CASE x \in ens.points
    <3>1. x.q \in Nat /\ x.q <= main.next
      BY <1>1, <1>2, <2>1 DEF Point
    <3> HIDE DEF last, tick
    <3>2. last.q \in Nat /\ last.q <= tick - 1 /\ main.next <= last.q + MaxPolicyAge
      BY <1>2 DEF Point
    <3> QED
      BY <1>2, <1>3, <3>1, <3>2
  <2>2. CASE \E w \in Waiting : Source(x, w)
    BY <1>6, <2>2 DEF Source
  <2> QED
    BY <1>1, <2>1, <2>2
<1>9. ChunksFit(All) /\ OnePerQuery(All)
  BY <1>1 DEF Shape, ChunksFit, OnePerQuery
<1> HIDE DEF last, tick
<1>10. PICK x \in Now : \A y \in Now : y.id <= x.id
  <2>1. Now # {} /\ Now \in SUBSET Point /\ \A y \in Now : y.id < inf.seq
    BY <1>1, <1>5
  <2> HIDE DEF Now
  <2> QED
    BY <1>3, <2>1, NewestExists
<1>11. x \in TrimCapacity(All)
  <2>1. NewestAt(x, All, tick)
    BY <1>10 DEF NewestAt
  <2> QED
    BY <1>1, <1>2, <1>3, <1>7, <1>8, <1>9, <2>1, NewestIsKept
<1>12. tick - x.q <= MaxPredictionAge
  <2>1. x \in All /\ Succ(last) \in All /\ x \in Point /\ last \in Point
    BY <1>1, <1>2, <1>5
  <2>2. last.id <= x.id /\ last.id \in Nat /\ x.id \in Nat /\ x.q \in Nat /\ last.q \in Nat
    BY <1>5, <1>10, <2>1 DEF Point
  <2>3. last.q <= x.q
    <3>1. CASE last.id < x.id
      BY <1>1, <1>5, <2>1, <2>2, <3>1 DEF Ordered
    <3>2. CASE last.id = x.id
      BY <1>1, <1>5, <2>1, <2>2, <3>2 DEF Agree
    <3> QED
      BY <2>2, <3>1, <3>2
  <2> QED
    BY <1>2, <1>3, <2>2, <2>3
<1> QED
  BY <1>10, <1>11, <1>12 DEF Candidates, All, tick

\* Async: what is sent is recent, and goes on being so until the next tick.
LEMMA AsyncFresh ==
  ASSUME TypeInv, IdInv, FreshInv, AsyncTick, ~main'.overrun
  PROVE  FreshInv'
<1> DEFINE All == Joined(ens.points, Waiting)
           tick == main.tick
           sel == Select(AddPredictions(ens, Range(pending)), tick)
           hold == [sel EXCEPT !.kind = IF @ = "none" THEN "startup" ELSE @]
<1>1. mode = "async" /\ mode' = mode /\ now' = now /\ inf' = inf /\ main.pc = "due" /\ Due(main.next)
  BY DEF AsyncTick
<1>2. LoopTypes /\ LoopType(main) /\ tick \in Nat /\ now \in Nat /\ now <= MaxTime /\ MaxTime \in Nat /\ MaxPolicyAge \in Nat
  BY RolloutAssumption DEF TypeInv, LoopTypes, LoopType, WorldTypes
<1>3. CASE ~PeersOk
  <2>1. main' = Aborted(main) /\ ens' = ens /\ pending' = pending
    BY <1>3 DEF AsyncTick
  <2>2. main'.pc = "cleanup" /\ main'.cmd = main.cmd
    BY <1>2, <2>1 DEF LoopType, Aborted
  <2>3. Known' = Known
    BY <2>1 DEF Known, Waiting
  <2>4. ChunkInv' /\ NoStaleCommand'
    BY <2>1, <2>2, <2>3 DEF FreshInv, ChunkInv, NoStaleCommand, Shape, Ordered
  <2>5. QueryInv'
    BY <1>1, <2>1, <2>3 DEF FreshInv, QueryInv
  <2> QED
    BY <2>2, <2>4, <2>5 DEF FreshInv, StartInv, TickInv, OwnInv
<1>4. CASE PeersOk
  <2>1. /\ All \in SUBSET Point /\ IsFiniteSet(All) /\ Shape(All) /\ Ordered(All)
        /\ \A x \in All : x.id < inf.seq
        /\ \A x, y \in All : Agree(x, y)
        /\ \A x, y \in All : x.q = y.q /\ x.t = y.t => x = y
        /\ \A x \in All : \E w \in Known : Source(x, w)
    BY KnownPoints DEF TypeInv, FreshInv
  <2> DEFINE kept == TrimCapacity(All)
             filled == AddPredictions(ens, Range(pending))
  <2>2. filled.points = kept /\ filled.last = ens.last
    <3>1. ens \in [points : SUBSET Point, last : {ens.last}] /\ Range(pending) = Waiting
      BY WaitingIsFinite DEF TypeInv, BufferTypes
    <3> QED
      BY <3>1 DEF AddPredictions, Joined
  <2>3. kept \subseteq All /\ kept \in SUBSET Point
    BY <2>1 DEF TrimCapacity
  <2>4. Shape(kept)
    BY <2>1, TrimShape
  <2>5. inf.seq \in Nat
    BY DEF TypeInv, ThreadTypes
  <2> DEFINE C == Candidates(kept, tick)
             rest == {x \in Expire(kept, tick) : x.t # tick}
  <2>6. /\ sel.buffer = [points |-> rest, last |-> sel.point]
        /\ C # {} => sel.kind = "policy" /\ sel.point \in C
        /\ C = {} => sel.point = ens.last /\ sel.kind = IF ens.last = NoPoint THEN "none" ELSE "held"
    <3>1. /\ \A x \in kept : x.id < inf.seq
          /\ \A x, y \in kept : x.q = y.q /\ x.t = y.t => x = y
          /\ Ordered(kept) /\ \A x, y \in kept : Agree(x, y)
      BY <2>1, <2>3 DEF Ordered
    <3> HIDE DEF kept, filled
    <3> QED
      BY <1>2, <2>2, <2>3, <2>5, <3>1, SelectNewest DEF filled
  <2>19. BacklogFits
    BY <1>2, <1>4, AbsorbingIsAlike, AlikeAborts, IssueCommand DEF AsyncTick
  <2>7. C = {} => ens.last = NoPoint
    BY <1>1, <1>4, <2>19, NothingIsHeld
  <2>8. ens' = sel.buffer /\ pending' = <<>> /\ ((Issue(Absorbing, hold, log) /\ FreshEnough(sel)) \/ main' = Aborted(Absorbing))
    BY <1>4 DEF AsyncTick
  <2>9. ens'.points = rest /\ ens'.last = sel.point
    BY <2>6, <2>8
  <2>10. rest \subseteq kept /\ Shape(rest)
    <3> HIDE DEF kept
    <3>1. Shape(rest)
      BY <1>2, <2>3, <2>4, SelectShape
    <3> QED
      BY <3>1 DEF Expire
  <2>11. hold.point = sel.point /\ hold.kind = (IF sel.kind = "none" THEN "startup" ELSE sel.kind)
    BY DEF Select
  <2> HIDE DEF All, kept, rest, C, sel, hold, filled, tick
  <2>12. Known' = rest
    BY <2>8, <2>9 DEF Known, Waiting
  <2>13. ChunkInv'
    BY <2>1, <2>3, <2>9, <2>10, <2>12 DEF ChunkInv, Ordered, Shape
  <2>14. /\ inf.due \in Nat
         /\ \A x \in All : /\ x.q = x.end + 1 /\ x.q <= now + 1
                           /\ inf.pc = "due" => x.q <= inf.due
                           /\ inf.pc = "wait" => x.q <= now
    BY <1>1, <2>1 DEF FreshInv, QueryInv, Source
  <2>15. QueryInv'
    BY <1>1, <2>3, <2>10, <2>12, <2>14 DEF QueryInv
  <2>16. main'.pc # "start" /\ OwnInv' /\ StartInv'
    <3>1. main'.pc \in {"due", "exit", "cleanup"}
      BY <1>2, <2>8, IssueCommand, AlikeAborts, AbsorbingIsAlike DEF GivesUp
    <3> QED
      BY <1>1, <3>1 DEF OwnInv, StartInv
  <2>17. CASE main' = Aborted(Absorbing)
    <3>1. main'.pc = "cleanup" /\ main'.cmd = main.cmd
      BY <1>2, <2>17, AlikeAborts, AbsorbingIsAlike DEF GivesUp
    <3>2. TickInv' /\ NoStaleCommand'
      BY <3>1 DEF FreshInv, TickInv, NoStaleCommand
    <3> QED
      BY <2>13, <2>15, <2>16, <3>2 DEF FreshInv
  <2>18. CASE Issue(Absorbing, hold, log) /\ FreshEnough(sel)
    <3>1. /\ main'.cmd = Command(hold) \/ main'.cmd = main.cmd
          /\ main'.pc = "due" => main'.tick = tick + 1 /\ main'.next = NextCommand /\ now < Duration
      BY <1>2, <2>18, IssueCommand DEF tick
    <3>2. sel.kind \in {"policy", "held"} => C # {} /\ sel.kind = "policy"
      BY <2>6, <2>7
    <3>3. C # {} => /\ sel.point \in kept /\ sel.point \in Point /\ sel.point.t = tick
                    /\ now - sel.point.end <= MaxPolicyAge
      BY <2>3, <2>6, <2>18 DEF Candidates, FreshEnough, C
    <3>4. NoStaleCommand'
      <4>1. CASE main'.cmd = main.cmd
        BY <4>1 DEF FreshInv, NoStaleCommand
      <4>2. CASE main'.cmd = Command(hold)
        <5>1. main'.cmd.kind = hold.kind /\ main'.cmd.age = now - sel.point.end
          BY <2>11, <4>2 DEF Command
        <5>2. hold.kind \in {"policy", "held"} => sel.kind \in {"policy", "held"}
          BY <2>11
        <5> QED
          BY <3>2, <3>3, <5>1, <5>2 DEF NoStaleCommand
      <4> QED
        BY <3>1, <4>1, <4>2
    <3>5. TickInv'
      <4> SUFFICES ASSUME main'.pc = "due"
                   PROVE  /\ main'.next \in Nat /\ main'.tick <= main'.next /\ main'.next <= MaxTime
                          /\ \A x \in ens'.points : x.q <= main'.next
                          /\ ens'.last \in Point /\ LastInv'
        BY DEF TickInv
      <4>1. main.next \in Nat /\ tick <= main.next /\ main.next <= MaxTime /\ ens.last \in Point
        BY <1>1 DEF FreshInv, TickInv, tick
      <4>2. main.next <= now
        BY <1>1, <1>2, <4>1 DEF Due
      <4>3. main'.next = now + 1 /\ now + 1 <= MaxTime /\ main'.tick = tick + 1 /\ tick <= now
        <5>1. main'.next = now + 1
          BY <1>2, <3>1, <4>1, <4>2 DEF NextCommand
        <5> QED
          BY <1>2, <3>1, <4>1, <4>2, <5>1, RolloutAssumption
      <4>4. \A x \in ens'.points : x.q <= main'.next
        BY <2>3, <2>9, <2>10, <2>14, <4>3
      <4>5. CASE C = {}
        <5>1. ens'.last = NoPoint /\ ens'.last \in Point
          BY <2>6, <2>7, <2>9, <4>1, <4>5
        <5> QED
          BY <1>2, <4>3, <4>4, <5>1 DEF LastInv
      <4>6. CASE C # {}
        <5> DEFINE p == sel.point
        <5>1. /\ p \in kept /\ p \in Point /\ p.t = tick /\ now - p.end <= MaxPolicyAge
              /\ p.q = p.end + 1 /\ ChunkBound(p) /\ (p.t < p.q + MaxSourceHorizon => Succ(p) \in kept)
          BY <2>3, <2>4, <2>14, <3>3, <4>6 DEF Shape
        <5>2. p.q \in Nat /\ p.end \in Nat /\ p.t \in Nat /\ MaxSourceHorizon \in Nat /\ MaxPolicyAge <= MaxSourceHorizon
          BY <5>1, EnsembleAssumption, FreshnessAssumption DEF Point
        <5>3. p.t < p.q + MaxSourceHorizon
          BY <1>2, <4>3, <5>1, <5>2
        <5>4. Succ(p) \in rest
          <6>1. Succ(p) \in kept /\ Succ(p).t = tick + 1
            BY <5>1, <5>3 DEF Succ, Point
          <6> QED
            BY <1>2, <6>1 DEF rest, Expire
        <5>5. now + 1 <= p.q + MaxPolicyAge
          BY <1>2, <5>1, <5>2
        <5>6. p.q <= p.t /\ p.t = (tick + 1) - 1
          BY <1>2, <5>1 DEF ChunkBound
        <5>7. LastInv'
          BY <2>9, <4>3, <5>1, <5>4, <5>5, <5>6 DEF LastInv
        <5> QED
          BY <1>2, <2>9, <4>3, <4>4, <5>1, <5>7
      <4> QED
        BY <4>5, <4>6
    <3> QED
      BY <2>13, <2>15, <2>16, <3>4, <3>5 DEF FreshInv
  <2> QED
    BY <2>8, <2>17, <2>18
<1> QED
  BY <1>3, <1>4

\* Canonical: the query just made is the newest there is.
LEMMA CanonicalFresh ==
  ASSUME TypeInv, IdInv, FreshInv, CanonicalAnswer, ~main'.overrun
  PROVE  FreshInv' /\ (main'.sent > main.sent => main'.cmd.id = inf.seq /\ main'.cmd.kind = "policy")
<1> DEFINE tick == main.tick
           p == [id |-> inf.seq, q |-> tick, end |-> now]
           own == [id |-> inf.seq, q |-> tick, end |-> now, t |-> tick]
           All == Joined(ens.points, {p})
           sel == Select(AddPrediction(ens, p), tick)
<1>1. mode = "canonical" /\ mode' = mode /\ now' = now /\ main.pc = "wait" /\ pending' = pending
  BY DEF CanonicalAnswer
<1>2. /\ LoopTypes /\ LoopType(main) /\ tick \in Nat /\ now \in Nat /\ inf.seq \in Nat /\ inf.seq + 1 \in Nat
      /\ MaxPolicyAge \in Nat /\ MaxPredictionAge \in Nat /\ MaxSourceHorizon \in Nat /\ main.sent \in Nat
  BY RolloutAssumption, EnsembleAssumption DEF TypeInv, ThreadTypes, LoopTypes, LoopType, WorldTypes
<1>3. /\ inf.pc = "off" /\ pending = <<>> /\ Waiting = {} /\ Known = ens.points
      /\ \A x \in ens.points : x.q < tick
  BY <1>1 DEF FreshInv, QueryInv, OwnInv, Known, Waiting
<1>4. CASE ~(IsPrediction /\ LogRoom(log))
  <2>1. main' = Aborted(main) /\ ens' = ens /\ inf' = inf
    BY <1>4 DEF CanonicalAnswer
  <2>2. main'.pc = "cleanup" /\ main'.cmd = main.cmd /\ main'.sent = main.sent
    BY <1>2, <2>1 DEF LoopType, Aborted
  <2>3. Known' = Known
    BY <1>1, <2>1 DEF Known, Waiting
  <2>4. ChunkInv' /\ NoStaleCommand'
    BY <2>1, <2>2, <2>3 DEF FreshInv, ChunkInv, NoStaleCommand, Shape, Ordered
  <2>5. QueryInv'
    BY <1>1, <1>3, <2>1 DEF QueryInv
  <2> QED
    BY <1>1, <1>2, <2>2, <2>4, <2>5 DEF FreshInv, StartInv, TickInv, OwnInv
<1>5. CASE IsPrediction /\ LogRoom(log)
  <2>23. BacklogFits
    BY <1>2, <1>5, AbsorbingIsAlike, AlikeAborts, IssueCommand DEF CanonicalAnswer
  <2>1. ens.points \in SUBSET Point /\ IsFiniteSet(ens.points) /\ p \in ChunkType
    BY <1>2 DEF TypeInv, BufferTypes, ChunkType
  <2>2. /\ All \in SUBSET Point /\ IsFiniteSet(All) /\ Shape(All)
        /\ \A x \in All : x \in ens.points \/ Source(x, p)
    <3> HIDE DEF p
    <3>1. {p} \in SUBSET ChunkType /\ IsFiniteSet({p})
      BY <2>1, FS_Singleton
    <3>2. Shape(ens.points)
      BY DEF FreshInv, ChunkInv
    <3> QED
      BY <2>1, <3>1, <3>2, JoinedPoints
  <2>3. own \in All
    BY <1>2 DEF Joined, ChunkPoints
  <2>4. \A x \in All : \/ x.id < inf.seq /\ x.q < tick /\ x \in ens.points
                       \/ x.id = inf.seq /\ x.q = tick /\ x.end = now
    BY <1>3, <2>2 DEF IdInv, Source
  <2>5. Ordered(All)
    <3>1. Ordered(ens.points)
      BY <1>3 DEF FreshInv, ChunkInv
    <3>2. \A x \in All : x.id \in Nat /\ x.q \in Nat
      BY <2>2 DEF Point
    <3> HIDE DEF All, own, p, sel, tick
    <3> QED
      BY <1>2, <2>4, <3>1, <3>2 DEF Ordered
  <2>6. \A x, y \in All : Agree(x, y)
    <3>1. \A x, y \in ens.points : Agree(x, y)
      BY DEF IdInv
    <3> HIDE DEF All, own, p, sel
    <3> QED
      BY <1>2, <2>2, <2>4, <3>1 DEF Agree
  <2>7. \A x, y \in All : x.q = y.q /\ x.t = y.t => x = y
    <3> HIDE DEF All, own, p, sel
    <3> SUFFICES ASSUME NEW x \in All, NEW y \in All, x.q = y.q, x.t = y.t PROVE x = y
      OBVIOUS
    <3>1. x \in Point /\ y \in Point
      BY <2>2
    <3>2. x.id = y.id
      BY <2>5, <3>1 DEF Ordered, Point
    <3>3. x.end = y.end
      BY <2>6, <3>2 DEF Agree
    <3> QED
      BY <3>1, <3>2, <3>3 DEF Point
  <2> DEFINE kept == TrimCapacity(All)
             C == Candidates(kept, tick)
             rest == {x \in Expire(kept, tick) : x.t # tick}
             e == AddPrediction(ens, p)
  <2>8. own \in kept
    <3>7. own.t = tick /\ own.id = inf.seq
      OBVIOUS
    <3>8. \A x \in All : x.q \in Nat /\ x.id \in Nat
      BY <2>2 DEF Point
    <3> HIDE DEF All, own, p, sel, tick
    <3>1. RoomFor(MaxPolicyAge, pending)
      BY <2>23 DEF BacklogFits, RoomFor
    <3>2. pending \in Seq(ChunkType)
      BY DEF TypeInv, BufferTypes
    <3>3. NearOrWaiting(All, tick, MaxPolicyAge, pending)
      <4>1. \A x \in All : x.q \in Nat /\ x.q <= tick
        BY <1>2, <2>4, <3>8
      <4> QED
        BY <1>2, <4>1 DEF NearOrWaiting
    <3>4. ChunksFit(All) /\ OnePerQuery(All)
      BY <2>2, <2>7 DEF Shape, ChunksFit, OnePerQuery
    <3>5. NewestAt(own, All, tick)
      BY <1>2, <2>3, <2>4, <3>7, <3>8 DEF NewestAt
    <3>9. All \in SUBSET Point /\ IsFiniteSet(All) /\ tick \in Nat /\ MaxPolicyAge \in Nat
      BY <1>2, <2>2
    <3> QED
      BY <3>1, <3>2, <3>3, <3>4, <3>5, <3>9, NewestIsKept
  <2>9. own \in C
    BY <1>2, <2>8 DEF Candidates
  <2>10. kept \subseteq All /\ kept \in SUBSET Point
    BY <2>2 DEF TrimCapacity
  <2>11. e.points = kept
    BY DEF TypeInv, BufferTypes, AddPrediction, AddPredictions, Joined
  <2>12. /\ sel.buffer = [points |-> rest, last |-> sel.point]
         /\ sel.kind = "policy" /\ sel.point \in C /\ own.id <= sel.point.id
    <3>1. /\ \A x \in kept : x.id < inf.seq + 1
          /\ \A x, y \in kept : x.q = y.q /\ x.t = y.t => x = y
          /\ Ordered(kept) /\ \A x, y \in kept : Agree(x, y)
      <4> HIDE DEF All, own, p, sel
      <4>1. \A x \in All : x.id < inf.seq + 1
        <5>1. \A x \in All : x.id \in Nat
          BY <2>2 DEF Point
        <5> QED
          BY <1>2, <2>4, <5>1
      <4> QED
        BY <2>5, <2>6, <2>7, <2>10, <4>1 DEF Ordered
    <3>2. sel = Select(e, tick)
      OBVIOUS
    <3> HIDE DEF kept, e, sel, own
    <3> QED
      BY <1>2, <2>9, <2>10, <2>11, <3>1, <3>2, SelectNewest
  <2>13. sel.point.id = inf.seq /\ sel.point.end = now
    <3>1. sel.point \in All /\ own.id = inf.seq /\ sel.point \in Point
      BY <2>10, <2>12 DEF Candidates
    <3> HIDE DEF All, own, p, sel, kept, C
    <3> QED
      BY <1>2, <2>4, <2>12, <3>1 DEF Point
  <2>14. ens' = sel.buffer /\ Issue(Absorbing, sel, Logged(log)) /\ inf' = [inf EXCEPT !.seq = @ + 1]
    BY <1>5, <2>12 DEF CanonicalAnswer
  <2>15. ens'.points = rest
    <3> HIDE DEF sel, rest
    <3> QED
      BY <2>12, <2>14
  <2>16. rest \subseteq kept /\ Shape(rest)
    <3>1. Shape(kept)
      BY <2>2, TrimShape
    <3> HIDE DEF kept
    <3>2. Shape(rest)
      BY <1>2, <2>10, <3>1, SelectShape
    <3> QED
      BY <3>2 DEF Expire
  <2> HIDE DEF All, kept, rest, C, sel, own, e, p
  <2>17. ChunkInv'
    <3>1. Known' = rest
      BY <1>1, <1>3, <2>15 DEF Known, Waiting
    <3> QED
      BY <2>5, <2>10, <2>15, <2>16, <3>1 DEF ChunkInv, Ordered, Shape
  <2>18. QueryInv'
    BY <1>1, <1>3, <2>14 DEF QueryInv, TypeInv, ThreadTypes
  <2>19. /\ main'.pc \in {"due", "exit", "cleanup"}
         /\ main'.cmd = Command(sel) \/ (main'.cmd = main.cmd /\ main'.sent = main.sent)
         /\ main'.pc = "due" => main'.tick = tick + 1
    BY <1>2, <2>14, IssueCommand
  <2>20. Command(sel).kind = "policy" /\ Command(sel).age <= MaxPolicyAge /\ Command(sel).id = inf.seq
    BY <1>2, <2>12, <2>13 DEF Command
  <2>21. NoStaleCommand'
    BY <2>19, <2>20 DEF FreshInv, NoStaleCommand
  <2>22. OwnInv'
    <3>1. \A x \in rest : x.q \in Nat /\ x.q <= tick
      BY <1>2, <2>2, <2>4, <2>10, <2>16 DEF Point
    <3>2. main'.pc \in {"start", "due", "wait"} => main'.tick = tick + 1
      BY <2>19
    <3> QED
      BY <1>2, <2>15, <3>1, <3>2 DEF OwnInv
  <2> QED
    BY <1>1, <1>2, <2>17, <2>18, <2>19, <2>20, <2>21, <2>22 DEF FreshInv, StartInv, TickInv
<1> QED
  BY <1>4, <1>5

\* Steps that leave the buffers, the inference thread and the last command alone.
LEMMA IdleFresh ==
  ASSUME FreshInv, mode' = mode, ens' = ens, pending' = pending, inf'.pc = inf.pc, inf'.due = inf.due,
         now \in Int, now' \in Int, now <= now', main'.cmd = main.cmd,
         main'.pc # "start" \/ main' = main,
         mode = "async" /\ main'.pc = "due" => main' = main,
         mode = "canonical" /\ main'.pc \in {"due", "wait"} => main.pc \in {"due", "wait"} /\ main'.tick = main.tick,
         \A x \in Known : x.q \in Int
  PROVE  FreshInv'
<1>1. Known' = Known
  BY DEF Known, Waiting
<1>2. ChunkInv'
  BY <1>1 DEF FreshInv, ChunkInv, Shape, Ordered
<1>3. QueryInv'
  <2>1. CASE mode = "async"
    <3>1. \A x \in Known : x.q <= now + 1 => x.q <= now' + 1
      OBVIOUS
    <3>2. \A x \in Known : x.q <= now => x.q <= now'
      OBVIOUS
    <3> QED
      BY <1>1, <2>1, <3>1, <3>2 DEF FreshInv, QueryInv
  <2>2. CASE mode # "async"
    BY <2>2 DEF FreshInv, QueryInv
  <2> QED
    BY <2>1, <2>2
<1>4. NoStaleCommand'
  BY DEF FreshInv, NoStaleCommand
<1>5. StartInv'
  <2>1. CASE main' = main
    BY <2>1 DEF FreshInv, StartInv, StartOf
  <2>2. CASE main'.pc # "start"
    BY <2>2 DEF StartInv
  <2> QED
    BY <2>1, <2>2
<1>6. TickInv'
  BY DEF FreshInv, TickInv, LastInv
<1>7. OwnInv'
  BY DEF FreshInv, OwnInv, StartInv, NewEnsemble
<1> QED
  BY <1>2, <1>3, <1>4, <1>5, <1>6, <1>7 DEF FreshInv

LEMMA KnownTypes ==
  ASSUME BufferTypes
  PROVE  \A x \in Known : x.id \in Nat /\ x.q \in Nat /\ x.end \in Nat
<1>1. ens.points \subseteq Point /\ Waiting \subseteq ChunkType
  BY WaitingIsFinite DEF BufferTypes
<1> QED
  BY <1>1 DEF Known, Point, ChunkType

\* What is started last is the inference thread.
StartSteps ==
    {"log", "model", "warmup", "hand", "cameras", "native", "status", "align", "activate", "inference", "jaka", "connect"}
LEMMA StartPlan ==
  /\ StartOf \in Seq(StartSteps) /\ Len(StartOf) \in Nat \ {0}
  /\ mode # "shadow" => \A k \in 1 .. Len(StartOf) : StartOf[k] = "inference" => k = Len(StartOf)
<1>1. CASE mode = "shadow"
  <2> DEFINE t == <<"cameras", "jaka", "hand", "connect">>
  <2>1. t \in Seq(StartSteps)
    BY DEF StartSteps
  <2>2. Len(t) = 4
    OBVIOUS
  <2>3. StartOf = t
    BY <1>1 DEF StartOf, ShadowStart
  <2> HIDE DEF t
  <2>4. StartOf \in Seq(StartSteps) /\ Len(StartOf) = 4
    BY <2>1, <2>2, <2>3, Zenon
  <2> QED
    BY <1>1, <2>4
<1>2. CASE mode # "shadow"
  <2> DEFINE t == <<"log", "model", "warmup", "hand", "cameras", "native", "status", "align", "activate", "inference">>
  <2>1. t \in Seq(StartSteps)
    BY DEF StartSteps
  <2>2. /\ Len(t) = 10 /\ t[1] = "log" /\ t[2] = "model" /\ t[3] = "warmup" /\ t[4] = "hand" /\ t[5] = "cameras"
        /\ t[6] = "native" /\ t[7] = "status" /\ t[8] = "align" /\ t[9] = "activate"
    OBVIOUS
  <2>3. StartOf = t
    BY <1>2 DEF StartOf, RolloutStart
  <2> HIDE DEF t
  <2>4. \A k \in 1 .. 10 : t[k] = "inference" => k = 10
    BY <2>2
  <2>5. StartOf \in Seq(StartSteps) /\ Len(StartOf) = 10
    BY <2>1, <2>2, <2>3, Zenon
  <2>6. \A k \in 1 .. Len(StartOf) : StartOf[k] = "inference" => k = Len(StartOf)
    BY <2>3, <2>4, <2>5
  <2>7. Len(StartOf) \in Nat \ {0}
    BY <2>5
  <2> QED
    BY <2>5, <2>6, <2>7, Zenon
<1> QED
  BY <1>1, <1>2

LEMMA FreshInit == Init => FreshInv
<1> SUFFICES ASSUME Init PROVE FreshInv
  OBVIOUS
<1> USE DEF Init
<1>1. ens.points = {} /\ Waiting = {} /\ Known = {}
  BY DEF NewEnsemble, Known, Waiting
<1>2. StartInv
  <2>1. main.plan = StartOf /\ Len(StartOf) >= 1 /\ SubSeq(StartOf, 1, Len(StartOf)) = StartOf
    <3>1. StartOf \in Seq(StartSteps) /\ Len(StartOf) \in Nat \ {0}
      BY StartPlan
    <3>2. SubSeq(StartOf, 1, Len(StartOf)) = StartOf /\ Len(StartOf) >= 1
      BY <3>1
    <3> QED
      BY <3>2 DEF StartOf
  <2> QED
    BY <2>1 DEF StartInv
<1>3. ChunkInv
  BY <1>1 DEF ChunkInv, Shape, Ordered
<1>4. QueryInv
  BY <1>1 DEF QueryInv
<1> QED
  BY <1>1, <1>2, <1>3, <1>4 DEF FreshInv, TickInv, OwnInv, NoStaleCommand, NoCommand

LEMMA EnvironmentFresh ==
  ASSUME TypeInv, FreshInv, Environment
  PROVE  FreshInv'
<1>1. UNCHANGED <<mode, main, inf, pending, ens>> /\ now' \in {now, now + 1} /\ now \in Nat
  BY DEF Environment, Advance, Refresh, Breaks, ModelServe, LogStep, TypeInv, WorldTypes
<1>2. main.pc \in {"due", "wait"} \/ main' = main
  BY <1>1
<1>3. now \in Int /\ now' \in Int /\ now <= now'
  BY <1>1
<1>4. \A x \in Known : x.q \in Int
  BY KnownTypes DEF TypeInv
<1> QED
  BY <1>1, <1>3, <1>4, IdleFresh

\* The loop asks, or it ends.
LEMMA QuietFresh ==
  ASSUME TypeInv, FreshInv,
         CanonicalAsk \/ ShadowAsk \/ ShadowAnswer \/ ExitLoop \/ ExitJoin
           \/ CleanupStep \/ CleanupRaises \/ ModelWait \/ FinishLog
  PROVE  FreshInv'
<1>1. LoopType(main) /\ now \in Int /\ \A x \in Known : x.q \in Int
  BY KnownTypes DEF TypeInv, LoopTypes, WorldTypes
<1>2. /\ UNCHANGED <<mode, now, pending, ens>> /\ inf'.pc = inf.pc /\ inf'.due = inf.due
  BY DEF CanonicalAsk, ShadowAsk, ShadowAnswer, ExitLoop, ExitJoin, CleanupStep, CleanupRaises, ModelWait, FinishLog,
         TypeInv, ThreadTypes
<1>3. main'.cmd = main.cmd
  BY <1>1 DEF CanonicalAsk, ShadowAsk, ShadowAnswer, ExitLoop, ExitJoin, CleanupStep, CleanupRaises, ModelWait, FinishLog,
              Aborted, Goes, LoopType
<1>4. main'.pc # "start"
  BY <1>1 DEF CanonicalAsk, ShadowAsk, ShadowAnswer, ExitLoop, ExitJoin, CleanupStep, CleanupRaises, ModelWait, FinishLog,
              Aborted, Goes, LoopType
<1>5. main'.pc = "due" => mode = "shadow"
  BY <1>1 DEF CanonicalAsk, ShadowAsk, ShadowAnswer, ExitLoop, ExitJoin, CleanupStep, CleanupRaises, ModelWait, FinishLog,
              Aborted, Goes, LoopType
<1>6. main'.pc = "wait" => mode = "shadow" \/ (main.pc = "due" /\ main'.tick = main.tick)
  BY <1>1 DEF CanonicalAsk, ShadowAsk, ShadowAnswer, ExitLoop, ExitJoin, CleanupStep, CleanupRaises, ModelWait, FinishLog,
              Aborted, Goes, LoopType
<1> QED
  BY <1>1, <1>2, <1>3, <1>4, <1>5, <1>6, IdleFresh

LEMMA StartFresh ==
  ASSUME TypeInv, FreshInv, StartStep
  PROVE  FreshInv'
<1>1. /\ main.pc = "start" /\ UNCHANGED <<mode, now, pending, ens>> /\ LoopType(main) /\ now \in Nat /\ now <= MaxTime
      /\ MaxTime \in Nat /\ inf.pc = "off" /\ ens = NewEnsemble /\ pending = <<>> /\ main.tick = 0
  BY RolloutAssumption DEF StartStep, TypeInv, LoopTypes, WorldTypes, FreshInv, StartInv
<1>2. Known = {} /\ Known' = {} /\ ens.points = {} /\ ens.last = NoPoint
  BY <1>1 DEF Known, Waiting, NewEnsemble
<1>3. CASE main' = Aborted(main) /\ inf' = inf
  <2>1. main'.pc = "cleanup" /\ main'.cmd = main.cmd
    BY <1>1, <1>3 DEF LoopType, Aborted
  <2> QED
    BY <1>1, <1>2, <1>3, <2>1, IdleFresh
<1>4. CASE /\ Started(Head(main.plan))
           /\ main' = [main EXCEPT !.plan = Tail(@), !.next = now, !.pc = IF Tail(main.plan) = <<>> THEN "due" ELSE "start"]
  <2>1. PICK k \in 1 .. Len(StartOf) : main.plan = SubSeq(StartOf, k, Len(StartOf))
    BY <1>1 DEF FreshInv, StartInv
  <2>2. /\ Head(main.plan) = StartOf[k] /\ Tail(main.plan) = SubSeq(StartOf, k + 1, Len(StartOf))
        /\ Tail(main.plan) = <<>> <=> k = Len(StartOf)
    BY <2>1, StartPlan, PlanSuffixes
  <2>3. /\ main'.plan = Tail(main.plan) /\ main'.next = now /\ main'.tick = 0 /\ main'.cmd = main.cmd
        /\ main'.pc = IF Tail(main.plan) = <<>> THEN "due" ELSE "start"
    BY <1>1, <1>4 DEF LoopType
  <2>4. /\ inf' = inf \/ (mode = "async" /\ Head(main.plan) = "inference" /\ inf' = [inf EXCEPT !.pc = "due", !.due = now])
    BY <1>4 DEF Started, StartInference
  <2>5. mode # "async" => inf' = inf
    BY <2>4
  <2>6. main'.pc = "start" => inf' = inf /\ k + 1 \in 1 .. Len(StartOf)
    <3>1. Len(StartOf) \in Nat
      BY StartPlan
    <3>2. ASSUME main'.pc = "start" PROVE k # Len(StartOf)
      BY <2>2, <2>3, <3>2
    <3>3. k # Len(StartOf) => inf' = inf
      BY <2>2, <2>4, StartPlan
    <3> QED
      BY <3>1, <3>2, <3>3
  <2>7. StartInv'
    BY <1>1, <2>1, <2>2, <2>3, <2>6 DEF StartInv, StartOf
  <2>8. QueryInv'
    <3>1. mode = "async" => inf'.due \in Nat
      BY <1>1, <2>4 DEF FreshInv, QueryInv, TypeInv, ThreadTypes
    <3> QED
      BY <1>1, <1>2, <2>5, <3>1 DEF QueryInv
  <2>9. TickInv'
    <3>1. NoPoint \in Point
      BY DEF NoPoint, Point
    <3> QED
      BY <1>1, <1>2, <2>3, <3>1 DEF TickInv, LastInv
  <2>10. ChunkInv' /\ OwnInv' /\ NoStaleCommand'
    BY <1>1, <1>2, <2>3 DEF FreshInv, ChunkInv, Shape, Ordered, OwnInv, NoStaleCommand
  <2> QED
    BY <2>7, <2>8, <2>9, <2>10 DEF FreshInv
<1> QED
  BY <1>3, <1>4 DEF StartStep

LEMMA InferenceFresh ==
  ASSUME TypeInv, IdInv, FreshInv, InfStep
  PROVE  FreshInv'
<1>1. /\ UNCHANGED <<mode, now, main, ens>> /\ inf.pc \in {"due", "wait"} /\ mode = "async" /\ now \in Nat
      /\ inf.due \in Nat /\ inf.seq \in Nat /\ main.pc # "start"
  BY DEF InfStep, InfStart, InfStop, InfAnswer, FreshInv, QueryInv, StartInv, TypeInv, WorldTypes, ThreadTypes
<1>2. inf = [pc |-> inf.pc, due |-> inf.due, seq |-> inf.seq, error |-> inf.error, stop |-> inf.stop]
  BY DEF TypeInv, ThreadTypes
<1>3. \A x \in Known : /\ x.id \in Nat /\ x.q \in Nat /\ x.end \in Nat /\ x.q = x.end + 1 /\ x.q <= now + 1
                       /\ inf.pc = "due" => x.q <= inf.due
                       /\ inf.pc = "wait" => x.q <= now
  BY <1>1, KnownTypes DEF TypeInv, FreshInv, QueryInv
<1>4. StartInv' /\ TickInv' /\ OwnInv' /\ NoStaleCommand'
  BY <1>1 DEF FreshInv, StartInv, TickInv, LastInv, OwnInv, NoStaleCommand
<1>5. CASE pending' = pending /\ inf'.due = inf.due
           /\ (inf'.pc = "ended" \/ (inf'.pc = "wait" /\ now >= inf.due /\ inf.pc = "due"))
  <2>1. Known' = Known
    BY <1>1, <1>5 DEF Known, Waiting
  <2>2. ChunkInv'
    BY <1>1, <2>1 DEF FreshInv, ChunkInv, Shape, Ordered
  <2>3. QueryInv'
    BY <1>1, <1>3, <1>5, <2>1 DEF QueryInv
  <2> QED
    BY <1>4, <2>2, <2>3 DEF FreshInv
<1>6. CASE /\ pending' = Publish([id |-> inf.seq, q |-> QueryCommandTick, end |-> now]) /\ inf.pc = "wait"
           /\ (inf'.pc = "due" /\ inf'.due = NextDue) \/ (inf'.pc = "ended" /\ inf'.due = inf.due)
  <2> DEFINE p == [id |-> inf.seq, q |-> QueryCommandTick, end |-> now]
  <2>1. p \in ChunkType /\ p.id = inf.seq /\ p.q = now + 1 /\ p.end = now
    BY <1>1 DEF ChunkType, QueryCommandTick
  <2> HIDE DEF p
  <2>2. pending' = Publish(p)
    BY <1>6 DEF p
  <2>3. Known' \subseteq Known \cup {p}
    BY <1>1, <2>1, <2>2, PublishWaiting DEF Known, TypeInv
  <2>4. \A x \in Known : x.id < inf.seq
    BY DEF IdInv, Known
  <2>5. Ordered(Known \cup {p})
    <3>1. \A x \in Known : x.id < p.id /\ x.q < p.q /\ x.id \in Nat
      BY <1>1, <1>3, <1>6, <2>1, <2>4
    <3>2. Ordered(Known) /\ p.id \in Nat
      BY <1>1, <2>1 DEF FreshInv, ChunkInv
    <3> QED
      BY <3>1, <3>2 DEF Ordered
  <2>6. ChunkInv'
    BY <1>1, <2>3, <2>5 DEF FreshInv, ChunkInv, Shape, Ordered
  <2>7. inf'.due \in Nat /\ inf'.pc # "wait" /\ (inf'.pc = "due" => inf'.due >= now + 1)
    BY <1>1, <1>6 DEF NextDue
  <2>8. \A x \in Known \cup {p} : x.q \in Nat /\ x.q = x.end + 1 /\ x.q <= now + 1
    BY <1>1, <1>3, <2>1
  <2>9. QueryInv'
    BY <1>1, <2>3, <2>7, <2>8 DEF QueryInv
  <2> QED
    BY <1>4, <2>6, <2>9 DEF FreshInv
<1>7. CASE InfStart
  BY <1>2, <1>5, <1>7 DEF InfStart, InfFails
<1>8. CASE InfStop
  BY <1>2, <1>5, <1>8 DEF InfStop
<1>9. CASE InfAnswer
  BY <1>2, <1>5, <1>6, <1>9 DEF InfAnswer, InfFails
<1> QED
  BY <1>7, <1>8, <1>9 DEF InfStep

\* A backlog that was too large once is remembered.
LEMMA OverrunStays ==
  ASSUME TypeInv, [Next]_vars, main.overrun
  PROVE  main'.overrun
<1>1. LoopTypes /\ LoopType(main)
  BY DEF TypeInv, LoopTypes
<1>2. CASE main' = main
  BY <1>2
<1>3. CASE AsyncTick \/ CanonicalAnswer
  <2>1. main' = Aborted(main) \/ main' = Aborted(Absorbing) \/ \E sel, rows : Issue(Absorbing, sel, rows)
    BY <1>3 DEF AsyncTick, CanonicalAnswer
  <2>2. main' = Aborted(main) => main'.overrun
    BY <1>1 DEF LoopType, Aborted
  <2> QED
    BY <1>1, <2>1, <2>2, AbsorbingIsAlike, AlikeAborts, IssueCommand
<1>4. CASE StartStep \/ CanonicalAsk \/ ShadowAsk \/ ShadowAnswer \/ ExitLoop \/ ExitJoin
  BY <1>1, <1>4 DEF StartStep, CanonicalAsk, ShadowAsk, ShadowAnswer, ExitLoop, ExitJoin, Aborted, LoopType
<1>5. CASE CleanupStep \/ CleanupRaises \/ ModelWait \/ FinishLog
  BY <1>1, <1>5 DEF CleanupStep, CleanupRaises, ModelWait, FinishLog, Goes, LoopType
<1>6. CASE Advance \/ Refresh \/ Breaks \/ ModelServe \/ LogStep \/ InfStep \/ UNCHANGED vars
  <2>1. main' = main
    BY <1>6 DEF Advance, Refresh, Breaks, ModelServe, LogStep, InfStep, InfStart, InfStop, InfAnswer, vars
  <2> QED
    BY <2>1
<1> QED
  BY <1>3, <1>4, <1>5, <1>6 DEF Next, MainStep

LEMMA FreshStep ==
  ASSUME RolloutInv, FreshInv, [Next]_vars, ~main'.overrun
  PROVE  FreshInv' /\ [mode = "canonical" /\ main'.sent > main.sent => main'.cmd.id = inf.seq /\ main'.cmd.kind = "policy"]_vars
<1> DEFINE Own == mode = "canonical" /\ main'.sent > main.sent => main'.cmd.id = inf.seq /\ main'.cmd.kind = "policy"
<1>1. TypeInv /\ IdInv
  BY DEF RolloutInv
<1>2. LoopTypes /\ main.sent \in Nat
  BY <1>1 DEF TypeInv, LoopTypes, LoopType
<1>3. main'.sent = main.sent => Own
  BY <1>2
<1>4. CASE Environment
  BY <1>1, <1>3, <1>4, EnvironmentFresh, EnvironmentEffect
<1>5. CASE InfStep
  BY <1>1, <1>3, <1>5, InferenceFresh, InferenceEffect
<1>6. CASE StartStep
  BY <1>1, <1>3, <1>6, StartFresh, StartEffect
<1>7. CASE AsyncTick
  <2>1. Own
    BY <1>7 DEF AsyncTick
  <2> QED
    BY <1>1, <1>7, <2>1, AsyncFresh
<1>8. CASE CanonicalAnswer
  BY <1>1, <1>8, CanonicalFresh
<1>9. CASE CanonicalAsk \/ ShadowAsk \/ ShadowAnswer
  BY <1>1, <1>3, <1>9, QuietFresh, QuietEffect
<1>10. CASE ExitLoop \/ ExitJoin
  BY <1>1, <1>3, <1>10, QuietFresh, ExitEffect
<1>11. CASE CleanupStep \/ CleanupRaises \/ ModelWait \/ FinishLog
  BY <1>1, <1>3, <1>11, QuietFresh, CleanupEffect
<1>12. CASE UNCHANGED vars
  <2>1. UNCHANGED <<mode, now, main, inf, pending, ens>>
    BY <1>12 DEF vars
  <2>2. now \in Int /\ \A x \in Known : x.q \in Int
    BY <1>1, KnownTypes DEF TypeInv, WorldTypes
  <2>3. FreshInv'
    BY <2>1 DEF FreshInv, StartInv, StartOf, ChunkInv, Known, Waiting, QueryInv, TickInv, LastInv, OwnInv,
                NoStaleCommand, Shape, Ordered
  <2> QED
    BY <1>12, <2>3
<1> QED
  BY <1>4, <1>5, <1>6, <1>7, <1>8, <1>9, <1>10, <1>11, <1>12 DEF Next, MainStep, Environment

\* The arm follows the model as it is now: until the loop takes in a backlog the
\* buffer may not hold, no command, held ones included, comes from a query that
\* ended longer ago than the limit, and a canonical one is led by its own query.
THEOREM FreshCorrect == Spec => CommandsAreFresh
<1> DEFINE OnTime == ~main.overrun => FreshInv
           Led == mode = "canonical" /\ main'.sent > main.sent /\ ~main'.overrun =>
                      main'.cmd.id = inf.seq /\ main'.cmd.kind = "policy"
<1>1. Init => OnTime
  BY FreshInit
<1>2. RolloutInv /\ OnTime /\ [Next]_vars => OnTime' /\ [Led]_vars
  BY FreshStep, OverrunStays DEF RolloutInv
<1>3. OnTime => PolicyCommandsAreFresh
  BY DEF FreshInv, NoStaleCommand, PolicyCommandsAreFresh
<1>4. Spec => []RolloutInv
  BY RolloutInvariance
<1> QED
  BY <1>1, <1>2, <1>3, <1>4, PTL DEF Spec, CommandsAreFresh, CanonicalUsesOwnQuery

------------------------------------------------------------------------------
(* Loops over rows, and what they return *)

\* A nonempty set of naturals has a least element.
LEMMA LeastNatural ==
  ASSUME NEW T, T # {}, T \subseteq Nat
  PROVE  \E t \in T : \A u \in T : t <= u
<1>1. \E x \in T : \A y \in T : ~(<<y, x>> \in OpToRel(<, Nat))
  BY NatLessThanWellFounded, WFMin
<1>2. PICK x \in T : \A y \in T : ~(y < x)
  BY <1>1 DEF OpToRel
<1> QED  BY <1>2

\* What holds before a loop and is kept by its turns holds after each.
LEMMA LoopInduction ==
  ASSUME NEW N \in Nat, NEW K, 0 \in K, \A n \in 1 .. N : n - 1 \in K => n \in K
  PROVE  \A n \in 0 .. N : n \in K
<1> DEFINE T == {n \in 0 .. N : n \notin K}
<1> SUFFICES ASSUME T # {} PROVE FALSE
  OBVIOUS
<1>1. T \subseteq Nat
  OBVIOUS
<1>2. PICK t \in T : \A u \in T : t <= u
  BY <1>1, LeastNatural, Zenon
<1>3. t \in 1 .. N /\ t \notin K /\ t - 1 \in 0 .. N /\ ~(t <= t - 1)
  OBVIOUS
<1>4. t - 1 \in K
  BY <1>2, <1>3
<1> QED  BY <1>3, <1>4

\* A loop over rows: a function of the turns taken, each from the one before.
IsLoop(f, b, g, N) == f = [n \in 0 .. N |-> IF n = 0 THEN b ELSE g[<<f[n - 1], n>>]]

LEMMA LoopExists ==
  ASSUME NEW S, NEW b \in S, NEW N \in Nat, NEW g \in [S \X (1 .. N) -> S]
  PROVE  \E f \in [0 .. N -> S] : IsLoop(f, b, g, N)
<1> DEFINE K == {M \in 0 .. N : \E f \in [0 .. M -> S] : IsLoop(f, b, g, M)}
<1>1. 0 \in K
  <2> DEFINE f == [n \in 0 .. 0 |-> b]
  <2>1. f \in [0 .. 0 -> S] /\ IsLoop(f, b, g, 0)
    BY DEF IsLoop
  <2> QED  BY <2>1
<1>2. ASSUME NEW M \in 1 .. N, M - 1 \in K PROVE M \in K
  <2>1. PICK h \in [0 .. M - 1 -> S] : IsLoop(h, b, g, M - 1)
    BY <1>2
  <2> DEFINE f == [n \in 0 .. M |-> IF n = M THEN g[<<h[M - 1], M>>] ELSE h[n]]
  <2>2. h[M - 1] \in S /\ g[<<h[M - 1], M>>] \in S
    OBVIOUS
  <2>3. f \in [0 .. M -> S]
    BY <2>2
  <2>4. ASSUME NEW n \in 0 .. M PROVE f[n] = IF n = 0 THEN b ELSE g[<<f[n - 1], n>>]
    <3>1. CASE n = M
      <4>1. n # 0 /\ n - 1 \in 0 .. M /\ n - 1 # M
        BY <3>1
      <4>2. f[n] = g[<<h[n - 1], n>>] /\ f[n - 1] = h[n - 1]
        BY <3>1, <4>1
      <4> QED  BY <4>1, <4>2
    <3>2. CASE n # M
      <4>1. n \in 0 .. M - 1 /\ f[n] = h[n]
        BY <3>2
      <4>2. h[n] = IF n = 0 THEN b ELSE g[<<h[n - 1], n>>]
        BY <2>1, <4>1 DEF IsLoop
      <4>3. n # 0 => n - 1 \in 0 .. M - 1 /\ f[n - 1] = h[n - 1]
        BY <3>2
      <4> QED  BY <4>1, <4>2, <4>3
    <3> QED  BY <3>1, <3>2
  <2>5. IsLoop(f, b, g, M)
    <3>1. f = [n \in 0 .. M |-> f[n]]
      OBVIOUS
    <3> QED  BY ONLY <2>4, <3>1, Zenon DEF IsLoop
  <2> QED  BY <2>3, <2>5
<1>3. N \in K
  <2> HIDE DEF K
  <2>1. \A n \in 0 .. N : n \in K
    BY <1>1, <1>2, LoopInduction, Zenon
  <2> QED  BY <2>1
<1> QED  BY <1>3

\* Its turns one by one.
LEMMA LoopTurns ==
  ASSUME NEW f, NEW b, NEW g, NEW N \in Nat, IsLoop(f, b, g, N)
  PROVE  f[0] = b /\ \A n \in 1 .. N : f[n] = g[<<f[n - 1], n>>]
<1>1. f = [n \in 0 .. N |-> IF n = 0 THEN b ELSE g[<<f[n - 1], n>>]]
  BY DEF IsLoop
<1> DEFINE v(n) == IF n = 0 THEN b ELSE g[<<f[n - 1], n>>]
<1>2. \A n \in 0 .. N : f[n] = v(n)
  BY <1>1, Zenon
<1>3. \A n \in 0 .. N : n # 0 => v(n) = g[<<f[n - 1], n>>]
  BY Zenon
<1>4. 0 \in 0 .. N /\ v(0) = b /\ \A n \in 1 .. N : n \in 0 .. N /\ n # 0
  OBVIOUS
<1> HIDE DEF v
<1> QED  BY <1>2, <1>3, <1>4
\* The turns of Selected.
SelTurn(rows, keep, before, n) == IF n \in keep THEN Append(before, rows[n]) ELSE before

\* What the loop of Selected has after each turn.
IsSelection(sel, rows, keep) ==
    /\ sel[0] = <<>> /\ Selected(rows, keep) = sel[Len(rows)]
    /\ \A n \in 1 .. Len(rows) : sel[n] = SelTurn(rows, keep, sel[n - 1], n)

LEMMA SelectedTurns ==
  ASSUME NEW R, NEW rows \in Seq(R), NEW keep
  PROVE  \E sel \in [0 .. Len(rows) -> Seq(R)] : IsSelection(sel, rows, keep)
<1> DEFINE N == Len(rows)
           S == Seq(R)
           e == <<>>
           g == [x \in S \X (1 .. N) |-> SelTurn(rows, keep, x[1], x[2])]
           Body(f) == [n \in 0 .. N |-> IF n = 0 THEN <<>>
                                        ELSE IF n \in keep THEN Append(f[n - 1], rows[n]) ELSE f[n - 1]]
           sel == CHOOSE f : f = Body(f)
<1>1. N \in Nat /\ e \in S
  OBVIOUS
<1>2. \A x \in S, n \in 1 .. N : SelTurn(rows, keep, x, n) \in S
  BY DEF SelTurn
<1>3. g \in [S \X (1 .. N) -> S]
  BY <1>2
<1>4. \A x \in S, n \in 1 .. N : g[<<x, n>>] = SelTurn(rows, keep, x, n)
  OBVIOUS
<1>5. PICK f \in [0 .. N -> S] : IsLoop(f, e, g, N)
  <2> HIDE DEF N, S, e, g
  <2> QED  BY <1>1, <1>3, LoopExists
<1>6. f = Body(f)
  <2>1. \A n \in 0 .. N : n # 0 => n \in 1 .. N /\ f[n - 1] \in S
    OBVIOUS
  <2>2. \A n \in 0 .. N : n # 0 => g[<<f[n - 1], n>>] = SelTurn(rows, keep, f[n - 1], n)
    BY <1>4, <2>1
  <2>3. \A n \in 0 .. N : (IF n = 0 THEN e ELSE g[<<f[n - 1], n>>]) = Body(f)[n]
    BY <2>2 DEF SelTurn
  <2>4. f = [n \in 0 .. N |-> IF n = 0 THEN e ELSE g[<<f[n - 1], n>>]]
    BY <1>5 DEF IsLoop
  <2>5. Body(f) = [n \in 0 .. N |-> Body(f)[n]]
    BY Zenon
  <2> HIDE DEF Body, g, e, N
  <2> QED  BY ONLY <2>3, <2>4, <2>5, Zenon
<1>7. sel = Body(sel)
  <2> HIDE DEF Body
  <2> QED  BY <1>6, Zenon
<1> HIDE DEF sel
<1>8. sel[0] = <<>> /\ \A n \in 1 .. N : sel[n] = SelTurn(rows, keep, sel[n - 1], n)
  <2>1. \A n \in 0 .. N : sel[n] = Body(sel)[n]
    BY ONLY <1>7, Zenon
  <2>2. 0 \in 0 .. N /\ \A n \in 1 .. N : n \in 0 .. N /\ n # 0
    BY <1>1
  <2>3. \A n \in 1 .. N : Body(sel)[n] = SelTurn(rows, keep, sel[n - 1], n)
    BY <2>2 DEF SelTurn
  <2>4. Body(sel)[0] = <<>>
    BY <2>2
  <2> HIDE DEF Body, N
  <2> QED  BY <2>1, <2>2, <2>3, <2>4
<1>9. sel \in [0 .. N -> S]
  <2> DEFINE K == {n \in 0 .. N : sel[n] \in S}
  <2>1. 0 \in K
    <3>1. 0 \in 0 .. N
      BY <1>1
    <3>2. sel[0] \in S
      BY ONLY <1>1, <1>8, Zenon
    <3> QED  BY ONLY <3>1, <3>2, Zenon
  <2>2. ASSUME NEW n \in 1 .. N, n - 1 \in K PROVE n \in K
    BY <1>2, <1>8, <2>2, SMTT(60)
  <2>3. \A n \in 0 .. N : n \in K
    <3> HIDE DEF K, N
    <3> QED  BY <1>1, <2>1, <2>2, LoopInduction, Zenon
  <2>4. sel = [n \in 0 .. N |-> sel[n]]
    BY ONLY <1>7, Zenon
  <2> QED  BY <2>3, <2>4
<1>10. Selected(rows, keep) = sel[N]
  BY DEF Selected, sel
<1>11. IsSelection(sel, rows, keep)
  <2> HIDE DEF sel
  <2> QED  BY <1>8, <1>10 DEF IsSelection
<1> QED  BY <1>9, <1>11
KeptRow == [frame : Nat, t : Nat, seg : Nat, force : BOOLEAN]
MasterState == [prev : Nat, frame : Nat, seg : Nat, out : Seq(KeptRow)]
BottleState == [prev : Nat, out : Seq(KeptRow)]
MasterStart == [prev |-> NoTime, frame |-> NoTime, seg |-> 0, out |-> <<>>]
BottleStart == [prev |-> NoTime, out |-> <<>>]

\* A turn keeps the types; it notes the time of the row, and takes the row or
\* leaves it.
LEMMA MasterStepState ==
  ASSUME NEW s \in MasterState, NEW row \in Row
  PROVE  /\ MasterStep(s, row) \in MasterState /\ MasterStep(s, row).prev = row.t
         /\ \/ MasterStep(s, row).out = s.out
            \/ \E x \in KeptRow : x.t = row.t /\ MasterStep(s, row).out = Append(s.out, x)
<1> DEFINE seg == IF SegmentBreak(s.frame, row.frame, row.t, row.t) THEN s.seg + 1 ELSE s.seg
           x == [frame |-> row.frame, t |-> row.t, seg |-> seg, force |-> row.force]
           late == s.prev # NoTime /\ row.t <= s.prev
           bad == RowReasons(row, FALSE) # {} \/ late
<1>1. seg \in Nat
  BY DEF MasterState
<1>2. MasterStep(s, row) = IF bad THEN [s EXCEPT !.prev = row.t]
                           ELSE [prev |-> row.t, frame |-> row.frame, seg |-> seg, out |-> Append(s.out, x)]
  BY DEF MasterStep
<1> HIDE DEF seg, bad
<1>3. x \in KeptRow /\ Append(s.out, x) \in Seq(KeptRow)
  BY <1>1, AppendProperties DEF Row, KeptRow, MasterState
<1>4. CASE bad
  BY <1>2, <1>4 DEF MasterState, Row
<1>5. CASE ~bad
  <2>1. MasterStep(s, row) = [prev |-> row.t, frame |-> row.frame, seg |-> seg, out |-> Append(s.out, x)]
    BY <1>2, <1>5
  <2>2. x.t = row.t
    OBVIOUS
  <2> HIDE DEF x
  <2> QED  BY <1>1, <1>3, <2>1, <2>2 DEF MasterState, Row
<1> QED  BY <1>4, <1>5

LEMMA BottleStepState ==
  ASSUME NEW s \in BottleState, NEW row \in Row
  PROVE  /\ BottleStep(s, row) \in BottleState /\ BottleStep(s, row).prev = row.t
         /\ IF QualityReasons(row) # {} \/ (s.prev # NoTime /\ row.t <= s.prev)
            THEN BottleStep(s, row).out = s.out
            ELSE \E x \in KeptRow : x.t = row.t /\ BottleStep(s, row).out = Append(s.out, x)
<1> DEFINE x == [frame |-> row.frame, t |-> row.t, seg |-> 0, force |-> row.force]
           bad == QualityReasons(row) # {} \/ (s.prev # NoTime /\ row.t <= s.prev)
<1>2. BottleStep(s, row) = IF bad THEN [s EXCEPT !.prev = row.t]
                           ELSE [prev |-> row.t, out |-> Append(s.out, x)]
  BY DEF BottleStep
<1> HIDE DEF bad
<1>3. x \in KeptRow /\ Append(s.out, x) \in Seq(KeptRow)
  BY AppendProperties DEF Row, KeptRow, BottleState
<1>4. CASE bad
  BY <1>2, <1>4 DEF BottleState, Row, bad
<1>5. CASE ~bad
  <2>1. BottleStep(s, row) = [prev |-> row.t, out |-> Append(s.out, x)]
    BY <1>2, <1>5
  <2>2. x.t = row.t
    OBVIOUS
  <2> HIDE DEF x
  <2> QED  BY <1>3, <1>5, <2>1, <2>2 DEF BottleState, Row, bad
<1> QED  BY <1>4, <1>5

\* A loop of a materializer: the same for the two, b the state before the rows,
\* Step the turn.
LEMMA MasterTurns ==
  ASSUME NEW rows \in Seq(Row)
  PROVE  \E loop \in [0 .. Len(rows) -> MasterState] :
            /\ loop[0] = MasterStart /\ MasterRows(rows) = loop[Len(rows)].out
            /\ \A n \in 1 .. Len(rows) : loop[n] = MasterStep(loop[n - 1], rows[n])
<1> DEFINE N == Len(rows)
           S == MasterState
           g == [x \in S \X (1 .. N) |-> MasterStep(x[1], rows[x[2]])]
           Body(f) == [n \in 0 .. N |-> IF n = 0 THEN MasterStart ELSE MasterStep(f[n - 1], rows[n])]
           loop == CHOOSE f : f = Body(f)
<1>1. N \in Nat /\ MasterStart \in S
  BY DEF MasterStart, MasterState, NoTime
<1>2. \A x \in S, n \in 1 .. N : rows[n] \in Row /\ MasterStep(x, rows[n]) \in S
  BY MasterStepState, SMTT(60)
<1>3. g \in [S \X (1 .. N) -> S]
  BY <1>2
<1>4. \A x \in S, n \in 1 .. N : g[<<x, n>>] = MasterStep(x, rows[n])
  OBVIOUS
<1>5. PICK f \in [0 .. N -> S] : IsLoop(f, MasterStart, g, N)
  <2> HIDE DEF N, S, g
  <2> QED  BY <1>1, <1>3, LoopExists
<1>6. f = Body(f)
  <2>1. \A n \in 0 .. N : n # 0 => n \in 1 .. N /\ f[n - 1] \in S
    OBVIOUS
  <2>2. \A n \in 0 .. N : n # 0 => g[<<f[n - 1], n>>] = MasterStep(f[n - 1], rows[n])
    BY <1>4, <2>1
  <2>3. \A n \in 0 .. N : (IF n = 0 THEN MasterStart ELSE g[<<f[n - 1], n>>]) = Body(f)[n]
    BY <2>2
  <2>4. f = [n \in 0 .. N |-> IF n = 0 THEN MasterStart ELSE g[<<f[n - 1], n>>]]
    BY <1>5 DEF IsLoop
  <2>5. Body(f) = [n \in 0 .. N |-> Body(f)[n]]
    BY Zenon
  <2> HIDE DEF Body, g, N
  <2> QED  BY ONLY <2>3, <2>4, <2>5, Zenon
<1>7. loop = Body(loop)
  <2> HIDE DEF Body
  <2> QED  BY <1>6, Zenon
<1> HIDE DEF loop
<1>8. loop[0] = MasterStart /\ \A n \in 1 .. N : loop[n] = MasterStep(loop[n - 1], rows[n])
  <2>1. \A n \in 0 .. N : loop[n] = Body(loop)[n]
    BY ONLY <1>7, Zenon
  <2>2. 0 \in 0 .. N /\ \A n \in 1 .. N : n \in 0 .. N /\ n # 0
    BY <1>1
  <2>3. \A n \in 1 .. N : Body(loop)[n] = MasterStep(loop[n - 1], rows[n])
    BY <2>2
  <2>4. Body(loop)[0] = MasterStart
    BY <2>2
  <2> HIDE DEF Body, N
  <2> QED  BY <2>1, <2>2, <2>3, <2>4
<1>9. loop \in [0 .. N -> S]
  <2> DEFINE K == {n \in 0 .. N : loop[n] \in S}
  <2>1. 0 \in K
    <3>1. 0 \in 0 .. N
      BY <1>1
    <3>2. loop[0] \in S
      BY ONLY <1>1, <1>8, Zenon
    <3> QED  BY ONLY <3>1, <3>2, Zenon
  <2>2. ASSUME NEW n \in 1 .. N, n - 1 \in K PROVE n \in K
    BY <1>2, <1>8, <2>2
  <2>3. \A n \in 0 .. N : n \in K
    <3> HIDE DEF K, N
    <3> QED  BY <1>1, <2>1, <2>2, LoopInduction, Zenon
  <2>4. loop = [n \in 0 .. N |-> loop[n]]
    BY ONLY <1>7, Zenon
  <2> QED  BY <2>3, <2>4
<1>10. MasterRows(rows) = loop[N].out
  BY DEF MasterRows, loop, MasterStart
<1> QED  BY <1>8, <1>9, <1>10

LEMMA BottleTurns ==
  ASSUME NEW rows \in Seq(Row)
  PROVE  \E loop \in [0 .. Len(rows) -> BottleState] :
            /\ loop[0] = BottleStart /\ BottleRows(rows) = loop[Len(rows)].out
            /\ \A n \in 1 .. Len(rows) : loop[n] = BottleStep(loop[n - 1], rows[n])
<1> DEFINE N == Len(rows)
           S == BottleState
           g == [x \in S \X (1 .. N) |-> BottleStep(x[1], rows[x[2]])]
           Body(f) == [n \in 0 .. N |-> IF n = 0 THEN BottleStart ELSE BottleStep(f[n - 1], rows[n])]
           loop == CHOOSE f : f = Body(f)
<1>1. N \in Nat /\ BottleStart \in S
  BY DEF BottleStart, BottleState, NoTime
<1>2. \A x \in S, n \in 1 .. N : rows[n] \in Row /\ BottleStep(x, rows[n]) \in S
  BY BottleStepState
<1>3. g \in [S \X (1 .. N) -> S]
  BY <1>2
<1>4. \A x \in S, n \in 1 .. N : g[<<x, n>>] = BottleStep(x, rows[n])
  OBVIOUS
<1>5. PICK f \in [0 .. N -> S] : IsLoop(f, BottleStart, g, N)
  <2> HIDE DEF N, S, g
  <2> QED  BY <1>1, <1>3, LoopExists
<1>6. f = Body(f)
  <2>1. \A n \in 0 .. N : n # 0 => n \in 1 .. N /\ f[n - 1] \in S
    OBVIOUS
  <2>2. \A n \in 0 .. N : n # 0 => g[<<f[n - 1], n>>] = BottleStep(f[n - 1], rows[n])
    BY <1>4, <2>1
  <2>3. \A n \in 0 .. N : (IF n = 0 THEN BottleStart ELSE g[<<f[n - 1], n>>]) = Body(f)[n]
    BY <2>2
  <2>4. f = [n \in 0 .. N |-> IF n = 0 THEN BottleStart ELSE g[<<f[n - 1], n>>]]
    BY <1>5 DEF IsLoop
  <2>5. Body(f) = [n \in 0 .. N |-> Body(f)[n]]
    BY Zenon
  <2> HIDE DEF Body, g, N
  <2> QED  BY ONLY <2>3, <2>4, <2>5, Zenon
<1>7. loop = Body(loop)
  <2> HIDE DEF Body
  <2> QED  BY <1>6, Zenon
<1> HIDE DEF loop
<1>8. loop[0] = BottleStart /\ \A n \in 1 .. N : loop[n] = BottleStep(loop[n - 1], rows[n])
  <2>1. \A n \in 0 .. N : loop[n] = Body(loop)[n]
    BY ONLY <1>7, Zenon
  <2>2. 0 \in 0 .. N /\ \A n \in 1 .. N : n \in 0 .. N /\ n # 0
    BY <1>1
  <2>3. \A n \in 1 .. N : Body(loop)[n] = BottleStep(loop[n - 1], rows[n])
    BY <2>2
  <2>4. Body(loop)[0] = BottleStart
    BY <2>2
  <2> HIDE DEF Body, N
  <2> QED  BY <2>1, <2>2, <2>3, <2>4
<1>9. loop \in [0 .. N -> S]
  <2> DEFINE K == {n \in 0 .. N : loop[n] \in S}
  <2>1. 0 \in K
    <3>1. 0 \in 0 .. N
      BY <1>1
    <3>2. loop[0] \in S
      BY ONLY <1>1, <1>8, Zenon
    <3> QED  BY ONLY <3>1, <3>2, Zenon
  <2>2. ASSUME NEW n \in 1 .. N, n - 1 \in K PROVE n \in K
    BY <1>2, <1>8, <2>2
  <2>3. \A n \in 0 .. N : n \in K
    <3> HIDE DEF K, N
    <3> QED  BY <1>1, <2>1, <2>2, LoopInduction, Zenon
  <2>4. loop = [n \in 0 .. N |-> loop[n]]
    BY ONLY <1>7, Zenon
  <2> QED  BY <2>3, <2>4
<1>10. BottleRows(rows) = loop[N].out
  BY DEF BottleRows, loop, BottleStart
<1> QED  BY <1>8, <1>9, <1>10
\* Rows taken one by one from rows in time order are in time order.
Timed(R) == \A r \in R : r.t \in Nat
InTimeOrder(s, rows, n) == Increasing(s) /\ (s # <<>> => n # 0 /\ s[Len(s)].t <= rows[n].t)

LEMMA RowsAreTimed == Timed(Row) /\ Timed(KeptRow)
  BY DEF Timed, Row, KeptRow

LEMMA OrderedTurn ==
  ASSUME NEW Q, Timed(Q), NEW rows \in Seq(Q), Increasing(rows), NEW n \in 1 .. Len(rows),
         NEW R, Timed(R), NEW s \in Seq(R), InTimeOrder(s, rows, n - 1)
  PROVE  /\ InTimeOrder(s, rows, n)
         /\ \A x \in R : x.t = rows[n].t => InTimeOrder(Append(s, x), rows, n)
<1>1. n \in Nat /\ n # 0 /\ rows[n].t \in Nat
  BY DEF Timed
<1>2. n - 1 # 0 => rows[n - 1].t \in Nat /\ rows[n - 1].t < rows[n].t
  <2> SUFFICES ASSUME n - 1 # 0 PROVE rows[n - 1].t \in Nat /\ rows[n - 1].t < rows[n].t
    OBVIOUS
  <2>1. n - 1 \in 1 .. Len(rows) - 1 /\ n - 1 + 1 = n
    OBVIOUS
  <2>2. rows[n - 1] \in Q
    BY <2>1
  <2>3. rows[n - 1].t < rows[n - 1 + 1].t
    BY <2>1 DEF Increasing
  <2> QED  BY <2>1, <2>2, <2>3 DEF Timed
<1>3. s # <<>> => s[Len(s)] \in R /\ s[Len(s)].t \in Nat /\ s[Len(s)].t < rows[n].t
  <2> SUFFICES ASSUME s # <<>> PROVE s[Len(s)] \in R /\ s[Len(s)].t \in Nat /\ s[Len(s)].t < rows[n].t
    OBVIOUS
  <2>1. s[Len(s)] \in R
    BY ElementOfSeq, EmptySeq
  <2>2. s[Len(s)].t \in Nat
    BY <2>1 DEF Timed
  <2>3. n - 1 # 0 /\ s[Len(s)].t <= rows[n - 1].t
    BY DEF InTimeOrder
  <2> QED  BY <1>1, <1>2, <2>1, <2>2, <2>3
<1>4. InTimeOrder(s, rows, n)
  BY <1>1, <1>3 DEF InTimeOrder
<1>5. ASSUME NEW x \in R, x.t = rows[n].t PROVE InTimeOrder(Append(s, x), rows, n)
  <2> DEFINE a == Append(s, x)
  <2>1. /\ a \in Seq(R) /\ Len(a) = Len(s) + 1 /\ a[Len(s) + 1] = x /\ Len(s) \in Nat
        /\ \A i \in 1 .. Len(s) : a[i] = s[i]
    BY AppendProperties
  <2> HIDE DEF a
  <2>2. ASSUME NEW i \in 1 .. Len(a) - 1 PROVE a[i].t < a[i + 1].t
    <3>1. i \in 1 .. Len(s) /\ a[i] = s[i]
      BY <2>1
    <3>2. CASE i = Len(s)
      <4>1. s # <<>>
        BY <3>1
      <4> QED  BY <1>3, <1>5, <2>1, <3>1, <3>2, <4>1
    <3>3. CASE i # Len(s)
      <4>1. i \in 1 .. Len(s) - 1 /\ a[i + 1] = s[i + 1]
        BY <2>1, <3>1, <3>3
      <4> QED  BY <3>1, <4>1 DEF InTimeOrder, Increasing
    <3> QED  BY <3>2, <3>3
  <2>3. a[Len(a)].t <= rows[n].t
    BY <1>1, <1>5, <2>1
  <2>4. InTimeOrder(a, rows, n)
    BY <1>1, <2>2, <2>3 DEF InTimeOrder, Increasing
  <2> QED  BY <2>4 DEF a
<1> QED  BY <1>4, <1>5

LEMMA NothingOrdered == \A rows : InTimeOrder(<<>>, rows, 0)
  BY DEF InTimeOrder, Increasing

LEMMA SelectedOrdered ==
  ASSUME NEW rows \in Seq(Row), Increasing(rows), NEW keep
  PROVE  Increasing(Selected(rows, keep))
<1> DEFINE N == Len(rows)
<1>0. PICK sel \in [0 .. N -> Seq(Row)] : IsSelection(sel, rows, keep)
  BY SelectedTurns
<1>1. /\ sel[0] = <<>> /\ Selected(rows, keep) = sel[N]
      /\ \A n \in 1 .. N : sel[n] = SelTurn(rows, keep, sel[n - 1], n)
  BY <1>0 DEF IsSelection
<1> DEFINE K == {n \in 0 .. N : InTimeOrder(sel[n], rows, n)}
<1>2. 0 \in K
  BY <1>1, NothingOrdered
<1>3. ASSUME NEW n \in 1 .. N, n - 1 \in K PROVE n \in K
  <2>1. sel[n - 1] \in Seq(Row) /\ InTimeOrder(sel[n - 1], rows, n - 1) /\ rows[n] \in Row
    BY <1>3
  <2>2. /\ InTimeOrder(sel[n - 1], rows, n)
        /\ \A x \in Row : x.t = rows[n].t => InTimeOrder(Append(sel[n - 1], x), rows, n)
    BY <2>1, OrderedTurn, RowsAreTimed
  <2>3. InTimeOrder(sel[n], rows, n)
    BY <1>1, <2>1, <2>2 DEF SelTurn
  <2> QED  BY <2>3
<1>4. \A n \in 0 .. N : n \in K
  <2>1. N \in Nat
    OBVIOUS
  <2> HIDE DEF K, N
  <2> QED  BY <1>2, <1>3, <2>1, LoopInduction, Zenon
<1>5. InTimeOrder(sel[N], rows, N)
  BY <1>4
<1> QED  BY <1>1, <1>5 DEF InTimeOrder

\* An episode of a training manifest, a segment of a bottle manifest.
Entry == [id : STRING, source : Episodes, include : BOOLEAN, start : Nat, end : Nat]

\* What includes an entry of a manifest selects something.
LEMMA SomeSelected ==
  ASSUME NEW rows \in Seq(Entry), NEW keep
  PROVE  (\E i \in keep : i \in DOMAIN rows) => Selected(rows, keep) # <<>>
<1> DEFINE N == Len(rows)
<1>0. PICK sel \in [0 .. N -> Seq(Entry)] : IsSelection(sel, rows, keep)
  BY SelectedTurns
<1>1. /\ sel[0] = <<>> /\ Selected(rows, keep) = sel[N]
      /\ \A n \in 1 .. N : sel[n] = SelTurn(rows, keep, sel[n - 1], n)
  BY <1>0 DEF IsSelection
<1> SUFFICES ASSUME NEW i \in keep, i \in DOMAIN rows PROVE Selected(rows, keep) # <<>>
  OBVIOUS
<1> DEFINE K == {n \in 0 .. N : n < i \/ sel[n] # <<>>}
<1>2. i \in 1 .. N /\ 0 \in K /\ N \in Nat
  OBVIOUS
<1>3. ASSUME NEW n \in 1 .. N, n - 1 \in K PROVE n \in K
  <2>1. sel[n] = SelTurn(rows, keep, sel[n - 1], n) /\ sel[n - 1] \in Seq(Entry) /\ rows[n] \in Entry
    BY <1>1
  <2>2. Append(sel[n - 1], rows[n]) # <<>>
    BY <2>1, AppendProperties
  <2>3. sel[n] = IF n \in keep THEN Append(sel[n - 1], rows[n]) ELSE sel[n - 1]
    BY <2>1 DEF SelTurn
  <2>4. n > i => sel[n - 1] # <<>>
    BY <1>2, <1>3
  <2>5. n < i \/ n = i \/ n > i
    BY <1>2
  <2>6. n < i \/ sel[n] # <<>>
    BY <2>2, <2>3, <2>4, <2>5
  <2> QED  BY <2>6
<1>4. \A n \in 0 .. N : n \in K
  <2> HIDE DEF K, N
  <2> QED  BY <1>2, <1>3, LoopInduction, Zenon
<1> QED  BY <1>1, <1>2, <1>4

LEMMA MasterOrdered ==
  ASSUME NEW rows \in Seq(Row), Increasing(rows)
  PROVE  Increasing(MasterRows(rows))
<1> DEFINE N == Len(rows)
<1>1. PICK loop \in [0 .. N -> MasterState] :
            /\ loop[0] = MasterStart /\ MasterRows(rows) = loop[N].out
            /\ \A n \in 1 .. N : loop[n] = MasterStep(loop[n - 1], rows[n])
  BY MasterTurns
<1> DEFINE K == {n \in 0 .. N : InTimeOrder(loop[n].out, rows, n)}
<1>2. 0 \in K
  BY <1>1, NothingOrdered DEF MasterStart
<1>3. ASSUME NEW n \in 1 .. N, n - 1 \in K PROVE n \in K
  <2>1. loop[n - 1] \in MasterState /\ InTimeOrder(loop[n - 1].out, rows, n - 1) /\ rows[n] \in Row
    BY <1>3
  <2>2. loop[n - 1].out \in Seq(KeptRow)
    BY <2>1 DEF MasterState
  <2>3. /\ InTimeOrder(loop[n - 1].out, rows, n)
        /\ \A x \in KeptRow : x.t = rows[n].t => InTimeOrder(Append(loop[n - 1].out, x), rows, n)
    BY <2>1, <2>2, OrderedTurn, RowsAreTimed
  <2>4. \/ loop[n].out = loop[n - 1].out
        \/ \E x \in KeptRow : x.t = rows[n].t /\ loop[n].out = Append(loop[n - 1].out, x)
    BY <1>1, <2>1, MasterStepState, ZenonT(60)
  <2>5. InTimeOrder(loop[n].out, rows, n)
    BY <2>3, <2>4
  <2> QED  BY <2>5
<1>4. \A n \in 0 .. N : n \in K
  <2>1. N \in Nat
    OBVIOUS
  <2> HIDE DEF K, N
  <2> QED  BY <1>2, <1>3, <2>1, LoopInduction, Zenon
<1>5. InTimeOrder(loop[N].out, rows, N)
  BY <1>4
<1> QED  BY <1>1, <1>5 DEF InTimeOrder

\* The bottle materializer keeps the rows of an ordered segment in their order,
\* and as many as there are rows without a defect.
Faultless(rows) == {i \in DOMAIN rows : QualityReasons(rows[i]) = {}}

LEMMA BottleOrdered ==
  ASSUME NEW rows \in Seq(Row), Increasing(rows)
  PROVE  /\ Increasing(BottleRows(rows))
         /\ Len(BottleRows(rows)) = Len(Selected(rows, Faultless(rows)))
<1> SUFFICES ASSUME NEW keep, keep = Faultless(rows)
             PROVE  Increasing(BottleRows(rows)) /\ Len(BottleRows(rows)) = Len(Selected(rows, keep))
  OBVIOUS
<1> DEFINE N == Len(rows)
<1>1. PICK loop \in [0 .. N -> BottleState] :
            /\ loop[0] = BottleStart /\ BottleRows(rows) = loop[N].out
            /\ \A n \in 1 .. N : loop[n] = BottleStep(loop[n - 1], rows[n])
  BY BottleTurns
<1>0. PICK sel \in [0 .. N -> Seq(Row)] : IsSelection(sel, rows, keep)
  BY SelectedTurns
<1>2. /\ sel[0] = <<>> /\ Selected(rows, keep) = sel[N]
      /\ \A n \in 1 .. N : sel[n] = SelTurn(rows, keep, sel[n - 1], n)
  BY <1>0 DEF IsSelection
<1> DEFINE Holds(n) == /\ InTimeOrder(loop[n].out, rows, n) /\ Len(loop[n].out) = Len(sel[n])
                       /\ loop[n].prev = IF n = 0 THEN NoTime ELSE rows[n].t
           K == {n \in 0 .. N : Holds(n)}
<1>3. 0 \in K
  BY <1>1, <1>2, NothingOrdered DEF BottleStart
<1>4. ASSUME NEW n \in 1 .. N, n - 1 \in K PROVE n \in K
  <2>1. /\ loop[n - 1] \in BottleState /\ rows[n] \in Row /\ sel[n - 1] \in Seq(Row)
        /\ InTimeOrder(loop[n - 1].out, rows, n - 1) /\ Len(loop[n - 1].out) = Len(sel[n - 1])
        /\ loop[n - 1].prev = IF n - 1 = 0 THEN NoTime ELSE rows[n - 1].t
    BY <1>4
  <2>2. loop[n - 1].out \in Seq(KeptRow)
    BY <2>1 DEF BottleState
  <2>3. /\ InTimeOrder(loop[n - 1].out, rows, n)
        /\ \A x \in KeptRow : x.t = rows[n].t => InTimeOrder(Append(loop[n - 1].out, x), rows, n)
    BY <2>1, <2>2, OrderedTurn, RowsAreTimed
  <2>4. ~(loop[n - 1].prev # NoTime /\ rows[n].t <= loop[n - 1].prev)
    <3>1. CASE n - 1 = 0
      BY <2>1, <3>1
    <3>2. CASE n - 1 # 0
      <4>1. n - 1 \in 1 .. N - 1 /\ n - 1 + 1 = n
        BY <3>2
      <4>2. rows[n - 1].t < rows[n].t
        BY <4>1 DEF Increasing
      <4>3. rows[n - 1] \in Row
        BY <4>1
      <4> QED  BY <2>1, <3>2, <4>2, <4>3 DEF Row
    <3> QED  BY <3>1, <3>2
  <2>5. loop[n] = BottleStep(loop[n - 1], rows[n])
    BY <1>1
  <2>6. loop[n].prev = rows[n].t
    <3>1. BottleStep(loop[n - 1], rows[n]).prev = rows[n].t
      BY ONLY <2>1, BottleStepState, Zenon
    <3> QED  BY ONLY <2>5, <3>1, Zenon
  <2>7. n \in keep <=> QualityReasons(rows[n]) = {}
    BY DEF Faultless
  <2>8. CASE n \in keep
    <3>0. ~(QualityReasons(rows[n]) # {} \/ (loop[n - 1].prev # NoTime /\ rows[n].t <= loop[n - 1].prev))
      BY ONLY <2>4, <2>7, <2>8, Zenon
    <3>1. PICK x \in KeptRow : x.t = rows[n].t /\ loop[n].out = Append(loop[n - 1].out, x)
      <4>1. \E x \in KeptRow :
               x.t = rows[n].t /\ BottleStep(loop[n - 1], rows[n]).out = Append(loop[n - 1].out, x)
        <5> DEFINE Turn(a) == \E x \in KeptRow :
                     x.t = rows[n].t /\ a = Append(loop[n - 1].out, x)
        <5>1. IF QualityReasons(rows[n]) # {} \/ (loop[n - 1].prev # NoTime /\ rows[n].t <= loop[n - 1].prev)
              THEN BottleStep(loop[n - 1], rows[n]).out = loop[n - 1].out
              ELSE Turn(BottleStep(loop[n - 1], rows[n]).out)
          BY ONLY <2>1, BottleStepState, Zenon
        <5> QED  BY ONLY <3>0, <5>1, Zenon
      <4> QED  BY ONLY <2>5, <4>1, Zenon
    <3>2. sel[n] = Append(sel[n - 1], rows[n])
      BY <1>2, <2>8 DEF SelTurn
    <3>3. Len(loop[n].out) = Len(sel[n])
      BY <2>1, <2>2, <3>1, <3>2, AppendProperties, SMTT(60)
    <3>4. InTimeOrder(loop[n].out, rows, n)
      BY <2>3, <3>1
    <3> QED  BY <2>6, <3>3, <3>4
  <2>9. CASE n \notin keep
    <3>1. loop[n].out = loop[n - 1].out
      BY <2>1, <2>5, <2>7, <2>9, BottleStepState, ZenonT(60)
    <3>2. sel[n] = sel[n - 1]
      BY <1>2, <2>9 DEF SelTurn
    <3> QED  BY <2>1, <2>3, <2>6, <3>1, <3>2
  <2> QED  BY <2>8, <2>9
<1>5. \A n \in 0 .. N : n \in K
  <2>1. N \in Nat
    OBVIOUS
  <2> HIDE DEF K, N
  <2> QED  BY <1>3, <1>4, <2>1, LoopInduction, Zenon
<1>6. InTimeOrder(loop[N].out, rows, N) /\ Len(loop[N].out) = Len(sel[N])
  BY <1>5
<1> QED  BY <1>1, <1>2, <1>6 DEF InTimeOrder
\* What the loops return, whatever the rows.
LEMMA KeptTypes ==
  ASSUME NEW rows \in Seq(Row)
  PROVE  /\ MasterRows(rows) \in Seq(KeptRow) /\ BottleRows(rows) \in Seq(KeptRow)
         /\ \A keep : Selected(rows, keep) \in Seq(Row)
<1>1. Len(rows) \in 0 .. Len(rows)
  OBVIOUS
<1>2. MasterRows(rows) \in Seq(KeptRow)
  BY <1>1, MasterTurns DEF MasterState
<1>3. BottleRows(rows) \in Seq(KeptRow)
  BY <1>1, BottleTurns DEF BottleState
<1>4. ASSUME NEW keep PROVE Selected(rows, keep) \in Seq(Row)
  BY <1>1, SelectedTurns DEF IsSelection
<1> QED  BY <1>2, <1>3, <1>4

\* A first row without a defect is the first that a bottle root keeps.
LEMMA FirstIsKept ==
  ASSUME NEW rows \in Seq(Row), rows # <<>>, QualityReasons(rows[1]) = {}
  PROVE  BottleRows(rows)[1].t = rows[1].t
<1> DEFINE N == Len(rows)
<1>1. PICK loop \in [0 .. N -> BottleState] :
            /\ loop[0] = BottleStart /\ BottleRows(rows) = loop[N].out
            /\ \A n \in 1 .. N : loop[n] = BottleStep(loop[n - 1], rows[n])
  BY BottleTurns
<1> DEFINE K == {n \in 0 .. N : n = 0 \/ (loop[n].out # <<>> /\ loop[n].out[1].t = rows[1].t)}
<1>2. 0 \in K /\ N \in Nat \ {0}
  OBVIOUS
<1>3. ASSUME NEW n \in 1 .. N, n - 1 \in K PROVE n \in K
  <2>1. loop[n - 1] \in BottleState /\ rows[n] \in Row /\ loop[n] = BottleStep(loop[n - 1], rows[n])
    BY <1>1
  <2>2. CASE n = 1
    <3>1. loop[0] = BottleStart /\ loop[1] = BottleStep(loop[0], rows[1])
      BY <1>1, <2>2
    <3>2. loop[1].out = Append(<<>>, [frame |-> rows[1].frame, t |-> rows[1].t, seg |-> 0, force |-> rows[1].force])
      BY <3>1 DEF BottleStep, BottleStart
    <3> QED  BY <2>2, <3>2
  <2> SUFFICES loop[n].out # <<>> /\ loop[n].out[1].t = rows[1].t
    OBVIOUS
  <2>3. CASE n # 1
    <3> DEFINE before == loop[n - 1].out
               x == [frame |-> rows[n].frame, t |-> rows[n].t, seg |-> 0, force |-> rows[n].force]
    <3>1. before # <<>> /\ before[1].t = rows[1].t /\ before \in Seq(KeptRow)
      BY <1>3, <2>1, <2>3 DEF BottleState
    <3>2. loop[n].out \in {before, Append(before, x)}
      BY <2>1 DEF BottleStep, BottleState
    <3>3. Append(before, x) # <<>> /\ Append(before, x)[1] = before[1]
      <4> HIDE DEF before, x
      <4>1. Len(before) \in Nat /\ Len(before) # 0
        BY <3>1
      <4> QED  BY <3>1, <4>1
    <3> HIDE DEF before, x
    <3> QED  BY <3>1, <3>2, <3>3
  <2> QED  BY <2>2, <2>3
<1>4. \A n \in 0 .. N : n \in K
  <2> HIDE DEF K, N
  <2> QED  BY <1>2, <1>3, LoopInduction, Zenon
<1> QED  BY <1>1, <1>2, <1>4

LEMMA NothingIsKept == BottleRows(<<>>) = <<>>
<1>0. <<>> \in Seq(Row)
  OBVIOUS
<1> SUFFICES ASSUME NEW rows \in Seq(Row), rows = <<>> PROVE BottleRows(rows) = <<>>
  BY <1>0
<1>1. Len(rows) = 0
  OBVIOUS
<1>2. PICK loop \in [0 .. Len(rows) -> BottleState] : loop[0] = BottleStart /\ BottleRows(rows) = loop[Len(rows)].out
  BY BottleTurns
<1> QED  BY <1>1, <1>2 DEF BottleStart

LEMMA SelectedFrom ==
  ASSUME NEW R, NEW rows \in Seq(R), NEW keep
  PROVE  Selected(rows, keep) \in Seq(R)
<1>1. Len(rows) \in 0 .. Len(rows)
  OBVIOUS
<1> QED  BY <1>1, SelectedTurns DEF IsSelection

\* A segment between two positions is in the order of the episode.
LEMMA SubSeqIncreasing ==
  ASSUME NEW rows \in Seq(Row), NEW m \in 1 .. Len(rows), NEW n \in m .. Len(rows)
  PROVE  /\ SubSeq(rows, m, n) \in Seq(Row)
         /\ Increasing(rows) => Increasing(SubSeq(rows, m, n))
<1> DEFINE c == SubSeq(rows, m, n)
<1>1. \A i \in m .. n : i \in 1 .. Len(rows) /\ rows[i] \in Row
  OBVIOUS
<1>2. c \in Seq(Row) /\ Len(c) = n - m + 1 /\ \A i \in 1 .. n - m + 1 : c[i] = rows[m + i - 1]
  BY <1>1, SubSeqProperties
<1> HIDE DEF c
<1>3. ASSUME Increasing(rows), NEW i \in 1 .. Len(c) - 1 PROVE c[i].t < c[i + 1].t
  <2> DEFINE j == m + i - 1
  <2>1. j \in 1 .. Len(rows) - 1 /\ c[i] = rows[j] /\ c[i + 1] = rows[j + 1]
    BY <1>2
  <2> HIDE DEF j
  <2> QED  BY <1>3, <2>1 DEF Increasing
<1> QED  BY <1>2, <1>3 DEF Increasing, c

LEMMA CropRowsFacts ==
  ASSUME NEW rows \in Seq(Row), NEW release, NEW crop
  PROVE  /\ CropRows(rows, release, crop).rows \in Seq(Row)
         /\ Increasing(rows) => Increasing(CropRows(rows, release, crop).rows)
<1>1. \A keep : Selected(rows, keep) \in Seq(Row) /\ (Increasing(rows) => Increasing(Selected(rows, keep)))
  BY KeptTypes, SelectedOrdered
<1>2. <<>> \in Seq(Row) /\ Increasing(<<>>)
  BY DEF Increasing
<1>3. CropRows(rows, release, crop).rows = <<>>
        \/ \E keep : CropRows(rows, release, crop).rows = Selected(rows, keep)
  BY DEF CropRows
<1> QED  BY <1>1, <1>2, <1>3

LEMMA CropSegmentFacts ==
  ASSUME NEW rows \in Seq(Row), NEW release, NEW seg, seg.end \in Nat
  PROVE  /\ CropSegment(rows, release, seg).rows \in Seq(Row)
         /\ Increasing(rows) => Increasing(CropSegment(rows, release, seg).rows)
<1> DEFINE before == {i \in 1 .. Len(rows) : rows[i].t <= release}
           end == IF seg.end # NoTime THEN seg.end
                  ELSE IF before = {} THEN 0
                  ELSE CHOOSE i \in before : \A j \in before : j <= i
           review == \/ seg.start \notin 1 .. Len(rows)
                     \/ seg.end = NoTime /\ release = NoTime
                     \/ end < seg.start
                     \/ end > Len(rows)
<1>1. CropSegment(rows, release, seg) =
        [review |-> review, rows |-> IF review THEN <<>> ELSE SubSeq(rows, seg.start, end)]
  BY DEF CropSegment
<1>2. end \in Nat
  <2>1. CASE before = {} \/ seg.end # NoTime
    BY <2>1
  <2>2. CASE before # {} /\ seg.end = NoTime
    <3> DEFINE D == {Len(rows) - i : i \in before}
    <3>1. D # {} /\ D \subseteq Nat
      BY <2>2
    <3>2. PICK d \in D : \A x \in D : d <= x
      BY ONLY <3>1, LeastNatural, Zenon
    <3>3. PICK i \in before : d = Len(rows) - i
      BY <3>2
    <3>4. \A j \in before : j <= i
      <4> SUFFICES ASSUME NEW j \in before PROVE j <= i
        OBVIOUS
      <4>1. Len(rows) - j \in D
        OBVIOUS
      <4>2. Len(rows) - i <= Len(rows) - j
        BY <3>2, <3>3, <4>1
      <4> QED  BY <4>2
    <3>5. end \in before
      <4>1. end = CHOOSE k \in before : \A j \in before : j <= k
        BY <2>2
      <4> HIDE DEF end, before
      <4> QED  BY <3>4, <4>1, Zenon
    <3> QED  BY <3>5
  <2> QED  BY <2>1, <2>2
<1>3. <<>> \in Seq(Row) /\ Increasing(<<>>)
  BY DEF Increasing
<1> HIDE DEF end, review
<1>4. CASE review
  BY <1>1, <1>3, <1>4
<1>5. CASE ~review
  <2>1. seg.start \in 1 .. Len(rows) /\ end \in seg.start .. Len(rows)
    BY <1>2, <1>5 DEF review
  <2>2. CropSegment(rows, release, seg).rows = SubSeq(rows, seg.start, end)
    <3> DEFINE cut == SubSeq(rows, seg.start, end)
    <3> HIDE DEF cut
    <3>1. CropSegment(rows, release, seg) = [review |-> review, rows |-> IF review THEN <<>> ELSE cut]
      BY <1>1 DEF cut
    <3>2. CropSegment(rows, release, seg).rows = cut
      BY ONLY <1>5, <3>1
    <3> QED  BY <3>2 DEF cut
  <2> QED  BY <2>1, <2>2, SubSeqIncreasing
<1> QED  BY <1>4, <1>5

\* A chunk ends before the first row that does not follow the one before it.
LEMMA ChunkFollows ==
  ASSUME NEW rows \in Seq(KeptRow), NEW i \in 1 .. Len(rows)
  PROVE  LET c == Chunk(rows, i)
         IN  \A j \in 1 .. Len(c) - 1 :
                c[j + 1].frame = c[j].frame + 1 /\ c[j + 1].t - c[j].t <= GapLimit
<1> DEFINE last == IF i + Horizon - 1 < Len(rows) THEN i + Horizon - 1 ELSE Len(rows)
           stops == {j \in i + 1 .. last : ChunkStops(rows[j - 1], rows[j])}
           first == CHOOSE j \in stops : \A k \in stops : j <= k
           end == IF stops = {} THEN last ELSE first - 1
           c == SubSeq(rows, i, end)
<1>1. Chunk(rows, i) = c
  BY DEF Chunk
<1>2. last \in i .. Len(rows)
  BY HorizonAssumption
<1> HIDE DEF last
<1>3. stops # {} => first \in stops /\ \A k \in stops : first <= k
  <2> SUFFICES ASSUME stops # {} PROVE first \in stops /\ \A k \in stops : first <= k
    OBVIOUS
  <2>1. stops \subseteq Nat
    BY <1>2
  <2>2. \E j \in stops : \A k \in stops : j <= k
    <3> HIDE DEF stops
    <3> QED  BY <2>1, LeastNatural, Zenon
  <2> HIDE DEF stops
  <2> QED  BY <2>2, Zenon
<1>4. end \in i .. Len(rows) /\ \A k \in i + 1 .. end : k \notin stops /\ k \in i + 1 .. last
  <2>1. stops # {} => first \in i + 1 .. last
    BY <1>3
  <2> HIDE DEF first
  <2>2. CASE stops = {}
    BY <1>2, <2>2
  <2>3. CASE stops # {}
    <3>1. end = first - 1 /\ first \in i + 1 .. last
      BY <2>1, <2>3
    <3>2. \A k \in stops : first <= k
      BY <1>3, <2>3
    <3> HIDE DEF end, stops
    <3> QED  BY <1>2, <3>1, <3>2
  <2> QED  BY <2>2, <2>3
<1>5. \A k \in i + 1 .. end : ~ChunkStops(rows[k - 1], rows[k])
  BY <1>4
<1> HIDE DEF end, stops
<1>6. \A k \in i .. end : rows[k] \in KeptRow
  BY <1>4
<1>7. Len(c) = end - i + 1 /\ \A j \in 1 .. end - i + 1 : c[j] = rows[i + j - 1]
  BY <1>4, <1>6, SubSeqProperties
<1> HIDE DEF c
<1>8. ASSUME NEW j \in 1 .. Len(c) - 1
      PROVE  c[j + 1].frame = c[j].frame + 1 /\ c[j + 1].t - c[j].t <= GapLimit
  <2>1. PICK k \in i + 1 .. end : k = i + j
    <3>1. i \in Nat /\ end \in Nat /\ i <= end /\ Len(c) = end - i + 1
      BY <1>4, <1>7
    <3>2. j \in Nat /\ 1 <= j /\ j <= end - i
      BY <3>1
    <3>3. i + j \in i + 1 .. end
      BY ONLY <3>1, <3>2
    <3> QED  BY <3>3
  <2>2. c[j] = rows[k - 1] /\ c[j + 1] = rows[k] /\ rows[k - 1] \in KeptRow /\ rows[k] \in KeptRow
    BY <1>4, <1>6, <1>7, <2>1, SMTT(60)
  <2>3. ~ChunkStops(rows[k - 1], rows[k])
    BY <1>5
  <2>4. ~ChunkStops(c[j], c[j + 1]) /\ c[j] \in KeptRow /\ c[j + 1] \in KeptRow
    BY <2>2, <2>3
  <2>5. PICK f \in Nat, g \in Nat, t \in Nat, u \in Nat :
           f = c[j].frame /\ g = c[j + 1].frame /\ t = c[j].t /\ u = c[j + 1].t
    BY <2>4 DEF KeptRow
  <2>6. g - f = 1 /\ ~(u - t > 1)
    BY ONLY <2>4, <2>5 DEF ChunkStops, GapLimit
  <2>7. g = f + 1 /\ u - t <= 1
    BY ONLY <2>6, f \in Nat, g \in Nat, t \in Nat, u \in Nat
  <2>8. c[j].frame = f /\ c[j + 1].frame = g /\ c[j].t = t /\ c[j + 1].t = u
    BY <2>5
  <2> QED  BY ONLY <2>7, <2>8 DEF GapLimit
<1> QED  BY <1>1, <1>8
\* The ranks of the samples are the positions of the sorted stream.
Stream == Seq(Nat \ {0})
Ahead(s, i) == {j \in DOMAIN s : s[j] < s[i] \/ (s[j] = s[i] /\ j <= i)}

LEMMA AheadFinite ==
  ASSUME NEW s \in Stream, NEW i \in 1 .. Len(s)
  PROVE  /\ IsFiniteSet(Ahead(s, i)) /\ Rank(s, i) = Cardinality(Ahead(s, i))
         /\ Rank(s, i) \in 1 .. Len(s)
<1> DEFINE A == Ahead(s, i)
           D == 1 .. Len(s)
<1>1. Rank(s, i) = Cardinality(A)
  BY DEF Rank, Ahead
<1>2. A \in SUBSET D /\ i \in A
  BY DEF Ahead, Stream
<1>3. IsFiniteSet(D) /\ Cardinality(D) = Len(s)
  <2>1. Len(s) \in Nat
    BY DEF Stream
  <2>2. /\ IsFiniteSet(1 .. Len(s))
        /\ Cardinality(1 .. Len(s)) = IF 1 > Len(s) THEN 0 ELSE Len(s) - 1 + 1
    BY <2>1, FS_Interval
  <2> QED  BY <2>1, <2>2
<1> HIDE DEF A, D
<1>4. IsFiniteSet(A) /\ Cardinality(A) <= Cardinality(D)
  BY <1>2, <1>3, FS_Subset
<1>5. Cardinality(A) \in Nat /\ Cardinality(A) # 0
  BY <1>2, <1>4, FS_CardinalityType, FS_EmptySet
<1> QED  BY <1>1, <1>3, <1>4, <1>5 DEF A

LEMMA RankOrders ==
  ASSUME NEW s \in Stream, NEW i \in 1 .. Len(s), NEW j \in 1 .. Len(s), i # j,
         s[i] < s[j] \/ (s[i] = s[j] /\ i <= j)
  PROVE  Rank(s, i) < Rank(s, j)
<1> DEFINE A == Ahead(s, i)
           B == Ahead(s, j)
<1>0. \A k \in 1 .. Len(s) : s[k] \in Nat
  BY DEF Stream
<1>1. A \in SUBSET B
  BY <1>0 DEF Ahead, Stream
<1>2. j \in B /\ j \notin A
  BY <1>0 DEF Ahead, Stream
<1>3. /\ IsFiniteSet(B) /\ Rank(s, i) = Cardinality(A) /\ Rank(s, j) = Cardinality(B)
      /\ Rank(s, i) \in Nat /\ Rank(s, j) \in Nat
  BY AheadFinite
<1> HIDE DEF A, B
<1>4. Cardinality(A) <= Cardinality(B) /\ Cardinality(A) # Cardinality(B)
  BY <1>1, <1>2, <1>3, FS_Subset
<1> QED  BY <1>3, <1>4

LEMMA RankIsPosition ==
  ASSUME NEW s \in Stream
  PROVE  \A k \in 1 .. Len(s) : \E i \in 1 .. Len(s) : Rank(s, i) = k
<1> DEFINE D == 1 .. Len(s)
           r == [i \in D |-> Rank(s, i)]
<1>1. r \in [D -> D]
  BY AheadFinite
<1>2. ASSUME NEW i \in D, NEW j \in D, i # j PROVE r[i] # r[j]
  <2>1. s[i] \in Nat /\ s[j] \in Nat /\ i \in Nat /\ j \in Nat
    BY DEF Stream
  <2>2. Rank(s, i) \in Nat /\ Rank(s, j) \in Nat
    BY AheadFinite
  <2>3. CASE s[i] < s[j] \/ (s[i] = s[j] /\ i <= j)
    BY <1>2, <2>2, <2>3, RankOrders
  <2>4. CASE s[j] < s[i] \/ (s[j] = s[i] /\ j <= i)
    BY <1>2, <2>2, <2>4, RankOrders
  <2> QED  BY <2>1, <2>3, <2>4
<1>3. IsFiniteSet(D)
  BY FS_Interval DEF Stream
<1> HIDE DEF D, r
<1>4. r \in Injection(D, D)
  BY <1>1, <1>2 DEF Injection, IsInjective
<1>5. r \in Surjection(D, D)
  BY <1>3, <1>4, FS_Injection
<1>6. \A k \in D : \E i \in D : r[i] = k
  BY <1>5 DEF Surjection
<1> QED  BY <1>6 DEF D, r

\* The sorted stream has the samples of the stream, in time order.
Sorted(o) == \A k, l \in 1 .. Len(o) : k <= l => o[k] <= o[l]

LEMMA ObservationsSorted ==
  ASSUME NEW s \in Stream
  PROVE  LET o == Observations(s)
         IN  /\ o \in Stream /\ Len(o) = Len(s) /\ Sorted(o)
             /\ \A k \in 1 .. Len(s) : \E i \in 1 .. Len(s) : o[k] = s[i]
             /\ \A i \in 1 .. Len(s) : \E k \in 1 .. Len(s) : o[k] = s[i]
<1> DEFINE n == Len(s)
           D == 1 .. n
           p(k) == CHOOSE i \in D : Rank(s, i) = k
           o == Observations(s)
<1>1. n \in Nat /\ DOMAIN s = D /\ \A i \in D : s[i] \in Nat \ {0}
  BY DEF Stream
<1>2. \A k \in D : p(k) \in D /\ Rank(s, p(k)) = k
  BY RankIsPosition
<1>3. o = [k \in D |-> s[p(k)]]
  BY <1>1 DEF Observations
<1> HIDE DEF o, p
<1>4. o \in [D -> Nat \ {0}]
  BY <1>1, <1>2, <1>3
<1>5. o \in Stream /\ Len(o) = n
  BY <1>1, <1>4, LenProperties, IsASeq DEF Stream
<1>6. Sorted(o)
  <2> SUFFICES ASSUME NEW k \in D, NEW l \in D, k <= l, ~(o[k] <= o[l]) PROVE FALSE
    BY <1>5 DEF Sorted
  <2>1. /\ o[k] = s[p(k)] /\ o[l] = s[p(l)] /\ p(k) \in D /\ p(l) \in D
        /\ Rank(s, p(k)) = k /\ Rank(s, p(l)) = l
    BY <1>2, <1>3
  <2>2. s[p(k)] \in Nat /\ s[p(l)] \in Nat
    BY <1>1, <2>1
  <2>3. s[p(l)] < s[p(k)] /\ p(l) # p(k)
    BY <2>1, <2>2
  <2>4. l < k
    <3> PICK x \in D, y \in D : x = p(l) /\ y = p(k)
      BY <2>1
    <3>1. Rank(s, x) < Rank(s, y)
      BY <2>3, RankOrders
    <3> QED  BY <2>1, <3>1
  <2> QED  BY <2>4
<1>7. \A k \in D : \E i \in D : o[k] = s[i]
  BY <1>2, <1>3
<1>8. ASSUME NEW i \in D PROVE \E k \in D : o[k] = s[i]
  <2> PICK k \in D : k = Rank(s, i)
    BY AheadFinite
  <2> PICK j \in D : j = p(k) /\ Rank(s, j) = k /\ o[k] = s[j]
    BY <1>2, <1>3
  <2>1. j = i
    <3>1. s[i] \in Nat /\ s[j] \in Nat /\ i \in Nat /\ j \in Nat /\ k \in Nat
      BY <1>1
    <3>2. CASE i # j /\ (s[i] < s[j] \/ (s[i] = s[j] /\ i <= j))
      <4>1. Rank(s, i) < Rank(s, j)
        BY <3>2, RankOrders
      <4> QED  BY <3>1, <4>1
    <3>3. CASE i # j /\ (s[j] < s[i] \/ (s[j] = s[i] /\ j <= i))
      <4>1. Rank(s, j) < Rank(s, i)
        BY <3>3, RankOrders
      <4> QED  BY <3>1, <4>1
    <3> QED  BY <3>1, <3>2, <3>3
  <2> QED  BY <2>1
<1> QED  BY <1>5, <1>6, <1>7, <1>8 DEF o
\* The turns of bisect_right: where the answer may still be.
BisectTurn(times, at, p) ==
    LET lo == p[1]
        hi == p[2]
        mid == (lo + hi) \div 2
    IN  IF lo >= hi THEN <<lo, hi>>
        ELSE IF at < times[mid] THEN <<lo, mid>>
        ELSE <<mid + 1, hi>>

LEMMA MidIsBetween ==
  ASSUME NEW lo \in Nat, NEW hi \in Nat, lo < hi
  PROVE  (lo + hi) \div 2 \in lo .. hi - 1
  OBVIOUS

\* What one turn leaves: lo and hi close in on the first later time.
Between(times, at, lo, hi) ==
    /\ lo \in 1 .. Len(times) + 1 /\ hi \in lo .. Len(times) + 1
    /\ \A j \in 1 .. lo - 1 : times[j] <= at
    /\ \A j \in hi .. Len(times) : at < times[j]

LEMMA BisectTurnCloses ==
  ASSUME NEW times \in Stream, Sorted(times), NEW at \in Nat, NEW lo, NEW hi, Between(times, at, lo, hi)
  PROVE  \E l, h \in 1 .. Len(times) + 1 :
            /\ BisectTurn(times, at, <<lo, hi>>) = <<l, h>>
            /\ Between(times, at, l, h)
            /\ l = h \/ h - l < hi - lo
<1> DEFINE N == Len(times)
           mid == (lo + hi) \div 2
<1>1. /\ N \in Nat /\ lo \in Nat /\ hi \in Nat /\ 1 <= lo /\ lo <= hi /\ hi <= N + 1
      /\ \A j \in 1 .. N : times[j] \in Nat
  BY DEF Between, Stream
<1>2. BisectTurn(times, at, <<lo, hi>>) =
        IF lo >= hi THEN <<lo, hi>> ELSE IF at < times[mid] THEN <<lo, mid>> ELSE <<mid + 1, hi>>
  BY DEF BisectTurn
<1>3. CASE lo >= hi
  <2>1. lo = hi /\ BisectTurn(times, at, <<lo, hi>>) = <<lo, hi>>
    BY <1>1, <1>2, <1>3
  <2>2. lo \in 1 .. N + 1 /\ hi \in 1 .. N + 1
    BY <1>1
  <2> QED  BY <2>1, <2>2
<1>4. CASE ~(lo >= hi)
  <2>1. mid \in lo .. hi - 1
    BY <1>1, <1>4, MidIsBetween
  <2> HIDE DEF mid
  <2>2. mid \in 1 .. N /\ times[mid] \in Nat /\ mid + 1 \in 1 .. N + 1
    BY <1>1, <2>1
  <2>3. CASE at < times[mid]
    <3>1. BisectTurn(times, at, <<lo, hi>>) = <<lo, mid>>
      BY <1>2, <1>4, <2>3
    <3>2. \A j \in mid .. N : at < times[j]
      <4> SUFFICES ASSUME NEW j \in mid .. N PROVE at < times[j]
        OBVIOUS
      <4>1. j \in 1 .. N /\ mid <= j
        BY <2>2
      <4>2. times[mid] <= times[j] /\ times[j] \in Nat
        BY <1>1, <2>2, <4>1 DEF Sorted
      <4> QED  BY <2>2, <2>3, <4>2
    <3>3. Between(times, at, lo, mid)
      BY <1>1, <2>1, <2>2, <3>2 DEF Between
    <3>4. mid - lo < hi - lo /\ mid \in 1 .. N + 1 /\ lo \in 1 .. N + 1
      BY <1>1, <2>1
    <3> QED  BY <3>1, <3>3, <3>4
  <2>4. CASE ~(at < times[mid])
    <3>1. BisectTurn(times, at, <<lo, hi>>) = <<mid + 1, hi>>
      BY <1>2, <1>4, <2>4
    <3>2. \A j \in 1 .. mid : times[j] <= at
      <4> SUFFICES ASSUME NEW j \in 1 .. mid PROVE times[j] <= at
        OBVIOUS
      <4>1. j \in 1 .. N /\ j <= mid
        BY <2>2
      <4>2. times[j] <= times[mid] /\ times[j] \in Nat
        BY <1>1, <2>2, <4>1 DEF Sorted
      <4> QED  BY <2>2, <2>4, <4>2
    <3>3. Between(times, at, mid + 1, hi)
      BY <1>1, <2>1, <2>2, <3>2 DEF Between
    <3>4. hi - (mid + 1) < hi - lo /\ hi \in 1 .. N + 1
      BY <1>1, <2>1
    <3> QED  BY <2>2, <3>1, <3>3, <3>4
  <2> QED  BY <2>3, <2>4
<1> QED  BY <1>3, <1>4

\* bisect_right finds the position behind the last time that is not later.
LEMMA BisectFinds ==
  ASSUME NEW times \in Stream, Sorted(times), NEW at \in Nat
  PROVE  Between(times, at, Bisect(times, at), Bisect(times, at))
<1> DEFINE N == Len(times)
           S == (1 .. N + 1) \X (1 .. N + 1)
           b == <<1, N + 1>>
           Turn(q) == LET lo == q[1]
                          hi == q[2]
                          mid == (lo + hi) \div 2
                      IN  IF lo >= hi THEN <<lo, hi>>
                          ELSE IF at < times[mid] THEN <<lo, mid>>
                          ELSE <<mid + 1, hi>>
           g == [x \in S \X (1 .. N + 1) |-> BisectTurn(times, at, x[1])]
           Body(f) == [n \in 0 .. N + 1 |-> IF n = 0 THEN b ELSE Turn(f[n - 1])]
           step == CHOOSE f : f = Body(f)
<1>1. N \in Nat /\ N + 1 \in Nat /\ b \in S
  BY DEF Stream
<1>2. \A q : Turn(q) = BisectTurn(times, at, q)
  BY DEF BisectTurn
<1> HIDE DEF Turn
<1>3. ASSUME NEW q \in S PROVE BisectTurn(times, at, q) \in S
  <2>1. PICK lo \in 1 .. N + 1, hi \in 1 .. N + 1 : q = <<lo, hi>>
    OBVIOUS
  <2> DEFINE mid == (lo + hi) \div 2
  <2>2. BisectTurn(times, at, q) =
          IF lo >= hi THEN <<lo, hi>> ELSE IF at < times[mid] THEN <<lo, mid>> ELSE <<mid + 1, hi>>
    BY <2>1 DEF BisectTurn
  <2>3. lo < hi => mid \in lo .. hi - 1
    BY <1>1, MidIsBetween
  <2> HIDE DEF mid
  <2>4. lo < hi => mid \in 1 .. N + 1 /\ mid + 1 \in 1 .. N + 1
    BY <1>1, <2>3
  <2>5. lo >= hi \/ lo < hi
    BY <1>1
  <2> QED  BY <2>2, <2>4, <2>5
<1>4. g \in [S \X (1 .. N + 1) -> S]
  BY <1>3
<1>5. \A q \in S, n \in 1 .. N + 1 : g[<<q, n>>] = BisectTurn(times, at, q)
  OBVIOUS
<1>6. PICK f \in [0 .. N + 1 -> S] : IsLoop(f, b, g, N + 1)
  <2> HIDE DEF S, b, g, N
  <2> QED  BY <1>1, <1>4, LoopExists
<1>7. f = Body(f)
  <2>1. \A n \in 0 .. N + 1 : n # 0 => n \in 1 .. N + 1 /\ f[n - 1] \in S
    BY <1>1, SMTT(60)
  <2>2. \A n \in 0 .. N + 1 : n # 0 => g[<<f[n - 1], n>>] = Turn(f[n - 1])
    BY <1>2, <1>5, <2>1
  <2>3. \A n \in 0 .. N + 1 : (IF n = 0 THEN b ELSE g[<<f[n - 1], n>>]) = Body(f)[n]
    BY <2>2
  <2>4. f = [n \in 0 .. N + 1 |-> IF n = 0 THEN b ELSE g[<<f[n - 1], n>>]]
    BY <1>6 DEF IsLoop
  <2>5. Body(f) = [n \in 0 .. N + 1 |-> Body(f)[n]]
    BY Zenon
  <2> HIDE DEF Body, g, N, b
  <2> QED  BY ONLY <2>3, <2>4, <2>5, Zenon
<1>8. step = Body(step)
  <2> HIDE DEF Body
  <2> QED  BY <1>7, Zenon
<1> HIDE DEF step
<1>9. step[0] = b /\ \A n \in 1 .. N + 1 : step[n] = BisectTurn(times, at, step[n - 1])
  <2>1. \A n \in 0 .. N + 1 : step[n] = Body(step)[n]
    BY ONLY <1>8, Zenon
  <2>2. 0 \in 0 .. N + 1 /\ \A n \in 1 .. N + 1 : n \in 0 .. N + 1 /\ n # 0
    BY <1>1
  <2>3. \A n \in 1 .. N + 1 : Body(step)[n] = BisectTurn(times, at, step[n - 1])
    BY <1>2, <2>2
  <2>4. Body(step)[0] = b
    BY <2>2
  <2> HIDE DEF Body, N, b
  <2> QED  BY <2>1, <2>2, <2>3, <2>4
<1> DEFINE Holds(n) == \E lo, hi \in 1 .. N + 1 :
                          /\ step[n] = <<lo, hi>> /\ Between(times, at, lo, hi)
                          /\ lo = hi \/ hi - lo <= N - n
           K == {n \in 0 .. N + 1 : Holds(n)}
<1>10. 0 \in K
  <2>1. 1 \in 1 .. N + 1 /\ N + 1 \in 1 .. N + 1 /\ (N + 1) - 1 <= N - 0 /\ 0 \in 0 .. N + 1
    BY <1>1
  <2>2. Between(times, at, 1, N + 1)
    BY <1>1 DEF Between
  <2>3. step[0] = <<1, N + 1>>
    BY <1>9
  <2> QED  BY <2>1, <2>2, <2>3
<1>11. ASSUME NEW n \in 1 .. N + 1, n - 1 \in K PROVE n \in K
  <2>1. PICK lo \in 1 .. N + 1, hi \in 1 .. N + 1 :
           /\ step[n - 1] = <<lo, hi>> /\ Between(times, at, lo, hi)
           /\ lo = hi \/ hi - lo <= N - (n - 1)
    BY <1>11
  <2>2. PICK l \in 1 .. N + 1, h \in 1 .. N + 1 :
           /\ BisectTurn(times, at, <<lo, hi>>) = <<l, h>>
           /\ Between(times, at, l, h) /\ (l = h \/ h - l < hi - lo)
    BY <2>1, BisectTurnCloses
  <2>3. step[n] = <<l, h>>
    BY <1>9, <2>1, <2>2
  <2>4. l = h \/ h - l <= N - n
    <3>1. l \in Nat /\ h \in Nat /\ lo \in Nat /\ hi \in Nat /\ l <= h /\ n \in Nat
      BY <1>1, <2>2 DEF Between
    <3> QED  BY <1>1, <2>1, <2>2, <3>1
  <2>5. n \in 0 .. N + 1
    BY <1>1
  <2> HIDE DEF N
  <2> QED  BY <2>2, <2>3, <2>4, <2>5
<1>12. \A n \in 0 .. N + 1 : n \in K
  <2> HIDE DEF K, N
  <2> QED  BY <1>1, <1>10, <1>11, LoopInduction, Zenon
<1>13. PICK lo \in 1 .. N + 1, hi \in 1 .. N + 1 :
          /\ step[N + 1] = <<lo, hi>> /\ Between(times, at, lo, hi)
          /\ lo = hi \/ hi - lo <= N - (N + 1)
  <2>1. N + 1 \in 0 .. N + 1
    BY <1>1
  <2> QED  BY <1>12, <2>1
<1>14. lo = hi
  BY <1>1, <1>13 DEF Between
<1>15. Bisect(times, at) = step[N + 1][1]
  BY DEF Bisect, step, Body, Turn, b, N
<1> QED  BY <1>13, <1>14, <1>15

\* The latest sample of a stream that is not after at: one of the stream, and
\* none that qualifies is later.
THEOREM LatestIsCausal ==
  ASSUME NEW s \in Stream, NEW at \in Nat
  PROVE  LET found == Latest(Observations(s), at)
             past == {s[i] : i \in {j \in DOMAIN s : s[j] <= at}}
         IN  /\ found \in Nat
             /\ IF past = {} THEN found = NoTime ELSE found \in past /\ \A p \in past : p <= found
<1> DEFINE n == Len(s)
           D == 1 .. n
           past == {s[i] : i \in {j \in DOMAIN s : s[j] <= at}}
<1>1. n \in Nat /\ DOMAIN s = D /\ \A i \in D : s[i] \in Nat \ {0}
  BY DEF Stream
<1>2. PICK o : /\ o = Observations(s) /\ o \in Stream /\ Len(o) = n /\ Sorted(o)
               /\ \A k \in D : \E i \in D : o[k] = s[i]
               /\ \A i \in D : \E k \in D : o[k] = s[i]
  BY ObservationsSorted
<1>3. PICK b : b = Bisect(o, at) /\ Between(o, at, b, b)
  BY <1>2, BisectFinds
<1>4. b \in 1 .. n + 1 /\ (\A j \in 1 .. b - 1 : o[j] <= at) /\ \A j \in b .. n : at < o[j]
  BY <1>2, <1>3 DEF Between
<1>5. \A k \in D : o[k] \in Nat \ {0}
  BY <1>1, <1>2
<1>6. \A p \in past : \E k \in 1 .. b - 1 : o[k] = p
  <2> SUFFICES ASSUME NEW p \in past PROVE \E k \in 1 .. b - 1 : o[k] = p
    OBVIOUS
  <2>1. PICK i \in D : p = s[i] /\ s[i] <= at
    BY <1>1
  <2>2. PICK k \in D : o[k] = s[i]
    BY <1>2
  <2>3. ~(at < o[k]) /\ k \in Nat
    BY <1>1, <2>1, <2>2
  <2>4. ~(k >= b)
    BY <1>1, <1>4, <2>3
  <2> QED  BY <1>4, <2>1, <2>2, <2>3, <2>4
<1>7. Latest(o, at) = IF b - 1 < 1 THEN NoTime ELSE o[b - 1]
  BY <1>3 DEF Latest
<1>8. CASE b = 1
  <2>1. past = {}
    BY <1>6, <1>8
  <2>2. Latest(o, at) = NoTime /\ NoTime \in Nat
    BY <1>7, <1>8 DEF NoTime
  <2> HIDE DEF past
  <2> QED  BY <1>2, <2>1, <2>2 DEF past
<1>9. CASE b # 1
  <2>1. b - 1 \in D /\ b - 1 \in 1 .. b - 1 /\ ~(b - 1 < 1)
    BY <1>1, <1>4, <1>9
  <2>2. PICK f \in Nat \ {0} : f = o[b - 1] /\ Latest(o, at) = f
    BY <1>5, <1>7, <2>1
  <2>3. f <= at
    BY <1>4, <2>1, <2>2
  <2>4. f \in past
    BY <1>1, <1>2, <2>1, <2>2, <2>3
  <2>5. ASSUME NEW p \in past PROVE p <= f
    <3>1. PICK k \in 1 .. b - 1 : o[k] = p
      BY <1>6
    <3>2. k \in D /\ k <= b - 1
      BY <1>1, <1>4
    <3>3. PICK l \in D : l = b - 1 /\ k <= l
      BY <2>1, <3>2
    <3>4. \A x, y \in D : x <= y => o[x] <= o[y]
      BY <1>2 DEF Sorted
    <3>5. o[k] <= o[l]
      BY ONLY <3>2, <3>3, <3>4
    <3> QED  BY <2>2, <3>1, <3>3, <3>5
  <2> HIDE DEF past
  <2> QED  BY <1>2, <2>2, <2>4, <2>5 DEF past
<1> QED  BY <1>8, <1>9

-----------------------------------------------------------------------------
(* The review desk *)

Reviews == {"pending", "approved", "rejected"}
IndexRow == [e : Episodes, review : Reviews]
Reviewers ==
    {Idle}
    \cup [pc : {"metadata", "index"}, e : Episodes, status : {"approved", "rejected"}]
    \cup [pc : {"replace"}, e : Episodes, rows : SUBSET IndexRow]
Converters ==
    {Idle} \cup [pc : ShardFiles \cup {"info", "index"}, e : Episodes, review : {"approved"}]

Reviewed(e) == meta[e].status = "completed" /\ meta[e].version > 1

\* What the metadata of an episode says of its history.
MetaInv ==
    \A e \in Episodes :
        /\ meta[e].status = "completed" => meta[e].version >= 1
        /\ meta[e].review = "approved" => meta[e].version > 1

\* The review writes metadata before it touches the index, and the copy of the
\* index it holds shows no more than the metadata has had.
ReviewerInv ==
    /\ reviewer \in Reviewers
    /\ reviewer.pc = "metadata" =>
         /\ meta[reviewer.e].status = "completed"
         /\ meta[reviewer.e].version <= MaxReviews
    /\ reviewer.pc = "index" => meta[reviewer.e].version > 1
    /\ reviewer.pc = "replace" =>
         \A r \in reviewer.rows : r.review # "pending" => meta[r.e].version > 1

\* The files a conversion has written when it is about to write the next one.
WrittenBefore ==
    [data |-> {}, workspace |-> {"data"}, wrist |-> {"data", "workspace"},
     meta |-> {"data", "workspace", "wrist"}, info |-> ShardFiles, index |-> ShardFiles]

\* The episode under conversion is a reviewed one and is not listed yet.
ConverterInv ==
    /\ converter \in Converters
    /\ converter # Idle =>
         /\ Reviewed(converter.e)
         /\ WrittenBefore[converter.pc] \subseteq shard[converter.e]
         /\ \A i \in DOMAIN shardIndex : shardIndex[i].e # converter.e

StagingInv ==
    /\ StagingTypeOK /\ MetaInv /\ ReviewerInv /\ ConverterInv
    /\ ShardIndexIsComplete /\ ShardIndexedOnce /\ IndexFollowsMetadata /\ ShardsAreReviewed

USE StagingAssumption

LEMMA StagingInitInv == StagingInit => StagingInv
  BY DEF StagingInit, StagingInv, StagingTypeOK, MetaInv, ReviewerInv, ConverterInv, Reviewers,
         Converters, ShardIndexIsComplete, ShardIndexedOnce, IndexFollowsMetadata,
         ShardsAreReviewed, Absent, Idle, Reviewed

MetaStatus == {"absent", "completed", "aborted"}
MetaType == [Episodes -> [status : MetaStatus, review : Reviews, version : 0 .. MaxReviews + 1]]

\* The recorder only adds metadata where there was none.
LEMMA PublishStep ==
  ASSUME StagingInv, NEW e \in Episodes, NEW s \in {"completed", "aborted"}, PublishEpisode(e, s)
  PROVE  StagingInv'
<1> DEFINE new == [status |-> s, review |-> "pending", version |-> 1]
<1>1. /\ meta \in MetaType /\ meta[e].status = "absent" /\ meta[e].version = 0
      /\ meta' = [meta EXCEPT ![e] = new]
      /\ new \in [status : MetaStatus, review : Reviews, version : 0 .. MaxReviews + 1]
  BY DEF StagingInv, StagingTypeOK, PublishEpisode, Absent, MetaType, MetaStatus, Reviews
<1>2. meta' \in MetaType /\ meta'[e] = new /\ \A d \in Episodes : d # e => meta'[d] = meta[d]
  BY <1>1 DEF MetaType
<1>3. UNCHANGED <<index, reviewer, shard, shardIndex, converter, pages>> /\ recorder' = recorder \cup {e}
  BY DEF PublishEpisode
<1> HIDE DEF new
<1>4. new.version = 1 /\ new.review = "pending"
  BY DEF new
<1>5. StagingTypeOK'
  BY <1>2, <1>3 DEF StagingInv, StagingTypeOK, MetaType, MetaStatus, Reviews
<1>6. MetaInv' /\ IndexFollowsMetadata' /\ ShardsAreReviewed'
  BY <1>1, <1>2, <1>3, <1>4 DEF StagingInv, StagingTypeOK, MetaInv, IndexFollowsMetadata, ShardsAreReviewed
<1>7. ReviewerInv'
  <2>1. reviewer.pc \in {"metadata", "index"} => reviewer.e \in Episodes
    BY DEF StagingInv, ReviewerInv, Reviewers, Idle
  <2>2. reviewer.pc = "replace" => reviewer.rows \subseteq IndexRow
    BY DEF StagingInv, ReviewerInv, Reviewers, Idle
  <2>3. \A r \in IndexRow : r.e \in Episodes
    BY DEF IndexRow
  <2> QED  BY <1>1, <1>2, <1>3, <1>4, <2>1, <2>2, <2>3 DEF StagingInv, ReviewerInv
<1>8. ConverterInv'
  <2>1. converter # Idle => converter.e \in Episodes
    BY DEF StagingInv, ConverterInv, Converters
  <2> QED  BY <1>1, <1>2, <1>3, <2>1 DEF StagingInv, ConverterInv, Reviewed
<1>9. ShardIndexIsComplete' /\ ShardIndexedOnce'
  BY <1>3 DEF StagingInv, ShardIndexIsComplete, ShardIndexedOnce
<1> QED  BY <1>5, <1>6, <1>7, <1>8, <1>9 DEF StagingInv

\* The recorder's row in the index, a review page.
LEMMA IndexStep ==
  ASSUME StagingInv, NEW e \in Episodes, AppendEpisodeIndex(e) \/ StageReviewHtml(e)
  PROVE  StagingInv'
<1>1. UNCHANGED <<meta, reviewer, shard, shardIndex, converter>>
  BY DEF AppendEpisodeIndex, StageReviewHtml
<1>2. index' \in {index, index \cup {[e |-> e, review |-> "pending"]}}
  BY DEF AppendEpisodeIndex, StageReviewHtml
<1>3. StagingTypeOK'
  <2>1. recorder' \subseteq Episodes /\ pages' \subseteq Episodes
    BY DEF AppendEpisodeIndex, StageReviewHtml, StagingInv, StagingTypeOK
  <2>2. index' \subseteq [e : Episodes, review : {"pending", "approved", "rejected"}]
    BY <1>2 DEF StagingInv, StagingTypeOK
  <2> QED  BY <1>1, <2>1, <2>2 DEF StagingInv, StagingTypeOK
<1>4. IndexFollowsMetadata'
  BY <1>1, <1>2 DEF StagingInv, IndexFollowsMetadata
<1>5. MetaInv' /\ ReviewerInv' /\ ConverterInv' /\ ShardsAreReviewed' /\ ShardIndexIsComplete' /\ ShardIndexedOnce'
  BY <1>1 DEF StagingInv, MetaInv, ReviewerInv, ConverterInv, ShardsAreReviewed, Reviewed,
              ShardIndexIsComplete, ShardIndexedOnce
<1> QED  BY <1>3, <1>4, <1>5 DEF StagingInv

\* The review command reads, then replaces metadata and index.
LEMMA ReviewerStep ==
  ASSUME StagingInv,
         \/ \E e \in Episodes, s \in {"approved", "rejected"} : ReadForReview(e, s)
         \/ ReadIndex \/ ReviewerKilled
  PROVE  StagingInv'
<1>1. UNCHANGED <<meta, index, recorder, shard, shardIndex, converter, pages>>
  BY DEF ReadForReview, ReadIndex, ReviewerKilled
<1>2. ReviewerInv'
  <2>1. ASSUME NEW e \in Episodes, NEW s \in {"approved", "rejected"}, ReadForReview(e, s)
        PROVE  ReviewerInv'
    <3>1. /\ reviewer' = [pc |-> "metadata", e |-> e, status |-> s]
          /\ meta[e].status = "completed" /\ meta[e].version <= MaxReviews
      BY <2>1 DEF ReadForReview
    <3>2. reviewer' \in Reviewers /\ reviewer'.pc = "metadata" /\ reviewer'.e = e
      BY <3>1 DEF Reviewers
    <3> QED  BY <1>1, <3>1, <3>2 DEF ReviewerInv
  <2>2. CASE ReadIndex
    <3> DEFINE rows == {IF r.e = reviewer.e THEN [r EXCEPT !.review = reviewer.status] ELSE r : r \in index}
    <3>1. /\ reviewer.pc = "index" /\ meta[reviewer.e].version > 1
          /\ reviewer' = [pc |-> "replace", e |-> reviewer.e, rows |-> rows]
      BY <2>2 DEF ReadIndex, StagingInv, ReviewerInv
    <3>2. reviewer.e \in Episodes /\ reviewer.status \in {"approved", "rejected"}
      BY <3>1 DEF StagingInv, ReviewerInv, Reviewers, Idle
    <3>3. ASSUME NEW r \in rows
          PROVE  r \in IndexRow /\ (r.review # "pending" => meta[r.e].version > 1)
      <4>1. PICK o \in index : r = IF o.e = reviewer.e THEN [o EXCEPT !.review = reviewer.status] ELSE o
        BY <3>3
      <4>2. o \in IndexRow /\ (o.review # "pending" => meta[o.e].version > 1)
        BY DEF StagingInv, StagingTypeOK, IndexRow, Reviews, IndexFollowsMetadata
      <4> QED  BY <3>1, <3>2, <4>1, <4>2 DEF IndexRow, Reviews
    <3> HIDE DEF rows
    <3>4. rows \in SUBSET IndexRow
      BY <3>3
    <3>5. reviewer' \in Reviewers /\ reviewer'.pc = "replace" /\ reviewer'.rows = rows
      BY <3>1, <3>2, <3>4 DEF Reviewers
    <3> QED  BY <1>1, <3>3, <3>5 DEF ReviewerInv
  <2>3. CASE ReviewerKilled
    BY <1>1, <2>3 DEF ReviewerKilled, ReviewerInv, Reviewers, Idle
  <2> QED  BY <2>1, <2>2, <2>3
<1>3. /\ StagingTypeOK' /\ MetaInv' /\ ConverterInv' /\ ShardsAreReviewed' /\ ShardIndexIsComplete'
      /\ ShardIndexedOnce' /\ IndexFollowsMetadata'
  BY <1>1 DEF StagingInv, StagingTypeOK, MetaInv, ConverterInv, Reviewed, ShardsAreReviewed,
              ShardIndexIsComplete, ShardIndexedOnce, IndexFollowsMetadata
<1> QED  BY <1>2, <1>3 DEF StagingInv

LEMMA ReviewRecord ==
  ASSUME NEW m \in [status : MetaStatus, review : Reviews, version : 0 .. MaxReviews + 1], NEW s
  PROVE  [m EXCEPT !.review = s, !.version = @ + 1]
            = [status |-> m.status, review |-> s, version |-> m.version + 1]
<1> DEFINE n == m.version + 1
           x == [m EXCEPT !.review = s, !.version = n]
<1>1. DOMAIN m = {"status", "review", "version"}
  OBVIOUS
<1>2. DOMAIN x = {"status", "review", "version"} /\ x.status = m.status /\ x.review = s /\ x.version = n
  BY <1>1
<1>3. x = [f \in DOMAIN x |-> x[f]]
  OBVIOUS
<1> HIDE DEF n, x
<1>4. x = [status |-> m.status, review |-> s, version |-> n]
  BY <1>2, <1>3
<1> QED  BY <1>4 DEF n, x

LEMMA ReviewMetadataStep ==
  ASSUME StagingInv, WriteReviewMetadata
  PROVE  StagingInv'
<1> DEFINE e == reviewer.e
           new == [meta[e] EXCEPT !.review = reviewer.status, !.version = @ + 1]
<1>1. /\ reviewer \in [pc : {"metadata", "index"}, e : Episodes, status : {"approved", "rejected"}]
      /\ reviewer.pc = "metadata"
      /\ meta[e].status = "completed" /\ meta[e].version <= MaxReviews
  BY DEF WriteReviewMetadata, StagingInv, ReviewerInv, Reviewers, Idle
<1>2. e \in Episodes /\ reviewer.status \in {"approved", "rejected"} /\ meta \in MetaType
  BY <1>1 DEF StagingInv, StagingTypeOK, MetaType, MetaStatus, Reviews
<1>3. meta' = [meta EXCEPT ![e] = new]
  BY <1>2 DEF WriteReviewMetadata, MetaType
<1>4. /\ new \in [status : MetaStatus, review : Reviews, version : 0 .. MaxReviews + 1]
      /\ new.status = "completed" /\ new.version = meta[e].version + 1 /\ new.version > 1
  <2>1. meta[e] \in [status : MetaStatus, review : Reviews, version : 0 .. MaxReviews + 1] /\ meta[e].version >= 1
    BY <1>1, <1>2 DEF MetaType, StagingInv, MetaInv
  <2>2. new = [status |-> meta[e].status, review |-> reviewer.status, version |-> meta[e].version + 1]
    BY <2>1, ReviewRecord
  <2>3. meta[e].version + 1 \in 0 .. MaxReviews + 1 /\ meta[e].version + 1 > 1
    BY <1>1, <2>1
  <2> QED  BY <1>1, <1>2, <2>1, <2>2, <2>3 DEF Reviews
<1>5. meta' \in MetaType /\ meta'[e] = new /\ \A d \in Episodes : d # e => meta'[d] = meta[d]
  BY <1>2, <1>3, <1>4 DEF MetaType
<1>6. /\ UNCHANGED <<index, recorder, shard, shardIndex, converter, pages>>
      /\ reviewer' = [reviewer EXCEPT !.pc = "index"]
  BY DEF WriteReviewMetadata
<1>7. reviewer' \in Reviewers /\ reviewer'.pc = "index" /\ reviewer'.e = e
  BY <1>1, <1>6 DEF Reviewers
<1>8. meta[e].version \in Int
  BY <1>2 DEF MetaType
<1> HIDE DEF e, new
<1>9. StagingTypeOK'
  BY <1>5, <1>6 DEF StagingInv, StagingTypeOK, MetaType, MetaStatus, Reviews
<1>10. MetaInv' /\ ShardsAreReviewed' /\ IndexFollowsMetadata'
  <2>1. \A r \in index : r.e \in Episodes
    BY DEF StagingInv, StagingTypeOK
  <2>2. MetaInv'
    BY <1>4, <1>5 DEF StagingInv, MetaInv
  <2>3. ShardsAreReviewed'
    BY <1>4, <1>5, <1>6 DEF StagingInv, ShardsAreReviewed
  <2>4. IndexFollowsMetadata'
    BY <1>4, <1>5, <1>6, <2>1 DEF StagingInv, IndexFollowsMetadata
  <2> QED  BY <2>2, <2>3, <2>4
<1>11. ReviewerInv'
  BY <1>4, <1>5, <1>7 DEF ReviewerInv
<1>12. ConverterInv'
  <2>1. converter # Idle => converter.e \in Episodes
    BY DEF StagingInv, ConverterInv, Converters
  <2> QED  BY <1>4, <1>5, <1>6, <2>1 DEF StagingInv, ConverterInv, Reviewed
<1>13. ShardIndexIsComplete' /\ ShardIndexedOnce'
  BY <1>6 DEF StagingInv, ShardIndexIsComplete, ShardIndexedOnce
<1> QED  BY <1>9, <1>10, <1>11, <1>12, <1>13 DEF StagingInv

LEMMA ReplaceIndexStep ==
  ASSUME StagingInv, ReplaceIndex
  PROVE  StagingInv'
<1>1. /\ UNCHANGED <<meta, recorder, shard, shardIndex, converter, pages>>
      /\ reviewer.pc = "replace" /\ reviewer' = Idle /\ index' = reviewer.rows
  BY DEF ReplaceIndex
<1>2. /\ reviewer.rows \subseteq IndexRow
      /\ \A r \in reviewer.rows : r.review # "pending" => meta[r.e].version > 1
  BY <1>1 DEF StagingInv, ReviewerInv, Reviewers, Idle
<1>3. StagingTypeOK' /\ IndexFollowsMetadata'
  BY <1>1, <1>2 DEF StagingInv, StagingTypeOK, IndexFollowsMetadata, IndexRow, Reviews
<1>4. ReviewerInv'
  BY <1>1 DEF ReviewerInv, Reviewers, Idle
<1>5. MetaInv' /\ ConverterInv' /\ ShardsAreReviewed' /\ ShardIndexIsComplete' /\ ShardIndexedOnce'
  BY <1>1 DEF StagingInv, MetaInv, ConverterInv, Reviewed, ShardsAreReviewed,
              ShardIndexIsComplete, ShardIndexedOnce
<1> QED  BY <1>3, <1>4, <1>5 DEF StagingInv

\* convert-staging.
LEMMA BeginConvertStep ==
  ASSUME StagingInv, NEW e \in Episodes, BeginConvert(e)
  PROVE  StagingInv'
<1>1. /\ UNCHANGED <<meta, index, recorder, reviewer, shard, shardIndex, pages>>
      /\ Reviewed(e) /\ "data" \notin shard[e]
      /\ converter' = [pc |-> "data", e |-> e, review |-> "approved"]
  BY DEF BeginConvert, CanConvert, StagingInv, MetaInv, Reviewed
<1>2. converter' \in Converters /\ converter'.pc = "data" /\ converter'.e = e
  BY <1>1 DEF Converters, ShardFiles
<1>3. \A i \in DOMAIN shardIndex : shardIndex[i].e # e
  BY <1>1 DEF StagingInv, ShardIndexIsComplete, ShardFiles
<1>4. ConverterInv'
  BY <1>1, <1>2, <1>3 DEF ConverterInv, WrittenBefore, Reviewed
<1>5. /\ StagingTypeOK' /\ MetaInv' /\ ReviewerInv' /\ ShardsAreReviewed' /\ ShardIndexIsComplete'
      /\ ShardIndexedOnce' /\ IndexFollowsMetadata'
  BY <1>1 DEF StagingInv, StagingTypeOK, MetaInv, ReviewerInv, ShardsAreReviewed,
              ShardIndexIsComplete, ShardIndexedOnce, IndexFollowsMetadata
<1> QED  BY <1>4, <1>5 DEF StagingInv

LEMMA WriteShardStep ==
  ASSUME StagingInv, WriteShardFile
  PROVE  StagingInv'
<1> DEFINE e == converter.e
<1>1. /\ UNCHANGED <<meta, index, recorder, reviewer, shardIndex, pages>>
      /\ converter.pc \in ShardFiles \cup {"info"}
      /\ shard' = [shard EXCEPT ![e] = @ \cup ({converter.pc} \cap ShardFiles)]
      /\ converter' = [converter EXCEPT !.pc = NextFile[converter.pc]]
  BY DEF WriteShardFile
<1>2. /\ converter \in [pc : ShardFiles \cup {"info", "index"}, e : Episodes, review : {"approved"}]
      /\ converter # Idle
  BY <1>1 DEF StagingInv, ConverterInv, Converters, Idle, ShardFiles
<1>3. /\ e \in Episodes /\ Reviewed(e)
      /\ WrittenBefore[converter.pc] \subseteq shard[e]
      /\ \A i \in DOMAIN shardIndex : shardIndex[i].e # e
  BY <1>2 DEF StagingInv, ConverterInv
<1>4. /\ shard \in [Episodes -> SUBSET ShardFiles] /\ shard' \in [Episodes -> SUBSET ShardFiles]
      /\ shard'[e] = shard[e] \cup ({converter.pc} \cap ShardFiles)
      /\ \A d \in Episodes : d # e => shard'[d] = shard[d]
  BY <1>1, <1>3 DEF StagingInv, StagingTypeOK
<1>5. NextFile[converter.pc] \in ShardFiles \cup {"info", "index"}
  BY <1>1 DEF NextFile, ShardFiles
<1>6. converter' \in Converters /\ converter'.e = e /\ converter'.pc = NextFile[converter.pc]
  BY <1>1, <1>2, <1>5 DEF Converters
<1>7. WrittenBefore[NextFile[converter.pc]] \subseteq WrittenBefore[converter.pc] \cup ({converter.pc} \cap ShardFiles)
  <2>1. converter.pc \in {"data", "workspace", "wrist", "meta", "info"}
    BY <1>1 DEF ShardFiles
  <2>2. CASE converter.pc = "data"
    BY <2>2 DEF NextFile, WrittenBefore, ShardFiles
  <2>3. CASE converter.pc = "workspace"
    BY <2>3 DEF NextFile, WrittenBefore, ShardFiles
  <2>4. CASE converter.pc = "wrist"
    BY <2>4 DEF NextFile, WrittenBefore, ShardFiles
  <2>5. CASE converter.pc = "meta"
    BY <2>5 DEF NextFile, WrittenBefore, ShardFiles
  <2>6. CASE converter.pc = "info"
    BY <2>6 DEF NextFile, WrittenBefore, ShardFiles
  <2> QED  BY <2>1, <2>2, <2>3, <2>4, <2>5, <2>6
<1> HIDE DEF e
<1>8. StagingTypeOK'
  BY <1>1, <1>4 DEF StagingInv, StagingTypeOK
<1>9. ConverterInv'
  BY <1>1, <1>3, <1>4, <1>6, <1>7 DEF ConverterInv, Reviewed
<1>10. ShardsAreReviewed'
  BY <1>1, <1>3, <1>4 DEF StagingInv, ShardsAreReviewed, Reviewed
<1>11. ShardIndexIsComplete'
  <2>1. \A i \in DOMAIN shardIndex : shardIndex[i].e \in Episodes
    <3>1. shardIndex \in Seq([e : Episodes, review : {"approved"}])
      BY DEF StagingInv, StagingTypeOK
    <3>2. ASSUME NEW i \in DOMAIN shardIndex PROVE shardIndex[i] \in [e : Episodes, review : {"approved"}]
      <4>1. i \in 1 .. Len(shardIndex)
        BY <3>1
      <4> DEFINE Listed == [e : Episodes, review : {"approved"}]
      <4>2. shardIndex \in Seq(Listed)
        BY <3>1
      <4> HIDE DEF Listed
      <4>3. shardIndex[i] \in Listed
        BY <4>1, <4>2, ElementOfSeq
      <4> QED  BY <4>3 DEF Listed
    <3> QED  BY <3>2
  <2> QED  BY <1>1, <1>3, <1>4, <2>1 DEF StagingInv, ShardIndexIsComplete
<1>12. MetaInv' /\ ReviewerInv' /\ ShardIndexedOnce' /\ IndexFollowsMetadata'
  BY <1>1 DEF StagingInv, MetaInv, ReviewerInv, ShardIndexedOnce, IndexFollowsMetadata
<1> QED  BY <1>8, <1>9, <1>10, <1>11, <1>12 DEF StagingInv

LEMMA AppendShardStep ==
  ASSUME StagingInv, AppendShardIndex
  PROVE  StagingInv'
<1> DEFINE new == [e |-> converter.e, review |-> converter.review]
<1>1. /\ UNCHANGED <<meta, index, recorder, reviewer, shard, pages>>
      /\ converter.pc = "index" /\ converter' = Idle
      /\ shardIndex' = Append(shardIndex, new)
  BY DEF AppendShardIndex
<1>2. converter \in [pc : ShardFiles \cup {"info", "index"}, e : Episodes, review : {"approved"}] /\ converter # Idle
  BY <1>1 DEF StagingInv, ConverterInv, Converters, Idle
<1>3. /\ new \in [e : Episodes, review : {"approved"}]
      /\ shard[new.e] = ShardFiles
      /\ \A i \in DOMAIN shardIndex : shardIndex[i].e # new.e
  <2>1. new \in [e : Episodes, review : {"approved"}] /\ new.e = converter.e /\ converter.e \in Episodes
    BY <1>2
  <2>2. /\ WrittenBefore["index"] \subseteq shard[converter.e]
        /\ \A i \in DOMAIN shardIndex : shardIndex[i].e # converter.e
    BY <1>1, <1>2 DEF StagingInv, ConverterInv
  <2>3. WrittenBefore["index"] = ShardFiles /\ shard[converter.e] \subseteq ShardFiles
    BY <2>1 DEF WrittenBefore, StagingInv, StagingTypeOK
  <2> HIDE DEF new
  <2> QED  BY <2>1, <2>2, <2>3
<1> HIDE DEF new
<1>4. shardIndex \in Seq([e : Episodes, review : {"approved"}])
  BY DEF StagingInv, StagingTypeOK
<1>5. /\ shardIndex' \in Seq([e : Episodes, review : {"approved"}])
      /\ DOMAIN shardIndex' = DOMAIN shardIndex \cup {Len(shardIndex) + 1}
      /\ shardIndex'[Len(shardIndex) + 1] = new
      /\ \A i \in DOMAIN shardIndex : shardIndex'[i] = shardIndex[i]
  BY <1>1, <1>3, <1>4
<1>6. StagingTypeOK' /\ ShardIndexIsComplete' /\ ShardIndexedOnce'
  BY <1>1, <1>3, <1>5 DEF StagingInv, StagingTypeOK, ShardIndexIsComplete, ShardIndexedOnce
<1>7. ConverterInv'
  BY <1>1 DEF ConverterInv, Converters, Idle
<1>8. MetaInv' /\ ReviewerInv' /\ ShardsAreReviewed' /\ IndexFollowsMetadata'
  BY <1>1 DEF StagingInv, MetaInv, ReviewerInv, ShardsAreReviewed, IndexFollowsMetadata
<1> QED  BY <1>6, <1>7, <1>8 DEF StagingInv

LEMMA ConverterStopsStep ==
  ASSUME StagingInv, ConverterStops
  PROVE  StagingInv'
<1>1. /\ UNCHANGED <<meta, index, recorder, reviewer, shard, shardIndex, pages>> /\ converter' = Idle
  BY DEF ConverterStops
<1> QED  BY <1>1 DEF StagingInv, StagingTypeOK, MetaInv, ReviewerInv, ConverterInv, Converters,
           ShardsAreReviewed, ShardIndexIsComplete, ShardIndexedOnce, IndexFollowsMetadata

\* Each step of the review desk, and the steps of the others.
LEMMA StagingStep == StagingInv /\ [StagingNext]_stagingVars => StagingInv'
<1> SUFFICES ASSUME StagingInv, [StagingNext]_stagingVars PROVE StagingInv'
  OBVIOUS
<1>1. CASE UNCHANGED stagingVars
  BY <1>1 DEF stagingVars, StagingInv, StagingTypeOK, MetaInv, ReviewerInv, ConverterInv, Reviewed,
              ShardsAreReviewed, ShardIndexIsComplete, ShardIndexedOnce, IndexFollowsMetadata
<1>2. CASE StagingNext
  BY <1>2, PublishStep, IndexStep, ReviewerStep, ReviewMetadataStep, ReplaceIndexStep,
     BeginConvertStep, WriteShardStep, AppendShardStep, ConverterStopsStep DEF StagingNext
<1> QED  BY <1>1, <1>2

------------------------------------------------------------------------------
(* The materializers and the views *)

USE TrainingAssumption

Manifest == Seq(Entry)
Versions == [Episodes -> 0 .. MaxVersion]
Prints == [cfg : {cfg.id : cfg \in Configs}, versions : Versions]
Roots(r) ==
    [gen : Nat \ {0}, cfg : Configs, fp : Prints, read : Versions, kept : {r.kept}, parts : SUBSET Parts,
     torn : BOOLEAN]
Jobs(b) ==
    {NoJob}
    \cup [pc : {"inventory"}, cfg : Configs, replace : BOOLEAN]
    \cup [pc : {"marker", "rmtree", "mkdtemp"}, cfg : Configs, replace : BOOLEAN, fp : Prints, inv : Versions]
    \cup [pc : {"read"}, cfg : Configs, replace : BOOLEAN, fp : Prints, inv : Versions, at : Nat \ {0},
          kept : {b.kept}, read : Versions]
BuildTypes ==
    /\ DOMAIN take = Episodes /\ source \in Versions
    /\ out \in {NoRoot} \cup Roots(out)
    /\ tmp \in [state : {"none", "open", "orphan"}, parts : SUBSET Parts]
    /\ build \in Jobs(build) /\ builds \in 0 .. MaxBuilds

\* What was read is no older than what the fingerprint says.
NotOlder(fp, read) == \A s \in Episodes : read[s] # 0 => fp.versions[s] <= read[s]
UpTo(read, versions) == \A s \in Episodes : read[s] # 0 => read[s] <= versions[s]
VersionsInv ==
    /\ build.pc \in {"marker", "rmtree", "mkdtemp", "read"} =>
         build.fp.versions = build.inv /\ \A s \in Episodes : build.inv[s] <= source[s]
    /\ build.pc = "read" => NotOlder(build.fp, build.read) /\ UpTo(build.read, source)
    /\ out # NoRoot => NotOlder(out.fp, out.read) /\ UpTo(out.read, source)
    /\ out # NoRoot /\ build.pc = "marker" => UpTo(out.read, build.inv)

\* The order of a build: nothing is removed unasked, the temporary root is
\* filled when the old output is gone, from what the manifest includes.
OrderInv ==
    /\ build.pc = "rmtree" => build.replace /\ out # NoRoot
    /\ build.pc \in {"mkdtemp", "read"} => out = NoRoot
    /\ tmp.state = "open" => build.pc = "read"
    /\ build.pc = "read" => build.kept \subseteq Included(build.cfg)
    /\ PublishedIsWhole

\* A root in place passed the checks made before it was published.
AcceptedInv ==
    out # NoRoot =>
        /\ SplitsAccepted(out.cfg.splits, Included(out.cfg))
        /\ out.cfg.kind = "bottle" =>
             GroupsAccepted(out.cfg.declared, out.cfg.groups, Included(out.cfg),
                            [id \in Included(out.cfg) |-> SplitOf(out.cfg, id)])
        /\ out.kept \subseteq Included(out.cfg) /\ out.kept # {}

\* The build under way is newer than anything on disk.
Past(g) == g <= builds /\ (build # NoJob => g < builds)
NewestInv == Past(out.gen)

BuildInv == BuildTypes /\ VersionsInv /\ OrderInv /\ AcceptedInv /\ NewestInv /\ ReuseIsFresh

LEMMA BuildInitInv ==
  ASSUME TrainInit, DOMAIN take = Episodes, source \in Versions
  PROVE  BuildInv
<1>1. BuildTypes
  BY DEF TrainInit, BuildTypes, Jobs, NoTemp
<1>2. VersionsInv /\ OrderInv /\ AcceptedInv /\ NewestInv /\ ReuseIsFresh
  BY DEF TrainInit, VersionsInv, OrderInv, AcceptedInv, NewestInv, ReuseIsFresh, PublishedIsWhole, NoJob, NoTemp,
         NoRoot, Past
<1> QED  BY <1>1, <1>2 DEF BuildInv

JobShape == [pc : {"marker", "rmtree", "mkdtemp"}, cfg : Configs, replace : BOOLEAN, fp : Prints, inv : Versions]
ReadShape(b) ==
    [pc : {"read"}, cfg : Configs, replace : BOOLEAN, fp : Prints, inv : Versions, at : Nat \ {0},
     kept : {b.kept}, read : Versions]

LEMMA JobFacts ==
  ASSUME BuildInv
  PROVE  /\ build.pc = "inventory" => build \in [pc : {"inventory"}, cfg : Configs, replace : BOOLEAN]
         /\ build.pc \in {"marker", "rmtree", "mkdtemp"} => build \in JobShape
         /\ build.pc = "read" => build \in ReadShape(build)
         /\ build.pc \in {"inventory", "marker", "rmtree", "mkdtemp", "read"} => build # NoJob
         /\ build # NoJob => build.replace \in BOOLEAN /\ build.cfg \in Configs
  BY DEF BuildInv, BuildTypes, Jobs, NoJob, JobShape, ReadShape

LEMMA RootFacts ==
  ASSUME BuildInv, out # NoRoot
  PROVE  out \in Roots(out) /\ out.gen \in Nat \ {0} /\ out.gen <= builds
  BY DEF BuildInv, BuildTypes, Roots, NewestInv, Past

LEMMA GenFacts ==
  ASSUME BuildInv
  PROVE  out.gen \in Nat /\ Past(out.gen) /\ builds \in Nat /\ builds <= MaxBuilds
  BY DEF BuildInv, BuildTypes, Roots, NewestInv, NoRoot

LEMMA VersionsAreNumbers == \A v \in Versions : \A s \in Episodes : v[s] \in Int
  BY DEF Versions

\* A build that ends without a result to show: refused, raised, killed.
LEMMA EndStep ==
  ASSUME BuildInv, UNCHANGED <<take, source, out>>, build' = NoJob,
         builds' \in builds .. MaxBuilds,
         tmp' \in [state : {"none", "orphan"}, parts : SUBSET Parts],
         result'.kind # "reused"
  PROVE  BuildInv'
<1>1. BuildTypes'
  BY DEF BuildInv, BuildTypes, Jobs, Roots
<1>2. VersionsInv' /\ OrderInv' /\ AcceptedInv'
  BY DEF BuildInv, VersionsInv, OrderInv, AcceptedInv, PublishedIsWhole, NoJob, NotOlder, UpTo
<1>3. NewestInv'
  BY GenFacts DEF NewestInv, Past
<1>4. ReuseIsFresh'
  BY DEF ReuseIsFresh
<1> QED  BY <1>1, <1>2, <1>3, <1>4 DEF BuildInv

\* A source grows newer; what was read or listed stays older.
LEMMA SourceStep ==
  ASSUME BuildInv, NEW s \in Sources, SourceChanges(s)
  PROVE  BuildInv'
<1>1. UNCHANGED <<take, out, tmp, build, builds, result>>
  BY DEF SourceChanges
<1>2. source' \in Versions /\ \A e \in Episodes : source[e] \in Int /\ source[e] <= source'[e]
  BY DEF SourceChanges, BuildInv, BuildTypes, Versions, Sources
<1>3. BuildTypes'
  BY <1>1, <1>2 DEF BuildInv, BuildTypes, Jobs, Roots
<1>4. VersionsInv'
  <2>1. \A v \in Versions : UpTo(v, source) => UpTo(v, source')
    BY <1>2, VersionsAreNumbers DEF UpTo
  <2>2. build.pc = "read" => build.read \in Versions
    BY JobFacts DEF ReadShape
  <2>3. out # NoRoot => out.read \in Versions
    BY RootFacts DEF Roots
  <2>4. build.pc \in {"marker", "rmtree", "mkdtemp", "read"} => build.inv \in Versions
    BY JobFacts DEF JobShape, ReadShape
  <2>5. build.pc \in {"marker", "rmtree", "mkdtemp", "read"} =>
           build.fp.versions = build.inv /\ \A e \in Episodes : build.inv[e] <= source'[e]
    BY <1>2, <2>4, VersionsAreNumbers DEF BuildInv, VersionsInv
  <2>6. build.pc = "read" => NotOlder(build.fp, build.read) /\ UpTo(build.read, source')
    BY <2>1, <2>2 DEF BuildInv, VersionsInv
  <2>7. out # NoRoot => NotOlder(out.fp, out.read) /\ UpTo(out.read, source')
    BY <2>1, <2>3 DEF BuildInv, VersionsInv
  <2>8. out # NoRoot /\ build.pc = "marker" => UpTo(out.read, build.inv)
    BY DEF BuildInv, VersionsInv
  <2> QED  BY <1>1, <2>5, <2>6, <2>7, <2>8 DEF VersionsInv, NotOlder, UpTo
<1>5. OrderInv' /\ AcceptedInv' /\ NewestInv' /\ ReuseIsFresh'
  BY <1>1 DEF BuildInv, OrderInv, AcceptedInv, NewestInv, ReuseIsFresh, PublishedIsWhole, Past
<1> QED  BY <1>3, <1>4, <1>5 DEF BuildInv

LEMMA BeginBuildStep ==
  ASSUME BuildInv, NEW cfg \in Configs, NEW replace \in BOOLEAN, BeginBuild(cfg, replace)
  PROVE  BuildInv'
<1>1. /\ build = NoJob /\ builds < MaxBuilds /\ builds' = builds + 1
      /\ UNCHANGED <<take, source, out, tmp>>
  BY DEF BeginBuild
<1>2. builds' \in builds .. MaxBuilds /\ builds \in Nat /\ builds' \in 0 .. MaxBuilds
  BY <1>1 DEF BuildInv, BuildTypes
<1>3. tmp \in [state : {"none", "orphan"}, parts : SUBSET Parts]
  BY <1>1 DEF BuildInv, BuildTypes, OrderInv, NoJob
<1>4. CASE ConfigRefuses(cfg)
  <2>1. build' = NoJob /\ result'.kind = "raised"
    BY <1>4 DEF BeginBuild, End
  <2> QED  BY <1>1, <1>2, <1>3, <2>1, EndStep
<1>5. CASE ~ConfigRefuses(cfg)
  <2>1. build' = [pc |-> "inventory", cfg |-> cfg, replace |-> replace] /\ result' = result
    BY <1>5 DEF BeginBuild
  <2>2. build' \in Jobs(build') /\ build'.pc = "inventory" /\ build' # NoJob
    BY <2>1 DEF Jobs, NoJob
  <2>3. BuildTypes'
    BY <1>1, <1>2, <2>2 DEF BuildInv, BuildTypes, Roots
  <2>4. VersionsInv' /\ OrderInv' /\ AcceptedInv' /\ ReuseIsFresh'
    BY <1>1, <1>3, <2>1, <2>2 DEF BuildInv, VersionsInv, OrderInv, AcceptedInv, ReuseIsFresh, PublishedIsWhole,
       NotOlder, UpTo, NoJob
  <2>5. NewestInv'
    BY <1>1, <1>2, GenFacts DEF NewestInv, Past
  <2> QED  BY <2>3, <2>4, <2>5 DEF BuildInv
<1> QED  BY <1>4, <1>5

\* The inventory is what is there now, hence no older than what was read before.
LEMMA InventoryStep ==
  ASSUME BuildInv, Audit \/ TakeInventory
  PROVE  BuildInv'
<1>1. build.pc = "inventory" /\ UNCHANGED <<take, source, out, tmp, builds>>
  BY DEF Audit, TakeInventory
<1>2. build.cfg \in Configs /\ build.replace \in BOOLEAN /\ build # NoJob
  BY <1>1, JobFacts
<1>3. tmp \in [state : {"none", "orphan"}, parts : SUBSET Parts] /\ builds \in builds .. MaxBuilds
  BY <1>1 DEF BuildInv, BuildTypes, OrderInv
<1>4. CASE build' = NoJob
  <2>1. result'.kind = "raised"
    BY <1>4 DEF Audit, TakeInventory, End, NoJob
  <2> QED  BY <1>1, <1>3, <1>4, <2>1, EndStep
<1>5. CASE build' # NoJob
  <2>1. /\ build' = [pc |-> "marker", cfg |-> build.cfg, replace |-> build.replace,
                     fp |-> [cfg |-> build.cfg.id, versions |-> source], inv |-> source]
        /\ result' = result
    BY <1>5 DEF Audit, TakeInventory, End, Fingerprint, AuditInventory, SourceInventory
  <2>2. source \in Versions /\ [cfg |-> build.cfg.id, versions |-> source] \in Prints
    BY <1>2 DEF BuildInv, BuildTypes, Prints
  <2>3. build' \in Jobs(build') /\ build'.pc = "marker" /\ build'.inv = source /\ build'.fp.versions = source
    BY <1>2, <2>1, <2>2 DEF Jobs
  <2>4. BuildTypes'
    BY <1>1, <2>3 DEF BuildInv, BuildTypes, Roots
  <2>5. VersionsInv'
    BY <1>1, <2>2, <2>3, VersionsAreNumbers DEF BuildInv, VersionsInv, NotOlder, UpTo
  <2>6. OrderInv' /\ AcceptedInv' /\ NewestInv' /\ ReuseIsFresh'
    BY <1>1, <1>2, <2>1, <2>3 DEF BuildInv, OrderInv, AcceptedInv, NewestInv, ReuseIsFresh, PublishedIsWhole, Past
  <2> QED  BY <2>4, <2>5, <2>6 DEF BuildInv
<1> QED  BY <1>4, <1>5

\* A marker with the same fingerprint names the versions there now; what was
\* read is between the two.
LEMMA ReuseStep ==
  ASSUME BuildInv, Reuse
  PROVE  BuildInv'
<1>1. /\ build.pc = "marker" /\ out # NoRoot /\ out.fp = build.fp
      /\ build' = NoJob /\ result' = [kind |-> "reused", inv |-> build.inv, read |-> out.read]
      /\ UNCHANGED <<take, source, out, tmp, builds>>
  BY DEF Reuse, MarkerReuses, HasMarker
<1>2. /\ build \in JobShape /\ build # NoJob /\ out \in Roots(out)
  BY <1>1, JobFacts, RootFacts
<1>3. /\ build.fp.versions = build.inv /\ NotOlder(out.fp, out.read) /\ UpTo(out.read, build.inv)
  BY <1>1 DEF BuildInv, VersionsInv
<1>4. build.inv \in Versions /\ out.read \in Versions /\ DOMAIN build.inv = Episodes
  BY <1>2 DEF JobShape, Roots, Versions
<1>5. \A s \in Episodes : out.read[s] # 0 => out.read[s] = build.inv[s]
  BY <1>1, <1>3, <1>4, VersionsAreNumbers DEF NotOlder, UpTo
<1>6. ReuseIsFresh'
  BY <1>1, <1>4, <1>5 DEF ReuseIsFresh
<1>7. BuildTypes'
  BY <1>1 DEF BuildInv, BuildTypes, Jobs, Roots
<1>8. VersionsInv' /\ OrderInv' /\ AcceptedInv'
  BY <1>1 DEF BuildInv, VersionsInv, OrderInv, AcceptedInv, PublishedIsWhole, NoJob, NotOlder, UpTo
<1>9. NewestInv'
  BY <1>1, <1>2 DEF BuildInv, NewestInv, Past
<1> QED  BY <1>6, <1>7, <1>8, <1>9 DEF BuildInv

LEMMA ProceedStep ==
  ASSUME BuildInv, Proceed
  PROVE  BuildInv'
<1> DEFINE next == IF out = NoRoot THEN "mkdtemp" ELSE "rmtree"
<1>1. /\ build.pc = "marker" /\ (out = NoRoot \/ build.replace)
      /\ build' = [build EXCEPT !.pc = next]
      /\ UNCHANGED <<take, source, out, tmp, builds, result>>
  BY DEF Proceed, MarkerAllows
<1>2. build \in JobShape /\ next \in {"mkdtemp", "rmtree"} /\ build # NoJob
  BY <1>1, JobFacts
<1>3. /\ build' \in JobShape /\ build'.pc = next /\ build'.inv = build.inv
      /\ build'.fp = build.fp /\ build'.replace = build.replace
  BY <1>1, <1>2 DEF JobShape
<1>4. build' \in Jobs(build') /\ build' # NoJob
  BY <1>2, <1>3 DEF Jobs, JobShape, NoJob
<1>5. BuildTypes'
  BY <1>1, <1>4 DEF BuildInv, BuildTypes, Roots
<1>6. VersionsInv'
  BY <1>1, <1>2, <1>3 DEF BuildInv, VersionsInv, NotOlder, UpTo
<1>7. OrderInv' /\ AcceptedInv' /\ NewestInv' /\ ReuseIsFresh'
  BY <1>1, <1>2, <1>3, <1>4 DEF BuildInv, OrderInv, AcceptedInv, NewestInv, ReuseIsFresh, PublishedIsWhole, Past
<1> QED  BY <1>5, <1>6, <1>7 DEF BuildInv

\* rmtree: what is left keeps its name but not its parts.
LEMMA RemoveSomeStep ==
  ASSUME BuildInv, NEW left \in SUBSET Parts, RemoveSome(left)
  PROVE  BuildInv' /\ out' # NoRoot /\ out'.gen = out.gen /\ out'.cfg = out.cfg
<1>1. /\ build.pc = "rmtree" /\ left \subseteq out.parts
      /\ out' = [out EXCEPT !.parts = left, !.torn = TRUE]
      /\ UNCHANGED <<take, source, tmp, build, builds, result>>
  BY DEF RemoveSome
<1>2. out # NoRoot /\ out \in Roots(out)
  BY <1>1, RootFacts DEF BuildInv, OrderInv
<1>3. /\ out' \in Roots(out') /\ out'.gen = out.gen /\ out'.cfg = out.cfg /\ out'.fp = out.fp
      /\ out'.read = out.read /\ out'.kept = out.kept /\ out'.torn
  BY <1>1, <1>2 DEF Roots
<1>4. out' # NoRoot
  BY <1>3 DEF Roots, NoRoot
<1>5. BuildTypes'
  BY <1>1, <1>3 DEF BuildInv, BuildTypes, Jobs
<1>6. VersionsInv'
  BY <1>1, <1>2, <1>3 DEF BuildInv, VersionsInv, NotOlder, UpTo
<1>7. OrderInv' /\ NewestInv' /\ ReuseIsFresh'
  BY <1>1, <1>2, <1>3, <1>4 DEF BuildInv, OrderInv, NewestInv, ReuseIsFresh, PublishedIsWhole, Past
<1>8. AcceptedInv'
  BY <1>2, <1>3 DEF BuildInv, AcceptedInv, SplitOf, Included
<1> QED  BY <1>3, <1>4, <1>5, <1>6, <1>7, <1>8 DEF BuildInv

LEMMA RemoveRestStep ==
  ASSUME BuildInv, RemoveRest
  PROVE  BuildInv'
<1>1. /\ build.pc = "rmtree" /\ out' = NoRoot
      /\ build' = [build EXCEPT !.pc = "mkdtemp"]
      /\ UNCHANGED <<take, source, tmp, builds, result>>
  BY DEF RemoveRest
<1>2. build \in JobShape
  BY <1>1, JobFacts
<1>3. build' \in JobShape /\ build'.pc = "mkdtemp" /\ build'.inv = build.inv /\ build'.fp = build.fp
  BY <1>1, <1>2 DEF JobShape
<1>4. build' \in Jobs(build')
  BY <1>3 DEF Jobs, JobShape
<1>5. BuildTypes'
  BY <1>1, <1>4 DEF BuildInv, BuildTypes
<1>6. VersionsInv'
  BY <1>1, <1>3 DEF BuildInv, VersionsInv
<1>7. OrderInv' /\ AcceptedInv' /\ NewestInv' /\ ReuseIsFresh'
  <2>1. OrderInv' /\ AcceptedInv' /\ ReuseIsFresh'
    BY <1>1, <1>3 DEF BuildInv, OrderInv, AcceptedInv, ReuseIsFresh, PublishedIsWhole
  <2>2. 0 < builds'
    BY <1>1, JobFacts, GenFacts DEF Past
  <2>3. NewestInv'
    BY <1>1, <2>2, GenFacts DEF NewestInv, Past, NoRoot
  <2> QED  BY <2>1, <2>3
<1> QED  BY <1>5, <1>6, <1>7 DEF BuildInv

LEMMA PrepareStep ==
  ASSUME BuildInv, Prepare
  PROVE  BuildInv'
<1> DEFINE none == [s \in Sources |-> 0]
<1>1. /\ build.pc = "mkdtemp" /\ tmp' = [state |-> "open", parts |-> {}]
      /\ build' = [pc |-> "read", cfg |-> build.cfg, replace |-> build.replace, fp |-> build.fp,
                   inv |-> build.inv, at |-> 1, kept |-> {}, read |-> none]
      /\ UNCHANGED <<take, source, out, builds, result>>
  BY DEF Prepare
<1>2. build \in JobShape /\ build # NoJob /\ out = NoRoot
  BY <1>1, JobFacts DEF BuildInv, OrderInv
<1>3. none \in Versions /\ \A s \in Episodes : none[s] = 0
  BY DEF BuildInv, BuildTypes, Sources, Versions
<1> HIDE DEF none
<1>4. /\ build'.pc = "read" /\ build'.inv = build.inv /\ build'.fp = build.fp /\ build'.kept = {}
      /\ build'.read = none
  BY <1>1
<1>5. build' \in Jobs(build') /\ build' # NoJob
  BY <1>1, <1>2, <1>3 DEF Jobs, JobShape, NoJob
<1>6. BuildTypes'
  BY <1>1, <1>2, <1>5 DEF BuildInv, BuildTypes
<1>7. VersionsInv'
  BY <1>1, <1>2, <1>3, <1>4 DEF BuildInv, VersionsInv, NotOlder, UpTo
<1>9. OrderInv' /\ AcceptedInv' /\ NewestInv' /\ ReuseIsFresh'
  BY <1>1, <1>2, <1>4, <1>5 DEF BuildInv, OrderInv, AcceptedInv, NewestInv, ReuseIsFresh, PublishedIsWhole,
                                    Past
<1> QED  BY <1>6, <1>7, <1>9 DEF BuildInv

Took(c, b, x, v, k) ==
    /\ c \in ReadShape(c) /\ c.cfg = b.cfg /\ c.inv = b.inv /\ c.fp = b.fp /\ c.kept = k
    /\ c.read \in Versions
    /\ \A s \in Episodes : c.read[s] = IF s = x THEN v ELSE b.read[s]

LEMMA ReadRecord ==
  ASSUME NEW b, b \in ReadShape(b), NEW x, NEW v, NEW k, NEW c,
         x \in Episodes => v \in 0 .. MaxVersion,
         c = [b EXCEPT !.at = @ + 1, !.read[x] = v, !.kept = k]
  PROVE  Took(c, b, x, v, k)
<1> DEFINE n == b.at + 1
           r == [b.read EXCEPT ![x] = v]
           d == [b EXCEPT !.at = n, !.read = r, !.kept = k]
<1>1. n \in Nat \ {0}
  BY DEF ReadShape
<1>2. /\ r \in Versions
      /\ \A s \in Episodes : r[s] = IF s = x THEN v ELSE b.read[s]
  BY DEF ReadShape, Versions
<1> HIDE DEF n, r
<1>3. /\ DOMAIN b = {"pc", "cfg", "replace", "fp", "inv", "at", "kept", "read"}
      /\ b.pc = "read" /\ b.cfg \in Configs /\ b.replace \in BOOLEAN /\ b.fp \in Prints /\ b.inv \in Versions
  BY DEF ReadShape
<1>4. /\ DOMAIN d = {"pc", "cfg", "replace", "fp", "inv", "at", "kept", "read"}
      /\ d.pc = b.pc /\ d.cfg = b.cfg /\ d.replace = b.replace /\ d.fp = b.fp /\ d.inv = b.inv
      /\ d.at = n /\ d.kept = k /\ d.read = r
  BY <1>3
<1>9. c = d
  BY DEF d, n, r
<1>5. c = [f \in DOMAIN c |-> c[f]]
  OBVIOUS
<1> HIDE DEF d
<1>6. c = [pc |-> c.pc, cfg |-> c.cfg, replace |-> c.replace, fp |-> c.fp, inv |-> c.inv, at |-> c.at,
           kept |-> c.kept, read |-> c.read]
  BY <1>4, <1>5, <1>9
<1>7. c \in ReadShape(c)
  BY <1>1, <1>2, <1>3, <1>4, <1>6, <1>9 DEF ReadShape
<1> QED  BY <1>2, <1>4, <1>7, <1>9 DEF Took

\* What raises while the temporary root is open removes it.
LEMMA RaiseStep ==
  ASSUME BuildInv, Raise, UNCHANGED <<take, source, builds>>
  PROVE  BuildInv'
<1>1. build' = NoJob /\ result'.kind = "raised" /\ tmp' = NoTemp /\ out' = out
  BY DEF Raise, End, Cleanup
<1>2. tmp' \in [state : {"none", "orphan"}, parts : SUBSET Parts]
  BY <1>1 DEF NoTemp
<1>3. builds' \in builds .. MaxBuilds
  BY DEF BuildInv, BuildTypes
<1> QED  BY <1>1, <1>2, <1>3, EndStep

LEMMA ReadItemStep ==
  ASSUME BuildInv, ReadItem
  PROVE  BuildInv'
<1> DEFINE item == build.cfg.items[build.at]
           fate == Fate(build.cfg, item)
           kept == IF fate = "included" THEN build.kept \cup {item.id} ELSE build.kept
<1>1. build.pc = "read" /\ UNCHANGED <<take, source, builds>>
  BY DEF ReadItem
<1>2. CASE Raise
  BY <1>1, <1>2, RaiseStep
<1>3. CASE ~Raise
  <2>1. /\ build' = [build EXCEPT !.at = @ + 1, !.read[item.source] = source[item.source], !.kept = kept]
        /\ UNCHANGED <<result, tmp, out>>
    BY <1>3 DEF ReadItem
  <2>2. /\ build \in ReadShape(build) /\ build # NoJob /\ out = NoRoot
        /\ build.kept \subseteq Included(build.cfg) /\ source \in Versions
    BY <1>1, JobFacts DEF BuildInv, OrderInv, BuildTypes
  <2>3. kept \subseteq Included(build.cfg)
    <3>1. build.at \in DOMAIN build.cfg.items
      <4>1. build.cfg.items \in Manifest /\ build.at \in Nat \ {0}
        BY <2>2, ManifestAssumption DEF ReadShape, Manifest, Entry
      <4> QED  BY <4>1 DEF ReadItem, Manifest
    <3>2. fate = "included" => item.include
      BY DEF Fate, TrainingFate, BottleFate
    <3>3. fate = "included" => item.id \in Included(build.cfg)
      BY <3>1, <3>2 DEF Included
    <3> HIDE DEF fate, item
    <3> QED  BY <2>2, <3>3
  <2> HIDE DEF kept, fate
  <2>4. item.source \in Episodes => source[item.source] \in 0 .. MaxVersion
    BY <2>2 DEF Versions
  <2> HIDE DEF item
  <2>5. /\ build' \in ReadShape(build') /\ build'.cfg = build.cfg /\ build'.inv = build.inv /\ build'.fp = build.fp
        /\ build'.kept = kept /\ build'.read \in Versions
        /\ \A s \in Episodes : build'.read[s] = IF s = item.source THEN source[item.source] ELSE build.read[s]
    <3>1. build' = [build EXCEPT !.at = @ + 1, !.read[item.source] = source[item.source], !.kept = kept]
      BY <2>1, Zenon
    <3>2. build \in ReadShape(build)
      BY <2>2
    <3>3. Took(build', build, item.source, source[item.source], kept)
      BY ONLY <2>4, <3>1, <3>2, ReadRecord, Zenon
    <3> QED  BY <3>3 DEF Took
  <2>6. build'.pc = "read" /\ build' # NoJob /\ build' \in Jobs(build')
    BY <2>5 DEF ReadShape, NoJob, Jobs
  <2>7. BuildTypes'
    BY <1>1, <2>1, <2>2, <2>6 DEF BuildInv, BuildTypes
  <2>8. VersionsInv'
    <3>1. /\ build.fp.versions = build.inv /\ \A s \in Episodes : build.inv[s] <= source[s]
          /\ NotOlder(build.fp, build.read) /\ UpTo(build.read, source)
      BY <1>1 DEF BuildInv, VersionsInv
    <3>2. \A s \in Episodes : build'.read[s] \in {build.read[s], source[s]}
      BY <2>5
    <3>3. NotOlder(build.fp, build'.read)
      BY <3>1, <3>2 DEF NotOlder
    <3>4. UpTo(build'.read, source)
      <4>1. \A s \in Episodes : source[s] <= source[s]
        BY <2>2, VersionsAreNumbers
      <4> QED  BY <3>1, <3>2, <4>1 DEF UpTo
    <3> QED  BY <1>1, <2>1, <2>2, <2>5, <2>6, <3>1, <3>3, <3>4 DEF VersionsInv, NotOlder, UpTo
  <2>9. OrderInv' /\ AcceptedInv' /\ NewestInv' /\ ReuseIsFresh'
    BY <1>1, <2>1, <2>2, <2>3, <2>5, <2>6 DEF BuildInv, OrderInv, AcceptedInv, NewestInv, ReuseIsFresh,
                                              PublishedIsWhole, Past, Included
  <2> QED  BY <2>7, <2>8, <2>9 DEF BuildInv
<1> QED  BY <1>2, <1>3

LEMMA WritePartStep ==
  ASSUME BuildInv, WritePart
  PROVE  BuildInv'
<1>1. /\ build.pc = "read" /\ UNCHANGED <<take, source, out, build, builds, result>>
      /\ tmp' = [tmp EXCEPT !.parts = @ \cup {NextPart(@)}]
  BY DEF WritePart
<1>2. tmp' \in [state : {"none", "open", "orphan"}, parts : SUBSET Parts] /\ tmp'.state = tmp.state
  BY <1>1 DEF BuildInv, BuildTypes, NextPart, Parts
<1>3. BuildTypes'
  BY <1>1, <1>2 DEF BuildInv, BuildTypes, Jobs, Roots
<1>4. VersionsInv' /\ OrderInv' /\ AcceptedInv' /\ NewestInv' /\ ReuseIsFresh'
  BY <1>1, <1>2 DEF BuildInv, VersionsInv, OrderInv, AcceptedInv, NewestInv, ReuseIsFresh, PublishedIsWhole,
                    Past, NotOlder, UpTo
<1> QED  BY <1>3, <1>4 DEF BuildInv

LEMMA PublishRootStep ==
  ASSUME BuildInv, PublishRoot
  PROVE  BuildInv' /\ out'.gen = builds
<1>1. /\ build.pc = "read" /\ ~BuildRefuses /\ build.at > Len(build.cfg.items) /\ tmp.parts = Parts
      /\ out' = [gen |-> builds, cfg |-> build.cfg, fp |-> build.fp, read |-> build.read,
                 kept |-> build.kept, parts |-> tmp.parts, torn |-> FALSE]
      /\ tmp' = NoTemp /\ build' = NoJob /\ result' = [kind |-> "built"]
      /\ UNCHANGED <<take, source, builds>>
  BY DEF PublishRoot, ReadyToPublish, End
<1>2. build \in ReadShape(build) /\ build # NoJob /\ build.kept \subseteq Included(build.cfg)
  BY <1>1, JobFacts DEF BuildInv, OrderInv
<1>3. builds \in Nat \ {0}
  BY <1>2 DEF BuildInv, BuildTypes, NewestInv, Past, Roots, NoRoot
<1>4. /\ out'.gen = builds /\ out'.cfg = build.cfg /\ out'.fp = build.fp /\ out'.read = build.read
      /\ out'.kept = build.kept /\ out'.parts = Parts
  BY <1>1
<1>5. out' \in Roots(out') /\ out' # NoRoot
  BY <1>1, <1>2, <1>3 DEF Roots, ReadShape, NoRoot
<1>6. BuildTypes'
  BY <1>1, <1>5 DEF BuildInv, BuildTypes, Jobs, NoTemp
<1>7. VersionsInv'
  BY <1>1, <1>4 DEF BuildInv, VersionsInv, NoJob, NotOlder, UpTo
<1>8. OrderInv' /\ ReuseIsFresh'
  BY <1>1, <1>4 DEF BuildInv, OrderInv, ReuseIsFresh, PublishedIsWhole, NoJob, NoTemp
<1>9. AcceptedInv'
  <2>1. /\ build.kept # {} /\ ~SegmentSplitsRefuse(build.cfg)
        /\ build.cfg.kind = "training" => SplitsAccepted(build.cfg.splits, Included(build.cfg))
        /\ build.cfg.kind \in {"training", "bottle"}
    BY <1>1, <1>2 DEF BuildRefuses, PrepareRefuses, ReadShape
  <2>2. /\ SplitsAccepted(build.cfg.splits, Included(build.cfg))
        /\ build.cfg.kind = "bottle" =>
             GroupsAccepted(build.cfg.declared, build.cfg.groups, Included(build.cfg),
                            [id \in Included(build.cfg) |-> SplitOf(build.cfg, id)])
    BY <2>1 DEF SegmentSplitsRefuse
  <2>3. AcceptedInv' <=>
          (out' # NoRoot =>
             /\ SplitsAccepted(out'.cfg.splits, Included(out'.cfg))
             /\ out'.cfg.kind = "bottle" =>
                  GroupsAccepted(out'.cfg.declared, out'.cfg.groups, Included(out'.cfg),
                                 [id \in Included(out'.cfg) |-> SplitOf(out'.cfg, id)])
             /\ out'.kept \subseteq Included(out'.cfg) /\ out'.kept # {})
    BY DEF AcceptedInv, Included, SplitOf
  <2> QED  BY <1>2, <1>4, <2>1, <2>2, <2>3
<1>10. NewestInv'
  BY <1>1, <1>3, <1>4 DEF NewestInv, Past
<1> QED  BY <1>4, <1>6, <1>7, <1>8, <1>9, <1>10 DEF BuildInv

\* What ends a build without one of the steps above.
LEMMA StopStep ==
  ASSUME BuildInv, RefuseExisting \/ BuildKilled \/ RaiseRefused \/ BuildRaises
  PROVE  BuildInv'
<1>1. CASE RaiseRefused \/ BuildRaises
  <2>1. Raise /\ UNCHANGED <<take, source, builds>>
    BY <1>1 DEF RaiseRefused, BuildRaises
  <2> QED  BY <2>1, RaiseStep
<1>2. CASE RefuseExisting \/ BuildKilled
  <2>1. /\ build' = NoJob /\ result'.kind # "reused" /\ UNCHANGED <<take, source, out, builds>>
        /\ build # NoJob \/ build.pc = "marker"
        /\ tmp' \in {tmp, [tmp EXCEPT !.state = "orphan"]}
        /\ build.pc = "read" => tmp' = [tmp EXCEPT !.state = "orphan"]
    BY <1>2 DEF RefuseExisting, BuildKilled, End
  <2>2. tmp' \in [state : {"none", "orphan"}, parts : SUBSET Parts]
    BY <2>1 DEF BuildInv, BuildTypes, OrderInv
  <2>3. builds' \in builds .. MaxBuilds
    BY <2>1 DEF BuildInv, BuildTypes
  <2> QED  BY <2>1, <2>2, <2>3, EndStep
<1> QED  BY <1>1, <1>2

LEMMA BuildStep == BuildInv /\ BuildNext => BuildInv'
<1> SUFFICES ASSUME BuildInv, BuildNext PROVE BuildInv'
  OBVIOUS
<1>1. ASSUME NEW left \in SUBSET Parts, RemoveSome(left) PROVE BuildInv'
  BY <1>1, RemoveSomeStep
<1>2. CASE PublishRoot
  BY <1>2, PublishRootStep
<1> QED  BY <1>1, <1>2, BeginBuildStep, InventoryStep, ReuseStep, ProceedStep, RemoveRestStep, PrepareStep,
            ReadItemStep, WritePartStep, StopStep DEF BuildNext

LEMMA BuildStutter == BuildInv /\ UNCHANGED <<take, source, out, tmp, build, builds, result>> => BuildInv'
<1> SUFFICES ASSUME BuildInv, UNCHANGED <<take, source, out, tmp, build, builds, result>> PROVE BuildInv'
  OBVIOUS
<1>1. BuildTypes'
  BY DEF BuildInv, BuildTypes, Jobs, Roots
<1>2. VersionsInv' /\ OrderInv' /\ NewestInv' /\ ReuseIsFresh'
  BY DEF BuildInv, VersionsInv, OrderInv, NewestInv, ReuseIsFresh, PublishedIsWhole, Past, NotOlder, UpTo
<1>3. AcceptedInv'
  BY DEF BuildInv, AcceptedInv
<1> QED  BY <1>1, <1>2, <1>3 DEF BuildInv

\* A whole output root changes only under --replace.
LEMMA OverwriteStep ==
  ASSUME BuildInv, BuildNext, out # NoRoot, ~out.torn, out' # out
  PROVE  build.replace
<1>1. build.pc \in {"mkdtemp", "read"} => FALSE
  BY DEF BuildInv, OrderInv
<1>2. build.pc = "rmtree" => build.replace
  BY DEF BuildInv, OrderInv
<1>3. build.pc \in {"rmtree", "read", "mkdtemp"}
  BY DEF BuildNext, BeginBuild, Audit, TakeInventory, Reuse, RefuseExisting, Proceed, RemoveSome, RemoveRest,
         Prepare, ReadItem, Raise, RaiseRefused, WritePart, PublishRoot, BuildRaises, BuildKilled
<1> QED  BY <1>1, <1>2, <1>3

------------------------------------------------------------------------------
(* What the views show of the master *)

\* A build that was once in place: not newer than the one there now.
Seen(g) == g \in Nat \ {0} /\ Past(g) /\ (out # NoRoot => g <= out.gen)

\* A copy of the master: of a build that was in place, and if it still is, of
\* what is there.
Genuine(s) ==
    /\ s = [gen |-> s.gen, index |-> s.index] /\ s.gen \in Nat
    /\ s.gen # 0 => Seen(s.gen)
    /\ out # NoRoot /\ out.gen = s.gen => out.cfg.kind = "bottle" /\ s.index = MasterIndex(out.cfg)

\* A copy that was read after the one that is named.
After(named, copy) ==
    named.gen <= copy.gen /\ (copy.gen = named.gen => copy.index = named.index)

Naming == view.pc \in {"manifest", "check"} \/ (view.pc = "list" /\ view.tool = "openpi")
NamingInv ==
    Naming => /\ DOMAIN view = {"pc", "tool", "master"} /\ view.tool = "openpi"
              /\ Genuine(view.master) /\ view.master.gen # 0
CopyInv ==
    view.pc = "copy" =>
        /\ DOMAIN view = {"pc", "tool", "listed", "master", "seen", "picked", "todo"}
        /\ view.tool \in {"lerobot", "openpi"}
        /\ Genuine(view.master)
        /\ view.tool = "lerobot" /\ view.master # NoMaster => view.master.index # <<>>
        /\ \A copy \in view.seen : Genuine(copy) /\ copy.gen # 0 /\ After(view.master, copy)
        /\ view.tool = "openpi" =>
             /\ view.master.gen # 0 /\ Genuine(view.listed) /\ After(view.master, view.listed)
             /\ view.picked \subseteq DOMAIN view.listed.index
ReturnedInv ==
    viewOut # NoRoot /\ viewOut.returned =>
        /\ viewOut.tool = "openpi" =>
             /\ viewOut.provenance /\ viewOut.seen \cup {viewOut.listed} = {viewOut.master}
             /\ Genuine(viewOut.master) /\ viewOut.master.gen # 0
             /\ viewOut.picked \subseteq DOMAIN viewOut.listed.index
        /\ viewOut.tool = "lerobot" /\ viewOut.master # NoMaster =>
             /\ viewOut.provenance /\ viewOut.master.index # <<>>
             /\ \A copy \in viewOut.seen :
                   \/ copy.index = viewOut.master.index
                   \/ viewOut.master.gen < copy.gen /\ copy.gen < viewOut.again.gen
ViewInv == NamingInv /\ CopyInv /\ ReturnedInv

LEMMA ViewInitInv == TrainInit => ViewInv
  BY DEF TrainInit, ViewInv, NamingInv, Naming, CopyInv, ReturnedInv, NoJob, NoRoot

\* A step that keeps what is known of the copies and leaves the views alone.
LEMMA ViewFrame ==
  ASSUME ViewInv, UNCHANGED <<view, viewOut>>, \A s : Genuine(s) => Genuine(s)'
  PROVE  ViewInv'
<1>1. NamingInv'
  BY DEF ViewInv, NamingInv, Naming
<1>2. CopyInv'
  BY DEF ViewInv, CopyInv, After
<1>3. ReturnedInv'
  BY DEF ViewInv, ReturnedInv
<1> QED  BY <1>1, <1>2, <1>3 DEF ViewInv

\* No step of a materializer makes an earlier build look like the one in place.
LEMMA ViewUnderBuild ==
  ASSUME BuildInv, ViewInv, BuildNext \/ \E s \in Sources : SourceChanges(s)
  PROVE  ViewInv'
<1>1. UNCHANGED <<view, viewOut>>
  BY DEF BuildNext, BeginBuild, Audit, TakeInventory, Reuse, RefuseExisting, Proceed, RemoveSome, RemoveRest,
         Prepare, ReadItem, RaiseRefused, WritePart, PublishRoot, BuildRaises, BuildKilled, SourceChanges
<1>2. builds \in Nat /\ out.gen \in Nat
  BY GenFacts
<1>3. \A g \in Nat : Past(g) => Past(g)'
  <2>1. CASE \E cfg \in Configs, replace \in BOOLEAN : BeginBuild(cfg, replace)
    <3>1. builds' = builds + 1
      BY <2>1 DEF BeginBuild
    <3> QED  BY <1>2, <3>1 DEF Past
  <2>2. CASE ~ \E cfg \in Configs, replace \in BOOLEAN : BeginBuild(cfg, replace)
    <3>1. builds' = builds /\ (build = NoJob => build' = NoJob)
      BY <2>2, JobFacts DEF BuildNext, Audit, TakeInventory, Reuse, RefuseExisting, Proceed, RemoveSome, RemoveRest,
         Prepare, ReadItem, RaiseRefused, WritePart, PublishRoot, BuildRaises, BuildKilled, SourceChanges, NoJob
    <3> QED  BY <3>1 DEF Past
  <2> QED  BY <2>1, <2>2
<1>4. \/ out' = out
      \/ out' = NoRoot
      \/ out # NoRoot /\ out'.gen = out.gen /\ out'.cfg = out.cfg
      \/ build # NoJob /\ out'.gen = builds /\ builds # 0
  <2>1. ASSUME NEW left \in SUBSET Parts, RemoveSome(left)
        PROVE  out # NoRoot /\ out'.gen = out.gen /\ out'.cfg = out.cfg
    BY <2>1, RemoveSomeStep DEF RemoveSome, BuildInv, OrderInv
  <2>2. CASE PublishRoot
    <3>1. build # NoJob /\ out'.gen = builds
      BY <2>2, PublishRootStep, JobFacts DEF PublishRoot
    <3>2. builds # 0
      BY <1>2, <3>1, GenFacts DEF Past
    <3> QED  BY <3>1, <3>2
  <2>3. CASE RemoveRest
    BY <2>3 DEF RemoveRest
  <2> QED  BY <2>1, <2>2, <2>3 DEF BuildNext, BeginBuild, Audit, TakeInventory, Reuse, RefuseExisting, Proceed,
           Prepare, ReadItem, Raise, RaiseRefused, WritePart, BuildRaises, BuildKilled, SourceChanges
<1>5. \A g \in Nat \ {0} : Seen(g) => Seen(g)'
  BY <1>2, <1>3, <1>4 DEF Seen, Past
<1>6. ASSUME NEW s, Genuine(s) PROVE Genuine(s)'
  <2>1. s = [gen |-> s.gen, index |-> s.index] /\ s.gen \in Nat /\ (s.gen # 0 => Seen(s.gen)')
    BY <1>5, <1>6 DEF Genuine
  <2>2. ASSUME out' # NoRoot, out'.gen = s.gen
        PROVE  out'.cfg.kind = "bottle" /\ s.index = MasterIndex(out'.cfg)
    <3>1. CASE out' = out \/ (out # NoRoot /\ out'.gen = out.gen /\ out'.cfg = out.cfg)
      BY <1>6, <2>2, <3>1 DEF Genuine
    <3>2. CASE build # NoJob /\ out'.gen = builds /\ builds # 0
      <4>1. s.gen < builds
        BY <1>6, <2>2, <3>2 DEF Genuine, Seen, Past
      <4> QED  BY <1>2, <2>1, <2>2, <3>2, <4>1
    <3> QED  BY <1>4, <2>2, <3>1, <3>2
  <2> QED  BY <2>1, <2>2 DEF Genuine, MasterIndex
<1> QED  BY <1>1, <1>6, ViewFrame

\* What a view builder is told by the master it has in front of it.
LEMMA MasterFacts ==
  ASSUME BuildInv
  PROVE  /\ Genuine(Master)
         /\ ~HasData => Master = NoMaster
         /\ HasData => /\ out # NoRoot /\ out.gen \in Nat \ {0} /\ Master.gen = out.gen
                       /\ Master.index = MasterIndex(out.cfg) /\ Master.index # <<>>
         /\ Master.gen # 0 \/ Master.index # <<>> => HasData
<1>1. CASE HasData
  <2>1. out # NoRoot /\ out.cfg.kind = "bottle" /\ Master = [gen |-> out.gen, index |-> MasterIndex(out.cfg)]
    BY <1>1 DEF HasData, Master
  <2>2. out.gen \in Nat \ {0} /\ Past(out.gen)
    BY <2>1, RootFacts, GenFacts
  <2>3. MasterIndex(out.cfg) # <<>>
    <3> DEFINE items == out.cfg.items
               keep == {i \in DOMAIN items : items[i].include}
    <3>1. items \in Manifest
      BY <2>1, RootFacts, ManifestAssumption DEF Roots, Manifest, Entry
    <3>2. out.kept \subseteq Included(out.cfg) /\ out.kept # {}
      BY <2>1 DEF BuildInv, AcceptedInv
    <3>3. \E i \in keep : i \in DOMAIN items
      BY <3>2 DEF Included
    <3>4. MasterIndex(out.cfg) = Selected(items, keep)
      BY DEF MasterIndex
    <3> HIDE DEF items, keep
    <3> QED  BY <3>1, <3>3, <3>4, SomeSelected DEF Manifest
  <2>4. Seen(out.gen)
    BY <2>1, <2>2 DEF Seen
  <2>5. Genuine(Master)
    BY <2>1, <2>2, <2>4 DEF Genuine
  <2> QED  BY <1>1, <2>1, <2>2, <2>3, <2>5
<1>2. CASE ~HasData
  <2>1. Master = NoMaster
    BY <1>2 DEF Master
  <2>2. out # NoRoot => out.gen # 0
    BY RootFacts
  <2>3. NoMaster.gen = 0 /\ NoMaster.index = <<>>
    BY DEF NoMaster
  <2>4. Genuine(NoMaster)
    BY <2>2, <2>3 DEF Genuine, NoMaster
  <2> QED  BY <1>2, <2>1, <2>3, <2>4
<1> QED  BY <1>1, <1>2

\* What is read now was read after any copy.
LEMMA MasterIsLater ==
  ASSUME BuildInv, NEW named, Genuine(named), HasData
  PROVE  After(named, Master)
<1>1. /\ out # NoRoot /\ out.gen \in Nat \ {0} /\ Master.gen = out.gen
      /\ Master.index = MasterIndex(out.cfg)
  BY MasterFacts
<1>2. named.gen \in Nat /\ (named.gen # 0 => named.gen <= out.gen)
  BY <1>1 DEF Genuine, Seen
<1> QED  BY <1>1, <1>2 DEF After, Genuine

\* The steps of a view builder read the master, and nothing else changes.
LEMMA ViewReads ==
  ASSUME UNCHANGED <<take, source, out, tmp, build, builds, result>>
  PROVE  (\A s : Genuine(s)' <=> Genuine(s)) /\ (Master' = Master) /\ (HasData' <=> HasData)
<1>1. \A g : Seen(g)' <=> Seen(g)
  BY DEF Seen, Past
<1> QED  BY <1>1 DEF Genuine, Master, HasData, MasterIndex

\* The steps before the first episode is read.
LEMMA NamingStep ==
  ASSUME BuildInv, ViewInv,
         \/ \E replace \in BOOLEAN : BeginLeRobotView(replace)
         \/ ListEpisodes \/ BeginOpenpiView \/ WriteAudited \/ CheckManifest
  PROVE  ViewInv'
<1>1. UNCHANGED <<take, source, out, tmp, build, builds, result>>
  BY DEF BeginLeRobotView, ListEpisodes, BeginOpenpiView, WriteAudited, CheckManifest
<1>2. \A s : Genuine(s)' <=> Genuine(s)
  BY <1>1, ViewReads
<1>3. /\ view'.pc # "copy"
      /\ viewOut' = viewOut \/ viewOut' = NoRoot
      /\ Naming' => /\ DOMAIN view' = {"pc", "tool", "master"} /\ view'.tool = "openpi"
                    /\ Genuine(view'.master) /\ view'.master.gen # 0
  <2>1. CASE \E replace \in BOOLEAN : BeginLeRobotView(replace)
    <3>1. viewOut' = NoRoot /\ view' = [pc |-> "list", tool |-> "lerobot"]
      BY <2>1 DEF BeginLeRobotView
    <3> QED  BY <3>1 DEF Naming
  <2>2. CASE ListEpisodes
    <3>1. viewOut' = viewOut /\ view' = [pc |-> "hash", tool |-> "lerobot", listed |-> Master]
      BY <2>2 DEF ListEpisodes
    <3> QED  BY <3>1 DEF Naming
  <2>3. CASE BeginOpenpiView
    <3>1. HasData /\ viewOut' = viewOut /\ view' = [pc |-> "manifest", tool |-> "openpi", master |-> Master]
      BY <2>3 DEF BeginOpenpiView
    <3>2. Genuine(Master) /\ Master.gen # 0
      BY <3>1, MasterFacts
    <3> QED  BY <3>1, <3>2 DEF Naming
  <2>4. CASE WriteAudited \/ CheckManifest
    <3>1. Naming /\ viewOut' = viewOut /\ (view' = NoJob \/ \E pc \in {"check", "list"} : view' = [view EXCEPT !.pc = pc])
      BY <2>4 DEF WriteAudited, CheckManifest, Naming
    <3>2. /\ DOMAIN view = {"pc", "tool", "master"} /\ view.tool = "openpi"
          /\ Genuine(view.master) /\ view.master.gen # 0
      BY <3>1 DEF ViewInv, NamingInv
    <3>3. CASE view' = NoJob
      BY <3>1, <3>3 DEF NoJob, Naming
    <3>4. CASE \E pc \in {"check", "list"} : view' = [view EXCEPT !.pc = pc]
      BY <3>1, <3>2, <3>4
    <3> QED  BY <3>1, <3>3, <3>4
  <2> QED  BY <2>1, <2>2, <2>3, <2>4
<1>4. NamingInv' /\ CopyInv'
  BY <1>2, <1>3 DEF NamingInv, CopyInv
<1>5. ReturnedInv'
  BY <1>2, <1>3 DEF ViewInv, ReturnedInv
<1> QED  BY <1>4, <1>5 DEF ViewInv

LEMMA BeginCopyStep ==
  ASSUME BuildInv, ViewInv, HashMaster \/ \E name \in {"train", "val"} : ListSplit(name)
  PROVE  ViewInv'
<1>1. UNCHANGED <<take, source, out, tmp, build, builds, result, viewOut>>
  BY DEF HashMaster, ListSplit
<1>2. (\A s : Genuine(s)' <=> Genuine(s)) /\ Genuine(Master)
  BY <1>1, ViewReads, MasterFacts
<1>3. CASE HashMaster
  <2>1. \E listed, picked, todo :
           view' = [pc |-> "copy", tool |-> "lerobot", listed |-> listed, master |-> Master, seen |-> {},
                    picked |-> picked, todo |-> todo]
    BY <1>3 DEF HashMaster
  <2>2. Master # NoMaster => Master.index # <<>>
    BY MasterFacts
  <2>3. CopyInv' /\ NamingInv'
    <3>1. /\ DOMAIN view' = {"pc", "tool", "listed", "master", "seen", "picked", "todo"} /\ view'.pc = "copy"
          /\ view'.tool = "lerobot" /\ view'.master = Master /\ view'.seen = {}
      BY <2>1
    <3> QED  BY <1>2, <2>2, <3>1 DEF CopyInv, NamingInv, Naming
  <2> QED  BY <1>1, <1>2, <2>3 DEF ViewInv, ReturnedInv
<1>4. CASE \E name \in {"train", "val"} : ListSplit(name)
  <2>1. /\ Naming /\ HasData
        /\ \E picked, todo :
              /\ picked \subseteq DOMAIN Master.index
              /\ view' = [pc |-> "copy", tool |-> "openpi", listed |-> Master, master |-> view.master, seen |-> {},
                          picked |-> picked, todo |-> todo]
    BY <1>4 DEF ListSplit, Naming
  <2>2. Genuine(view.master) /\ view.master.gen # 0
    BY <2>1 DEF ViewInv, NamingInv
  <2>3. After(view.master, Master)
    BY <2>1, <2>2, MasterIsLater
  <2>4. CopyInv' /\ NamingInv'
    <3>1. /\ DOMAIN view' = {"pc", "tool", "listed", "master", "seen", "picked", "todo"} /\ view'.pc = "copy"
          /\ view'.tool = "openpi" /\ view'.listed = Master /\ view'.master = view.master /\ view'.seen = {}
          /\ view'.picked \subseteq DOMAIN Master.index
      BY <2>1
    <3> QED  BY <1>2, <2>2, <2>3, <3>1 DEF CopyInv, NamingInv, Naming, After
  <2> QED  BY <1>1, <1>2, <2>4 DEF ViewInv, ReturnedInv
<1> QED  BY <1>3, <1>4

LEMMA CopyStep ==
  ASSUME BuildInv, ViewInv, CopyEpisode \/ LinkEpisode
  PROVE  ViewInv'
<1>1. /\ view.pc = "copy" /\ HasData
      /\ view' = [view EXCEPT !.seen = @ \cup {Master}, !.todo = Tail(@)]
      /\ UNCHANGED <<take, source, out, tmp, build, builds, result, viewOut>>
  BY DEF CopyEpisode, LinkEpisode, Reads
<1>2. (\A s : Genuine(s)' <=> Genuine(s)) /\ Genuine(Master) /\ Master.gen # 0
  BY <1>1, ViewReads, MasterFacts
<1>3. /\ DOMAIN view = {"pc", "tool", "listed", "master", "seen", "picked", "todo"} /\ Genuine(view.master)
      /\ \A copy \in view.seen : Genuine(copy) /\ copy.gen # 0 /\ After(view.master, copy)
  BY <1>1 DEF ViewInv, CopyInv
<1>4. After(view.master, Master)
  BY <1>1, <1>3, MasterIsLater
<1>5. /\ view'.pc = view.pc /\ DOMAIN view' = DOMAIN view /\ view'.tool = view.tool /\ view'.master = view.master
      /\ view'.listed = view.listed /\ view'.picked = view.picked /\ view'.seen = view.seen \cup {Master}
  BY <1>1, <1>3
<1>6. \A copy \in view'.seen : Genuine(copy) /\ copy.gen # 0 /\ After(view.master, copy)
  BY <1>2, <1>3, <1>4, <1>5
<1>7. NamingInv' /\ ReturnedInv'
  BY <1>1, <1>2, <1>5 DEF ViewInv, NamingInv, Naming, ReturnedInv
<1>8. CopyInv'
  BY <1>1, <1>2, <1>5, <1>6 DEF ViewInv, CopyInv, After
<1> QED  BY <1>7, <1>8 DEF ViewInv

\* The openpi tool finds the build it started from, so everything it read was
\* of that one.
LEMMA OneBuild ==
  ASSUME BuildInv, ViewInv, view.pc = "copy", view.tool = "openpi", Unchanged(view)
  PROVE  view.seen \cup {view.listed} = {view.master}
<1>1. /\ Genuine(view.master) /\ view.master.gen # 0 /\ Genuine(view.listed) /\ After(view.master, view.listed)
      /\ \A copy \in view.seen : Genuine(copy) /\ After(view.master, copy)
  BY DEF ViewInv, CopyInv
<1>2. Master.gen = view.master.gen
  BY DEF Unchanged
<1>3. out # NoRoot /\ out.gen = view.master.gen
  BY <1>1, <1>2, MasterFacts
<1>4. ASSUME NEW s, Genuine(s), After(view.master, s) PROVE s = view.master
  <2>1. s.gen \in Nat /\ s.gen # 0 /\ s.gen <= out.gen /\ view.master.gen \in Nat
    BY <1>1, <1>3, <1>4 DEF Genuine, Seen, After
  <2>2. s.gen = view.master.gen /\ s.index = view.master.index
    BY <1>3, <1>4, <2>1 DEF After
  <2>3. s = [gen |-> s.gen, index |-> s.index] /\ view.master = [gen |-> view.master.gen, index |-> view.master.index]
    BY <1>1, <1>4 DEF Genuine
  <2> QED  BY <2>2, <2>3
<1> QED  BY <1>1, <1>4

\* The LeRobot tool finds the content it hashed: what it read in between is of
\* that content, or of a build that has come and gone.
LEMMA OneContent ==
  ASSUME BuildInv, ViewInv, view.pc = "copy", view.tool = "lerobot", Unchanged(view),
         view.master # NoMaster, NEW copy \in view.seen
  PROVE  \/ copy.index = view.master.index
         \/ view.master.gen < copy.gen /\ copy.gen < Master.gen
<1>1. /\ Genuine(view.master) /\ view.master.index # <<>>
      /\ Genuine(copy) /\ copy.gen # 0 /\ After(view.master, copy)
  BY DEF ViewInv, CopyInv
<1>2. Master.index = view.master.index
  BY DEF Unchanged
<1>3. out # NoRoot /\ out.gen = Master.gen /\ out.gen \in Nat /\ Master.index = MasterIndex(out.cfg)
  BY <1>1, <1>2, MasterFacts
<1>4. copy.gen \in Nat /\ view.master.gen \in Nat /\ copy.gen <= Master.gen /\ view.master.gen <= copy.gen
  BY <1>1, <1>3 DEF Genuine, Seen, After
<1>5. CASE copy.gen = Master.gen
  BY <1>1, <1>2, <1>3, <1>5 DEF Genuine
<1>6. CASE copy.gen = view.master.gen
  BY <1>1, <1>6 DEF After
<1>7. (copy.gen < Master.gen /\ view.master.gen < copy.gen) \/ copy.gen = Master.gen \/ copy.gen = view.master.gen
  <2>1. Master.gen \in Nat
    BY <1>3
  <2> QED  BY <1>4, <2>1
<1> QED  BY <1>5, <1>6, <1>7

LEMMA FinishViewStep ==
  ASSUME BuildInv, ViewInv, FinishView \/ ViewStops
  PROVE  ViewInv'
<1>1. UNCHANGED <<take, source, out, tmp, build, builds, result>> /\ view' = NoJob
  BY DEF FinishView, ViewStops
<1>2. \A s : Genuine(s)' <=> Genuine(s)
  BY <1>1, ViewReads
<1>3. NamingInv' /\ CopyInv'
  BY <1>1 DEF NamingInv, Naming, CopyInv, NoJob
<1>4. CASE FinishView
  <2>1. view.pc = "copy" /\ viewOut' = Finished(view, Unchanged(view) \/ view.tool = "openpi", Unchanged(view))
    BY <1>4 DEF FinishView
  <2>2. /\ viewOut'.tool = view.tool /\ viewOut'.listed = view.listed /\ viewOut'.master = view.master
        /\ viewOut'.seen = view.seen /\ viewOut'.picked = view.picked /\ viewOut'.again = Master
        /\ viewOut'.provenance = (Unchanged(view) \/ view.tool = "openpi") /\ viewOut'.returned = Unchanged(view)
    BY <2>1 DEF Finished
  <2>3. ASSUME Unchanged(view), view.tool = "openpi"
        PROVE  /\ viewOut'.provenance /\ viewOut'.seen \cup {viewOut'.listed} = {viewOut'.master}
               /\ Genuine(viewOut'.master) /\ viewOut'.master.gen # 0
               /\ viewOut'.picked \subseteq DOMAIN viewOut'.listed.index
    <3>1. view.seen \cup {view.listed} = {view.master}
      BY <2>1, <2>3, OneBuild
    <3>2. Genuine(view.master) /\ view.master.gen # 0 /\ view.picked \subseteq DOMAIN view.listed.index
      BY <2>1, <2>3 DEF ViewInv, CopyInv
    <3> QED  BY <2>2, <2>3, <3>1, <3>2
  <2>4. ASSUME Unchanged(view), view.tool = "lerobot", view.master # NoMaster
        PROVE  /\ viewOut'.provenance /\ viewOut'.master.index # <<>>
               /\ \A copy \in viewOut'.seen :
                     \/ copy.index = viewOut'.master.index
                     \/ viewOut'.master.gen < copy.gen /\ copy.gen < viewOut'.again.gen
    <3>1. view.master.index # <<>>
      BY <2>1, <2>4 DEF ViewInv, CopyInv
    <3>2. \A copy \in view.seen : copy.index = view.master.index
                                    \/ (view.master.gen < copy.gen /\ copy.gen < Master.gen)
      BY <2>1, <2>4, OneContent
    <3> QED  BY <2>2, <2>4, <3>1, <3>2
  <2>5. ReturnedInv'
    BY <1>2, <2>2, <2>3, <2>4 DEF ReturnedInv
  <2> QED  BY <1>3, <2>5 DEF ViewInv
<1>5. CASE ViewStops
  <2>1. viewOut' = viewOut \/ \E provenance \in BOOLEAN : viewOut' = Finished(view, provenance, FALSE)
    BY <1>5 DEF ViewStops
  <2>2. viewOut' = viewOut \/ viewOut'.returned = FALSE
    BY <2>1 DEF Finished
  <2>3. ReturnedInv'
    BY <1>2, <2>2 DEF ViewInv, ReturnedInv
  <2> QED  BY <1>3, <2>3 DEF ViewInv
<1> QED  BY <1>4, <1>5

LEMMA TrainingStep ==
  ASSUME BuildInv, ViewInv,
         [BuildNext \/ (\E s \in Sources : SourceChanges(s)) \/ ViewNext]_trainVars
  PROVE  BuildInv' /\ ViewInv'
<1>1. CASE BuildNext
  BY <1>1, BuildStep, ViewUnderBuild
<1>2. CASE \E s \in Sources : SourceChanges(s)
  BY <1>2, SourceStep, ViewUnderBuild
<1>3. CASE ViewNext
  <2>1. UNCHANGED <<take, source, out, tmp, build, builds, result>>
    BY <1>3 DEF ViewNext, BeginLeRobotView, ListEpisodes, HashMaster, BeginOpenpiView, WriteAudited, CheckManifest,
                ListSplit, CopyEpisode, LinkEpisode, FinishView, ViewStops
  <2>2. ViewInv'
    BY <1>3, NamingStep, BeginCopyStep, CopyStep, FinishViewStep DEF ViewNext
  <2> QED  BY <2>1, <2>2, BuildStutter
<1>4. CASE UNCHANGED trainVars
  <2>1. UNCHANGED <<take, source, out, tmp, build, builds, result, view, viewOut>>
    BY <1>4 DEF trainVars
  <2>2. BuildInv'
    BY <2>1, BuildStutter
  <2>3. \A s : Genuine(s)' <=> Genuine(s)
    BY <2>1, ViewReads
  <2> QED  BY <2>1, <2>2, <2>3, ViewFrame
<1> QED  BY <1>1, <1>2, <1>3, <1>4

\* A marker that names the files there now was made of them.
LEMMA TrainingGives == BuildInv => BuiltFromWhatItNames /\ PublishedIsWhole /\ TempRemoved
<1> SUFFICES ASSUME BuildInv PROVE BuiltFromWhatItNames /\ PublishedIsWhole /\ TempRemoved
  OBVIOUS
<1>1. ReuseIsFresh /\ PublishedIsWhole
  BY DEF BuildInv, OrderInv
<1>2. TempRemoved
  BY DEF BuildInv, OrderInv, TempRemoved, NoJob
<1>3. ValidatedIsCurrent
  <2> SUFFICES ASSUME out # NoRoot, out.fp.versions = source, NEW s \in Episodes, out.read[s] # 0
               PROVE  out.read[s] = source[s]
    BY DEF ValidatedIsCurrent, ValidatesBottle, RawInventoryMatches, Sources, BuildInv, BuildTypes
  <2>1. out.read \in Versions /\ source \in Versions
    BY RootFacts DEF Roots, BuildInv, BuildTypes
  <2>2. source[s] <= out.read[s] /\ out.read[s] <= source[s]
    BY DEF BuildInv, VersionsInv, NotOlder, UpTo
  <2> QED  BY <2>1, <2>2, VersionsAreNumbers
<1> QED  BY <1>1, <1>2, <1>3 DEF BuiltFromWhatItNames

\* An accepted split lists no id twice, hence none in two of its parts.
LEMMA SplitsAreDisjoint ==
  ASSUME NEW f, NEW included, SplitsAccepted(f, included),
         \A n \in SplitNames : f[n] \in Seq(STRING)
  PROVE  /\ \A m, n \in SplitNames : m # n => ToSet(f[m]) \cap ToSet(f[n]) = {}
         /\ included = UNION {ToSet(f[n]) : n \in SplitNames}
<1> DEFINE a == f["train"]
           b == f["val"]
           c == f["test"]
           all == (a \o b) \o c
<1>1. a \in Seq(STRING) /\ b \in Seq(STRING) /\ c \in Seq(STRING)
  BY DEF SplitNames
<1>2. IsInjective(all) /\ ToSet(all) = included
  BY DEF SplitsAccepted
<1> HIDE DEF a, b, c
<1>3. /\ a \o b \in Seq(STRING) /\ all \in Seq(STRING)
      /\ Len(all) = Len(a) + Len(b) + Len(c)
  BY <1>1
<1>4. /\ \A i \in 1 .. Len(a) : i \in 1 .. Len(all) /\ all[i] = a[i]
      /\ \A i \in 1 .. Len(b) : Len(a) + i \in 1 .. Len(all) /\ all[Len(a) + i] = b[i]
      /\ \A i \in 1 .. Len(c) : Len(a) + Len(b) + i \in 1 .. Len(all) /\ all[Len(a) + Len(b) + i] = c[i]
  BY <1>1, <1>3
<1>5. \A i, j \in 1 .. Len(all) : all[i] = all[j] => i = j
  <2>1. DOMAIN all = 1 .. Len(all)
    BY <1>3
  <2> HIDE DEF all
  <2> QED  BY <1>2, <2>1 DEF IsInjective
<1>6. /\ ToSet(a) = {a[i] : i \in 1 .. Len(a)} /\ ToSet(b) = {b[i] : i \in 1 .. Len(b)}
      /\ ToSet(c) = {c[i] : i \in 1 .. Len(c)} /\ ToSet(all) = {all[i] : i \in 1 .. Len(all)}
  <2>1. \A q \in Seq(STRING) : ToSet(q) = {q[i] : i \in 1 .. Len(q)}
    BY DEF ToSet
  <2> HIDE DEF all
  <2> QED  BY <1>1, <1>3, <2>1
<1>7. Len(a) \in Nat /\ Len(b) \in Nat /\ Len(c) \in Nat
  BY <1>1
<1>8. /\ \A i \in 1 .. Len(a), j \in 1 .. Len(b) : a[i] # b[j]
      /\ \A i \in 1 .. Len(a), j \in 1 .. Len(c) : a[i] # c[j]
      /\ \A i \in 1 .. Len(b), j \in 1 .. Len(c) : b[i] # c[j]
  <2>1. \A i \in 1 .. Len(a), j \in 1 .. Len(b) : i # Len(a) + j
    BY <1>7
  <2>2. \A i \in 1 .. Len(a), j \in 1 .. Len(c) : i # Len(a) + Len(b) + j
    BY <1>7
  <2>3. \A i \in 1 .. Len(b), j \in 1 .. Len(c) : Len(a) + i # Len(a) + Len(b) + j
    BY <1>7
  <2> HIDE DEF all
  <2> QED  BY <1>4, <1>5, <2>1, <2>2, <2>3
<1>9. ToSet(a) \cap ToSet(b) = {} /\ ToSet(a) \cap ToSet(c) = {} /\ ToSet(b) \cap ToSet(c) = {}
  BY <1>6, <1>8
<1>10. included = ToSet(a) \cup ToSet(b) \cup ToSet(c)
  <2> DEFINE ab == Len(a) + Len(b)
  <2>1. \A k \in 1 .. Len(all) :
          \/ k \in 1 .. Len(a)
          \/ k - Len(a) \in 1 .. Len(b) /\ Len(a) + (k - Len(a)) = k
          \/ k - ab \in 1 .. Len(c) /\ ab + (k - ab) = k
    BY <1>3, <1>7
  <2>2. \A i \in 1 .. Len(c) : ab + i \in 1 .. Len(all) /\ all[ab + i] = c[i]
    BY <1>4
  <2> HIDE DEF all, ab
  <2>3. ASSUME NEW k \in 1 .. Len(all) PROVE all[k] \in ToSet(a) \cup ToSet(b) \cup ToSet(c)
    <3>1. CASE k \in 1 .. Len(a)
      BY <1>4, <1>6, <3>1
    <3>2. CASE k - Len(a) \in 1 .. Len(b) /\ Len(a) + (k - Len(a)) = k
      <4>1. all[k] = b[k - Len(a)]
        BY <1>4, <3>2
      <4> QED  BY <1>6, <3>2, <4>1
    <3>3. CASE k - ab \in 1 .. Len(c) /\ ab + (k - ab) = k
      <4>1. all[k] = c[k - ab]
        BY <2>2, <3>3
      <4> QED  BY <1>6, <3>3, <4>1
    <3> QED  BY <2>1, <3>1, <3>2, <3>3
  <2>4. ToSet(all) \subseteq ToSet(a) \cup ToSet(b) \cup ToSet(c)
    BY <1>6, <2>3
  <2>5. ToSet(a) \cup ToSet(b) \cup ToSet(c) \subseteq ToSet(all)
    BY <1>4, <1>6
  <2> QED  BY <1>2, <2>4, <2>5
<1> QED  BY <1>9, <1>10 DEF SplitNames, a, b, c

\* A declared group of a published root lies in one of its splits.
LEMMA GroupInOneSplit ==
  ASSUME BuildInv, out # NoRoot, out.cfg.kind = "bottle", out.cfg.declared, NEW g \in out.cfg.groups
  PROVE  \E n \in SplitNames : g \subseteq ToSet(out.cfg.splits[n])
<1> DEFINE cfg == out.cfg
           f == cfg.splits
           included == Included(cfg)
           splitOf == [id \in included |-> SplitOf(cfg, id)]
           names == {splitOf[s] : s \in g}
<1>1. cfg \in Configs /\ \A n \in SplitNames : f[n] \in Seq(STRING)
  BY RootFacts DEF Roots
<1>2. SplitsAccepted(f, included) /\ GroupsAccepted(cfg.declared, cfg.groups, included, splitOf)
  BY DEF BuildInv, AcceptedInv
<1>3. included = UNION {ToSet(f[n]) : n \in SplitNames}
  BY <1>1, <1>2, SplitsAreDisjoint
<1>4. g # {} /\ g \subseteq included /\ Cardinality(names) = 1
  BY <1>2 DEF GroupsAccepted
<1>5. \A id \in included : SplitOf(cfg, id) \in SplitNames /\ id \in ToSet(f[SplitOf(cfg, id)])
  <2>1. \A id \in included : \E n \in SplitNames : id \in ToSet(f[n])
    BY <1>3
  <2> QED  BY <2>1 DEF SplitOf
<1>6. names \subseteq SplitNames
  BY <1>4, <1>5
<1>7. \E n : names = {n}
  <2>1. IsFiniteSet(SplitNames)
    <3>1. IsFiniteSet({"train"})
      BY FS_Singleton
    <3>2. IsFiniteSet({"train"} \cup {"val"})
      BY <3>1, FS_AddElement
    <3>3. IsFiniteSet(({"train"} \cup {"val"}) \cup {"test"})
      BY <3>2, FS_AddElement
    <3>4. SplitNames = ({"train"} \cup {"val"}) \cup {"test"}
      BY DEF SplitNames
    <3> QED  BY <3>3, <3>4
  <2>2. IsFiniteSet(names)
    BY <1>6, <2>1, FS_Subset
  <2> HIDE DEF names
  <2> QED  BY <1>4, <2>2, FS_Singleton
<1>8. PICK n : names = {n}
  BY <1>7
<1>9. \A s \in g : splitOf[s] = n /\ splitOf[s] = SplitOf(cfg, s)
  BY <1>4, <1>8
<1>10. n \in SplitNames
  BY <1>6, <1>8
<1> HIDE DEF names, splitOf
<1> QED  BY <1>4, <1>5, <1>9, <1>10

LEMMA NothingLeaksFromRoot == BuildInv => NothingLeaks
<1> SUFFICES ASSUME BuildInv, out # NoRoot PROVE NothingLeaks
  BY DEF NothingLeaks, EachInOneSplit, SplitsDisjoint
<1> DEFINE cfg == out.cfg
           f == cfg.splits
           included == Included(cfg)
<1>1. cfg \in Configs /\ \A n \in SplitNames : f[n] \in Seq(STRING)
  BY RootFacts DEF Roots
<1>2. SplitsAccepted(f, included) /\ out.kept \subseteq included
  BY DEF BuildInv, AcceptedInv
<1>3. /\ \A m, n \in SplitNames : m # n => ToSet(f[m]) \cap ToSet(f[n]) = {}
      /\ included = UNION {ToSet(f[n]) : n \in SplitNames}
  BY <1>1, <1>2, SplitsAreDisjoint
<1>4. \A n : DOMAIN SplitRows(out, n) = out.kept \cap ToSet(f[n])
  BY DEF SplitRows
<1> HIDE DEF cfg, f, included
<1>5. EachInOneSplit
  <2> SUFFICES ASSUME NEW id \in out.kept
               PROVE  \E n \in SplitNames : {m \in SplitNames : id \in DOMAIN SplitRows(out, m)} = {n}
    BY DEF EachInOneSplit
  <2>1. PICK n \in SplitNames : id \in ToSet(f[n])
    BY <1>2, <1>3
  <2>2. \A m \in SplitNames : id \in DOMAIN SplitRows(out, m) <=> m = n
    <3>1. \A m \in SplitNames : id \in ToSet(f[m]) <=> m = n
      BY <1>3, <2>1
    <3> QED  BY <1>4, <3>1
  <2>3. {m \in SplitNames : id \in DOMAIN SplitRows(out, m)} = {n}
    BY <2>2
  <2> QED  BY <2>3
<1>6. SplitsDisjoint
  <2> SUFFICES ASSUME GroupsBindSources(cfg), NEW m \in SplitNames, NEW n \in SplitNames, m # n,
                      NEW a \in DOMAIN SplitRows(out, m), NEW b \in DOMAIN SplitRows(out, n),
                      Item(cfg, a).source = Item(cfg, b).source
               PROVE  FALSE
    BY DEF SplitsDisjoint, SourcesInOneSplit, SplitSources, cfg
  <2>1. /\ a \in included /\ a \in ToSet(f[m])
        /\ b \in included /\ b \in ToSet(f[n])
    BY <1>2, <1>4
  <2>2. a # b
    BY <1>3, <2>1
  <2>3. PICK g \in cfg.groups : cfg.kind = "bottle" /\ cfg.declared /\ {a, b} \subseteq g
    BY <2>1, <2>2 DEF GroupsBindSources, included
  <2>4. PICK o \in SplitNames : g \subseteq ToSet(f[o])
    BY <2>3, GroupInOneSplit DEF cfg, f
  <2>5. o = m /\ o = n
    BY <1>3, <2>1, <2>3, <2>4
  <2> QED  BY <2>5
<1> QED  BY <1>5, <1>6 DEF NothingLeaks

------------------------------------------------------------------------------
(* The archive *)

USE ArchiveAssumption

Labels == TrainingLabels \cup {"unlabeled"}
ArchiveTypes ==
    /\ label \in [Archives -> Labels]
    /\ metaVersion \in [Archives -> 1 .. MaxLabels + 1]

\* What a deep validation has passed.
Vetted(e) == Valid(archive[e], TRUE) /\ ~archive[e].gaps

Surveys ==
    {NoArchiveCommand}
    \cup [pc : {"validate"}, deep : BOOLEAN, left : SUBSET Archives, entries : {survey.entries}]
    \cup [pc : {"metadata"}, deep : BOOLEAN, left : SUBSET Archives, entries : {survey.entries},
          e : Archives, eligible : {survey.eligible}]
    \cup [pc : {"hash"}, deep : BOOLEAN, left : SUBSET Archives, entries : {survey.entries},
          e : Archives, eligible : {survey.eligible}, label : {survey.label}]

\* The survey has one entry per directory it is done with, and an eligible one
\* was vetted, whatever label it had meanwhile.
EntriesInv ==
    /\ \A x \in survey.entries :
         /\ x.e \in Archives \ survey.left /\ x.uuid = archive[x.e].uuid
         /\ x.eligible => Vetted(x.e)
    /\ \A x, y \in survey.entries : x.e = y.e => x = y
SurveyInv ==
    /\ survey \in Surveys
    /\ survey # NoArchiveCommand => ~manifest.written /\ EntriesInv
    /\ survey.pc = "metadata" =>
         survey.e \in survey.left /\ (survey.eligible /\ survey.deep => Vetted(survey.e))
    /\ survey.pc = "hash" =>
         survey.e \in survey.left /\ (survey.eligible => Vetted(survey.e))

\* The training entries of the manifest are of vetted archives with a UUID each.
TrainEntries == {x \in manifest.entries : x.split = "train"}
ManifestInv ==
    \A x, y \in TrainEntries :
        /\ x.e \in Archives /\ Vetted(x.e)
        /\ archive[x.e].uuid = archive[y.e].uuid => x = y

\* Whatever the statistics hold was cited from such an entry with the version
\* the manifest gives.
Citation(x) == [e |-> x.e, listed |-> x.version, checked |-> x.version]
Citations == {Citation(x) : x \in TrainEntries}
MomentsInv ==
    /\ moments \in {NoArchiveCommand}
                     \cup [pc : {"check", "load"}, used : SUBSET Citations,
                           loading : SUBSET Citations, left : SUBSET TrainEntries]
    /\ statistics \subseteq Citations
    /\ moments # NoArchiveCommand \/ statistics # {} => manifest.written

\* An export that writes has read a success, or is a plot.
ExportInv ==
    /\ export \in {NoArchiveCommand}
                    \cup [pc : {"metadata"}, format : Formats, e : Archives]
                    \cup [pc : {"write"}, format : Formats, e : Archives, label : Labels, written : BOOLEAN]
    /\ export.pc = "write" => LabelAllows(export.format, export.label)
    /\ ExportedIsSuccess /\ ExportIsWhole

ArchiveInv == ArchiveTypes /\ SurveyInv /\ ManifestInv /\ MomentsInv /\ ExportInv

LEMMA ArchiveInitInv == ArchiveInit => ArchiveInv
<1> SUFFICES ASSUME ArchiveInit PROVE ArchiveInv
  OBVIOUS
<1>1. ArchiveTypes
  BY DEF ArchiveInit, ArchiveTypes, Labels
<1>2. SurveyInv /\ ManifestInv /\ MomentsInv
  BY DEF ArchiveInit, SurveyInv, ManifestInv, MomentsInv, Surveys, NoArchiveCommand, NoManifest, TrainEntries, Citations
<1>3. ExportInv
  BY DEF ArchiveInit, ExportInv, ExportedIsSuccess, ExportIsWhole, NoArchiveCommand, NoArtifact
<1> QED  BY <1>1, <1>2, <1>3 DEF ArchiveInv

\* What a step keeps when it reads and writes no file and no manifest: one part
\* of the invariant at a time.
LEMMA FilesFrame ==
  ASSUME ArchiveInv, UNCHANGED <<archive, manifest>>
  PROVE  /\ \A e : Vetted(e)' <=> Vetted(e)
         /\ TrainEntries' = TrainEntries /\ Citations' = Citations
         /\ ManifestInv'
<1>1. \A e : Vetted(e)' <=> Vetted(e)
  BY DEF Vetted
<1>2. TrainEntries' = TrainEntries
  BY DEF TrainEntries
<1>3. Citations' = Citations
  BY <1>2 DEF Citations, Citation
<1>4. ManifestInv'
  BY ONLY ArchiveInv, UNCHANGED archive, <1>1, <1>2 DEF ArchiveInv, ManifestInv
<1> QED  BY <1>1, <1>2, <1>3, <1>4

LEMMA SurveyKept ==
  ASSUME ArchiveInv, UNCHANGED <<archive, manifest, survey>>
  PROVE  SurveyInv'
<1>1. \A e : Vetted(e)' <=> Vetted(e)
  BY FilesFrame
<1>2. Surveys' = Surveys
  BY DEF Surveys, NoArchiveCommand
<1>3. EntriesInv => EntriesInv'
  BY ONLY UNCHANGED <<archive, survey>>, <1>1 DEF EntriesInv
<1>4. SurveyInv
  BY DEF ArchiveInv
<1> QED  BY ONLY UNCHANGED <<manifest, survey>>, <1>1, <1>2, <1>3, <1>4 DEF SurveyInv, NoArchiveCommand

LEMMA MomentsKept ==
  ASSUME ArchiveInv, UNCHANGED <<archive, manifest, moments, statistics>>
  PROVE  MomentsInv'
<1>1. TrainEntries' = TrainEntries /\ Citations' = Citations
  BY FilesFrame
<1>2. MomentsInv
  BY DEF ArchiveInv
<1> QED  BY ONLY UNCHANGED <<manifest, moments, statistics>>, <1>1, <1>2 DEF MomentsInv, NoArchiveCommand

LEMMA ExportKept ==
  ASSUME ArchiveInv, UNCHANGED <<export, artifact>>
  PROVE  ExportInv'
<1>1. ExportInv
  BY DEF ArchiveInv
<1>2. ExportedIsSuccess' /\ ExportIsWhole'
  BY ONLY <1>1, UNCHANGED artifact DEF ExportInv, ExportedIsSuccess, ExportIsWhole
<1> QED  BY ONLY <1>1, <1>2, UNCHANGED export DEF ExportInv, NoArchiveCommand

\* A label changes what is said of an episode, not its files.
LEMMA LabelStep ==
  ASSUME ArchiveInv, NEW e \in Archives, NEW l \in TrainingLabels, LabelEpisode(e, l)
  PROVE  ArchiveInv'
<1>1. UNCHANGED <<archive, survey, manifest, moments, statistics, export, artifact>>
  BY DEF LabelEpisode
<1>2. ArchiveTypes'
  BY DEF ArchiveInv, ArchiveTypes, LabelEpisode, Labels
<1>3. SurveyInv' /\ ManifestInv'
  BY <1>1, SurveyKept, FilesFrame
<1>4. MomentsInv' /\ ExportInv'
  BY <1>1, MomentsKept, ExportKept
<1> QED  BY <1>2, <1>3, <1>4 DEF ArchiveInv

LEMMA EligibleIsVetted ==
  ASSUME NEW e \in Archives, NEW l, Eligible(archive[e], l, TRUE)
  PROVE  Vetted(e)
  BY DEF Eligible, RawEligible, CanonicalEligible, Vetted

\* What the survey does not touch.
LEMMA SurveyFrame ==
  ASSUME ArchiveInv,
         UNCHANGED <<archive, label, metaVersion, manifest, moments, statistics, export, artifact>>
  PROVE  ArchiveTypes' /\ ManifestInv' /\ MomentsInv' /\ ExportInv' /\ (\A e : Vetted(e)' <=> Vetted(e))
<1>1. ArchiveTypes'
  BY DEF ArchiveInv, ArchiveTypes, Labels
<1>2. ManifestInv' /\ (\A e : Vetted(e)' <=> Vetted(e))
  BY FilesFrame
<1>3. MomentsInv' /\ ExportInv'
  BY MomentsKept, ExportKept
<1> QED  BY <1>1, <1>2, <1>3

LEMMA SurveyStep ==
  ASSUME ArchiveInv,
         \/ \E deep \in BOOLEAN : BeginManifest(deep)
         \/ \E e \in Archives : SurveyValidate(e)
         \/ SurveyMetadata \/ SurveyHash \/ ManifestStops
  PROVE  ArchiveInv'
<1>1. UNCHANGED <<archive, label, metaVersion, manifest, moments, statistics, export, artifact>>
  BY DEF BeginManifest, SurveyValidate, SurveyMetadata, SurveyHash, ManifestStops
<1>2. /\ ArchiveTypes' /\ ManifestInv' /\ MomentsInv' /\ ExportInv'
      /\ \A e : Vetted(e)' <=> Vetted(e)
  BY <1>1, SurveyFrame
<1>3. SurveyInv'
  <2>1. ASSUME NEW deep \in BOOLEAN, BeginManifest(deep) PROVE SurveyInv'
    <3>1. survey' = [pc |-> "validate", deep |-> deep, left |-> Archives, entries |-> {}] /\ ~manifest.written
      BY <2>1 DEF BeginManifest
    <3>2. survey' \in Surveys' /\ survey'.pc = "validate" /\ survey'.entries = {}
      BY <3>1 DEF Surveys
    <3> QED  BY <1>1, <3>1, <3>2 DEF SurveyInv, EntriesInv
  <2>2. ASSUME NEW e \in Archives, SurveyValidate(e) PROVE SurveyInv'
    <3>1. /\ survey.pc = "validate" /\ e \in survey.left
          /\ survey' = [pc |-> "metadata", deep |-> survey.deep, left |-> survey.left,
                        entries |-> survey.entries, e |-> e,
                        eligible |-> Eligible(archive[e], label[e], survey.deep)]
      BY <2>2 DEF SurveyValidate
    <3>2. survey \in [pc : {"validate"}, deep : BOOLEAN, left : SUBSET Archives, entries : {survey.entries}]
      BY <3>1 DEF ArchiveInv, SurveyInv, Surveys, NoArchiveCommand
    <3>3. /\ survey'.pc = "metadata" /\ survey'.e = e /\ survey'.left = survey.left
          /\ survey'.entries = survey.entries /\ survey'.deep = survey.deep
          /\ survey'.eligible = Eligible(archive[e], label[e], survey.deep)
      BY <3>1
    <3>4. survey' \in Surveys'
      BY <3>1, <3>2, <3>3 DEF Surveys
    <3>5. ~manifest.written /\ EntriesInv
      BY <3>1 DEF ArchiveInv, SurveyInv, NoArchiveCommand
    <3>6. survey'.eligible /\ survey'.deep => Vetted(e)
      <4>1. survey.deep \in BOOLEAN
        BY <3>2
      <4> QED  BY <3>3, <4>1, EligibleIsVetted
    <3> QED  BY <1>1, <1>2, <3>1, <3>3, <3>4, <3>5, <3>6 DEF SurveyInv, EntriesInv
  <2>3. CASE SurveyMetadata
    <3>1. /\ survey.pc = "metadata"
          /\ survey' = [pc |-> "hash", deep |-> survey.deep, left |-> survey.left,
                        entries |-> survey.entries, e |-> survey.e,
                        eligible |-> EntryEligible(survey.deep, survey.eligible, label[survey.e]),
                        label |-> label[survey.e]]
      BY <2>3 DEF SurveyMetadata
    <3>2. survey \in [pc : {"metadata"}, deep : BOOLEAN, left : SUBSET Archives, entries : {survey.entries},
                      e : Archives, eligible : {survey.eligible}]
      BY <3>1 DEF ArchiveInv, SurveyInv, Surveys, NoArchiveCommand
    <3>3. /\ survey'.pc = "hash" /\ survey'.e = survey.e /\ survey'.left = survey.left
          /\ survey'.entries = survey.entries /\ survey'.deep = survey.deep
          /\ survey'.eligible = EntryEligible(survey.deep, survey.eligible, label[survey.e])
      BY <3>1
    <3>4. survey' \in Surveys'
      BY <3>1, <3>2, <3>3 DEF Surveys
    <3>5. /\ ~manifest.written /\ EntriesInv
          /\ survey.e \in survey.left /\ (survey.eligible /\ survey.deep => Vetted(survey.e))
      BY <3>1 DEF ArchiveInv, SurveyInv, NoArchiveCommand
    <3>6. survey'.eligible => Vetted(survey.e)
      BY <3>3, <3>5 DEF EntryEligible
    <3> QED  BY <1>1, <1>2, <3>1, <3>3, <3>4, <3>5, <3>6 DEF SurveyInv, EntriesInv
  <2>4. CASE SurveyHash
    <3> DEFINE new == [e |-> survey.e, uuid |-> archive[survey.e].uuid, eligible |-> survey.eligible,
                       label |-> survey.label, version |-> metaVersion[survey.e]]
    <3>1. /\ survey.pc = "hash"
          /\ survey' = [pc |-> "validate", deep |-> survey.deep, left |-> survey.left \ {survey.e},
                        entries |-> survey.entries \cup {new}]
      BY <2>4 DEF SurveyHash
    <3>2. survey \in [pc : {"hash"}, deep : BOOLEAN, left : SUBSET Archives, entries : {survey.entries},
                      e : Archives, eligible : {survey.eligible}, label : {survey.label}]
      BY <3>1 DEF ArchiveInv, SurveyInv, Surveys, NoArchiveCommand
    <3>3. new.e = survey.e /\ new.uuid = archive[survey.e].uuid /\ new.eligible = survey.eligible
      OBVIOUS
    <3> HIDE DEF new
    <3>4. /\ survey'.pc = "validate" /\ survey'.left = survey.left \ {survey.e}
          /\ survey'.entries = survey.entries \cup {new} /\ survey'.deep = survey.deep
      BY <3>1
    <3>5. survey' \in Surveys'
      BY <3>1, <3>2, <3>4 DEF Surveys
    <3>6. /\ ~manifest.written /\ EntriesInv
          /\ survey.e \in survey.left /\ survey.e \in Archives /\ (survey.eligible => Vetted(survey.e))
      BY <3>1, <3>2 DEF ArchiveInv, SurveyInv, NoArchiveCommand
    <3>7. EntriesInv'
      BY <1>1, <1>2, <3>3, <3>4, <3>6 DEF EntriesInv
    <3> QED  BY <1>1, <3>4, <3>5, <3>6, <3>7 DEF SurveyInv
  <2>5. CASE ManifestStops
    BY <2>5 DEF ManifestStops, SurveyInv, Surveys, NoArchiveCommand
  <2> QED  BY <2>1, <2>2, <2>3, <2>4, <2>5
<1> QED  BY <1>2, <1>3 DEF ArchiveInv

LEMMA ManifestStep ==
  ASSUME ArchiveInv, NEW t, WriteManifest(t)
  PROVE  ArchiveInv'
<1> DEFINE split(x) == IF UuidExcludes(x, survey.entries) \/ ~x.eligible THEN "excluded"
                       ELSE IF x.uuid \in t THEN "train" ELSE "held_out"
           listed(x) == [e |-> x.e, uuid |-> x.uuid, version |-> x.version, split |-> split(x)]
<1>1. /\ survey.pc = "validate"
      /\ manifest' = [written |-> TRUE, deep |-> survey.deep, entries |-> {listed(x) : x \in survey.entries}]
      /\ survey' = NoArchiveCommand
      /\ UNCHANGED <<archive, label, metaVersion, moments, statistics, export, artifact>>
  BY DEF WriteManifest
<1>2. survey # NoArchiveCommand /\ ~manifest.written /\ EntriesInv
  BY <1>1 DEF ArchiveInv, SurveyInv, NoArchiveCommand
<1>3. moments = NoArchiveCommand /\ statistics = {}
  BY <1>2 DEF ArchiveInv, MomentsInv
<1>4. \A x \in survey.entries : listed(x).split = split(x) /\ listed(x).e = x.e
  OBVIOUS
<1>5. \A x \in survey.entries : split(x) = "train" => x.eligible /\ ~UuidExcludes(x, survey.entries)
  OBVIOUS
<1> HIDE DEF listed, split
<1>6. manifest'.entries = {listed(x) : x \in survey.entries} /\ manifest'.written
  BY <1>1
<1>7. ManifestInv'
  <2> SUFFICES ASSUME NEW p \in TrainEntries', NEW q \in TrainEntries'
               PROVE  /\ p.e \in Archives /\ Vetted(p.e)'
                      /\ archive'[p.e].uuid = archive'[q.e].uuid => p = q
    BY DEF ManifestInv
  <2>1. PICK x \in survey.entries : p = listed(x)
    BY <1>6 DEF TrainEntries
  <2>2. PICK y \in survey.entries : q = listed(y)
    BY <1>6 DEF TrainEntries
  <2>3. p.split = "train" /\ q.split = "train"
    BY DEF TrainEntries
  <2>4. /\ x.eligible /\ ~UuidExcludes(x, survey.entries)
        /\ y.eligible /\ ~UuidExcludes(y, survey.entries)
        /\ p.e = x.e /\ q.e = y.e
    BY <1>4, <1>5, <2>1, <2>2, <2>3
  <2>5. /\ x.e \in Archives /\ Vetted(x.e)
        /\ x.uuid = archive[x.e].uuid /\ y.uuid = archive[y.e].uuid
        /\ x.e = y.e => x = y
    BY <1>2, <2>4 DEF EntriesInv
  <2>6. x.uuid = y.uuid => x.e = y.e
    BY <2>4 DEF UuidExcludes
  <2>7. Vetted(p.e)' <=> Vetted(x.e)
    BY <1>1, <2>4 DEF Vetted
  <2> QED  BY <1>1, <2>1, <2>2, <2>4, <2>5, <2>6, <2>7
<1>8. MomentsInv'
  BY <1>1, <1>3 DEF MomentsInv
<1>9. SurveyInv'
  BY <1>1 DEF SurveyInv, Surveys, NoArchiveCommand
<1>10. ArchiveTypes' /\ ExportInv'
  BY <1>1 DEF ArchiveInv, ArchiveTypes, ExportInv, ExportedIsSuccess, ExportIsWhole
<1> QED  BY <1>7, <1>8, <1>9, <1>10 DEF ArchiveInv

LEMMA StatisticsStep ==
  ASSUME ArchiveInv,
         \/ BeginStatistics \/ (\E x \in manifest.entries : CheckEntry(x))
         \/ LoadEntry \/ WriteStatistics \/ StatisticsStop
  PROVE  ArchiveInv'
<1>1. UNCHANGED <<archive, label, metaVersion, survey, manifest, export, artifact>>
  BY DEF BeginStatistics, CheckEntry, LoadEntry, WriteStatistics, StatisticsStop
<1>2. ArchiveTypes' /\ SurveyInv' /\ ManifestInv' /\ ExportInv'
  BY <1>1, ZenonT(60) DEF ArchiveInv, ArchiveTypes, SurveyInv, Surveys, EntriesInv, ManifestInv, TrainEntries, Vetted,
              ExportInv, ExportedIsSuccess, ExportIsWhole
<1>3. TrainEntries' = TrainEntries /\ Citations' = Citations
  BY <1>1 DEF TrainEntries, Citations, Citation
<1> DEFINE Busy == [pc : {"check", "load"}, used : SUBSET Citations,
                    loading : SUBSET Citations, left : SUBSET TrainEntries]
<1>4. moments \in {NoArchiveCommand} \cup Busy /\ statistics \subseteq Citations
      /\ (moments # NoArchiveCommand => manifest.written)
  BY DEF ArchiveInv, MomentsInv
<1>5. SUFFICES /\ moments' \in {NoArchiveCommand} \cup Busy
               /\ statistics' \subseteq Citations
               /\ moments' # NoArchiveCommand \/ statistics' # {} => manifest.written
  BY <1>1, <1>2, <1>3 DEF ArchiveInv, MomentsInv
<1>6. CASE BeginStatistics
  <2>1. /\ moments' = [pc |-> "check", used |-> {}, loading |-> {}, left |-> TrainEntries]
        /\ statistics' = statistics /\ manifest.written
    BY <1>6 DEF BeginStatistics, TrainEntries
  <2> QED  BY <1>4, <2>1
<1>7. ASSUME NEW x \in manifest.entries, CheckEntry(x)
      PROVE  moments' \in {NoArchiveCommand} \cup Busy /\ statistics' = statistics /\ moments # NoArchiveCommand
  <2> DEFINE cited == [e |-> x.e, listed |-> x.version, checked |-> metaVersion[x.e]]
  <2>1. /\ moments.pc = "check" /\ x \in moments.left /\ statistics' = statistics
        /\ moments' = IF HashMatches(x)
                      THEN [moments EXCEPT !.pc = "load", !.left = @ \ {x}, !.loading = {cited}]
                      ELSE NoArchiveCommand
    BY <1>7 DEF CheckEntry
  <2>2. moments \in Busy /\ moments # NoArchiveCommand
    BY <1>4, <2>1 DEF NoArchiveCommand
  <2>3. HashMatches(x) => cited = Citation(x)
    BY DEF HashMatches, Citation
  <2>4. Citation(x) \in Citations
    BY <2>1, <2>2 DEF Citations
  <2> HIDE DEF cited
  <2>5. HashMatches(x) => moments' \in Busy
    BY <2>1, <2>2, <2>3, <2>4
  <2> QED  BY <2>1, <2>2, <2>5
<1>8. CASE LoadEntry
  <2>1. /\ moments.pc = "load" /\ statistics' = statistics
        /\ moments' \in {NoArchiveCommand,
                         [moments EXCEPT !.pc = "check", !.loading = {}, !.used = @ \cup moments.loading]}
    BY <1>8 DEF LoadEntry
  <2>2. moments \in Busy /\ moments # NoArchiveCommand
    BY <1>4, <2>1 DEF NoArchiveCommand
  <2>3. [moments EXCEPT !.pc = "check", !.loading = {}, !.used = @ \cup moments.loading] \in Busy
    BY <2>2
  <2> QED  BY <1>4, <2>1, <2>2, <2>3
<1>9. CASE WriteStatistics
  <2>1. moments.pc = "check" /\ statistics' = moments.used /\ moments' = NoArchiveCommand
    BY <1>9 DEF WriteStatistics
  <2>2. moments \in Busy /\ moments # NoArchiveCommand
    BY <1>4, <2>1 DEF NoArchiveCommand
  <2> QED  BY <1>4, <2>1, <2>2
<1>10. CASE StatisticsStop
  BY <1>4, <1>10 DEF StatisticsStop, ArchiveInv, MomentsInv
<1>11. ArchiveInv => (statistics # {} => manifest.written)
  BY DEF ArchiveInv, MomentsInv
<1> QED  BY <1>4, <1>6, <1>7, <1>8, <1>9, <1>10, <1>11

LEMMA ExportStep ==
  ASSUME ArchiveInv, ExportNext
  PROVE  ArchiveInv'
<1>1. UNCHANGED <<archive, label, metaVersion, survey, manifest, moments, statistics>>
  BY DEF ExportNext, BeginExport, ExportMetadata, ExportWrites, ExportReplaces, ExportStops
<1>2. ArchiveTypes' /\ SurveyInv' /\ ManifestInv' /\ MomentsInv'
  <2>1. ArchiveTypes' /\ SurveyInv'
    BY <1>1 DEF ArchiveInv, ArchiveTypes, SurveyInv, Surveys, EntriesInv, Vetted
  <2>2. TrainEntries' = TrainEntries /\ Citations' = Citations
    BY <1>1 DEF TrainEntries, Citations, Citation
  <2>3. ManifestInv' /\ MomentsInv'
    BY <1>1, <2>2 DEF ArchiveInv, ManifestInv, MomentsInv, Vetted
  <2> QED  BY <2>1, <2>3
<1> SUFFICES ExportInv'
  BY <1>2 DEF ArchiveInv
<1> DEFINE Reading == [pc : {"metadata"}, format : Formats, e : Archives]
           Writing == [pc : {"write"}, format : Formats, e : Archives, label : Labels, written : BOOLEAN]
<1>3. /\ export \in {NoArchiveCommand} \cup Reading \cup Writing
      /\ export.pc = "write" => LabelAllows(export.format, export.label)
      /\ ExportedIsSuccess /\ ExportIsWhole
  BY DEF ArchiveInv, ExportInv
<1>4. ASSUME NEW f \in Formats, NEW e \in Archives, BeginExport(f, e) PROVE ExportInv'
  <2>1. export' = [pc |-> "metadata", format |-> f, e |-> e] /\ artifact' = artifact
    BY <1>4 DEF BeginExport
  <2>2. export' \in Reading /\ export'.pc = "metadata"
    BY <2>1
  <2> QED  BY <1>3, <2>1, <2>2 DEF ExportInv, ExportedIsSuccess, ExportIsWhole
<1>5. CASE ExportMetadata
  <2>1. /\ export.pc = "metadata" /\ artifact' = artifact
        /\ export' = IF LabelAllows(export.format, label[export.e])
                     THEN [pc |-> "write", format |-> export.format, e |-> export.e,
                           label |-> label[export.e], written |-> FALSE]
                     ELSE NoArchiveCommand
    BY <1>5 DEF ExportMetadata
  <2>2. export \in Reading
    BY <1>3, <2>1 DEF NoArchiveCommand
  <2>3. label[export.e] \in Labels
    BY <2>2 DEF ArchiveInv, ArchiveTypes
  <2>4. CASE LabelAllows(export.format, label[export.e])
    <3>1. export' \in Writing /\ export'.format = export.format /\ export'.label = label[export.e]
      BY <2>1, <2>2, <2>3, <2>4
    <3> QED  BY <1>3, <2>1, <2>4, <3>1 DEF ExportInv, ExportedIsSuccess, ExportIsWhole
  <2>5. CASE ~LabelAllows(export.format, label[export.e])
    BY <1>3, <2>1, <2>5 DEF ExportInv, ExportedIsSuccess, ExportIsWhole, NoArchiveCommand
  <2> QED  BY <2>4, <2>5
<1>6. CASE ExportWrites
  <2>1. /\ export.pc = "write" /\ artifact' = artifact
        /\ export' \in {NoArchiveCommand, [export EXCEPT !.written = TRUE]}
    BY <1>6 DEF ExportWrites
  <2>2. export \in Writing
    BY <1>3, <2>1 DEF NoArchiveCommand
  <2>3. CASE export' = NoArchiveCommand
    BY <1>3, <2>1, <2>3 DEF ExportInv, ExportedIsSuccess, ExportIsWhole, NoArchiveCommand
  <2>4. CASE export' = [export EXCEPT !.written = TRUE]
    <3>1. export' \in Writing /\ export'.format = export.format /\ export'.label = export.label
      BY <2>2, <2>4
    <3> QED  BY <1>3, <2>1, <3>1 DEF ExportInv, ExportedIsSuccess, ExportIsWhole
  <2> QED  BY <2>1, <2>3, <2>4
<1>7. CASE ExportReplaces
  <2>1. /\ export.pc = "write" /\ export.written /\ export' = NoArchiveCommand
        /\ artifact' = [format |-> export.format, e |-> export.e, label |-> export.label, whole |-> export.written]
    BY <1>7 DEF ExportReplaces, MayReplace
  <2>2. artifact'.format = export.format /\ artifact'.label = export.label /\ artifact'.whole
    BY <2>1
  <2>3. ExportedIsSuccess' /\ ExportIsWhole'
    BY <1>3, <2>1, <2>2 DEF ExportedIsSuccess, ExportIsWhole, LabelAllows
  <2> QED  BY <2>1, <2>3 DEF ExportInv, NoArchiveCommand
<1>8. CASE ExportStops
  BY <1>3, <1>8 DEF ExportStops, ExportInv, ExportedIsSuccess, ExportIsWhole, NoArchiveCommand
<1> QED  BY <1>4, <1>5, <1>6, <1>7, <1>8 DEF ExportNext

LEMMA ArchiveStep == ArchiveInv /\ [LabelNext \/ ManifestNext \/ ExportNext]_archiveVars => ArchiveInv'
<1> SUFFICES ASSUME ArchiveInv, [LabelNext \/ ManifestNext \/ ExportNext]_archiveVars PROVE ArchiveInv'
  OBVIOUS
<1>1. CASE UNCHANGED archiveVars
  <2>1. UNCHANGED <<archive, label, metaVersion, survey, manifest, moments, statistics, export, artifact>>
    BY <1>1 DEF archiveVars
  <2>2. ArchiveTypes' /\ ManifestInv' /\ MomentsInv' /\ ExportInv'
    BY <2>1, SurveyFrame
  <2>3. SurveyInv'
    BY <2>1, SurveyKept
  <2> QED  BY <2>2, <2>3 DEF ArchiveInv
<1>2. CASE LabelNext
  BY <1>2, LabelStep DEF LabelNext
<1>3. CASE ManifestNext
  BY <1>3, SurveyStep, ManifestStep, StatisticsStep DEF ManifestNext
<1>4. CASE ExportNext
  BY <1>4, ExportStep
<1> QED  BY <1>1, <1>2, <1>3, <1>4

\* What the statistics may rely on.
LEMMA ArchiveGives == ArchiveInv => ArchiveOutputIsVetted
<1> SUFFICES ASSUME ArchiveInv PROVE ArchiveOutputIsVetted
  OBVIOUS
<1>1. ASSUME NEW u \in statistics
      PROVE  \E x \in TrainEntries : u = Citation(x) /\ u.e = x.e /\ u.listed = u.checked
  BY DEF ArchiveInv, MomentsInv, Citations, Citation
<1>2. StatisticsMatchManifest
  BY <1>1 DEF StatisticsMatchManifest
<1>3. StatisticsAreValidated
  BY <1>1 DEF StatisticsAreValidated, ArchiveInv, ManifestInv, Vetted
<1>4. CountedOnce
  BY <1>1 DEF CountedOnce, ArchiveInv, ManifestInv
<1> QED  BY <1>2, <1>3, <1>4 DEF ArchiveOutputIsVetted, ArchiveInv, ExportInv

------------------------------------------------------------------------------
(* The rows of a root in place *)

\* What a materializer and sync-staging may find.
InputInv == take \in [Episodes -> Takes] /\ samples \in Stream

LEMMA InputStep ==
  ASSUME InputInv, UNCHANGED samples,
         [BuildNext \/ (\E s \in Sources : SourceChanges(s)) \/ ViewNext]_trainVars
  PROVE  InputInv'
<1>1. UNCHANGED take
  BY DEF BuildNext, BeginBuild, Audit, TakeInventory, Reuse, RefuseExisting, Proceed, RemoveSome, RemoveRest,
         Prepare, ReadItem, RaiseRefused, WritePart, PublishRoot, BuildRaises, BuildKilled, SourceChanges,
         ViewNext, BeginLeRobotView, ListEpisodes, HashMaster, BeginOpenpiView, WriteAudited, CheckManifest,
         ListSplit, CopyEpisode, LinkEpisode, FinishView, ViewStops, trainVars
<1> QED  BY <1>1 DEF InputInv

LEMMA InputInitInv == PipelineInit => InputInv
  BY OpeningsAssumption DEF PipelineInit, TrainInit, InputInv, Stream

\* The episode an id of a root stands for.
LEMMA ItemFacts ==
  ASSUME BuildInv, InputInv, out # NoRoot, NEW id \in out.kept
  PROVE  LET item == Item(out.cfg, id)
         IN  /\ out.cfg.kind \in {"training", "bottle"}
             /\ item.start \in Nat /\ item.end \in Nat
             /\ take[item.source].rows \in Seq(Row) /\ take[item.source].frames \in Nat
<1> DEFINE cfg == out.cfg
           item == Item(cfg, id)
<1>1. cfg \in Configs /\ id \in Included(cfg)
  BY RootFacts DEF BuildInv, AcceptedInv, Roots
<1>2. cfg.items \in Manifest
  BY <1>1, ManifestAssumption DEF Manifest, Entry
<1>3. \E i \in DOMAIN cfg.items : cfg.items[i].id = id
  BY <1>1 DEF Included
<1>4. \E i \in DOMAIN cfg.items : item = cfg.items[i]
  BY <1>3 DEF Item
<1> HIDE DEF item, cfg
<1>5. item \in Entry
  <2>1. PICK i \in DOMAIN cfg.items : item = cfg.items[i]
    BY <1>4
  <2>2. \A e \in Manifest : \A j \in DOMAIN e : e[j] \in Entry
    BY DEF Manifest
  <2> QED  BY ONLY <1>2, <2>1, <2>2, Zenon
<1>6. take[item.source] \in [rows : Seq(Row), release : Nat, completed : BOOLEAN, frames : Nat]
  BY <1>5, TrainingAssumption DEF InputInv, Entry
<1>7. /\ cfg.kind \in {"training", "bottle"} /\ item.start \in Nat /\ item.end \in Nat
      /\ take[item.source].rows \in Seq(Row) /\ take[item.source].frames \in Nat
  BY <1>1, <1>5, <1>6, TrainingAssumption DEF Entry
<1> QED  BY ONLY <1>7 DEF item, cfg

\* The rows of an episode as a root holds them.
LEMMA CropFacts ==
  ASSUME NEW cfg, NEW item, item.end \in Nat, take[item.source].rows \in Seq(Row)
  PROVE  /\ Crop(cfg, item).rows \in Seq(Row)
         /\ Increasing(take[item.source].rows) => Increasing(Crop(cfg, item).rows)
<1> DEFINE t == take[item.source]
           range == [start |-> item.start, end |-> item.end]
<1>1. range.end \in Nat
  OBVIOUS
<1>2. Crop(cfg, item) = IF cfg.kind = "training" THEN CropRows(t.rows, t.release, range)
                                                 ELSE CropSegment(t.rows, t.release, range)
  BY DEF Crop
<1> HIDE DEF range
<1> QED  BY <1>1, <1>2, CropRowsFacts, CropSegmentFacts

LEMMA KeptFacts ==
  ASSUME NEW cfg, NEW item, item.end \in Nat, take[item.source].rows \in Seq(Row)
  PROVE  KeptRows(cfg, item) \in Seq(KeptRow)
  BY CropFacts, KeptTypes DEF KeptRows

LEMMA RootValidates ==
  ASSUME NEW cfg, NEW item, item.end \in Nat, take[item.source].rows \in Seq(Row),
         cfg.kind \in {"training", "bottle"}, WellRecorded(take[item.source])
  PROVE  Increasing(KeptRows(cfg, item)) /\ VideoLength(cfg, item) = Len(KeptRows(cfg, item))
<1> DEFINE t == take[item.source]
           rows == Crop(cfg, item).rows
<1>1. Increasing(t.rows) /\ t.frames = Len(t.rows) /\ Len(t.rows) \in Nat
  BY DEF WellRecorded
<1>2. rows \in Seq(Row) /\ Increasing(rows)
  BY <1>1, CropFacts
<1> HIDE DEF rows
<1>3. CASE cfg.kind = "training"
  <2> DEFINE kept == MasterRows(rows)
  <2>1. KeptRows(cfg, item) = kept /\ Wanted(cfg, item) = MasterVideo(rows)
    BY <1>3 DEF KeptRows, Wanted, rows
  <2>2. kept \in Seq(KeptRow) /\ Increasing(kept)
    BY <1>2, KeptTypes, MasterOrdered
  <2>3. MasterVideo(rows) = [i \in 1 .. Len(kept) |-> kept[i].frame] /\ Len(kept) \in Nat
    BY <2>2 DEF MasterVideo
  <2> HIDE DEF kept
  <2>4. Len(Wanted(cfg, item)) = Len(kept)
    BY <2>1, <2>3
  <2>5. ASSUME Links(cfg, item) PROVE Len(kept) = t.frames
    <3>1. Wanted(cfg, item) = [i \in 1 .. Len(t.rows) |-> i]
      BY <2>5 DEF Links, LinksSource
    <3>2. Len(Wanted(cfg, item)) = Len(t.rows)
      BY <1>1, <3>1
    <3> QED  BY <1>1, <2>4, <3>2
  <2> QED  BY <2>1, <2>2, <2>4, <2>5 DEF VideoLength
<1>4. CASE cfg.kind = "bottle"
  <2> DEFINE good == Selected(rows, Faultless(rows))
             kept == BottleRows(rows)
  <2>1. KeptRows(cfg, item) = kept /\ Wanted(cfg, item) = BottleVideo(rows) /\ ~Links(cfg, item)
    BY <1>4 DEF KeptRows, Wanted, Links, rows
  <2>2. Increasing(kept) /\ Len(kept) = Len(good)
    BY <1>2, BottleOrdered
  <2>3. BottleVideo(rows) = [i \in 1 .. Len(good) |-> good[i].frame]
    BY DEF BottleVideo, Faultless
  <2>4. good \in Seq(Row) /\ Len(good) \in Nat
    BY <1>2, KeptTypes
  <2> HIDE DEF good, kept
  <2>5. Len(Wanted(cfg, item)) = Len(good)
    BY <2>1, <2>3, <2>4
  <2> QED  BY <2>1, <2>2, <2>5 DEF VideoLength
<1> QED  BY <1>3, <1>4

LEMMA RowsFromInv == BuildInv /\ InputInv => RowsAreSound
<1> SUFFICES ASSUME BuildInv, InputInv PROVE RowsAreSound
  OBVIOUS
<1>1. PublishedValidates
  <2> SUFFICES ASSUME out # NoRoot, \A id \in out.kept : WellRecorded(take[Item(out.cfg, id).source]),
                      NEW id \in out.kept
               PROVE  LET item == Item(out.cfg, id)
                          rows == KeptRows(out.cfg, item)
                      IN  Increasing(rows) /\ VideoLength(out.cfg, item) = Len(rows)
    BY DEF PublishedValidates, ValidatesTraining
  <2> QED  BY ItemFacts, RootValidates
<1>2. ChunkIsContiguous
  <2> SUFFICES ASSUME out # NoRoot, NEW id \in out.kept,
                      NEW i \in 1 .. Len(KeptRows(out.cfg, Item(out.cfg, id)))
               PROVE  LET c == Chunk(KeptRows(out.cfg, Item(out.cfg, id)), i)
                      IN  \A j \in 1 .. Len(c) - 1 :
                             c[j + 1].frame = c[j].frame + 1 /\ c[j + 1].t - c[j].t <= GapLimit
    BY DEF ChunkIsContiguous
  <2>1. KeptRows(out.cfg, Item(out.cfg, id)) \in Seq(KeptRow)
    BY ItemFacts, KeptFacts
  <2> QED  BY <2>1, ChunkFollows
<1>3. CausalSelection
  <2> SUFFICES ASSUME NEW at \in 1 .. 4
               PROVE  LET found == Latest(Observations(samples), at)
                          past == {samples[i] : i \in {j \in DOMAIN samples : samples[j] <= at}}
                          camera == SelectCamera(Observations(samples), at, 1)
                      IN  /\ IF past = {} THEN found = NoTime
                             ELSE found \in past /\ \A p \in past : p <= found
                          /\ camera.valid => camera.at <= at /\ at - camera.at <= 1
    BY DEF CausalSelection
  <2> DEFINE found == Latest(Observations(samples), at)
             past == {samples[i] : i \in {j \in DOMAIN samples : samples[j] <= at}}
             camera == SelectCamera(Observations(samples), at, 1)
  <2>1. found \in Nat /\ IF past = {} THEN found = NoTime ELSE found \in past /\ \A p \in past : p <= found
    <3>1. samples \in Stream /\ at \in Nat
      BY DEF InputInv
    <3> QED  BY ONLY <3>1, LatestIsCausal, Zenon
  <2>2. ASSUME camera.valid PROVE camera.at <= at /\ at - camera.at <= 1
    <3>1. camera = [valid |-> found # NoTime /\ at - found \in 0 .. 1,
                    at |-> IF found # NoTime /\ at - found \in 0 .. 1 THEN found ELSE NoTime]
      BY DEF SelectCamera
    <3> HIDE DEF found, camera
    <3>2. at - found \in 0 .. 1 /\ camera.at = found
      BY <2>2, <3>1
    <3> QED  BY <2>1, <3>2
  <2> HIDE DEF found, past, camera
  <2>3. IF past = {} THEN found = NoTime ELSE found \in past /\ \A p \in past : p <= found
    BY <2>1
  <2> QED  BY <2>2, <2>3 DEF found, past, camera
<1> QED  BY <1>1, <1>2, <1>3 DEF RowsAreSound

\* While the build that a view is made of stays, its validator finds the view
\* as it was built.
LEMMA ViewsFromInv == BuildInv /\ ViewInv /\ InputInv => ViewFromOneMaster
<1> SUFFICES ASSUME BuildInv, ViewInv, InputInv, viewOut # NoRoot, viewOut.returned PROVE ViewFromOneMaster
  BY DEF ViewFromOneMaster, OpenpiViewOfOneBuild, LeRobotViewOfOneContent
<1> DEFINE named == viewOut.master
<1>1. OpenpiViewOfOneBuild
  <2> SUFFICES ASSUME viewOut.tool = "openpi"
               PROVE  /\ viewOut.seen \cup {viewOut.listed} = {named}
                      /\ (/\ Master.gen = named.gen
                          /\ \A i \in viewOut.picked : StartsUsable(out.cfg, Master.index[i]))
                            => ValidatesOpenpiView
    BY DEF OpenpiViewOfOneBuild
  <2>1. /\ viewOut.provenance /\ viewOut.seen \cup {viewOut.listed} = {named} /\ Genuine(named) /\ named.gen # 0
        /\ viewOut.picked \subseteq DOMAIN viewOut.listed.index
    BY DEF ViewInv, ReturnedInv
  <2>2. ASSUME Master.gen = named.gen, \A i \in viewOut.picked : StartsUsable(out.cfg, Master.index[i])
        PROVE  ValidatesOpenpiView
    <3>1. HasData /\ out # NoRoot /\ out.gen = named.gen /\ Master.index = MasterIndex(out.cfg) /\ Genuine(Master)
      BY <2>1, <2>2, MasterFacts
    <3>2. Master = named
      <4>1. named.index = Master.index
        BY <2>1, <3>1 DEF Genuine
      <4>2. named = [gen |-> named.gen, index |-> named.index] /\ Master = [gen |-> Master.gen, index |-> Master.index]
        BY <2>1, <3>1 DEF Genuine
      <4> QED  BY <2>2, <4>1, <4>2
    <3>3. ASSUME NEW i \in viewOut.picked PROVE TimesFromZero(out.cfg, Master.index[i])
      <4> DEFINE item == Master.index[i]
                 rows == Crop(out.cfg, item).rows
      <4>1. item \in Entry
        <5>1. i \in DOMAIN Master.index
          BY <2>1, <3>2, <3>3
        <5>2. out.cfg.items \in Manifest
          BY <3>1, RootFacts, ManifestAssumption DEF Roots, Manifest, Entry
        <5>3. MasterIndex(out.cfg) \in Manifest
          BY <5>2, SelectedFrom DEF MasterIndex, Manifest
        <5>4. \A m \in Manifest : \A j \in DOMAIN m : m[j] \in Entry
          BY DEF Manifest
        <5> QED  BY <3>1, <5>1, <5>3, <5>4
      <4>2. item.end \in Nat /\ take[item.source].rows \in Seq(Row)
        <5> HIDE DEF item
        <5>1. item.end \in Nat /\ item.source \in Episodes
          BY <4>1 DEF Entry
        <5>2. take[item.source] \in [rows : Seq(Row), release : Nat, completed : BOOLEAN, frames : Nat]
          BY <5>1, TrainingAssumption DEF InputInv
        <5> QED  BY <5>1, <5>2
      <4>3. rows \in Seq(Row)
        BY <4>2, CropFacts
      <4>4. QualityReasons(rows[1]) = {}
        BY <2>2, <3>3 DEF StartsUsable
      <4>5. KeptRows(out.cfg, item) = BottleRows(rows)
        BY <3>1 DEF KeptRows, HasData
      <4> HIDE DEF item, rows
      <4>6. BottleRows(rows)[1].t = rows[1].t
        <5>1. CASE rows = <<>>
          BY <5>1, NothingIsKept
        <5>2. CASE rows # <<>>
          BY <4>3, <4>4, <5>2, FirstIsKept
        <5> QED  BY <5>1, <5>2
      <4> QED  BY <4>5, <4>6 DEF TimesFromZero, item, rows
    <3> QED  BY <2>1, <3>1, <3>2, <3>3 DEF ValidatesOpenpiView
  <2> QED  BY <2>1, <2>2
<1>2. LeRobotViewOfOneContent
  <2> SUFFICES ASSUME viewOut.tool = "lerobot", named # NoMaster
               PROVE  /\ \A copy \in viewOut.seen :
                            \/ copy.index = named.index
                            \/ named.gen < copy.gen /\ copy.gen < viewOut.again.gen
                      /\ (viewOut.listed.index = named.index /\ Master.index = named.index)
                            => ValidatesLeRobotView
    BY DEF LeRobotViewOfOneContent
  <2>1. /\ viewOut.provenance /\ named.index # <<>>
        /\ \A copy \in viewOut.seen : copy.index = named.index
                                        \/ (named.gen < copy.gen /\ copy.gen < viewOut.again.gen)
    BY DEF ViewInv, ReturnedInv
  <2>2. ASSUME viewOut.listed.index = named.index, Master.index = named.index PROVE ValidatesLeRobotView
    <3>1. HasData
      BY <2>1, <2>2, MasterFacts
    <3> QED  BY <2>1, <2>2, <3>1 DEF ValidatesLeRobotView
  <2> QED  BY <2>1, <2>2
<1> QED  BY <1>1, <1>2 DEF ViewFromOneMaster

------------------------------------------------------------------------------
(* The tools together *)

PipelineInv == StagingInv /\ BuildInv /\ ViewInv /\ ArchiveInv /\ InputInv

LEMMA PipelineInitInv == PipelineInit => PipelineInv
<1> SUFFICES ASSUME PipelineInit PROVE PipelineInv
  OBVIOUS
<1>1. DOMAIN take = Episodes /\ source \in Versions
  BY OpeningsAssumption DEF PipelineInit, Versions
<1>2. StagingInit /\ TrainInit /\ ArchiveInit
  BY DEF PipelineInit
<1> QED  BY <1>1, <1>2, StagingInitInv, BuildInitInv, ViewInitInv, ArchiveInitInv, InputInitInv DEF PipelineInv

LEMMA PipelineStep ==
  PipelineInv /\ [PipelineNext /\ UNCHANGED <<desk, samples>>]_pipelineVars => PipelineInv'
<1> SUFFICES ASSUME PipelineInv, [PipelineNext /\ UNCHANGED <<desk, samples>>]_pipelineVars
             PROVE  PipelineInv'
  OBVIOUS
<1>1. /\ [StagingNext]_stagingVars
      /\ [BuildNext \/ (\E s \in Sources : SourceChanges(s)) \/ ViewNext]_trainVars
      /\ [LabelNext \/ ManifestNext \/ ExportNext]_archiveVars
  BY DEF PipelineNext, pipelineVars
<1>2. StagingInv'
  BY <1>1, StagingStep DEF PipelineInv
<1>3. BuildInv' /\ ViewInv'
  BY <1>1, TrainingStep DEF PipelineInv
<1>4. ArchiveInv'
  BY <1>1, ArchiveStep DEF PipelineInv
<1>5. InputInv'
  <2>1. UNCHANGED samples
    BY DEF pipelineVars
  <2> QED  BY <1>1, <2>1, InputStep DEF PipelineInv
<1> QED  BY <1>2, <1>3, <1>4, <1>5 DEF PipelineInv

\* Every behaviour of the offline tools keeps the invariant, for all takes,
\* configurations, archives and bounds.
THEOREM PipelineInvariance == PipelineSpec => []PipelineInv
<1>1. PipelineInit => PipelineInv
  BY PipelineInitInv
<1>2. PipelineInv /\ [PipelineNext /\ UNCHANGED <<desk, samples>>]_pipelineVars => PipelineInv'
  BY PipelineStep
<1> QED  BY <1>1, <1>2, PTL DEF PipelineSpec

\* The shard root is sound after any kill of materialize_staging_episode and
\* set_staging_review.
THEOREM ShardsCorrect == PipelineSpec => []ShardRootIsSound
<1>1. PipelineInv => ShardRootIsSound
  <2> SUFFICES ASSUME PipelineInv PROVE ShardRootIsSound
    OBVIOUS
  <2>1. PipelineTypeOK
    <3>1. StagingTypeOK /\ source \in [Episodes -> 0 .. MaxVersion] /\ builds \in 0 .. MaxBuilds /\ tmp.parts \subseteq Parts
      BY DEF PipelineInv, StagingInv, BuildInv, BuildTypes, Versions
    <3>2. metaVersion \in [Archives -> 1 .. MaxLabels + 1] /\ label \in [Archives -> TrainingLabels \cup {"unlabeled"}]
      BY DEF PipelineInv, ArchiveInv, ArchiveTypes, Labels
    <3> QED  BY <3>1, <3>2 DEF PipelineTypeOK
  <2> QED  BY <2>1 DEF PipelineInv, StagingInv, ShardRootIsSound
<1> QED  BY <1>1, PipelineInvariance, PTL

\* What is reused or validated was built from the files its marker names,
\* although a review rewrites them meanwhile.
THEOREM BuildsCorrect == PipelineSpec => []BuiltFromWhatItNames
<1>1. PipelineInv => BuiltFromWhatItNames
  BY TrainingGives DEF PipelineInv
<1> QED  BY <1>1, PipelineInvariance, PTL

\* Whatever --replace does while a view is built, what the builder returns is
\* what its provenance names.
THEOREM ViewsCorrect == PipelineSpec => []ViewFromOneMaster
<1>1. PipelineInv => ViewFromOneMaster
  BY ViewsFromInv DEF PipelineInv
<1> QED  BY <1>1, PipelineInvariance, PTL

\* What a published root keeps is in one split, and no source episode in two,
\* where it is one item or a declared group holds its segments.
THEOREM SplitsCorrect == PipelineSpec => []NothingLeaks
<1>1. PipelineInv => NothingLeaks
  BY NothingLeaksFromRoot DEF PipelineInv
<1> QED  BY <1>1, PipelineInvariance, PTL

\* A root of recordings in time order passes its validator, an action chunk
\* runs over no gap, and sync-staging pairs no row with a later sample.
THEOREM RowsCorrect == PipelineSpec => []RowsAreSound
<1>1. PipelineInv => RowsAreSound
  BY RowsFromInv DEF PipelineInv
<1> QED  BY <1>1, PipelineInvariance, PTL

\* Statistics and exports hold what was validated, whatever is relabelled
\* while they are computed.
THEOREM ArchiveCorrect == PipelineSpec => []ArchiveOutputIsVetted
<1>1. PipelineInv => ArchiveOutputIsVetted
  BY ArchiveGives DEF PipelineInv
<1> QED  BY <1>1, PipelineInvariance, PTL

\* A published root is whole, a build that raises leaves no temporary root, and
\* os.replace takes the place of a whole root only when it was asked to.
THEOREM RootsCorrect == PipelineSpec => PublishedRootIsSound
<1>1. PipelineInv => PublishedIsWhole /\ TempRemoved
  BY TrainingGives DEF PipelineInv
<1>2. PipelineInv /\ [PipelineNext /\ UNCHANGED <<desk, samples>>]_pipelineVars
        => [out # NoRoot /\ ~out.torn /\ out' # out => build.replace]_trainVars
  <2> SUFFICES ASSUME PipelineInv, [PipelineNext /\ UNCHANGED <<desk, samples>>]_pipelineVars,
                      out # NoRoot, ~out.torn, out' # out
               PROVE  build.replace
    OBVIOUS
  <2>1. BuildNext \/ (\E s \in Sources : SourceChanges(s)) \/ ViewNext
    BY DEF PipelineNext, pipelineVars, trainVars
  <2>2. (\E s \in Sources : SourceChanges(s)) \/ ViewNext => out' = out
    BY DEF SourceChanges, ViewNext, BeginLeRobotView, ListEpisodes, HashMaster, BeginOpenpiView, WriteAudited,
           CheckManifest, ListSplit, CopyEpisode, LinkEpisode, FinishView, ViewStops
  <2> QED  BY <2>1, <2>2, OverwriteStep DEF PipelineInv
<1> HIDE DEF PipelineInv
<1> QED  BY <1>1, <1>2, PipelineInvariance, PTL DEF PipelineSpec, PublishedRootIsSound, NoSilentOverwrite
=============================================================================
