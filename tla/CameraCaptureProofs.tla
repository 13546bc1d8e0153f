-------------------------- MODULE CameraCaptureProofs --------------------------
(***************************************************************************)
(* Proofs about CameraCapture, for every capacity of the ring, every       *)
(* number of image planes and every number of frames.                      *)
(*                                                                         *)
(* A reader copies a slot that the child may be overwriting.  That it      *)
(* never uses a mixture follows from what a slot's header says of its      *)
(* planes (SlotInv), from versions that only grow (HeaderMoves), and from  *)
(* what the reader copied as long as the header is what it was (ReaderInv).*)
(* That a reference can be read as long as its frame is in the ring needs  *)
(* the arithmetic of the ring: the frame a whole capacity younger is in    *)
(* the same slot (SlotPeriod), so what is evicted was overwritten (RefInv).*)
(***************************************************************************)
EXTENDS CameraCapture, FiniteSetTheorems, WellFoundedInduction, TLAPS

ChildPlaces ==
    {"down", "attach", "open", "loop", "capture", "publish", "planes", "announce", "failing", "closing", "dead"}
HandlePlaces ==
    {"new", "starting", "running", "stop", "joining", "terminated", "killed", "releasing", "closed"}
Words == {"ready", "error", "stopped"}

TypeInv ==
    /\ threaded \in BOOLEAN /\ exitOk \in BOOLEAN /\ stop \in BOOLEAN
    /\ cpc \in ChildPlaces
    /\ captured \in 0 .. WarmupFrames + MaxFrames /\ attempt \in 0 .. SyncRetries
    /\ received \in 0 .. MaxFrames /\ plane \in 0 .. Planes + 1
    /\ device \in {"none", "open", "closed"}
    /\ header \in [Slots -> [version : 0 .. 2 * MaxFrames, seq : Frames \cup {None}]]
    /\ pixels \in [1 .. Planes -> [Slots -> PlaneValues]]
    /\ descriptors \in Seq(Frames) /\ Len(descriptors) <= Capacity
    /\ status \in Seq(Words) /\ Len(status) <= 3
    /\ ppc \in HandlePlaces
    /\ references \in Seq(Frames) /\ Len(references) <= Capacity
    /\ metadata \subseteq Frames /\ profile \in BOOLEAN /\ error \in BOOLEAN
    /\ rpc \in {"idle", "copy", "check"} /\ wanted \in Frames \cup {None} /\ tries \in 0 .. 3
    /\ copied \in Seq(PlaneValues) /\ Len(copied) <= Planes
    /\ lastRead \in Seq(PlaneValues) /\ Len(lastRead) <= Planes

\* The child has captured the frame it publishes, and those before it.
Writing == {"planes", "announce"}
CountInv ==
    /\ received = 0 \/ received + WarmupFrames <= captured
    /\ cpc \in {"publish"} \cup Writing => received + WarmupFrames < captured
    /\ cpc = "planes" => plane >= 1

\* What the header of a slot says: of its place, its age, its version and its
\* planes.  Only the slot being written, or left by a child that was killed,
\* has the version of no frame.
SlotInv(i) ==
    /\ header[i].seq # None => SlotOf(header[i].seq) = i
    /\ \/ header[i].seq < received
       \/ header[i].seq = received /\ i = SlotOf(received) /\ cpc \in Writing \cup {"dead"}
    /\ \/ header[i].version = StableVersion(header[i].seq)
       \/ header[i].version = StableVersion(received) - 1 /\ i = SlotOf(received)
          /\ cpc \in {"planes", "dead"}
    /\ header[i].seq # None /\ header[i].version = StableVersion(header[i].seq) =>
         \A p \in 1 .. Planes : pixels[p][i] = header[i].seq

\* The slot under the child's hands.
WriterInv ==
    /\ cpc = "planes" =>
         /\ header[SlotOf(received)].version = StableVersion(received) - 1
         /\ \A p \in 1 .. plane - 1 : pixels[p][SlotOf(received)] = received
    /\ cpc = "announce" =>
         header[SlotOf(received)] = [version |-> StableVersion(received), seq |-> received]

\* A slot is at least as new as the last frame that was put into it.
LastInv == \A s \in Frames : s < received => header[SlotOf(s)].version >= StableVersion(s)

RingInv == (\A i \in Slots : SlotInv(i)) /\ WriterInv /\ LastInv

\* While the header is what it was when the copy began, the copy is of that
\* frame; once it is not, the frame is gone for ever.
Overwritten(s) == header[SlotOf(s)].version > StableVersion(s)
ReaderInv ==
    /\ rpc # "idle" => wanted \in Frames
    /\ rpc = "copy" => Published(wanted) \/ Overwritten(wanted)
    /\ rpc = "copy" /\ Published(wanted) => \A j \in 1 .. Len(copied) : copied[j] = wanted
    /\ NoTornFrame

\* A reference without metadata is of a frame that is gone.
RefInv ==
    /\ \A r \in Seqs(references) \cup Seqs(descriptors) \cup metadata : r < received
    /\ \A r \in Seqs(references) : r \in metadata \/ Overwritten(r)

\* What the handle knows: why a child stopped, and that a profile is of a
\* child that published a frame.
StatusRoom ==
    (IF received > 0 THEN 1 ELSE 0) + (IF cpc \in {"closing", "dead"} THEN 1 ELSE 0)
      + (IF cpc = "dead" THEN 1 ELSE 0)
StatusInv ==
    /\ Len(status) <= StatusRoom
    /\ "ready" \in Seqs(status) => received > 0
    /\ ~threaded /\ (cpc = "closing" \/ "stopped" \in Seqs(status)) => error \/ "error" \in Seqs(status) \/ stop
    /\ ~threaded /\ (profile \/ ppc = "running") => received > 0 \/ error \/ stop

\* The order of start(), stop() and the end of the child.
OrderInv ==
    /\ ppc = "new" => cpc = "down"
    /\ ppc \in {"new", "starting", "running"} => ~stop
    /\ ~threaded /\ ppc \in {"releasing", "closed"} => ~ChildAlive

CameraInv == TypeInv /\ CountInv /\ RingInv /\ ReaderInv /\ RefInv /\ StatusInv /\ OrderInv

-----------------------------------------------------------------------------
(* The arithmetic of the ring *)

\* Division by a positive number leaves a remainder below it.
LEMMA Division ==
  ASSUME NEW s \in Int, NEW c \in Nat \ {0}
  PROVE  s \div c \in Int /\ s % c \in 0 .. c - 1 /\ s = c * (s \div c) + (s % c)
<1>1. s \div c \in Int /\ s % c \in 0 .. c - 1
  OBVIOUS
<1>2. s = c * (s \div c) + (s % c)
  BY SMTT(60)
<1> QED
  BY <1>1, <1>2

\* The only multiple of c between -c and c is zero.
LEMMA SmallMultiple ==
  ASSUME NEW c \in Nat \ {0}, NEW d \in Int, -c < c * d, c * d < c
  PROVE  d = 0
<1>1. CASE d >= 1
  BY <1>1
<1>2. CASE d <= -1
  BY <1>2
<1> QED
  BY <1>1, <1>2

\* The next multiple.
LEMMA Distribute ==
  ASSUME NEW c \in Nat, NEW a \in Int, NEW b \in Int
  PROVE  c * (b - a - 1) = c * b - c * a - c
BY SMTT(60)

\* A remainder is periodic.
LEMMA Periodic ==
  ASSUME NEW s \in Int, NEW c \in Nat \ {0}
  PROVE  (s + c) % c = s % c
<1> DEFINE a == s \div c
           b == (s + c) \div c
           d == b - a - 1
<1>1. a \in Int /\ s % c \in 0 .. c - 1 /\ s = c * a + (s % c)
  BY Division
<1>2. b \in Int /\ (s + c) % c \in 0 .. c - 1 /\ s + c = c * b + ((s + c) % c)
  <2>1. s + c \in Int
    OBVIOUS
  <2> QED
    BY <2>1, Division
<1> HIDE DEF a, b
<1>3. d \in Int /\ c * d = c * b - c * a - c
  BY <1>1, <1>2, Distribute
<1> HIDE DEF d
<1>4. c * d = (s % c) - ((s + c) % c)
  <2>1. c * a \in Int /\ c * b \in Int
    BY <1>1, <1>2
  <2> QED
    BY <1>1, <1>2, <1>3, <2>1
<1>5. d = 0
  <2>1. -c < c * d /\ c * d < c
    BY <1>1, <1>2, <1>4
  <2> QED
    BY <1>3, <2>1, SmallMultiple
<1>6. c * d = 0
  BY <1>5
<1> QED
  BY <1>1, <1>2, <1>4, <1>6

USE CameraAssumption

\* Every frame has a slot, and the frame a capacity later has the same.
LEMMA SlotPeriod ==
  ASSUME NEW s \in Int
  PROVE  SlotOf(s) \in Slots /\ SlotOf(s + Capacity) = SlotOf(s)
<1>1. SlotOf(s) \in Slots
  BY DEF SlotOf, Slots
<1>2. SlotOf(s + Capacity) = SlotOf(s)
  BY Periodic DEF SlotOf
<1> QED
  BY <1>1, <1>2

\* A nonempty set of naturals has a least element.
LEMMA LeastElement ==
  ASSUME NEW X, X # {}, X \subseteq Nat
  PROVE  \E t \in X : \A u \in X : t <= u
<1>1. \E x \in X : \A y \in X : ~(<<y, x>> \in OpToRel(<, Nat))
  BY NatLessThanWellFounded, WFMin
<1>2. PICK x \in X : \A y \in X : ~(<<y, x>> \in OpToRel(<, Nat))
  BY <1>1
<1>3. ASSUME NEW y \in X PROVE x <= y
  <2>1. x \in Nat /\ y \in Nat
    OBVIOUS
  <2>2. ~(<<y, x>> \in OpToRel(<, Nat))
    BY <1>2
  <2>3. ~(y < x)
    BY <2>1, <2>2 DEF OpToRel
  <2> QED
    BY <2>1, <2>3
<1> QED
  BY <1>3

-----------------------------------------------------------------------------
(* The queues *)

\* _queue_put_latest keeps the bound; it adds the item and may drop others.
LEMMA PutLatest ==
  ASSUME NEW S, NEW q \in Seq(S), NEW x \in S, NEW n \in Nat \ {0}, Len(q) <= n
  PROVE  /\ QueuePutLatest(q, x, n) \in Seq(S) /\ Len(QueuePutLatest(q, x, n)) <= n
         /\ Seqs(QueuePutLatest(q, x, n)) \subseteq Seqs(q) \cup {x}
         /\ Len(q) < n => /\ Len(QueuePutLatest(q, x, n)) = Len(q) + 1
                          /\ Seqs(QueuePutLatest(q, x, n)) = Seqs(q) \cup {x}
<1>1. CASE Len(q) < n
  <2>1. QueuePutLatest(q, x, n) = Append(q, x)
    BY <1>1 DEF QueuePutLatest, Latest
  <2> QED
    BY <1>1, <2>1 DEF Seqs
<1>2. CASE Len(q) = n
  <2>1. QueuePutLatest(q, x, n) = Tail(Append(q, x))
    BY <1>2 DEF QueuePutLatest, Latest
  <2>2. /\ Append(q, x) \in Seq(S) /\ Append(q, x) # <<>> /\ Len(Append(q, x)) = n + 1
        /\ \A i \in 1 .. n + 1 : Append(q, x)[i] \in Seqs(q) \cup {x}
    BY <1>2 DEF Seqs
  <2> DEFINE a == Append(q, x)
  <2> HIDE DEF a
  <2>3. Tail(a) \in Seq(S) /\ Len(Tail(a)) = n /\ \A i \in 1 .. n : Tail(a)[i] = a[i + 1]
    BY <2>2 DEF a
  <2>4. \A i \in 1 .. n : Tail(a)[i] \in Seqs(q) \cup {x}
    BY <2>2, <2>3 DEF a
  <2> QED
    BY <1>2, <2>1, <2>3, <2>4 DEF Seqs, a
<1> QED
  BY <1>1, <1>2

\* The head and the rest of a queue.
LEMMA TakeHead ==
  ASSUME NEW S, NEW q \in Seq(S), q # <<>>
  PROVE  /\ Head(q) \in S /\ Head(q) \in Seqs(q) /\ Tail(q) \in Seq(S) /\ Len(Tail(q)) = Len(q) - 1
         /\ Seqs(Tail(q)) \subseteq Seqs(q)
<1>1. Tail(q) \in Seq(S) /\ Len(Tail(q)) = Len(q) - 1 /\ Len(q) >= 1 /\ \A i \in 1 .. Len(q) - 1 : Tail(q)[i] = q[i + 1]
  OBVIOUS
<1>2. Head(q) = q[1] /\ 1 \in 1 .. Len(q)
  BY <1>1
<1>3. Seqs(Tail(q)) \subseteq Seqs(q)
  BY <1>1 DEF Seqs
<1> QED
  BY <1>1, <1>2, <1>3 DEF Seqs

-----------------------------------------------------------------------------
(* What a step that does not touch it keeps *)

\* Headers change only to greater versions.
HeaderMoves ==
    \A i \in Slots :
       header'[i] = header[i] \/ (header'[i].version \in Nat /\ header'[i].version > header[i].version)

\* The child's moves that neither begin nor end a publication.
QuietMove ==
    \/ cpc' = cpc
    \/ cpc \notin Writing \cup {"dead"} /\ cpc' \notin Writing
    \/ cpc' = "dead"

\* The headers are of frames and their versions are numbers.
LEMMA HeaderTypes ==
  ASSUME TypeInv
  PROVE  /\ received \in Nat /\ received \in Int /\ MaxFrames \in Nat /\ Planes \in Nat /\ Capacity \in Nat \ {0}
         /\ \A i \in Slots : header[i].version \in Nat /\ header[i].seq \in Int /\ header[i] \in
              [version : 0 .. 2 * MaxFrames, seq : Frames \cup {None}]
         /\ \A s \in Frames : s \in Nat /\ s \in Int /\ SlotOf(s) \in Slots
         /\ SlotOf(received) \in Slots
<1>1. received \in Int /\ \A s \in Frames : s \in Nat /\ s \in Int
  BY DEF TypeInv, Frames
<1>2. \A i \in Slots : header[i] \in [version : 0 .. 2 * MaxFrames, seq : Frames \cup {None}]
  BY DEF TypeInv
<1>3. \A i \in Slots : header[i].version \in Nat /\ header[i].seq \in Int
  BY <1>1, <1>2 DEF None
<1>4. SlotOf(received) \in Slots /\ \A s \in Frames : SlotOf(s) \in Slots
  BY <1>1, SlotPeriod
<1> QED
  BY <1>1, <1>2, <1>3, <1>4 DEF TypeInv

\* The ring is left alone.
LEMMA RingKept ==
  ASSUME TypeInv, RingInv, UNCHANGED <<ringVars, received, plane>>, QuietMove
  PROVE  RingInv' /\ HeaderMoves
<1>1. header' = header /\ pixels' = pixels /\ received' = received /\ plane' = plane
  BY DEF ringVars
<1>2. HeaderMoves
  BY <1>1 DEF HeaderMoves
<1>3. ASSUME NEW i \in Slots PROVE SlotInv(i)'
  BY <1>1 DEF RingInv, SlotInv, QuietMove, Writing
<1>4. WriterInv'
  BY <1>1 DEF RingInv, WriterInv, QuietMove, Writing
<1>5. LastInv'
  BY <1>1 DEF RingInv, LastInv
<1> QED
  BY <1>2, <1>3, <1>4, <1>5 DEF RingInv

\* A reader sees the ring move on.
LEMMA ReaderKept ==
  ASSUME TypeInv, ReaderInv, HeaderMoves, UNCHANGED readerVars
  PROVE  ReaderInv'
<1>1. rpc' = rpc /\ wanted' = wanted /\ copied' = copied /\ lastRead' = lastRead
  BY DEF readerVars
<1>2. NoTornFrame'
  BY <1>1 DEF ReaderInv, NoTornFrame
<1>3. ASSUME rpc = "copy"
      PROVE  /\ Published(wanted)' => Published(wanted)
             /\ Published(wanted)' \/ Overwritten(wanted)'
  <2>1. wanted \in Frames /\ SlotOf(wanted) \in Slots /\ wanted \in Nat
    BY <1>3, HeaderTypes DEF ReaderInv
  <2>2. Published(wanted) \/ Overwritten(wanted)
    BY <1>3 DEF ReaderInv
  <2>3. header'[SlotOf(wanted)] = header[SlotOf(wanted)]
        \/ (header'[SlotOf(wanted)].version \in Nat /\ header'[SlotOf(wanted)].version > header[SlotOf(wanted)].version)
    BY <2>1 DEF HeaderMoves
  <2>4. CASE header'[SlotOf(wanted)] = header[SlotOf(wanted)]
    BY <1>1, <2>2, <2>4 DEF Published, Overwritten
  <2>5. CASE header'[SlotOf(wanted)].version \in Nat /\ header'[SlotOf(wanted)].version > header[SlotOf(wanted)].version
    <3>1. header[SlotOf(wanted)].version \in Nat /\ header[SlotOf(wanted)].version >= StableVersion(wanted)
      BY <2>1, <2>2, HeaderTypes DEF Published, Overwritten, StableVersion
    <3> QED
      BY <1>1, <2>1, <2>5, <3>1 DEF Published, Overwritten, StableVersion
  <2> QED
    BY <2>3, <2>4, <2>5
<1> QED
  BY <1>1, <1>2, <1>3 DEF ReaderInv

\* Frames that are gone stay gone.
LEMMA GoneStays ==
  ASSUME TypeInv, HeaderMoves, NEW s \in Frames, Overwritten(s)
  PROVE  Overwritten(s)'
<1>1. SlotOf(s) \in Slots /\ s \in Nat /\ header[SlotOf(s)].version \in Nat
  BY HeaderTypes
<1>2. header'[SlotOf(s)] = header[SlotOf(s)]
      \/ (header'[SlotOf(s)].version \in Nat /\ header'[SlotOf(s)].version > header[SlotOf(s)].version)
  BY <1>1 DEF HeaderMoves
<1> QED
  BY <1>1, <1>2 DEF HeaderMoves, Overwritten, StableVersion

LEMMA RefKept ==
  ASSUME TypeInv, RefInv, HeaderMoves, UNCHANGED <<references, descriptors, metadata>>, received' = received
  PROVE  RefInv'
<1>1. references' = references /\ descriptors' = descriptors /\ metadata' = metadata /\ received' = received
  OBVIOUS
<1>2. Seqs(references) \subseteq Frames
  BY DEF TypeInv, Seqs
<1>3. \A r \in Seqs(references) : r \in metadata \/ Overwritten(r)'
  BY <1>2, GoneStays DEF RefInv
<1> QED
  BY <1>1, <1>3 DEF RefInv, Seqs

-----------------------------------------------------------------------------
(* The start *)

LEMMA InitInv ==
  ASSUME Init
  PROVE  CameraInv
<1>1. /\ header \in [Slots -> [version : 0 .. 2 * MaxFrames, seq : Frames \cup {None}]]
      /\ pixels \in [1 .. Planes -> [Slots -> PlaneValues]]
  BY DEF Init, CreateRing, PlaneValues
<1>2. TypeInv
  <2>1. /\ threaded \in BOOLEAN /\ exitOk \in BOOLEAN /\ stop \in BOOLEAN /\ profile \in BOOLEAN /\ error \in BOOLEAN
        /\ cpc \in ChildPlaces /\ device \in {"none", "open", "closed"} /\ ppc \in HandlePlaces
        /\ rpc \in {"idle", "copy", "check"}
    BY Zenon DEF Init, ChildPlaces, HandlePlaces
  <2>2. /\ captured \in 0 .. WarmupFrames + MaxFrames /\ attempt \in 0 .. SyncRetries
        /\ received \in 0 .. MaxFrames /\ plane \in 0 .. Planes + 1 /\ tries \in 0 .. 3
        /\ wanted \in Frames \cup {None} /\ metadata \subseteq Frames
    BY DEF Init
  <2>3. /\ descriptors \in Seq(Frames) /\ Len(descriptors) <= Capacity
        /\ status \in Seq(Words) /\ Len(status) <= 3
        /\ references \in Seq(Frames) /\ Len(references) <= Capacity
        /\ copied \in Seq(PlaneValues) /\ Len(copied) <= Planes
        /\ lastRead \in Seq(PlaneValues) /\ Len(lastRead) <= Planes
    BY DEF Init
  <2> QED
    BY <1>1, <2>1, <2>2, <2>3 DEF TypeInv
<1>3. \A i \in Slots : header[i] = [version |-> 0, seq |-> None]
  BY DEF Init, CreateRing
<1>4. RingInv
  BY <1>3 DEF Init, RingInv, SlotInv, WriterInv, LastInv, Writing, StableVersion, None, Frames
<1>5. CountInv /\ ReaderInv /\ RefInv /\ StatusInv /\ OrderInv
  BY DEF Init, CountInv, ReaderInv, NoTornFrame, RefInv, StatusInv, StatusRoom, OrderInv, Seqs, Writing
<1> QED
  BY <1>2, <1>4, <1>5 DEF CameraInv
-----------------------------------------------------------------------------
(* Steps that leave the ring, the references and the readers alone *)

LEMMA QuietKeeps ==
  ASSUME CameraInv, QuietMove, TypeInv', CountInv', StatusInv', OrderInv',
         UNCHANGED <<received, plane, ringVars, references, descriptors, metadata, readerVars>>
  PROVE  CameraInv'
<1>1. TypeInv /\ RingInv /\ ReaderInv /\ RefInv
  BY DEF CameraInv
<1>2. UNCHANGED <<ringVars, received, plane>> /\ UNCHANGED readerVars
      /\ UNCHANGED <<references, descriptors, metadata>> /\ received' = received
  OBVIOUS
<1>3. RingInv' /\ HeaderMoves
  BY <1>1, <1>2, RingKept
<1>4. ReaderInv' /\ RefInv'
  BY <1>1, <1>2, <1>3, ReaderKept, RefKept
<1> QED
  BY <1>3, <1>4 DEF CameraInv

\* The child attaches to the ring, or dies before its handler is installed.
LEMMA AttachKeeps ==
  ASSUME CameraInv, Attach
  PROVE  CameraInv'
<1>1. cpc = "attach" /\ cpc' \in {"open", "dead"} /\ exitOk' \in BOOLEAN
      /\ UNCHANGED <<threaded, captured, attempt, received, plane, device, ringVars, channelVars, handleVars, readerVars>>
  BY DEF Attach, ChildTo, CameraInv, TypeInv
<1>2. TypeInv'
  BY <1>1 DEF CameraInv, TypeInv, ChildPlaces, HandlePlaces, ringVars, channelVars, handleVars, readerVars, childVars
<1>3. CountInv'
  BY <1>1 DEF CameraInv, TypeInv, CountInv, Writing, childVars
<1>4. StatusInv'
  BY <1>1 DEF CameraInv, TypeInv, StatusInv, StatusRoom, OrderInv, ChildAlive, childVars, channelVars, handleVars
<1>5. OrderInv'
  BY <1>1 DEF CameraInv, OrderInv, ChildAlive, childVars, channelVars, handleVars
<1>6. QuietMove /\ UNCHANGED <<received, plane, ringVars, references, descriptors, metadata, readerVars>>
  BY <1>1 DEF QuietMove, Writing, childVars, handleVars, channelVars
<1> QED
  BY <1>2, <1>3, <1>4, <1>5, <1>6, QuietKeeps

\* The camera is opened, or the child fails.
LEMMA OpenCameraKeeps ==
  ASSUME CameraInv, OpenCamera
  PROVE  CameraInv'
<1>1. cpc = "open" /\ cpc' \in {"loop", "capture", "failing"} /\ device' \in {"none", "open", "closed"}
      /\ UNCHANGED <<threaded, captured, attempt, received, plane, exitOk, ringVars, channelVars, handleVars, readerVars>>
  BY DEF OpenCamera, ChildTo, CameraInv, TypeInv
<1>2. TypeInv'
  BY <1>1 DEF CameraInv, TypeInv, ChildPlaces, HandlePlaces, ringVars, channelVars, handleVars, readerVars, childVars
<1>3. CountInv'
  BY <1>1 DEF CameraInv, TypeInv, CountInv, Writing, childVars
<1>4. StatusInv'
  BY <1>1 DEF CameraInv, TypeInv, StatusInv, StatusRoom, OrderInv, ChildAlive, childVars, channelVars, handleVars
<1>5. OrderInv'
  BY <1>1 DEF CameraInv, OrderInv, ChildAlive, childVars, channelVars, handleVars
<1>6. QuietMove /\ UNCHANGED <<received, plane, ringVars, references, descriptors, metadata, readerVars>>
  BY <1>1 DEF QuietMove, Writing, childVars, handleVars, channelVars
<1> QED
  BY <1>2, <1>3, <1>4, <1>5, <1>6, QuietKeeps

\* The stop event ends the loop.
LEMMA CaptureLoopKeeps ==
  ASSUME CameraInv, CaptureLoop
  PROVE  CameraInv'
<1>1. cpc = "loop" /\ cpc' \in {"closing", "capture"} /\ (cpc' = "closing" => stop)
      /\ UNCHANGED <<threaded, captured, attempt, received, plane, exitOk, device, ringVars, channelVars,
                     handleVars, readerVars>>
  BY DEF CaptureLoop, ChildTo, CameraInv, TypeInv
<1>2. TypeInv'
  BY <1>1 DEF CameraInv, TypeInv, ChildPlaces, HandlePlaces, ringVars, channelVars, handleVars, readerVars, childVars
<1>3. CountInv'
  BY <1>1 DEF CameraInv, TypeInv, CountInv, Writing, childVars
<1>4. StatusInv'
  BY <1>1 DEF CameraInv, TypeInv, StatusInv, StatusRoom, OrderInv, ChildAlive, childVars, channelVars, handleVars
<1>5. OrderInv'
  BY <1>1 DEF CameraInv, OrderInv, ChildAlive, childVars, channelVars, handleVars
<1>6. QuietMove /\ UNCHANGED <<received, plane, ringVars, references, descriptors, metadata, readerVars>>
  BY <1>1 DEF QuietMove, Writing, childVars, handleVars, channelVars
<1> QED
  BY <1>2, <1>3, <1>4, <1>5, <1>6, QuietKeeps

\* A frameset that cannot be used ends the child.
LEMMA CaptureFailsKeeps ==
  ASSUME CameraInv, CaptureFails
  PROVE  CameraInv'
<1>1. cpc = "capture" /\ cpc' = "failing"
      /\ UNCHANGED <<threaded, captured, attempt, received, plane, exitOk, device, ringVars, channelVars,
                     handleVars, readerVars>>
  BY DEF CaptureFails, ChildTo, CameraInv, TypeInv
<1>2. TypeInv'
  BY <1>1 DEF CameraInv, TypeInv, ChildPlaces, HandlePlaces, ringVars, channelVars, handleVars, readerVars, childVars
<1>3. CountInv'
  BY <1>1 DEF CameraInv, TypeInv, CountInv, Writing, childVars
<1>4. StatusInv'
  BY <1>1 DEF CameraInv, TypeInv, StatusInv, StatusRoom, OrderInv, ChildAlive, childVars, channelVars, handleVars
<1>5. OrderInv'
  BY <1>1 DEF CameraInv, OrderInv, ChildAlive, childVars, channelVars, handleVars
<1>6. QuietMove /\ UNCHANGED <<received, plane, ringVars, references, descriptors, metadata, readerVars>>
  BY <1>1 DEF QuietMove, Writing, childVars, handleVars, channelVars
<1> QED
  BY <1>2, <1>3, <1>4, <1>5, <1>6, QuietKeeps

\* One frameset more, or one attempt.
LEMMA CaptureOnceKeeps ==
  ASSUME CameraInv, CaptureOnce
  PROVE  CameraInv'
<1>1. cpc = "capture" /\ cpc' \in {"capture", "loop", "publish", "failing"}
      /\ captured' \in 0 .. WarmupFrames + MaxFrames /\ attempt' \in 0 .. SyncRetries
      /\ captured' >= captured /\ (cpc' = "publish" => captured >= WarmupFrames /\ captured' = captured + 1)
      /\ UNCHANGED <<threaded, received, plane, exitOk, device, ringVars, channelVars, handleVars, readerVars>>
  BY SMTT(60) DEF CaptureOnce, ChildTo, CameraInv, TypeInv
<1>2. TypeInv'
  BY <1>1 DEF CameraInv, TypeInv, ChildPlaces, HandlePlaces, ringVars, channelVars, handleVars, readerVars, childVars
<1>3. CountInv'
  BY <1>1 DEF CameraInv, TypeInv, CountInv, Writing, childVars
<1>4. StatusInv'
  BY <1>1 DEF CameraInv, TypeInv, StatusInv, StatusRoom, OrderInv, ChildAlive, childVars, channelVars, handleVars
<1>5. OrderInv'
  BY <1>1 DEF CameraInv, OrderInv, ChildAlive, childVars, channelVars, handleVars
<1>6. QuietMove /\ UNCHANGED <<received, plane, ringVars, references, descriptors, metadata, readerVars>>
  BY <1>1 DEF QuietMove, Writing, childVars, handleVars, channelVars
<1> QED
  BY <1>2, <1>3, <1>4, <1>5, <1>6, QuietKeeps

\* The child is started.
LEMMA StartKeeps ==
  ASSUME CameraInv, Start
  PROVE  CameraInv'
<1>1. ppc = "new" /\ ppc' \in {"running", "starting"} /\ (~threaded => ppc' = "starting")
      /\ cpc = "down" /\ cpc' \in {"open", "attach"}
      /\ UNCHANGED <<threaded, captured, attempt, received, plane, exitOk, device, ringVars, channelVars,
                     references, metadata, profile, error, readerVars>>
  BY DEF Start, ChildTo, CameraInv, TypeInv, OrderInv
<1>2. TypeInv'
  BY <1>1 DEF CameraInv, TypeInv, ChildPlaces, HandlePlaces, ringVars, channelVars, handleVars, readerVars, childVars
<1>3. CountInv'
  BY <1>1 DEF CameraInv, TypeInv, CountInv, Writing, childVars
<1>4. StatusInv'
  BY <1>1 DEF CameraInv, TypeInv, StatusInv, StatusRoom, OrderInv, ChildAlive, childVars, channelVars, handleVars
<1>5. OrderInv'
  BY <1>1 DEF CameraInv, OrderInv, ChildAlive, childVars, channelVars, handleVars
<1>6. QuietMove /\ UNCHANGED <<received, plane, ringVars, references, descriptors, metadata, readerVars>>
  BY <1>1 DEF QuietMove, Writing, childVars, handleVars, channelVars
<1> QED
  BY <1>2, <1>3, <1>4, <1>5, <1>6, QuietKeeps

\* The wait of start() is over.
LEMMA StartTimeoutKeeps ==
  ASSUME CameraInv, StartTimeout
  PROVE  CameraInv'
<1>1. ppc = "starting" /\ ppc' = "stop"
      /\ UNCHANGED <<threaded, childVars, ringVars, channelVars, references, metadata, profile, error, readerVars>>
  BY DEF StartTimeout, ChildTo, CameraInv, TypeInv
<1>2. TypeInv'
  BY <1>1 DEF CameraInv, TypeInv, ChildPlaces, HandlePlaces, ringVars, channelVars, handleVars, readerVars, childVars
<1>3. CountInv'
  BY <1>1 DEF CameraInv, TypeInv, CountInv, Writing, childVars
<1>4. StatusInv'
  BY <1>1 DEF CameraInv, TypeInv, StatusInv, StatusRoom, OrderInv, ChildAlive, childVars, channelVars, handleVars
<1>5. OrderInv'
  BY <1>1 DEF CameraInv, OrderInv, ChildAlive, childVars, channelVars, handleVars
<1>6. QuietMove /\ UNCHANGED <<received, plane, ringVars, references, descriptors, metadata, readerVars>>
  BY <1>1 DEF QuietMove, Writing, childVars, handleVars, channelVars
<1> QED
  BY <1>2, <1>3, <1>4, <1>5, <1>6, QuietKeeps

\* stop() of a handle, whatever its child does.
LEMMA StopKeeps ==
  ASSUME CameraInv, Stop
  PROVE  CameraInv'
<1>1. ppc \in {"new", "running", "stop"} /\ (ppc = "new" => ~threaded) /\ stop' = TRUE /\ ppc' \in {"releasing", "joining"}
      /\ (ppc' = "releasing" => cpc = "down") /\ device' \in {"none", "open", "closed"}
      /\ UNCHANGED <<threaded, cpc, captured, attempt, received, plane, exitOk, ringVars, descriptors,
                     status, references, metadata, profile, error, readerVars>>
  BY DEF Stop, ChildTo, CameraInv, TypeInv
<1>2. TypeInv'
  BY <1>1 DEF CameraInv, TypeInv, ChildPlaces, HandlePlaces, ringVars, channelVars, handleVars, readerVars, childVars
<1>3. CountInv'
  BY <1>1 DEF CameraInv, TypeInv, CountInv, Writing, childVars
<1>4. StatusInv'
  BY <1>1 DEF CameraInv, TypeInv, StatusInv, StatusRoom, OrderInv, ChildAlive, childVars, channelVars, handleVars
<1>5. OrderInv'
  BY <1>1 DEF CameraInv, OrderInv, ChildAlive, childVars, channelVars, handleVars
<1>6. QuietMove /\ UNCHANGED <<received, plane, ringVars, references, descriptors, metadata, readerVars>>
  BY <1>1 DEF QuietMove, Writing, childVars, handleVars, channelVars
<1> QED
  BY <1>2, <1>3, <1>4, <1>5, <1>6, QuietKeeps

\* The child is gone.
LEMMA JoinedKeeps ==
  ASSUME CameraInv, Joined
  PROVE  CameraInv'
<1>1. ppc \in {"joining", "terminated", "killed"} /\ ~ChildAlive /\ ppc' \in {"closed", "releasing"}
      /\ UNCHANGED <<threaded, childVars, ringVars, channelVars, references, metadata, profile, error, readerVars>>
  BY DEF Joined, ChildTo, CameraInv, TypeInv
<1>2. TypeInv'
  BY <1>1 DEF CameraInv, TypeInv, ChildPlaces, HandlePlaces, ringVars, channelVars, handleVars, readerVars, childVars
<1>3. CountInv'
  BY <1>1 DEF CameraInv, TypeInv, CountInv, Writing, childVars
<1>4. StatusInv'
  BY <1>1 DEF CameraInv, TypeInv, StatusInv, StatusRoom, OrderInv, ChildAlive, childVars, channelVars, handleVars
<1>5. OrderInv'
  BY <1>1 DEF CameraInv, OrderInv, ChildAlive, childVars, channelVars, handleVars
<1>6. QuietMove /\ UNCHANGED <<received, plane, ringVars, references, descriptors, metadata, readerVars>>
  BY <1>1 DEF QuietMove, Writing, childVars, handleVars, channelVars
<1> QED
  BY <1>2, <1>3, <1>4, <1>5, <1>6, QuietKeeps

\* A live child is left behind, terminated or killed.
LEMMA JoinTimeoutKeeps ==
  ASSUME CameraInv, JoinTimeout
  PROVE  CameraInv'
<1>1. ppc \in {"joining", "terminated"} /\ ppc' \in {"closed", "terminated", "killed"} /\ (ppc' = "closed" => threaded)
      /\ cpc' \in {cpc, "dead"} /\ exitOk' \in BOOLEAN
      /\ UNCHANGED <<threaded, captured, attempt, received, plane, device, ringVars, channelVars, references,
                     metadata, profile, error, readerVars>>
  BY DEF JoinTimeout, ChildTo, CameraInv, TypeInv
<1>2. TypeInv'
  BY <1>1 DEF CameraInv, TypeInv, ChildPlaces, HandlePlaces, ringVars, channelVars, handleVars, readerVars, childVars
<1>3. CountInv'
  BY <1>1 DEF CameraInv, TypeInv, CountInv, Writing, childVars
<1>4. StatusInv'
  BY <1>1 DEF CameraInv, TypeInv, StatusInv, StatusRoom, OrderInv, ChildAlive, childVars, channelVars, handleVars
<1>5. OrderInv'
  BY <1>1 DEF CameraInv, OrderInv, ChildAlive, childVars, channelVars, handleVars
<1>6. QuietMove /\ UNCHANGED <<received, plane, ringVars, references, descriptors, metadata, readerVars>>
  BY <1>1 DEF QuietMove, Writing, childVars, handleVars, channelVars
<1> QED
  BY <1>2, <1>3, <1>4, <1>5, <1>6, QuietKeeps

-----------------------------------------------------------------------------
(* The reports of the child and what the handle hears of them *)

\* A report has room in the queue: there are at most three, and sixteen places.
LEMMA Report ==
  ASSUME TypeInv, NEW w \in Words
  PROVE  /\ QueuePutLatest(status, w, StatusSlots) \in Seq(Words)
         /\ Len(QueuePutLatest(status, w, StatusSlots)) = Len(status) + 1
         /\ Seqs(QueuePutLatest(status, w, StatusSlots)) = Seqs(status) \cup {w}
<1>1. status \in Seq(Words) /\ Len(status) < StatusSlots /\ StatusSlots \in Nat \ {0} /\ Len(status) \in Nat
  BY DEF TypeInv, StatusSlots
<1>2. Len(status) <= StatusSlots
  BY <1>1
<1> QED
  BY <1>1, <1>2, PutLatest

\* A child that failed says so.
LEMMA ReportFailureKeeps ==
  ASSUME CameraInv, ReportFailure
  PROVE  CameraInv'
<1> DEFINE new == QueuePutLatest(status, "error", StatusSlots)
<1>1. /\ cpc = "failing"
      /\ \/ threaded /\ cpc' = "dead" /\ error' = TRUE /\ status' = status
         \/ ~threaded /\ cpc' = "closing" /\ status' = new /\ error' = error
      /\ UNCHANGED <<threaded, captured, attempt, received, plane, exitOk, device, ringVars, descriptors, stop,
                     ppc, references, metadata, profile, readerVars>>
  BY DEF ReportFailure, ChildTo
<1>2. new \in Seq(Words) /\ Len(new) = Len(status) + 1 /\ Seqs(new) = Seqs(status) \cup {"error"}
  BY Report DEF CameraInv, Words
<1> HIDE DEF new
<1>3. TypeInv /\ StatusInv /\ OrderInv /\ CountInv
  BY DEF CameraInv
<1>4. Len(status) <= 1 /\ Len(status) \in Nat /\ received \in Nat
  BY <1>1, <1>3 DEF StatusInv, StatusRoom, TypeInv
<1>5. status' \in Seq(Words) /\ Len(status') <= 3
  BY <1>1, <1>2, <1>3, <1>4 DEF TypeInv
<1>11. error' \in BOOLEAN
  BY <1>1, <1>3 DEF TypeInv
<1>6. TypeInv'
  BY <1>1, <1>3, <1>5, <1>11 DEF TypeInv, ChildPlaces, ringVars, readerVars
<1>7. CountInv'
  BY <1>1, <1>3 DEF CountInv, Writing
<1>8. StatusInv'
  <2>1. Len(status') <= StatusRoom'
    BY <1>1, <1>2, <1>3, <1>4 DEF StatusInv, StatusRoom
  <2>2. CASE threaded
    BY <1>1, <1>3, <2>1, <2>2 DEF StatusInv, Seqs
  <2>3. CASE ~threaded
    <3>1. Seqs(status)' = Seqs(status) \cup {"error"}
      BY <1>1, <1>2, <2>3 DEF Seqs
    <3> QED
      BY <1>1, <1>3, <2>1, <2>3, <3>1 DEF StatusInv
  <2> QED
    BY <2>2, <2>3
<1>9. OrderInv'
  BY <1>1, <1>3 DEF OrderInv, ChildAlive
<1>10. QuietMove /\ UNCHANGED <<received, plane, ringVars, references, descriptors, metadata, readerVars>>
  BY <1>1 DEF QuietMove, Writing
<1> QED
  BY <1>6, <1>7, <1>8, <1>9, <1>10, QuietKeeps

\* The end of the child.
LEMMA FinallyKeeps ==
  ASSUME CameraInv, Finally
  PROVE  CameraInv'
<1> DEFINE new == QueuePutLatest(status, "stopped", StatusSlots)
<1>1. /\ cpc = "closing" /\ cpc' = "dead"
      /\ device' \in {"none", "open", "closed"}
      /\ \/ threaded /\ status' = status
         \/ ~threaded /\ status' = new
      /\ UNCHANGED <<threaded, captured, attempt, received, plane, exitOk, ringVars, descriptors, stop,
                     handleVars, readerVars>>
  BY DEF Finally, ChildTo, CameraInv, TypeInv
<1>2. new \in Seq(Words) /\ Len(new) = Len(status) + 1 /\ Seqs(new) = Seqs(status) \cup {"stopped"}
  BY Report DEF CameraInv, Words
<1> HIDE DEF new
<1>3. TypeInv /\ StatusInv /\ OrderInv /\ CountInv
  BY DEF CameraInv
<1>4. Len(status) <= 2 /\ Len(status) \in Nat /\ received \in Nat
  BY <1>1, <1>3 DEF StatusInv, StatusRoom, TypeInv
<1>5. status' \in Seq(Words) /\ Len(status') <= 3
  BY <1>1, <1>2, <1>3, <1>4 DEF TypeInv
<1>6. TypeInv'
  BY <1>1, <1>3, <1>5 DEF TypeInv, ChildPlaces, ringVars, readerVars, handleVars
<1>7. CountInv'
  BY <1>1, <1>3 DEF CountInv, Writing
<1>8. StatusInv'
  <2>1. Len(status') <= StatusRoom'
    BY <1>1, <1>2, <1>3, <1>4 DEF StatusInv, StatusRoom
  <2>2. CASE threaded
    BY <1>1, <1>3, <2>1, <2>2 DEF StatusInv, Seqs, handleVars
  <2>3. CASE ~threaded
    <3>1. Seqs(status)' = Seqs(status) \cup {"stopped"}
      BY <1>1, <1>2, <2>3 DEF Seqs
    <3> QED
      BY <1>1, <1>3, <2>1, <2>3, <3>1 DEF StatusInv, handleVars
  <2> QED
    BY <2>2, <2>3
<1>9. OrderInv'
  BY <1>1, <1>3 DEF OrderInv, ChildAlive, handleVars
<1>10. QuietMove /\ UNCHANGED <<received, plane, ringVars, references, descriptors, metadata, readerVars>>
  BY <1>1 DEF QuietMove, Writing, handleVars
<1> QED
  BY <1>6, <1>7, <1>8, <1>9, <1>10, QuietKeeps

\* The status queue is drained: what the handle then knows.
LEMMA PollKnows ==
  ASSUME TypeInv, NEW tail \in BOOLEAN, PollStatus(tail)
  PROVE  /\ status' = <<>> /\ Seqs(status)' = {} /\ Len(status') = 0
         /\ profile' = (profile \/ "ready" \in Seqs(status) \/ "stopped" \in Seqs(status))
         /\ error' = (error \/ tail \/ "error" \in Seqs(status))
<1>1. "ready" \in Seqs(status) \/ "stopped" \in Seqs(status)
      <=> \E i \in 1 .. Len(status) : status[i] \in {"ready", "stopped"}
  BY Zenon DEF Seqs
<1>2. "error" \in Seqs(status) <=> \E i \in 1 .. Len(status) : status[i] = "error"
  BY Zenon DEF Seqs
<1>3. status' = <<>> /\ Seqs(status)' = {} /\ Len(status') = 0
  BY DEF PollStatus, Seqs
<1>4. profile' = (profile \/ "ready" \in Seqs(status) \/ "stopped" \in Seqs(status))
  BY <1>1, Zenon DEF PollStatus
<1>5. error' = (error \/ tail \/ "error" \in Seqs(status))
  BY <1>2, Zenon DEF PollStatus
<1> QED
  BY <1>3, <1>4, <1>5

\* Draining it keeps the invariant, if it leaves the handle where it may be.
LEMMA PollKeeps ==
  ASSUME CameraInv, NEW tail \in BOOLEAN, PollStatus(tail), ppc' \in HandlePlaces,
         ppc' \in {"new", "starting", "running"} => ppc \in {"starting", "running"},
         ~threaded /\ ppc' = "running" /\ ppc # "running" => profile',
         ~threaded /\ ppc' \in {"releasing", "closed"} => ppc \in {"releasing", "closed"},
         ppc' # "new",
         UNCHANGED <<threaded, childVars, ringVars, descriptors, stop, references, metadata, readerVars>>
  PROVE  CameraInv'
<1>1. TypeInv /\ StatusInv /\ OrderInv /\ CountInv
  BY DEF CameraInv
<1>2. /\ status' = <<>> /\ Seqs(status)' = {} /\ Len(status') = 0
      /\ profile' = (profile \/ "ready" \in Seqs(status) \/ "stopped" \in Seqs(status))
      /\ error' = (error \/ tail \/ "error" \in Seqs(status))
  BY <1>1, PollKnows
<1>3. UNCHANGED <<threaded, cpc, captured, attempt, received, plane, exitOk, device, ringVars, descriptors, stop,
                  references, metadata, readerVars>>
  BY DEF childVars
<1>4. TypeInv'
  <2>1. profile' \in BOOLEAN /\ error' \in BOOLEAN /\ status' \in Seq(Words)
    BY <1>1, <1>2 DEF TypeInv
  <2> QED
    BY <1>1, <1>2, <1>3, <2>1 DEF TypeInv, ringVars, readerVars
<1>5. CountInv'
  BY <1>1, <1>3 DEF CountInv, Writing
<1>6. StatusInv'
  <2>1. Len(status') <= StatusRoom'
    BY <1>2, <1>3 DEF StatusRoom
  <2>2. ~threaded /\ cpc = "closing" => error' \/ stop
    BY <1>1, <1>2 DEF StatusInv
  <2>3. ~threaded /\ profile' => received > 0 \/ error' \/ stop
    BY <1>1, <1>2 DEF StatusInv
  <2>4. ~threaded /\ ppc' = "running" => received > 0 \/ error' \/ stop
    BY <1>1, <1>2, <2>3 DEF StatusInv
  <2> QED
    BY <1>2, <1>3, <2>1, <2>2, <2>3, <2>4 DEF StatusInv
<1>7. OrderInv'
  BY <1>1, <1>3 DEF OrderInv, ChildAlive
<1>8. QuietMove /\ UNCHANGED <<received, plane, ringVars, references, descriptors, metadata, readerVars>>
  BY <1>3 DEF QuietMove
<1> QED
  BY <1>4, <1>5, <1>6, <1>7, <1>8, QuietKeeps

\* One turn of start()'s wait.
LEMMA StartPollKeeps ==
  ASSUME CameraInv, StartPoll
  PROVE  CameraInv'
<1> DEFINE exited == ~ChildAlive /\ ~error /\ \A i \in 1 .. Len(status) : status[i] # "error"
           tail == exited /\ ~profile'
<1>1. /\ ppc = "starting" /\ PollStatus(tail)
      /\ ppc' = IF profile' THEN "running" ELSE IF exited THEN "stop" ELSE "starting"
      /\ UNCHANGED <<threaded, childVars, ringVars, descriptors, stop, references, metadata, readerVars>>
  BY Zenon DEF StartPoll
<1>2. tail \in BOOLEAN
  OBVIOUS
<1> HIDE DEF tail, exited
<1>3. ppc' \in {"running", "stop", "starting"} /\ (ppc' = "running" => profile')
  BY <1>1
<1>4. ppc' \in HandlePlaces
  BY <1>3 DEF HandlePlaces
<1> QED
  BY <1>1, <1>2, <1>3, <1>4, PollKeeps

\* The error property is read.
LEMMA PollErrorKeeps ==
  ASSUME CameraInv, PollError
  PROVE  CameraInv'
<1> DEFINE tail == ~ChildAlive /\ ~exitOk
<1>1. /\ ppc = "running" /\ ~threaded /\ PollStatus(tail) /\ ppc' = ppc
      /\ UNCHANGED <<threaded, childVars, ringVars, descriptors, stop, references, metadata, readerVars>>
  BY Zenon DEF PollError
<1>2. tail \in BOOLEAN
  OBVIOUS
<1> HIDE DEF tail
<1>3. ppc' \in HandlePlaces
  BY <1>1 DEF HandlePlaces
<1> QED
  BY <1>1, <1>2, <1>3, PollKeeps

\* The final status.
LEMMA ReleaseKeeps ==
  ASSUME CameraInv, Release
  PROVE  CameraInv'
<1>1. /\ ppc = "releasing" /\ ppc' = "closed" /\ PollStatus(FALSE)
      /\ UNCHANGED <<threaded, childVars, ringVars, descriptors, stop, references, metadata, readerVars>>
  BY Zenon DEF Release
<1>2. ppc' \in HandlePlaces
  BY <1>1 DEF HandlePlaces
<1> QED
  BY <1>1, <1>2, PollKeeps

-----------------------------------------------------------------------------
(* The writer *)

\* What is needed of the frame that is written.
LEMMA Written ==
  ASSUME CameraInv, cpc \in {"publish"} \cup Writing
  PROVE  /\ received \in Frames /\ received \in Nat /\ received < MaxFrames /\ SlotOf(received) \in Slots
         /\ StableVersion(received) \in 2 .. 2 * MaxFrames
<1>1. received \in Nat /\ captured \in 0 .. WarmupFrames + MaxFrames /\ received + WarmupFrames < captured
  BY DEF CameraInv, TypeInv, CountInv
<1>2. received < MaxFrames
  BY <1>1
<1>3. SlotOf(received) \in Slots
  BY <1>1, SlotPeriod
<1> QED
  BY <1>1, <1>2, <1>3 DEF Frames, StableVersion

\* The child opens a slot: whatever frame was there is gone.
LEMMA PublishBeginKeeps ==
  ASSUME CameraInv, PublishBegin
  PROVE  CameraInv'
<1> DEFINE here == SlotOf(received)
           name == IF threaded THEN header[here].seq ELSE received
<1>1. /\ cpc = "publish" /\ cpc' = "planes" /\ plane' = 1
      /\ header' = [header EXCEPT ![here] = [version |-> StableVersion(received) - 1, seq |-> name]]
      /\ metadata' = IF threaded THEN metadata \ {header[here].seq} ELSE metadata
      /\ UNCHANGED <<threaded, captured, attempt, received, exitOk, device, pixels, channelVars,
                     ppc, references, profile, error, readerVars>>
  BY DEF PublishBegin, ChildTo
<1>2. TypeInv /\ CountInv /\ RingInv /\ ReaderInv /\ RefInv /\ StatusInv /\ OrderInv
  BY DEF CameraInv
<1>3. /\ received \in Frames /\ received \in Nat /\ received < MaxFrames /\ here \in Slots
      /\ StableVersion(received) \in 2 .. 2 * MaxFrames
  BY <1>1, Written
<1>4. /\ header[here] \in [version : 0 .. 2 * MaxFrames, seq : Frames \cup {None}]
      /\ header[here].version \in Nat /\ header[here].seq \in Int
      /\ header \in [Slots -> [version : 0 .. 2 * MaxFrames, seq : Frames \cup {None}]]
  BY <1>2, <1>3, HeaderTypes DEF TypeInv
<1>5. /\ header[here].seq < received /\ header[here].version = StableVersion(header[here].seq)
      /\ header[here].seq # None => SlotOf(header[here].seq) = here
  BY <1>1, <1>2, <1>3 DEF RingInv, SlotInv, Writing
<1>6. name \in Frames \cup {None} /\ name <= received
      /\ (name # None => SlotOf(name) = here) /\ (name = received \/ name < received) /\ name \in Int
  BY <1>3, <1>4, <1>5
<1> HIDE DEF name, here
<1>7. /\ header'[here] = [version |-> StableVersion(received) - 1, seq |-> name]
      /\ \A i \in Slots : i # here => header'[i] = header[i]
      /\ header' \in [Slots -> [version : 0 .. 2 * MaxFrames, seq : Frames \cup {None}]]
  <2>1. [version |-> StableVersion(received) - 1, seq |-> name] \in [version : 0 .. 2 * MaxFrames, seq : Frames \cup {None}]
    BY <1>3, <1>6
  <2> QED
    BY <1>1, <1>3, <1>4, <2>1
<1>8. HeaderMoves
  <2>1. header'[here].version \in Nat /\ header'[here].version > header[here].version
    BY <1>3, <1>4, <1>5, <1>7 DEF StableVersion
  <2> QED
    BY <1>7, <2>1 DEF HeaderMoves
<1>9. TypeInv'
  <2>1. metadata' \subseteq Frames /\ plane' \in 0 .. Planes + 1
    BY <1>1, <1>2 DEF TypeInv
  <2> QED
    BY <1>1, <1>2, <1>7, <2>1, ZenonT(60) DEF TypeInv, ChildPlaces, channelVars, readerVars
<1>10. CountInv'
  BY <1>1, <1>2 DEF CountInv, Writing
<1>11. RingInv'
  <2>1. received' = received /\ SlotOf(received)' = here /\ StableVersion(received)' = StableVersion(received)
        /\ pixels' = pixels
    BY <1>1 DEF here
  <2>2. ASSUME NEW i \in Slots, i = here PROVE SlotInv(i)'
    <3>1. header'[here].seq = name /\ header'[here].version = StableVersion(received) - 1
      BY <1>7
    <3>2. StableVersion(received) - 1 # StableVersion(name)
      BY <1>3, <1>6 DEF StableVersion
    <3> QED
      BY <2>2, <1>1, <1>6, <2>1, <3>1, <3>2, Zenon DEF SlotInv, Writing, here, StableVersion, SlotOf
  <2>3. ASSUME NEW i \in Slots, i # here PROVE SlotInv(i)'
    <3>1. SlotInv(i) /\ header'[i] = header[i]
      BY <1>2, <1>7, <2>3 DEF RingInv
    <3> QED
      BY <1>1, <2>1, <2>3, <3>1 DEF SlotInv, Writing, here
  <2>4. WriterInv'
    BY <1>1, <1>3, <1>7, <2>1 DEF WriterInv, here
  <2>5. LastInv'
    <3>1. ASSUME NEW s \in Frames, s < received PROVE header'[SlotOf(s)].version >= StableVersion(s)
      <4>1. s \in Nat /\ SlotOf(s) \in Slots /\ header[SlotOf(s)].version >= StableVersion(s)
        BY <1>2, <3>1, HeaderTypes DEF RingInv, LastInv
      <4>2. CASE SlotOf(s) = here
        BY <1>3, <1>7, <3>1, <4>1, <4>2 DEF StableVersion
      <4> QED
        BY <1>7, <4>1, <4>2
    <3> QED
      BY <2>1, <3>1 DEF LastInv, SlotOf, StableVersion
  <2> QED
    BY <2>2, <2>3, <2>4, <2>5 DEF RingInv
<1>12. ReaderInv'
  BY <1>1, <1>2, <1>8, ReaderKept
<1>13. RefInv'
  <2>1. Seqs(references) \subseteq Frames
    BY <1>2 DEF TypeInv, Seqs
  <2>2. ASSUME NEW r \in Seqs(references) PROVE r \in metadata' \/ Overwritten(r)'
    <3>1. r \in Frames /\ r \in Nat /\ r < received /\ r # None
      BY <1>2, <2>1, HeaderTypes DEF RefInv, None
    <3>2. CASE r \notin metadata
      BY <1>2, <1>8, <3>1, <3>2, GoneStays DEF RefInv
    <3>3. CASE r \in metadata /\ r \notin metadata'
      <4>1. r = header[here].seq /\ SlotOf(r) = here
        BY <1>1, <1>5, <3>1, <3>3
      <4> QED
        BY <1>3, <1>7, <3>1, <4>1 DEF Overwritten, StableVersion
    <3> QED
      BY <3>2, <3>3
  <2>3. metadata' \subseteq metadata
    BY <1>1
  <2> QED
    BY <1>1, <1>2, <2>2, <2>3 DEF RefInv, Seqs, channelVars
<1>14. StatusInv'
  BY <1>1, <1>2 DEF StatusInv, StatusRoom, channelVars, Seqs
<1>15. OrderInv'
  BY <1>1, <1>2 DEF OrderInv, ChildAlive, channelVars
<1> QED
  BY <1>9, <1>10, <1>11, <1>12, <1>13, <1>14, <1>15 DEF CameraInv

\* Half a plane, or the other half.
LEMMA CopyPlaneKeeps ==
  ASSUME CameraInv, CopyPlane
  PROVE  CameraInv'
<1> DEFINE here == SlotOf(received)
           half == pixels[plane][here] = HalfWritten
<1>1. /\ cpc = "planes" /\ plane <= Planes
      /\ pixels' = [pixels EXCEPT ![plane][here] = IF half THEN received ELSE HalfWritten]
      /\ plane' = IF half THEN plane + 1 ELSE plane
      /\ UNCHANGED <<threaded, cpc, captured, attempt, received, exitOk, device, header, channelVars,
                     handleVars, readerVars>>
  BY DEF CopyPlane
<1>2. TypeInv /\ CountInv /\ RingInv /\ ReaderInv /\ RefInv /\ StatusInv /\ OrderInv
  BY DEF CameraInv
<1>3. received \in Frames /\ received \in Nat /\ here \in Slots
  BY <1>1, Written DEF Writing
<1>4. plane \in 1 .. Planes
  BY <1>1, <1>2 DEF TypeInv, CountInv
<1> HIDE DEF here
<1>5. /\ pixels' \in [1 .. Planes -> [Slots -> PlaneValues]]
      /\ pixels'[plane][here] = IF half THEN received ELSE HalfWritten
      /\ \A p \in 1 .. Planes : \A i \in Slots : p # plane \/ i # here => pixels'[p][i] = pixels[p][i]
  <2>1. pixels \in [1 .. Planes -> [Slots -> PlaneValues]] /\ received \in PlaneValues /\ HalfWritten \in PlaneValues
    BY <1>2, <1>3 DEF TypeInv, PlaneValues
  <2> QED
    BY <1>1, <1>3, <1>4, <2>1
<1> HIDE DEF half
<1>6. HeaderMoves
  BY <1>1 DEF HeaderMoves
<1>7. TypeInv'
  <2>1. plane' \in 0 .. Planes + 1
    BY <1>1, <1>4
  <2> QED
    BY <1>1, <1>2, <1>5, <2>1 DEF TypeInv, channelVars, handleVars, readerVars
<1>8. CountInv'
  BY <1>1, <1>2, <1>4 DEF CountInv
<1>9. RingInv'
  <2>1. received' = received /\ header' = header /\ cpc' = cpc
    BY <1>1
  <2>2. ASSUME NEW i \in Slots, i = here PROVE SlotInv(i)'
    <3>1. SlotInv(here) /\ header[here].version = StableVersion(received) - 1 /\ header[here].seq \in Int
      BY <1>1, <1>2, <1>3, HeaderTypes DEF RingInv, WriterInv, here
    <3>2. header[here].version # StableVersion(header[here].seq)
      BY <1>3, <3>1 DEF StableVersion
    <3> QED
      BY <2>2, <2>1, <3>1, <3>2 DEF SlotInv, here
  <2>3. ASSUME NEW i \in Slots, i # here PROVE SlotInv(i)'
    <3>1. SlotInv(i) /\ \A p \in 1 .. Planes : pixels'[p][i] = pixels[p][i]
      BY <1>2, <1>5, <2>3 DEF RingInv
    <3> QED
      BY <2>1, <3>1 DEF SlotInv
  <2>4. WriterInv'
    <3>1. ASSUME NEW p \in 1 .. plane' - 1 PROVE pixels'[p][here] = received
      <4>1. p \in 1 .. Planes /\ (p \in 1 .. plane - 1 \/ (p = plane /\ half))
        BY <1>1, <1>4
      <4>2. CASE p = plane /\ half
        BY <1>5, <4>2
      <4>3. CASE p \in 1 .. plane - 1
        <5>1. p # plane /\ pixels[p][here] = received
          BY <1>1, <1>2, <1>4, <4>3 DEF RingInv, WriterInv, here
        <5> QED
          BY <1>3, <1>5, <4>1, <5>1
      <4> QED
        BY <4>1, <4>2, <4>3
    <3> QED
      BY <1>1, <1>2, <2>1, <3>1 DEF RingInv, WriterInv, here
  <2>5. LastInv'
    BY <1>2, <2>1 DEF RingInv, LastInv
  <2> QED
    BY <2>2, <2>3, <2>4, <2>5 DEF RingInv
<1>10. ReaderInv' /\ RefInv'
  <2>1. UNCHANGED readerVars /\ UNCHANGED <<references, descriptors, metadata>> /\ received' = received
    BY <1>1 DEF channelVars, handleVars
  <2> QED
    BY <1>2, <1>6, <2>1, ReaderKept, RefKept
<1>11. StatusInv' /\ OrderInv'
  BY <1>1, <1>2 DEF StatusInv, StatusRoom, OrderInv, ChildAlive, channelVars, handleVars, Seqs
<1> QED
  BY <1>7, <1>8, <1>9, <1>10, <1>11 DEF CameraInv

\* The slot can be read: all its planes are of the frame.
LEMMA PublishEndKeeps ==
  ASSUME CameraInv, PublishEnd
  PROVE  CameraInv'
<1> DEFINE here == SlotOf(received)
<1>1. /\ cpc = "planes" /\ plane > Planes /\ cpc' = "announce"
      /\ header' = [header EXCEPT ![here] = [version |-> StableVersion(received), seq |-> received]]
      /\ UNCHANGED <<threaded, captured, attempt, received, plane, exitOk, device, pixels, channelVars,
                     handleVars, readerVars>>
  BY DEF PublishEnd, ChildTo
<1>2. TypeInv /\ CountInv /\ RingInv /\ ReaderInv /\ RefInv /\ StatusInv /\ OrderInv
  BY DEF CameraInv
<1>3. received \in Frames /\ received \in Nat /\ here \in Slots /\ StableVersion(received) \in 2 .. 2 * MaxFrames
  BY <1>1, Written DEF Writing
<1>4. plane = Planes + 1
  BY <1>1, <1>2 DEF TypeInv
<1>5. header[here].version = StableVersion(received) - 1 /\ \A p \in 1 .. Planes : pixels[p][here] = received
  BY <1>1, <1>2, <1>4 DEF RingInv, WriterInv
<1> HIDE DEF here
<1>6. /\ header'[here] = [version |-> StableVersion(received), seq |-> received]
      /\ \A i \in Slots : i # here => header'[i] = header[i]
      /\ header' \in [Slots -> [version : 0 .. 2 * MaxFrames, seq : Frames \cup {None}]]
  <2>1. header \in [Slots -> [version : 0 .. 2 * MaxFrames, seq : Frames \cup {None}]]
        /\ [version |-> StableVersion(received), seq |-> received] \in [version : 0 .. 2 * MaxFrames, seq : Frames \cup {None}]
    BY <1>2, <1>3 DEF TypeInv
  <2> QED
    BY <1>1, <1>3, <2>1
<1>7. HeaderMoves
  <2>1. header'[here].version \in Nat /\ header'[here].version > header[here].version
    BY <1>3, <1>5, <1>6
  <2> QED
    BY <1>6, <2>1 DEF HeaderMoves
<1>8. TypeInv'
  BY <1>1, <1>2, <1>6 DEF TypeInv, ChildPlaces, channelVars, handleVars, readerVars
<1>9. CountInv'
  BY <1>1, <1>2 DEF CountInv, Writing
<1>10. RingInv'
  <2>1. received' = received /\ pixels' = pixels /\ SlotOf(received)' = here
    BY <1>1 DEF here
  <2>2. ASSUME NEW i \in Slots, i = here PROVE SlotInv(i)'
    <3>1. header'[here].seq = received /\ header'[here].version = StableVersion(received)
      BY <1>6
    <3> QED
      BY <2>2, <1>1, <1>5, <2>1, <3>1 DEF SlotInv, Writing, here
  <2>3. ASSUME NEW i \in Slots, i # here PROVE SlotInv(i)'
    <3>1. SlotInv(i) /\ header'[i] = header[i]
      BY <1>2, <1>6, <2>3 DEF RingInv
    <3> QED
      BY <1>1, <2>1, <2>3, <3>1 DEF SlotInv, Writing, here
  <2>4. WriterInv'
    BY <1>1, <1>6, <2>1 DEF WriterInv, here
  <2>5. LastInv'
    <3>1. ASSUME NEW s \in Frames, s < received PROVE header'[SlotOf(s)].version >= StableVersion(s)
      <4>1. s \in Nat /\ SlotOf(s) \in Slots /\ header[SlotOf(s)].version >= StableVersion(s)
        BY <1>2, <3>1, HeaderTypes DEF RingInv, LastInv
      <4>2. CASE SlotOf(s) = here
        BY <1>3, <1>6, <3>1, <4>1, <4>2 DEF StableVersion
      <4> QED
        BY <1>6, <4>1, <4>2
    <3> QED
      BY <2>1, <3>1 DEF LastInv, SlotOf, StableVersion
  <2> QED
    BY <2>2, <2>3, <2>4, <2>5 DEF RingInv
<1>11. ReaderInv' /\ RefInv'
  <2>1. UNCHANGED readerVars /\ UNCHANGED <<references, descriptors, metadata>> /\ received' = received
    BY <1>1 DEF channelVars, handleVars
  <2> QED
    BY <1>2, <1>7, <2>1, ReaderKept, RefKept
<1>12. StatusInv' /\ OrderInv'
  BY <1>1, <1>2 DEF StatusInv, StatusRoom, OrderInv, ChildAlive, channelVars, handleVars, Seqs
<1> QED
  BY <1>8, <1>9, <1>10, <1>11, <1>12 DEF CameraInv

\* The frame counts as received: its slot is as new as it.
LEMMA CountFrame ==
  ASSUME CameraInv, cpc = "announce", cpc' = "loop", received' = received + 1, UNCHANGED <<ringVars, plane, captured>>
  PROVE  /\ RingInv' /\ CountInv' /\ HeaderMoves /\ received' \in 0 .. MaxFrames
         /\ received \in Frames /\ received \in Nat
<1>1. TypeInv /\ CountInv /\ RingInv
  BY DEF CameraInv
<1>2. received \in Frames /\ received \in Nat /\ received < MaxFrames
  BY Written DEF Writing
<1>3. header' = header /\ pixels' = pixels
  BY DEF ringVars
<1>4. ASSUME NEW i \in Slots PROVE SlotInv(i)'
  <2>1. SlotInv(i) /\ header[i].seq \in Int
    BY <1>1, HeaderTypes DEF RingInv
  <2>2. header[i].seq <= received /\ header[i].version = StableVersion(header[i].seq)
    BY <1>2, <2>1 DEF SlotInv
  <2>3. header'[i].seq < received'
    BY <1>2, <1>3, <2>1, <2>2
  <2> QED
    BY <1>3, <2>1, <2>2, <2>3 DEF SlotInv
<1>5. WriterInv'
  BY DEF WriterInv
<1>6. LastInv'
  <2>1. ASSUME NEW s \in Frames, s < received + 1 PROVE header[SlotOf(s)].version >= StableVersion(s)
    <3>1. s \in Nat
      BY HeaderTypes, <1>1
    <3>2. CASE s = received
      BY <1>1, <1>2, <3>2 DEF RingInv, WriterInv, StableVersion
    <3>3. CASE s < received
      BY <1>1, <3>3 DEF RingInv, LastInv
    <3> QED
      BY <1>2, <2>1, <3>1, <3>2, <3>3
  <2> QED
    BY <1>3, <2>1 DEF LastInv
<1>7. CountInv'
  <2>1. received + WarmupFrames < captured /\ captured \in Nat
    BY <1>1 DEF CountInv, Writing, TypeInv
  <2> QED
    BY <1>2, <2>1 DEF CountInv, Writing
<1>8. HeaderMoves
  BY <1>3 DEF HeaderMoves
<1> QED
  BY <1>2, <1>4, <1>5, <1>6, <1>7, <1>8 DEF RingInv

\* The process queues a descriptor of the frame, and its first "ready".
LEMMA AnnounceFrameKeeps ==
  ASSUME CameraInv, AnnounceFrame
  PROVE  CameraInv'
<1> DEFINE queue == QueuePutLatest(descriptors, received, Capacity)
           word == QueuePutLatest(status, "ready", StatusSlots)
<1>1. /\ cpc = "announce" /\ ~threaded /\ cpc' = "loop" /\ descriptors' = queue
      /\ status' = IF received = 0 THEN word ELSE status
      /\ received' = received + 1
      /\ UNCHANGED <<threaded, captured, attempt, plane, exitOk, device, ringVars, stop, handleVars, readerVars>>
  BY DEF AnnounceFrame, ChildTo
<1>2. TypeInv /\ CountInv /\ RingInv /\ ReaderInv /\ RefInv /\ StatusInv /\ OrderInv
  BY DEF CameraInv
<1>3. RingInv' /\ CountInv' /\ HeaderMoves /\ received' \in 0 .. MaxFrames /\ received \in Frames /\ received \in Nat
  BY <1>1, CountFrame
<1>4. queue \in Seq(Frames) /\ Len(queue) <= Capacity /\ Seqs(queue) \subseteq Seqs(descriptors) \cup {received}
  BY <1>2, <1>3, PutLatest DEF TypeInv
<1>5. word \in Seq(Words) /\ Len(word) = Len(status) + 1 /\ Seqs(word) = Seqs(status) \cup {"ready"}
  BY <1>2, Report DEF Words
<1> HIDE DEF queue, word
<1>6. /\ status' \in Seq(Words) /\ Len(status') \in Nat /\ Len(status') <= 1
      /\ Seqs(status)' \subseteq Seqs(status) \cup {"ready"}
  <2>1. status \in Seq(Words) /\ Len(status) \in Nat /\ Len(status) <= (IF received > 0 THEN 1 ELSE 0)
    BY <1>1, <1>2 DEF TypeInv, StatusInv, StatusRoom
  <2>2. CASE received = 0
    BY <1>1, <1>5, <2>1, <2>2 DEF Seqs
  <2>3. CASE received # 0
    BY <1>1, <1>3, <2>1, <2>3 DEF Seqs
  <2> QED
    BY <2>2, <2>3
<1>7. TypeInv'
  BY <1>1, <1>2, <1>3, <1>4, <1>6 DEF TypeInv, ChildPlaces, ringVars, handleVars, readerVars
<1>8. ReaderInv'
  BY <1>1, <1>2, <1>3, ReaderKept
<1>9. RefInv'
  <2>1. /\ references' = references /\ metadata' = metadata /\ header' = header
        /\ Seqs(descriptors)' \subseteq Seqs(descriptors) \cup {received}
    BY <1>1, <1>4 DEF handleVars, ringVars, Seqs
  <2>2. ASSUME NEW r \in Seqs(references) \cup Seqs(descriptors) \cup metadata PROVE r < received' /\ r \in Int
    <3>1. r \in Frames /\ r < received
      BY <1>2 DEF RefInv, TypeInv, Seqs
    <3> QED
      BY <1>1, <1>2, <1>3, <3>1, HeaderTypes
  <2>3. received < received'
    BY <1>1, <1>3
  <2> QED
    BY <1>2, <2>1, <2>2, <2>3 DEF RefInv, Overwritten, Seqs
<1>10. StatusInv'
  <2>1. received' > 0
    BY <1>1, <1>3
  <2>2. Len(status') <= StatusRoom'
    BY <1>1, <1>6, <2>1 DEF StatusRoom
  <2>3. "stopped" \in Seqs(status)' => error' \/ "error" \in Seqs(status)' \/ stop'
    <3>1. "error" \in Seqs(status) => "error" \in Seqs(status)'
      BY <1>1, <1>5 DEF Seqs
    <3>2. error' = error /\ stop' = stop
      BY <1>1 DEF handleVars
    <3> QED
      BY <1>1, <1>2, <1>6, <3>1, <3>2 DEF StatusInv
  <2> QED
    BY <1>1, <2>1, <2>2, <2>3 DEF StatusInv
<1>11. OrderInv'
  BY <1>1, <1>2 DEF OrderInv, ChildAlive, handleVars
<1> QED
  BY <1>3, <1>7, <1>8, <1>9, <1>10, <1>11 DEF CameraInv

\* The thread appends the reference of the frame itself.
LEMMA AnnounceReferenceKeeps ==
  ASSUME CameraInv, AnnounceReference
  PROVE  CameraInv'
<1> DEFINE queue == QueuePutLatest(references, received, Capacity)
<1>1. /\ cpc = "announce" /\ threaded /\ cpc' = "loop" /\ metadata' = metadata \cup {received}
      /\ references' = queue /\ received' = received + 1
      /\ UNCHANGED <<threaded, captured, attempt, plane, exitOk, device, ringVars, channelVars,
                     ppc, profile, error, readerVars>>
  BY DEF AnnounceReference, ChildTo
<1>2. TypeInv /\ CountInv /\ RingInv /\ ReaderInv /\ RefInv /\ StatusInv /\ OrderInv
  BY DEF CameraInv
<1>3. RingInv' /\ CountInv' /\ HeaderMoves /\ received' \in 0 .. MaxFrames /\ received \in Frames /\ received \in Nat
  BY <1>1, CountFrame
<1>4. queue \in Seq(Frames) /\ Len(queue) <= Capacity /\ Seqs(queue) \subseteq Seqs(references) \cup {received}
  BY <1>2, <1>3, PutLatest DEF TypeInv
<1> HIDE DEF queue
<1>5. TypeInv'
  BY <1>1, <1>2, <1>3, <1>4 DEF TypeInv, ChildPlaces, ringVars, channelVars, readerVars
<1>6. ReaderInv'
  BY <1>1, <1>2, <1>3, ReaderKept
<1>7. RefInv'
  <2>1. /\ descriptors' = descriptors /\ header' = header
        /\ Seqs(references)' \subseteq Seqs(references) \cup {received}
    BY <1>1, <1>4 DEF channelVars, ringVars, Seqs
  <2>2. ASSUME NEW r \in Seqs(references) \cup Seqs(descriptors) \cup metadata PROVE r < received' /\ r \in Int
    <3>1. r \in Frames /\ r < received
      BY <1>2 DEF RefInv, TypeInv, Seqs
    <3> QED
      BY <1>1, <1>2, <1>3, <3>1, HeaderTypes
  <2>3. received < received'
    BY <1>1, <1>3
  <2> QED
    BY <1>1, <1>2, <2>1, <2>2, <2>3 DEF RefInv, Overwritten, Seqs
<1>8. StatusInv'
  <2>1. received' > 0
    BY <1>1, <1>3
  <2>2. Len(status') <= StatusRoom'
    BY <1>1, <1>2, <2>1 DEF StatusRoom, StatusInv, channelVars, TypeInv
  <2> QED
    BY <1>1, <2>1, <2>2 DEF StatusInv
<1>9. OrderInv'
  BY <1>1, <1>2 DEF OrderInv, ChildAlive, channelVars
<1> QED
  BY <1>3, <1>5, <1>6, <1>7, <1>8, <1>9 DEF CameraInv

-----------------------------------------------------------------------------
(* What register_descriptor evicts *)

\* A frame a whole capacity older than a received one is gone.
LEMMA OlderIsGone ==
  ASSUME TypeInv, RingInv, NEW r \in Frames, r + Capacity < received
  PROVE  Overwritten(r)
<1>1. r \in Nat /\ Capacity \in Nat \ {0} /\ received \in 0 .. MaxFrames
  BY HeaderTypes DEF TypeInv
<1>2. r + Capacity \in Frames /\ r + Capacity \in Nat
  BY <1>1 DEF Frames
<1>3. SlotOf(r + Capacity) = SlotOf(r) /\ SlotOf(r) \in Slots /\ header[SlotOf(r)].version \in Nat
  BY <1>1, SlotPeriod, HeaderTypes
<1>4. header[SlotOf(r)].version >= StableVersion(r + Capacity)
  BY <1>2, <1>3 DEF RingInv, LastInv
<1> QED
  BY <1>1, <1>3, <1>4 DEF Overwritten, StableVersion

\* The least of more than twice a capacity of received frames is that old.
LEMMA LeastIsOld ==
  ASSUME TypeInv, NEW K \in SUBSET Frames, \A k \in K : k < received, Cardinality(K) > 2 * Capacity,
         NEW m \in K, \A k \in K : m <= k
  PROVE  m + Capacity < received
<1>1. m \in Nat /\ received \in Nat /\ Capacity \in Nat \ {0} /\ m < received
  BY HeaderTypes
<1>2. K \in SUBSET (m .. received - 1)
  BY <1>1, HeaderTypes
<1>3. IsFiniteSet(m .. received - 1) /\ Cardinality(m .. received - 1) = received - m
  <2> DEFINE last == received - 1
  <2>1. m \in Int /\ last \in Int /\ ~(m > last) /\ last - m + 1 = received - m
    BY <1>1
  <2> HIDE DEF last
  <2>2. IsFiniteSet(m .. last) /\ Cardinality(m .. last) = last - m + 1
    BY <2>1, FS_Interval
  <2> QED
    BY <2>1, <2>2 DEF last
<1>4. Cardinality(K) <= received - m /\ Cardinality(K) \in Nat
  BY <1>2, <1>3, FS_Subset, FS_CardinalityType
<1> QED
  BY <1>1, <1>4

\* Metadata is only evicted for frames that are gone.
LEMMA Registered ==
  ASSUME TypeInv, RingInv, RefInv, NEW s \in Frames, s < received
  PROVE  /\ RegisterDescriptor(metadata, s) \subseteq metadata \cup {s}
         /\ \A r \in metadata \cup {s} : r \in RegisterDescriptor(metadata, s) \/ Overwritten(r)
<1> DEFINE kept == (metadata \ {s - Capacity}) \cup {s}
           least == CHOOSE m \in kept : \A k \in kept : m <= k
<1>1. RegisterDescriptor(metadata, s) = IF Cardinality(kept) <= 2 * Capacity THEN kept ELSE kept \ {least}
  BY DEF RegisterDescriptor
<1>2. s \in Nat /\ Capacity \in Nat \ {0} /\ received \in Nat /\ kept \subseteq Frames
      /\ \A k \in kept : k < received
  BY HeaderTypes DEF TypeInv, RefInv
<1>3. ASSUME NEW r \in metadata \cup {s} PROVE r \in kept \/ Overwritten(r)
  <2>1. CASE r = s - Capacity
    <3>1. r \in Frames /\ r + Capacity = s /\ r \in Nat
      BY <1>2, <1>3, <2>1, HeaderTypes DEF TypeInv
    <3>2. SlotOf(s) = SlotOf(r) /\ SlotOf(r) \in Slots /\ header[SlotOf(r)].version \in Nat
      BY <3>1, SlotPeriod, HeaderTypes
    <3>3. header[SlotOf(r)].version >= StableVersion(s)
      BY <3>2 DEF RingInv, LastInv
    <3> QED
      BY <1>2, <2>1, <3>1, <3>2, <3>3 DEF Overwritten, StableVersion
  <2> QED
    BY <2>1
<1>4. CASE Cardinality(kept) <= 2 * Capacity
  BY <1>1, <1>3, <1>4
<1>5. CASE ~(Cardinality(kept) <= 2 * Capacity)
  <2>1. \E m \in kept : \A k \in kept : m <= k
    <3>1. kept # {} /\ kept \subseteq Nat
      BY <1>2, HeaderTypes
    <3> HIDE DEF kept
    <3> QED
      BY <3>1, LeastElement
  <2>2. least \in kept /\ \A k \in kept : least <= k
    BY <2>1
  <2>3. Cardinality(kept) > 2 * Capacity
    <3>1. Cardinality(kept) \in Nat
      <4>1. kept \in SUBSET (0 .. MaxFrames - 1) /\ IsFiniteSet(0 .. MaxFrames - 1)
        BY <1>2, FS_Interval DEF Frames
      <4> HIDE DEF kept
      <4> QED
        BY <4>1, FS_Subset, FS_CardinalityType
    <3> HIDE DEF kept
    <3> QED
      BY <1>2, <1>5, <3>1
  <2> HIDE DEF kept, least
  <2>4. least + Capacity < received /\ least \in Frames
    BY <1>2, <2>2, <2>3, LeastIsOld
  <2>5. Overwritten(least)
    BY <2>4, OlderIsGone
  <2>6. RegisterDescriptor(metadata, s) = kept \ {least} /\ kept \subseteq metadata \cup {s}
    BY <1>1, <1>5 DEF kept
  <2> QED
    BY <1>3, <2>5, <2>6
<1> QED
  BY <1>4, <1>5

\* A descriptor becomes a reference.
LEMMA DrainDescriptorKeeps ==
  ASSUME CameraInv, DrainDescriptor
  PROVE  CameraInv'
<1> DEFINE s == Head(descriptors)
           known == RegisterDescriptor(metadata, s)
           queue == QueuePutLatest(references, s, Capacity)
<1>1. /\ ppc = "running" /\ descriptors # <<>> /\ metadata' = known /\ references' = queue
      /\ descriptors' = Tail(descriptors)
      /\ UNCHANGED <<threaded, childVars, ringVars, status, stop, ppc, profile, error, readerVars>>
  BY DEF DrainDescriptor
<1>2. TypeInv /\ CountInv /\ RingInv /\ ReaderInv /\ RefInv /\ StatusInv /\ OrderInv
  BY DEF CameraInv
<1>3. /\ s \in Frames /\ s \in Seqs(descriptors) /\ Tail(descriptors) \in Seq(Frames)
      /\ Len(Tail(descriptors)) = Len(descriptors) - 1 /\ Seqs(Tail(descriptors)) \subseteq Seqs(descriptors)
  BY <1>1, <1>2, TakeHead DEF TypeInv
<1>4. s < received
  BY <1>2, <1>3 DEF RefInv
<1> HIDE DEF s
<1>5. known \subseteq metadata \cup {s} /\ \A r \in metadata \cup {s} : r \in known \/ Overwritten(r)
  BY <1>2, <1>3, <1>4, Registered
<1>6. queue \in Seq(Frames) /\ Len(queue) <= Capacity /\ Seqs(queue) \subseteq Seqs(references) \cup {s}
  BY <1>2, <1>3, PutLatest DEF TypeInv
<1> HIDE DEF known, queue
<1>7. UNCHANGED <<threaded, cpc, captured, attempt, received, plane, exitOk, device, header, pixels, status, stop,
                  ppc, profile, error, rpc, wanted, copied, tries, lastRead>>
  BY <1>1 DEF childVars, ringVars, readerVars
<1>8. TypeInv'
  <2>1. known \subseteq Frames /\ Len(descriptors') <= Capacity /\ descriptors' \in Seq(Frames)
    BY <1>1, <1>2, <1>3, <1>5 DEF TypeInv
  <2> QED
    BY <1>1, <1>2, <1>6, <1>7, <2>1 DEF TypeInv
<1>9. CountInv' /\ StatusInv' /\ OrderInv'
  BY <1>2, <1>7 DEF CountInv, Writing, StatusInv, StatusRoom, OrderInv, ChildAlive, Seqs
<1>10. RingInv' /\ HeaderMoves
  BY <1>2, <1>7, RingKept DEF ringVars, QuietMove
<1>11. ReaderInv'
  BY <1>2, <1>7, <1>10, ReaderKept DEF readerVars
<1>12. RefInv'
  <2>1. /\ Seqs(references)' \subseteq Seqs(references) \cup {s} /\ Seqs(descriptors)' \subseteq Seqs(descriptors)
        /\ metadata' = known /\ received' = received /\ header' = header
    BY <1>1, <1>3, <1>6, <1>7 DEF Seqs
  <2>2. \A r \in Seqs(references) : r \in metadata \cup {s} \/ Overwritten(r)
    BY <1>2 DEF RefInv
  <2> QED
    BY <1>2, <1>4, <1>5, <2>1, <2>2 DEF RefInv, Overwritten
<1> QED
  BY <1>8, <1>9, <1>10, <1>11, <1>12 DEF CameraInv

-----------------------------------------------------------------------------
(* The readers *)

\* A step of a reader touches nothing else.
LEMMA ReaderStep ==
  ASSUME CameraInv, UNCHANGED <<threaded, childVars, ringVars, channelVars, handleVars>>,
         rpc' \in {"idle", "copy", "check"}, wanted' \in Frames \cup {None}, tries' \in 0 .. 3,
         copied' \in Seq(PlaneValues), Len(copied') <= Planes,
         lastRead' \in Seq(PlaneValues), Len(lastRead') <= Planes, ReaderInv'
  PROVE  CameraInv'
<1>1. TypeInv /\ CountInv /\ RingInv /\ RefInv /\ StatusInv /\ OrderInv
  BY DEF CameraInv
<1>2. UNCHANGED <<threaded, cpc, captured, attempt, received, plane, exitOk, device, header, pixels,
                  descriptors, status, stop, ppc, references, metadata, profile, error>>
  BY DEF childVars, ringVars, channelVars, handleVars
<1>3. TypeInv'
  BY <1>1, <1>2 DEF TypeInv
<1>4. RingInv' /\ HeaderMoves
  BY <1>1, <1>2, RingKept DEF ringVars, QuietMove
<1>5. RefInv'
  <2>1. UNCHANGED <<references, descriptors, metadata>> /\ received' = received
    BY <1>2
  <2> QED
    BY <1>1, <1>4, <2>1, RefKept
<1>6. CountInv' /\ StatusInv' /\ OrderInv'
  BY <1>1, <1>2 DEF CountInv, Writing, StatusInv, StatusRoom, OrderInv, ChildAlive, Seqs
<1> QED
  BY <1>3, <1>4, <1>5, <1>6 DEF CameraInv

\* A reader takes a reference.
LEMMA ReadBeginKeeps ==
  ASSUME CameraInv, ReadBegin
  PROVE  CameraInv'
<1>1. PICK s \in Seqs(references) :
        /\ wanted' = s
        /\ rpc' = IF Published(s) /\ s \in metadata THEN "copy"
                  ELSE IF threaded /\ s \in metadata THEN "check" ELSE "idle"
  BY DEF ReadBegin
<1>2. copied' = <<>> /\ tries' = 1 /\ lastRead' = <<>>
      /\ UNCHANGED <<threaded, childVars, ringVars, channelVars, handleVars>>
  BY DEF ReadBegin
<1>3. s \in Frames
  BY DEF CameraInv, TypeInv, Seqs
<1>4. header' = header /\ (rpc' = "copy" => Published(s))
  BY <1>1, <1>2 DEF ringVars
<1>5. ReaderInv'
  BY <1>1, <1>2, <1>3, <1>4 DEF ReaderInv, NoTornFrame, Published
<1>6. /\ rpc' \in {"idle", "copy", "check"} /\ wanted' \in Frames \cup {None} /\ tries' \in 0 .. 3
      /\ copied' \in Seq(PlaneValues) /\ Len(copied') <= Planes
      /\ lastRead' \in Seq(PlaneValues) /\ Len(lastRead') <= Planes
  BY <1>1, <1>2, <1>3
<1> QED
  BY <1>2, <1>5, <1>6, ReaderStep

\* One plane more: it is of the frame if the header still says so.
LEMMA ReadPlaneKeeps ==
  ASSUME CameraInv, ReadPlane
  PROVE  CameraInv'
<1> DEFINE next == Len(copied) + 1
           value == pixels[next][SlotOf(wanted)]
<1>1. /\ rpc = "copy" /\ Len(copied) < Planes /\ copied' = Append(copied, value)
      /\ UNCHANGED <<threaded, childVars, ringVars, channelVars, handleVars>>
      /\ rpc' = rpc /\ wanted' = wanted /\ tries' = tries /\ lastRead' = lastRead
  BY DEF ReadPlane
<1>2. TypeInv /\ RingInv /\ ReaderInv
  BY DEF CameraInv
<1>3. wanted \in Frames /\ SlotOf(wanted) \in Slots /\ wanted # None
  BY <1>1, <1>2, HeaderTypes DEF ReaderInv, None
<1>4. next \in 1 .. Planes /\ Len(copied) \in Nat /\ copied \in Seq(PlaneValues)
  BY <1>1, <1>2, HeaderTypes DEF TypeInv
<1>5. value \in PlaneValues
  <2>1. pixels \in [1 .. Planes -> [Slots -> PlaneValues]]
    BY <1>2 DEF TypeInv
  <2> HIDE DEF next
  <2> QED
    BY <1>3, <1>4, <2>1
<1>6. Published(wanted) => value = wanted
  <2> HIDE DEF next
  <2> QED
    BY <1>2, <1>3, <1>4 DEF RingInv, SlotInv, Published
<1> HIDE DEF value
<1>7. /\ copied' \in Seq(PlaneValues) /\ Len(copied') = Len(copied) + 1
      /\ \A j \in 1 .. Len(copied) : copied'[j] = copied[j]
      /\ copied'[Len(copied) + 1] = value
  BY <1>1, <1>4, <1>5
<1>8. ReaderInv'
  <2>1. header' = header /\ NoTornFrame'
    BY <1>1, <1>2 DEF ringVars, ReaderInv, NoTornFrame
  <2>2. ASSUME Published(wanted), NEW j \in 1 .. Len(copied') PROVE copied'[j] = wanted
    <3>1. CASE j = Len(copied) + 1
      BY <1>6, <1>7, <2>2, <3>1
    <3>2. CASE j \in 1 .. Len(copied)
      BY <1>1, <1>2, <1>7, <2>2, <3>2 DEF ReaderInv
    <3> QED
      BY <1>4, <1>7, <3>1, <3>2
  <2> QED
    BY <1>1, <1>2, <2>1, <2>2 DEF ReaderInv, Published, Overwritten
<1>9. /\ rpc' \in {"idle", "copy", "check"} /\ wanted' \in Frames \cup {None} /\ tries' \in 0 .. 3
      /\ Len(copied') <= Planes /\ lastRead' \in Seq(PlaneValues) /\ Len(lastRead') <= Planes
  BY <1>1, <1>2, <1>4, <1>7 DEF TypeInv
<1> QED
  BY <1>1, <1>7, <1>8, <1>9, ReaderStep

\* The copy counts if the header is still that of the frame.
LEMMA ReadEndKeeps ==
  ASSUME CameraInv, ReadEnd
  PROVE  CameraInv'
<1>1. /\ rpc = "copy" /\ Len(copied) = Planes
      /\ \/ Published(wanted) /\ rpc' = "idle" /\ lastRead' = copied
         \/ rpc' \in {"check", "idle"} /\ lastRead' = lastRead
      /\ UNCHANGED <<threaded, childVars, ringVars, channelVars, handleVars>>
      /\ wanted' = wanted /\ copied' = copied /\ tries' = tries
  BY DEF ReadEnd
<1>2. TypeInv /\ ReaderInv
  BY DEF CameraInv
<1>3. ReaderInv'
  <2>1. wanted \in Frames /\ rpc' # "copy"
    BY <1>1, <1>2 DEF ReaderInv
  <2>2. NoTornFrame'
    BY <1>1, <1>2 DEF ReaderInv, NoTornFrame
  <2> QED
    BY <1>1, <2>1, <2>2 DEF ReaderInv
<1>4. /\ rpc' \in {"idle", "copy", "check"} /\ wanted' \in Frames \cup {None} /\ tries' \in 0 .. 3
      /\ copied' \in Seq(PlaneValues) /\ Len(copied') <= Planes
      /\ lastRead' \in Seq(PlaneValues) /\ Len(lastRead') <= Planes
  BY <1>1, <1>2 DEF TypeInv
<1> QED
  BY <1>1, <1>3, <1>4, ReaderStep

\* The thread's ring looks again.
LEMMA ReadRetryKeeps ==
  ASSUME CameraInv, ReadRetry
  PROVE  CameraInv'
<1>1. /\ rpc = "check" /\ tries' = IF tries < 3 THEN tries + 1 ELSE tries
      /\ rpc' \in {"idle", "copy", "check"} /\ (rpc' = "copy" => Published(wanted))
      /\ copied' = <<>>
      /\ UNCHANGED <<threaded, childVars, ringVars, channelVars, handleVars>>
      /\ wanted' = wanted /\ lastRead' = lastRead
  BY DEF ReadRetry
<1>2. TypeInv /\ ReaderInv
  BY DEF CameraInv
<1>3. ReaderInv'
  <2>1. wanted \in Frames /\ header' = header /\ NoTornFrame'
    BY <1>1, <1>2 DEF ReaderInv, ringVars, NoTornFrame
  <2> QED
    BY <1>1, <2>1 DEF ReaderInv, Published
<1>4. tries' \in 0 .. 3
  BY <1>1, <1>2 DEF TypeInv
<1>5. /\ wanted' \in Frames \cup {None} /\ copied' \in Seq(PlaneValues) /\ Len(copied') <= Planes
      /\ lastRead' \in Seq(PlaneValues) /\ Len(lastRead') <= Planes
  BY <1>1, <1>2 DEF TypeInv
<1> QED
  BY <1>1, <1>3, <1>4, <1>5, ReaderStep

\* A step that changes nothing.
LEMMA StutterKeeps ==
  ASSUME CameraInv, UNCHANGED vars
  PROVE  CameraInv'
<1>1. UNCHANGED <<threaded, childVars, ringVars, channelVars, handleVars>>
      /\ rpc' = rpc /\ wanted' = wanted /\ copied' = copied /\ tries' = tries /\ lastRead' = lastRead
  BY DEF vars, readerVars
<1>2. TypeInv /\ ReaderInv /\ HeaderMoves
  BY <1>1 DEF CameraInv, ringVars, HeaderMoves
<1>3. ReaderInv'
  BY <1>1, <1>2, ReaderKept DEF readerVars
<1>4. /\ rpc' \in {"idle", "copy", "check"} /\ wanted' \in Frames \cup {None} /\ tries' \in 0 .. 3
      /\ copied' \in Seq(PlaneValues) /\ Len(copied') <= Planes
      /\ lastRead' \in Seq(PlaneValues) /\ Len(lastRead') <= Planes
  BY <1>1, <1>2 DEF TypeInv
<1> QED
  BY <1>1, <1>3, <1>4, ReaderStep

-----------------------------------------------------------------------------
(* The theorems *)

\* Every step of the child, of the handle and of a reader keeps the invariant.
LEMMA NextKeeps ==
  ASSUME CameraInv, [Next]_vars
  PROVE  CameraInv'
<1>1. CASE ChildStep
  BY <1>1, AttachKeeps, OpenCameraKeeps, CaptureLoopKeeps, CaptureOnceKeeps, CaptureFailsKeeps, PublishBeginKeeps,
     CopyPlaneKeeps, PublishEndKeeps, AnnounceFrameKeeps, AnnounceReferenceKeeps, ReportFailureKeeps, FinallyKeeps
  DEF ChildStep
<1>2. CASE HandleStep
  BY <1>2, StartKeeps, StartPollKeeps, StartTimeoutKeeps, PollErrorKeeps, DrainDescriptorKeeps, StopKeeps,
     JoinedKeeps, JoinTimeoutKeeps, ReleaseKeeps
  DEF HandleStep
<1>3. CASE ReadBegin \/ ReadPlane \/ ReadEnd \/ ReadRetry
  BY <1>3, ReadBeginKeeps, ReadPlaneKeeps, ReadEndKeeps, ReadRetryKeeps
<1>4. CASE UNCHANGED vars
  BY <1>4, StutterKeeps
<1> QED
  BY <1>1, <1>2, <1>3, <1>4 DEF Next

\* The whole invariant of a camera, of its ring, its handle and its readers
\* holds whatever the interleaving.
THEOREM CameraInvariance == Spec => []CameraInv
<1>1. Init => CameraInv
  BY InitInv
<1>2. CameraInv /\ [Next]_vars => CameraInv'
  BY NextKeeps
<1> QED
  BY <1>1, <1>2, PTL DEF Spec

\* The invariant gives the types the model states.
LEMMA Typed ==
  ASSUME CameraInv
  PROVE  TypeOK
<1>1. TypeInv
  BY DEF CameraInv
<1>2. /\ Seqs(descriptors) \subseteq Frames /\ Seqs(references) \subseteq Frames /\ Seqs(status) \subseteq Words
      /\ Seqs(copied) \subseteq PlaneValues /\ Seqs(lastRead) \subseteq PlaneValues
  BY <1>1 DEF TypeInv, Seqs
<1> QED
  BY <1>1, <1>2, Zenon DEF TypeInv, TypeOK, ChildPlaces, HandlePlaces, Words

\* Types: every variable of the camera process, of the ring and of the handle
\* keeps its range, the queues their bounds.
THEOREM TypeCorrect == Spec => []TypeOK
<1>1. CameraInv => TypeOK
  BY Typed
<1> QED
  BY <1>1, CameraInvariance, PTL

\* read() of SharedMemoryCameraFrameRing and of CameraFrameRing never hands out
\* planes of two frames, or half of one, however often the child overtakes the
\* reader, for every capacity and every number of planes.
THEOREM ReadCorrect == Spec => []NoTornFrame
<1>1. CameraInv => NoTornFrame
  BY DEF CameraInv, ReaderInv
<1> QED
  BY <1>1, CameraInvariance, PTL

\* What a handle tells is true of its child: references of frames still in the
\* ring have their metadata, start() of a process returns with a frame or an
\* error, and a closed handle has no process left.
THEOREM HandleCorrect == Spec => []HandleIsTruthful
<1>1. CameraInv => HandleIsTruthful
  <2> SUFFICES ASSUME CameraInv PROVE HandleIsTruthful
    OBVIOUS
  <2>1. TypeOK
    BY Typed
  <2>2. ReadableFrameHasMetadata
    <3>1. ASSUME NEW r \in Seqs(references), Published(r) PROVE ~Overwritten(r)
      <4>1. r \in Frames
        BY DEF CameraInv, TypeInv, Seqs
      <4>2. r \in Nat
        BY <4>1, HeaderTypes DEF CameraInv
      <4> QED
        BY <3>1, <4>2 DEF Published, Overwritten, StableVersion
    <3> QED
      BY <3>1 DEF ReadableFrameHasMetadata, CameraInv, RefInv
  <2>3. StartedWithFrameOrError
    BY DEF StartedWithFrameOrError, CameraInv, StatusInv, OrderInv
  <2>4. ClosedCameraHasNoWriter
    BY DEF ClosedCameraHasNoWriter, CameraInv, OrderInv
  <2> QED
    BY <2>1, <2>2, <2>3, <2>4 DEF HandleIsTruthful
<1> QED
  BY <1>1, CameraInvariance, PTL

=============================================================================
