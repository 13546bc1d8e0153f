------------------------ MODULE EpisodeWriterProofs ------------------------
(***************************************************************************)
(* Proofs about EpisodeWriter, for every set of formats and of camera      *)
(* roles, every queue and batch size and every bound: its types, that an   *)
(* episode claims only what is on disk, and that the writers implement     *)
(* EpisodeStore.                                                           *)
(*                                                                         *)
(* The argument follows an episode through four phases.  While it records, *)
(* the row file and the frames on disk are what the writer has counted     *)
(* (Content); a terminal call turns that into a plan, and what is still in *)
(* the plan says what is not yet final (PlanInv); publishing is the last   *)
(* step but the index, so an episode whose metadata are final is left      *)
(* alone (Settles).  All of it rests on the order in which the caller may  *)
(* put calls (CallOrder) and on the next session choosing an index at      *)
(* which nothing has a final name (DiskOrder, Fresh).                      *)
(***************************************************************************)
EXTENDS EpisodeWriter, FiniteSetTheorems, SequenceTheorems, WellFoundedInduction, TLAPS

\* What the variables hold: the queued calls, the files and the writer object.
Methods == {"begin", "sample", "quality", "stop", "finalize", "discard"}
Items == {i \in [m : Methods, status : {"none", "COMPLETED", "ABORTED"}] : i.m = "finalize" <=> i.status # "none"}
FileStates == [at : {"absent", "partial", "final"}, by : 0 .. MaxSessions, n : 0 .. MaxRows]
Disks == [Episodes -> [Files -> FileStates]]
Steps == Files \cup {"publish", "index", "frames", "tree"}
Writers == [started : BOOLEAN, rows : Nat, frames : [Roles -> Nat], error : BOOLEAN, beginFailed : BOOLEAN,
            lines : Nat, status : {"none", "COMPLETED", "ABORTED", "discard"}]
Statuses == {"COMPLETED", "ABORTED", "INVALID"}

\* The calls the worker has still to finish, in their order.
Calls == batch \o queue
Appends(c) == {i \in DOMAIN c : c[i].m \in {"sample", "quality"}}

\* The types of the state, with those TypeOK leaves open.
TypeInv ==
    /\ TypeOK
    /\ queue \in Seq(Items) /\ batch \in Seq(Items) /\ plan \in Seq(Steps)
    /\ writer \in Writers
    /\ disk \in Disks
    /\ metaOf \in [Episodes -> {"none", "recording"} \cup Statuses]

\* The calls of an episode: its start, rows, one terminal call, the sentinel.
CallOrder ==
    \A i \in DOMAIN Calls :
        /\ Calls[i].m = "begin" => i = 1 /\ cpc # "new"
        /\ IsTerminal(Calls[i]) =>
              cpc \notin {"new", "open"} /\ \A j \in DOMAIN Calls : j > i => Calls[j].m = "stop"
        /\ Calls[i].m = "stop" => i = Len(Calls) /\ cpc \in {"joining", "failed"}

\* What the caller's and the worker's program counters say of the calls.
Begun == [NewWriter EXCEPT !.started = TRUE]
ThreadOrder ==
    /\ Calls # <<>> /\ Calls[1].m = "begin" => writer = IF wpc = "beginMeta" THEN Begun ELSE NewWriter
    /\ cpc = "new" => Calls = <<>> /\ wpc = "get" /\ ~stop /\ writer = NewWriter
    /\ stop => Calls = <<>> /\ cpc \in {"joining", "failed", "settled"}
    /\ wpc = "get" => batch = <<>>
    /\ wpc = "beginMeta" => batch # <<>> /\ Calls[1].m = "begin"
    /\ wpc = "plan" => batch # <<>> /\ IsTerminal(Calls[1])
    /\ wpc # "plan" => plan = <<>>
    /\ wpc = "ended" => Calls = <<>> /\ (cpc = "down" \/ stop)
    /\ cpc \in {"down", "settled"} => wpc = "ended"
    /\ cpc = "down" => writer = NewWriter /\ session < MaxSessions

\* Nothing that carries a name has been left at an index by an earlier episode.
Fresh(e) == \A f \in (IF format = "staging" THEN {"sample", "meta"} ELSE Files) : disk[e][f].at = "absent"

\* The writer still adds rows; afterwards its terminal call has begun.
Recording == writer.started /\ writer.status = "none"
Finalizing == wpc = "plan" /\ writer.status # "discard"

DiskOrder ==
    /\ \A e \in Episodes, f \in Files : disk[e][f].at = "absent" => disk[e][f].n = 0
    /\ \A e \in Episodes, f \in Files : disk[e][f].at = "final" => disk[e]["sample"].at = "final"
    /\ \A e \in Episodes : e > index => Fresh(e)
    /\ cpc = "new" => Fresh(index)
    /\ Calls # <<>> /\ Calls[1].m = "begin" /\ wpc # "beginMeta" => Fresh(index)
    /\ writer.started => \A f \in Files : disk[index][f].at # "absent" => disk[index][f].by = session
    /\ writer.started => disk[index]["sample"].at # "absent" \/ writer.status = "discard"

\* Once its metadata are final an episode is left alone.
Settles ==
    \A e \in Episodes : disk[e]["meta"].at = "final" =>
        /\ metaOf[e] \in Statuses
        /\ e = index => /\ cpc \notin {"new", "open"}
                        /\ IF wpc = "plan" THEN Finalizing /\ \A i \in DOMAIN plan : plan[i] = "index"
                           ELSE \A i \in DOMAIN Calls : Calls[i].m = "stop"

\* What a recording writer has on disk.
Content ==
    Recording =>
        /\ disk[index]["sample"].at = "partial"
        /\ disk[index]["sample"].n = IF format = "raw" THEN 0 ELSE writer.rows
        /\ disk[index]["meta"].at = (IF wpc = "beginMeta" \/ writer.beginFailed THEN "absent" ELSE "partial")
        /\ \A r \in Roles : /\ disk[index][r].n = writer.frames[r]
                            /\ disk[index][r].at = IF writer.frames[r] = 0 THEN "absent" ELSE "partial"

DiskInv == DiskOrder /\ Settles /\ Content /\ OneRecording

\* The order in which a finalize call names what it has written: the row file
\* first, the metadata after everything but the index.
OrderedPlan(p) ==
    \A i \in DOMAIN p :
        /\ p[i] # "tree"
        /\ p[i] = "sample" => i = 1
        /\ p[i] = "frames" => format = "raw"
        /\ p[i] = "publish" => \A j \in DOMAIN p : j > i => p[j] = "index"
        /\ p[i] = "index" => i = Len(p)
        /\ format # "staging" => p[i] \notin Files \ {"meta"}

\* A step that is still to be taken.
PlanHas(s) == \E i \in DOMAIN plan : plan[i] = s

\* What a terminal call has still to do says what it has not yet done: a file
\* keeps its partial name while its rename is in the plan, the metadata are
\* final once "publish" is gone, and a completed episode has all it claims.
PlanInv ==
    /\ wpc = "plan" => writer.status # "none"
    /\ writer.status # "none" =>
          cpc \notin {"new", "open"} /\ (wpc # "plan" => \A i \in DOMAIN Calls : Calls[i].m = "stop")
    /\ wpc = "plan" /\ writer.status = "discard" => \A i \in DOMAIN plan : plan[i] \in Files \cup {"tree"}
    /\ Finalizing =>
        /\ writer.started
        /\ OrderedPlan(plan)
        /\ \A f \in {"sample"} \cup Roles : format = "staging" /\ ~PlanHas(f) => disk[index][f].at # "partial"
        /\ format = "raw" /\ ~PlanHas("frames") => disk[index]["sample"].n = writer.rows
        /\ ~PlanHas("meta") => metaOf[index] \in Statuses /\ (metaOf[index] = "COMPLETED" => writer.status = "COMPLETED")
        /\ disk[index]["meta"].at = IF PlanHas("publish") THEN "partial" ELSE "final"
        /\ writer.status = "COMPLETED" =>
              /\ ~writer.error /\ writer.rows > 0
              /\ \A r \in Roles : disk[index][r].n = writer.rows /\ disk[index][r].at # "absent"
              /\ format # "raw" => disk[index]["sample"].n = writer.rows

\* The rows, the quality lines and the row calls still to run: what is left of
\* the accepted calls.  Nothing is lost before an error, a camera is at most one
\* frame ahead of the rows, and an error has a fault or a leftover behind it.
Kept == writer.rows + writer.lines + Cardinality(Appends(Calls))
AccountInv ==
    /\ Kept <= accepted
    /\ ~writer.error => Kept = accepted
    /\ \/ \A r \in Roles : writer.frames[r] = writer.rows
       \/ /\ \A r \in Roles : writer.frames[r] \in {writer.rows, writer.rows + 1}
          /\ writer.error /\ Kept < accepted
    /\ writer.error => writer.beginFailed \/ faults > 0

WriterInv == TypeInv /\ CallOrder /\ ThreadOrder /\ DiskInv /\ PlanInv /\ AccountInv

USE WriterAssumption

-----------------------------------------------------------------------------
(* Sequences of calls *)

\* What Tail does, item by item.
LEMMA TailItems ==
  ASSUME NEW S, NEW s \in Seq(S), s # <<>>
  PROVE  /\ Tail(s) \in Seq(S) /\ Len(s) \in Nat /\ Len(s) > 0 /\ Len(Tail(s)) = Len(s) - 1
         /\ DOMAIN s = 1 .. Len(s) /\ DOMAIN Tail(s) = 1 .. Len(s) - 1
         /\ Head(s) = s[1] /\ s[1] \in S
         /\ \A i \in 1 .. Len(s) - 1 : Tail(s)[i] = s[i + 1]
  BY HeadTailProperties, LenProperties, EmptySeq

\* An item put at the end adds a row call, or none.
LEMMA AppendsOfAppend ==
  ASSUME NEW s \in Seq(Items), NEW x \in Items
  PROVE  /\ IsFiniteSet(Appends(s)) /\ Cardinality(Appends(s)) \in Nat
         /\ Cardinality(Appends(Append(s, x))) =
               Cardinality(Appends(s)) + (IF x.m \in {"sample", "quality"} THEN 1 ELSE 0)
<1>1. Len(s) \in Nat /\ DOMAIN s = 1 .. Len(s)
  OBVIOUS
<1>2. IsFiniteSet(Appends(s))
  <2>1. IsFiniteSet(1 .. Len(s))
    BY <1>1, FS_Interval
  <2> QED
    BY <1>1, <2>1, FS_Subset DEF Appends
<1>3. DOMAIN Append(s, x) = 1 .. Len(s) + 1 /\ Append(s, x)[Len(s) + 1] = x
      /\ \A i \in 1 .. Len(s) : Append(s, x)[i] = s[i]
  OBVIOUS
<1>4. Len(s) + 1 \notin Appends(s)
  BY <1>1 DEF Appends
<1>5. CASE x.m \in {"sample", "quality"}
  <2>1. Appends(Append(s, x)) = Appends(s) \cup {Len(s) + 1}
    BY <1>1, <1>3, <1>5 DEF Appends
  <2> QED
    BY <1>2, <1>4, <1>5, <2>1, FS_AddElement, FS_CardinalityType
<1>6. CASE x.m \notin {"sample", "quality"}
  <2>1. Appends(Append(s, x)) = Appends(s)
    BY <1>1, <1>3, <1>6 DEF Appends
  <2> QED
    BY <1>2, <1>6, <2>1, FS_CardinalityType
<1> QED
  BY <1>5, <1>6

\* The item at the head was a row call, or none.
LEMMA AppendsOfTail ==
  ASSUME NEW s \in Seq(Items), s # <<>>
  PROVE  Cardinality(Appends(s)) =
           Cardinality(Appends(Tail(s))) + (IF s[1].m \in {"sample", "quality"} THEN 1 ELSE 0)
<1> DEFINE A == Appends(Tail(s))
           B == Appends(s) \ {1}
           shift == [i \in A |-> i + 1]
<1>1. /\ Tail(s) \in Seq(Items) /\ Len(s) \in Nat /\ Len(s) > 0
      /\ DOMAIN s = 1 .. Len(s) /\ DOMAIN Tail(s) = 1 .. Len(s) - 1
      /\ \A i \in 1 .. Len(s) - 1 : Tail(s)[i] = s[i + 1]
  BY TailItems
<1>2. IsFiniteSet(A) /\ IsFiniteSet(Appends(s)) /\ Cardinality(A) \in Nat /\ Cardinality(Appends(s)) \in Nat
  <2>1. Item("stop") \in Items
    BY DEF Items, Item, Methods
  <2> QED
    BY <1>1, <2>1, AppendsOfAppend
<1>3. A \subseteq Int /\ B \subseteq Int
  BY <1>1 DEF Appends
<1>4. ExistsBijection(A, B)
  <2>1. \A i \in A : i + 1 \in B
    BY <1>1 DEF Appends
  <2>2. \A j \in B : j - 1 \in A
    BY <1>1 DEF Appends
  <2>3. shift \in [A -> B]
    BY <2>1
  <2>4. \A i, j \in A : shift[i] = shift[j] => i = j
    BY <1>3
  <2>5. \A j \in B : \E i \in A : shift[i] = j
    <3> TAKE j \in B
    <3>1. j - 1 \in A /\ shift[j - 1] = j
      BY <1>3, <2>2
    <3> QED
      BY <3>1
  <2>6. shift \in Bijection(A, B)
    BY <2>3, <2>4, <2>5 DEF Bijection, Injection, Surjection, IsInjective
  <2> QED
    BY <2>6 DEF ExistsBijection
<1>5. Cardinality(B) = Cardinality(A)
  BY <1>2, <1>4, FS_Bijection
<1>6. 1 \in Appends(s) <=> s[1].m \in {"sample", "quality"}
  BY <1>1 DEF Appends
<1>7. Cardinality(B) = IF 1 \in Appends(s) THEN Cardinality(Appends(s)) - 1 ELSE Cardinality(Appends(s))
  BY <1>2, FS_RemoveElement
<1> QED
  BY <1>2, <1>5, <1>6, <1>7

\* A call put into the queue is the last one.
LEMMA PutCall ==
  ASSUME TypeInv, NEW x \in Items, queue' = Append(queue, x), batch' = batch
  PROVE  /\ Calls \in Seq(Items) /\ Calls' \in Seq(Items)
         /\ Len(Calls) \in Nat /\ DOMAIN Calls = 1 .. Len(Calls)
         /\ Len(Calls') = Len(Calls) + 1 /\ DOMAIN Calls' = 1 .. Len(Calls) + 1
         /\ \A i \in 1 .. Len(Calls) : Calls'[i] = Calls[i]
         /\ Calls'[Len(Calls) + 1] = x
         /\ Cardinality(Appends(Calls)) \in Nat
         /\ Cardinality(Appends(Calls')) =
               Cardinality(Appends(Calls)) + (IF x.m \in {"sample", "quality"} THEN 1 ELSE 0)
<1>1. queue \in Seq(Items) /\ batch \in Seq(Items) /\ Calls \in Seq(Items)
  BY DEF TypeInv, Calls
<1>2. Calls' = Append(Calls, x)
  BY <1>1 DEF Calls
<1> QED
  BY <1>1, <1>2, AppendsOfAppend

\* The call at the head of the batch is done.
LEMMA DoneCall ==
  ASSUME TypeInv, batch # <<>>, batch' = Tail(batch), queue' = queue
  PROVE  /\ Calls \in Seq(Items) /\ Calls' \in Seq(Items) /\ Calls # <<>>
         /\ Len(Calls) \in Nat /\ Len(Calls) > 0 /\ DOMAIN Calls = 1 .. Len(Calls)
         /\ Len(Calls') = Len(Calls) - 1 /\ DOMAIN Calls' = 1 .. Len(Calls) - 1
         /\ Head(batch) = Calls[1] /\ Calls[1] \in Items
         /\ \A i \in 1 .. Len(Calls) - 1 : Calls'[i] = Calls[i + 1]
         /\ Cardinality(Appends(Calls')) \in Nat
         /\ Cardinality(Appends(Calls)) =
               Cardinality(Appends(Calls')) + (IF Calls[1].m \in {"sample", "quality"} THEN 1 ELSE 0)
<1>1. queue \in Seq(Items) /\ batch \in Seq(Items) /\ Calls \in Seq(Items)
  BY DEF TypeInv, Calls
<1>2. Tail(batch) \in Seq(Items) /\ Len(batch) \in Nat /\ Len(batch) > 0 /\ Len(Tail(batch)) = Len(batch) - 1
      /\ Head(batch) = batch[1] /\ \A i \in 1 .. Len(batch) - 1 : Tail(batch)[i] = batch[i + 1]
  BY <1>1, TailItems
<1>3. Len(Calls) = Len(batch) + Len(queue) /\ Len(queue) \in Nat
      /\ \A i \in 1 .. Len(Calls) : Calls[i] = IF i <= Len(batch) THEN batch[i] ELSE queue[i - Len(batch)]
  BY <1>1, ConcatProperties, LenProperties DEF Calls
<1>4. Calls' \in Seq(Items) /\ Len(Calls') = Len(Calls) - 1
      /\ \A i \in 1 .. Len(Calls) - 1 :
            Calls'[i] = IF i <= Len(batch) - 1 THEN batch[i + 1] ELSE queue[i - (Len(batch) - 1)]
  BY <1>1, <1>2, <1>3, ConcatProperties DEF Calls
<1>5. \A i \in 1 .. Len(Calls) - 1 : Calls'[i] = Calls[i + 1]
  BY <1>2, <1>3, <1>4, SMTT(60)
<1>6. Calls # <<>> /\ Len(Calls) \in Nat /\ Calls[1] = Head(batch) /\ Calls[1] \in Items
  BY <1>1, <1>2, <1>3
<1>7. Calls' = Tail(Calls)
  <2>1. Tail(Calls) \in Seq(Items) /\ Len(Tail(Calls)) = Len(Calls) - 1
        /\ \A i \in 1 .. Len(Calls) - 1 : Tail(Calls)[i] = Calls[i + 1]
    BY <1>1, <1>6, TailItems
  <2> QED
    BY <1>4, <1>5, <2>1, SeqEqual
<1>8. Item("stop") \in Items
  BY DEF Item, Items, Methods
<1>9. Cardinality(Appends(Calls')) \in Nat
  BY <1>4, <1>8, AppendsOfAppend
<1>10. Cardinality(Appends(Calls)) =
         Cardinality(Appends(Calls')) + (IF Calls[1].m \in {"sample", "quality"} THEN 1 ELSE 0)
  BY <1>1, <1>6, <1>7, AppendsOfTail
<1>11. DOMAIN Calls = 1 .. Len(Calls) /\ DOMAIN Calls' = 1 .. Len(Calls) - 1
  BY <1>1, <1>4, LenProperties
<1> QED
  BY <1>1, <1>3, <1>4, <1>5, <1>6, <1>9, <1>10, <1>11

\* The calls are those in the batch, then those in the queue.
LEMMA SomeCalls ==
  ASSUME TypeInv
  PROVE  /\ Calls \in Seq(Items) /\ Len(Calls) \in Nat /\ DOMAIN Calls = 1 .. Len(Calls)
         /\ \A i \in DOMAIN Calls : Calls[i] \in Items
         /\ batch # <<>> => Calls # <<>> /\ Len(Calls) > 0 /\ Head(batch) = Calls[1]
         /\ Calls = <<>> <=> Len(Calls) = 0
         /\ Calls = <<>> <=> batch = <<>> /\ queue = <<>>
         /\ Cardinality(Appends(Calls)) \in Nat
<1>1. queue \in Seq(Items) /\ batch \in Seq(Items) /\ Calls \in Seq(Items)
  BY DEF TypeInv, Calls
<1>2. Len(Calls) = Len(batch) + Len(queue) /\ Len(queue) \in Nat /\ Len(batch) \in Nat
      /\ \A i \in 1 .. Len(Calls) : Calls[i] = IF i <= Len(batch) THEN batch[i] ELSE queue[i - Len(batch)]
  BY <1>1, ConcatProperties, LenProperties DEF Calls
<1>3. batch # <<>> => Len(batch) > 0 /\ Head(batch) = batch[1]
  BY <1>1, TailItems
<1>4. Item("stop") \in Items
  BY DEF Item, Items, Methods
<1>5. Cardinality(Appends(Calls)) \in Nat
  BY <1>1, <1>4, AppendsOfAppend
<1> QED
  BY <1>1, <1>2, <1>3, <1>5, EmptySeq, LenProperties, ElementOfSeq

\* Taking a batch leaves the calls as they are.
LEMMA TakeCalls ==
  ASSUME TypeInv, batch = <<>>, TakeBatch
  PROVE  /\ Calls' = Calls /\ queue' \in Seq(Items) /\ batch' \in Seq(Items)
         /\ Len(batch') <= BatchSize /\ Len(queue') <= Capacity
<1>1. queue \in Seq(Items) /\ Len(queue) \in Nat /\ Len(queue) > 0 /\ Len(queue) <= Capacity
  BY EmptySeq DEF TypeInv, TypeOK, TakeBatch
<1> DEFINE k == Min({BatchSize, Len(queue)})
<1>2. BatchSize \in Nat /\ BatchSize > 0 /\ Capacity \in Nat
  BY DEF WriterAssumption
<1>3. k \in 1 .. Len(queue) /\ k <= BatchSize
  <2>1. \E x \in {BatchSize, Len(queue)} : \A y \in {BatchSize, Len(queue)} : x =< y
    BY <1>1, <1>2
  <2>2. k \in {BatchSize, Len(queue)} /\ k =< BatchSize /\ k =< Len(queue)
    BY <2>1 DEF Min
  <2> QED
    BY <1>1, <1>2, <2>2
<1>4. batch' = SubSeq(queue, 1, k) /\ queue' = SubSeq(queue, k + 1, Len(queue))
  BY DEF TakeBatch
<1> HIDE DEF k
<1>5. batch' \in Seq(Items) /\ Len(batch') = k
  BY <1>1, <1>3, <1>4
<1>6. queue' \in Seq(Items) /\ Len(queue') = Len(queue) - k
  BY <1>1, <1>3, <1>4
<1>7. SubSeq(queue, 1, k) \o SubSeq(queue, k + 1, Len(queue)) = SubSeq(queue, 1, Len(queue))
  BY <1>1, <1>3, ConcatAdjacentSubSeq
<1>8. SubSeq(queue, 1, Len(queue)) = queue
  BY <1>1, SubSeqFull
<1>9. Calls = queue
  BY <1>1, ConcatEmptySeq DEF Calls
<1>10. Calls' = queue
  BY <1>4, <1>7, <1>8 DEF Calls
<1> QED
  BY <1>1, <1>2, <1>3, <1>5, <1>6, <1>9, <1>10

-----------------------------------------------------------------------------
(* What the file operations do, file by file *)

\* The names in use are different names, and the bounds are numbers.
LEMMA Names ==
  /\ {"sample", "quality", "meta"} \subseteq Files /\ Roles \subseteq Files
  /\ \A r \in Roles : r \notin {"sample", "quality", "meta", "publish", "index", "frames", "tree"}
  /\ Episodes \subseteq Nat /\ 0 \in Episodes /\ 0 \in 0 .. MaxRows /\ 1 \in 0 .. MaxSessions
  /\ MaxRows \in Nat /\ MaxSessions \in Nat /\ MaxEpisodes \in Nat /\ MaxFaults \in Nat
  /\ Capacity \in Nat /\ BatchSize \in Nat /\ MaxSessions > 0 /\ BatchSize > 0 /\ Capacity > 0
  BY DEF WriterAssumption, Files, Episodes

\* Touch creates a file that is absent and sets the length of any other.
LEMMA TouchFiles ==
  ASSUME NEW d \in Disks, index \in Episodes, session \in 1 .. MaxSessions, NEW f \in Files, NEW n \in 0 .. MaxRows
  PROVE  /\ Touch(d, f, n) \in Disks
         /\ \A e \in Episodes, g \in Files :
               Touch(d, f, n)[e][g] =
                 IF e = index /\ g = f
                 THEN IF d[e][g].at = "absent" THEN [at |-> "partial", by |-> session, n |-> n]
                      ELSE [at |-> d[e][g].at, by |-> d[e][g].by, n |-> n]
                 ELSE d[e][g]
<1> DEFINE new == IF d[index][f].at = "absent" THEN [at |-> "partial", by |-> session, n |-> n]
                  ELSE [d[index][f] EXCEPT !.n = n]
<1>1. session \in 0 .. MaxSessions
  BY Names
<1>2. d[index] \in [Files -> FileStates] /\ d[index][f] \in FileStates
  BY DEF Disks
<1>3. new \in FileStates /\ new = IF d[index][f].at = "absent" THEN [at |-> "partial", by |-> session, n |-> n]
                                  ELSE [at |-> d[index][f].at, by |-> d[index][f].by, n |-> n]
  BY <1>1, <1>2 DEF FileStates
<1>4. Touch(d, f, n) = [d EXCEPT ![index] = [d[index] EXCEPT ![f] = new]]
  BY DEF Touch
<1> HIDE DEF new
<1>5. [d[index] EXCEPT ![f] = new] \in [Files -> FileStates]
  BY <1>2, <1>3
<1>6. Touch(d, f, n) \in Disks
  BY <1>4, <1>5 DEF Disks
<1>7. ASSUME NEW e \in Episodes, NEW g \in Files
      PROVE  Touch(d, f, n)[e][g] = IF e = index /\ g = f THEN new ELSE d[e][g]
  BY <1>2, <1>4 DEF Disks
<1> QED
  BY <1>3, <1>6, <1>7

\* A row touches the row file, except in the raw format, and the cameras
\* whose frame was written.
LEMMA SampleFiles ==
  ASSUME TypeInv, NEW rows \in 0 .. MaxRows, NEW frames \in [Roles -> 0 .. MaxRows]
  PROVE  /\ WriteSample(rows, frames) \in Disks
         /\ \A e \in Episodes, g \in Files :
               WriteSample(rows, frames)[e][g] =
                 LET n == IF g = "sample" THEN rows ELSE frames[g] IN
                 IF e = index /\ ((g = "sample" /\ format # "raw") \/ (g \in Roles /\ frames[g] > writer.frames[g]))
                 THEN IF disk[e][g].at = "absent" THEN [at |-> "partial", by |-> session, n |-> n]
                      ELSE [at |-> disk[e][g].at, by |-> disk[e][g].by, n |-> n]
                 ELSE disk[e][g]
<1> DEFINE d == IF format = "raw" THEN disk ELSE Touch(disk, "sample", rows)
           touched == {r \in Roles : frames[r] > writer.frames[r]}
           Cell(f) == IF f \in touched THEN Touch(d, f, frames[f])[index][f] ELSE d[index][f]
           row == [f \in Files |-> Cell(f)]
<1>1. index \in Episodes /\ session \in 1 .. MaxSessions /\ disk \in Disks
  BY DEF TypeInv, TypeOK
<1>2. d \in Disks
  BY <1>1, TouchFiles, Names
<1>3. \A e \in Episodes, g \in Files :
        d[e][g] = IF e = index /\ g = "sample" /\ format # "raw"
                  THEN IF disk[e][g].at = "absent" THEN [at |-> "partial", by |-> session, n |-> rows]
                       ELSE [at |-> disk[e][g].at, by |-> disk[e][g].by, n |-> rows]
                  ELSE disk[e][g]
  BY <1>1, TouchFiles, Names
<1>4. touched \subseteq Roles /\ Roles \subseteq Files /\ "sample" \notin touched
  BY Names
<1>5. WriteSample(rows, frames) = [d EXCEPT ![index] = row]
  BY DEF WriteSample
<1> HIDE DEF d
<1>6. \A f \in touched : /\ Touch(d, f, frames[f]) \in Disks
                         /\ Touch(d, f, frames[f])[index][f] =
                              IF d[index][f].at = "absent" THEN [at |-> "partial", by |-> session, n |-> frames[f]]
                              ELSE [at |-> d[index][f].at, by |-> d[index][f].by, n |-> frames[f]]
  <2> TAKE f \in touched
  <2>1. f \in Files /\ f \in Roles /\ frames[f] \in 0 .. MaxRows
    BY <1>4
  <2> QED
    BY <1>1, <1>2, <2>1, TouchFiles
<1>7. \A f \in Files : Cell(f) \in FileStates
  <2> TAKE f \in Files
  <2>1. d[index] \in [Files -> FileStates] /\ d[index][f] \in FileStates
    BY <1>1, <1>2 DEF Disks
  <2>2. ASSUME f \in touched PROVE Touch(d, f, frames[f])[index][f] \in FileStates
    <3> DEFINE t == Touch(d, f, frames[f])
    <3>1. t \in Disks
      BY <1>6, <2>2
    <3> HIDE DEF t
    <3>2. t[index][f] \in FileStates
      BY <1>1, <3>1 DEF Disks
    <3> QED
      BY <3>2 DEF t
  <2> QED
    BY <2>1, <2>2
<1>8. row \in [Files -> FileStates]
  BY <1>7
<1>9. WriteSample(rows, frames) \in Disks
  BY <1>1, <1>2, <1>5, <1>8 DEF Disks
<1>10. ASSUME NEW e \in Episodes, NEW g \in Files
       PROVE  WriteSample(rows, frames)[e][g] = IF e = index THEN Cell(g) ELSE d[e][g]
  <2>1. WriteSample(rows, frames)[e] = IF e = index THEN row ELSE d[e]
    BY <1>2, <1>5 DEF Disks
  <2> HIDE DEF Cell
  <2> QED
    BY <2>1
<1>11. ASSUME NEW e \in Episodes, NEW g \in Files
       PROVE  WriteSample(rows, frames)[e][g] =
                 LET n == IF g = "sample" THEN rows ELSE frames[g] IN
                 IF e = index /\ ((g = "sample" /\ format # "raw") \/ (g \in Roles /\ frames[g] > writer.frames[g]))
                 THEN IF disk[e][g].at = "absent" THEN [at |-> "partial", by |-> session, n |-> n]
                      ELSE [at |-> disk[e][g].at, by |-> disk[e][g].by, n |-> n]
                 ELSE disk[e][g]
  <2>1. CASE e = index /\ g \in touched
    <3>1. g # "sample" /\ g \in Roles /\ frames[g] > writer.frames[g]
      BY <1>4, <2>1
    <3>2. d[e][g] = disk[e][g]
      BY <1>3, <3>1
    <3> QED
      BY <1>6, <1>10, <2>1, <3>1, <3>2
  <2>2. CASE ~(e = index /\ g \in touched)
    <3>1. WriteSample(rows, frames)[e][g] = d[e][g]
      BY <1>10, <2>2
    <3> QED
      BY <1>3, <1>4, <2>2, <3>1
  <2> QED
    BY <2>1, <2>2
<1> QED
  BY <1>9, <1>11

\* Renames and unlinks concern the partial files of the index alone.
LEMMA RenameFiles ==
  ASSUME TypeInv, NEW s \in Files, Rename(s)
  PROVE  /\ disk' \in Disks
         /\ \A e \in Episodes, g \in Files :
               disk'[e][g] = IF e = index /\ g = s /\ disk[e][g].at = "partial"
                             THEN [at |-> "final", by |-> disk[e][g].by, n |-> disk[e][g].n] ELSE disk[e][g]
<1> DEFINE new == IF disk[index][s].at = "partial" THEN [disk[index][s] EXCEPT !.at = "final"] ELSE disk[index][s]
<1>1. disk \in Disks /\ index \in Episodes /\ disk[index] \in [Files -> FileStates] /\ disk[index][s] \in FileStates
  BY DEF TypeInv, TypeOK, Disks
<1>2. new \in FileStates /\ new = IF disk[index][s].at = "partial"
                                  THEN [at |-> "final", by |-> disk[index][s].by, n |-> disk[index][s].n]
                                  ELSE disk[index][s]
  BY <1>1 DEF FileStates
<1>3. disk' = [disk EXCEPT ![index] = [disk[index] EXCEPT ![s] = new]]
  BY DEF Rename
<1> HIDE DEF new
<1>4. [disk[index] EXCEPT ![s] = new] \in [Files -> FileStates]
  BY <1>1, <1>2
<1>5. disk' \in Disks
  BY <1>1, <1>3, <1>4 DEF Disks
<1>6. ASSUME NEW e \in Episodes, NEW g \in Files
      PROVE  disk'[e][g] = IF e = index /\ g = s THEN new ELSE disk[e][g]
  BY <1>1, <1>3 DEF Disks
<1> QED
  BY <1>2, <1>5, <1>6

\* Unlinking takes the partial files away.
LEMMA UnlinkFiles ==
  ASSUME TypeInv, NEW fs, Unlink(fs)
  PROVE  /\ disk' \in Disks
         /\ \A e \in Episodes, g \in Files :
               disk'[e][g] = IF e = index /\ g \in fs /\ disk[e][g].at = "partial" THEN Absent ELSE disk[e][g]
<1> DEFINE row == [f \in Files |-> IF f \in fs /\ disk[index][f].at = "partial" THEN Absent ELSE disk[index][f]]
<1>1. disk \in Disks /\ index \in Episodes /\ disk[index] \in [Files -> FileStates] /\ Absent \in FileStates
  <2>1. disk \in Disks /\ index \in Episodes
    BY DEF TypeInv, TypeOK
  <2>2. Absent \in FileStates
    BY Names DEF Absent, FileStates
  <2> QED
    BY <2>1, <2>2 DEF Disks
<1>2. row \in [Files -> FileStates]
  BY <1>1
<1>3. disk' = [disk EXCEPT ![index] = row]
  BY DEF Unlink
<1>4. disk' \in Disks
  BY <1>1, <1>2, <1>3 DEF Disks
<1> QED
  BY <1>1, <1>3, <1>4 DEF Disks

\* Renaming the directory gives all its files their final name.
LEMMA RenameTreeFiles ==
  ASSUME TypeInv, RenameTree
  PROVE  /\ disk' \in Disks
         /\ \A e \in Episodes, g \in Files :
               disk'[e][g] = IF e = index /\ disk[e][g].at = "partial"
                             THEN [at |-> "final", by |-> disk[e][g].by, n |-> disk[e][g].n] ELSE disk[e][g]
<1> DEFINE Cell(f) == IF disk[index][f].at = "partial" THEN [disk[index][f] EXCEPT !.at = "final"] ELSE disk[index][f]
           row == [f \in Files |-> Cell(f)]
<1>1. disk \in Disks /\ index \in Episodes /\ \A f \in Files : disk[index][f] \in FileStates
  BY DEF TypeInv, TypeOK, Disks
<1>2. \A f \in Files : Cell(f) \in FileStates
                       /\ Cell(f) = IF disk[index][f].at = "partial"
                                    THEN [at |-> "final", by |-> disk[index][f].by, n |-> disk[index][f].n]
                                    ELSE disk[index][f]
  BY <1>1 DEF FileStates
<1>3. disk' = [disk EXCEPT ![index] = row]
  BY DEF RenameTree
<1> HIDE DEF Cell
<1>4. row \in [Files -> FileStates]
  BY <1>2
<1>5. disk' \in Disks
  BY <1>1, <1>3, <1>4 DEF Disks
<1>6. ASSUME NEW e \in Episodes, NEW g \in Files
      PROVE  disk'[e][g] = IF e = index THEN Cell(g) ELSE disk[e][g]
  BY <1>1, <1>3 DEF Disks
<1> QED
  BY <1>2, <1>5, <1>6

-----------------------------------------------------------------------------
(* The order of the calls *)

\* The calls stay in order when only the caller moves on.
LEMMA SameOrder ==
  ASSUME TypeInv, CallOrder, queue' = queue, batch' = batch,
         \/ cpc' = cpc
         \/ cpc \notin {"joining", "failed"} /\ cpc' # "new" /\ (cpc' = "open" => cpc = "open")
         \/ cpc = "joining" /\ cpc' = "failed"
         \/ Calls = <<>>
  PROVE  CallOrder' /\ Calls' = Calls
<1>1. Calls' = Calls
  BY DEF Calls
<1>2. Calls = <<>> => DOMAIN Calls = {}
  BY SomeCalls
<1> QED
  BY <1>1, <1>2, SomeCalls DEF CallOrder

\* The calls stay in order when the first is done; after a terminal call
\* nothing but the sentinel is left.
LEMMA DoneOrder ==
  ASSUME TypeInv, CallOrder, batch # <<>>, batch' = Tail(batch), queue' = queue, cpc' = cpc
  PROVE  /\ CallOrder'
         /\ Calls' # <<>> => Calls'[1].m # "begin"
         /\ Calls[1].m = "stop" => Calls' = <<>>
         /\ IsTerminal(Calls[1]) => \A i \in DOMAIN Calls' : Calls'[i].m = "stop"
<1>1. CallOrder'
  <2>1. ASSUME NEW i \in DOMAIN Calls'
        PROVE  /\ i \in Nat /\ i > 0 /\ i + 1 \in DOMAIN Calls /\ Calls'[i] = Calls[i + 1]
               /\ \A j \in DOMAIN Calls' : j + 1 \in DOMAIN Calls /\ Calls'[j] = Calls[j + 1] /\ (j > i => j + 1 > i + 1)
    BY DoneCall, SMTT(60)
  <2>2. ASSUME NEW i \in DOMAIN Calls'
        PROVE  /\ Calls'[i].m # "begin"
               /\ IsTerminal(Calls'[i]) =>
                    cpc \notin {"new", "open"} /\ \A j \in DOMAIN Calls' : j > i => Calls'[j].m = "stop"
               /\ Calls'[i].m = "stop" => i = Len(Calls') /\ cpc \in {"joining", "failed"}
    <3>1. Calls[i + 1].m # "begin"
      BY <2>1, <2>2 DEF CallOrder
    <3>2. Calls[i + 1].m = "stop" => i + 1 = Len(Calls) /\ cpc \in {"joining", "failed"}
      BY <2>1, <2>2 DEF CallOrder
    <3>3. IsTerminal(Calls[i + 1]) =>
            cpc \notin {"new", "open"} /\ \A j \in DOMAIN Calls : j > i + 1 => Calls[j].m = "stop"
      BY <2>1, <2>2 DEF CallOrder
    <3>4. Len(Calls') = Len(Calls) - 1 /\ Len(Calls) \in Nat /\ i \in Nat /\ Calls'[i] = Calls[i + 1]
      BY <2>1, <2>2, DoneCall
    <3>5. ASSUME IsTerminal(Calls'[i]) PROVE cpc \notin {"new", "open"} /\ \A j \in DOMAIN Calls' : j > i => Calls'[j].m = "stop"
      <4>1. cpc \notin {"new", "open"} /\ \A j \in DOMAIN Calls : j > i + 1 => Calls[j].m = "stop"
        BY <3>3, <3>4, <3>5
      <4> QED
        BY <2>1, <2>2, <4>1
    <3>6. Calls'[i].m = "stop" => i = Len(Calls') /\ cpc \in {"joining", "failed"}
      BY <3>2, <3>4
    <3> QED
      BY <3>1, <3>4, <3>5, <3>6
  <2> QED
    BY <2>2 DEF CallOrder, IsTerminal
<1>2. Calls' # <<>> => Calls'[1].m # "begin"
  <2> SUFFICES ASSUME Calls' # <<>> PROVE Calls'[1].m # "begin"
    OBVIOUS
  <2>1. 1 \in DOMAIN Calls'
    BY DoneCall, EmptySeq
  <2>2. 2 \in DOMAIN Calls /\ Calls'[1] = Calls[2]
    BY <2>1, DoneCall
  <2> QED
    BY <2>2 DEF CallOrder
<1>3. Calls[1].m = "stop" => Calls' = <<>>
  <2> SUFFICES ASSUME Calls[1].m = "stop" PROVE Calls' = <<>>
    OBVIOUS
  <2>1. 1 \in DOMAIN Calls
    BY DoneCall
  <2>2. Len(Calls) = 1
    BY <2>1 DEF CallOrder
  <2> QED
    BY <2>2, DoneCall, EmptySeq
<1>4. IsTerminal(Calls[1]) => \A i \in DOMAIN Calls' : Calls'[i].m = "stop"
  <2>1. 1 \in DOMAIN Calls
    BY DoneCall
  <2>2. \A i \in DOMAIN Calls' : i + 1 \in DOMAIN Calls /\ i + 1 > 1 /\ Calls'[i] = Calls[i + 1]
    BY DoneCall
  <2> QED
    BY <2>1, <2>2 DEF CallOrder
<1> QED
  BY <1>1, <1>2, <1>3, <1>4

\* The calls stay in order when the caller puts one it may put.
LEMMA PutOrder ==
  ASSUME TypeInv, CallOrder, NEW x \in Items, queue' = Append(queue, x), batch' = batch,
         x.m = "begin" => Calls = <<>> /\ cpc' # "new",
         x.m # "stop" => cpc \in {"new", "open"},
         x.m = "stop" => cpc' \in {"joining", "failed"} /\ cpc \notin {"joining", "failed"},
         IsTerminal(x) => cpc' \notin {"new", "open"},
         cpc' # "new", cpc' = "open" => cpc \in {"new", "open"}
  PROVE  /\ CallOrder' /\ Calls' # <<>>
         /\ Calls # <<>> => Calls'[1] = Calls[1]
         /\ Calls = <<>> => Calls'[1] = x
<1>1. DOMAIN Calls = 1 .. Len(Calls) /\ DOMAIN Calls' = 1 .. Len(Calls) + 1 /\ Len(Calls) \in Nat
      /\ Len(Calls') = Len(Calls) + 1
      /\ (\A i \in DOMAIN Calls : Calls'[i] = Calls[i]) /\ Calls'[Len(Calls) + 1] = x
  BY PutCall
<1>2. \A i \in DOMAIN Calls : Calls[i].m # "stop"
  BY DEF CallOrder
<1>3. ASSUME NEW i \in DOMAIN Calls', i # Len(Calls) + 1
      PROVE  /\ Calls'[i].m = "begin" => i = 1 /\ cpc' # "new"
             /\ IsTerminal(Calls'[i]) => cpc' \notin {"new", "open"} /\ \A j \in DOMAIN Calls' : j > i => Calls'[j].m = "stop"
             /\ Calls'[i].m # "stop"
  <2>1. i \in DOMAIN Calls /\ Calls'[i] = Calls[i]
    BY <1>1, <1>3
  <2>2. Calls'[i].m = "begin" => i = 1
    BY <2>1 DEF CallOrder
  <2>3. ASSUME IsTerminal(Calls'[i]) PROVE cpc' \notin {"new", "open"} /\ \A j \in DOMAIN Calls' : j > i => Calls'[j].m = "stop"
    <3>1. cpc \notin {"new", "open"} /\ \A j \in DOMAIN Calls : j > i => Calls[j].m = "stop"
      BY <2>1, <2>3 DEF CallOrder
    <3>2. x.m = "stop"
      BY <3>1
    <3> QED
      BY <1>1, <3>1, <3>2
  <2> QED
    BY <1>2, <2>1, <2>2, <2>3
<1>4. /\ x.m = "begin" => Len(Calls) + 1 = 1 /\ cpc' # "new"
      /\ IsTerminal(x) => cpc' \notin {"new", "open"}
      /\ \A j \in DOMAIN Calls' : ~(j > Len(Calls) + 1)
  BY <1>1, SomeCalls
<1>5. CallOrder'
  BY <1>1, <1>3, <1>4 DEF CallOrder, IsTerminal
<1>6. Calls' # <<>>
  BY <1>1, PutCall, EmptySeq
<1> QED
  BY <1>1, <1>5, <1>6, SomeCalls

\* The calls of an episode keep their order: every step of the caller, the
\* worker, a crash and a restart.
LEMMA CallOrderStep ==
  ASSUME TypeInv, CallOrder, ThreadOrder, [Next]_vars
  PROVE  CallOrder' /\ ThreadOrder'
<1> USE DEF Item, Terminal, Sentinel, IsTerminal
<1>0. "begin" \in Methods /\ "stop" \in Methods /\ "sample" \in Methods /\ "quality" \in Methods
      /\ "finalize" \in Methods /\ "discard" \in Methods
  BY DEF Methods
<1>1. CASE CallBegin
  <2>1. Item("begin") \in Items /\ queue' = Append(queue, Item("begin")) /\ batch' = batch
    BY <1>0, <1>1 DEF CallBegin, Items
  <2>2. Calls = <<>> /\ cpc = "new" /\ cpc' = "open"
    BY <1>1 DEF CallBegin, ThreadOrder
  <2>3. CallOrder' /\ Calls' # <<>> /\ Calls'[1] = Item("begin")
    BY <2>1, <2>2, PutOrder
  <2> QED
    BY <1>1, <2>2, <2>3 DEF CallBegin, ThreadOrder, workerVars
<1>2. ASSUME NEW m \in {"sample", "quality"}, CallAppend(m) PROVE CallOrder' /\ ThreadOrder'
  <2>1. Item(m) \in Items /\ queue' = Append(queue, Item(m)) /\ batch' = batch
    BY <1>0, <1>2 DEF CallAppend, Items
  <2>2. CallOrder' /\ Calls' # <<>> /\ (Calls # <<>> => Calls'[1] = Calls[1]) /\ (Calls = <<>> => Calls'[1] = Item(m))
    BY <1>2, <2>1, PutOrder DEF CallAppend
  <2> QED
    BY <1>2, <2>2, SomeCalls DEF CallAppend, ThreadOrder
<1>3. ASSUME NEW item \in Items, IsTerminal(item), CallTerminal(item) PROVE CallOrder' /\ ThreadOrder'
  <2>1. CASE Room
    <3>1. queue' = Append(queue, item) /\ batch' = batch /\ cpc \in {"new", "open"} /\ cpc' \in {"waitFinal", "waitDiscard"}
      BY <1>3, <2>1 DEF CallTerminal
    <3>2. CallOrder' /\ Calls' # <<>> /\ (Calls # <<>> => Calls'[1] = Calls[1]) /\ (Calls = <<>> => Calls'[1] = item)
      BY <1>3, <3>1, PutOrder
    <3> QED
      BY <1>3, <3>1, <3>2, SomeCalls DEF CallTerminal, ThreadOrder
  <2>2. CASE ~Room
    <3>1. queue' = queue /\ batch' = batch /\ cpc \in {"new", "open"} /\ cpc' \in {"failed", "closing"}
      BY <1>3, <2>2 DEF CallTerminal
    <3>2. CallOrder' /\ Calls' = Calls
      BY <3>1, SameOrder
    <3> QED
      BY <1>3, <3>1, <3>2 DEF CallTerminal, ThreadOrder
  <2> QED
    BY <2>1, <2>2
<1>4. CASE TakeAnswer \/ CallClose \/ JoinWorker
  <2>1. /\ UNCHANGED <<queue, batch, stop, wpc, plan, writer>>
        /\ cpc \in {"waitFinal", "waitDiscard", "new", "joining"} /\ cpc' \in {"closing", "failed", "settled"}
        /\ cpc' \in {"closing", "settled"} => cpc # "joining" \/ wpc = "ended"
        /\ cpc' = "settled" => wpc = "ended"
    BY <1>4 DEF TakeAnswer, CallClose, JoinWorker, workerVars
  <2>2. wpc = "ended" => Calls = <<>>
    BY DEF ThreadOrder
  <2>3. CallOrder' /\ Calls' = Calls
    BY <2>1, <2>2, SameOrder
  <2>4. stop => cpc = "joining"
    BY <2>1 DEF ThreadOrder
  <2>5. stop => cpc' \in {"joining", "failed", "settled"}
    BY <1>4, <2>4 DEF TakeAnswer, CallClose, JoinWorker
  <2> QED
    BY <2>1, <2>3, <2>5 DEF ThreadOrder
<1>5. CASE WaitTimeout \/ PutSentinel
  <2>0. /\ UNCHANGED <<batch, stop, wpc, plan, writer>>
        /\ cpc \in {"waitFinal", "waitDiscard", "closing"} /\ cpc' \in {"failed", "closing", "joining"}
        /\ ~stop /\ wpc # "ended"
    BY <1>5 DEF WaitTimeout, PutSentinel, ThreadOrder
  <2>1. CASE queue' = Append(queue, Sentinel) /\ cpc' # "closing"
    <3>1. Sentinel \in Items /\ batch' = batch
      BY <1>0, <2>0 DEF Items
    <3>2. CallOrder' /\ Calls' # <<>> /\ (Calls # <<>> => Calls'[1] = Calls[1]) /\ (Calls = <<>> => Calls'[1] = Sentinel)
      BY <2>0, <2>1, <3>1, PutOrder
    <3> QED
      BY <2>0, <3>2, SomeCalls DEF ThreadOrder
  <2>2. CASE queue' = queue
    <3>1. CallOrder' /\ Calls' = Calls
      BY <2>0, <2>2, SameOrder
    <3> QED
      BY <2>0, <2>2, <3>1 DEF ThreadOrder
  <2> QED
    BY <1>5, <2>1, <2>2 DEF WaitTimeout, PutSentinel
<1>6. CASE NextEpisode \/ Restart \/ Crash
  <2>1. Calls' = <<>> /\ batch' = <<>> /\ writer' = NewWriter /\ plan' = <<>> /\ ~stop'
        /\ ((cpc' = "new" /\ wpc' = "get") \/ (cpc' = "down" /\ wpc' = "ended" /\ session' < MaxSessions))
    BY <1>6 DEF NextEpisode, Restart, Crash, FreshWriter, Calls, processVars
  <2>2. DOMAIN Calls' = {}
    BY <2>1
  <2>3. CallOrder'
    BY <2>2 DEF CallOrder
  <2> QED
    BY <2>1, <2>3 DEF ThreadOrder
<1>7. CASE TakeBatch
  <2>1. batch = <<>> /\ cpc' = cpc
    BY <1>7 DEF TakeBatch, ThreadOrder, callerVars
  <2>2. Calls' = Calls /\ Calls # <<>>
    BY <1>7, <2>1, TakeCalls, SomeCalls DEF TakeBatch
  <2>3. CallOrder'
    BY <2>1, <2>2 DEF CallOrder
  <2>4. cpc \notin {"new", "down", "settled"}
    BY <1>7, <2>2 DEF TakeBatch, ThreadOrder
  <2> QED
    BY <1>7, <2>1, <2>2, <2>3, <2>4 DEF TakeBatch, ThreadOrder
<1>8. CASE EndBatch
  <2>1. /\ UNCHANGED <<queue, batch, cpc, stop, plan>> /\ wpc = "run" /\ batch = <<>>
        /\ wpc' = IF stop THEN "ended" ELSE "get"
        /\ writer' = writer \/ writer.started
    BY <1>8 DEF EndBatch, callerVars
  <2>2. CallOrder' /\ Calls' = Calls
    BY <2>1, SameOrder
  <2>3. ~NewWriter.started
    BY DEF NewWriter
  <2> QED
    BY <2>1, <2>2, <2>3 DEF ThreadOrder
<1>9. CASE RunSentinel
  <2>1. batch # <<>> /\ batch' = Tail(batch) /\ queue' = queue /\ Head(batch) = Sentinel /\ stop'
        /\ UNCHANGED <<cpc, wpc, plan, writer>> /\ wpc = "run"
    BY <1>9 DEF RunSentinel, callerVars
  <2>2. Calls[1].m = "stop" /\ 1 \in DOMAIN Calls
    BY <2>1, SomeCalls
  <2>3. cpc \in {"joining", "failed"}
    BY <2>2 DEF CallOrder
  <2>4. CallOrder' /\ Calls' = <<>>
    BY <2>1, <2>2, DoneOrder
  <2> QED
    BY <2>1, <2>3, <2>4 DEF ThreadOrder
<1>10. CASE RunBegin
  <2>1. /\ UNCHANGED <<queue, cpc, stop, plan>> /\ batch # <<>> /\ wpc = "run" /\ Calls[1].m = "begin" /\ Calls # <<>>
        /\ cpc # "new" /\ ~stop
    <3>1. /\ UNCHANGED <<queue, cpc, stop, plan>> /\ batch # <<>> /\ wpc = "run" /\ Calls[1].m = "begin" /\ Calls # <<>>
      BY <1>10, SomeCalls DEF RunBegin, Runs, callerVars
    <3> QED
      BY <3>1 DEF ThreadOrder
  <2>2. writer = NewWriter
    BY <2>1 DEF ThreadOrder
  <2>3. CASE batch' = batch /\ wpc' = "beginMeta" /\ writer' = [writer EXCEPT !.started = TRUE]
    <3>1. CallOrder' /\ Calls' = Calls
      BY <2>1, <2>3, SameOrder
    <3> QED
      BY <2>1, <2>2, <2>3, <3>1 DEF ThreadOrder, Begun
  <2>4. CASE batch' = Tail(batch) /\ wpc' = wpc
    <3>1. CallOrder' /\ (Calls' # <<>> => Calls'[1].m # "begin")
      BY <2>1, <2>4, DoneOrder
    <3> QED
      BY <2>1, <2>4, <3>1 DEF ThreadOrder
  <2> QED
    BY <1>10, <2>3, <2>4 DEF RunBegin
<1>11. CASE RunBeginMeta
  <2>1. batch # <<>> /\ batch' = Tail(batch) /\ queue' = queue /\ UNCHANGED <<cpc, stop, plan>>
        /\ wpc = "beginMeta" /\ wpc' = "run" /\ cpc # "new" /\ ~stop
    <3>1. batch # <<>> /\ Calls # <<>>
      BY <1>11, SomeCalls DEF RunBeginMeta, ThreadOrder
    <3> QED
      BY <1>11, <3>1 DEF RunBeginMeta, ThreadOrder, callerVars
  <2>2. CallOrder' /\ (Calls' # <<>> => Calls'[1].m # "begin")
    BY <2>1, DoneOrder
  <2> QED
    BY <2>1, <2>2 DEF ThreadOrder
<1>12. CASE RunSample \/ RunRaw
  <2>1. batch # <<>> /\ batch' = Tail(batch) /\ queue' = queue /\ wpc = "run" /\ UNCHANGED <<cpc, stop, wpc, plan>>
        /\ cpc # "new" /\ ~stop
    <3>1. batch # <<>> /\ batch' = Tail(batch) /\ queue' = queue /\ wpc = "run" /\ UNCHANGED <<cpc, stop, wpc, plan>>
      BY <1>12 DEF RunSample, RunRaw, Runs, Skips, callerVars
    <3> QED
      BY <3>1, SomeCalls DEF ThreadOrder
  <2>2. CallOrder' /\ (Calls' # <<>> => Calls'[1].m # "begin")
    BY <2>1, DoneOrder
  <2> QED
    BY <2>1, <2>2 DEF ThreadOrder
<1>13. CASE RunTerminal
  <2>1. /\ wpc = "run" /\ batch # <<>> /\ queue' = queue /\ UNCHANGED <<cpc, stop>>
        /\ IsTerminal(Calls[1]) /\ Calls # <<>> /\ cpc # "new" /\ ~stop
    <3>1. wpc = "run" /\ batch # <<>> /\ IsTerminal(Head(batch)) /\ queue' = queue /\ UNCHANGED <<cpc, stop>>
      BY <1>13 DEF RunTerminal, callerVars
    <3> QED
      BY <3>1, SomeCalls DEF ThreadOrder
  <2>2. CASE batch' = batch /\ wpc' = "plan"
    <3>1. CallOrder' /\ Calls' = Calls
      BY <2>1, <2>2, SameOrder
    <3>2. cpc # "down"
      BY <2>1 DEF ThreadOrder
    <3> QED
      BY <2>1, <2>2, <3>1, <3>2 DEF ThreadOrder
  <2>3. CASE batch' = Tail(batch) /\ wpc' = wpc /\ plan' = plan /\ writer' = writer
    <3>1. CallOrder' /\ (Calls' # <<>> => Calls'[1].m # "begin")
      BY <2>1, <2>3, DoneOrder
    <3> QED
      BY <2>1, <2>3, <3>1 DEF ThreadOrder
  <2> QED
    BY <1>13, <2>2, <2>3 DEF RunTerminal
<1>14. CASE RunPlan
  <2>1. UNCHANGED <<queue, batch, cpc, stop, wpc, writer>> /\ wpc = "plan"
    BY <1>14 DEF RunPlan, callerVars
  <2>2. CallOrder' /\ Calls' = Calls
    BY <2>1, SameOrder
  <2> QED
    BY <2>1, <2>2 DEF ThreadOrder
<1>15. CASE PlanFails \/ PlanDone
  <2>1. batch # <<>> /\ batch' = Tail(batch) /\ queue' = queue /\ wpc = "plan" /\ wpc' = "run" /\ plan' = <<>>
        /\ UNCHANGED <<cpc, stop>> /\ Calls # <<>>
    BY <1>15, SomeCalls DEF PlanFails, PlanDone, ThreadOrder, callerVars
  <2>2. CallOrder' /\ (Calls' # <<>> => Calls'[1].m # "begin")
    BY <2>1, DoneOrder
  <2> QED
    BY <2>1, <2>2 DEF ThreadOrder
<1>16. CASE UNCHANGED vars
  <2>1. UNCHANGED <<session, cpc, queue, batch, stop, wpc, plan, writer>>
    BY <1>16 DEF vars, callerVars, workerVars, processVars
  <2>2. CallOrder' /\ Calls' = Calls
    BY <2>1, SameOrder
  <2> QED
    BY <2>1, <2>2 DEF ThreadOrder
<1> QED
  <2>1. \A s \in {"COMPLETED", "ABORTED"} : Terminal("finalize", s) \in Items /\ IsTerminal(Terminal("finalize", s))
    BY <1>0 DEF Items
  <2>2. Terminal("discard", "none") \in Items /\ IsTerminal(Terminal("discard", "none"))
    BY <1>0 DEF Items
  <2> QED
    BY <2>1, <2>2, <1>1, <1>2, <1>3, <1>4, <1>5, <1>6, <1>7, <1>8, <1>9, <1>10, <1>11, <1>12, <1>13, <1>14, <1>15,
       <1>16 DEF Next, CallerStep, WorkerStep, AskDiscard

-----------------------------------------------------------------------------
(* Every accepted call is accounted for *)

\* A row call that is done is a row, a quality line, or lost to an error.
LEMMA AccountStep ==
  ASSUME TypeInv, CallOrder, ThreadOrder, AccountInv, [Next]_vars
  PROVE  AccountInv'
<1> USE DEF Item, Terminal, Sentinel, IsTerminal, Writers
<1>0. /\ "begin" \in Methods /\ "stop" \in Methods /\ "sample" \in Methods /\ "quality" \in Methods
      /\ "finalize" \in Methods /\ "discard" \in Methods
      /\ writer \in Writers
      /\ accepted \in Nat /\ faults \in Nat /\ Cardinality(Appends(Calls)) \in Nat /\ MaxRows \in Nat /\ MaxFaults \in Nat
  BY Names, SomeCalls DEF Methods, TypeInv, TypeOK
<1>1. CASE CallBegin
  <2>1. Item("begin") \in Items /\ queue' = Append(queue, Item("begin")) /\ batch' = batch
    BY <1>0, <1>1 DEF CallBegin, Items
  <2>2. Cardinality(Appends(Calls')) = Cardinality(Appends(Calls))
    BY <1>0, <2>1, PutCall, SMTT(60)
  <2>3. Kept' = Kept
    BY <1>1, <2>2 DEF Kept, CallBegin
  <2> QED
    BY <1>1, <2>3 DEF CallBegin, AccountInv
<1>2. ASSUME NEW m \in {"sample", "quality"}, CallAppend(m) PROVE AccountInv'
  <2>1. Item(m) \in Items /\ queue' = Append(queue, Item(m)) /\ batch' = batch
    BY <1>0, <1>2 DEF CallAppend, Items
  <2>2. Cardinality(Appends(Calls')) = Cardinality(Appends(Calls)) + 1
    BY <1>0, <2>1, PutCall
  <2>3. Kept' = Kept + 1 /\ accepted' = accepted + 1 /\ UNCHANGED <<writer, faults>> /\ ~writer.error /\ Kept \in Nat
    BY <1>0, <1>2, <2>2 DEF Kept, CallAppend
  <2> QED
    BY <1>0, <2>3 DEF AccountInv
<1>3. ASSUME NEW item \in Items, IsTerminal(item), CallTerminal(item) PROVE AccountInv'
  <2>1. CASE Room
    <3>1. queue' = Append(queue, item) /\ batch' = batch
      BY <1>3, <2>1 DEF CallTerminal
    <3>2. Cardinality(Appends(Calls')) = Cardinality(Appends(Calls))
      BY <1>0, <1>3, <3>1, PutCall
    <3>3. Kept' = Kept
      BY <1>3, <3>2 DEF Kept, CallTerminal
    <3> QED
      BY <1>3, <3>3 DEF CallTerminal, AccountInv
  <2>2. CASE ~Room
    <3>1. Calls' = Calls
      BY <1>3, <2>2 DEF CallTerminal, Calls
    <3>2. Kept' = Kept
      BY <1>3, <3>1 DEF Kept, CallTerminal
    <3> QED
      BY <1>3, <3>2 DEF CallTerminal, AccountInv
  <2> QED
    BY <2>1, <2>2
<1>4. CASE UNCHANGED <<queue, batch, writer, accepted, faults>>
  <2>1. Calls' = Calls
    BY <1>4 DEF Calls
  <2>2. Kept' = Kept
    BY <1>4, <2>1 DEF Kept
  <2> QED
    BY <1>4, <2>2 DEF AccountInv
<1>5. CASE WaitTimeout \/ PutSentinel
  <2>0. UNCHANGED <<batch, writer, accepted, faults>>
    BY <1>5 DEF WaitTimeout, PutSentinel
  <2>1. CASE queue' = Append(queue, Sentinel)
    <3>1. Sentinel \in Items
      BY <1>0 DEF Items
    <3>2. Cardinality(Appends(Calls')) = Cardinality(Appends(Calls))
      BY <1>0, <2>0, <2>1, <3>1, PutCall
    <3>3. Kept' = Kept
      BY <2>0, <3>2 DEF Kept
    <3> QED
      BY <2>0, <3>3 DEF AccountInv
  <2>2. CASE queue' = queue
    BY <1>4, <2>0, <2>2
  <2> QED
    BY <1>5, <2>1, <2>2 DEF WaitTimeout, PutSentinel
<1>6. CASE NextEpisode \/ Restart \/ Crash
  <2>1. Calls' = <<>> /\ writer' = NewWriter /\ accepted' = 0
    BY <1>6 DEF NextEpisode, Restart, Crash, FreshWriter, Calls
  <2>2. Appends(Calls') = {}
    BY <2>1 DEF Appends
  <2>3. Cardinality(Appends(Calls')) = 0
    BY <2>2, FS_EmptySet
  <2>4. Kept' = 0
    BY <2>1, <2>3 DEF Kept, NewWriter
  <2> QED
    BY <2>1, <2>4 DEF AccountInv, NewWriter
<1>7. CASE TakeBatch
  <2>1. batch = <<>>
    BY <1>7 DEF TakeBatch, ThreadOrder
  <2>2. Calls' = Calls
    BY <1>7, <2>1, TakeCalls
  <2>3. Kept' = Kept /\ UNCHANGED <<writer, accepted, faults>>
    BY <1>7, <2>2 DEF Kept, TakeBatch, callerVars
  <2> QED
    BY <2>3 DEF AccountInv
<1>8. CASE EndBatch
  <2>1. Calls' = Calls /\ accepted' = accepted
    BY <1>8 DEF EndBatch, Calls, callerVars
  <2>2. \/ writer' = writer /\ faults' = faults
        \/ writer' = [writer EXCEPT !.error = TRUE] /\ faults' = faults + 1
    BY <1>8 DEF EndBatch
  <2>3. Kept' = Kept
    BY <1>0, <2>1, <2>2 DEF Kept
  <2> QED
    BY <1>0, <2>1, <2>2, <2>3 DEF AccountInv
<1>9. ASSUME batch # <<>>, batch' = Tail(batch), queue' = queue, accepted' = accepted, Calls[1].m \notin {"sample", "quality"},
             writer' \in Writers,
             writer'.rows = writer.rows, writer'.lines = writer.lines, writer'.frames = writer.frames,
             \/ writer'.error = writer.error /\ writer'.beginFailed = writer.beginFailed /\ (faults' = faults \/ faults' = faults + 1)
             \/ writer'.error /\ writer'.beginFailed
      PROVE  AccountInv'
  <2>1. Cardinality(Appends(Calls')) = Cardinality(Appends(Calls))
    BY <1>0, <1>9, DoneCall
  <2>2. Kept' = Kept
    BY <1>9, <2>1 DEF Kept
  <2> QED
    BY <1>0, <1>9, <2>2 DEF AccountInv
<1>10. CASE RunSentinel
  <2>1. Calls[1].m = "stop" /\ UNCHANGED <<accepted, faults, writer, queue>> /\ batch # <<>> /\ batch' = Tail(batch)
    BY <1>10, SomeCalls DEF RunSentinel, callerVars
  <2> QED
    BY <1>0, <1>9, <2>1
<1>11. CASE RunBegin
  <2>1. UNCHANGED <<queue, accepted, faults>> /\ batch # <<>> /\ Calls[1].m = "begin"
    BY <1>11, SomeCalls DEF RunBegin, Runs, callerVars
  <2>2. CASE batch' = batch /\ writer' = [writer EXCEPT !.started = TRUE]
    <3>1. Calls' = Calls
      BY <2>1, <2>2 DEF Calls
    <3>2. Kept' = Kept
      BY <1>0, <2>2, <3>1 DEF Kept
    <3> QED
      BY <1>0, <2>1, <2>2, <3>2 DEF AccountInv
  <2>3. CASE batch' = Tail(batch) /\ writer' = [Failed(writer) EXCEPT !.beginFailed = TRUE]
    BY <1>0, <1>9, <2>1, <2>3 DEF Failed
  <2> QED
    BY <1>11, <2>2, <2>3 DEF RunBegin
<1>12. CASE RunBeginMeta
  <2>1. batch # <<>> /\ Calls[1].m = "begin" /\ batch' = Tail(batch) /\ queue' = queue /\ accepted' = accepted
    BY <1>12 DEF RunBeginMeta, ThreadOrder, callerVars
  <2>2. \/ writer' = writer /\ faults' = faults
        \/ faults' = faults + 1 /\ writer' = [Failed(writer) EXCEPT !.beginFailed = TRUE]
    BY <1>12 DEF RunBeginMeta
  <2> QED
    BY <1>0, <1>9, <2>1, <2>2 DEF Failed
<1>13. ASSUME batch # <<>>, batch' = Tail(batch), queue' = queue, accepted' = accepted, Calls[1].m \in {"sample", "quality"},
             writer' \in Writers,
             \/ writer' = writer /\ faults' = faults /\ writer.error
             \/ /\ ~writer.error /\ ~writer'.error
                /\ writer'.rows + writer'.lines = writer.rows + writer.lines + 1
                /\ \A r \in Roles : writer'.frames[r] = writer'.rows
             \/ /\ ~writer.error /\ writer'.error /\ faults' = faults + 1
                /\ writer'.rows = writer.rows /\ writer'.lines = writer.lines
                /\ \A r \in Roles : writer'.frames[r] \in {writer.rows, writer.rows + 1}
       PROVE  AccountInv'
  <2>1. Cardinality(Appends(Calls)) = Cardinality(Appends(Calls')) + 1 /\ Cardinality(Appends(Calls')) \in Nat
    BY <1>0, <1>13, DoneCall
  <2> DEFINE c == Cardinality(Appends(Calls))
             d == Cardinality(Appends(Calls'))
  <2>2. Kept = writer.rows + writer.lines + c /\ Kept' = writer'.rows + writer'.lines + d /\ c = d + 1 /\ c \in Nat /\ d \in Nat
    BY <1>0, <2>1 DEF Kept
  <2> HIDE DEF c, d
  <2>7. /\ writer.rows \in Nat /\ writer.lines \in Nat /\ writer'.rows \in Nat /\ writer'.lines \in Nat
        /\ Kept \in Nat /\ Kept' \in Nat /\ accepted \in Nat /\ accepted' = accepted
    <3>1. writer.rows \in Nat /\ writer.lines \in Nat /\ accepted \in Nat
      BY <1>0
    <3>2. writer' \in Writers /\ accepted' = accepted
      BY <1>13
    <3>3. writer'.rows \in Nat /\ writer'.lines \in Nat
      BY <3>2
    <3> QED
      BY <2>2, <3>1, <3>2, <3>3
  <2>3. /\ Kept <= accepted /\ (~writer.error => Kept = accepted)
        /\ (writer.error => writer.beginFailed \/ faults > 0)
        /\ \/ \A r \in Roles : writer.frames[r] = writer.rows
           \/ /\ \A r \in Roles : writer.frames[r] \in {writer.rows, writer.rows + 1}
              /\ writer.error /\ Kept < accepted
    BY DEF AccountInv
  <2>4. CASE writer' = writer /\ faults' = faults /\ writer.error
    <3>1. Kept' = Kept - 1 /\ Kept' \in Nat
      BY <1>0, <2>2, <2>4
    <3>2. Kept' <= accepted' /\ Kept' < accepted'
      BY <2>3, <2>7, <3>1
    <3> QED
      BY <2>3, <2>4, <3>2 DEF AccountInv
  <2>5. CASE /\ ~writer.error /\ ~writer'.error
             /\ writer'.rows + writer'.lines = writer.rows + writer.lines + 1
             /\ \A r \in Roles : writer'.frames[r] = writer'.rows
    <3>1. Kept' = Kept
      BY <2>2, <2>5, <2>7
    <3> QED
      BY <1>13, <2>3, <2>5, <3>1 DEF AccountInv
  <2>6. CASE /\ ~writer.error /\ writer'.error /\ faults' = faults + 1
             /\ writer'.rows = writer.rows /\ writer'.lines = writer.lines
             /\ \A r \in Roles : writer'.frames[r] \in {writer.rows, writer.rows + 1}
    <3>1. Kept' = Kept - 1 /\ Kept' \in Nat
      BY <1>0, <2>2, <2>6
    <3>2. Kept' < accepted' /\ Kept' <= accepted'
      BY <2>3, <2>6, <2>7, <3>1
    <3> QED
      BY <1>0, <2>6, <3>2 DEF AccountInv
  <2> QED
    BY <1>13, <2>4, <2>5, <2>6
<1>14. CASE RunSample
  <2>1. batch # <<>> /\ batch' = Tail(batch) /\ queue' = queue /\ accepted' = accepted /\ Calls[1].m = "sample"
    BY <1>14, SomeCalls DEF RunSample, Runs, Skips, callerVars
  <2>2. CASE Skips("sample")
    BY <1>0, <1>13, <2>1, <2>2 DEF Skips
  <2>3. ASSUME NEW outcome \in SampleOutcomes, ~writer.error, NEW d,
               LET w == [writer EXCEPT !.rows = RowsAfter(outcome), !.frames = FramesAfter(outcome)] IN
               CASE outcome = "ok" -> writer' = w /\ UNCHANGED faults
                 [] outcome = "expired" ->
                      \/ writer' = [w EXCEPT !.lines = @ + 1] /\ UNCHANGED faults
                      \/ faults' = faults + 1 /\ writer' = Failed(w)
                 [] OTHER -> faults' = faults + 1 /\ writer' = Failed(w)
        PROVE  AccountInv'
    <3> DEFINE fr == FramesAfter(outcome)
               w == [writer EXCEPT !.rows = RowsAfter(outcome), !.frames = fr]
    <3>1. \A r \in Roles : writer.frames[r] = writer.rows
      BY <2>3 DEF AccountInv
    <3>2. fr \in [Roles -> Nat] /\ \A r \in Roles : fr[r] \in {writer.rows, writer.rows + 1}
      BY <1>0, <3>1 DEF FramesAfter
    <3>3. outcome = "ok" => \A r \in Roles : fr[r] = writer.rows + 1
      BY <1>0, <3>1 DEF FramesAfter
    <3>4. outcome = "expired" => \A r \in Roles : fr[r] = writer.rows
      BY <1>0, <3>1 DEF FramesAfter
    <3> HIDE DEF fr
    <3>5. RowsAfter(outcome) = IF outcome = "ok" THEN writer.rows + 1 ELSE writer.rows
      BY DEF RowsAfter
    <3>6. CASE outcome = "ok"
      <4>1. writer' = w
        BY <2>3, <3>6 DEF fr
      <4> QED
        <5>0. writer.rows \in Nat /\ writer.lines \in Nat /\ RowsAfter(outcome) = writer.rows + 1
          BY <1>0, <3>5, <3>6
        <5>3. writer'.rows = RowsAfter(outcome) /\ writer'.lines = writer.lines /\ writer'.frames = fr /\ ~writer'.error
          BY <1>0, <2>3, <4>1
        <5>4. RowsAfter(outcome) \in Nat
          BY <5>0
        <5>5. writer' \in Writers
          BY <1>0, <3>2, <4>1, <5>4
        <5>1. writer' \in Writers /\ writer'.rows + writer'.lines = writer.rows + writer.lines + 1
              /\ writer'.frames = fr /\ writer'.rows = writer.rows + 1 /\ ~writer'.error
          BY <5>0, <5>3, <5>5
        <5>2. \A r \in Roles : writer'.frames[r] = writer'.rows
          BY <3>3, <3>6, <5>1
        <5> QED
          BY <1>13, <2>1, <2>3, <5>1, <5>2
    <3>7. CASE outcome = "expired"
      <4>1. \/ writer' = [w EXCEPT !.lines = @ + 1] /\ UNCHANGED faults
            \/ faults' = faults + 1 /\ writer' = Failed(w)
        BY <2>3, <3>7 DEF fr
      <4> QED
        <5>1. CASE writer' = [w EXCEPT !.lines = @ + 1] /\ UNCHANGED faults
          <6>0. writer.rows \in Nat /\ writer.lines \in Nat /\ RowsAfter(outcome) = writer.rows
            BY <1>0, <3>5, <3>7
          <6>3. writer'.rows = RowsAfter(outcome) /\ writer'.lines = writer.lines + 1 /\ writer'.frames = fr /\ ~writer'.error
            BY <1>0, <2>3, <5>1
          <6>4. writer.lines + 1 \in Nat /\ RowsAfter(outcome) \in Nat
            BY <6>0
          <6>5. writer' = [[writer EXCEPT !.rows = RowsAfter(outcome), !.frames = fr] EXCEPT !.lines = writer.lines + 1]
            BY <1>0, <5>1
          <6>6. writer' \in Writers
            BY <1>0, <3>2, <6>4, <6>5
          <6>1. writer' \in Writers /\ writer'.rows + writer'.lines = writer.rows + writer.lines + 1
                /\ writer'.frames = fr /\ writer'.rows = writer.rows /\ ~writer'.error
            BY <6>0, <6>3, <6>6
          <6>2. \A r \in Roles : writer'.frames[r] = writer'.rows
            BY <3>4, <3>7, <6>1
          <6> QED
            BY <1>13, <2>1, <2>3, <6>1, <6>2
        <5>2. CASE faults' = faults + 1 /\ writer' = Failed(w)
          <6>1. writer' \in Writers /\ writer'.rows = writer.rows /\ writer'.lines = writer.lines
                /\ writer'.frames = fr /\ writer'.error
            BY <1>0, <2>3, <3>2, <3>5, <3>7, <5>2 DEF Failed
          <6> QED
            BY <1>13, <2>1, <2>3, <3>2, <5>2, <6>1
        <5> QED
          BY <4>1, <5>1, <5>2
    <3>8. CASE outcome \notin {"ok", "expired"}
      <4>1. faults' = faults + 1 /\ writer' = Failed(w)
        BY <2>3, <3>8 DEF fr
      <4> QED
        <5>1. writer' \in Writers /\ writer'.rows = writer.rows /\ writer'.lines = writer.lines
              /\ writer'.frames = fr /\ writer'.error
          BY <1>0, <2>3, <3>2, <3>5, <3>8, <4>1 DEF Failed
        <5> QED
          BY <1>13, <2>1, <2>3, <3>2, <4>1, <5>1
    <3> QED
      BY <3>6, <3>7, <3>8
  <2> QED
    BY <1>14, <2>2, <2>3 DEF RunSample, NoteExpired, Contiguous, SampleIndex
<1>15. CASE RunRaw
  <2>1. batch # <<>> /\ batch' = Tail(batch) /\ queue' = queue /\ accepted' = accepted /\ Calls[1].m = "quality"
    BY <1>15, SomeCalls DEF RunRaw, Runs, Skips, callerVars
  <2>2. \/ writer' = writer /\ faults' = faults /\ writer.error
        \/ ~writer.error /\ writer' = [writer EXCEPT !.lines = @ + 1] /\ UNCHANGED faults
        \/ ~writer.error /\ faults' = faults + 1 /\ writer' = Failed(writer)
    BY <1>15 DEF RunRaw, Skips
  <2>3. ~writer.error => \A r \in Roles : writer.frames[r] = writer.rows
    BY DEF AccountInv
  <2>4. writer' \in Writers
    <3>1. writer.lines \in Nat /\ writer.lines + 1 \in Nat
      BY <1>0
    <3>2. [writer EXCEPT !.lines = @ + 1] = [writer EXCEPT !.lines = writer.lines + 1]
      BY <1>0
    <3>3. [writer EXCEPT !.lines = writer.lines + 1] \in Writers /\ Failed(writer) \in Writers
      BY <1>0, <3>1 DEF Failed
    <3> QED
      BY <1>0, <2>2, <3>2, <3>3
  <2>5. CASE writer' = writer /\ faults' = faults /\ writer.error
    BY <1>13, <2>1, <2>4, <2>5
  <2>6. CASE ~writer.error /\ writer' = [writer EXCEPT !.lines = @ + 1] /\ UNCHANGED faults
    <3>1. writer'.rows + writer'.lines = writer.rows + writer.lines + 1
          /\ writer'.frames = writer.frames /\ writer'.rows = writer.rows /\ ~writer'.error
      BY <1>0, <2>6
    <3> QED
      BY <1>13, <2>1, <2>3, <2>4, <2>6, <3>1
  <2>7. CASE ~writer.error /\ faults' = faults + 1 /\ writer' = Failed(writer)
    <3>1. writer'.rows = writer.rows /\ writer'.lines = writer.lines /\ writer'.frames = writer.frames /\ writer'.error
      BY <1>0, <2>7 DEF Failed
    <3> QED
      BY <1>13, <2>1, <2>3, <2>4, <2>7, <3>1
  <2> QED
    BY <2>2, <2>5, <2>6, <2>7
<1>16. CASE RunTerminal
  <2>1. batch # <<>> /\ queue' = queue /\ UNCHANGED <<accepted, faults>> /\ Calls[1].m \notin {"sample", "quality"}
    BY <1>16, SomeCalls DEF RunTerminal, callerVars
  <2>2. CASE batch' = Tail(batch) /\ writer' = writer
    BY <1>0, <1>9, <2>1, <2>2
  <2>3. CASE batch' = batch /\ \E s : writer' = [writer EXCEPT !.status = s]
    <3>1. Calls' = Calls
      BY <2>1, <2>3 DEF Calls
    <3>2. PICK s : writer' = [writer EXCEPT !.status = s]
      BY <2>3
    <3>3. Kept' = Kept
      BY <1>0, <3>1, <3>2 DEF Kept
    <3> QED
      BY <1>0, <2>1, <3>2, <3>3 DEF AccountInv
  <2> QED
    BY <1>16, <2>2, <2>3 DEF RunTerminal
<1>17. CASE PlanFails \/ PlanDone
  <2>1. batch # <<>> /\ batch' = Tail(batch) /\ queue' = queue /\ UNCHANGED accepted /\ Calls[1].m \notin {"sample", "quality"}
    BY <1>17 DEF PlanFails, PlanDone, ThreadOrder, callerVars
  <2>2. \/ writer' = writer /\ faults' = faults + 1
        \/ writer' = [writer EXCEPT !.started = FALSE] /\ faults' = faults
    BY <1>17 DEF PlanFails, PlanDone
  <2> QED
    BY <1>0, <1>9, <2>1, <2>2
<1> QED
  <2>1. \A s \in {"COMPLETED", "ABORTED"} : Terminal("finalize", s) \in Items /\ IsTerminal(Terminal("finalize", s))
    BY <1>0 DEF Items
  <2>2. Terminal("discard", "none") \in Items /\ IsTerminal(Terminal("discard", "none"))
    BY <1>0 DEF Items
  <2>3. TakeAnswer \/ CallClose \/ JoinWorker \/ RunPlan \/ UNCHANGED vars => UNCHANGED <<queue, batch, writer, accepted, faults>>
    BY DEF TakeAnswer, CallClose, JoinWorker, RunPlan, vars, workerVars, callerVars
  <2> QED
    BY <2>1, <2>2, <2>3, <1>1, <1>2, <1>3, <1>4, <1>5, <1>6, <1>7, <1>8, <1>10, <1>11, <1>12, <1>14, <1>15, <1>16,
       <1>17 DEF Next, CallerStep, WorkerStep, AskDiscard

-----------------------------------------------------------------------------
(* The plans of a terminal call *)

\* SetToSeq lists every camera role.
LEMMA RoleSequence ==
  /\ SetToSeq(Roles) \in Seq(Roles)
  /\ \A r \in Roles : \E i \in 1 .. Len(SetToSeq(Roles)) : SetToSeq(Roles)[i] = r
<1> DEFINE D == 1 .. Cardinality(Roles)
           P(f) == f \in [D -> Roles] /\ IsInjective(f)
<1>1. IsFiniteSet(Roles)
  BY DEF WriterAssumption
<1>2. Cardinality(Roles) \in Nat /\ ExistsBijection(D, Roles)
  BY <1>1, FS_CardinalityType
<1>3. \E f : P(f)
  BY <1>2 DEF ExistsBijection, Bijection, Injection
<1>4. SetToSeq(Roles) = CHOOSE f \in [D -> Roles] : IsInjective(f)
  BY DEF SetToSeq
<1> DEFINE f == SetToSeq(Roles)
<1>5. P(f)
  BY <1>3, <1>4
<1> HIDE DEF f
<1>6. f \in Injection(D, Roles)
  BY <1>5 DEF Injection
<1>7. IsFiniteSet(D) /\ Cardinality(D) = Cardinality(Roles)
  BY <1>2, FS_Interval
<1>8. f \in Surjection(D, Roles)
  BY <1>1, <1>6, <1>7, FS_Injection
<1>9. \A r \in Roles : \E i \in D : f[i] = r
  BY <1>8 DEF Surjection
<1>10. f \in Seq(Roles) /\ Len(f) = Cardinality(Roles)
  BY <1>2, <1>5
<1> QED
  BY <1>9, <1>10 DEF f

\* A discard names only files, or the whole directory.
LEMMA DiscardShape ==
  /\ DiscardPlan \in Seq(Steps)
  /\ \A i \in DOMAIN DiscardPlan : DiscardPlan[i] \in Files \cup {"tree"}
<1> DEFINE rs == SetToSeq(Roles)
           head == <<"sample", "quality", "meta">>
<1>1. rs \in Seq(Roles) /\ Roles \subseteq Files
  BY RoleSequence, Names
<1> HIDE DEF rs
<1>2. rs \in Seq(Files)
  BY <1>1, SeqMonotonic
<1>3. head \in Seq(Files)
  BY Names
<1> HIDE DEF head
<1>4. head \o rs \in Seq(Files)
  BY <1>2, <1>3, ConcatProperties
<1>5. StagingDiscard = head \o rs
  BY DEF StagingDiscard, rs, head
<1>6. StagingDiscard \in Seq(Files \cup {"tree"})
  BY <1>4, <1>5, SeqMonotonic
<1>7. RawDiscard \in Seq(Files \cup {"tree"}) /\ CanonicalDiscard \in Seq(Files \cup {"tree"})
  BY DEF RawDiscard, CanonicalDiscard
<1>8. DiscardPlan \in Seq(Files \cup {"tree"})
  BY <1>6, <1>7 DEF DiscardPlan
<1>9. Files \cup {"tree"} \subseteq Steps
  BY DEF Steps
<1>10. DiscardPlan \in Seq(Steps)
  BY <1>8, <1>9, SeqMonotonic
<1>11. \A i \in DOMAIN DiscardPlan : DiscardPlan[i] \in Files \cup {"tree"}
  BY <1>8, LenProperties
<1> QED
  BY <1>10, <1>11

\* The items of a sequence put together from three.
Joined(S, p, a, b, c) ==
    /\ p \in Seq(S) /\ DOMAIN p = 1 .. Len(a) + Len(b) + Len(c) /\ Len(p) = Len(a) + Len(b) + Len(c)
    /\ \A i \in 1 .. Len(a) : p[i] = a[i]
    /\ \A i \in 1 .. Len(b) : p[Len(a) + i] = b[i]
    /\ \A i \in 1 .. Len(c) : p[Len(a) + Len(b) + i] = c[i]
    /\ \A i \in 1 .. Len(a) + Len(b) + Len(c) :
         \/ i \in 1 .. Len(a)
         \/ \E j \in 1 .. Len(b) : i = Len(a) + j
         \/ \E j \in 1 .. Len(c) : i = Len(a) + Len(b) + j

\* What stands where in a sequence put together from three.
LEMMA ThreeParts ==
  ASSUME NEW S, NEW a \in Seq(S), NEW b \in Seq(S), NEW c \in Seq(S)
  PROVE  Joined(S, (a \o b) \o c, a, b, c)
<1> DEFINE k == Len(a)
           n == Len(b)
           l == Len(c)
<1>8. k \in Nat /\ n \in Nat /\ l \in Nat
  BY LenProperties
<1> HIDE DEF k, n, l
<1> USE <1>8
<1> DEFINE p == (a \o b) \o c
           q == a \o b
<1>0. p = q \o c
  OBVIOUS
<1>1. q \in Seq(S) /\ Len(q) = k + n /\ \A i \in 1 .. k + n : q[i] = IF i <= k THEN a[i] ELSE b[i - k]
  BY ConcatProperties DEF k, n
<1> HIDE DEF p, q
<1>2. p \in Seq(S) /\ Len(p) = k + n + l /\ \A i \in 1 .. k + n + l : p[i] = IF i <= k + n THEN q[i] ELSE c[i - (k + n)]
  <2>1. /\ q \o c \in Seq(S) /\ Len(q \o c) = Len(q) + Len(c)
        /\ \A i \in 1 .. Len(q) + Len(c) : (q \o c)[i] = IF i <= Len(q) THEN q[i] ELSE c[i - Len(q)]
    BY <1>1, ConcatProperties, ZenonT(60)
  <2> QED
    BY <1>0, <1>1, <2>1 DEF l
<1>3. DOMAIN p = 1 .. k + n + l
  BY <1>2, LenProperties
<1>4. ASSUME NEW i \in 1 .. k PROVE p[i] = a[i]
  BY <1>1, <1>2
<1>5. ASSUME NEW i \in 1 .. n PROVE p[k + i] = b[i]
  <2>1. k + i \in 1 .. k + n /\ ~(k + i <= k) /\ (k + i) - k = i /\ k + i \in 1 .. k + n + l
    OBVIOUS
  <2> QED
    BY <1>1, <1>2, <2>1
<1>6. ASSUME NEW i \in 1 .. l PROVE p[k + n + i] = c[i]
  <2>1. ~(k + n + i <= k + n) /\ (k + n + i) - (k + n) = i /\ k + n + i \in 1 .. k + n + l
    OBVIOUS
  <2> QED
    BY <1>2, <2>1
<1>7. ASSUME NEW i \in 1 .. k + n + l
      PROVE  i \in 1 .. k \/ (\E j \in 1 .. n : i = k + j) \/ (\E j \in 1 .. l : i = k + n + j)
  <2>1. i <= k => i \in 1 .. k
    OBVIOUS
  <2>2. k < i /\ i <= k + n => i - k \in 1 .. n /\ i = k + (i - k)
    OBVIOUS
  <2>3. k + n < i => i - (k + n) \in 1 .. l /\ i = k + n + (i - (k + n))
    OBVIOUS
  <2> QED
    BY <2>1, <2>2, <2>3
<1> QED
  BY <1>2, <1>3, <1>4, <1>5, <1>6, <1>7 DEF p, k, n, l, Joined

\* A finalize plan names everything that was written, in the order of OrderedPlan.
LEMMA FinalizeShape ==
  ASSUME format \in Formats
  PROVE  /\ FinalizePlan \in Seq(Steps) /\ OrderedPlan(FinalizePlan)
         /\ \E i \in DOMAIN FinalizePlan : FinalizePlan[i] = "meta"
         /\ \E i \in DOMAIN FinalizePlan : FinalizePlan[i] = "publish"
         /\ format = "raw" => \E i \in DOMAIN FinalizePlan : FinalizePlan[i] = "frames"
         /\ format = "staging" => \A f \in {"sample"} \cup Roles : \E i \in DOMAIN FinalizePlan : FinalizePlan[i] = f
<1>0. format \in {"staging", "raw", "canonical"}
  BY DEF WriterAssumption
<1>1. CASE format = "staging"
  <2> DEFINE rs == SetToSeq(Roles)
             head == <<"sample", "quality">>
             end == <<"meta", "publish", "index">>
             n == Len(rs)
             p == FinalizePlan
  <2>1. /\ rs \in Seq(Roles) /\ Roles \subseteq Files /\ n \in Nat
        /\ \A r \in Roles : \E i \in 1 .. n : rs[i] = r
        /\ \A i \in 1 .. n : rs[i] \in Roles
    BY RoleSequence, Names, LenProperties, ElementOfSeq
  <2>2. p = (head \o rs) \o end
    BY <1>1 DEF FinalizePlan, StagingFinalize
  <2> HIDE DEF rs, p, n
  <2>3. /\ head \in Seq(Steps) /\ Len(head) = 2 /\ head[1] = "sample" /\ head[2] = "quality"
        /\ end \in Seq(Steps) /\ Len(end) = 3 /\ end[1] = "meta" /\ end[2] = "publish" /\ end[3] = "index"
    BY Names DEF Steps
  <2> HIDE DEF head, end
  <2>4. Roles \subseteq Steps
    BY <2>1 DEF Steps
  <2>5. rs \in Seq(Steps)
    BY <2>1, <2>4, SeqMonotonic
  <2>6. Len(rs) = n
    BY DEF n, rs
  <2>7. /\ p \in Seq(Steps) /\ DOMAIN p = 1 .. 2 + n + 3 /\ Len(p) = 2 + n + 3
        /\ \A i \in 1 .. 2 : p[i] = head[i]
        /\ \A i \in 1 .. n : p[2 + i] = rs[i]
        /\ \A i \in 1 .. 3 : p[2 + n + i] = end[i]
        /\ \A i \in 1 .. 2 + n + 3 : i \in 1 .. 2 \/ (\E j \in 1 .. n : i = 2 + j) \/ (\E j \in 1 .. 3 : i = 2 + n + j)
    <3>1. Joined(Steps, (head \o rs) \o end, head, rs, end)
      BY <2>3, <2>5, ThreeParts
    <3>2. Joined(Steps, p, head, rs, end)
      BY <2>2, <3>1
    <3> QED
      BY <2>3, <2>6, <3>2 DEF Joined
  <2>8. /\ p[1] = "sample" /\ p[2] = "quality" /\ 1 \in DOMAIN p
        /\ p[n + 3] = "meta" /\ p[n + 4] = "publish" /\ p[n + 5] = "index" /\ n + 3 \in DOMAIN p /\ n + 4 \in DOMAIN p
    <3>1. p[2 + n + 1] = end[1] /\ p[2 + n + 2] = end[2] /\ p[2 + n + 3] = end[3]
      BY <2>7
    <3>2. 2 + n + 1 = n + 3 /\ 2 + n + 2 = n + 4 /\ 2 + n + 3 = n + 5
      BY <2>1
    <3>3. 1 \in DOMAIN p /\ n + 3 \in DOMAIN p /\ n + 4 \in DOMAIN p
      BY <2>1, <2>7
    <3> QED
      BY <2>3, <2>7, <3>1, <3>2, <3>3
  <2>9. OrderedPlan(p)
    <3>2. ASSUME NEW i \in DOMAIN p
          PROVE  /\ p[i] \notin {"tree", "frames"}
                 /\ p[i] = "sample" => i = 1
                 /\ p[i] = "publish" => i = n + 4
                 /\ p[i] = "index" => i = n + 5
      <4>1. i \in 1 .. 2 \/ (\E j \in 1 .. n : i = 2 + j) \/ (\E j \in 1 .. 3 : i = 2 + n + j)
        BY <2>7, <3>2
      <4>2. CASE i \in 1 .. 2
        BY <2>8, <4>2
      <4>3. CASE \E j \in 1 .. n : i = 2 + j
        <5>1. PICK j \in 1 .. n : i = 2 + j
          BY <4>3
        <5>2. p[i] \in Roles
          BY <2>1, <2>7, <5>1
        <5> QED
          BY <5>2, Names
      <4>4. CASE \E j \in 1 .. 3 : i = 2 + n + j
        <5>1. i = n + 3 \/ i = n + 4 \/ i = n + 5
          BY <2>1, <4>4
        <5> QED
          BY <2>8, <5>1
      <4> QED
        BY <4>1, <4>2, <4>3, <4>4
    <3>3. \A j \in DOMAIN p : j > n + 4 => j = n + 5
      BY <2>1, <2>7
    <3>4. Len(p) = n + 5
      BY <2>1, <2>7
    <3> QED
      BY <1>1, <2>8, <3>2, <3>3, <3>4 DEF OrderedPlan
  <2>10. \A r \in Roles : \E i \in DOMAIN p : p[i] = r
    <3> TAKE r \in Roles
    <3>1. PICK k \in 1 .. n : rs[k] = r
      BY <2>1
    <3>2. 2 + k \in DOMAIN p
      BY <2>1, <2>7
    <3>3. p[2 + k] = r
      BY <2>7, <3>1
    <3> QED
      BY <3>2, <3>3
  <2>12. \A f \in {"sample"} \cup Roles : \E i \in DOMAIN p : p[i] = f
    BY <2>8, <2>10
  <2>13. (\E i \in DOMAIN p : p[i] = "meta") /\ (\E i \in DOMAIN p : p[i] = "publish")
    BY <2>8
  <2> QED
    BY <1>1, <2>7, <2>9, <2>12, <2>13 DEF p
<1>2. CASE format = "raw"
  <2>1. FinalizePlan = <<"frames", "meta", "publish">>
    BY <1>2 DEF FinalizePlan, RawFinalize
  <2>2. /\ FinalizePlan \in Seq(Steps) /\ Len(FinalizePlan) = 3 /\ DOMAIN FinalizePlan = 1 .. 3
        /\ FinalizePlan[1] = "frames" /\ FinalizePlan[2] = "meta" /\ FinalizePlan[3] = "publish"
    BY <2>1, Names DEF Steps
  <2>3. "frames" \notin Files /\ "publish" \notin Files
    BY Names DEF Files
  <2> QED
    BY <1>2, <2>2, <2>3 DEF OrderedPlan
<1>3. CASE format = "canonical"
  <2>1. FinalizePlan = <<"meta", "publish">>
    BY <1>3 DEF FinalizePlan, CanonicalFinalize
  <2>2. /\ FinalizePlan \in Seq(Steps) /\ Len(FinalizePlan) = 2 /\ DOMAIN FinalizePlan = 1 .. 2
        /\ FinalizePlan[1] = "meta" /\ FinalizePlan[2] = "publish"
    BY <2>1, Names DEF Steps
  <2>3. "publish" \notin Files
    BY Names DEF Files
  <2> QED
    BY <1>3, <2>2, <2>3 DEF OrderedPlan
<1> QED
  BY <1>0, <1>1, <1>2, <1>3

\* The steps that are left are in the same order.
LEMMA TailOfPlan ==
  ASSUME plan \in Seq(Steps), plan # <<>>, plan' = Tail(plan)
  PROVE  /\ plan' \in Seq(Steps) /\ Head(plan) = plan[1] /\ 1 \in DOMAIN plan /\ plan[1] \in Steps
         /\ DOMAIN plan = 1 .. Len(plan) /\ Len(plan) \in Nat /\ DOMAIN plan' = 1 .. Len(plan) - 1
         /\ \A i \in DOMAIN plan' : i \in Nat /\ i > 0 /\ i + 1 \in DOMAIN plan /\ plan'[i] = plan[i + 1]
         /\ \A i \in DOMAIN plan : i \in Nat /\ (i = 1 \/ (i - 1 \in DOMAIN plan' /\ plan'[i - 1] = plan[i]))
         /\ OrderedPlan(plan) /\ format' = format => OrderedPlan(plan')
<1>1. /\ plan' \in Seq(Steps) /\ Head(plan) = plan[1] /\ 1 \in DOMAIN plan /\ plan[1] \in Steps
      /\ DOMAIN plan = 1 .. Len(plan) /\ Len(plan) \in Nat /\ Len(plan) > 0
      /\ DOMAIN plan' = 1 .. Len(plan) - 1 /\ Len(plan') = Len(plan) - 1
      /\ \A i \in 1 .. Len(plan) - 1 : plan'[i] = plan[i + 1]
  BY TailItems
<1>2. \A i \in DOMAIN plan' : i \in Nat /\ i > 0 /\ i + 1 \in DOMAIN plan /\ plan'[i] = plan[i + 1]
  BY <1>1
<1>3. \A i \in DOMAIN plan : i \in Nat /\ (i = 1 \/ (i - 1 \in DOMAIN plan' /\ plan'[i - 1] = plan[i]))
  <2> TAKE i \in DOMAIN plan
  <2>1. i \in Nat /\ (i = 1 \/ i - 1 \in DOMAIN plan')
    BY <1>1
  <2>2. i - 1 \in DOMAIN plan' => plan'[i - 1] = plan[(i - 1) + 1]
    BY <1>2
  <2>3. (i - 1) + 1 = i
    BY <2>1
  <2> QED
    BY <2>1, <2>2, <2>3
<1>4. ASSUME OrderedPlan(plan), format' = format PROVE OrderedPlan(plan')
  <2>1. ASSUME NEW i \in DOMAIN plan'
        PROVE  /\ plan'[i] # "tree" /\ plan'[i] # "sample"
               /\ plan'[i] = "frames" => format = "raw"
               /\ plan'[i] = "publish" => \A j \in DOMAIN plan' : j > i => plan'[j] = "index"
               /\ plan'[i] = "index" => i = Len(plan')
               /\ format # "staging" => plan'[i] \notin Files \ {"meta"}
    <3>1. i \in Nat /\ i > 0 /\ i + 1 \in DOMAIN plan /\ plan'[i] = plan[i + 1]
      BY <1>2
    <3>2. /\ plan[i + 1] # "tree" /\ (plan[i + 1] = "sample" => i + 1 = 1)
          /\ plan[i + 1] = "frames" => format = "raw"
          /\ plan[i + 1] = "publish" => \A j \in DOMAIN plan : j > i + 1 => plan[j] = "index"
          /\ plan[i + 1] = "index" => i + 1 = Len(plan)
          /\ format # "staging" => plan[i + 1] \notin Files \ {"meta"}
      BY <1>4, <3>1 DEF OrderedPlan
    <3>3. ASSUME plan'[i] = "publish", NEW j \in DOMAIN plan', j > i PROVE plan'[j] = "index"
      <4>1. j + 1 \in DOMAIN plan /\ plan'[j] = plan[j + 1] /\ j + 1 > i + 1
        BY <1>2, <3>1, <3>3
      <4> QED
        BY <3>1, <3>2, <3>3, <4>1
    <3> QED
      BY <1>1, <3>1, <3>2, <3>3
  <2> QED
    BY <1>4, <2>1 DEF OrderedPlan
<1> QED
  BY <1>1, <1>2, <1>3, <1>4

-----------------------------------------------------------------------------
(* What the actions with alternatives do to the writer and the disk *)

\* A sample: skipped after a failure, or its frames and its row are written
\* as far as the sample got, with a line in the quality file for a lost row.
LEMMA SampleStep ==
  ASSUME TypeInv, RunSample
  PROVE  /\ batch # <<>> /\ batch' = Tail(batch) /\ queue' = queue /\ Calls[1].m = "sample"
         /\ UNCHANGED <<processVars, callerVars, stop, wpc, answer, plan, metaOf, indexed>>
         /\ \/ writer.error /\ UNCHANGED <<writer, disk, faults>>
            \/ /\ ~writer.error /\ writer' \in Writers
               /\ faults' = faults \/ (faults < MaxFaults /\ faults' = faults + 1)
               /\ writer'.started = writer.started /\ writer'.status = writer.status
               /\ writer'.beginFailed = writer.beginFailed /\ writer'.rows \in {writer.rows, writer.rows + 1}
               /\ \A r \in Roles : writer'.frames[r] \in {writer.frames[r], writer.frames[r] + 1}
               /\ \/ disk' = WriteSample(writer'.rows, writer'.frames)
                  \/ disk' = Touch(WriteSample(writer'.rows, writer'.frames), "quality", 0)
<1>0. writer \in Writers
  BY DEF TypeInv
<1>4. \/ Skips("sample")
      \/ Runs("sample") /\ ~writer.error /\ batch' = Tail(batch)
  BY Zenon DEF RunSample
<1>6. UNCHANGED <<processVars, callerVars, queue, stop, wpc, answer, plan, metaOf, indexed>>
  BY Zenon DEF RunSample
<1>1. /\ batch # <<>> /\ batch' = Tail(batch) /\ queue' = queue /\ Calls[1].m = "sample"
      /\ UNCHANGED <<processVars, callerVars, stop, wpc, answer, plan, metaOf, indexed>>
  BY <1>4, <1>6, SomeCalls DEF Runs, Skips
<1> USE DEF Writers
<1>2. CASE Skips("sample")
  BY <1>1, <1>2 DEF Skips
<1>3. ASSUME NEW outcome \in SampleOutcomes, ~writer.error,
             LET w == [writer EXCEPT !.rows = RowsAfter(outcome), !.frames = FramesAfter(outcome)]
                 d == WriteSample(w.rows, w.frames)
             IN CASE outcome = "ok" -> writer' = w /\ disk' = d /\ UNCHANGED faults
                  [] outcome = "expired" -> NoteExpired(w, d)
                  [] OTHER -> faults < MaxFaults /\ faults' = faults + 1 /\ writer' = Failed(w) /\ disk' = d
      PROVE  /\ writer' \in Writers
             /\ faults' = faults \/ (faults < MaxFaults /\ faults' = faults + 1)
             /\ writer'.started = writer.started /\ writer'.status = writer.status
             /\ writer'.beginFailed = writer.beginFailed /\ writer'.rows \in {writer.rows, writer.rows + 1}
             /\ \A r \in Roles : writer'.frames[r] \in {writer.frames[r], writer.frames[r] + 1}
             /\ \/ disk' = WriteSample(writer'.rows, writer'.frames)
                \/ disk' = Touch(WriteSample(writer'.rows, writer'.frames), "quality", 0)
  <2> DEFINE fr == FramesAfter(outcome)
             ro == RowsAfter(outcome)
             w == [writer EXCEPT !.rows = ro, !.frames = fr]
             d == WriteSample(w.rows, w.frames)
  <2>1. fr \in [Roles -> Nat] /\ \A r \in Roles : fr[r] \in {writer.frames[r], writer.frames[r] + 1}
    BY <1>0 DEF FramesAfter
  <2>2. ro \in Nat /\ ro \in {writer.rows, writer.rows + 1}
    BY <1>0 DEF RowsAfter
  <2>3. (CASE outcome = "ok" -> writer' = w /\ disk' = d /\ UNCHANGED faults
           [] outcome = "expired" -> NoteExpired(w, d)
           [] OTHER -> faults < MaxFaults /\ faults' = faults + 1 /\ writer' = Failed(w) /\ disk' = d)
    BY <1>3
  <2> HIDE DEF fr, ro
  <2>4. w \in Writers /\ w.rows = ro /\ w.frames = fr /\ w.lines \in Nat /\ w.started = writer.started
        /\ w.status = writer.status /\ w.beginFailed = writer.beginFailed
    BY <1>0, <2>1, <2>2
  <2> HIDE DEF w, d
  <2>5. \/ writer' = w /\ disk' = d /\ UNCHANGED faults
        \/ writer' = [w EXCEPT !.lines = @ + 1] /\ disk' = Touch(d, "quality", 0) /\ UNCHANGED faults
        \/ writer' = Failed(w) /\ disk' = d /\ faults < MaxFaults /\ faults' = faults + 1
    BY <2>3 DEF NoteExpired
  <2>6. /\ writer' \in Writers /\ writer'.rows = w.rows /\ writer'.frames = w.frames /\ writer'.started = w.started
        /\ writer'.status = w.status /\ writer'.beginFailed = w.beginFailed
    <3>1. CASE writer' = w
      BY <2>4, <3>1
    <3>2. CASE writer' = [w EXCEPT !.lines = @ + 1]
      <4>1. writer' = [w EXCEPT !.lines = w.lines + 1] /\ w.lines + 1 \in Nat
        BY <2>4, <3>2
      <4> QED
        BY <2>4, <4>1
    <3>3. CASE writer' = Failed(w)
      BY <2>4, <3>3 DEF Failed
    <3> QED
      BY <2>5, <3>1, <3>2, <3>3
  <2>7. d = WriteSample(writer'.rows, writer'.frames)
    BY <2>6 DEF d
  <2>8. faults' = faults \/ (faults < MaxFaults /\ faults' = faults + 1)
    BY <2>5
  <2> QED
    BY <2>1, <2>2, <2>4, <2>5, <2>6, <2>7, <2>8
<1>5. CASE ~Skips("sample")
  <2>1. Contiguous
    BY DEF Contiguous, SampleIndex
  <2>2. ~writer.error
    BY <1>4, <1>5
  <2> QED
    <3>1. PICK outcome \in SampleOutcomes :
             LET ends == IF Contiguous THEN outcome ELSE "refused"
                 w == [writer EXCEPT !.rows = RowsAfter(ends), !.frames = FramesAfter(ends)]
                 d == WriteSample(w.rows, w.frames)
             IN CASE ends = "ok" -> writer' = w /\ disk' = d /\ UNCHANGED faults
                  [] ends = "expired" -> NoteExpired(w, d)
                  [] OTHER -> /\ Contiguous => faults < MaxFaults
                              /\ faults' = IF Contiguous THEN faults + 1 ELSE faults
                              /\ writer' = Failed(w) /\ disk' = d
      BY <1>5, Zenon DEF RunSample
    <3> HIDE DEF Writers
    <3>2. LET w == [writer EXCEPT !.rows = RowsAfter(outcome), !.frames = FramesAfter(outcome)]
              d == WriteSample(w.rows, w.frames)
          IN CASE outcome = "ok" -> writer' = w /\ disk' = d /\ UNCHANGED faults
               [] outcome = "expired" -> NoteExpired(w, d)
               [] OTHER -> faults < MaxFaults /\ faults' = faults + 1 /\ writer' = Failed(w) /\ disk' = d
      BY <2>1, <3>1
    <3>3. /\ writer' \in Writers
          /\ faults' = faults \/ (faults < MaxFaults /\ faults' = faults + 1)
          /\ writer'.started = writer.started /\ writer'.status = writer.status
          /\ writer'.beginFailed = writer.beginFailed /\ writer'.rows \in {writer.rows, writer.rows + 1}
          /\ \A r \in Roles : writer'.frames[r] \in {writer.frames[r], writer.frames[r] + 1}
          /\ \/ disk' = WriteSample(writer'.rows, writer'.frames)
             \/ disk' = Touch(WriteSample(writer'.rows, writer'.frames), "quality", 0)
      BY <1>3, <2>2, <3>2, Zenon
    <3> QED
      BY <1>1, <2>2, <3>3
<1> QED
  BY <1>2, <1>5

-----------------------------------------------------------------------------
(* Types *)

\* The caller, the session and the threads.
LEMMA CallerType ==
  ASSUME TypeInv, ThreadOrder, [Next]_vars
  PROVE  /\ format' = format /\ format' \in Formats /\ session' \in 1 .. MaxSessions /\ index' \in Episodes
         /\ cpc' \in {"new", "open", "waitFinal", "waitDiscard", "closing", "joining", "settled", "failed", "down"}
         /\ accepted' \in 0 .. MaxRows /\ stop' \in BOOLEAN
         /\ wpc' \in {"get", "run", "beginMeta", "plan", "ended"} /\ answer' \in {"none", "value", "error"}
<1> USE Names DEF TypeInv, TypeOK, callerVars, processVars, workerVars
<1>1. CASE CallerStep
  <2>1. ASSUME NEW item, CallTerminal(item)
        PROVE  cpc' \in {"waitFinal", "waitDiscard", "failed", "closing"}
               /\ UNCHANGED <<format, session, index, accepted, stop, wpc, answer>>
    BY <2>1 DEF CallTerminal
  <2>2. ASSUME CallBegin \/ TakeAnswer \/ WaitTimeout \/ PutSentinel \/ JoinWorker \/ CallClose
        PROVE  cpc' \in {"open", "failed", "closing", "joining", "settled"}
               /\ UNCHANGED <<format, session, index, accepted, stop, wpc, answer>>
    BY <2>2 DEF CallBegin, TakeAnswer, WaitTimeout, PutSentinel, JoinWorker, CallClose
  <2>3. ASSUME NEW m, CallAppend(m)
        PROVE  accepted' \in 0 .. MaxRows /\ UNCHANGED <<format, session, index, cpc, stop, wpc, answer>>
    BY <2>3 DEF CallAppend
  <2>4. ASSUME NextEpisode
        PROVE  index' \in Episodes /\ cpc' = "new" /\ accepted' = 0 /\ stop' = FALSE /\ wpc' = "get" /\ answer' = "none"
               /\ UNCHANGED <<format, session>>
    BY <2>4 DEF NextEpisode, FreshWriter
  <2> QED
    BY <1>1, <2>1, <2>2, <2>3, <2>4, ZenonT(60) DEF CallerStep, AskDiscard
<1>2. CASE WorkerStep
  <2>1. UNCHANGED <<format, session, index, cpc, accepted>>
    <3>1. CASE RunSample
      BY <3>1, SampleStep
    <3>2. CASE TakeBatch \/ EndBatch \/ RunSentinel \/ RunRaw
      BY <3>2 DEF TakeBatch, EndBatch, RunSentinel, RunRaw
    <3>3. CASE RunBegin \/ RunBeginMeta \/ RunTerminal
      BY <3>3 DEF RunBegin, RunBeginMeta, RunTerminal
    <3>4. CASE RunPlan \/ PlanFails \/ PlanDone
      BY <3>4 DEF RunPlan, PlanFails, PlanDone
    <3> QED
      BY <1>2, <3>1, <3>2, <3>3, <3>4 DEF WorkerStep
  <2>2. stop' \in BOOLEAN /\ wpc' \in {"get", "run", "beginMeta", "plan", "ended"} /\ answer' \in {"none", "value", "error"}
    <3>1. CASE RunSample
      BY <3>1, SampleStep
    <3>2. CASE TakeBatch \/ EndBatch \/ RunSentinel \/ RunRaw
      BY <3>2 DEF TakeBatch, EndBatch, RunSentinel, RunRaw
    <3>3. CASE RunBegin \/ RunBeginMeta \/ RunTerminal
      BY <3>3 DEF RunBegin, RunBeginMeta, RunTerminal
    <3>4. CASE RunPlan \/ PlanFails \/ PlanDone
      BY <3>4 DEF RunPlan, PlanFails, PlanDone
    <3> QED
      BY <1>2, <3>1, <3>2, <3>3, <3>4 DEF WorkerStep
  <2> QED
    BY <2>1, <2>2
<1>3. CASE Crash
  BY <1>3 DEF Crash
<1>4. CASE Restart
  <2>1. session < MaxSessions
    BY <1>4 DEF Restart, ThreadOrder
  <2>2. session' \in 1 .. MaxSessions
    BY <1>4, <2>1 DEF Restart
  <2>3. index' \in Episodes /\ format' = format /\ cpc' = "new" /\ accepted' = 0 /\ stop' = FALSE /\ wpc' = "get" /\ answer' = "none"
    BY <1>4 DEF Restart, FreshWriter
  <2> QED
    BY <2>2, <2>3
<1>5. CASE UNCHANGED vars
  BY <1>5 DEF vars
<1> QED
  BY <1>1, <1>2, <1>3, <1>4, <1>5 DEF Next

\* The queue, the batch and the plan.
LEMMA QueueType ==
  ASSUME TypeInv, ThreadOrder, [Next]_vars
  PROVE  /\ queue' \in Seq(Items) /\ batch' \in Seq(Items) /\ plan' \in Seq(Steps)
         /\ Len(queue') <= Capacity /\ Len(batch') <= BatchSize
<1>0. /\ queue \in Seq(Items) /\ batch \in Seq(Items) /\ plan \in Seq(Steps) /\ format \in Formats
      /\ Len(queue) <= Capacity /\ Len(batch) <= BatchSize /\ Capacity \in Nat /\ BatchSize \in Nat
      /\ Len(queue) \in Nat /\ Len(batch) \in Nat
  BY Names, LenProperties DEF TypeInv, TypeOK
<1>1. ASSUME NEW x \in Items, Room
      PROVE  Append(queue, x) \in Seq(Items) /\ Len(Append(queue, x)) <= Capacity
  BY <1>0, <1>1, AppendProperties DEF Room
<1>2. /\ Sentinel \in Items /\ Item("begin") \in Items /\ Item("sample") \in Items /\ Item("quality") \in Items
      /\ Terminal("discard", "none") \in Items
      /\ \A s \in {"COMPLETED", "ABORTED"} : Terminal("finalize", s) \in Items
  BY DEF Items, Sentinel, Item, Terminal, Methods
<1>3. /\ batch # <<>> => Tail(batch) \in Seq(Items) /\ Len(Tail(batch)) <= BatchSize
      /\ plan # <<>> => Tail(plan) \in Seq(Steps)
  BY <1>0, TailItems
<1>8. <<>> \in Seq(Items) /\ <<>> \in Seq(Steps) /\ Len(<<>>) <= Capacity /\ Len(<<>>) <= BatchSize
  BY <1>0
<1>4. CASE CallerStep
  <2>1. ASSUME NEW item \in Items, CallTerminal(item)
        PROVE  queue' \in Seq(Items) /\ Len(queue') <= Capacity /\ UNCHANGED <<batch, plan>>
    BY <1>0, <1>1, <2>1 DEF CallTerminal
  <2>2. ASSUME CallBegin \/ CallAppend("sample") \/ CallAppend("quality") \/ PutSentinel \/ WaitTimeout
        PROVE  queue' \in Seq(Items) /\ Len(queue') <= Capacity /\ UNCHANGED <<batch, plan>>
    BY <1>0, <1>1, <1>2, <2>2 DEF CallBegin, CallAppend, PutSentinel, WaitTimeout
  <2>3. ASSUME TakeAnswer \/ CallClose \/ JoinWorker PROVE UNCHANGED <<queue, batch, plan>>
    BY <2>3 DEF TakeAnswer, CallClose, JoinWorker, workerVars
  <2>4. ASSUME NextEpisode PROVE queue' = <<>> /\ batch' = <<>> /\ plan' = <<>>
    BY <2>4 DEF NextEpisode, FreshWriter
  <2>5. CASE NextEpisode
    BY <1>8, <2>4, <2>5
  <2>6. CASE TakeAnswer \/ CallClose \/ JoinWorker
    BY <1>0, <2>3, <2>6
  <2>7. CASE ~NextEpisode /\ ~(TakeAnswer \/ CallClose \/ JoinWorker)
    BY <1>0, <1>2, <1>4, <2>1, <2>2, <2>7 DEF CallerStep, AskDiscard
  <2> QED
    BY <2>5, <2>6, <2>7
<1>5. CASE WorkerStep
  <2>1. CASE TakeBatch
    <3>1. batch = <<>> /\ plan' = plan
      BY <2>1 DEF TakeBatch, ThreadOrder
    <3> QED
      BY <1>0, <2>1, <3>1, TakeCalls
  <2>2. CASE EndBatch
    BY <1>0, <2>2 DEF EndBatch
  <2>3. CASE RunSentinel \/ RunRaw
    <3>1. batch # <<>> /\ batch' = Tail(batch) /\ UNCHANGED <<queue, plan>>
      BY <2>3 DEF RunSentinel, RunRaw, Skips, Runs
    <3> QED
      BY <1>0, <1>3, <3>1
  <2>4. CASE RunSample
    <3>1. batch # <<>> /\ batch' = Tail(batch) /\ UNCHANGED <<queue, plan>>
      BY <2>4, SampleStep
    <3> QED
      BY <1>0, <1>3, <3>1
  <2>5. CASE RunBegin \/ RunBeginMeta
    <3>1. batch # <<>> /\ (batch' = batch \/ batch' = Tail(batch)) /\ UNCHANGED <<queue, plan>>
      BY <2>5 DEF RunBegin, Runs, RunBeginMeta, ThreadOrder
    <3> QED
      BY <1>0, <1>3, <3>1
  <2>6. CASE RunTerminal
    <3>1. batch # <<>> /\ (batch' = batch \/ batch' = Tail(batch)) /\ UNCHANGED queue
          /\ (plan' = plan \/ plan' = DiscardPlan \/ plan' = FinalizePlan)
      BY <2>6 DEF RunTerminal
    <3>2. DiscardPlan \in Seq(Steps) /\ FinalizePlan \in Seq(Steps)
      BY <1>0, DiscardShape, FinalizeShape
    <3>3. plan' \in Seq(Steps)
      BY <1>0, <3>1, <3>2
    <3>4. batch' \in Seq(Items) /\ Len(batch') <= BatchSize
      BY <1>0, <1>3, <3>1
    <3>5. queue' \in Seq(Items) /\ Len(queue') <= Capacity
      BY <1>0, <3>1
    <3> QED
      BY <3>3, <3>4, <3>5
  <2>7. CASE RunPlan
    <3>1. plan # <<>> /\ plan' = Tail(plan) /\ UNCHANGED <<queue, batch>>
      BY <2>7 DEF RunPlan
    <3> QED
      BY <1>0, <1>3, <3>1
  <2>8. CASE PlanFails \/ PlanDone
    <3>1. batch # <<>> /\ batch' = Tail(batch) /\ (plan' = plan \/ plan' = <<>>) /\ UNCHANGED queue
      BY <2>8 DEF PlanFails, PlanDone, ThreadOrder
    <3> QED
      BY <1>0, <1>3, <1>8, <3>1
  <2> QED
    BY <1>5, <2>1, <2>2, <2>3, <2>4, <2>5, <2>6, <2>7, <2>8 DEF WorkerStep
<1>6. CASE Crash \/ Restart
  <2>1. queue' = <<>> /\ batch' = <<>> /\ plan' = <<>>
    BY <1>6 DEF Crash, Restart, FreshWriter
  <2> QED
    BY <1>8, <2>1
<1>7. CASE UNCHANGED vars
  BY <1>0, <1>7 DEF vars, workerVars
<1> QED
  BY <1>4, <1>5, <1>6, <1>7 DEF Next

\* The writer object; its rows and frames are bounded by the accepted calls.
LEMMA WriterType ==
  ASSUME TypeInv, [Next]_vars
  PROVE  writer' \in Writers
<1>0. writer \in Writers
  BY DEF TypeInv
<1>1. NewWriter \in Writers
  BY DEF NewWriter, Writers
<1>2. writer.lines \in Nat /\ writer.lines + 1 \in Nat
  BY <1>0 DEF Writers
<1>3. CASE CallerStep
  <2>1. writer' = writer \/ writer' = NewWriter
    BY <1>3 DEF CallerStep, CallBegin, CallAppend, CallTerminal, AskDiscard, CallClose, TakeAnswer, WaitTimeout,
         PutSentinel, JoinWorker, NextEpisode, FreshWriter, workerVars
  <2> QED
    BY <1>0, <1>1, <2>1
<1>4. CASE WorkerStep
  <2>1. CASE RunSample
    BY <1>0, <2>1, SampleStep
  <2>2. CASE RunRaw
    <3>1. writer' = writer \/ writer' = [writer EXCEPT !.lines = @ + 1] \/ writer' = Failed(writer)
      BY <2>2 DEF RunRaw, Skips
    <3>2. Failed(writer) \in Writers
      BY <1>0 DEF Failed, Writers
    <3>3. [writer EXCEPT !.lines = writer.lines + 1] \in Writers
      BY <1>0, <1>2 DEF Writers
    <3>4. [writer EXCEPT !.lines = @ + 1] = [writer EXCEPT !.lines = writer.lines + 1]
      BY <1>0 DEF Writers
    <3> QED
      BY <1>0, <3>1, <3>2, <3>3, <3>4
  <2>3. CASE EndBatch \/ RunBegin \/ RunBeginMeta
    <3>1. \/ writer' = writer \/ writer' = [writer EXCEPT !.error = TRUE] \/ writer' = [writer EXCEPT !.started = TRUE]
          \/ writer' = [Failed(writer) EXCEPT !.beginFailed = TRUE]
      BY <2>3 DEF EndBatch, RunBegin, RunBeginMeta
    <3> QED
      BY <1>0, <3>1 DEF Failed, Writers
  <2>4. CASE RunTerminal
    <3>1. batch # <<>> => Head(batch) \in Items
      BY TailItems DEF TypeInv
    <3>2. Head(batch) \in Items
      BY <2>4, <3>1 DEF RunTerminal
    <3>3. writer' = writer \/ \E s \in {"none", "COMPLETED", "ABORTED", "discard"} : writer' = [writer EXCEPT !.status = s]
      BY <2>4, <3>2 DEF RunTerminal, FinalStatus, Items
    <3> QED
      BY <1>0, <3>3 DEF Writers
  <2>5. CASE TakeBatch \/ RunSentinel \/ RunPlan \/ PlanFails \/ PlanDone
    <3>1. writer' = writer \/ writer' = [writer EXCEPT !.started = FALSE]
      BY <2>5 DEF TakeBatch, RunSentinel, RunPlan, PlanFails, PlanDone
    <3> QED
      BY <1>0, <3>1 DEF Writers
  <2> QED
    BY <1>4, <2>1, <2>2, <2>3, <2>4, <2>5 DEF WorkerStep
<1>5. CASE Crash \/ Restart \/ UNCHANGED vars
  <2>1. writer' = writer \/ writer' = NewWriter
    BY <1>5 DEF Crash, Restart, FreshWriter, vars, workerVars
  <2> QED
    BY <1>0, <1>1, <2>1
<1> QED
  BY <1>3, <1>4, <1>5 DEF Next

\* Rows and frames are bounded by the calls that were accepted.
LEMMA RowBounds ==
  ASSUME NEW w \in Writers, NEW a \in 0 .. MaxRows, NEW c \in Nat, w.rows + w.lines + c <= a,
         \/ \A r \in Roles : w.frames[r] = w.rows
         \/ (\A r \in Roles : w.frames[r] \in {w.rows, w.rows + 1}) /\ w.rows + w.lines + c < a
  PROVE  w.rows \in 0 .. MaxRows /\ w.frames \in [Roles -> 0 .. MaxRows]
<1>1. w.rows \in Nat /\ w.lines \in Nat /\ w.frames \in [Roles -> Nat] /\ a \in Nat /\ a <= MaxRows /\ MaxRows \in Nat
  BY Names DEF Writers
<1>2. w.rows \in 0 .. MaxRows
  BY <1>1
<1>3. \A r \in Roles : w.frames[r] \in 0 .. MaxRows
  <2>1. CASE \A r \in Roles : w.frames[r] = w.rows
    BY <1>2, <2>1
  <2>2. CASE (\A r \in Roles : w.frames[r] \in {w.rows, w.rows + 1}) /\ w.rows + w.lines + c < a
    <3>1. w.rows + 1 \in 0 .. MaxRows
      BY <1>1, <2>2
    <3> QED
      BY <1>2, <2>2, <3>1
  <2> QED
    BY <2>1, <2>2
<1> QED
  BY <1>1, <1>2, <1>3

\* What the next step of a plan is, by the name it carries.
LEMMA PlanCases ==
  ASSUME TypeInv, RunPlan
  PROVE  /\ wpc = "plan" /\ plan # <<>> /\ plan' = Tail(plan) /\ plan[1] \in Steps /\ Head(plan) = plan[1]
         /\ UNCHANGED <<processVars, callerVars, queue, batch, stop, wpc, answer, writer, faults>>
         /\ \/ plan[1] = "tree" /\ Unlink(Files) /\ UNCHANGED <<metaOf, indexed>>
            \/ plan[1] = "index" /\ indexed' = indexed \cup {index} /\ UNCHANGED <<disk, metaOf>>
            \/ plan[1] = "frames" /\ disk' = Touch(disk, "sample", writer.rows) /\ UNCHANGED <<metaOf, indexed>>
            \/ /\ plan[1] = "meta" /\ ~Discarding
               /\ \E s \in MetaStatuses : metaOf' = [metaOf EXCEPT ![index] = s]
               /\ UNCHANGED <<disk, indexed>>
            \/ /\ plan[1] = "publish" /\ UNCHANGED <<metaOf, indexed>>
               /\ IF format = "staging" THEN Rename("meta") ELSE RenameTree
            \/ plan[1] \in Files /\ Discarding /\ Unlink({plan[1]}) /\ UNCHANGED <<metaOf, indexed>>
            \/ plan[1] \in Files \ {"meta"} /\ ~Discarding /\ Rename(plan[1]) /\ UNCHANGED <<metaOf, indexed>>
<1>1. wpc = "plan" /\ plan # <<>> /\ plan' = Tail(plan) /\ PlanStep(Head(plan))
      /\ UNCHANGED <<processVars, callerVars, queue, batch, stop, wpc, answer, writer, faults>>
  BY DEF RunPlan
<1>2. plan[1] \in Steps /\ Head(plan) = plan[1]
  BY <1>1, TailItems DEF TypeInv
<1>3. PlanStep(plan[1])
  BY <1>1, <1>2
<1>4. CASE plan[1] \in {"tree", "index", "frames", "publish"}
  BY <1>1, <1>2, <1>3, <1>4 DEF PlanStep, AppendIndex, WriteFrames
<1>5. CASE plan[1] \notin {"tree", "index", "frames", "publish"}
  <2>1. plan[1] \in Files
    BY <1>2, <1>5 DEF Steps
  <2> QED
    BY <1>1, <1>2, <1>3, <1>5, <2>1 DEF PlanStep
<1> QED
  BY <1>4, <1>5

\* How a file may change in one step: it is created, gets another length, is
\* renamed, or is unlinked while it is still partial.
Written(old, new) ==
    \/ new = old
    \/ old.at = "absent" /\ new.at = "partial" /\ new.by = session
    \/ old.at # "absent" /\ new.at = old.at /\ new.by = old.by
Moves(old, new) ==
    \/ Written(old, new)
    \/ old.at = "partial" /\ new = Absent
    \/ old.at = "partial" /\ new.at = "final" /\ new.by = old.by /\ new.n = old.n
DiskWrites ==
    \A e \in Episodes, g \in Files :
        disk'[e][g] = disk[e][g] \/ (e = index /\ Written(disk[e][g], disk'[e][g]))
DiskMoves ==
    \A e \in Episodes, g \in Files :
        disk'[e][g] = disk[e][g] \/ (e = index /\ Moves(disk[e][g], disk'[e][g]))

\* What Touch, a rename and an unlink do to one file is a move.
LEMMA FileMoves ==
  ASSUME NEW old \in FileStates
  PROVE  /\ \A n : Written(old, IF old.at = "absent" THEN [at |-> "partial", by |-> session, n |-> n]
                                ELSE [at |-> old.at, by |-> old.by, n |-> n])
         /\ Moves(old, IF old.at = "partial" THEN [at |-> "final", by |-> old.by, n |-> old.n] ELSE old)
         /\ Moves(old, IF old.at = "partial" THEN Absent ELSE old)
  BY DEF Moves, Written, FileStates

\* Touch neither renames nor unlinks.
LEMMA TouchWrites ==
  ASSUME TypeInv, NEW f \in Files, NEW n \in 0 .. MaxRows, disk' = Touch(disk, f, n)
  PROVE  disk' \in Disks /\ DiskWrites
<1>0. /\ disk \in Disks /\ index \in Episodes /\ session \in 1 .. MaxSessions
      /\ \A e \in Episodes, g \in Files : disk[e][g] \in FileStates
  BY SMTT(60) DEF TypeInv, TypeOK, Disks
<1>1. disk' \in Disks
      /\ \A e \in Episodes, g \in Files :
            disk'[e][g] = IF e = index /\ g = f
                          THEN IF disk[e][g].at = "absent" THEN [at |-> "partial", by |-> session, n |-> n]
                               ELSE [at |-> disk[e][g].at, by |-> disk[e][g].by, n |-> n]
                          ELSE disk[e][g]
  BY <1>0, TouchFiles
<1>2. ASSUME NEW e \in Episodes, NEW g \in Files
      PROVE  disk'[e][g] = disk[e][g] \/ (e = index /\ Written(disk[e][g], disk'[e][g]))
  <2> DEFINE new == IF disk[e][g].at = "absent" THEN [at |-> "partial", by |-> session, n |-> n]
                    ELSE [at |-> disk[e][g].at, by |-> disk[e][g].by, n |-> n]
  <2>1. Written(disk[e][g], new)
    BY <1>0, FileMoves
  <2>2. disk'[e][g] = disk[e][g] \/ (e = index /\ disk'[e][g] = new)
    BY <1>1
  <2> HIDE DEF new
  <2> QED
    BY <2>1, <2>2
<1> QED
  BY <1>1, <1>2 DEF DiskWrites

\* A step writes files of its own index alone; only a plan renames or unlinks.
LEMMA DiskStep ==
  ASSUME TypeInv, ThreadOrder, [Next]_vars,
         writer'.rows \in 0 .. MaxRows, writer'.frames \in [Roles -> 0 .. MaxRows]
  PROVE  disk' \in Disks /\ DiskMoves /\ (~RunPlan => DiskWrites)
<1>0. /\ disk \in Disks /\ index \in Episodes /\ session \in 1 .. MaxSessions /\ writer.rows \in 0 .. MaxRows
      /\ 0 \in 0 .. MaxRows /\ {"sample", "quality", "meta"} \subseteq Files
  BY Names DEF TypeInv, TypeOK
<1>9. \A e \in Episodes, g \in Files : disk[e][g] \in FileStates
  BY <1>0 DEF Disks
<1>10. DiskWrites => DiskMoves
  BY DEF DiskWrites, DiskMoves, Moves
<1>1. ASSUME disk' = disk PROVE disk' \in Disks /\ DiskWrites
  BY <1>0, <1>1 DEF DiskWrites
<1>2. ASSUME NEW f \in Files, NEW n \in 0 .. MaxRows, disk' = Touch(disk, f, n) PROVE disk' \in Disks /\ DiskWrites
  BY <1>2, TouchWrites
<1>3. ASSUME RunSample PROVE disk' \in Disks /\ DiskWrites
  <2> DEFINE d == WriteSample(writer'.rows, writer'.frames)
  <2>1. disk' = disk \/ disk' = d \/ disk' = Touch(d, "quality", 0)
    BY <1>3, SampleStep
  <2>2. /\ d \in Disks
        /\ \A e \in Episodes, g \in Files :
              d[e][g] = LET n == IF g = "sample" THEN writer'.rows ELSE writer'.frames[g] IN
                        IF e = index /\ ((g = "sample" /\ format # "raw")
                                         \/ (g \in Roles /\ writer'.frames[g] > writer.frames[g]))
                        THEN IF disk[e][g].at = "absent" THEN [at |-> "partial", by |-> session, n |-> n]
                             ELSE [at |-> disk[e][g].at, by |-> disk[e][g].by, n |-> n]
                        ELSE disk[e][g]
    BY SampleFiles
  <2> HIDE DEF d
  <2>3. \A e \in Episodes, g \in Files : d[e][g] = disk[e][g] \/ (e = index /\ Written(disk[e][g], d[e][g]))
    <3> TAKE e \in Episodes, g \in Files
    <3>1. disk[e][g] \in FileStates
      BY <1>9
    <3> DEFINE n == IF g = "sample" THEN writer'.rows ELSE writer'.frames[g]
               new == IF disk[e][g].at = "absent" THEN [at |-> "partial", by |-> session, n |-> n]
                      ELSE [at |-> disk[e][g].at, by |-> disk[e][g].by, n |-> n]
    <3>2. d[e][g] = disk[e][g] \/ (e = index /\ d[e][g] = new)
      BY <2>2
    <3>3. Written(disk[e][g], new)
      BY <3>1, FileMoves
    <3> HIDE DEF new
    <3> QED
      BY <3>2, <3>3
  <2>4. CASE disk' = d
    BY <2>2, <2>3, <2>4 DEF DiskWrites
  <2>5. CASE disk' = Touch(d, "quality", 0)
    <3>1. d[index]["quality"] = disk[index]["quality"]
      BY <1>0, <2>2, Names
    <3>2. /\ disk' \in Disks
          /\ \A e \in Episodes, g \in Files :
                disk'[e][g] = IF e = index /\ g = "quality"
                              THEN IF d[e][g].at = "absent" THEN [at |-> "partial", by |-> session, n |-> 0]
                                   ELSE [at |-> d[e][g].at, by |-> d[e][g].by, n |-> 0]
                              ELSE d[e][g]
      BY <1>0, <2>2, <2>5, TouchFiles
    <3>3. Written(disk[index]["quality"], disk'[index]["quality"])
      <4>1. disk[index]["quality"] \in FileStates
        BY <1>0, <1>9
      <4> DEFINE old == disk[index]["quality"]
      <4>2. disk'[index]["quality"] = IF old.at = "absent" THEN [at |-> "partial", by |-> session, n |-> 0]
                                      ELSE [at |-> old.at, by |-> old.by, n |-> 0]
        BY <1>0, <3>1, <3>2
      <4> HIDE DEF old
      <4>3. Written(old, disk'[index]["quality"])
        BY <4>1, <4>2, FileMoves DEF old
      <4> QED
        BY <4>3 DEF old
    <3>4. \A e \in Episodes, g \in Files : ~(e = index /\ g = "quality") => disk'[e][g] = d[e][g]
      BY <3>2
    <3> QED
      BY <2>3, <3>2, <3>3, <3>4 DEF DiskWrites
  <2> QED
    BY <1>1, <2>1, <2>4, <2>5
<1>4. ASSUME RunRaw PROVE disk' \in Disks /\ DiskWrites
  <2>1. disk' = disk \/ disk' = Touch(disk, "quality", 0)
    BY <1>4 DEF RunRaw, Skips
  <2> QED
    BY <1>0, <1>1, <1>2, <2>1
<1>5. ASSUME RunBegin \/ RunBeginMeta PROVE disk' \in Disks /\ DiskWrites
  <2>1. disk' = disk \/ disk' = Touch(disk, "sample", 0) \/ disk' = Touch(disk, "meta", 0)
    BY <1>5 DEF RunBegin, RunBeginMeta
  <2> QED
    BY <1>0, <1>1, <1>2, <2>1
<1>6. ASSUME RunPlan PROVE disk' \in Disks /\ DiskMoves
  <2>1. CASE disk' = Touch(disk, "sample", writer.rows)
    BY <1>0, <1>2, <1>10, <2>1
  <2>2. ASSUME NEW s \in Files, Rename(s) PROVE disk' \in Disks /\ DiskMoves
    <3>1. /\ disk' \in Disks
          /\ \A e \in Episodes, g \in Files :
                disk'[e][g] = disk[e][g] \/
                  (e = index /\ disk'[e][g] = IF disk[e][g].at = "partial"
                                              THEN [at |-> "final", by |-> disk[e][g].by, n |-> disk[e][g].n] ELSE disk[e][g])
      BY <2>2, RenameFiles
    <3> QED
      BY <1>9, <3>1, FileMoves, ZenonT(60) DEF DiskMoves
  <2>3. ASSUME NEW fs \in SUBSET Files, Unlink(fs) PROVE disk' \in Disks /\ DiskMoves
    <3>1. /\ disk' \in Disks
          /\ \A e \in Episodes, g \in Files :
                disk'[e][g] = disk[e][g] \/
                  (e = index /\ disk'[e][g] = IF disk[e][g].at = "partial" THEN Absent ELSE disk[e][g])
      BY <2>3, UnlinkFiles
    <3> QED
      BY <1>9, <3>1, FileMoves, ZenonT(60) DEF DiskMoves
  <2>4. CASE RenameTree
    <3>1. /\ disk' \in Disks
          /\ \A e \in Episodes, g \in Files :
                disk'[e][g] = disk[e][g] \/
                  (e = index /\ disk'[e][g] = IF disk[e][g].at = "partial"
                                              THEN [at |-> "final", by |-> disk[e][g].by, n |-> disk[e][g].n] ELSE disk[e][g])
      BY <2>4, RenameTreeFiles
    <3> QED
      BY <1>9, <3>1, FileMoves, ZenonT(60) DEF DiskMoves
  <2>5. \/ disk' = disk \/ disk' = Touch(disk, "sample", writer.rows) \/ RenameTree
        \/ \E s \in Files : Rename(s)
        \/ \E fs \in SUBSET Files : Unlink(fs)
    <3>1. plan[1] \in Files => {plan[1]} \in SUBSET Files
      OBVIOUS
    <3>2. Files \in SUBSET Files
      OBVIOUS
    <3>3. \/ disk' = disk \/ disk' = Touch(disk, "sample", writer.rows) \/ RenameTree
          \/ Rename("meta") \/ (plan[1] \in Files /\ Rename(plan[1]))
          \/ Unlink(Files) \/ (plan[1] \in Files /\ Unlink({plan[1]}))
      BY <1>6, PlanCases
    <3> QED
      BY <1>0, <3>1, <3>2, <3>3
  <2> QED
    BY <1>1, <1>10, <2>1, <2>2, <2>3, <2>4, <2>5
<1>7. ASSUME CallerStep PROVE disk' \in Disks /\ DiskWrites
  <2>1. disk' = disk
    BY <1>7 DEF CallerStep, CallBegin, CallAppend, CallTerminal, AskDiscard, CallClose, TakeAnswer, WaitTimeout,
       PutSentinel, JoinWorker, NextEpisode, diskVars
  <2> QED
    BY <1>1, <2>1
<1>8. ASSUME TakeBatch \/ EndBatch \/ RunSentinel \/ RunTerminal \/ PlanFails \/ PlanDone \/ Crash \/ Restart \/ UNCHANGED vars
      PROVE  disk' \in Disks /\ DiskWrites
  <2>1. disk' = disk
    BY <1>8 DEF TakeBatch, EndBatch, RunSentinel, RunTerminal, PlanFails, PlanDone, Crash, Restart, vars, diskVars
  <2> QED
    BY <1>1, <2>1
<1> QED
  BY <1>10, <1>3, <1>4, <1>5, <1>6, <1>7, <1>8 DEF Next, WorkerStep

\* The metadata of every episode stay within their type.
LEMMA MetadataType ==
  ASSUME TypeInv, [Next]_vars
  PROVE  /\ metaOf' \in [Episodes -> {"none", "recording"} \cup Statuses]
         /\ indexed' \subseteq Episodes /\ faults' \in 0 .. MaxFaults
<1>0. /\ metaOf \in [Episodes -> {"none", "recording"} \cup Statuses] /\ index \in Episodes
      /\ indexed \subseteq Episodes /\ faults \in 0 .. MaxFaults /\ MaxFaults \in Nat /\ writer \in Writers
  BY Names DEF TypeInv, TypeOK
<1>1. CASE RunPlan
  <2>1. MetaStatuses \subseteq {"none"} \cup Statuses \cup {"discard"} /\ (~Discarding => "discard" \notin MetaStatuses)
    BY <1>0 DEF MetaStatuses, Statuses, Writers, Discarding
  <2>2. /\ faults' = faults /\ (indexed' = indexed \/ indexed' = indexed \cup {index})
        /\ metaOf' = metaOf \/ (~Discarding /\ \E s \in MetaStatuses : metaOf' = [metaOf EXCEPT ![index] = s])
    BY <1>1, PlanCases
  <2> QED
    BY <1>0, <2>1, <2>2
<1>2. CASE ~RunPlan
  <2>1. CASE RunSample
    BY <1>0, <2>1, SampleStep
  <2>2. CASE RunBegin \/ RunBeginMeta \/ RunRaw \/ EndBatch
    <3>1. /\ indexed' = indexed /\ (faults' = faults \/ (faults < MaxFaults /\ faults' = faults + 1))
          /\ metaOf' = metaOf \/ metaOf' = [metaOf EXCEPT ![index] = "recording"]
      BY <2>2 DEF RunBegin, RunBeginMeta, RunRaw, EndBatch, Skips, diskVars
    <3> QED
      BY <1>0, <3>1
  <2>3. CASE TakeBatch \/ RunSentinel \/ RunTerminal \/ PlanFails \/ PlanDone
    <3>1. UNCHANGED <<indexed, metaOf>> /\ (faults' = faults \/ (faults < MaxFaults /\ faults' = faults + 1))
      BY <2>3 DEF TakeBatch, RunSentinel, RunTerminal, PlanFails, PlanDone, diskVars
    <3> QED
      BY <1>0, <3>1
  <2>4. CASE CallerStep \/ Crash \/ Restart \/ UNCHANGED vars
    <3>1. UNCHANGED <<indexed, metaOf, faults>>
      BY <2>4 DEF CallerStep, CallBegin, CallAppend, CallTerminal, AskDiscard, CallClose, TakeAnswer, WaitTimeout,
         PutSentinel, JoinWorker, NextEpisode, Crash, Restart, vars, diskVars
    <3> QED
      BY <1>0, <3>1
  <2> QED
    BY <1>2, <2>1, <2>2, <2>3, <2>4 DEF Next, WorkerStep
<1> QED
  BY <1>1, <1>2

\* Every step keeps the types; the bounds on rows come from the accounts.
LEMMA TypeStep ==
  ASSUME TypeInv, CallOrder, ThreadOrder, AccountInv, AccountInv', [Next]_vars
  PROVE  TypeInv' /\ DiskMoves /\ (~RunPlan => DiskWrites)
<1>1. Calls' \in Seq(Items) /\ Cardinality(Appends(Calls')) \in Nat
  <2>1. Calls' \in Seq(Items)
    BY QueueType, ConcatProperties DEF Calls
  <2>2. Item("stop") \in Items
    BY DEF Item, Items, Methods
  <2> QED
    BY <2>1, <2>2, AppendsOfAppend
<1>2. writer' \in Writers /\ accepted' \in 0 .. MaxRows
  BY CallerType, WriterType
<1>3. writer'.rows \in 0 .. MaxRows /\ writer'.frames \in [Roles -> 0 .. MaxRows]
  <2> DEFINE c == Cardinality(Appends(Calls'))
  <2>1. c \in Nat /\ Kept' = writer'.rows + writer'.lines + c
    BY <1>1 DEF Kept
  <2> HIDE DEF c
  <2>2. /\ writer'.rows + writer'.lines + c <= accepted'
        /\ \/ \A r \in Roles : writer'.frames[r] = writer'.rows
           \/ /\ \A r \in Roles : writer'.frames[r] \in {writer'.rows, writer'.rows + 1}
              /\ writer'.rows + writer'.lines + c < accepted'
    BY <2>1 DEF AccountInv
  <2> QED
    BY <1>2, <2>1, <2>2, RowBounds
<1>4. disk' \in Disks /\ DiskMoves /\ (~RunPlan => DiskWrites)
  BY <1>3, DiskStep
<1>5. \A e \in Episodes, f \in Files :
        disk'[e][f] \in [at : {"absent", "partial", "final"}, by : 0 .. MaxSessions, n : 0 .. MaxRows]
  BY <1>4 DEF Disks, FileStates
<1>6. TypeOK'
  BY <1>3, <1>5, CallerType, QueueType, MetadataType DEF TypeOK
<1> QED
  BY <1>2, <1>4, <1>6, QueueType, MetadataType DEF TypeInv

-----------------------------------------------------------------------------
(* What a step leaves alone *)

\* Nothing is left to do but the sentinel.
Quiet == \A i \in DOMAIN Calls : Calls[i].m = "stop"

\* The caller leaves the worker's variables and the disk alone.
LEMMA CallerKeeps ==
  ASSUME CallerStep, ~NextEpisode
  PROVE  UNCHANGED <<format, session, index, batch, stop, wpc, plan, writer, disk, metaOf, indexed, faults>>
<1> USE DEF processVars, workerVars, diskVars
<1>1. ASSUME NEW item, CallTerminal(item)
      PROVE  UNCHANGED <<format, session, index, batch, stop, wpc, plan, writer, disk, metaOf, indexed, faults>>
  BY <1>1 DEF CallTerminal
<1>2. ASSUME NEW m, CallAppend(m)
      PROVE  UNCHANGED <<format, session, index, batch, stop, wpc, plan, writer, disk, metaOf, indexed, faults>>
  BY <1>2 DEF CallAppend
<1>3. CASE CallBegin \/ CallClose \/ TakeAnswer \/ WaitTimeout \/ PutSentinel \/ JoinWorker
  BY <1>3 DEF CallBegin, CallClose, TakeAnswer, WaitTimeout, PutSentinel, JoinWorker
<1> QED
  BY <1>1, <1>2, <1>3 DEF CallerStep, AskDiscard

\* The worker leaves the caller's variables alone.
LEMMA WorkerKeeps ==
  ASSUME TypeInv, WorkerStep
  PROVE  UNCHANGED <<format, session, index, cpc, accepted>>
<1> USE DEF callerVars, processVars
<1>1. CASE RunSample
  BY <1>1, SampleStep
<1>2. CASE TakeBatch \/ EndBatch \/ RunSentinel \/ RunRaw
  BY <1>2 DEF TakeBatch, EndBatch, RunSentinel, RunRaw
<1>3. CASE RunBegin \/ RunBeginMeta \/ RunTerminal
  BY <1>3 DEF RunBegin, RunBeginMeta, RunTerminal
<1>4. CASE RunPlan \/ PlanFails \/ PlanDone
  BY <1>4 DEF RunPlan, PlanFails, PlanDone
<1> QED
  BY <1>1, <1>2, <1>3, <1>4 DEF WorkerStep

\* A caller that no longer waits for room puts nothing but the sentinel.
LEMMA CallerQuiet ==
  ASSUME TypeInv, CallOrder, ThreadOrder, CallerStep, ~NextEpisode, cpc \notin {"new", "open"}, Quiet
  PROVE  Quiet' /\ cpc' \notin {"new", "open"}
<1>1. CASE queue' = queue
  <2>1. Calls' = Calls
    BY <1>1, CallerKeeps DEF Calls
  <2>2. cpc' \notin {"new", "open"}
    BY DEF CallerStep, CallBegin, CallAppend, CallTerminal, AskDiscard, WaitTimeout, PutSentinel,
       TakeAnswer, CallClose, JoinWorker
  <2> QED
    BY <2>1, <2>2 DEF Quiet
<1>2. CASE queue' # queue
  <2>1. queue' = Append(queue, Sentinel) /\ batch' = batch /\ cpc' \notin {"new", "open"}
    BY <1>2 DEF CallerStep, CallBegin, CallAppend, CallTerminal, AskDiscard, WaitTimeout, PutSentinel,
       TakeAnswer, CallClose, JoinWorker, workerVars
  <2>2. Sentinel \in Items /\ Sentinel.m = "stop"
    BY DEF Sentinel, Item, Items, Methods
  <2>3. /\ DOMAIN Calls = 1 .. Len(Calls) /\ DOMAIN Calls' = 1 .. Len(Calls) + 1 /\ Len(Calls) \in Nat
        /\ \A i \in 1 .. Len(Calls) : Calls'[i] = Calls[i]
        /\ Calls'[Len(Calls) + 1] = Sentinel
    BY <2>1, <2>2, PutCall
  <2>4. \A i \in DOMAIN Calls' : i \in DOMAIN Calls \/ i = Len(Calls) + 1
    BY <2>3
  <2> QED
    BY <2>1, <2>2, <2>3, <2>4 DEF Quiet
<1> QED
  BY <1>1, <1>2

\* A worker with nothing but the sentinel to run touches no file.
LEMMA WorkerQuiet ==
  ASSUME TypeInv, CallOrder, ThreadOrder, WorkerStep, wpc # "plan", Quiet
  PROVE  /\ Quiet' /\ wpc' # "plan" /\ cpc' = cpc
         /\ UNCHANGED <<disk, metaOf, indexed, plan>> /\ (writer' = writer \/ writer' = [writer EXCEPT !.error = TRUE])
<1>1. batch # <<>> => Head(batch).m = "stop"
  BY SomeCalls DEF Quiet
<1>2. wpc # "beginMeta"
  <2>1. wpc = "beginMeta" => Calls # <<>> /\ Calls[1].m = "begin" /\ 1 \in DOMAIN Calls
    BY SomeCalls DEF ThreadOrder
  <2> QED
    BY <2>1 DEF Quiet
<1>3. ~RunSample
  BY <1>1, SomeCalls, SampleStep
<1>4. TakeBatch \/ EndBatch \/ RunSentinel
  BY <1>1, <1>2, <1>3 DEF WorkerStep, RunBegin, RunBeginMeta, RunRaw, Skips, Runs, RunTerminal, IsTerminal, RunPlan,
     PlanFails, PlanDone
<1>5. CASE TakeBatch
  <2>1. batch = <<>>
    BY <1>5 DEF TakeBatch, ThreadOrder
  <2>2. Calls' = Calls
    BY <1>5, <2>1, TakeCalls
  <2> QED
    BY <1>5, <2>2 DEF TakeBatch, Quiet, callerVars, diskVars
<1>6. CASE EndBatch
  <2>1. Calls' = Calls
    BY <1>6 DEF EndBatch, Calls
  <2> QED
    BY <1>6, <2>1 DEF EndBatch, Quiet, callerVars, diskVars
<1>7. CASE RunSentinel
  <2>1. batch # <<>> /\ batch' = Tail(batch) /\ queue' = queue
    BY <1>7 DEF RunSentinel
  <2>2. \A i \in DOMAIN Calls' : i + 1 \in DOMAIN Calls /\ Calls'[i] = Calls[i + 1]
    BY <2>1, DoneCall, SMTT(60)
  <2> QED
    BY <1>7, <2>2 DEF RunSentinel, Quiet, callerVars, diskVars
<1> QED
  BY <1>4, <1>5, <1>6, <1>7

\* After a terminal call there is nothing but the sentinel.
LEMMA PlanQuiet ==
  ASSUME TypeInv, CallOrder, ThreadOrder, wpc = "plan"
  PROVE  /\ cpc \notin {"new", "open"} /\ batch # <<>> /\ Calls # <<>> /\ IsTerminal(Calls[1])
         /\ PlanFails \/ PlanDone => Quiet' /\ cpc' = cpc /\ wpc' = "run"
<1>1. batch # <<>> /\ Calls # <<>> /\ IsTerminal(Calls[1]) /\ 1 \in DOMAIN Calls
  BY SomeCalls DEF ThreadOrder
<1>2. cpc \notin {"new", "open"}
  BY <1>1 DEF CallOrder
<1>3. ASSUME PlanFails \/ PlanDone PROVE Quiet' /\ cpc' = cpc /\ wpc' = "run"
  <2>1. batch' = Tail(batch) /\ queue' = queue /\ cpc' = cpc /\ wpc' = "run"
    BY <1>3 DEF PlanFails, PlanDone, callerVars
  <2> QED
    BY <1>1, <2>1, DoneOrder DEF Quiet
<1> QED
  BY <1>1, <1>2, <1>3

-----------------------------------------------------------------------------
(* The disk *)

\* A bounded set of numbers that is not empty has a largest one.
LEMMA LargestOf ==
  ASSUME NEW T, T # {}, NEW b \in Nat, \A t \in T : t \in Nat /\ t <= b
  PROVE  \E t \in T : \A u \in T : t >= u
<1> DEFINE D == {b - t : t \in T}
<1>1. D \subseteq Nat /\ D # {}
  OBVIOUS
<1>2. \E x \in D : \A y \in D : ~(<<y, x>> \in OpToRel(<, Nat))
  BY <1>1, NatLessThanWellFounded, WFMin
<1>3. PICK x \in D : \A y \in D : ~(y < x)
  BY <1>1, <1>2 DEF OpToRel
<1>4. PICK t \in T : x = b - t
  OBVIOUS
<1>5. ASSUME NEW u \in T PROVE t >= u
  <2>1. b - u \in D
    OBVIOUS
  <2>2. ~(b - u < b - t)
    BY <1>3, <1>4, <2>1
  <2> QED
    BY <2>2
<1> QED
  BY <1>5

\* Max finds the largest episode of a set of them.
LEMMA LargestEpisode ==
  ASSUME NEW T \in SUBSET Episodes, T # {}
  PROVE  Max(T) \in T /\ \A u \in T : u <= Max(T)
<1>1. MaxEpisodes \in Nat /\ \A t \in T : t \in Nat /\ t <= MaxEpisodes
  BY Names DEF Episodes
<1>2. \E t \in T : \A u \in T : t >= u
  BY <1>1, LargestOf
<1>3. Max(T) \in T /\ \A u \in T : Max(T) >= u
  BY <1>2 DEF Max
<1> QED
  BY <1>1, <1>3

\* The index of the next episode carries no name yet, nor does any later one.
LEMMA NextIndexFresh ==
  ASSUME TypeInv, DiskOrder, NextEpisode \/ Restart
  PROVE  /\ index' \in Episodes /\ \A e \in Episodes : e >= index' => Fresh(e)
         /\ UNCHANGED <<format, disk, metaOf, indexed, faults>>
         /\ writer' = NewWriter /\ queue' = <<>> /\ batch' = <<>> /\ wpc' = "get" /\ cpc' = "new" /\ plan' = <<>>
<1>1. /\ index \in Episodes /\ Episodes \subseteq Nat /\ index' \in Episodes
      /\ UNCHANGED <<format, disk, metaOf, indexed, faults>>
      /\ writer' = NewWriter /\ queue' = <<>> /\ batch' = <<>> /\ wpc' = "get" /\ cpc' = "new" /\ plan' = <<>>
  BY Names DEF NextEpisode, Restart, FreshWriter, diskVars, TypeInv, TypeOK
<1>2. CASE index' = index + 1
  BY <1>1, <1>2 DEF DiskOrder
<1>3. CASE index' # index + 1
  <2> DEFINE used == {e \in Episodes : disk[e]["meta"].at # "absent" \/ disk[e]["sample"].at # "absent"}
  <2>1. format = "staging" /\ index' = IF used = {} THEN 0 ELSE Max(used) + 1
    BY <1>3 DEF NextEpisode, Restart, NextIndex
  <2>2. ASSUME NEW e \in Episodes, e >= index' PROVE e \notin used
    <3>1. CASE used = {}
      BY <3>1
    <3>2. CASE used # {}
      <4>1. used \in SUBSET Episodes
        OBVIOUS
      <4>2. Max(used) \in Nat /\ \A u \in used : u <= Max(used)
        BY <1>1, <3>2, <4>1, LargestEpisode
      <4> HIDE DEF used
      <4> QED
        BY <1>1, <2>1, <2>2, <3>2, <4>2
    <3> QED
      BY <3>1, <3>2
  <2> QED
    BY <1>1, <2>1, <2>2 DEF Fresh
<1> QED
  BY <1>1, <1>2, <1>3

\* A file gets its final name only in a finalize call, after the row file, and
\* the metadata as the last of all.
LEMMA FinalStep ==
  ASSUME TypeInv, DiskOrder, PlanInv, DiskMoves, ~RunPlan => DiskWrites, NEW e \in Episodes, NEW g \in Files,
         disk'[e][g].at = "final", disk[e][g].at # "final"
  PROVE  /\ e = index /\ RunPlan /\ Finalizing /\ disk[e][g].at = "partial"
         /\ disk'[e]["sample"].at = "final"
         /\ g = "meta" => plan[1] = "publish"
<1>0. /\ disk \in Disks /\ index \in Episodes /\ "sample" \in Files /\ "meta" \in Files
      /\ disk[e][g] \in FileStates /\ plan \in Seq(Steps)
  BY Names DEF TypeInv, TypeOK, Disks
<1>1. e = index /\ disk[e][g].at = "partial"
  BY DEF DiskMoves, Moves, Written, Absent
<1>2. RunPlan
  <2>1. ASSUME DiskWrites PROVE FALSE
    BY <1>1, <2>1 DEF DiskWrites, Written
  <2> QED
    BY <2>1
<1>3. wpc = "plan" /\ plan # <<>> /\ DOMAIN plan = 1 .. Len(plan) /\ 1 \in DOMAIN plan
  BY <1>0, <1>2, PlanCases, TailItems
<1>4. \/ plan[1] = "publish" /\ (IF format = "staging" THEN Rename("meta") ELSE RenameTree)
      \/ plan[1] \in Files \ {"meta"} /\ ~Discarding /\ Rename(plan[1])
  <2>1. ASSUME NEW fs \in SUBSET Files, Unlink(fs) PROVE FALSE
    <3>1. disk'[e][g] = disk[e][g] \/ disk'[e][g] = Absent
      BY <2>1, UnlinkFiles
    <3> QED
      BY <3>1 DEF Absent
  <2>2. ASSUME disk' = Touch(disk, "sample", writer.rows) PROVE FALSE
    <3>1. writer.rows \in 0 .. MaxRows
      BY DEF TypeInv, TypeOK
    <3>2. DiskWrites
      BY <1>0, <2>2, <3>1, TouchWrites
    <3> QED
      BY <1>1, <3>2 DEF DiskWrites, Written
  <2>3. Files \in SUBSET Files /\ (plan[1] \in Files => {plan[1]} \in SUBSET Files)
    OBVIOUS
  <2>4. disk' # disk
    OBVIOUS
  <2> QED
    BY <1>2, <2>1, <2>2, <2>3, <2>4, PlanCases
<1>5. Finalizing
  <2>1. plan[1] = "publish" => plan[1] \notin Files \cup {"tree"}
    BY Names DEF Files
  <2> QED
    BY <1>3, <1>4, <2>1 DEF Finalizing, Discarding, PlanInv
<1>6. writer.started /\ OrderedPlan(plan) /\ disk[index]["sample"].at # "absent"
  BY <1>5 DEF PlanInv, DiskOrder, Finalizing
<1>7. ~PlanHas("sample") /\ format = "staging" => disk[index]["sample"].at # "partial"
  BY <1>5 DEF PlanInv
<1>8. disk[index]["sample"] \in FileStates
  BY <1>0 DEF Disks
<1>9. plan[1] # "sample" => ~PlanHas("sample")
  <2>1. \A i \in DOMAIN plan : plan[i] = "sample" => i = 1
    BY <1>6 DEF OrderedPlan
  <2> QED
    BY <2>1 DEF PlanHas
<1>10. CASE plan[1] = "publish" /\ format # "staging"
  <2>1. RenameTree
    BY <1>4, <1>10, Names DEF Files
  <2> QED
    <3>1. disk'[index]["sample"] = IF disk[index]["sample"].at = "partial"
                                   THEN [at |-> "final", by |-> disk[index]["sample"].by, n |-> disk[index]["sample"].n]
                                   ELSE disk[index]["sample"]
      BY <1>0, <2>1, RenameTreeFiles
    <3>2. disk[index]["sample"].at \in {"final", "partial"}
      BY <1>6, <1>8 DEF FileStates
    <3>3. disk'[e]["sample"].at = "final"
      BY <1>1, <3>1, <3>2
    <3> QED
      BY <1>1, <1>2, <1>5, <1>10, <3>3
<1>11. CASE \E s \in Files : /\ Rename(s)
                             /\ s # "sample" => disk[index]["sample"].at # "partial"
                             /\ s = "meta" => plan[1] = "publish"
  <2>1. PICK s \in Files : /\ Rename(s)
                           /\ s # "sample" => disk[index]["sample"].at # "partial"
                           /\ s = "meta" => plan[1] = "publish"
    BY <1>11
  <2>2. \A h \in Files : disk'[e][h] = IF h = s /\ disk[e][h].at = "partial"
                                       THEN [at |-> "final", by |-> disk[e][h].by, n |-> disk[e][h].n] ELSE disk[e][h]
    BY <1>1, <2>1, RenameFiles
  <2>3. g = s
    BY <2>2
  <2>4. disk[e]["sample"].at \in {"final", "partial"}
    BY <1>1, <1>6, <1>8 DEF FileStates
  <2>5. disk'[e]["sample"].at = "final"
    BY <1>0, <1>1, <2>1, <2>2, <2>4
  <2> QED
    BY <1>1, <1>2, <1>5, <2>1, <2>3, <2>5
<1>12. format # "staging" => plan[1] \notin Files \ {"meta"}
  BY <1>3, <1>6 DEF OrderedPlan
<1>13. CASE format = "staging"
  <2>1. CASE plan[1] = "publish"
    <3>1. plan[1] \notin Files
      BY <2>1, Names DEF Files
    <3> QED
      BY <1>0, <1>4, <1>7, <1>9, <1>11, <1>13, <2>1, <3>1, Names
  <2>2. CASE plan[1] # "publish"
    BY <1>4, <1>7, <1>9, <1>11, <1>13, <2>2
  <2> QED
    BY <2>1, <2>2
<1> QED
  BY <1>4, <1>10, <1>12, <1>13

\* A file goes away only when its episode is discarded.
LEMMA UnlinkStep ==
  ASSUME TypeInv, PlanInv, DiskMoves, ~RunPlan => DiskWrites, NEW e \in Episodes, NEW g \in Files,
         disk[e][g].at # "absent", disk'[e][g].at = "absent"
  PROVE  e = index /\ RunPlan /\ wpc = "plan" /\ Discarding
<1>0. disk \in Disks /\ index \in Episodes /\ plan \in Seq(Steps) /\ disk[e][g] \in FileStates
  BY DEF TypeInv, TypeOK, Disks
<1>1. e = index /\ disk' # disk
  BY DEF DiskMoves
<1>2. RunPlan
  <2>1. ASSUME DiskWrites PROVE FALSE
    BY <2>1 DEF DiskWrites, Written
  <2> QED
    BY <2>1
<1>3. wpc = "plan" /\ plan # <<>> /\ 1 \in DOMAIN plan
  BY <1>0, <1>2, PlanCases, TailItems
<1>4. ASSUME ~Discarding PROVE FALSE
  <2>1. plan[1] # "tree"
    BY <1>3, <1>4 DEF Discarding, PlanInv, Finalizing, OrderedPlan
  <2>2. ASSUME NEW s \in Files, Rename(s) PROVE FALSE
    <3>1. \/ disk'[e][g] = [at |-> "final", by |-> disk[e][g].by, n |-> disk[e][g].n]
          \/ disk'[e][g] = disk[e][g]
      BY <2>2, RenameFiles
    <3> QED
      BY <3>1
  <2>3. ASSUME RenameTree PROVE FALSE
    <3>1. \/ disk'[e][g] = [at |-> "final", by |-> disk[e][g].by, n |-> disk[e][g].n]
          \/ disk'[e][g] = disk[e][g]
      BY <2>3, RenameTreeFiles
    <3> QED
      BY <3>1
  <2>4. ASSUME disk' = Touch(disk, "sample", writer.rows) PROVE FALSE
    <3>1. writer.rows \in 0 .. MaxRows /\ "sample" \in Files
      BY Names DEF TypeInv, TypeOK
    <3>2. DiskWrites
      BY <2>4, <3>1, TouchWrites
    <3> QED
      BY <3>2 DEF DiskWrites, Written
  <2>5. "meta" \in Files
    BY Names
  <2> QED
    BY <1>1, <1>2, <1>4, <2>1, <2>2, <2>3, <2>4, <2>5, PlanCases
<1> QED
  BY <1>1, <1>2, <1>3, <1>4

\* What happens to the writer object.
LEMMA WriterMoves ==
  ASSUME TypeInv, CallOrder, ThreadOrder, PlanInv, [Next]_vars
  PROVE  \/ writer' = NewWriter /\ (NextEpisode \/ Restart \/ Crash)
         \/ /\ UNCHANGED <<format, session, index>>
            /\ writer'.started = writer.started \/ (RunBegin /\ writer' = Begun) \/ (PlanDone /\ ~writer'.started)
            /\ writer'.status = writer.status \/ (RunTerminal /\ writer.status = "none")
<1>0. writer \in Writers
  BY DEF TypeInv
<1>1. CASE CallerStep
  <2>1. NextEpisode => writer' = NewWriter
    BY DEF NextEpisode, FreshWriter
  <2> QED
    BY <1>1, <2>1, CallerKeeps
<1>2. CASE WorkerStep
  <2>0. UNCHANGED <<format, session, index>>
    BY <1>2, WorkerKeeps
  <2>1. CASE RunSample
    BY <2>0, <2>1, SampleStep
  <2>2. CASE RunRaw
    <3>1. writer' = writer \/ writer' = [writer EXCEPT !.lines = @ + 1] \/ writer' = Failed(writer)
      BY <2>2 DEF RunRaw, Skips
    <3> QED
      BY <1>0, <2>0, <3>1 DEF Failed, Writers
  <2>3. CASE RunBegin
    <3>1. batch # <<>> /\ Calls # <<>> /\ Calls[1].m = "begin" /\ wpc = "run"
      BY <2>3, SomeCalls DEF RunBegin, Runs
    <3>2. writer = NewWriter
      BY <3>1 DEF ThreadOrder
    <3>3. writer' = [writer EXCEPT !.started = TRUE] \/ writer' = [Failed(writer) EXCEPT !.beginFailed = TRUE]
      BY <2>3 DEF RunBegin
    <3> QED
      BY <1>0, <2>0, <2>3, <3>2, <3>3 DEF Begun, Failed, Writers
  <2>4. CASE EndBatch \/ RunBeginMeta
    <3>1. \/ writer' = writer \/ writer' = [writer EXCEPT !.error = TRUE]
          \/ writer' = [Failed(writer) EXCEPT !.beginFailed = TRUE]
      BY <2>4 DEF EndBatch, RunBeginMeta
    <3> QED
      BY <1>0, <2>0, <3>1 DEF Failed, Writers
  <2>5. CASE RunTerminal
    <3>1. writer' = writer \/ \E s : writer' = [writer EXCEPT !.status = s]
      BY <2>5 DEF RunTerminal
    <3>2. batch # <<>> /\ 1 \in DOMAIN Calls /\ IsTerminal(Calls[1]) /\ wpc = "run"
      BY <2>5, SomeCalls DEF RunTerminal
    <3>3. writer.status = "none"
      BY <3>2 DEF PlanInv, IsTerminal
    <3> QED
      BY <1>0, <2>0, <2>5, <3>1, <3>3 DEF Writers
  <2>6. CASE PlanDone
    BY <1>0, <2>0, <2>6 DEF PlanDone, Writers
  <2>7. CASE TakeBatch \/ RunSentinel \/ RunPlan \/ PlanFails
    <3>1. writer' = writer
      BY <2>7 DEF TakeBatch, RunSentinel, RunPlan, PlanFails
    <3> QED
      BY <2>0, <3>1
  <2> QED
    BY <1>2, <2>1, <2>2, <2>3, <2>4, <2>5, <2>6, <2>7 DEF WorkerStep
<1>3. CASE Crash \/ Restart
  BY <1>3 DEF Crash, Restart, FreshWriter
<1>4. CASE UNCHANGED vars
  BY <1>4 DEF vars, processVars, workerVars
<1> QED
  BY <1>1, <1>2, <1>3, <1>4 DEF Next

\* A start that goes on finds nothing of an earlier recording.
LEMMA BeginFresh ==
  ASSUME TypeInv, ThreadOrder, DiskOrder, RunBegin
  PROVE  /\ batch # <<>> /\ Calls[1].m = "begin" /\ wpc = "run" /\ writer = NewWriter /\ Fresh(index)
         /\ UNCHANGED <<queue, cpc, format, session, index, metaOf, indexed, plan>>
         /\ \/ /\ disk' = Touch(disk, "sample", 0) /\ writer' = Begun /\ wpc' = "beginMeta" /\ batch' = batch
               /\ \A f \in Files : disk[index][f].at = "absent"
            \/ disk' = disk /\ ~writer'.started /\ batch' = Tail(batch) /\ wpc' = wpc
<1>1. /\ batch # <<>> /\ Calls # <<>> /\ Calls[1].m = "begin" /\ wpc = "run"
      /\ UNCHANGED <<queue, cpc, format, session, index, metaOf, indexed, plan>>
  BY SomeCalls DEF RunBegin, Runs, callerVars, processVars
<1>2. writer = NewWriter /\ Fresh(index)
  BY <1>1 DEF ThreadOrder, DiskOrder
<1>3. ASSUME NEW allowed \in BeginOutcomes, allowed PROVE \A f \in Files : disk[index][f].at = "absent"
  <2>1. CASE format = "staging"
    <3>1. PathsFree
      BY <1>3, <2>1 DEF BeginOutcomes, StagingBegin
    <3>2. disk[index]["sample"].at = "absent"
      BY <1>2, <2>1 DEF Fresh
    <3>3. index \in Episodes /\ \A f \in Files : disk[index][f] \in FileStates
      BY DEF TypeInv, TypeOK, Disks
    <3>4. \A f \in Files : disk[index][f].at # "final"
      BY <3>2, <3>3 DEF DiskOrder
    <3>5. \A f \in Files : disk[index][f].at \in {"absent", "partial", "final"}
      BY <3>3 DEF FileStates
    <3> QED
      BY <3>1, <3>4, <3>5 DEF PathsFree, File
  <2>2. CASE format # "staging"
    BY <1>2, <2>2 DEF Fresh
  <2> QED
    BY <2>1, <2>2
<1>4. \/ disk' = Touch(disk, "sample", 0) /\ writer' = [writer EXCEPT !.started = TRUE] /\ wpc' = "beginMeta" /\ batch' = batch
         /\ \E allowed \in BeginOutcomes : allowed
      \/ disk' = disk /\ writer' = [Failed(writer) EXCEPT !.beginFailed = TRUE] /\ batch' = Tail(batch) /\ wpc' = wpc
  BY DEF RunBegin
<1>5. [Failed(writer) EXCEPT !.beginFailed = TRUE].started = FALSE
  BY <1>2 DEF NewWriter, Failed
<1> QED
  BY <1>1, <1>2, <1>3, <1>4, <1>5 DEF Begun

\* A call that starts an episode is put by a fresh caller, and is the first.
LEMMA BeginCall ==
  ASSUME TypeInv, CallOrder, ThreadOrder, [Next]_vars, CallOrder', ThreadOrder',
         Calls' # <<>>, Calls'[1].m = "begin", wpc' # "beginMeta"
  PROVE  /\ UNCHANGED <<disk, index, format>>
         /\ cpc = "new" \/ (Calls # <<>> /\ Calls[1].m = "begin" /\ wpc # "beginMeta")
<1>1. CASE CallerStep /\ ~NextEpisode
  <2>1. UNCHANGED <<disk, index, format, batch, wpc>>
    BY <1>1, CallerKeeps
  <2>2. CASE queue' = queue
    BY <2>1, <2>2 DEF Calls
  <2>3. ASSUME NEW x \in Items, queue' = Append(queue, x), x.m = "begin" => cpc = "new"
        PROVE  cpc = "new" \/ (Calls # <<>> /\ Calls[1].m = "begin" /\ wpc # "beginMeta")
    <3>1. /\ Len(Calls) \in Nat /\ \A i \in 1 .. Len(Calls) : Calls'[i] = Calls[i]
          /\ Calls'[Len(Calls) + 1] = x
      BY <2>1, <2>3, PutCall
    <3>2. CASE Len(Calls) = 0
      BY <2>3, <3>1, <3>2
    <3>3. CASE Len(Calls) # 0
      BY <2>1, <3>1, <3>3, SomeCalls
    <3> QED
      BY <3>2, <3>3
  <2>4. /\ Sentinel \in Items /\ Item("begin") \in Items /\ Item("sample") \in Items /\ Item("quality") \in Items
        /\ Terminal("discard", "none") \in Items
        /\ \A s \in {"COMPLETED", "ABORTED"} : Terminal("finalize", s) \in Items
    BY DEF Items, Sentinel, Item, Terminal, Methods
  <2>5. /\ Sentinel.m # "begin" /\ Item("sample").m # "begin" /\ Item("quality").m # "begin"
        /\ \A s : Terminal("finalize", s).m # "begin" /\ Terminal("discard", s).m # "begin"
    BY DEF Sentinel, Item, Terminal
  <2>6. queue' = queue \/ \E x \in Items : queue' = Append(queue, x) /\ (x.m = "begin" => cpc = "new")
    <3>1. ASSUME NEW x \in Items, x.m # "begin", queue' = Append(queue, x) \/ queue' = queue
          PROVE  queue' = queue \/ \E y \in Items : queue' = Append(queue, y) /\ (y.m = "begin" => cpc = "new")
      BY <3>1
    <3>2. CASE CallBegin
      BY <2>4, <3>2 DEF CallBegin
    <3>3. CASE CallAppend("sample") \/ CallAppend("quality")
      BY <2>4, <2>5, <3>1, <3>3 DEF CallAppend
    <3>4. CASE \E s \in {"COMPLETED", "ABORTED"} : CallTerminal(Terminal("finalize", s))
      BY <2>4, <2>5, <3>1, <3>4 DEF CallTerminal
    <3>5. CASE AskDiscard
      BY <2>4, <2>5, <3>1, <3>5 DEF AskDiscard, CallTerminal
    <3>6. CASE WaitTimeout \/ PutSentinel
      BY <2>4, <2>5, <3>1, <3>6 DEF WaitTimeout, PutSentinel
    <3>7. CASE TakeAnswer \/ CallClose \/ JoinWorker
      BY <3>7 DEF TakeAnswer, CallClose, JoinWorker, workerVars
    <3> QED
      BY <1>1, <3>2, <3>3, <3>4, <3>5, <3>6, <3>7 DEF CallerStep
  <2> QED
    BY <2>1, <2>2, <2>3, <2>6
<1>2. CASE NextEpisode \/ Restart \/ Crash
  <2>1. queue' = <<>> /\ batch' = <<>>
    BY <1>2 DEF NextEpisode, Restart, Crash, FreshWriter
  <2> QED
    BY <2>1 DEF Calls
<1>3. CASE WorkerStep
  <2>0. UNCHANGED <<index, format>>
    BY <1>3, WorkerKeeps
  <2>1. ASSUME batch # <<>>, batch' = Tail(batch), queue' = queue, cpc' = cpc PROVE FALSE
    BY <2>1, DoneOrder
  <2>2. cpc' = cpc
    BY <1>3, WorkerKeeps
  <2>3. CASE TakeBatch
    <3>1. batch = <<>> /\ disk' = disk /\ wpc = "get"
      BY <2>3 DEF TakeBatch, ThreadOrder, diskVars
    <3>2. Calls' = Calls
      BY <2>3, <3>1, TakeCalls
    <3> QED
      BY <2>0, <3>1, <3>2
  <2>4. CASE EndBatch
    BY <2>0, <2>4 DEF EndBatch, Calls, diskVars
  <2>5. CASE RunSentinel \/ RunRaw
    <3>1. batch # <<>> /\ batch' = Tail(batch) /\ queue' = queue
      BY <2>5 DEF RunSentinel, RunRaw, Skips, Runs
    <3> QED
      BY <2>1, <2>2, <3>1
  <2>6. CASE RunSample
    BY <2>1, <2>2, <2>6, SampleStep
  <2>7. CASE RunBegin \/ RunBeginMeta
    <3>1. batch # <<>> /\ batch' = Tail(batch) /\ queue' = queue
      BY <2>7 DEF RunBegin, Runs, RunBeginMeta, ThreadOrder
    <3> QED
      BY <2>1, <2>2, <3>1
  <2>8. CASE RunTerminal
    <3>1. batch # <<>> /\ queue' = queue /\ (batch' = Tail(batch) \/ batch' = batch)
      BY <2>8 DEF RunTerminal
    <3>2. batch' = batch => Calls' = Calls
      BY <3>1 DEF Calls
    <3>3. IsTerminal(Calls[1])
      BY <2>8, SomeCalls DEF RunTerminal
    <3> QED
      BY <2>1, <2>2, <3>1, <3>2, <3>3 DEF IsTerminal
  <2>9. CASE RunPlan
    <3>1. Calls' = Calls /\ IsTerminal(Calls[1])
      BY <2>9 DEF RunPlan, Calls, ThreadOrder
    <3> QED
      BY <3>1 DEF IsTerminal
  <2>10. CASE PlanFails \/ PlanDone
    <3>1. batch # <<>> /\ batch' = Tail(batch) /\ queue' = queue
      BY <2>10 DEF PlanFails, PlanDone, ThreadOrder
    <3> QED
      BY <2>1, <2>2, <3>1
  <2> QED
    BY <1>3, <2>3, <2>4, <2>5, <2>6, <2>7, <2>8, <2>9, <2>10 DEF WorkerStep
<1>4. CASE UNCHANGED vars
  BY <1>4 DEF vars, processVars, workerVars, diskVars, Calls
<1> QED
  BY <1>1, <1>2, <1>3, <1>4 DEF Next

\* Every step keeps the disk in order: nothing is final without its row file,
\* later indexes are fresh, and what a writer finds at its index is its own.
LEMMA DiskOrderStep ==
  ASSUME TypeInv, CallOrder, ThreadOrder, DiskOrder, PlanInv, [Next]_vars,
         TypeInv', CallOrder', ThreadOrder', DiskMoves, ~RunPlan => DiskWrites
  PROVE  DiskOrder'
<1>5. /\ disk \in Disks /\ disk' \in Disks /\ index \in Episodes /\ session \in 1 .. MaxSessions
      /\ index' \in Episodes /\ "sample" \in Files /\ "meta" \in Files /\ Episodes \subseteq Nat /\ 0 \in 0 .. MaxRows
  BY Names DEF TypeInv, TypeOK
<1>6. \A e \in Episodes, f \in Files : disk[e][f] \in FileStates
  BY <1>5 DEF Disks
<1>0. /\ index \in Episodes /\ session \in 1 .. MaxSessions
      /\ index' \in Episodes /\ "sample" \in Files /\ "meta" \in Files /\ Episodes \subseteq Nat
      /\ \A e \in Episodes, f \in Files : disk[e][f] \in FileStates
  BY <1>5, <1>6
<1>7. ~NewWriter.started /\ NewWriter.status = "none"
  BY DEF NewWriter
<1>1. ASSUME NEW e \in Episodes, NEW f \in Files, disk'[e][f].at = "absent" PROVE disk'[e][f].n = 0
  <2>1. disk'[e][f] = disk[e][f] \/ disk'[e][f] = Absent
    BY <1>1 DEF DiskMoves, Moves, Written
  <2> QED
    BY <1>1, <2>1 DEF DiskOrder, Absent
<1>2. ASSUME NEW e \in Episodes, NEW f \in Files, disk'[e][f].at = "final" PROVE disk'[e]["sample"].at = "final"
  <2>1. CASE disk[e][f].at = "final"
    <3>1. disk[e]["sample"].at = "final"
      BY <2>1 DEF DiskOrder
    <3> QED
      BY <1>0, <3>1 DEF DiskMoves, Moves, Written
  <2>2. CASE disk[e][f].at # "final"
    BY <1>2, <2>2, FinalStep
  <2> QED
    BY <2>1, <2>2
<1>3. CASE NextEpisode \/ Restart
  <2>1. /\ \A e \in Episodes : e >= index' => Fresh(e)
        /\ UNCHANGED <<format, disk>> /\ writer' = NewWriter /\ queue' = <<>> /\ batch' = <<>>
    BY <1>3, NextIndexFresh
  <2>2. \A e \in Episodes : e >= index' => Fresh(e)'
    BY <2>1 DEF Fresh
  <2>3. \A e \in Episodes : e > index' => e >= index'
    <3>1. index' \in Nat /\ \A e \in Episodes : e \in Nat
      BY <1>0
    <3> QED
      BY <3>1
  <2>4. Calls' = <<>> /\ ~writer'.started
    BY <2>1 DEF Calls, NewWriter
  <2>5. Fresh(index)' /\ \A e \in Episodes : e > index' => Fresh(e)'
    <3>1. index' >= index'
      BY <1>0
    <3>2. \A e \in Episodes : e = index' => Fresh(e)'
      BY <2>2, <3>1
    <3>3. Fresh(index)'
      BY <1>0, <3>2
    <3> QED
      BY <2>2, <2>3, <3>3
  <2> QED
    BY <1>1, <1>2, <2>4, <2>5 DEF DiskOrder
<1>4. CASE ~NextEpisode /\ ~Restart
  <2>0. UNCHANGED <<format, session, index>>
    BY <1>4, WriterMoves DEF Crash, processVars
  <2>1. \A e \in Episodes : e > index => Fresh(e)'
    <3>1. \A e \in Episodes, f \in Files : e > index => disk'[e][f] = disk[e][f]
      BY <1>0 DEF DiskMoves
    <3>2. \A e \in Episodes : e > index => Fresh(e)
      BY DEF DiskOrder
    <3> QED
      BY <1>0, <2>0, <3>1, <3>2 DEF Fresh
  <2>2. cpc' = "new" => Fresh(index)'
    <3> SUFFICES ASSUME cpc' = "new" PROVE Fresh(index)'
      OBVIOUS
    <3>1. cpc = "new"
      <4>1. CASE CallerStep
        BY <1>4, <4>1 DEF CallerStep, CallBegin, CallAppend, CallTerminal, AskDiscard, CallClose, TakeAnswer, WaitTimeout,
           PutSentinel, JoinWorker
      <4>2. CASE WorkerStep
        BY <4>2, WorkerKeeps
      <4> QED
        BY <1>4, <4>1, <4>2 DEF Next, Crash, vars, callerVars
    <3>2. wpc = "get" /\ Calls = <<>>
      BY <3>1 DEF ThreadOrder
    <3>3. disk' = disk
      <4>1. CASE WorkerStep
        <5>1. TakeBatch
          BY <3>2, <4>1, SampleStep, SomeCalls DEF WorkerStep, EndBatch, RunSentinel, RunBegin, Runs, RunBeginMeta, RunRaw, Skips,
             RunTerminal, RunPlan, PlanFails, PlanDone
        <5> QED
          BY <5>1 DEF TakeBatch, diskVars
      <4> QED
        BY <1>4, <4>1, CallerKeeps DEF Next, Crash, vars, diskVars
    <3> QED
      BY <2>0, <3>1, <3>3 DEF DiskOrder, Fresh
  <2>3. Calls' # <<>> /\ Calls'[1].m = "begin" /\ wpc' # "beginMeta" => Fresh(index)'
    <3> SUFFICES ASSUME Calls' # <<>>, Calls'[1].m = "begin", wpc' # "beginMeta" PROVE Fresh(index)'
      OBVIOUS
    <3>1. UNCHANGED <<disk, index, format>> /\ Fresh(index)
      BY BeginCall DEF DiskOrder
    <3> QED
      BY <3>1 DEF Fresh
  <2>4. ASSUME writer'.started, NEW f \in Files, disk'[index][f].at # "absent" PROVE disk'[index][f].by = session
    <3>1. CASE writer.started
      <4>1. disk[index][f].at # "absent" => disk[index][f].by = session
        BY <3>1 DEF DiskOrder
      <4> QED
        BY <1>0, <2>4, <4>1 DEF DiskMoves, Moves, Written, Absent
    <3>2. CASE ~writer.started
      <4>1. RunBegin /\ writer' = Begun
        BY <2>4, <3>2, <1>7, WriterMoves
      <4>2. disk[index][f].at = "absent"
        BY <2>4, <4>1, BeginFresh
      <4> QED
        BY <1>0, <2>4, <4>2 DEF DiskMoves, Moves, Written, Absent
    <3> QED
      BY <3>1, <3>2
  <2>5. ASSUME writer'.started, writer'.status # "discard" PROVE disk'[index]["sample"].at # "absent"
    <3>1. CASE writer.started
      <4>1. writer.status # "discard"
        BY <2>5, <1>7, WriterMoves
      <4>2. disk[index]["sample"].at # "absent"
        BY <3>1, <4>1 DEF DiskOrder
      <4> QED
        BY <1>0, <4>1, <4>2, UnlinkStep DEF Discarding
    <3>2. CASE ~writer.started
      <4>1. RunBegin /\ writer' = Begun
        BY <2>5, <3>2, <1>7, WriterMoves
      <4>2. disk' = Touch(disk, "sample", 0) /\ disk[index]["sample"].at = "absent"
        BY <1>0, <2>5, <4>1, BeginFresh
      <4>3. disk'[index]["sample"] = [at |-> "partial", by |-> session, n |-> 0]
        <5>1. Touch(disk, "sample", 0)[index]["sample"] = [at |-> "partial", by |-> session, n |-> 0]
          <6>1. \A e \in Episodes, g \in Files :
                  Touch(disk, "sample", 0)[e][g] =
                    IF e = index /\ g = "sample"
                    THEN IF disk[e][g].at = "absent" THEN [at |-> "partial", by |-> session, n |-> 0]
                         ELSE [at |-> disk[e][g].at, by |-> disk[e][g].by, n |-> 0]
                    ELSE disk[e][g]
            BY <1>5, TouchFiles
          <6> QED
            BY <1>5, <4>2, <6>1
        <5> QED
          BY <4>2, <5>1
      <4> QED
        BY <4>3
    <3> QED
      BY <3>1, <3>2
  <2> QED
    BY <1>1, <1>2, <2>0, <2>1, <2>2, <2>3, <2>4, <2>5 DEF DiskOrder
<1> QED
  BY <1>3, <1>4

\* Every step keeps the files of a visible episode from one recording.
LEMMA OneRecordingStep ==
  ASSUME TypeInv, ThreadOrder, DiskInv, PlanInv, [Next]_vars, DiskMoves, ~RunPlan => DiskWrites
  PROVE  OneRecording'
<1>1. SUFFICES ASSUME NEW e \in Episodes, NEW f \in Files,
                      disk'[e]["meta"].at = "final", disk'[e][f].at = "final"
               PROVE  disk'[e][f].by = disk'[e]["meta"].by
  BY DEF OneRecording
<1>2. "meta" \in Files
  BY Names
<1>3. ASSUME NEW g \in Files, disk'[e][g].at = "final"
      PROVE  disk[e][g].at \in {"partial", "final"} /\ disk'[e][g].by = disk[e][g].by
  BY <1>3 DEF DiskMoves, Moves, Written, Absent
<1>4. CASE disk[e]["meta"].at = "final"
  <2>1. ASSUME disk[e][f].at # "final" PROVE FALSE
    <3>1. e = index /\ RunPlan /\ Finalizing
      BY <1>1, <2>1, FinalStep DEF DiskInv
    <3>2. \A i \in DOMAIN plan : plan[i] = "index"
      BY <1>4, <3>1 DEF DiskInv, Settles, Finalizing
    <3>3. plan[1] = "index"
      BY <3>1, <3>2, PlanCases, TailItems DEF TypeInv
    <3>4. "index" \notin Files
      BY Names DEF Files
    <3>5. disk' = disk
      BY <3>1, <3>3, <3>4, PlanCases
    <3> QED
      BY <1>1, <2>1, <3>5
  <2> QED
    BY <1>1, <1>2, <1>3, <1>4, <2>1 DEF DiskInv, OneRecording
<1>5. CASE disk[e]["meta"].at # "final"
  <2>1. e = index /\ Finalizing
    BY <1>1, <1>2, <1>5, FinalStep DEF DiskInv
  <2>2. writer.started
    BY <2>1 DEF PlanInv
  <2>3. \A g \in Files : disk[e][g].at # "absent" => disk[e][g].by = session
    BY <2>1, <2>2 DEF DiskInv, DiskOrder
  <2> QED
    BY <1>1, <1>2, <1>3, <2>3
<1> QED
  BY <1>4, <1>5

\* A caller that has put its terminal call puts no row call again.
LEMMA CallerAhead ==
  ASSUME CallerStep, ~NextEpisode, cpc \notin {"new", "open"}
  PROVE  cpc' \notin {"new", "open"}
  BY DEF CallerStep, CallBegin, CallAppend, CallTerminal, AskDiscard, WaitTimeout, PutSentinel,
       TakeAnswer, CallClose, JoinWorker

\* A worker in the middle of a plan goes on with it.
LEMMA PlanWorker ==
  ASSUME ThreadOrder, WorkerStep, wpc = "plan"
  PROVE  RunPlan \/ PlanFails \/ PlanDone
<1>1. ~RunSample
  BY Zenon DEF RunSample, Skips, Runs
<1> QED
  BY <1>1 DEF WorkerStep, TakeBatch, EndBatch, RunSentinel, RunBegin, Runs, RunBeginMeta, RunRaw, Skips, RunTerminal

\* Every step leaves an episode with final metadata settled.
LEMMA SettlesStep ==
  ASSUME TypeInv, CallOrder, ThreadOrder, DiskInv, PlanInv, [Next]_vars, DiskMoves, ~RunPlan => DiskWrites
  PROVE  Settles'
<1>1. SUFFICES ASSUME NEW e \in Episodes, disk'[e]["meta"].at = "final"
               PROVE  /\ metaOf'[e] \in Statuses
                      /\ e = index' =>
                            /\ cpc' \notin {"new", "open"}
                            /\ IF wpc' = "plan" THEN Finalizing' /\ \A i \in DOMAIN plan' : plan'[i] = "index" ELSE Quiet'
  BY DEF Settles, Quiet
<1>2. "meta" \in Files /\ index \in Episodes /\ metaOf \in [Episodes -> {"none", "recording"} \cup Statuses]
      /\ plan \in Seq(Steps)
  BY Names DEF TypeInv, TypeOK
<1>3. CASE disk[e]["meta"].at # "final"
  <2>1. e = index /\ RunPlan /\ Finalizing /\ plan[1] = "publish"
    BY <1>1, <1>2, <1>3, FinalStep DEF DiskInv
  <2>2. UNCHANGED <<format, index, wpc, writer, metaOf, cpc>> /\ plan # <<>> /\ plan' = Tail(plan)
    BY <2>1, Names, PlanCases DEF Files, callerVars, processVars
  <2>3. /\ 1 \in DOMAIN plan /\ DOMAIN plan = 1 .. Len(plan) /\ Len(plan) \in Nat
        /\ \A i \in DOMAIN plan' : i \in Nat /\ i > 0 /\ i + 1 \in DOMAIN plan /\ plan'[i] = plan[i + 1]
    BY <1>2, <2>2, TailOfPlan
  <2>4. \A j \in DOMAIN plan : j > 1 => plan[j] = "index"
    BY <2>1, <2>3 DEF PlanInv, OrderedPlan
  <2>5. \A i \in DOMAIN plan' : plan'[i] = "index"
    <3> TAKE i \in DOMAIN plan'
    <3>1. i + 1 > 1 /\ i + 1 \in DOMAIN plan /\ plan'[i] = plan[i + 1]
      BY <2>3
    <3> QED
      BY <2>4, <3>1
  <2>6. ~PlanHas("meta")
    BY <2>1, <2>3, <2>4 DEF PlanHas
  <2>7. metaOf[index] \in Statuses /\ wpc = "plan"
    BY <2>1, <2>6 DEF PlanInv, Finalizing
  <2> QED
    BY <2>1, <2>2, <2>5, <2>7, PlanQuiet DEF Finalizing
<1>4. CASE disk[e]["meta"].at = "final"
  <2>0. /\ metaOf[e] \in Statuses
        /\ e = index => /\ cpc \notin {"new", "open"}
                        /\ IF wpc = "plan" THEN Finalizing /\ \A i \in DOMAIN plan : plan[i] = "index" ELSE Quiet
    BY <1>4 DEF DiskInv, Settles, Quiet
  <2>1. CASE NextEpisode \/ Restart
    <3>1. \A d \in Episodes : d >= index' => Fresh(d)
      BY <2>1, NextIndexFresh DEF DiskInv
    <3>2. metaOf' = metaOf /\ index' \in Episodes /\ index' \in Nat
      BY <2>1, Names, NextIndexFresh DEF DiskInv
    <3>3. Fresh(index')
      BY <3>1, <3>2
    <3>4. disk[index']["meta"].at = "absent"
      BY <1>2, <3>3 DEF Fresh
    <3> QED
      BY <1>4, <2>0, <3>2, <3>4
  <2>2. CASE Crash
    <3>1. Calls' = <<>> /\ cpc' = "down" /\ wpc' = "ended" /\ metaOf' = metaOf
      BY <2>2 DEF Crash, Calls, diskVars
    <3> QED
      BY <2>0, <3>1 DEF Quiet
  <2>3. CASE CallerStep /\ ~NextEpisode
    <3>1. UNCHANGED <<metaOf, index, wpc, plan, writer>>
      BY <2>3, CallerKeeps
    <3> QED
      BY <2>0, <2>3, <3>1, CallerAhead, CallerQuiet DEF Finalizing
  <2>4. CASE WorkerStep
    <3>1. index' = index /\ cpc' = cpc
      BY <2>4, WorkerKeeps
    <3>2. CASE e = index /\ wpc = "plan"
      <4>1. \A i \in DOMAIN plan : plan[i] = "index"
        BY <2>0, <3>2
      <4>2. CASE RunPlan
        <5>1. plan # <<>> /\ plan' = Tail(plan) /\ UNCHANGED <<wpc, writer>>
          BY <4>2, PlanCases
        <5>2. /\ 1 \in DOMAIN plan
              /\ \A i \in DOMAIN plan' : i + 1 \in DOMAIN plan /\ plan'[i] = plan[i + 1]
          BY <1>2, <5>1, TailOfPlan
        <5>3. plan[1] = "index"
          BY <4>1, <5>2
        <5>4. metaOf' = metaOf
          BY <4>2, <5>3, Names, PlanCases DEF Files
        <5> QED
          BY <2>0, <3>1, <3>2, <4>1, <5>1, <5>2, <5>4 DEF Finalizing
      <4>3. CASE PlanFails \/ PlanDone
        <5>1. metaOf' = metaOf
          BY <4>3 DEF PlanFails, PlanDone, diskVars
        <5> QED
          BY <2>0, <3>1, <3>2, <4>3, <5>1, PlanQuiet
      <4> QED
        BY <2>4, <3>2, <4>2, <4>3, PlanWorker
    <3>3. CASE e = index /\ wpc # "plan"
      BY <2>0, <2>4, <3>1, <3>3, WorkerQuiet
    <3>4. CASE e # index
      <4>1. metaOf'[e] = metaOf[e]
        <5>1. CASE RunPlan
          <6>1. metaOf' = metaOf \/ \E s : metaOf' = [metaOf EXCEPT ![index] = s]
            BY <5>1, PlanCases
          <6> QED
            BY <1>2, <3>4, <6>1
        <5>2. CASE RunBeginMeta
          <6>1. metaOf' = metaOf \/ metaOf' = [metaOf EXCEPT ![index] = "recording"]
            BY <5>2 DEF RunBeginMeta
          <6> QED
            BY <1>2, <3>4, <6>1
        <5>3. CASE RunSample
          BY <5>3, SampleStep
        <5>4. CASE TakeBatch \/ EndBatch \/ RunSentinel \/ RunBegin \/ RunRaw \/ RunTerminal \/ PlanFails \/ PlanDone
          BY <5>4 DEF TakeBatch, EndBatch, RunSentinel, RunBegin, RunRaw, RunTerminal, PlanFails, PlanDone, diskVars
        <5> QED
          BY <2>4, <5>1, <5>2, <5>3, <5>4 DEF WorkerStep
      <4> QED
        BY <2>0, <3>1, <3>4, <4>1
    <3> QED
      BY <3>2, <3>3, <3>4
  <2>5. CASE UNCHANGED vars
    <3>1. UNCHANGED <<metaOf, index, cpc, wpc, plan, writer, queue, batch>>
      BY <2>5 DEF vars, processVars, callerVars, workerVars, diskVars
    <3>2. Calls' = Calls
      BY <3>1 DEF Calls
    <3> QED
      BY <2>0, <3>1, <3>2 DEF Quiet, Finalizing
  <2> QED
    BY <2>1, <2>2, <2>3, <2>4, <2>5 DEF Next
<1> QED
  BY <1>3, <1>4

\* A terminal call is refused, or it is the plan of a discard, or that of a
\* finalize call with the status the metadata are to say.
LEMMA TerminalStep ==
  ASSUME TypeInv, RunTerminal
  PROVE  /\ batch # <<>> /\ wpc = "run" /\ IsTerminal(Calls[1]) /\ Calls[1] \in Items
         /\ UNCHANGED <<format, session, index, cpc, accepted, queue, stop, disk, metaOf, indexed, faults>>
         /\ \/ batch' = Tail(batch) /\ UNCHANGED <<wpc, plan, writer>>
            \/ /\ batch' = batch /\ wpc' = "plan" /\ plan' = DiscardPlan
               /\ writer' = [writer EXCEPT !.status = "discard"]
            \/ /\ batch' = batch /\ wpc' = "plan" /\ plan' = FinalizePlan
               /\ \E s \in {"COMPLETED", "ABORTED"} :
                     /\ writer' = [writer EXCEPT !.status = s]
                     /\ writer.started /\ ~writer.beginFailed
                     /\ s = "COMPLETED" => ~writer.error /\ writer.rows # 0
<1>1. /\ batch # <<>> /\ wpc = "run" /\ IsTerminal(Head(batch))
      /\ UNCHANGED <<format, session, index, cpc, accepted, queue, stop, disk, metaOf, indexed, faults>>
  BY DEF RunTerminal, processVars, callerVars, diskVars
<1>2. Head(batch) = Calls[1] /\ Calls[1] \in Items
  BY <1>1, SomeCalls, EmptySeq
<1> DEFINE call == Head(batch)
           status == FinalStatus(call.status)
           refused == ~writer.started \/ (status = "COMPLETED" /\ writer.rows = 0)
           discard == call.m = "discard" \/ writer.beginFailed
<1>3. /\ ~discard /\ refused => batch' = Tail(batch) /\ UNCHANGED <<wpc, plan, writer>>
      /\ ~(~discard /\ refused) =>
            /\ batch' = batch /\ wpc' = "plan" /\ plan' = IF discard THEN DiscardPlan ELSE FinalizePlan
            /\ writer' = [writer EXCEPT !.status = IF discard THEN "discard" ELSE status]
  BY DEF RunTerminal
<1>4. ~discard => call.status \in {"COMPLETED", "ABORTED"}
  BY <1>1, <1>2 DEF Items, IsTerminal
<1>5. /\ writer.error => status = "ABORTED"
      /\ ~writer.error => status = call.status
  BY DEF FinalStatus
<1> HIDE DEF status, call
<1> QED
  BY <1>1, <1>2, <1>3, <1>4, <1>5

\* The files an append_sample leaves at the index: the row file holds the rows
\* and every camera the frames the writer has counted.
LEMMA SampleContent ==
  ASSUME TypeInv, TypeInv', RunSample, ~writer.error, Content, Recording, wpc = "run"
  PROVE  /\ disk'[index]["sample"].at = "partial"
         /\ disk'[index]["sample"].n = IF format = "raw" THEN 0 ELSE writer'.rows
         /\ disk'[index]["meta"] = disk[index]["meta"]
         /\ \A r \in Roles : /\ disk'[index][r].n = writer'.frames[r]
                             /\ disk'[index][r].at = IF writer'.frames[r] = 0 THEN "absent" ELSE "partial"
<1> DEFINE d == WriteSample(writer'.rows, writer'.frames)
<1>1. writer'.rows \in 0 .. MaxRows /\ writer'.frames \in [Roles -> 0 .. MaxRows]
  BY DEF TypeInv, TypeOK
<1>2. /\ index \in Episodes /\ session \in 1 .. MaxSessions /\ writer.frames \in [Roles -> 0 .. MaxRows]
      /\ {"sample", "quality", "meta"} \subseteq Files /\ Roles \subseteq Files /\ 0 \in 0 .. MaxRows
      /\ \A r \in Roles : r \notin {"sample", "quality", "meta"}
  BY Names DEF TypeInv, TypeOK
<1>3. /\ d \in Disks
      /\ \A g \in Files :
            d[index][g] =
              LET n == IF g = "sample" THEN writer'.rows ELSE writer'.frames[g] IN
              IF (g = "sample" /\ format # "raw") \/ (g \in Roles /\ writer'.frames[g] > writer.frames[g])
              THEN IF disk[index][g].at = "absent" THEN [at |-> "partial", by |-> session, n |-> n]
                   ELSE [at |-> disk[index][g].at, by |-> disk[index][g].by, n |-> n]
              ELSE disk[index][g]
  BY <1>1, <1>2, SampleFiles
<1>4. /\ \A r \in Roles : writer'.frames[r] \in {writer.frames[r], writer.frames[r] + 1}
      /\ disk' = d \/ disk' = Touch(d, "quality", 0)
  BY SampleStep
<1> HIDE DEF d
<1>5. \A g \in Files \ {"quality"} : disk'[index][g] = d[index][g]
  <2>1. \A e \in Episodes, g \in Files :
        Touch(d, "quality", 0)[e][g] =
          IF e = index /\ g = "quality"
          THEN IF d[e][g].at = "absent" THEN [at |-> "partial", by |-> session, n |-> 0]
               ELSE [at |-> d[e][g].at, by |-> d[e][g].by, n |-> 0]
          ELSE d[e][g]
    BY <1>2, <1>3, TouchFiles
  <2> QED
    BY <1>2, <1>4, <2>1
<1>6. /\ disk[index]["sample"].at = "partial"
      /\ disk[index]["sample"].n = IF format = "raw" THEN 0 ELSE writer.rows
      /\ \A r \in Roles : /\ disk[index][r].n = writer.frames[r]
                          /\ disk[index][r].at = IF writer.frames[r] = 0 THEN "absent" ELSE "partial"
  BY DEF Content
<1>7. ASSUME NEW r \in Roles
      PROVE  /\ disk'[index][r].n = writer'.frames[r]
             /\ disk'[index][r].at = IF writer'.frames[r] = 0 THEN "absent" ELSE "partial"
  <2>1. disk'[index][r] = IF writer'.frames[r] > writer.frames[r]
                          THEN IF disk[index][r].at = "absent"
                               THEN [at |-> "partial", by |-> session, n |-> writer'.frames[r]]
                               ELSE [at |-> disk[index][r].at, by |-> disk[index][r].by, n |-> writer'.frames[r]]
                          ELSE disk[index][r]
    BY <1>2, <1>3, <1>5
  <2>2. writer'.frames[r] \in Nat /\ writer.frames[r] \in Nat /\ writer'.frames[r] \in {writer.frames[r], writer.frames[r] + 1}
    BY <1>1, <1>2, <1>4
  <2> QED
    BY <1>6, <2>1, <2>2
<1>8. disk'[index]["meta"] = disk[index]["meta"]
  BY <1>2, <1>3, <1>5
<1>9. disk'[index]["sample"].at = "partial" /\ disk'[index]["sample"].n = IF format = "raw" THEN 0 ELSE writer'.rows
  <2>1. disk'[index]["sample"] = IF format # "raw"
                                 THEN [at |-> "partial", by |-> disk[index]["sample"].by, n |-> writer'.rows]
                                 ELSE disk[index]["sample"]
    BY <1>2, <1>3, <1>5, <1>6
  <2> QED
    BY <1>6, <2>1
<1> QED
  BY <1>7, <1>8, <1>9

\* Every step of a recording writer keeps its counts and its files equal.
LEMMA ContentStep ==
  ASSUME TypeInv, CallOrder, ThreadOrder, DiskInv, PlanInv, [Next]_vars, TypeInv'
  PROVE  Content'
<1>0. /\ disk \in Disks /\ index \in Episodes /\ session \in 1 .. MaxSessions /\ writer \in Writers
      /\ {"sample", "quality", "meta"} \subseteq Files /\ Roles \subseteq Files /\ 0 \in 0 .. MaxRows
      /\ \A r \in Roles : r \notin {"sample", "quality", "meta"}
  BY Names DEF TypeInv, TypeOK
<1>1. SUFFICES ASSUME Recording' PROVE Content'
  BY DEF Content
<1>2. /\ UNCHANGED <<format, session, index>>
      /\ Recording \/ (RunBegin /\ writer' = Begun)
  <2>1. ~NewWriter.started
    BY DEF NewWriter
  <2> QED
    BY <1>1, <2>1, WriterMoves DEF Recording
<1>3. ASSUME Recording, UNCHANGED <<writer, wpc>>, \A g \in Files \ {"quality"} : disk'[index][g] = disk[index][g]
      PROVE  Content'
  BY <1>0, <1>2, <1>3 DEF Content, DiskInv
<1>4. CASE RunBegin
  <2>0. DiskOrder
    BY DEF DiskInv
  <2>1. CASE writer' = Begun /\ disk' = Touch(disk, "sample", 0) /\ wpc' = "beginMeta"
             /\ \A f \in Files : disk[index][f].at = "absent"
    <3>1. \A g \in Files : disk'[index][g] = IF g = "sample" THEN [at |-> "partial", by |-> session, n |-> 0] ELSE disk[index][g]
      <4>1. \A e \in Episodes, g \in Files :
            Touch(disk, "sample", 0)[e][g] =
              IF e = index /\ g = "sample"
              THEN IF disk[e][g].at = "absent" THEN [at |-> "partial", by |-> session, n |-> 0]
                   ELSE [at |-> disk[e][g].at, by |-> disk[e][g].by, n |-> 0]
              ELSE disk[e][g]
        BY <1>0, TouchFiles
      <4> QED
        BY <1>0, <2>1, <4>1
    <3>2. \A r \in Roles : writer'.frames[r] = 0
      BY <2>1 DEF Begun, NewWriter
    <3>3. writer'.rows = 0
      BY <2>1 DEF Begun, NewWriter
    <3>4. \A g \in Files : disk[index][g].n = 0
      BY <1>0, <2>0, <2>1 DEF DiskOrder
    <3> QED
      BY <1>0, <1>2, <2>1, <3>1, <3>2, <3>3, <3>4 DEF Content
  <2> QED
    BY <1>1, <1>4, <2>0, <2>1, BeginFresh DEF Recording
<1>5. ASSUME Recording, ~RunBegin PROVE Content'
  <2>1. CASE CallerStep /\ ~NextEpisode
    BY <1>3, <1>5, <2>1, CallerKeeps
  <2>2. CASE NextEpisode \/ Restart \/ Crash
    <3>1. ~writer'.started
      BY <2>2 DEF NextEpisode, Restart, Crash, FreshWriter, NewWriter
    <3> QED
      BY <1>1, <3>1 DEF Recording
  <2>3. CASE UNCHANGED vars
    BY <1>3, <1>5, <2>3 DEF vars, diskVars, workerVars
  <2>4. CASE TakeBatch \/ RunSentinel \/ PlanFails
    <3>1. UNCHANGED <<writer, disk>>
      BY <2>4 DEF TakeBatch, RunSentinel, PlanFails, diskVars
    <3>2. wpc # "beginMeta" /\ wpc' # "beginMeta"
      BY <2>4 DEF TakeBatch, RunSentinel, PlanFails
    <3> QED
      BY <1>0, <1>2, <1>5, <3>1, <3>2 DEF Content, DiskInv
  <2>5. CASE EndBatch
    <3>1. disk' = disk /\ wpc # "beginMeta" /\ wpc' # "beginMeta" /\ writer'.rows = writer.rows
          /\ writer'.frames = writer.frames /\ writer'.beginFailed = writer.beginFailed
      BY <1>0, <2>5 DEF EndBatch, diskVars, Writers
    <3> QED
      BY <1>0, <1>2, <1>5, <3>1 DEF Content, DiskInv
  <2>6. CASE RunBeginMeta
    <3>1. wpc = "beginMeta" /\ wpc' = "run"
      BY <2>6 DEF RunBeginMeta
    <3>2. writer = Begun /\ ~writer.beginFailed
      <4>1. writer = Begun
        BY <3>1, SomeCalls DEF ThreadOrder
      <4> QED
        BY <4>1 DEF Begun, NewWriter
    <3>3. CASE disk' = Touch(disk, "meta", 0) /\ writer' = writer
      <4>0. \A e \in Episodes, g \in Files :
            Touch(disk, "meta", 0)[e][g] =
              IF e = index /\ g = "meta"
              THEN IF disk[e][g].at = "absent" THEN [at |-> "partial", by |-> session, n |-> 0]
                   ELSE [at |-> disk[e][g].at, by |-> disk[e][g].by, n |-> 0]
              ELSE disk[e][g]
        BY <1>0, TouchFiles
      <4>1. \A g \in Files \ {"meta"} : disk'[index][g] = disk[index][g]
        BY <1>0, <3>3, <4>0
      <4>2. disk'[index]["meta"].at = "partial"
        <5>1. disk[index]["meta"].at = "absent"
          BY <1>5, <3>1 DEF Content, DiskInv
        <5>2. disk'[index]["meta"] = [at |-> "partial", by |-> session, n |-> 0]
          BY <1>0, <3>3, <4>0, <5>1
        <5> QED
          BY <5>2
      <4> QED
        BY <1>0, <1>2, <1>5, <3>1, <3>2, <3>3, <4>1, <4>2 DEF Content, DiskInv
    <3>4. CASE disk' = disk /\ writer' = [Failed(writer) EXCEPT !.beginFailed = TRUE]
      <4>1. writer'.beginFailed /\ writer'.rows = writer.rows /\ writer'.frames = writer.frames
        BY <1>0, <3>4 DEF Failed, Writers
      <4> QED
        BY <1>0, <1>2, <1>5, <3>1, <3>4, <4>1 DEF Content, DiskInv
    <3> QED
      BY <2>6, <3>3, <3>4 DEF RunBeginMeta
  <2>7. CASE RunSample
    <3>1. UNCHANGED wpc /\ writer'.beginFailed = writer.beginFailed
      BY <2>7, SampleStep
    <3>2. CASE writer.error
      BY <1>3, <1>5, <2>7, <3>1, <3>2, SampleStep
    <3>3. CASE ~writer.error
      <4>1. wpc = "run"
        BY <2>7, Zenon DEF RunSample, Skips, Runs
      <4>2. disk'[index]["meta"].at = (IF wpc' = "beginMeta" \/ writer'.beginFailed THEN "absent" ELSE "partial")
        BY <1>5, <2>7, <3>1, <3>3, <4>1, SampleContent DEF DiskInv, Content
      <4> QED
        BY <1>2, <1>5, <2>7, <3>3, <4>1, <4>2, SampleContent DEF DiskInv, Content
    <3> QED
      BY <3>2, <3>3
  <2>8. CASE RunRaw
    <3>1. wpc = "run" /\ wpc' = "run"
      BY <2>8 DEF RunRaw, Skips, Runs
    <3>2. disk' = disk \/ disk' = Touch(disk, "quality", 0)
      BY <2>8 DEF RunRaw, Skips
    <3>3. writer'.rows = writer.rows /\ writer'.frames = writer.frames /\ writer'.beginFailed = writer.beginFailed
      <4>1. writer' = writer \/ writer' = [writer EXCEPT !.lines = @ + 1] \/ writer' = Failed(writer)
        BY <2>8 DEF RunRaw, Skips
      <4> QED
        BY <1>0, <4>1 DEF Failed, Writers
    <3>4. \A g \in Files \ {"quality"} : disk'[index][g] = disk[index][g]
      <4>1. \A e \in Episodes, g \in Files :
            Touch(disk, "quality", 0)[e][g] =
              IF e = index /\ g = "quality"
              THEN IF disk[e][g].at = "absent" THEN [at |-> "partial", by |-> session, n |-> 0]
                   ELSE [at |-> disk[e][g].at, by |-> disk[e][g].by, n |-> 0]
              ELSE disk[e][g]
        BY <1>0, TouchFiles
      <4> QED
        BY <1>0, <3>2, <4>1
    <3> QED
      BY <1>0, <1>2, <1>5, <3>1, <3>3, <3>4 DEF Content, DiskInv
  <2>9. CASE RunTerminal
    <3>1. writer'.status = "none" => UNCHANGED <<writer, wpc, disk>>
      BY <1>0, <2>9, TerminalStep DEF Writers
    <3> QED
      BY <1>1, <1>3, <1>5, <3>1 DEF Recording
  <2>10. CASE RunPlan
    <3>1. wpc = "plan"
      BY <2>10 DEF RunPlan
    <3> QED
      BY <1>5, <3>1 DEF PlanInv, Recording
  <2>11. CASE PlanDone
    <3>1. wpc = "plan"
      BY <2>11 DEF PlanDone
    <3> QED
      BY <1>5, <3>1 DEF PlanInv, Recording
  <2>12. CASE WorkerStep
    BY <1>5, <2>4, <2>5, <2>6, <2>7, <2>8, <2>9, <2>10, <2>11, <2>12 DEF WorkerStep
  <2> QED
    BY <2>1, <2>2, <2>3, <2>12 DEF Next
<1> QED
  BY <1>2, <1>4, <1>5

\* A finalize call begins its plan with everything it wrote still partial.
LEMMA PlanBegins ==
  ASSUME TypeInv, CallOrder, ThreadOrder, DiskInv, PlanInv, AccountInv, RunTerminal
  PROVE  PlanInv'
<1>0. /\ index \in Episodes /\ writer \in Writers /\ format \in Formats /\ wpc = "run" /\ batch # <<>>
      /\ 1 \in DOMAIN Calls /\ IsTerminal(Calls[1])
      /\ UNCHANGED <<format, session, index, cpc, accepted, queue, stop, disk, metaOf, indexed, faults>>
  BY TerminalStep, SomeCalls, SMTT(60) DEF TypeInv, TypeOK
<1>1. cpc \notin {"new", "open"}
  BY <1>0 DEF CallOrder
<1>2. writer.status = "none"
  BY <1>0 DEF PlanInv, IsTerminal
<1>3. CASE batch' = Tail(batch) /\ UNCHANGED <<wpc, plan, writer>>
  <2>1. Quiet'
    BY <1>0, <1>3, DoneOrder DEF Quiet
  <2> QED
    BY <1>0, <1>1, <1>2, <1>3, <2>1 DEF PlanInv, Finalizing, Quiet
<1>4. CASE wpc' = "plan" /\ plan' = DiscardPlan /\ writer' = [writer EXCEPT !.status = "discard"]
  <2>1. writer'.status = "discard"
    BY <1>0, <1>4 DEF Writers
  <2>2. \A i \in DOMAIN plan' : plan'[i] \in Files \cup {"tree"}
    BY <1>4, DiscardShape
  <2> QED
    BY <1>0, <1>1, <1>4, <2>1, <2>2 DEF PlanInv, Finalizing
<1>5. ASSUME wpc' = "plan", plan' = FinalizePlan, NEW s \in {"COMPLETED", "ABORTED"},
             writer' = [writer EXCEPT !.status = s], writer.started, ~writer.beginFailed,
             s = "COMPLETED" => ~writer.error /\ writer.rows # 0
      PROVE  PlanInv'
  <2>1. /\ writer'.status = s /\ writer'.started /\ writer'.error = writer.error /\ writer'.rows = writer.rows
        /\ s # "none" /\ s # "discard" /\ writer.rows \in Nat
    BY <1>0, <1>5 DEF Writers
  <2>2. OrderedPlan(plan)'
    BY <1>0, <1>5, FinalizeShape DEF OrderedPlan
  <2>3. /\ PlanHas("meta")' /\ PlanHas("publish")' /\ (format = "raw" => PlanHas("frames")')
        /\ format = "staging" => \A f \in {"sample"} \cup Roles : PlanHas(f)'
    BY <1>0, <1>5, FinalizeShape DEF PlanHas
  <2>4. /\ disk[index]["sample"].n = IF format = "raw" THEN 0 ELSE writer.rows
        /\ disk[index]["meta"].at = "partial"
        /\ \A r \in Roles : /\ disk[index][r].n = writer.frames[r]
                            /\ disk[index][r].at = IF writer.frames[r] = 0 THEN "absent" ELSE "partial"
    BY <1>0, <1>2, <1>5 DEF DiskInv, Content, Recording
  <2>5. s = "COMPLETED" => \A r \in Roles : writer.frames[r] = writer.rows
    BY <1>5 DEF AccountInv
  <2>6. s = "COMPLETED" =>
          /\ ~writer'.error /\ writer'.rows > 0
          /\ \A r \in Roles : disk'[index'][r].n = writer'.rows /\ disk'[index'][r].at # "absent"
          /\ format' # "raw" => disk'[index']["sample"].n = writer'.rows
    BY <1>0, <1>5, <2>1, <2>4, <2>5
  <2> QED
    BY <1>0, <1>1, <1>5, <2>1, <2>2, <2>3, <2>4, <2>6 DEF PlanInv, Finalizing
<1> QED
  BY <1>3, <1>4, <1>5, TerminalStep

\* Every step of a plan leaves what the steps before it have done.
LEMMA PlanGoesOn ==
  ASSUME TypeInv, CallOrder, ThreadOrder, DiskInv, PlanInv, RunPlan
  PROVE  PlanInv'
<1>0. /\ index \in Episodes /\ writer \in Writers /\ plan \in Seq(Steps) /\ wpc = "plan" /\ plan # <<>>
      /\ plan' = Tail(plan) /\ UNCHANGED <<format, session, index, cpc, wpc, writer>>
      /\ {"sample", "quality", "meta"} \subseteq Files /\ Roles \subseteq Files
      /\ \A r \in Roles : r \notin {"sample", "quality", "meta", "publish", "index", "frames", "tree"}
      /\ metaOf \in [Episodes -> {"none", "recording"} \cup Statuses]
  BY PlanCases, Names DEF TypeInv, TypeOK, processVars, callerVars
<1>1. /\ 1 \in DOMAIN plan
      /\ \A i \in DOMAIN plan' : i \in Nat /\ i > 0 /\ i + 1 \in DOMAIN plan /\ plan'[i] = plan[i + 1]
      /\ \A i \in DOMAIN plan : i \in Nat /\ (i = 1 \/ (i - 1 \in DOMAIN plan' /\ plan'[i - 1] = plan[i]))
      /\ OrderedPlan(plan) => OrderedPlan(plan')
  BY <1>0, TailOfPlan
<1>2. cpc' \notin {"new", "open"} /\ writer'.status # "none"
  BY <1>0 DEF PlanInv
<1>3. CASE writer.status = "discard"
  BY <1>0, <1>1, <1>2, <1>3 DEF PlanInv, Finalizing
<1>4. CASE writer.status # "discard"
  <2>0. /\ Finalizing /\ Finalizing' /\ ~Discarding
        /\ writer.status \in {"COMPLETED", "ABORTED"}
    BY <1>0, <1>2, <1>4 DEF Finalizing, Discarding, Writers
  <2>1. /\ writer.started /\ OrderedPlan(plan)
        /\ \A f \in {"sample"} \cup Roles : format = "staging" /\ ~PlanHas(f) => disk[index][f].at # "partial"
        /\ format = "raw" /\ ~PlanHas("frames") => disk[index]["sample"].n = writer.rows
        /\ ~PlanHas("meta") => metaOf[index] \in Statuses /\ (metaOf[index] = "COMPLETED" => writer.status = "COMPLETED")
        /\ disk[index]["meta"].at = IF PlanHas("publish") THEN "partial" ELSE "final"
        /\ writer.status = "COMPLETED" =>
              /\ ~writer.error /\ writer.rows > 0
              /\ \A r \in Roles : disk[index][r].n = writer.rows /\ disk[index][r].at # "absent"
              /\ format # "raw" => disk[index]["sample"].n = writer.rows
    BY <2>0 DEF PlanInv
  <2>2. \A s : PlanHas(s) <=> plan[1] = s \/ PlanHas(s)'
    BY <1>1 DEF PlanHas
  <2>3. OrderedPlan(plan)'
    BY <1>0, <1>1, <2>1 DEF OrderedPlan
  <2>4. SUFFICES
          /\ \A f \in {"sample"} \cup Roles : format = "staging" /\ ~PlanHas(f)' => disk'[index][f].at # "partial"
          /\ format = "raw" /\ ~PlanHas("frames")' => disk'[index]["sample"].n = writer.rows
          /\ ~PlanHas("meta")' =>
               metaOf'[index] \in Statuses /\ (metaOf'[index] = "COMPLETED" => writer.status = "COMPLETED")
          /\ disk'[index]["meta"].at = IF PlanHas("publish")' THEN "partial" ELSE "final"
          /\ writer.status = "COMPLETED" =>
                /\ \A r \in Roles : disk'[index][r].n = writer.rows /\ disk'[index][r].at # "absent"
                /\ format # "raw" => disk'[index]["sample"].n = writer.rows
    BY <1>0, <1>2, <1>4, <2>0, <2>1, <2>3 DEF PlanInv
  <2>5. CASE plan[1] = "index" /\ UNCHANGED <<disk, metaOf>>
    BY <1>0, <2>1, <2>2, <2>5
  <2>6. CASE plan[1] = "frames" /\ disk' = Touch(disk, "sample", writer.rows) /\ metaOf' = metaOf
    <3>1. format = "raw"
      BY <1>1, <2>1, <2>6 DEF OrderedPlan
    <3>2. disk[index]["sample"].at # "absent"
      BY <1>0, <1>4, <2>1 DEF DiskInv, DiskOrder
    <3>3. \A e \in Episodes, g \in Files :
            Touch(disk, "sample", writer.rows)[e][g] =
              IF e = index /\ g = "sample"
              THEN IF disk[e][g].at = "absent" THEN [at |-> "partial", by |-> session, n |-> writer.rows]
                   ELSE [at |-> disk[e][g].at, by |-> disk[e][g].by, n |-> writer.rows]
              ELSE disk[e][g]
      <4>1. disk \in Disks /\ session \in 1 .. MaxSessions /\ writer.rows \in 0 .. MaxRows
        BY DEF TypeInv, TypeOK
      <4> QED
        BY <1>0, <4>1, TouchFiles
    <3>4. \A g \in Files : g # "sample" => disk'[index][g] = disk[index][g]
      BY <1>0, <2>6, <3>3
    <3>5. disk'[index]["sample"].n = writer.rows
      <4>1. disk'[index]["sample"] = [at |-> disk[index]["sample"].at, by |-> disk[index]["sample"].by, n |-> writer.rows]
        BY <1>0, <2>6, <3>2, <3>3
      <4> QED
        BY <4>1
    <3> QED
      BY <1>0, <2>1, <2>2, <2>6, <3>1, <3>4, <3>5, ZenonT(60)
  <2>7. CASE plan[1] = "meta" /\ disk' = disk /\ \E s \in MetaStatuses : metaOf' = [metaOf EXCEPT ![index] = s]
    <3>1. MetaStatuses \subseteq Statuses /\ ("COMPLETED" \in MetaStatuses => writer.status = "COMPLETED")
      BY <2>0 DEF MetaStatuses, Statuses
    <3>2. metaOf'[index] \in MetaStatuses
      BY <1>0, <2>7
    <3> QED
      BY <1>0, <2>1, <2>2, <2>7, <3>1, <3>2
  <2>8. ASSUME NEW s \in Files, s = "meta" => plan[1] = "publish", s # "meta" => plan[1] = s, Rename(s), metaOf' = metaOf
        PROVE  /\ \A g \in Files : /\ disk'[index][g].n = disk[index][g].n
                                   /\ disk'[index][g].at = "absent" <=> disk[index][g].at = "absent"
                                   /\ disk'[index][g].at = "partial" <=> disk[index][g].at = "partial" /\ g # s
                                   /\ disk'[index][g].at = "final" <=> disk[index][g].at = "final" \/ (disk[index][g].at = "partial" /\ g = s)
    <3>1. \A g \in Files : disk'[index][g] = IF g = s /\ disk[index][g].at = "partial"
                                             THEN [at |-> "final", by |-> disk[index][g].by, n |-> disk[index][g].n]
                                             ELSE disk[index][g]
      BY <1>0, <2>8, RenameFiles
    <3>2. ASSUME NEW g \in Files
          PROVE  \/ disk'[index][g] = disk[index][g] /\ ~(g = s /\ disk[index][g].at = "partial")
                 \/ /\ g = s /\ disk[index][g].at = "partial" /\ disk'[index][g].at = "final"
                    /\ disk'[index][g].n = disk[index][g].n
      <4>1. CASE g = s /\ disk[index][g].at = "partial"
        <5>1. disk'[index][g] = [at |-> "final", by |-> disk[index][g].by, n |-> disk[index][g].n]
          BY <3>1, <4>1
        <5> QED
          BY <4>1, <5>1
      <4>2. CASE ~(g = s /\ disk[index][g].at = "partial")
        BY <3>1, <4>2
      <4> QED
        BY <4>1, <4>2
    <3> QED
      BY <3>2
  <2>9. CASE plan[1] = "publish" /\ metaOf' = metaOf /\ (IF format = "staging" THEN Rename("meta") ELSE RenameTree)
    <3>1. ~PlanHas("publish")' /\ PlanHas("publish")
      <4>1. \A j \in DOMAIN plan : j > 1 => plan[j] = "index"
        BY <1>1, <2>1, <2>9 DEF OrderedPlan
      <4>2. \A i \in DOMAIN plan' : plan'[i] = "index"
        <5> TAKE i \in DOMAIN plan'
        <5>1. i + 1 > 1 /\ i + 1 \in DOMAIN plan /\ plan'[i] = plan[i + 1]
          BY <1>1
        <5> QED
          BY <4>1, <5>1
      <4>3. ~PlanHas("publish")'
        BY <4>2 DEF PlanHas
      <4> QED
        BY <2>2, <2>9, <4>3
    <3>2. CASE format = "staging"
      <4>1. \A g \in Files : /\ disk'[index][g].n = disk[index][g].n
                             /\ disk'[index][g].at = "absent" <=> disk[index][g].at = "absent"
                             /\ disk'[index][g].at = "partial" <=> disk[index][g].at = "partial" /\ g # "meta"
                             /\ disk'[index][g].at = "final" <=> disk[index][g].at = "final" \/ (disk[index][g].at = "partial" /\ g = "meta")
        BY <1>0, <2>8, <2>9, <3>2
      <4> QED
        BY <1>0, <2>1, <2>2, <2>9, <3>1, <3>2, <4>1, ZenonT(60)
    <3>3. CASE format # "staging"
      <4>1. \A g \in Files : disk'[index][g] = IF disk[index][g].at = "partial"
                                               THEN [at |-> "final", by |-> disk[index][g].by, n |-> disk[index][g].n]
                                               ELSE disk[index][g]
        BY <1>0, <2>9, <3>3, RenameTreeFiles
      <4>2. \A g \in Files : /\ disk'[index][g].n = disk[index][g].n
                             /\ disk'[index][g].at = "absent" <=> disk[index][g].at = "absent"
                             /\ disk[index][g].at = "partial" => disk'[index][g].at = "final"
        <5> TAKE g \in Files
        <5>1. CASE disk[index][g].at = "partial"
          <6>1. disk'[index][g] = [at |-> "final", by |-> disk[index][g].by, n |-> disk[index][g].n]
            BY <4>1, <5>1
          <6> QED
            BY <5>1, <6>1
        <5>2. CASE disk[index][g].at # "partial"
          BY <4>1, <5>2
        <5> QED
          BY <5>1, <5>2
      <4> QED
        BY <1>0, <2>1, <2>2, <2>9, <3>1, <3>3, <4>2
    <3> QED
      BY <3>2, <3>3
  <2>10. CASE plan[1] \in Files \ {"meta"} /\ Rename(plan[1]) /\ metaOf' = metaOf
    <3>1. \A g \in Files : /\ disk'[index][g].n = disk[index][g].n
                           /\ disk'[index][g].at = "absent" <=> disk[index][g].at = "absent"
                           /\ disk'[index][g].at = "partial" <=> disk[index][g].at = "partial" /\ g # plan[1]
                           /\ disk'[index][g].at = "final" <=> disk[index][g].at = "final" \/ (disk[index][g].at = "partial" /\ g = plan[1])
      BY <2>8, <2>10
    <3>2. plan[1] \notin {"publish", "frames", "meta"}
      BY <2>10, Names DEF Files
    <3> QED
      BY <1>0, <2>1, <2>2, <2>10, <3>1, <3>2, ZenonT(60)
  <2>11. plan[1] # "tree"
    BY <1>1, <2>1 DEF OrderedPlan
  <2> QED
    BY <2>0, <2>5, <2>6, <2>7, <2>9, <2>10, <2>11, PlanCases
<1> QED
  BY <1>3, <1>4

\* Every step keeps what the plan says of the disk.
LEMMA PlanStepInv ==
  ASSUME TypeInv, CallOrder, ThreadOrder, DiskInv, PlanInv, AccountInv, [Next]_vars
  PROVE  PlanInv'
<1>1. CASE RunTerminal
  BY <1>1, PlanBegins
<1>2. CASE RunPlan
  BY <1>2, PlanGoesOn
<1>3. CASE CallerStep /\ ~NextEpisode
  <2>1. UNCHANGED <<format, session, index, wpc, plan, writer, disk, metaOf>>
    BY <1>3, CallerKeeps
  <2>2. writer.status # "none" => cpc' \notin {"new", "open"} /\ (wpc # "plan" => Quiet')
    BY <1>3, CallerAhead, CallerQuiet DEF PlanInv, Quiet
  <2> QED
    BY <2>1, <2>2 DEF PlanInv, Finalizing, PlanHas, OrderedPlan, Quiet
<1>4. CASE NextEpisode \/ Restart \/ Crash
  <2>1. writer'.status = "none" /\ wpc' # "plan"
    BY <1>4 DEF NextEpisode, Restart, Crash, FreshWriter, NewWriter
  <2> QED
    BY <2>1 DEF PlanInv, Finalizing
<1>5. CASE WorkerStep /\ ~RunTerminal /\ wpc # "plan"
  <2>1. wpc' # "plan" /\ cpc' = cpc
    <3>1. RunSample => wpc' = wpc
      BY SampleStep
    <3> QED
      BY <1>5, <3>1, WorkerKeeps DEF WorkerStep, TakeBatch, EndBatch, RunSentinel, RunBegin, Runs, RunBeginMeta, RunRaw, Skips,
         RunPlan, PlanFails, PlanDone
  <2>2. writer'.status = writer.status
    <3>1. CASE NextEpisode \/ Restart \/ Crash
      <4>1. cpc' # cpc \/ index' # index
        BY <3>1 DEF NextEpisode, Restart, Crash, FreshWriter
      <4> QED
        BY <1>5, <4>1, WorkerKeeps
    <3> QED
      BY <1>5, <3>1, WriterMoves
  <2>3. writer.status # "none" => Quiet'
    BY <1>5, WorkerQuiet DEF PlanInv, Quiet
  <2> QED
    BY <2>1, <2>2, <2>3 DEF PlanInv, Finalizing, Quiet
<1>6. CASE PlanFails \/ PlanDone
  <2>1. wpc = "plan"
    BY <1>6 DEF PlanFails, PlanDone
  <2>2. Quiet' /\ cpc' \notin {"new", "open"} /\ wpc' # "plan"
    BY <1>6, <2>1, PlanQuiet
  <2> QED
    BY <2>2 DEF PlanInv, Finalizing, Quiet
<1>7. CASE UNCHANGED vars
  <2>1. UNCHANGED <<format, session, index, cpc, wpc, plan, writer, disk, metaOf>> /\ Calls' = Calls
    BY <1>7 DEF vars, processVars, callerVars, workerVars, diskVars, Calls
  <2> QED
    BY <2>1 DEF PlanInv, Finalizing, PlanHas, OrderedPlan
<1> QED
  BY <1>1, <1>2, <1>3, <1>4, <1>5, <1>6, <1>7, PlanWorker DEF Next

-----------------------------------------------------------------------------
(* The inductive invariant *)

\* The first state of a recorder satisfies the invariant.
LEMMA WriterInit ==
  ASSUME Init
  PROVE  WriterInv
<1>0. /\ disk = [e \in Episodes |-> [f \in Files |-> Absent]] /\ queue = <<>> /\ batch = <<>> /\ plan = <<>>
      /\ writer = NewWriter /\ cpc = "new" /\ wpc = "get" /\ ~stop /\ accepted = 0 /\ faults = 0 /\ indexed = {}
      /\ index = 0 /\ session = 1 /\ format \in Formats /\ answer = "none" /\ stop \in BOOLEAN
      /\ metaOf = [e \in Episodes |-> "none"]
  BY DEF Init
<1>1. /\ Calls = <<>> /\ DOMAIN Calls = {} /\ Len(queue) = 0 /\ Len(batch) = 0
  BY <1>0 DEF Calls
<1>2. /\ Absent \in FileStates /\ Absent.at = "absent" /\ Absent.n = 0
      /\ \A e \in Episodes, f \in Files : disk[e][f] = Absent
  BY <1>0, Names DEF Absent, FileStates
<1>3. /\ NewWriter \in Writers /\ ~NewWriter.started /\ ~NewWriter.error /\ NewWriter.rows = 0 /\ NewWriter.lines = 0
      /\ NewWriter.status = "none" /\ \A r \in Roles : NewWriter.frames[r] = 0
  BY DEF NewWriter, Writers
<1>4. NewWriter.rows \in 0 .. MaxRows /\ NewWriter.frames \in [Roles -> 0 .. MaxRows]
  BY Names DEF NewWriter
<1>5. TypeInv
  <2>1. disk \in Disks
    BY <1>0, <1>2 DEF Disks
  <2>2. TypeOK
    BY <1>0, <1>1, <1>2, <1>4, Names DEF TypeOK, FileStates
  <2>3. queue \in Seq(Items) /\ batch \in Seq(Items) /\ plan \in Seq(Steps)
    BY <1>0
  <2> QED
    BY <1>0, <1>3, <2>1, <2>2, <2>3 DEF TypeInv
<1>6. CallOrder /\ ThreadOrder /\ PlanInv
  BY <1>0, <1>1, <1>3 DEF CallOrder, ThreadOrder, PlanInv, Finalizing
<1>7. DiskInv
  <2>1. \A e \in Episodes, f \in Files : disk[e][f].at = "absent" /\ disk[e][f].n = 0
    BY <1>2
  <2>2. \A e \in Episodes : Fresh(e)
    BY <2>1, Names DEF Fresh
  <2>3. "meta" \in Files /\ index \in Episodes
    BY <1>0, Names
  <2> QED
    BY <1>0, <1>3, <2>1, <2>2, <2>3 DEF DiskInv, DiskOrder, Settles, Content, Recording, OneRecording
<1>8. AccountInv
  <2>1. Appends(Calls) = {}
    BY <1>1 DEF Appends
  <2>2. Kept = 0
    BY <1>0, <1>3, <2>1, FS_EmptySet DEF Kept
  <2> QED
    BY <1>0, <1>3, <2>2 DEF AccountInv
<1> QED
  BY <1>5, <1>6, <1>7, <1>8 DEF WriterInv

\* Every step keeps the invariant.
LEMMA WriterStep ==
  ASSUME WriterInv, [Next]_vars
  PROVE  WriterInv' /\ DiskMoves /\ (~RunPlan => DiskWrites)
<1>1. CallOrder' /\ ThreadOrder' /\ AccountInv'
  BY CallOrderStep, AccountStep DEF WriterInv
<1>2. TypeInv' /\ DiskMoves /\ (~RunPlan => DiskWrites)
  BY <1>1, TypeStep DEF WriterInv
<1>3. DiskInv'
  BY <1>1, <1>2, DiskOrderStep, SettlesStep, ContentStep, OneRecordingStep DEF WriterInv, DiskInv
<1>4. PlanInv'
  BY PlanStepInv DEF WriterInv
<1> QED
  BY <1>1, <1>2, <1>3, <1>4 DEF WriterInv

\* The inductive invariant holds throughout.
LEMMA WriterInvariant == Spec => []WriterInv
<1>1. Init => WriterInv
  BY WriterInit
<1>2. WriterInv /\ [Next]_vars => WriterInv'
  BY WriterStep
<1> QED
  BY <1>1, <1>2, PTL DEF Spec

\* The state of the caller, the queue, the worker and every file of the disk
\* stays within its type, so no counter passes its bound.
THEOREM TypeCorrect == Spec => []TypeOK
<1>1. WriterInv => TypeOK
  BY DEF WriterInv, TypeInv
<1> QED
  BY <1>1, WriterInvariant, PTL

\* What an episode claims is what is on disk: its files come from one
\* recording, every call the writer accepted for an episode it completes is a
\* row or a line of the quality file, the writer fails only after a fault, and a
\* settled episode has no thread left.
THEOREM AccountedCorrect == Spec => []EpisodeIsAccounted
<1>1. ASSUME WriterInv PROVE EpisodeIsAccounted
  <2>1. TypeOK /\ OneRecording
    BY <1>1 DEF WriterInv, TypeInv, DiskInv
  <2>2. CompletedAccounts
    <3> SUFFICES ASSUME wpc = "plan", writer.status = "COMPLETED" PROVE accepted = writer.rows + writer.lines
      BY DEF CompletedAccounts
    <3>1. ~writer.error
      BY <1>1 DEF WriterInv, PlanInv, Finalizing
    <3>2. Calls # <<>> /\ 1 \in DOMAIN Calls /\ IsTerminal(Calls[1]) /\ DOMAIN Calls = 1 .. Len(Calls)
      BY <1>1, PlanQuiet, SomeCalls DEF WriterInv
    <3>3. \A i \in DOMAIN Calls : Calls[i].m \notin {"sample", "quality"}
      <4>1. \A j \in DOMAIN Calls : j > 1 => Calls[j].m = "stop"
        BY <1>1, <3>2 DEF WriterInv, CallOrder
      <4>2. \A j \in DOMAIN Calls : j = 1 \/ j > 1
        BY <3>2
      <4> QED
        BY <3>2, <4>1, <4>2 DEF IsTerminal
    <3>4. Appends(Calls) = {}
      BY <3>3 DEF Appends
    <3>5. Kept = accepted
      BY <1>1, <3>1 DEF WriterInv, AccountInv
    <3>6. writer.rows \in Nat /\ writer.lines \in Nat
      BY <1>1 DEF WriterInv, TypeInv, Writers
    <3> QED
      BY <3>4, <3>5, <3>6, FS_EmptySet DEF Kept
  <2>3. OverwrittenFramesCostRows
    BY <1>1 DEF WriterInv, AccountInv, OverwrittenFramesCostRows
  <2>4. SettledIsDrained
    <3> SUFFICES ASSUME cpc = "settled" PROVE wpc = "ended" /\ queue = <<>> /\ plan = <<>>
      BY DEF SettledIsDrained
    <3>1. wpc = "ended" /\ Calls = <<>> /\ plan = <<>>
      BY <1>1 DEF WriterInv, ThreadOrder
    <3> QED
      BY <1>1, <3>1, SomeCalls DEF WriterInv
  <2> QED
    BY <2>1, <2>2, <2>3, <2>4 DEF EpisodeIsAccounted
<1> QED
  BY <1>1, WriterInvariant, PTL

-----------------------------------------------------------------------------
(* The writers implement the store *)

\* metaOf and the index are written by the worker, at its episode.
LEMMA MetadataMoves ==
  ASSUME TypeInv, [Next]_vars
  PROVE  /\ \A e \in Episodes : metaOf'[e] = metaOf[e] \/ (e = index /\ WorkerStep)
         /\ indexed' = indexed \/ (RunPlan /\ plan[1] = "index" /\ indexed' = indexed \cup {index} /\ UNCHANGED <<disk, metaOf>>)
<1>1. metaOf \in [Episodes -> {"none", "recording"} \cup Statuses] /\ index \in Episodes
  BY DEF TypeInv, TypeOK
<1>2. CASE CallerStep \/ Crash \/ Restart \/ UNCHANGED vars
  <2>1. UNCHANGED <<metaOf, indexed>>
    <3>1. CASE NextEpisode \/ Crash \/ Restart \/ UNCHANGED vars
      BY <3>1 DEF NextEpisode, Crash, Restart, vars, diskVars
    <3> QED
      BY <1>2, <3>1, CallerKeeps
  <2> QED
    BY <2>1
<1>3. CASE WorkerStep
  <2>1. CASE RunPlan
    <3>1. /\ metaOf' = metaOf \/ \E s : metaOf' = [metaOf EXCEPT ![index] = s]
          /\ \/ indexed' = indexed
             \/ plan[1] = "index" /\ indexed' = indexed \cup {index} /\ UNCHANGED <<disk, metaOf>>
      BY <2>1, PlanCases
    <3> QED
      BY <1>1, <1>3, <2>1, <3>1
  <2>2. CASE RunBeginMeta
    <3>1. indexed' = indexed /\ (metaOf' = metaOf \/ metaOf' = [metaOf EXCEPT ![index] = "recording"])
      BY <2>2 DEF RunBeginMeta
    <3> QED
      BY <1>1, <1>3, <3>1
  <2>3. CASE RunSample
    BY <2>3, SampleStep
  <2>4. CASE TakeBatch \/ EndBatch \/ RunSentinel \/ RunBegin \/ RunRaw \/ RunTerminal \/ PlanFails \/ PlanDone
    BY <2>4 DEF TakeBatch, EndBatch, RunSentinel, RunBegin, RunRaw, RunTerminal, PlanFails, PlanDone, diskVars
  <2> QED
    BY <1>3, <2>1, <2>2, <2>3, <2>4 DEF WorkerStep
<1> QED
  BY <1>2, <1>3 DEF Next

\* An episode whose metadata are final is left alone, file by file.
LEMMA VisibleStays ==
  ASSUME WriterInv, [Next]_vars, NEW e \in Episodes, disk[e]["meta"].at = "final"
  PROVE  metaOf'[e] = metaOf[e] /\ \A f \in Files : disk'[e][f] = disk[e][f]
<1>1. TypeInv /\ CallOrder /\ ThreadOrder /\ DiskMoves
  BY WriterStep DEF WriterInv
<1>2. CASE e # index
  BY <1>1, <1>2, MetadataMoves DEF DiskMoves
<1>3. CASE e = index
  <2>1. IF wpc = "plan" THEN Finalizing /\ \A i \in DOMAIN plan : plan[i] = "index" ELSE Quiet
    BY <1>3 DEF WriterInv, DiskInv, Settles, Quiet
  <2>2. CASE WorkerStep /\ wpc = "plan"
    <3>1. CASE RunPlan
      <4>1. plan[1] = "index"
        BY <1>1, <2>1, <2>2, <3>1, PlanCases, TailItems DEF TypeInv
      <4> QED
        BY <1>1, <3>1, <4>1, PlanCases, Names DEF Files
    <3>2. CASE PlanFails \/ PlanDone
      BY <3>2 DEF PlanFails, PlanDone, diskVars
    <3> QED
      BY <1>1, <2>2, <3>1, <3>2, PlanWorker
  <2>3. CASE WorkerStep /\ wpc # "plan"
    BY <1>1, <2>1, <2>3, WorkerQuiet
  <2>4. CASE ~WorkerStep
    <3>1. UNCHANGED disk
      <4>1. CASE NextEpisode \/ Crash \/ Restart \/ UNCHANGED vars
        BY <4>1 DEF NextEpisode, Crash, Restart, vars, diskVars
      <4> QED
        BY <2>4, <4>1, CallerKeeps DEF Next
    <3> QED
      BY <1>1, <2>4, <3>1, MetadataMoves
  <2> QED
    BY <2>2, <2>3, <2>4
<1> QED
  BY <1>2, <1>3

\* What a reader sees only changes when a finalize call publishes.
LEMMA PublishedStays ==
  ASSUME WriterInv, [Next]_vars, ~(RunPlan /\ Finalizing /\ plan[1] = "publish")
  PROVE  PublishedOf' = PublishedOf
<1>1. TypeInv /\ DiskOrder /\ PlanInv /\ DiskMoves /\ (~RunPlan => DiskWrites) /\ "meta" \in Files /\ "sample" \in Files
      /\ Roles \subseteq Files
  BY WriterStep, Names DEF WriterInv, DiskInv
<1>2. ASSUME NEW e \in Episodes PROVE PublishedOf'[e] = PublishedOf[e]
  <2>1. CASE disk[e]["meta"].at = "final"
    <3>1. metaOf'[e] = metaOf[e] /\ \A f \in Files : disk'[e][f] = disk[e][f]
      BY <2>1, VisibleStays
    <3>2. Visible(e)' = Visible(e)
      BY <1>1, <3>1 DEF Visible
    <3> QED
      BY <1>1, <2>1, <3>1, <3>2 DEF PublishedOf
  <2>2. CASE disk[e]["meta"].at # "final"
    <3>1. disk'[e]["meta"].at # "final"
      BY <1>1, <2>2, FinalStep
    <3> QED
      BY <2>2, <3>1 DEF PublishedOf
  <2> QED
    BY <2>1, <2>2
<1> QED
  BY <1>2 DEF PublishedOf

\* A finalize call publishes its episode as a whole: a completed one with all
\* its rows, and as many frames of each camera.
LEMMA PublishWhole ==
  ASSUME WriterInv, WriterInv', [Next]_vars, RunPlan, Finalizing, plan[1] = "publish"
  PROVE  Store!Publish(index)
<1>0. /\ TypeInv /\ PlanInv /\ TypeInv' /\ index \in Episodes /\ plan \in Seq(Steps) /\ disk' \in Disks
      /\ "meta" \in Files /\ "sample" \in Files /\ Roles \subseteq Files /\ writer \in Writers
      /\ \A r \in Roles : r \notin {"sample", "quality", "meta", "publish", "index", "frames", "tree"}
  BY Names DEF WriterInv, TypeInv, TypeOK
<1>1. /\ UNCHANGED <<metaOf, indexed, index, format, wpc>> /\ plan # <<>> /\ plan' = Tail(plan)
      /\ IF format = "staging" THEN Rename("meta") ELSE RenameTree
  BY <1>0, PlanCases, Names DEF Files, processVars
<1>2. 1 \in DOMAIN plan /\ PlanHas("publish") /\ DOMAIN plan = 1 .. Len(plan)
  BY <1>0, <1>1, TailOfPlan DEF PlanHas
<1>3. disk[index]["meta"].at = "partial" /\ OrderedPlan(plan)
  BY <1>0, <1>2 DEF PlanInv
<1>4. \A i \in DOMAIN plan : plan[i] \in {"publish", "index"}
  <2>1. \A i \in DOMAIN plan : i > 1 => plan[i] = "index"
    BY <1>2, <1>3 DEF OrderedPlan
  <2>2. \A i \in DOMAIN plan : i = 1 \/ i > 1
    BY <1>2
  <2> QED
    BY <2>1, <2>2
<1>5. ~PlanHas("meta") /\ ~PlanHas("frames") /\ ~PlanHas("sample") /\ \A r \in Roles : ~PlanHas(r)
  BY <1>0, <1>4 DEF PlanHas
<1>6. /\ metaOf[index] \in Statuses
      /\ metaOf[index] = "COMPLETED" => writer.status = "COMPLETED"
      /\ format = "staging" => \A r \in Roles : disk[index][r].at # "partial"
      /\ format = "raw" => disk[index]["sample"].n = writer.rows
      /\ writer.status = "COMPLETED" =>
            /\ writer.rows > 0
            /\ \A r \in Roles : disk[index][r].n = writer.rows /\ disk[index][r].at # "absent"
            /\ format # "raw" => disk[index]["sample"].n = writer.rows
  BY <1>0, <1>5 DEF PlanInv
<1>7. /\ disk'[index]["meta"].at = "final"
      /\ \A g \in Files : disk'[index][g].n = disk[index][g].n
      /\ \A r \in Roles : disk[index][r].at # "absent" => disk'[index][r].at = "final"
  <2>1. \A g \in Files : disk[index][g] \in FileStates
    BY <1>0 DEF TypeInv, Disks
  <2>2. \A g \in Files : \/ disk'[index][g] = disk[index][g]
                         \/ disk'[index][g] = [at |-> "final", by |-> disk[index][g].by, n |-> disk[index][g].n]
    <3>1. CASE format = "staging"
      BY <1>0, <1>1, <3>1, RenameFiles
    <3>2. CASE format # "staging"
      BY <1>0, <1>1, <3>2, RenameTreeFiles
    <3> QED
      BY <3>1, <3>2
  <2>3. \A g \in Files : disk'[index][g].n = disk[index][g].n /\ (disk[index][g].at = "final" => disk'[index][g].at = "final")
    <3> TAKE g \in Files
    <3>1. CASE disk'[index][g] = disk[index][g]
      BY <3>1
    <3>2. CASE disk'[index][g] = [at |-> "final", by |-> disk[index][g].by, n |-> disk[index][g].n]
      BY <3>2
    <3> QED
      BY <2>2, <3>1, <3>2
  <2>4. disk'[index]["meta"].at = "final"
    <3>1. disk'[index]["meta"] = [at |-> "final", by |-> disk[index]["meta"].by, n |-> disk[index]["meta"].n]
      <4>1. CASE format = "staging"
        BY <1>0, <1>1, <1>3, <4>1, RenameFiles
      <4>2. CASE format # "staging"
        BY <1>0, <1>1, <1>3, <4>2, RenameTreeFiles
      <4> QED
        BY <4>1, <4>2
    <3> QED
      BY <3>1
  <2>5. ASSUME NEW r \in Roles, disk[index][r].at # "absent" PROVE disk'[index][r].at = "final"
    <3>1. disk[index][r].at \in {"partial", "final"}
      BY <1>0, <2>1, <2>5 DEF FileStates
    <3>2. CASE format = "staging"
      BY <1>0, <1>6, <2>3, <3>1, <3>2
    <3>3. CASE format # "staging" /\ disk[index][r].at = "partial"
      <4>1. disk'[index][r] = [at |-> "final", by |-> disk[index][r].by, n |-> disk[index][r].n]
        BY <1>0, <1>1, <3>3, RenameTreeFiles
      <4> QED
        BY <4>1
    <3> QED
      BY <1>0, <2>3, <3>1, <3>2, <3>3
  <2> QED
    BY <2>3, <2>4, <2>5
<1> DEFINE shown(r) == IF disk'[index][r].at = "final" THEN disk'[index][r].n ELSE 0
           seen == [status |-> metaOf[index], rows |-> disk'[index]["sample"].n, frames |-> [r \in Roles |-> shown(r)]]
<1>8. seen \in Store!Episode
  <2>1. disk'[index]["sample"].n \in 0 .. MaxRows /\ \A r \in Roles : shown(r) \in 0 .. MaxRows
    <3>1. \A g \in Files : disk'[index][g] \in FileStates
      BY <1>0 DEF Disks
    <3> QED
      BY <1>0, <3>1, Names DEF FileStates
  <2>2. metaOf[index] = "COMPLETED" =>
          /\ disk'[index]["sample"].n = writer.rows /\ writer.rows > 0
          /\ \A r \in Roles : shown(r) = writer.rows
    BY <1>0, <1>6, <1>7
  <2> HIDE DEF shown
  <2>3. seen.status = metaOf[index] /\ seen.rows = disk'[index]["sample"].n /\ \A r \in Roles : seen.frames[r] = shown(r)
    OBVIOUS
  <2>4. seen \in [status : {"COMPLETED", "ABORTED", "INVALID"}, rows : 0 .. MaxRows, frames : [Roles -> 0 .. MaxRows]]
    BY <1>6, <2>1 DEF Statuses
  <2> HIDE DEF seen
  <2>5. Store!Whole(seen)
    BY <2>2, <2>3 DEF Store!Whole
  <2> QED
    BY <2>4, <2>5 DEF Store!Episode
<1>9. PublishedOf'[index] = seen
  BY <1>0, <1>1, <1>7 DEF PublishedOf, Visible
<1>10. PublishedOf[index] = Store!NoEpisode
  BY <1>0, <1>3 DEF PublishedOf, Store!NoEpisode
<1>11. PublishedOf' = [PublishedOf EXCEPT ![index] = PublishedOf'[index]]
  <2>1. ASSUME NEW e \in Episodes, e # index PROVE PublishedOf'[e] = PublishedOf[e]
    <3>1. metaOf'[e] = metaOf[e] /\ \A f \in Files : disk'[e][f] = disk[e][f]
      BY <1>0, <1>1, <2>1, WriterStep DEF DiskMoves
    <3>2. Visible(e)' = Visible(e)
      BY <1>0, <3>1 DEF Visible
    <3> QED
      BY <1>0, <2>1, <3>1, <3>2 DEF PublishedOf
  <2>2. PublishedOf' = [e \in Episodes |-> PublishedOf'[e]] /\ PublishedOf = [e \in Episodes |-> PublishedOf[e]]
    BY DEF PublishedOf
  <2> HIDE DEF PublishedOf
  <2> QED
    BY <2>1, <2>2
<1> HIDE DEF seen
<1> QED
  BY <1>1, <1>8, <1>9, <1>10, <1>11 DEF Store!Publish

\* The index gets its line for an episode that can already be seen.
LEMMA IndexVisible ==
  ASSUME WriterInv, [Next]_vars, RunPlan, plan[1] = "index", indexed' = indexed \cup {index}, UNCHANGED <<disk, metaOf>>
  PROVE  PublishedOf' = PublishedOf /\ (indexed' = indexed \/ Store!Index(index))
<1>1. /\ TypeInv /\ PlanInv /\ index \in Episodes /\ plan \in Seq(Steps) /\ wpc = "plan" /\ plan # <<>>
  BY PlanCases DEF WriterInv, TypeInv, TypeOK
<1>2. 1 \in DOMAIN plan /\ DOMAIN plan = 1 .. Len(plan)
  BY <1>1, TailItems
<1>3. Finalizing
  BY <1>1, <1>2, Names DEF Finalizing, PlanInv, Files
<1>4. OrderedPlan(plan)
  BY <1>1, <1>3 DEF PlanInv
<1>5. Len(plan) = 1
  BY <1>2, <1>4 DEF OrderedPlan
<1>6. ~PlanHas("publish") /\ ~PlanHas("meta")
  BY <1>2, <1>5 DEF PlanHas
<1>7. disk[index]["meta"].at = "final" /\ metaOf[index] \in Statuses
  BY <1>1, <1>3, <1>6 DEF PlanInv
<1>8. PublishedOf[index] # Store!NoEpisode
  <2>1. PublishedOf[index].status = metaOf[index]
    BY <1>1, <1>7 DEF PublishedOf, Visible
  <2>2. Store!NoEpisode.status = "none" /\ "none" \notin Statuses
    BY DEF Store!NoEpisode, Statuses
  <2> QED
    BY <1>7, <2>1, <2>2
<1>9. PublishedOf' = PublishedOf
  BY DEF PublishedOf, Visible
<1> QED
  BY <1>8, <1>9 DEF Store!Index

\* The writers implement the store: an episode becomes visible in one step, as
\* a whole, never changes, and the index names only visible ones, with any
\* write failing, any crash and the index chosen anew by the next session.
THEOREM StoreRefinement == Spec => ImplementsStore
<1>1. Init => Store!Init
  <2> SUFFICES ASSUME Init PROVE Store!Init
    OBVIOUS
  <2>1. indexed = {} /\ "meta" \in Files /\ \A e \in Episodes : disk[e]["meta"].at # "final"
    BY Names DEF Init, Absent
  <2> QED
    BY <2>1 DEF PublishedOf, Store!Init, Store!NoEpisode
<1>2. ASSUME WriterInv, [Next]_vars PROVE [Store!Next]_<<PublishedOf, indexed>>
  <2>0. TypeInv /\ WriterInv' /\ index \in Episodes
    BY <1>2, WriterStep DEF WriterInv, TypeInv, TypeOK
  <2>1. CASE RunPlan /\ Finalizing /\ plan[1] = "publish"
    BY <1>2, <2>0, <2>1, PublishWhole DEF Store!Next
  <2>2. CASE ~(RunPlan /\ Finalizing /\ plan[1] = "publish")
    <3>1. PublishedOf' = PublishedOf
      BY <1>2, <2>2, PublishedStays
    <3>2. CASE indexed' = indexed
      BY <3>1, <3>2
    <3>3. CASE RunPlan /\ plan[1] = "index" /\ indexed' = indexed \cup {index} /\ UNCHANGED <<disk, metaOf>>
      BY <1>2, <2>0, <3>1, <3>3, IndexVisible DEF Store!Next
    <3> QED
      BY <1>2, <2>0, <3>2, <3>3, MetadataMoves
  <2> QED
    BY <2>1, <2>2
<1> QED
  BY <1>1, <1>2, WriterInvariant, PTL DEF Spec, ImplementsStore, Store!Spec
=============================================================================
