----------------------------- MODULE DatasetRows -----------------------------
(***************************************************************************)
(* What the offline tools compute from the rows of one recorded episode:   *)
(* which rows are usable, how an episode is cropped, which frames of the   *)
(* videos go with the rows, how segments are numbered, how episodes are    *)
(* divided into splits, and the action chunk an ACT sample carries.        *)
(*                                                                         *)
(* A row is [frame, t, defects, force]: its frame_index (from 1, so that 0 *)
(* can stand for none), its canonical                                      *)
(* timestamp (in frame periods), what is wrong with it, and whether its    *)
(* force sample is valid.  Vectors, images and names are left out.         *)
(***************************************************************************)
EXTENDS Integers, Sequences, FiniteSets, SequencesExt

CONSTANT Horizon      \* action_horizon of the ACT views

ASSUME HorizonAssumption == Horizon \in Nat \ {0}

(* Absent optional numbers (timestamps and frame numbers start at 1).      *)
NoTime == 0

(* What may be wrong with a row, one member per check of the code.         *)
RowDefects == {"canonical", "vector", "sync", "future", "source", "camera",
               "domain"}

Row == [frame : Nat, t : Nat, defects : SUBSET RowDefects, force : BOOLEAN]

(* training_materialization._row_reasons: every defect, and the force      *)
(* source where it is required.                                            *)
RowReasons(row, requireForce) ==
    row.defects \cup IF requireForce /\ ~row.force THEN {"force"} ELSE {}

(* physical_bottle_materialization._quality_reasons: the same checks but   *)
(* for the domain of the camera timestamps, which it does not look at.     *)
QualityReasons(row) == row.defects \ {"domain"}

(* The rows at the positions in keep, in their order.                      *)
Selected(rows, keep) ==
    LET sel[n \in 0 .. Len(rows)] ==
            IF n = 0 THEN <<>>
            ELSE IF n \in keep THEN Append(sel[n - 1], rows[n])
            ELSE sel[n - 1]
    IN  sel[Len(rows)]

Increasing(s) == \A i \in 1 .. Len(s) - 1 : s[i].t < s[i + 1].t

(***************************************************************************)
(* Cropping.                                                               *)
(***************************************************************************)
(* _crop_rows: by time, from the first row or a manual start to the        *)
(* recorded trigger release or a manual end.  Without both ends, or with   *)
(* them in the wrong order, the episode is left for review.                *)
CropRows(rows, release, crop) ==
    LET start == IF crop.start # NoTime THEN crop.start
                 ELSE IF rows = <<>> THEN NoTime ELSE rows[1].t
        end == IF crop.end # NoTime THEN crop.end ELSE release
        review == ~(start # NoTime /\ end # NoTime /\ end >= start)
    IN  [review |-> review,
         rows |-> IF review THEN <<>>
                  ELSE Selected(rows, {i \in DOMAIN rows : start <= rows[i].t /\ rows[i].t <= end})]

(* _crop_segment: by position, from start_frame to end_frame or to the     *)
(* last row that is not after the release.                                 *)
CropSegment(rows, release, seg) ==
    LET before == {i \in 1 .. Len(rows) : rows[i].t <= release}
        end == IF seg.end # NoTime THEN seg.end
               ELSE IF before = {} THEN 0
               ELSE CHOOSE i \in before : \A j \in before : j <= i
        review == \/ seg.start \notin 1 .. Len(rows)
                  \/ seg.end = NoTime /\ release = NoTime
                  \/ end < seg.start
                  \/ end > Len(rows)
    IN  [review |-> review,
         rows |-> IF review THEN <<>> ELSE SubSeq(rows, seg.start, end)]

(***************************************************************************)
(* The row filters of the two materializers.                               *)
(***************************************************************************)
GapLimit == 1         \* 1.5 frame periods, in whole periods

SegmentBreak(prevFrame, frame, prevT, t) ==
    prevFrame # NoTime /\ (frame # prevFrame + 1 \/ t - prevT > GapLimit)

(* One turn of the loop of materialize_training_dataset.  The previous     *)
(* timestamp is assigned before the segment check reads it, so the check   *)
(* compares the row's timestamp with itself.                               *)
MasterStep(s, row) ==
    LET late == s.prev # NoTime /\ row.t <= s.prev
        seg == IF SegmentBreak(s.frame, row.frame, row.t, row.t)
               THEN s.seg + 1 ELSE s.seg
    IN  IF RowReasons(row, FALSE) # {} \/ late
        THEN [s EXCEPT !.prev = row.t]
        ELSE [prev |-> row.t, frame |-> row.frame, seg |-> seg,
              out |-> Append(s.out, [frame |-> row.frame, t |-> row.t,
                                     seg |-> seg, force |-> row.force])]

MasterRows(rows) ==
    LET loop[n \in 0 .. Len(rows)] ==
            IF n = 0 THEN [prev |-> NoTime, frame |-> NoTime, seg |-> 0, out |-> <<>>]
            ELSE MasterStep(loop[n - 1], rows[n])
    IN  loop[Len(rows)].out

(* One turn of the loop of materialize_physical_bottle: every row of a     *)
(* logical segment has segment id 0.                                       *)
BottleStep(s, row) ==
    LET late == s.prev # NoTime /\ row.t <= s.prev
    IN  IF QualityReasons(row) # {} \/ late
        THEN [s EXCEPT !.prev = row.t]
        ELSE [prev |-> row.t,
              out |-> Append(s.out, [frame |-> row.frame, t |-> row.t,
                                     seg |-> 0, force |-> row.force])]

BottleRows(rows) ==
    LET loop[n \in 0 .. Len(rows)] ==
            IF n = 0 THEN [prev |-> NoTime, out |-> <<>>]
            ELSE BottleStep(loop[n - 1], rows[n])
    IN  loop[Len(rows)].out

(* The frames copied into the training video: those of the rows kept       *)
(* (training), or those of the selected rows without a defect (bottle).    *)
MasterVideo(rows) == [i \in 1 .. Len(MasterRows(rows)) |-> MasterRows(rows)[i].frame]

BottleVideo(rows) ==
    LET good == Selected(rows, {i \in DOMAIN rows : QualityReasons(rows[i]) = {}})
    IN  [i \in 1 .. Len(good) |-> good[i].frame]

(* _link_or_crop_video: the source is linked when the rows are all of its  *)
(* frames in order, otherwise the wanted frames are copied one by one,     *)
(* which fails when the source ends before the last of them.               *)
LinksSource(wanted, frames) ==
    wanted # <<>> /\ wanted = [i \in 1 .. frames |-> i]

(* _write_video_subset: the frames are looked for in one forward pass, so  *)
(* a wanted frame behind the reader, or past the end, is never found.      *)
SubsetReadable(wanted, frames) ==
    /\ \A i \in 1 .. Len(wanted) : wanted[i] \in 1 .. frames
    /\ \A i \in 1 .. Len(wanted) - 1 : wanted[i] < wanted[i + 1]

(***************************************************************************)
(* Splits.                                                                 *)
(***************************************************************************)
SplitNames == {"train", "val", "test"}

(* _split_ids in explicit mode: each split is a list of ids; every         *)
(* included id must be in exactly one, and nothing else in any.            *)
SplitsAccepted(splits, included) ==
    LET all == splits["train"] \o splits["val"] \o splits["test"]
    IN  IsInjective(all) /\ ToSet(all) = included

\* Mutant: a group may lie in two splits.
GroupsAccepted_NoLeakCheck(declared, groups, segments, splitOf) ==
    declared =>
        /\ \A g \in groups : g # {} /\ g \subseteq segments
        /\ \A g, h \in groups : g # h => g \cap h = {}
        /\ UNION groups = segments

(* _validate_split_groups: a manifest without split_groups passes as it    *)
(* is; otherwise known segments, in one group each, every group within one *)
(* split, and no segment left out.                                         *)
GroupsAccepted(declared, groups, segments, splitOf) ==
    declared =>
        /\ \A g \in groups : g # {} /\ g \subseteq segments
        /\ \A g, h \in groups : g # h => g \cap h = {}
        /\ \A g \in groups : Cardinality({splitOf[s] : s \in g}) = 1
        /\ UNION groups = segments

(***************************************************************************)
(* The ACT view.                                                           *)
(***************************************************************************)
\* Mutant: a chunk runs across a gap.
ChunkStops_SegmentOnly(previous, candidate) == candidate.seg # previous.seg

(* ActDatasetAdapter.__getitem__: rows from i on, at most Horizon of them, *)
(* up to the first change of segment, missing frame or time gap.           *)
ChunkStops(previous, candidate) ==
    \/ candidate.seg # previous.seg
    \/ candidate.frame - previous.frame # 1
    \/ candidate.t - previous.t > GapLimit

Chunk(rows, i) ==
    LET last == IF i + Horizon - 1 < Len(rows) THEN i + Horizon - 1 ELSE Len(rows)
        stops == {j \in i + 1 .. last : ChunkStops(rows[j - 1], rows[j])}
        end == IF stops = {} THEN last
               ELSE (CHOOSE j \in stops : \A k \in stops : j <= k) - 1
    IN  SubSeq(rows, i, end)

(***************************************************************************)
(* The causal synchronizer of a staging episode.                           *)
(***************************************************************************)
(* _jaka_observations, _rh56_observations and _camera_observations put     *)
(* the audit samples in time order; those of one time keep their order.    *)
Rank(samples, i) ==
    Cardinality({j \in DOMAIN samples :
                    samples[j] < samples[i] \/ (samples[j] = samples[i] /\ j <= i)})

Observations(samples) ==
    [k \in 1 .. Len(samples) |->
        samples[CHOOSE i \in DOMAIN samples : Rank(samples, i) = k]]

(* _latest: bisect_right over the timestamps, then the one before it.      *)
Bisect(times, at) ==
    LET step[n \in 0 .. Len(times) + 1] ==
            IF n = 0 THEN <<1, Len(times) + 1>>
            ELSE LET lo == step[n - 1][1]
                     hi == step[n - 1][2]
                     mid == (lo + hi) \div 2
                 IN  IF lo >= hi THEN <<lo, hi>>
                     ELSE IF at < times[mid] THEN <<lo, mid>>
                     ELSE <<mid + 1, hi>>
    IN  step[Len(times) + 1][1]

Latest(times, at) ==
    LET i == Bisect(times, at) - 1
    IN  IF i < 1 THEN NoTime ELSE times[i]

(* _select_camera: the latest frame, valid only within the tolerance.      *)
SelectCamera(times, at, tolerance) ==
    LET found == Latest(times, at)
        valid == found # NoTime /\ at - found \in 0 .. tolerance
    IN  [valid |-> valid, at |-> IF valid THEN found ELSE NoTime]
=============================================================================
