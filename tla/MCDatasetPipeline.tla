-------------------------- MODULE MCDatasetPipeline --------------------------
(***************************************************************************)
(* A small instance of DatasetPipeline: two staging episodes, one of which *)
(* may be any of the takes below, eight configurations, two archives,      *)
(* three builds of masters for views and two builds elsewhere.             *)
(***************************************************************************)
EXTENDS DatasetPipeline

e1 == "episode-1"
e2 == "episode-2"
Episodes2 == {e1, e2}
Archives2 == {"archive-1", "archive-2"}

row(i, t, defects) == [frame |-> i, t |-> t, defects |-> defects, force |-> i # 2]

(* Rows in time order, a gap in time, a row with a defect, time running    *)
(* backwards, no rows at all, a recording that was aborted, a video that   *)
(* is too short, one without a recorded release.                           *)
Good == <<row(1, 1, {}), row(2, 2, {}), row(3, 3, {})>>
Plain(rows) == [rows |-> rows, release |-> 9, completed |-> TRUE, frames |-> Len(rows)]
LateStart == Plain(<<row(1, 1, {"sync"}), row(2, 2, {}), row(3, 3, {})>>)

TakesDef ==
    {Plain(Good),
     Plain(<<row(1, 1, {}), row(2, 2, {}), row(3, 4, {}), row(4, 5, {})>>),
     Plain(<<row(1, 1, {}), row(2, 2, {"vector"}), row(3, 3, {})>>),
     Plain(<<row(1, 1, {}), row(2, 5, {}), row(3, 2, {}), row(4, 3, {"domain"})>>),
     LateStart,
     Plain(<<>>),
     [Plain(Good) EXCEPT !.completed = FALSE],
     [Plain(Good) EXCEPT !.frames = 2],
     [Plain(Good) EXCEPT !.release = NoTime]}

item(id, s, include, start, end) ==
    [id |-> id, source |-> s, include |-> include, start |-> start, end |-> end]

splits(train, val) == [train |-> train, val |-> val, test |-> <<>>]

training(id, items, parts) ==
    [id |-> id, kind |-> "training", defect |-> "none", items |-> items,
     splits |-> parts, declared |-> FALSE, groups |-> {}, reviewed |-> {}]

bottle(id, items, parts, groups) ==
    [id |-> id, kind |-> "bottle", defect |-> "none", items |-> items,
     splits |-> parts, declared |-> TRUE, groups |-> groups, reviewed |-> {e1, e2}]

Segments == <<item("s1", e1, TRUE, 1, NoTime), item("s2", e1, TRUE, 2, 3),
              item("s3", e2, TRUE, 1, 2)>>

\* The other segments of the same lengths, without one that is left out, in a
\* manifest that declares no groups: both splits show episode-2.
Others == <<item("s1", e2, TRUE, 1, NoTime), item("s0", e1, FALSE, 1, NoTime),
            item("s2", e2, TRUE, 2, 3), item("s4", e1, TRUE, 1, 2)>>

ConfigsDef ==
    {training("t1", <<item("a", e1, TRUE, NoTime, NoTime), item("b", e2, TRUE, NoTime, NoTime)>>,
              splits(<<"a">>, <<"b">>)),
     training("t2", <<item("a", e1, TRUE, 2, NoTime), item("b", e2, FALSE, NoTime, NoTime)>>,
              splits(<<"a">>, <<"a">>)),
     bottle("b1", Segments, splits(<<"s1", "s2">>, <<"s3">>), {{"s1", "s2"}, {"s3"}}),
     bottle("b2", Segments, splits(<<"s1", "s3">>, <<"s2">>), {{"s1", "s2"}, {"s3"}}),
     [bottle("b4", Others, splits(<<"s1", "s4">>, <<"s2">>), {}) EXCEPT !.declared = FALSE],
     [bottle("b3", Segments, splits(<<"s1">>, <<>>), {}) EXCEPT !.reviewed = {e1}],
     [training("t3", <<item("a", e1, TRUE, NoTime, NoTime)>>, splits(<<"a">>, <<>>))
        EXCEPT !.defect = "prompt"],
     [training("t4", <<item("a", e1, TRUE, NoTime, NoTime)>>, splits(<<"a">>, <<>>))
        EXCEPT !.defect = "roots"]}

Sound ==
    [form |-> "canonical", uuid |-> "u1", finalized |-> TRUE, completion |-> "completed",
     defects |-> {}, rows |-> TRUE, gaps |-> FALSE, held |-> FALSE]

ArchiveKindsDef ==
    {Sound,
     [Sound EXCEPT !.uuid = "u2"],
     [Sound EXCEPT !.gaps = TRUE],
     [Sound EXCEPT !.defects = {"image_array"}],
     [Sound EXCEPT !.finalized = FALSE],
     [Sound EXCEPT !.form = "raw", !.uuid = "none", !.held = TRUE]}

SampleStreams == {<<2>>, <<1, 3>>, <<3, 1>>, <<2, 3, 1>>, <<3, 2, 1>>}

(***************************************************************************)
(* What each desk finds.  Only the training desk meets bad recordings and  *)
(* a missing file, only the two of the archive bad archives.               *)
(***************************************************************************)
Both(t) == [e \in Episodes2 |-> t]

Opening(d, takes, sources, archives, streams) ==
    {[desk |-> d, take |-> t, source |-> s, archive |-> a, samples |-> u] :
        t \in takes, s \in sources, a \in archives, u \in streams}

AllGood == {Both(Plain(Good))}
AllSound == {[e \in Archives2 |-> Sound]}
AnyArchives == [Archives2 -> ArchiveKindsDef]

(* The desk of the views finds two good recordings, or one with a late     *)
(* start, and builds two masters that differ.                              *)
ViewConfigsDef == {cfg \in ConfigsDef : cfg.id \in {"b1", "b4"}}
ViewOpeningsDef ==
    Opening("views", AllGood \cup {[Both(Plain(Good)) EXCEPT ![e1] = LateStart]},
            {Both(1)}, AllSound, {<<>>})

OpeningsDef ==
    Opening("review", AllGood, {Both(1)}, AllSound, {<<>>})
    \cup Opening("train", {[Both(t) EXCEPT ![e2] = Plain(Good)] : t \in TakesDef},
                 {Both(1), [Both(1) EXCEPT ![e2] = 0]}, AllSound, {<<>>})
    \cup UNION {Opening(d, AllGood, {Both(1)}, AnyArchives, {<<>>}) : d \in {"label", "export"}}
    \cup Opening("sync", AllGood, {Both(1)}, AllSound, SampleStreams)
    \cup ViewOpeningsDef

(***************************************************************************)
(* Two builds at most, but three of the masters of the views: enough to    *)
(* put the first back after the second.                                    *)
(***************************************************************************)
Within ==
    IF desk = "views" THEN build' # NoJob => build'.cfg \in ViewConfigsDef
                      ELSE builds' <= 2

MCSpec ==
    PipelineInit /\ [][PipelineNext /\ Within /\ UNCHANGED <<desk, samples>>]_pipelineVars
=============================================================================
