--------------------------- MODULE TrainingDataset ---------------------------
(***************************************************************************)
(* The two materializers (training_materialization and                     *)
(* physical_bottle_materialization) and the two programs that derive a     *)
(* view from their output (lerobot_physical_bottle and the openpi          *)
(* adapter).  They are separate programs on one file system: the staging   *)
(* root may change under a materializer, and the master under a view, at   *)
(* every step; each may raise or be killed at every step.                  *)
(*                                                                         *)
(* A source file is known by a version (what a hash tells apart), the      *)
(* rows of an episode by its take.  A materialized root is [gen, cfg, fp,  *)
(* read, parts, torn]: which build made it, from which configuration, the  *)
(* versions its fingerprint names, the versions that were really read, and *)
(* which of its parts are on disk.                                         *)
(***************************************************************************)
EXTENDS DatasetRows

CONSTANTS Takes,          \* what an episode of the staging root may hold
          Configs,        \* the training configurations
          MaxVersion,     \* bound: versions of a source
          MaxBuilds       \* bound: runs of a materializer

ASSUME TrainingAssumption ==
    /\ MaxVersion \in Nat /\ MaxBuilds \in Nat
    /\ \A cfg \in Configs :
        /\ cfg.kind \in {"training", "bottle"}
        /\ \A n \in SplitNames : cfg.splits[n] \in Seq(STRING)
    /\ Takes \subseteq [rows : Seq(Row), release : Nat, completed : BOOLEAN, frames : Nat]

VARIABLES take,           \* per source: its rows, release, status, frames
          source,         \* per source: version on disk, 0 for missing
          out,            \* the output root
          tmp,            \* the temporary root of the last build
          build,          \* the materializer that is running
          builds,         \* how many have been started
          result,         \* what the last one returned
          view,           \* the view builder that is running
          viewOut         \* the derived view

trainVars == <<take, source, out, tmp, build, builds, result, view, viewOut>>

Sources == DOMAIN take
NoRoot == [gen |-> 0]
NoJob == [pc |-> "idle"]
NoTemp == [state |-> "none", parts |-> {}]
Parts == {"data", "stats", "summary", "marker"}

(* A missing file has version 0: the inventory records it as missing.      *)
SourceInventory == source

(***************************************************************************)
(* The configuration.  items are the episodes of a training manifest or    *)
(* the logical segments of a bottle manifest, in order.                    *)
(***************************************************************************)
Ids(cfg) == {cfg.items[i].id : i \in DOMAIN cfg.items}
Included(cfg) == {cfg.items[i].id : i \in {j \in DOMAIN cfg.items : cfg.items[j].include}}
Item(cfg, id) == cfg.items[CHOOSE i \in DOMAIN cfg.items : cfg.items[i].id = id]
SplitOf(cfg, id) == CHOOSE n \in SplitNames : id \in ToSet(cfg.splits[n])

(* load_training_config and the checks before any file is touched.         *)
ConfigRefuses(cfg) == cfg.defect \in {"schema", "roots", "duplicate"}

(* audit_physical_bottle: every source reviewed, every included segment    *)
(* from a source with a complete payload.                                  *)
AuditRefuses(cfg) ==
    \/ \E i \in DOMAIN cfg.items : cfg.items[i].source \notin cfg.reviewed
    \/ \E i \in DOMAIN cfg.items :
          /\ cfg.items[i].include
          /\ source[cfg.items[i].source] = 0

(* _audit_record and _source_inventory of the bottle: the audit's summary  *)
(* carries the inventory the fingerprint is made of.                       *)
AuditInventory == SourceInventory

\* Mutant: the sources are not part of the fingerprint.
Fingerprint_ConfigOnly(cfg, inventory) ==
    [cfg |-> cfg.id, versions |-> [s \in DOMAIN inventory |-> 0]]

(* The fingerprint: the configuration and every version of the inventory.  *)
Fingerprint(cfg, inventory) == [cfg |-> cfg.id, versions |-> inventory]

(***************************************************************************)
(* What becomes of one episode or segment.                                 *)
(***************************************************************************)
Crop(cfg, item) ==
    LET t == take[item.source]
    IN  IF cfg.kind = "training"
        THEN CropRows(t.rows, t.release, [start |-> item.start, end |-> item.end])
        ELSE CropSegment(t.rows, t.release, [start |-> item.start, end |-> item.end])

KeptRows(cfg, item) ==
    IF cfg.kind = "training" THEN MasterRows(Crop(cfg, item).rows)
                             ELSE BottleRows(Crop(cfg, item).rows)

(* The loop over the episodes of materialize_training_dataset: an episode  *)
(* that cannot be used is left out and reported.                           *)
TrainingFate(cfg, item) ==
    IF source[item.source] = 0 THEN "missing"
    ELSE IF ~take[item.source].completed \/ take[item.source].rows = <<>>
         THEN "malformed"
    ELSE IF Crop(cfg, item).review THEN "crop_review"
    ELSE IF ~item.include THEN "manifest"
    ELSE IF KeptRows(cfg, item) = <<>> THEN "no_valid_rows"
    ELSE "included"

(* The loop over the segments of materialize_physical_bottle: an included  *)
(* segment that cannot be used stops the build.                            *)
BottleFate(cfg, item) ==
    IF ~item.include THEN "manifest"
    ELSE IF \/ source[item.source] = 0
            \/ Crop(cfg, item).review
            \/ KeptRows(cfg, item) = <<>>
         THEN "raise"
    ELSE "included"

Fate(cfg, item) ==
    IF cfg.kind = "training" THEN TrainingFate(cfg, item) ELSE BottleFate(cfg, item)

(* The frames wanted from a source video.                                  *)
Wanted(cfg, item) ==
    IF cfg.kind = "training" THEN MasterVideo(Crop(cfg, item).rows)
                             ELSE BottleVideo(Crop(cfg, item).rows)

Links(cfg, item) ==
    /\ cfg.kind = "training"
    /\ LinksSource(Wanted(cfg, item), Len(take[item.source].rows))

VideoReadable(cfg, item) ==
    \/ Links(cfg, item)
    \/ SubsetReadable(Wanted(cfg, item), take[item.source].frames)

VideoLength(cfg, item) ==
    IF Links(cfg, item) THEN take[item.source].frames ELSE Len(Wanted(cfg, item))

(* The rows statistics are computed from; none is an error.                *)
TrainRows(cfg, kept) == kept \cap ToSet(cfg.splits["train"])

(***************************************************************************)
(* A materializer.                                                         *)
(***************************************************************************)
TrainInit ==
    /\ out = NoRoot /\ tmp = NoTemp /\ build = NoJob /\ builds = 0
    /\ result = [kind |-> "none"] /\ view = NoJob /\ viewOut = NoRoot

(* The recorder publishes an episode, or a review rewrites its metadata.   *)
SourceChanges(s) ==
    /\ source[s] < MaxVersion
    /\ source' = [source EXCEPT ![s] = @ + 1]
    /\ UNCHANGED <<take, out, tmp, build, builds, result, view, viewOut>>

End(kind) ==
    /\ build' = NoJob
    /\ result' = [kind |-> kind]

\* Mutant: a build that raises leaves its temporary root.
Cleanup_Kept(t) == t

(* The temporary root is removed in the finally block.                     *)
Cleanup(t) == NoTemp

Raise ==
    /\ End("raised")
    /\ tmp' = Cleanup(tmp)
    /\ UNCHANGED out

BeginBuild(cfg, replace) ==
    /\ build = NoJob /\ builds < MaxBuilds
    /\ builds' = builds + 1
    /\ IF ConfigRefuses(cfg) THEN End("raised")
       ELSE /\ build' = [pc |-> "inventory", cfg |-> cfg, replace |-> replace]
            /\ UNCHANGED result
    /\ UNCHANGED <<take, source, out, tmp, view, viewOut>>

(* The bottle audit comes first, and with it the inventory.                *)
Audit ==
    /\ build.pc = "inventory" /\ build.cfg.kind = "bottle"
    /\ IF AuditRefuses(build.cfg) THEN End("raised")
       ELSE /\ build' = [pc |-> "marker", cfg |-> build.cfg, replace |-> build.replace,
                         fp |-> Fingerprint(build.cfg, AuditInventory),
                         inv |-> AuditInventory]
            /\ UNCHANGED result
    /\ UNCHANGED <<take, source, out, tmp, builds, view, viewOut>>

TakeInventory ==
    /\ build.pc = "inventory" /\ build.cfg.kind = "training"
    /\ build' = [pc |-> "marker", cfg |-> build.cfg, replace |-> build.replace,
                 fp |-> Fingerprint(build.cfg, SourceInventory),
                 inv |-> SourceInventory]
    /\ UNCHANGED <<take, source, out, tmp, builds, result, view, viewOut>>

HasMarker == out # NoRoot /\ {"marker", "summary"} \subseteq out.parts

(* An output root is used again when its marker names the same             *)
(* fingerprint; otherwise only --replace goes on.                          *)
MarkerReuses(job) == HasMarker /\ ~job.replace /\ out.fp = job.fp

MarkerAllows(job) == out = NoRoot \/ job.replace

Reuse ==
    /\ build.pc = "marker" /\ MarkerReuses(build)
    /\ build' = NoJob
    /\ result' = [kind |-> "reused", inv |-> build.inv, read |-> out.read]
    /\ UNCHANGED <<take, source, out, tmp, builds, view, viewOut>>

RefuseExisting ==
    /\ build.pc = "marker" /\ ~MarkerReuses(build) /\ ~MarkerAllows(build)
    /\ End("exists")
    /\ UNCHANGED <<take, source, out, tmp, builds, view, viewOut>>

Proceed ==
    /\ build.pc = "marker" /\ ~MarkerReuses(build) /\ MarkerAllows(build)
    /\ build' = [build EXCEPT !.pc = IF out = NoRoot THEN "mkdtemp" ELSE "rmtree"]
    /\ UNCHANGED <<take, source, out, tmp, builds, result, view, viewOut>>

(* rmtree removes file by file: any part may be the last to go.            *)
RemoveSome(left) ==
    /\ build.pc = "rmtree" /\ ~out.torn
    /\ left \subseteq out.parts
    /\ out' = [out EXCEPT !.parts = left, !.torn = TRUE]
    /\ UNCHANGED <<take, source, tmp, build, builds, result, view, viewOut>>

RemoveRest ==
    /\ build.pc = "rmtree" /\ out.torn
    /\ out' = NoRoot
    /\ build' = [build EXCEPT !.pc = "mkdtemp"]
    /\ UNCHANGED <<take, source, tmp, builds, result, view, viewOut>>

(* The temporary root, and the checks made right after it.  A wrong prompt *)
(* or wrong splits are found only now, when the old output is gone.        *)
Prepare ==
    /\ build.pc = "mkdtemp"
    /\ tmp' = [state |-> "open", parts |-> {}]
    /\ build' = [pc |-> "read", cfg |-> build.cfg, replace |-> build.replace,
                 fp |-> build.fp, inv |-> build.inv, at |-> 1, kept |-> {},
                 read |-> [s \in Sources |-> 0]]
    /\ UNCHANGED <<take, source, out, builds, result, view, viewOut>>

PrepareRefuses(cfg) ==
    \/ cfg.defect = "prompt"
    \/ cfg.kind = "training" /\ ~SplitsAccepted(cfg.splits, Included(cfg))
    \/ cfg.kind = "bottle" /\ Included(cfg) = {}

ReadItem ==
    /\ build.pc = "read" /\ ~PrepareRefuses(build.cfg)
    /\ build.at <= Len(build.cfg.items)
    /\ LET item == build.cfg.items[build.at]
           fate == Fate(build.cfg, item)
       IN  IF fate = "raise" \/ (fate = "included" /\ ~VideoReadable(build.cfg, item))
           THEN Raise
           ELSE /\ build' = [build EXCEPT !.at = @ + 1,
                                          !.read[item.source] = source[item.source],
                                          !.kept = IF fate = "included"
                                                   THEN @ \cup {item.id} ELSE @]
                /\ UNCHANGED <<result, tmp, out>>
    /\ UNCHANGED <<take, source, builds, view, viewOut>>

(* _validate_split_groups and the check before it, for a bottle.           *)
SegmentSplitsRefuse(cfg) ==
    /\ cfg.kind = "bottle"
    /\ \/ ~SplitsAccepted(cfg.splits, Included(cfg))
       \/ ~GroupsAccepted(cfg.declared, cfg.groups, Included(cfg),
                          [id \in Included(cfg) |-> SplitOf(cfg, id)])

(* Everything below the temporary root, in the order of the code.          *)
NextPart(parts) ==
    IF "data" \notin parts THEN "data"
    ELSE IF "stats" \notin parts THEN "stats"
    ELSE IF "summary" \notin parts THEN "summary"
    ELSE "marker"

ReadyToPublish(parts) == parts = Parts

BuildRefuses ==
    \/ PrepareRefuses(build.cfg)
    \/ /\ build.at > Len(build.cfg.items)
       /\ \/ build.kept = {}
          \/ SegmentSplitsRefuse(build.cfg)
          \/ TrainRows(build.cfg, build.kept) = {}

WritePart ==
    /\ build.pc = "read" /\ build.at > Len(build.cfg.items)
    /\ ~BuildRefuses /\ ~ReadyToPublish(tmp.parts)
    /\ tmp' = [tmp EXCEPT !.parts = @ \cup {NextPart(@)}]
    /\ UNCHANGED <<take, source, out, build, builds, result, view, viewOut>>

RaiseRefused ==
    /\ build.pc = "read" /\ BuildRefuses
    /\ Raise
    /\ UNCHANGED <<take, source, builds, view, viewOut>>

(* os.replace: one step from the temporary root to the output root.        *)
PublishRoot ==
    /\ build.pc = "read" /\ build.at > Len(build.cfg.items)
    /\ ~BuildRefuses /\ ReadyToPublish(tmp.parts)
    /\ out' = [gen |-> builds, cfg |-> build.cfg, fp |-> build.fp,
               read |-> build.read, kept |-> build.kept, parts |-> tmp.parts,
               torn |-> FALSE]
    /\ tmp' = NoTemp
    /\ End("built")
    /\ UNCHANGED <<take, source, builds, view, viewOut>>

(* An exception of the file system, a decoder or a library.                *)
BuildRaises ==
    /\ build.pc = "read"
    /\ Raise
    /\ UNCHANGED <<take, source, builds, view, viewOut>>

BuildKilled ==
    /\ build # NoJob
    /\ End("killed")
    /\ tmp' = IF build.pc = "read" THEN [tmp EXCEPT !.state = "orphan"] ELSE tmp
    /\ UNCHANGED <<take, source, out, builds, view, viewOut>>

(***************************************************************************)
(* The validators.                                                         *)
(***************************************************************************)
(* validate_training_dataset: time order and the decoded video lengths.    *)
ValidatesTraining(root) ==
    \A id \in root.kept :
        LET item == Item(root.cfg, id)
            rows == KeptRows(root.cfg, item)
        IN  Increasing(rows) /\ VideoLength(root.cfg, item) = Len(rows)

(* validate_physical_bottle: the same for the rows of both variants, and   *)
(* _raw_inventory_matches: the raw files are those of the marker.          *)

RawInventoryMatches(root) == root.fp.versions = source

ValidatesBottle(root) == ValidatesTraining(root) /\ RawInventoryMatches(root)

(* ActDatasetAdapter: the rows of the episodes of one split.               *)
SplitRows(root, name) ==
    [id \in root.kept \cap ToSet(root.cfg.splits[name]) |->
        KeptRows(root.cfg, Item(root.cfg, id))]

(***************************************************************************)
(* The derived views.  A builder reads the master several times: its       *)
(* index, a hash of it, then one episode after the other.  What a read     *)
(* finds is a copy [gen, index]: which build it is of, and the segments    *)
(* its files hold, which is all that two builds of them differ in.         *)
(***************************************************************************)
HasData == out # NoRoot /\ out.cfg.kind = "bottle" /\ "data" \in out.parts

(* meta/episodes.jsonl: the included segments in the order of the manifest *)
MasterIndex(cfg) ==
    Selected(cfg.items, {i \in DOMAIN cfg.items : cfg.items[i].include})

NoMaster == [gen |-> 0, index |-> <<>>]
Master ==
    IF HasData THEN [gen |-> out.gen, index |-> MasterIndex(out.cfg)] ELSE NoMaster

(* _rows: the source frames of an episode must be consecutive.             *)
EpisodeUsable(cfg, item) ==
    LET rows == KeptRows(cfg, item)
    IN  \A i \in 1 .. Len(rows) - 1 : rows[i + 1].frame = rows[i].frame + 1

(* _read_episode_arrays: consecutive too, and in time order.               *)
ArraysUsable(cfg, item) ==
    EpisodeUsable(cfg, item) /\ Increasing(KeptRows(cfg, item))

(* build_view of the LeRobot tool: an existing view is removed first with  *)
(* --replace, refused without.                                             *)
BeginLeRobotView(replace) ==
    /\ view = NoJob
    /\ viewOut = NoRoot \/ replace
    /\ viewOut' = NoRoot
    /\ view' = [pc |-> "list", tool |-> "lerobot"]
    /\ UNCHANGED <<take, source, out, tmp, build, builds, result>>

(* The positions of some records of an index, in its order.                *)
InOrder(picked, index) == Selected([i \in DOMAIN index |-> i], picked)

(* _ordered_records: the index, read before the hash is taken.             *)
ListEpisodes ==
    /\ view.pc = "list" /\ view.tool = "lerobot" /\ HasData
    /\ view' = [pc |-> "hash", tool |-> "lerobot", listed |-> Master]
    /\ UNCHANGED <<take, source, out, tmp, build, builds, result, viewOut>>

(* _tree_hash: of whatever is there by now, which may be nothing.          *)
HashMaster ==
    /\ view.pc = "hash"
    /\ view' = [pc |-> "copy", tool |-> "lerobot", listed |-> view.listed,
                 master |-> Master, seen |-> {}, picked |-> DOMAIN view.listed.index,
                 todo |-> InOrder(DOMAIN view.listed.index, view.listed.index)]
    /\ UNCHANGED <<take, source, out, tmp, build, builds, result, viewOut>>

(* build_audited_manifest takes the fingerprint first, and is written when *)
(* every episode could be read.                                            *)
BeginOpenpiView ==
    /\ view = NoJob /\ viewOut = NoRoot /\ HasData
    /\ view' = [pc |-> "manifest", tool |-> "openpi", master |-> Master]
    /\ UNCHANGED <<take, source, out, tmp, build, builds, result, viewOut>>

WriteAudited ==
    /\ view.pc = "manifest" /\ HasData
    /\ \A i \in DOMAIN Master.index : ArraysUsable(out.cfg, Master.index[i])
    /\ view' = [view EXCEPT !.pc = "check"]
    /\ UNCHANGED <<take, source, out, tmp, build, builds, result, viewOut>>

(* build_openpi_view: _source_fingerprint against the manifest.            *)
CheckManifest ==
    /\ view.pc = "check"
    /\ view' = IF Master.gen = view.master.gen THEN [view EXCEPT !.pc = "list"]
               ELSE NoJob
    /\ UNCHANGED <<take, source, out, tmp, build, builds, result, viewOut>>

(* _load_source and _load_locked_split: the episodes of one split.         *)
ListSplit(name) ==
    /\ view.pc = "list" /\ view.tool = "openpi" /\ HasData
    /\ LET index == Master.index
           picked == {i \in DOMAIN index : index[i].id \in ToSet(out.cfg.splits[name])}
       IN  view' = [pc |-> "copy", tool |-> "openpi", listed |-> Master,
                    master |-> view.master, seen |-> {}, picked |-> picked,
                    todo |-> InOrder(picked, index)]
    /\ UNCHANGED <<take, source, out, tmp, build, builds, result, viewOut>>

(* One episode is read where the index put it; its rows must be as many as *)
(* the index says.                                                         *)
Reads(i) ==
    /\ HasData /\ i \in DOMAIN Master.index
    /\ Len(KeptRows(out.cfg, Master.index[i])) = Len(KeptRows(out.cfg, view.listed.index[i]))
    /\ view' = [view EXCEPT !.seen = @ \cup {Master}, !.todo = Tail(@)]

(* build_view opens both videos of an episode: one frame per row.          *)
CopyEpisode ==
    /\ view.pc = "copy" /\ view.tool = "lerobot" /\ view.todo # <<>>
    /\ Reads(Head(view.todo))
    /\ LET item == Master.index[Head(view.todo)]
       IN  /\ EpisodeUsable(out.cfg, item)
           /\ VideoLength(out.cfg, item) = Len(KeptRows(out.cfg, item))
    /\ UNCHANGED <<take, source, out, tmp, build, builds, result, viewOut>>

(* build_openpi_view copies the rows and links the videos as they are.     *)
LinkEpisode ==
    /\ view.pc = "copy" /\ view.tool = "openpi" /\ view.todo # <<>>
    /\ Reads(Head(view.todo))
    /\ ArraysUsable(out.cfg, Master.index[Head(view.todo)])
    /\ UNCHANGED <<take, source, out, tmp, build, builds, result, viewOut>>

\* Mutant: the LeRobot tool compares the number of episodes.
Unchanged_CountOnly(job) ==
    IF job.tool = "lerobot" THEN Len(Master.index) = Len(job.master.index)
                            ELSE Master.gen = job.master.gen

(* The LeRobot tool compares what the files hold, so another build of the  *)
(* same segments is the same master; the openpi tool compares modification *)
(* times, which no other build has.                                        *)
Unchanged(job) ==
    IF job.tool = "lerobot" THEN Master.index = job.master.index
                            ELSE Master.gen = job.master.gen

Finished(job, provenance, returned) ==
    [tool |-> job.tool, listed |-> job.listed, master |-> job.master,
     seen |-> job.seen, picked |-> job.picked, again |-> Master,
     provenance |-> provenance, returned |-> returned]

(* The master is hashed again; the LeRobot tool writes its provenance      *)
(* after the comparison, the openpi tool before it.                        *)
FinishView ==
    /\ view.pc = "copy" /\ view.todo = <<>>
    /\ viewOut' = Finished(view, Unchanged(view) \/ view.tool = "openpi", Unchanged(view))
    /\ view' = NoJob
    /\ UNCHANGED <<take, source, out, tmp, build, builds, result>>

(* A missing file, an unusable episode, a kill: the view stays as it is,   *)
(* in place and without a provenance, but for an openpi view that is       *)
(* killed before its comparison.                                           *)
ViewStops ==
    /\ view # NoJob
    /\ view' = NoJob
    /\ \/ view.pc = "copy" /\ viewOut' = Finished(view, FALSE, FALSE)
       \/ /\ view.pc = "copy" /\ view.tool = "openpi" /\ view.todo = <<>>
          /\ viewOut' = Finished(view, TRUE, FALSE)
       \/ view.pc # "copy" /\ viewOut' = viewOut
    /\ UNCHANGED <<take, source, out, tmp, build, builds, result>>

(* validate_view: the provenance, and the segments it lists, found in the  *)
(* master's index by their ids, with as many rows as the view has.         *)
ValidatesLeRobotView ==
    /\ viewOut # NoRoot /\ viewOut.provenance /\ HasData
    /\ \A i \in DOMAIN viewOut.listed.index : \E j \in DOMAIN Master.index :
          /\ Master.index[j].id = viewOut.listed.index[i].id
          /\ Len(KeptRows(out.cfg, Master.index[j])) =
                Len(KeptRows(out.cfg, viewOut.listed.index[i]))

(* The time column starts at the first row of the crop.  build_openpi_view *)
(* writes it anew where two rows are not one period apart, and keeps it    *)
(* otherwise; validate_derived_view wants it to start with zero.           *)
TimesRegular(rows) == \A i \in 1 .. Len(rows) - 1 : rows[i + 1].t - rows[i].t = 1
TimesFromZero(cfg, item) ==
    TimesRegular(KeptRows(cfg, item)) => KeptRows(cfg, item)[1].t = Crop(cfg, item).rows[1].t

(* validate_derived_view: the provenance, the times, and every video the   *)
(* same file as that of the master; the fingerprint in the manifest is not *)
(* compared.                                                               *)
ValidatesOpenpiView ==
    /\ viewOut # NoRoot /\ viewOut.provenance /\ HasData
    /\ viewOut.seen \subseteq {Master}
    /\ \A i \in viewOut.picked : TimesFromZero(out.cfg, Master.index[i])

BuildNext ==
    \/ \E cfg \in Configs, replace \in BOOLEAN : BeginBuild(cfg, replace)
    \/ Audit
    \/ TakeInventory
    \/ Reuse
    \/ RefuseExisting
    \/ Proceed
    \/ \E left \in SUBSET Parts : RemoveSome(left)
    \/ RemoveRest
    \/ Prepare
    \/ ReadItem
    \/ RaiseRefused
    \/ WritePart
    \/ PublishRoot
    \/ BuildRaises
    \/ BuildKilled

ViewNext ==
    \/ \E replace \in BOOLEAN : BeginLeRobotView(replace)
    \/ ListEpisodes
    \/ HashMaster
    \/ BeginOpenpiView
    \/ WriteAudited
    \/ CheckManifest
    \/ \E name \in {"train", "val"} : ListSplit(name)
    \/ CopyEpisode
    \/ LinkEpisode
    \/ FinishView
    \/ ViewStops

(***************************************************************************)
(* Properties.                                                             *)
(***************************************************************************)
(* The output root is whole or was caught by an interrupted --replace: a   *)
(* build that raises or is killed never leaves a part of its own there     *)
(* (os.replace of the temporary root).                                     *)
PublishedIsWhole == out # NoRoot => out.parts = Parts \/ out.torn

(* A root that is reused was made from exactly the files that are there    *)
(* when the second command takes its inventory, although the first took    *)
(* its inventory before it read them and they may have changed in between. *)
ReuseIsFresh ==
    result.kind = "reused" =>
        \A s \in DOMAIN result.inv :
            result.read[s] # 0 => result.read[s] = result.inv[s]

(* A dataset made from recordings in time order passes its validator: the  *)
(* rows are in order and the videos have a frame for each of them.         *)
WellRecorded(t) == Increasing(t.rows) /\ t.frames = Len(t.rows)

PublishedValidates ==
    (/\ out # NoRoot
     /\ \A id \in out.kept : WellRecorded(take[Item(out.cfg, id).source]))
        => ValidatesTraining(out)

(* A bottle dataset that passes its validator now was read from the files  *)
(* that are there now, although its marker was computed before they were   *)
(* read and a review may have rewritten them since.                        *)
ValidatedIsCurrent ==
    (out # NoRoot /\ out.cfg.kind = "bottle" /\ ValidatesBottle(out)) =>
        \A s \in Sources : out.read[s] # 0 => out.read[s] = source[s]

(* An action chunk never runs over a missing frame or a time gap, although *)
(* the segment numbers do not show a time gap.                             *)
ChunkIsContiguous ==
    out # NoRoot =>
        \A id \in out.kept :
            LET rows == KeptRows(out.cfg, Item(out.cfg, id))
            IN  \A i \in 1 .. Len(rows) :
                    LET c == Chunk(rows, i)
                    IN  \A j \in 1 .. Len(c) - 1 :
                            /\ c[j + 1].frame = c[j].frame + 1
                            /\ c[j + 1].t - c[j].t <= GapLimit

(* Every segment a published root keeps is shown by one of its splits and  *)
(* by one only.                                                            *)
EachInOneSplit ==
    out # NoRoot =>
        \A id \in out.kept : \E n \in SplitNames :
            {m \in SplitNames : id \in DOMAIN SplitRows(out, m)} = {n}

(* What was recorded for one split is not shown by another: no source      *)
(* episode trains a policy and tests it, though a bottle manifest may cut  *)
(* it into segments that overlap.  This holds where a source is one item   *)
(* of the manifest or a declared group holds all its segments; a manifest  *)
(* that declares no groups is accepted as it is.                           *)
SplitSources(root, name) ==
    {Item(root.cfg, id).source : id \in DOMAIN SplitRows(root, name)}

GroupsBindSources(cfg) ==
    \A a, b \in Included(cfg) :
        Item(cfg, a).source = Item(cfg, b).source =>
            a = b \/ (cfg.kind = "bottle" /\ cfg.declared /\ \E g \in cfg.groups : {a, b} \subseteq g)

SourcesInOneSplit(root) ==
    \A m, n \in SplitNames :
        m # n => SplitSources(root, m) \cap SplitSources(root, n) = {}

SplitsDisjoint ==
    (out # NoRoot /\ GroupsBindSources(out.cfg)) => SourcesInOneSplit(out)

(* The same of every manifest.  Without declared groups the code does not  *)
(* see to it (MCDatasetPipeline_splits.cfg).                               *)
SplitAtEpisodes == out # NoRoot => SourcesInOneSplit(out)

(* Between two builds there is no temporary root but that of a build that  *)
(* was killed: whatever raises, the finally block removes it.              *)
TempRemoved == build = NoJob => tmp.state # "open"

(* A whole output root changes only under --replace.                       *)
NoSilentOverwrite ==
    [][out # NoRoot /\ ~out.torn /\ out' # out => build.replace]_trainVars

(* A view whose builder returned holds what its provenance names, whatever *)
(* --replace did meanwhile.  openpi: the index and every episode are of    *)
(* the one build of the manifest, and while that build stays the view      *)
(* passes its validator, if no selected segment lost its first row to a    *)
(* defect.  LeRobot: an episode of another content was read only between   *)
(* two builds of the content that is named, and an index of that content   *)
(* passes the validator while the content stays.                           *)
StartsUsable(cfg, item) == QualityReasons(Crop(cfg, item).rows[1]) = {}

OpenpiViewOfOneBuild ==
    (viewOut # NoRoot /\ viewOut.returned /\ viewOut.tool = "openpi") =>
        /\ viewOut.seen \cup {viewOut.listed} = {viewOut.master}
        /\ (/\ Master.gen = viewOut.master.gen
            /\ \A i \in viewOut.picked : StartsUsable(out.cfg, Master.index[i]))
              => ValidatesOpenpiView

LeRobotViewOfOneContent ==
    LET named == viewOut.master
    IN  (viewOut # NoRoot /\ viewOut.returned /\ viewOut.tool = "lerobot" /\ named # NoMaster) =>
            /\ \A copy \in viewOut.seen :
                  \/ copy.index = named.index
                  \/ named.gen < copy.gen /\ copy.gen < viewOut.again.gen
            /\ (viewOut.listed.index = named.index /\ Master.index = named.index)
                  => ValidatesLeRobotView

ViewFromOneMaster == OpenpiViewOfOneBuild /\ LeRobotViewOfOneContent

(* What the tools' refusal of a changed master promises.  The LeRobot tool *)
(* reads the index before it takes the hash (MCDatasetPipeline_index.cfg).  *)
IndexIsOfTheMaster ==
    (viewOut # NoRoot /\ viewOut.returned) => viewOut.listed.index = viewOut.master.index

(* What the openpi tool builds, its validator accepts.  It is refused when *)
(* its rows are one period apart and do not start with the crop            *)
(* (MCDatasetPipeline_times.cfg).                                          *)
BuiltViewValidates ==
    (/\ viewOut # NoRoot /\ viewOut.returned /\ viewOut.tool = "openpi"
     /\ Master.gen = viewOut.master.gen) => ValidatesOpenpiView
=============================================================================
