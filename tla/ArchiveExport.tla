---------------------------- MODULE ArchiveExport ----------------------------
(***************************************************************************)
(* The canonical archive and the commands of the episode_dataset program   *)
(* that read it: validate, label, manifest, statistics, export, inspect.   *)
(* A label may be changed while a manifest, statistics or an export is     *)
(* under way: each file they read is a step of its own.                    *)
(*                                                                         *)
(* An archive is [form, uuid, finalized, completion, defects, rows, gaps,  *)
(* held]: its format, its UUID, its status, what is wrong with its files   *)
(* (one name per group of checks), whether it has rows, timing gaps or     *)
(* held or mistimed frames.  The metadata is known by version and label.   *)
(***************************************************************************)
EXTENDS Integers, FiniteSets

CONSTANTS Archives,       \* the episode directories of the dataset root
          ArchiveKinds,   \* what an episode directory may hold
          MaxLabels       \* bound: labels written per episode

ASSUME ArchiveAssumption == IsFiniteSet(Archives) /\ MaxLabels \in Nat

VARIABLES archive,        \* per directory: its archive
          label,          \* per directory: success label in the metadata
          metaVersion,    \* per directory: version of the metadata
          survey,         \* the manifest command that is running
          manifest,       \* the manifest on disk
          moments,        \* the statistics command that is running
          statistics,     \* the statistics on disk
          export,         \* the export or plot command that is running
          artifact        \* the exported file or directory

archiveVars == <<archive, label, metaVersion, survey, manifest, moments,
                 statistics, export, artifact>>

NoArchiveCommand == [pc |-> "idle"]
NoManifest == [entries |-> {}, deep |-> FALSE, written |-> FALSE]
NoArtifact == [format |-> "none"]
TrainingLabels == {"success", "failure"}

(***************************************************************************)
(* validate_episode.                                                       *)
(***************************************************************************)
(* load_canonical_rows and load_data_quality_rows.                         *)
RowFileErrors(a) == a.defects \cap {"rows_unreadable"}
QualityFileErrors(a) == a.defects \cap {"quality_unreadable"}

(* _validate_schema_metadata, _validate_calibration.                       *)
SchemaErrors(a) ==
    (a.defects \cap {"schema"}) \cup IF a.finalized THEN {} ELSE {"partial"}
CalibrationErrors(a) == a.defects \cap {"calibration"}

(* The row loop: order and slots, vectors and limits, images and frames.   *)
TimingErrors(a) == a.defects \cap {"order", "slot", "unsynchronized"}
VectorErrors(a) == a.defects \cap {"vector", "joint_limit"}
ImageErrors(a, deep) ==
    a.defects \cap ({"frame_number", "ring_record"}
                    \cup IF deep THEN {"image_array"} ELSE {})

(* _raw_jsonl_errors and _physical_v2_raw_errors, deep only.               *)
RawStreamErrors(a) == a.defects \cap {"raw_jsonl"}
PhysicalRawErrors(a) == a.defects \cap {"raw_physical"}

CanonicalErrors(a, deep) ==
    SchemaErrors(a) \cup RowFileErrors(a) \cup QualityFileErrors(a)
        \cup TimingErrors(a) \cup VectorErrors(a) \cup ImageErrors(a, deep)
        \cup CalibrationErrors(a)
        \cup IF deep THEN RawStreamErrors(a) \cup PhysicalRawErrors(a) ELSE {}

(* _validate_raw_episode: the metadata, the table, and the two videos and  *)
(* the quality table, which only a deep validation opens.  The counts of   *)
(* held and mistimed frames stay 0 in a fast one, and are then compared    *)
(* with those of the metadata.                                             *)
RawMetadataErrors(a) == a.defects \cap {"schema", "files"}
RawTableErrors(a, deep) ==
    IF deep THEN a.defects \cap {"rows_unreadable", "order", "vector", "joint_limit"}
    ELSE {}
RawQualityErrors(a, deep) ==
    (IF deep THEN a.defects \cap {"video", "quality_unreadable"} ELSE {})
        \cup (IF a.held /\ ~deep THEN {"quality_count"} ELSE {})

RawArchiveErrors(a, deep) ==
    RawMetadataErrors(a) \cup RawTableErrors(a, deep) \cup RawQualityErrors(a, deep)

Valid(a, deep) ==
    IF a.form = "raw" THEN RawArchiveErrors(a, deep) = {}
    ELSE CanonicalErrors(a, deep) = {}

(* training_eligible of the two formats.                                   *)
CanonicalEligible(a, l, deep) ==
    /\ Valid(a, deep)
    /\ a.completion = "completed" /\ a.rows /\ ~a.gaps /\ ~a.held
    /\ l \in TrainingLabels

RawEligible(a, l, deep) ==
    /\ Valid(a, deep)
    /\ a.completion = "completed" /\ a.rows
    /\ deep => ~a.gaps /\ ~a.held
    /\ l \in TrainingLabels

Eligible(a, l, deep) ==
    IF a.form = "raw" THEN RawEligible(a, l, deep) ELSE CanonicalEligible(a, l, deep)

(***************************************************************************)
(* label.                                                                  *)
(***************************************************************************)
ArchiveInit ==
    /\ label = [e \in Archives |-> "unlabeled"]
    /\ metaVersion = [e \in Archives |-> 1]
    /\ survey = NoArchiveCommand /\ manifest = NoManifest
    /\ moments = NoArchiveCommand /\ statistics = {}
    /\ export = NoArchiveCommand /\ artifact = NoArtifact

(* _label_episode needs a finalized canonical archive; the metadata is     *)
(* replaced in one step.                                                   *)
LabelEpisode(e, l) ==
    /\ archive[e].form = "canonical" /\ archive[e].finalized
    /\ metaVersion[e] <= MaxLabels
    /\ label' = [label EXCEPT ![e] = l]
    /\ metaVersion' = [metaVersion EXCEPT ![e] = @ + 1]
    /\ UNCHANGED <<archive, survey, manifest, moments, statistics, export, artifact>>

(***************************************************************************)
(* manifest.                                                               *)
(***************************************************************************)
BeginManifest(deep) ==
    /\ survey = NoArchiveCommand /\ ~manifest.written
    /\ survey' = [pc |-> "validate", deep |-> deep, left |-> Archives,
                  entries |-> {}]
    /\ UNCHANGED <<archive, label, metaVersion, manifest, moments, statistics,
                   export, artifact>>

(* Per directory, in three reads: validate_episode, the metadata, ...      *)
SurveyValidate(e) ==
    /\ survey.pc = "validate" /\ e \in survey.left
    /\ survey' = [pc |-> "metadata", deep |-> survey.deep, left |-> survey.left,
                  entries |-> survey.entries, e |-> e,
                  eligible |-> Eligible(archive[e], label[e], survey.deep)]
    /\ UNCHANGED <<archive, label, metaVersion, manifest, moments, statistics,
                   export, artifact>>

EntryEligible(deep, eligible, l) == deep /\ eligible /\ l = "success"

SurveyMetadata ==
    /\ survey.pc = "metadata"
    /\ survey' = [pc |-> "hash", deep |-> survey.deep, left |-> survey.left,
                  entries |-> survey.entries, e |-> survey.e,
                  eligible |-> EntryEligible(survey.deep, survey.eligible, label[survey.e]),
                  label |-> label[survey.e]]
    /\ UNCHANGED <<archive, label, metaVersion, manifest, moments, statistics,
                   export, artifact>>

(* ... and the hash.                                                       *)
SurveyHash ==
    /\ survey.pc = "hash"
    /\ survey' = [pc |-> "validate", deep |-> survey.deep,
                  left |-> survey.left \ {survey.e},
                  entries |-> survey.entries \cup
                      {[e |-> survey.e, uuid |-> archive[survey.e].uuid,
                        eligible |-> survey.eligible, label |-> survey.label,
                        version |-> metaVersion[survey.e]]}]
    /\ UNCHANGED <<archive, label, metaVersion, manifest, moments, statistics,
                   export, artifact>>

(* A UUID that is missing or occurs twice excludes every occurrence.       *)
UuidExcludes(entry, entries) ==
    entry.uuid = "none" \/ \E o \in entries : o.e # entry.e /\ o.uuid = entry.uuid

(* _split_for_episode depends on the UUID alone.                           *)
WriteManifest(trainUuids) ==
    /\ survey.pc = "validate" /\ survey.left = {}
    /\ manifest' = [written |-> TRUE, deep |-> survey.deep,
                    entries |-> {[e |-> x.e, uuid |-> x.uuid, version |-> x.version,
                                  split |-> IF UuidExcludes(x, survey.entries)
                                               \/ ~x.eligible THEN "excluded"
                                            ELSE IF x.uuid \in trainUuids THEN "train"
                                            ELSE "held_out"]
                                 : x \in survey.entries}]
    /\ survey' = NoArchiveCommand
    /\ UNCHANGED <<archive, label, metaVersion, moments, statistics, export, artifact>>

(***************************************************************************)
(* statistics.                                                             *)
(***************************************************************************)
BeginStatistics ==
    /\ moments = NoArchiveCommand /\ statistics = {}
    /\ manifest.written /\ manifest.deep
    /\ moments' = [pc |-> "check", used |-> {}, loading |-> {},
                   left |-> {x \in manifest.entries : x.split = "train"}]
    /\ UNCHANGED <<archive, label, metaVersion, survey, manifest, statistics,
                   export, artifact>>

\* Mutant: the hash is not compared.
HashMatches_NotChecked(entry) == TRUE

(* The hashes of the files against those of the manifest.                  *)
HashMatches(entry) == metaVersion[entry.e] = entry.version

CheckEntry(x) ==
    /\ moments.pc = "check" /\ x \in moments.left
    /\ moments' = IF HashMatches(x)
                  THEN [moments EXCEPT !.pc = "load", !.left = @ \ {x},
                                       !.loading = {[e |-> x.e, listed |-> x.version,
                                                     checked |-> metaVersion[x.e]]}]
                  ELSE NoArchiveCommand
    /\ UNCHANGED <<archive, label, metaVersion, survey, manifest, statistics,
                   export, artifact>>

(* A fast validation and the rows of that entry.                           *)
LoadEntry ==
    /\ moments.pc = "load"
    /\ moments' = IF \A u \in moments.loading : Eligible(archive[u.e], label[u.e], FALSE)
                  THEN [moments EXCEPT !.pc = "check", !.loading = {},
                                       !.used = @ \cup moments.loading]
                  ELSE NoArchiveCommand
    /\ UNCHANGED <<archive, label, metaVersion, survey, manifest, statistics,
                   export, artifact>>

WriteStatistics ==
    /\ moments.pc = "check" /\ moments.left = {} /\ moments.used # {}
    /\ statistics' = moments.used
    /\ moments' = NoArchiveCommand
    /\ UNCHANGED <<archive, label, metaVersion, survey, manifest, export, artifact>>

(***************************************************************************)
(* export act-hdf5, export lerobot-v3 and the plot of inspect.             *)
(***************************************************************************)
Formats == {"act", "lerobot", "plot"}

(* What is validated first, and with which rows it goes on: the exports a  *)
(* fast validation of a canonical archive, the plot a deep one.            *)
ExportAccepts(format, e) ==
    /\ archive[e].form = "canonical" /\ archive[e].rows
    /\ IF format = "plot" THEN Valid(archive[e], TRUE)
       ELSE Eligible(archive[e], label[e], FALSE)

BeginExport(format, e) ==
    /\ export = NoArchiveCommand /\ artifact = NoArtifact
    /\ ExportAccepts(format, e)
    /\ export' = [pc |-> "metadata", format |-> format, e |-> e]
    /\ UNCHANGED <<archive, label, metaVersion, survey, manifest, moments,
                   statistics, artifact>>

(* _training_episode then reads the metadata again for the label.          *)
LabelAllows(format, l) == format = "plot" \/ l = "success"

ExportMetadata ==
    /\ export.pc = "metadata"
    /\ export' = IF LabelAllows(export.format, label[export.e])
                 THEN [pc |-> "write", format |-> export.format, e |-> export.e,
                       label |-> label[export.e], written |-> FALSE]
                 ELSE NoArchiveCommand
    /\ UNCHANGED <<archive, label, metaVersion, survey, manifest, moments,
                   statistics, artifact>>

(* The images are read and written under a temporary name; an image that   *)
(* cannot be read raises, which removes the temporary.                     *)
ExportWrites ==
    /\ export.pc = "write" /\ ~export.written
    /\ export' = IF "image_array" \in archive[export.e].defects THEN NoArchiveCommand
                 ELSE [export EXCEPT !.written = TRUE]
    /\ UNCHANGED <<archive, label, metaVersion, survey, manifest, moments,
                   statistics, artifact>>

MayReplace(written) == written

ExportReplaces ==
    /\ export.pc = "write" /\ MayReplace(export.written)
    /\ artifact' = [format |-> export.format, e |-> export.e, label |-> export.label,
                    whole |-> export.written]
    /\ export' = NoArchiveCommand
    /\ UNCHANGED <<archive, label, metaVersion, survey, manifest, moments, statistics>>

(* Each of the commands may fail or be killed.                             *)
ManifestStops ==
    /\ survey # NoArchiveCommand
    /\ survey' = NoArchiveCommand
    /\ UNCHANGED <<archive, label, metaVersion, manifest, moments, statistics,
                   export, artifact>>

StatisticsStop ==
    /\ moments # NoArchiveCommand
    /\ moments' = NoArchiveCommand
    /\ UNCHANGED <<archive, label, metaVersion, survey, manifest, statistics,
                   export, artifact>>

ExportStops ==
    /\ export # NoArchiveCommand
    /\ export' = NoArchiveCommand
    /\ UNCHANGED <<archive, label, metaVersion, survey, manifest, moments,
                   statistics, artifact>>

LabelNext ==
    \E e \in Archives, l \in TrainingLabels : LabelEpisode(e, l)

ManifestNext ==
    \/ \E deep \in BOOLEAN : BeginManifest(deep)
    \/ \E e \in Archives : SurveyValidate(e)
    \/ SurveyMetadata
    \/ SurveyHash
    \/ \E t \in SUBSET {archive[e].uuid : e \in Archives} : WriteManifest(t)
    \/ BeginStatistics
    \/ \E x \in manifest.entries : CheckEntry(x)
    \/ LoadEntry
    \/ WriteStatistics
    \/ ManifestStops
    \/ StatisticsStop

ExportNext ==
    \/ \E f \in Formats, e \in Archives : BeginExport(f, e)
    \/ ExportMetadata
    \/ ExportWrites
    \/ ExportReplaces
    \/ ExportStops

(***************************************************************************)
(* Properties.                                                             *)
(***************************************************************************)
(* The statistics are of the very files the manifest lists: whatever was   *)
(* relabelled since, the metadata hashed for the manifest is what was      *)
(* found when an episode was used.                                         *)
StatisticsMatchManifest == \A u \in statistics : u.listed = u.checked

(* What the statistics are computed from passed a deep validation: the     *)
(* fast one of the second command alone would let more through.            *)
StatisticsAreValidated == \A u \in statistics : Valid(archive[u.e], TRUE) /\ ~archive[u.e].gaps

(* No demonstration counts twice, although it may have been copied into    *)
(* the root under another name.                                            *)
CountedOnce ==
    \A u, v \in statistics : archive[u.e].uuid = archive[v.e].uuid => u = v

(* An exported demonstration carries a success label, and only a whole one *)
(* is ever in place, although the label is validated in one read and       *)
(* exported from another.                                                  *)
ExportedIsSuccess ==
    artifact # NoArtifact /\ artifact.format # "plot" => artifact.label = "success"

ExportIsWhole == artifact # NoArtifact => artifact.whole
=============================================================================
