--------------------------- MODULE DatasetPipeline ---------------------------
(***************************************************************************)
(* The offline tools of one machine.  Their groups of commands work on     *)
(* different directories: the staging root and its shards, the training    *)
(* root and what is derived from it, the canonical archive.  desk names    *)
(* the group a behaviour is about, so that steps that cannot affect each   *)
(* other are not interleaved.                                              *)
(***************************************************************************)
EXTENDS StagingReview, TrainingDataset, ArchiveExport

CONSTANT Openings       \* what the commands may find: [desk, take, source,
                        \* archive, samples]

Desks == {"review", "train", "views", "label", "export", "sync"}

ASSUME OpeningsAssumption ==
    \A o \in Openings :
        /\ o.desk \in Desks
        /\ o.take \in [Episodes -> Takes]
        /\ o.source \in [Episodes -> 0 .. MaxVersion]
        /\ o.archive \in [Archives -> ArchiveKinds]
        /\ o.samples \in Seq(Nat \ {0})

\* A manifest lists episodes that are on disk or missing, whole or cropped.
ASSUME ManifestAssumption ==
    \A cfg \in Configs :
        cfg.items \in Seq([id : STRING, source : Episodes, include : BOOLEAN,
                           start : Nat, end : Nat])

VARIABLES desk,           \* which group of commands is at work
          samples         \* timestamps of one audit stream, as it was written

pipelineVars == <<stagingVars, trainVars, archiveVars, desk, samples>>

(***************************************************************************)
(* The desks.                                                              *)
(***************************************************************************)
PipelineInit ==
    /\ StagingInit /\ TrainInit /\ ArchiveInit
    /\ \E o \in Openings :
        /\ desk = o.desk /\ samples = o.samples
        /\ take = o.take /\ source = o.source /\ archive = o.archive

PipelineNext ==
    \/ /\ desk = "review" /\ StagingNext
       /\ UNCHANGED <<trainVars, archiveVars>>
    \/ /\ \/ desk \in {"train", "views"} /\ BuildNext
          \/ desk = "train" /\ \E s \in Sources : SourceChanges(s)
          \/ desk = "views" /\ ViewNext
       /\ UNCHANGED <<stagingVars, archiveVars>>
    \/ /\ \/ desk \in {"label", "export"} /\ LabelNext
          \/ desk = "label" /\ ManifestNext
          \/ desk = "export" /\ ExportNext
       /\ UNCHANGED <<stagingVars, trainVars>>

PipelineSpec == PipelineInit /\ [][PipelineNext /\ UNCHANGED <<desk, samples>>]_pipelineVars

(***************************************************************************)
(* Properties.                                                             *)
(***************************************************************************)
PipelineTypeOK ==
    /\ StagingTypeOK
    /\ source \in [Episodes -> 0 .. MaxVersion]
    /\ builds \in 0 .. MaxBuilds
    /\ tmp.parts \subseteq Parts
    /\ metaVersion \in [Archives -> 1 .. MaxLabels + 1]
    /\ label \in [Archives -> TrainingLabels \cup {"unlabeled"}]

(* sync-staging pairs a row with the latest sample that is not after it,   *)
(* in whatever order the audit stream was written: no sample from the      *)
(* future, and none older than another one that qualifies.                 *)
CausalSelection ==
    \A at \in 1 .. 4 :
        LET found == Latest(Observations(samples), at)
            past == {samples[i] : i \in {j \in DOMAIN samples : samples[j] <= at}}
            camera == SelectCamera(Observations(samples), at, 1)
        IN  /\ IF past = {} THEN found = NoTime
               ELSE found \in past /\ \A p \in past : p <= found
            /\ camera.valid => camera.at <= at /\ at - camera.at <= 1

(* The shard root is sound after any kill: listed shards are complete and  *)
(* reviewed, listed once, and the index follows the metadata.              *)
ShardRootIsSound ==
    PipelineTypeOK /\ ShardIndexIsComplete /\ ShardIndexedOnce /\ IndexFollowsMetadata /\ ShardsAreReviewed

(* A published training root is whole, a build leaves no temporary root,   *)
(* and a root is not replaced unasked.                                     *)
PublishedRootIsSound ==
    /\ [](PublishedIsWhole /\ TempRemoved)
    /\ NoSilentOverwrite

(* A root that is reused or validated was built from the files its marker  *)
(* names, although they change under the build.                            *)
BuiltFromWhatItNames == ReuseIsFresh /\ ValidatedIsCurrent

(* Nothing leaks: every segment is in one split, and so is every recording *)
(* whose segments a declared group holds together.                         *)
NothingLeaks == EachInOneSplit /\ SplitsDisjoint

(* What is selected from recorded rows is what it is taken for: a root of  *)
(* good recordings passes its validator, no chunk runs over a gap, and no  *)
(* sample of the future is paired with a row.                              *)
RowsAreSound == PublishedValidates /\ ChunkIsContiguous /\ CausalSelection

(* What leaves the archive is what was vetted: statistics of the validated *)
(* manifest, every demonstration once, and whole exports of successes.     *)
ArchiveOutputIsVetted ==
    /\ StatisticsMatchManifest /\ StatisticsAreValidated /\ CountedOnce
    /\ ExportedIsSuccess /\ ExportIsWhole
=============================================================================
