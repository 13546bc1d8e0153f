---------------------------- MODULE StagingReview ----------------------------
(***************************************************************************)
(* A staging root on disk and the commands that work on it: the recorder   *)
(* process adds episodes, a reviewer approves or rejects them, and         *)
(* convert-staging turns approved ones into Parquet shards.  The commands  *)
(* are separate programs on one file system: each file operation is a step *)
(* of its own, any of them may fail, and a program may be killed between   *)
(* two steps.                                                              *)
(***************************************************************************)
EXTENDS Integers, Sequences, FiniteSets, SequencesExt

CONSTANTS Episodes,       \* the episodes of the staging root
          MaxReviews      \* bound: decisions written to the metadata

ASSUME StagingAssumption == IsFiniteSet(Episodes) /\ MaxReviews \in Nat

VARIABLES meta,           \* meta/episodes/chunk-000/<e>.json, or absent
          index,          \* rows of meta/episodes.jsonl: [e, review]
          recorder,       \* episodes whose metadata is out and index is not
          reviewer,       \* the review command that is running
          shard,          \* files of the shard root, per episode
          shardIndex,     \* meta/episodes.jsonl of the shard root
          converter,      \* the convert-staging command that is running
          pages           \* episodes with a review page

stagingVars == <<meta, index, recorder, reviewer, shard, shardIndex,
                 converter, pages>>

Absent == [status |-> "absent", review |-> "pending", version |-> 0]
Idle == [pc |-> "idle"]
ShardFiles == {"data", "workspace", "wrist", "meta"}

StagingInit ==
    /\ meta = [e \in Episodes |-> Absent]
    /\ index = {}
    /\ recorder = {}
    /\ reviewer = Idle
    /\ shard = [e \in Episodes |-> {}]
    /\ shardIndex = <<>>
    /\ converter = Idle
    /\ pages = {}

(***************************************************************************)
(* The recorder, as far as this root sees it: the final metadata is moved  *)
(* into place, then a row is appended to the index.                        *)
(***************************************************************************)
PublishEpisode(e, status) ==
    /\ meta[e] = Absent
    /\ meta' = [meta EXCEPT ![e] = [status |-> status, review |-> "pending",
                                    version |-> 1]]
    /\ recorder' = recorder \cup {e}
    /\ UNCHANGED <<index, reviewer, shard, shardIndex, converter, pages>>

AppendEpisodeIndex(e) ==
    /\ e \in recorder
    /\ recorder' = recorder \ {e}
    /\ index' = index \cup {[e |-> e, review |-> "pending"]}
    /\ UNCHANGED <<meta, reviewer, shard, shardIndex, converter, pages>>

(***************************************************************************)
(* review-staging and approve-staging.                                     *)
(***************************************************************************)
(* stage_review_html: only a completed episode gets a page.                *)
StageReviewHtml(e) ==
    /\ meta[e].status = "completed"
    /\ pages' = pages \cup {e}
    /\ UNCHANGED <<meta, index, recorder, reviewer, shard, shardIndex, converter>>

(* set_staging_review, first part: the metadata is read and checked.       *)
ReadForReview(e, status) ==
    /\ reviewer = Idle
    /\ meta[e].status = "completed"
    /\ meta[e].version <= MaxReviews
    /\ reviewer' = [pc |-> "metadata", e |-> e, status |-> status]
    /\ UNCHANGED <<meta, index, recorder, shard, shardIndex, converter, pages>>

(* _write_staging_metadata replaces the file in one step.                  *)
WriteReviewMetadata ==
    /\ reviewer.pc = "metadata"
    /\ meta' = [meta EXCEPT ![reviewer.e].review = reviewer.status,
                            ![reviewer.e].version = @ + 1]
    /\ reviewer' = [reviewer EXCEPT !.pc = "index"]
    /\ UNCHANGED <<index, recorder, shard, shardIndex, converter, pages>>

(* The index is read as a whole, ...                                       *)
ReadIndex ==
    /\ reviewer.pc = "index"
    /\ reviewer' = [pc |-> "replace", e |-> reviewer.e,
                    rows |-> {IF r.e = reviewer.e
                              THEN [r EXCEPT !.review = reviewer.status] ELSE r
                              : r \in index}]
    /\ UNCHANGED <<meta, index, recorder, shard, shardIndex, converter, pages>>

(* ... and replaced by the changed copy, which drops what the recorder     *)
(* appended in between.                                                    *)
ReplaceIndex ==
    /\ reviewer.pc = "replace"
    /\ index' = reviewer.rows
    /\ reviewer' = Idle
    /\ UNCHANGED <<meta, recorder, shard, shardIndex, converter, pages>>

ReviewerKilled ==
    /\ reviewer # Idle
    /\ reviewer' = Idle
    /\ UNCHANGED <<meta, index, recorder, shard, shardIndex, converter, pages>>

(***************************************************************************)
(* convert-staging: materialize_staging_episode.                           *)
(***************************************************************************)
CanConvert(e) ==
    /\ meta[e].status = "completed"
    /\ meta[e].review = "approved"
    /\ "data" \notin shard[e]

BeginConvert(e) ==
    /\ converter = Idle
    /\ CanConvert(e)
    /\ converter' = [pc |-> "data", e |-> e, review |-> meta[e].review]
    /\ UNCHANGED <<meta, index, recorder, reviewer, shard, shardIndex, pages>>

\* Mutant: the index row comes before the metadata.
NextFile_IndexFirst == [data |-> "info", info |-> "index", workspace |-> "wrist",
                        wrist |-> "meta", meta |-> "data"]

(* What is written next, in the order of the code: the table, the two      *)
(* videos, the episode's metadata, the batch metadata, the index row.      *)
NextFile == [data |-> "workspace", workspace |-> "wrist", wrist |-> "meta",
             meta |-> "info", info |-> "index"]

WriteShardFile ==
    /\ converter.pc \in ShardFiles \cup {"info"}
    /\ shard' = [shard EXCEPT ![converter.e] =
                    @ \cup ({converter.pc} \cap ShardFiles)]
    /\ converter' = [converter EXCEPT !.pc = NextFile[converter.pc]]
    /\ UNCHANGED <<meta, index, recorder, reviewer, shardIndex, pages>>

AppendShardIndex ==
    /\ converter.pc = "index"
    /\ shardIndex' = Append(shardIndex, [e |-> converter.e,
                                         review |-> converter.review])
    /\ converter' = Idle
    /\ UNCHANGED <<meta, index, recorder, reviewer, shard, pages>>

(* A failed write or a kill: what is on disk stays.                        *)
ConverterStops ==
    /\ converter # Idle
    /\ converter' = Idle
    /\ UNCHANGED <<meta, index, recorder, reviewer, shard, shardIndex, pages>>

StagingNext ==
    \/ \E e \in Episodes, s \in {"completed", "aborted"} : PublishEpisode(e, s)
    \/ \E e \in Episodes : AppendEpisodeIndex(e)
    \/ \E e \in Episodes : StageReviewHtml(e)
    \/ \E e \in Episodes, s \in {"approved", "rejected"} : ReadForReview(e, s)
    \/ WriteReviewMetadata
    \/ ReadIndex
    \/ ReplaceIndex
    \/ ReviewerKilled
    \/ \E e \in Episodes : BeginConvert(e)
    \/ WriteShardFile
    \/ AppendShardIndex
    \/ ConverterStops

(***************************************************************************)
(* Properties.                                                             *)
(***************************************************************************)
StagingTypeOK ==
    /\ meta \in [Episodes -> [status : {"absent", "completed", "aborted"},
                              review : {"pending", "approved", "rejected"},
                              version : 0 .. MaxReviews + 1]]
    /\ index \subseteq [e : Episodes, review : {"pending", "approved", "rejected"}]
    /\ shard \in [Episodes -> SUBSET ShardFiles]
    /\ recorder \subseteq Episodes /\ pages \subseteq Episodes
    /\ shardIndex \in Seq([e : Episodes, review : {"approved"}])

(* A shard listed in the shard root's index is complete: its table, both   *)
(* videos and its metadata are on disk, wherever an earlier conversion was *)
(* killed (materialize_staging_episode).                                   *)
ShardIndexIsComplete ==
    \A i \in DOMAIN shardIndex : shard[shardIndex[i].e] = ShardFiles

(* No episode is listed twice, although a conversion may be killed and     *)
(* started again: the index is appended to, never rewritten.               *)
ShardIndexedOnce ==
    \A i, j \in DOMAIN shardIndex : shardIndex[i].e = shardIndex[j].e => i = j

(* The index shows a decision only on an episode whose metadata a review   *)
(* has rewritten: it is changed after the metadata, from a copy that may   *)
(* be stale.  Which of several decisions it shows is left open.            *)
IndexFollowsMetadata ==
    \A r \in index : r.review # "pending" => meta[r.e].version > 1

(* What was reviewed is never a conversion of an aborted recording.        *)
ShardsAreReviewed ==
    \A e \in Episodes :
        shard[e] # {} => meta[e].status = "completed" /\ meta[e].version > 1
=============================================================================
