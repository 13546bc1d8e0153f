--------------------------- MODULE EpisodeWriter ---------------------------
(***************************************************************************)
(* AsyncEpisodeWriter (src/episode_dataset/async_writer.py) with the       *)
(* writers it drives: the staging writer (lerobot_staging.py) and the two  *)
(* directory writers (raw_episode.py, episode.py).  The caller puts calls  *)
(* into a bounded queue, a daemon thread executes them in batches, and a   *)
(* terminal call waits for its answer with a bounded patience.  The disk   *)
(* is modelled file by file: a terminal call is a plan of renames or       *)
(* unlinks with a possible fault or crash between any two of them, and the *)
(* next session picks its episode index by looking at the files.           *)
(***************************************************************************)
EXTENDS Integers, Sequences, FiniteSets, SequencesExt, FiniteSetsExt

CONSTANTS
    Formats,            \* subset of {"staging", "raw", "canonical"}
    Roles,              \* camera roles
    Capacity,           \* of the writer's queue
    BatchSize,
    MaxEpisodes, MaxRows, MaxFaults, MaxSessions        \* bounds

ASSUME WriterAssumption ==
    /\ Formats \subseteq {"staging", "raw", "canonical"}
    /\ IsFiniteSet(Roles)
    /\ Roles \cap {"sample", "quality", "meta", "publish", "index", "frames", "tree"} = {}
    /\ {Capacity, BatchSize, MaxEpisodes, MaxSessions} \subseteq Nat \ {0}
    /\ {MaxRows, MaxFaults} \subseteq Nat

VARIABLES
    format, session, index,                 \* the recorder process
    cpc, accepted,                          \* the calling thread
    queue, batch, stop, wpc, answer,        \* the queue and the worker thread
    plan, writer,                           \* the writer object
    disk, metaOf, indexed, faults           \* the dataset root

callerVars == <<cpc, accepted>>
workerVars == <<queue, batch, stop, wpc, answer, plan, writer>>
diskVars == <<disk, metaOf, indexed>>
processVars == <<format, session, index>>
vars == <<processVars, callerVars, workerVars, diskVars, faults>>

Episodes == 0 .. MaxEpisodes - 1
Files == {"sample", "quality", "meta"} \cup Roles
Absent == [at |-> "absent", by |-> 0, n |-> 0]
Item(m) == [m |-> m, status |-> "none"]
Terminal(m, status) == [m |-> m, status |-> status]
Sentinel == Item("stop")
IsTerminal(i) == i.m \in {"finalize", "discard"}

\* What the writer object remembers of the episode.
NewWriter ==
    [started |-> FALSE, rows |-> 0, frames |-> [r \in Roles |-> 0], error |-> FALSE, beginFailed |-> FALSE,
     lines |-> 0, status |-> "none"]

Init ==
    /\ format \in Formats /\ session = 1 /\ index = 0
    /\ cpc = "new" /\ accepted = 0
    /\ queue = <<>> /\ batch = <<>> /\ stop = FALSE /\ wpc = "get" /\ answer = "none"
    /\ plan = <<>> /\ writer = NewWriter
    /\ disk = [e \in Episodes |-> [f \in Files |-> Absent]]
    /\ metaOf = [e \in Episodes |-> "none"] /\ indexed = {} /\ faults = 0

-----------------------------------------------------------------------------
(* The caller *)

Room == Len(queue) < Capacity

\* begin: the start gate has passed; a full queue is an error.
CallBegin ==
    /\ cpc = "new" /\ Room
    /\ cpc' = "open" /\ queue' = Append(queue, Item("begin"))
    /\ UNCHANGED <<processVars, accepted, batch, stop, wpc, answer, plan, writer, diskVars, faults>>

\* append_sample, append_raw(_batch) and append_raw_camera: refused after a
\* failure, dropped when the queue is full.
CallAppend(m) ==
    /\ cpc = "open" /\ ~writer.error /\ Room
    /\ accepted < MaxRows /\ accepted' = accepted + 1
    /\ queue' = Append(queue, Item(m))
    /\ UNCHANGED <<processVars, cpc, batch, stop, wpc, answer, plan, writer, diskVars, faults>>

\* finalize and discard_rejected_start put the terminal call and wait, or
\* give up when the queue stays full.
CallTerminal(item) ==
    /\ cpc \in {"new", "open"} /\ (item.m = "finalize" => cpc = "open")
    /\ \/ Room /\ queue' = Append(queue, item) /\ cpc' = (IF item.m = "finalize" THEN "waitFinal" ELSE "waitDiscard")
       \/ ~Room /\ UNCHANGED queue /\ cpc' = (IF item.m = "finalize" THEN "failed" ELSE "closing")
    /\ UNCHANGED <<processVars, accepted, batch, stop, wpc, answer, plan, writer, diskVars, faults>>

\* A start that was rejected: nothing of it is to stay.
AskDiscard == CallTerminal(Terminal("discard", "none"))

\* The answer arrived: the worker is closed; an error of finalize leaves it.
TakeAnswer ==
    /\ cpc \in {"waitFinal", "waitDiscard"} /\ answer # "none"
    /\ cpc' = IF answer = "error" /\ cpc = "waitFinal" THEN "failed" ELSE "closing"
    /\ UNCHANGED <<processVars, accepted, workerVars, diskVars, faults>>

\* Patience ran out: a sentinel is queued if there is room for it.
WaitTimeout ==
    /\ cpc \in {"waitFinal", "waitDiscard"} /\ answer = "none"
    /\ queue' = IF Room THEN Append(queue, Sentinel) ELSE queue
    /\ cpc' = IF Room \/ cpc = "waitFinal" THEN "failed" ELSE "closing"
    /\ UNCHANGED <<processVars, accepted, batch, stop, wpc, answer, plan, writer, diskVars, faults>>

\* close() of an unused writer.
CallClose ==
    /\ cpc = "new" /\ cpc' = "closing"
    /\ UNCHANGED <<processVars, accepted, workerVars, diskVars, faults>>

\* _close_worker: the sentinel and the join, each with its patience.
PutSentinel ==
    /\ cpc = "closing"
    /\ \/ Room /\ queue' = Append(queue, Sentinel) /\ cpc' = "joining"
       \/ ~Room /\ UNCHANGED queue /\ cpc' = "failed"
    /\ UNCHANGED <<processVars, accepted, batch, stop, wpc, answer, plan, writer, diskVars, faults>>

JoinWorker ==
    /\ cpc = "joining"
    /\ cpc' \in IF wpc = "ended" THEN {"settled"} ELSE {"failed"}
    /\ UNCHANGED <<processVars, accepted, workerVars, diskVars, faults>>

FreshWriter ==
    /\ cpc' = "new" /\ accepted' = 0 /\ queue' = <<>> /\ batch' = <<>> /\ stop' = FALSE
    /\ wpc' = "get" /\ answer' = "none" /\ plan' = <<>> /\ writer' = NewWriter

\* A rotation opens the next episode once this one is settled.
NextEpisode ==
    /\ cpc = "settled" /\ index + 1 \in Episodes
    /\ index' = index + 1 /\ FreshWriter
    /\ UNCHANGED <<format, session, diskVars, faults>>

\* The process dies, with whatever the worker was doing.
Crash ==
    /\ cpc # "down" /\ session < MaxSessions
    /\ cpc' = "down" /\ wpc' = "ended" /\ queue' = <<>> /\ batch' = <<>> /\ plan' = <<>> /\ answer' = "none"
    /\ accepted' = 0 /\ stop' = FALSE /\ writer' = NewWriter
    /\ UNCHANGED <<processVars, diskVars, faults>>

\* Mutant: the number of published episodes is taken for the next index.
NextIndex_Count == Cardinality({e \in Episodes : disk[e]["meta"].at = "final"})

\* _next_staging_episode_index: one past everything that left a row file or
\* metadata, finished or partial; a directory has a fresh name.
NextIndex ==
    LET used == {e \in Episodes : disk[e]["meta"].at # "absent" \/ disk[e]["sample"].at # "absent"} IN
    IF format # "staging" THEN index + 1 ELSE IF used = {} THEN 0 ELSE Max(used) + 1

Restart ==
    /\ cpc = "down" /\ NextIndex \in Episodes
    /\ session' = session + 1 /\ index' = NextIndex /\ FreshWriter
    /\ UNCHANGED <<format, diskVars, faults>>

-----------------------------------------------------------------------------
(* The worker: _run and _execute *)

TakeBatch ==
    /\ wpc = "get" /\ queue # <<>>
    /\ LET k == Min({BatchSize, Len(queue)}) IN
       batch' = SubSeq(queue, 1, k) /\ queue' = SubSeq(queue, k + 1, Len(queue))
    /\ wpc' = "run"
    /\ UNCHANGED <<processVars, callerVars, stop, answer, plan, writer, diskVars, faults>>

\* The end of a batch: the thread ends, or flushes and goes on.
EndBatch ==
    /\ wpc = "run" /\ batch = <<>>
    /\ IF stop THEN wpc' = "ended" /\ UNCHANGED <<writer, faults>>
       ELSE /\ wpc' = "get"
            /\ \/ UNCHANGED <<writer, faults>>
               \/ /\ writer.started /\ faults < MaxFaults /\ faults' = faults + 1
                  /\ writer' = [writer EXCEPT !.error = TRUE]
    /\ UNCHANGED <<processVars, callerVars, queue, batch, stop, answer, plan, diskVars>>

RunSentinel ==
    /\ wpc = "run" /\ batch # <<>> /\ Head(batch) = Sentinel
    /\ batch' = Tail(batch) /\ stop' = TRUE
    /\ UNCHANGED <<processVars, callerVars, queue, wpc, answer, plan, writer, diskVars, faults>>

File(f) == disk[index][f]
Touch(d, f, n) ==
    [d EXCEPT ![index][f] = IF @.at = "absent" THEN [at |-> "partial", by |-> session, n |-> n] ELSE [@ EXCEPT !.n = n]]

\* Mutant: whatever an earlier session left behind is written over.
PathsFree_NotChecked == TRUE

\* _prepare_paths: a partial file of an earlier session refuses the start,
\* a finished one does not.
PathsFree == \A f \in Files : File(f).at # "partial"

\* Whether the start may go on, per format: staging looks for leftovers,
\* the two others want a new directory, the canonical one also a complete
\* set of calibration files.
StagingBegin == {PathsFree}
NewDirectory == \A f \in Files : File(f).at = "absent"
RawBegin == {NewDirectory}
CanonicalBegin == {NewDirectory, FALSE}
BeginOutcomes ==
    CASE format = "staging" -> StagingBegin [] format = "raw" -> RawBegin [] OTHER -> CanonicalBegin

Failed(w) == [w EXCEPT !.error = TRUE]
Runs(m) == wpc = "run" /\ batch # <<>> /\ Head(batch).m = m
Skips(m) == Runs(m) /\ writer.error /\ batch' = Tail(batch) /\ UNCHANGED <<writer, disk, faults>>

\* begin is the first call of a writer, so no failure precedes it: the row
\* file (or the directory) is made, the metadata follow.
RunBegin ==
    /\ Runs("begin")
    /\ \E allowed \in BeginOutcomes :
          IF allowed
          THEN /\ disk' = Touch(disk, "sample", 0) /\ writer' = [writer EXCEPT !.started = TRUE]
               /\ wpc' = "beginMeta" /\ UNCHANGED batch
          ELSE /\ writer' = [Failed(writer) EXCEPT !.beginFailed = TRUE] /\ batch' = Tail(batch)
               /\ UNCHANGED <<disk, wpc>>
    /\ UNCHANGED <<processVars, callerVars, queue, stop, answer, plan, metaOf, indexed, faults>>

\* The batch's and the episode's metadata, or an exception half way.
RunBeginMeta ==
    /\ wpc = "beginMeta" /\ wpc' = "run" /\ batch' = Tail(batch)
    /\ \/ /\ disk' = Touch(disk, "meta", 0) /\ metaOf' = [metaOf EXCEPT ![index] = "recording"]
          /\ UNCHANGED <<writer, faults>>
       \/ /\ faults < MaxFaults /\ faults' = faults + 1
          /\ writer' = [Failed(writer) EXCEPT !.beginFailed = TRUE] /\ UNCHANGED <<disk, metaOf>>
    /\ UNCHANGED <<processVars, callerVars, queue, stop, answer, plan, indexed>>

\* How append_sample can end, per format: the row is kept; a frame was
\* overwritten, seen before anything is written; a check refuses the sample;
\* the second frame fails after the first; the row fails after both.  The raw
\* format keeps its rows in memory, where nothing fails.
StagingSample == {"ok", "expired", "refused", "half", "unwritten"}
RawSample == {"ok", "expired", "refused", "half"}
CanonicalSample == {"ok", "expired", "refused", "half", "unwritten"}
SampleOutcomes ==
    CASE format = "staging" -> StagingSample [] format = "raw" -> RawSample [] OTHER -> CanonicalSample

\* The frames an outcome leaves written, and the rows.
FramesAfter(outcome) ==
    LET first == CHOOSE r \in Roles : TRUE
        written == CASE outcome \in {"ok", "unwritten"} -> Roles [] outcome = "half" -> {first} [] OTHER -> {}
    IN [r \in Roles |-> IF r \in written THEN writer.frames[r] + 1 ELSE writer.frames[r]]
RowsAfter(outcome) == IF outcome = "ok" THEN writer.rows + 1 ELSE writer.rows

WriteSample(rows, frames) ==
    LET d == IF format = "raw" THEN disk ELSE Touch(disk, "sample", rows)
        touched == {r \in Roles : frames[r] > writer.frames[r]}
    IN [d EXCEPT ![index] = [f \in Files |-> IF f \in touched THEN Touch(d, f, frames[f])[index][f] ELSE d[index][f]]]

\* The worker renumbers a sample by the rows written so far; the two
\* directory formats refuse a gap.
SampleIndex == writer.rows
Contiguous == format = "staging" \/ SampleIndex = writer.rows

\* The line a lost row leaves in the quality file, or the failure to write it.
NoteExpired(w, d) ==
    \/ writer' = [w EXCEPT !.lines = @ + 1] /\ disk' = Touch(d, "quality", 0) /\ UNCHANGED faults
    \/ faults < MaxFaults /\ faults' = faults + 1 /\ writer' = Failed(w) /\ disk' = d

\* append_sample: an overwritten frame costs the row, which becomes a line
\* of the quality file; any other exception stops all further writing.
RunSample ==
    /\ \/ Skips("sample")
       \/ \E outcome \in SampleOutcomes :
             LET ends == IF Contiguous THEN outcome ELSE "refused"
                 w == [writer EXCEPT !.rows = RowsAfter(ends), !.frames = FramesAfter(ends)]
                 d == WriteSample(w.rows, w.frames)
             IN /\ Runs("sample") /\ ~writer.error /\ batch' = Tail(batch)
                /\ CASE ends = "ok" -> writer' = w /\ disk' = d /\ UNCHANGED faults
                     [] ends = "expired" -> NoteExpired(w, d)
                     [] OTHER -> /\ Contiguous => faults < MaxFaults
                                 /\ faults' = IF Contiguous THEN faults + 1 ELSE faults
                                 /\ writer' = Failed(w) /\ disk' = d
    /\ UNCHANGED <<processVars, callerVars, queue, stop, wpc, answer, plan, metaOf, indexed>>

\* append_raw of a quality record: a line of the quality file.  A camera frame
\* is only kept ahead of its sample, and dropped when it is gone.
RunRaw ==
    /\ \/ Skips("quality")
       \/ /\ Runs("quality") /\ ~writer.error
          /\ \/ disk' = Touch(disk, "quality", 0) /\ writer' = [writer EXCEPT !.lines = @ + 1] /\ UNCHANGED faults
             \/ /\ faults < MaxFaults /\ faults' = faults + 1 /\ writer' = Failed(writer) /\ UNCHANGED disk
          /\ batch' = Tail(batch)
    /\ UNCHANGED <<processVars, callerVars, queue, stop, wpc, answer, plan, metaOf, indexed>>

\* The steps of a terminal call, in the code's order.
StagingDiscard == <<"sample", "quality", "meta">> \o SetToSeq(Roles)
StagingFinalize == <<"sample", "quality">> \o SetToSeq(Roles) \o <<"meta", "publish", "index">>
RawDiscard == <<"tree">>
RawFinalize == <<"frames", "meta", "publish">>
CanonicalDiscard == <<"tree">>
CanonicalFinalize == <<"meta", "publish">>
DiscardPlan ==
    CASE format = "staging" -> StagingDiscard [] format = "raw" -> RawDiscard [] OTHER -> CanonicalDiscard
FinalizePlan ==
    CASE format = "staging" -> StagingFinalize [] format = "raw" -> RawFinalize [] OTHER -> CanonicalFinalize

\* What the metadata will say: a failed worker aborts whatever was asked.
FinalStatus(asked) == IF writer.error THEN "ABORTED" ELSE asked

\* The terminal call: what is checked before anything is touched.
RunTerminal ==
    /\ wpc = "run" /\ batch # <<>> /\ IsTerminal(Head(batch))
    /\ LET discard == Head(batch).m = "discard" \/ writer.beginFailed
           status == FinalStatus(Head(batch).status)
           refused == ~writer.started \/ (status = "COMPLETED" /\ writer.rows = 0)
       IN IF ~discard /\ refused
          THEN /\ answer' = "error" /\ batch' = Tail(batch) /\ UNCHANGED <<wpc, plan, writer>>
          ELSE /\ wpc' = "plan" /\ plan' = IF discard THEN DiscardPlan ELSE FinalizePlan
               /\ writer' = [writer EXCEPT !.status = IF discard THEN "discard" ELSE status]
               /\ UNCHANGED <<answer, batch>>
    /\ UNCHANGED <<processVars, callerVars, queue, stop, diskVars, faults>>

Discarding == writer.status = "discard"
Rename(f) == disk' = [disk EXCEPT ![index][f] = IF @.at = "partial" THEN [@ EXCEPT !.at = "final"] ELSE @]
Unlink(fs) == disk' = [disk EXCEPT ![index] = [f \in Files |-> IF f \in fs /\ @[f].at = "partial" THEN Absent ELSE @[f]]]
RenameTree ==
    disk' = [disk EXCEPT ![index] = [f \in Files |-> IF @[f].at = "partial" THEN [@[f] EXCEPT !.at = "final"] ELSE @[f]]]

\* The raw format writes its rows only now.
WriteFrames == disk' = Touch(disk, "sample", writer.rows)

\* episodes.jsonl gets its line after the metadata have their name.
AppendIndex == indexed' = indexed \cup {index}

\* The canonical writer validates and asks for the last metadata while it
\* writes them: what does not hold makes a completed episode invalid.
MetaStatuses ==
    IF format = "canonical" /\ writer.status = "COMPLETED" THEN {"COMPLETED", "INVALID"} ELSE {writer.status}

\* One step of the plan.
PlanStep(step) ==
    CASE step = "tree" -> Unlink(Files) /\ UNCHANGED <<metaOf, indexed>>
      [] step = "index" -> AppendIndex /\ UNCHANGED <<disk, metaOf>>
      [] step = "frames" -> WriteFrames /\ UNCHANGED <<metaOf, indexed>>
      [] step = "meta" /\ ~Discarding ->
            /\ \E s \in MetaStatuses : metaOf' = [metaOf EXCEPT ![index] = s]
            /\ UNCHANGED <<disk, indexed>>
      [] step = "publish" ->
            /\ IF format = "staging" THEN Rename("meta") ELSE RenameTree
            /\ UNCHANGED <<metaOf, indexed>>
      [] OTHER -> (IF Discarding THEN Unlink({step}) ELSE Rename(step)) /\ UNCHANGED <<metaOf, indexed>>

RunPlan ==
    /\ wpc = "plan" /\ plan # <<>>
    /\ PlanStep(Head(plan)) /\ plan' = Tail(plan)
    /\ UNCHANGED <<processVars, callerVars, queue, batch, stop, wpc, answer, writer, faults>>

\* Mutant: a fault leaves the caller without an answer.
PlanFails_NoAnswer ==
    /\ wpc = "plan" /\ faults < MaxFaults /\ faults' = faults + 1
    /\ plan' = <<>> /\ wpc' = "run" /\ batch' = Tail(batch)
    /\ UNCHANGED <<processVars, callerVars, queue, stop, answer, writer, diskVars>>

\* An exception between two steps: it is the caller's answer.
PlanFails ==
    /\ wpc = "plan" /\ faults < MaxFaults /\ faults' = faults + 1
    /\ plan' = <<>> /\ wpc' = "run" /\ batch' = Tail(batch) /\ answer' = "error"
    /\ UNCHANGED <<processVars, callerVars, queue, stop, writer, diskVars>>

PlanDone ==
    /\ wpc = "plan" /\ plan = <<>>
    /\ wpc' = "run" /\ batch' = Tail(batch) /\ answer' = "value"
    /\ writer' = [writer EXCEPT !.started = FALSE]
    /\ UNCHANGED <<processVars, callerVars, queue, stop, plan, diskVars, faults>>

WorkerStep ==
    \/ TakeBatch \/ EndBatch \/ RunSentinel \/ RunBegin \/ RunBeginMeta \/ RunSample \/ RunRaw \/ RunTerminal
    \/ RunPlan \/ PlanFails \/ PlanDone

CallerStep ==
    \/ CallBegin \/ (\E m \in {"sample", "quality"} : CallAppend(m))
    \/ (\E s \in {"COMPLETED", "ABORTED"} : CallTerminal(Terminal("finalize", s)))
    \/ AskDiscard \/ CallClose
    \/ TakeAnswer \/ WaitTimeout \/ PutSentinel \/ JoinWorker \/ NextEpisode

Next == CallerStep \/ WorkerStep \/ Crash \/ Restart

\* The thread runs as long as its process does.
Spec == Init /\ [][Next]_vars /\ WF_vars(WorkerStep)

-----------------------------------------------------------------------------
(* Properties *)

TypeOK ==
    /\ format \in Formats /\ session \in 1 .. MaxSessions /\ index \in Episodes
    /\ cpc \in {"new", "open", "waitFinal", "waitDiscard", "closing", "joining", "settled", "failed", "down"}
    /\ accepted \in 0 .. MaxRows /\ stop \in BOOLEAN
    /\ Len(queue) <= Capacity /\ Len(batch) <= BatchSize
    /\ wpc \in {"get", "run", "beginMeta", "plan", "ended"} /\ answer \in {"none", "value", "error"}
    /\ writer.rows \in 0 .. MaxRows /\ writer.frames \in [Roles -> 0 .. MaxRows]
    /\ \A e \in Episodes, f \in Files :
          disk[e][f] \in [at : {"absent", "partial", "final"}, by : 0 .. MaxSessions, n : 0 .. MaxRows]
    /\ indexed \subseteq Episodes /\ faults \in 0 .. MaxFaults

\* What a reader sees of an episode: its metadata name it and its files.
Visible(e) ==
    [status |-> metaOf[e], rows |-> disk[e]["sample"].n,
     frames |-> [r \in Roles |-> IF disk[e][r].at = "final" THEN disk[e][r].n ELSE 0]]
PublishedOf == [e \in Episodes |-> IF disk[e]["meta"].at = "final" THEN Visible(e)
                                  ELSE [status |-> "none", rows |-> 0, frames |-> [r \in Roles |-> 0]]]
Store == INSTANCE EpisodeStore WITH published <- PublishedOf

\* The writers implement the abstract store: an episode becomes visible in
\* one step, a completed one with all its rows and frames, it never changes,
\* and the index names only visible ones - with any write failing, any
\* crash, and the index chosen anew by the next session.
ImplementsStore == Store!Spec

\* The files of a visible episode come from one recording, whatever an
\* earlier session left in the directory.
OneRecording ==
    \A e \in Episodes : disk[e]["meta"].at = "final" =>
        \A f \in Files : disk[e][f].at = "final" => disk[e][f].by = disk[e]["meta"].by

\* Every call the writer accepted for an episode it completes is a row or a
\* line of the quality file: none is lost with the status COMPLETED.
CompletedAccounts ==
    wpc = "plan" /\ writer.status = "COMPLETED" => accepted = writer.rows + writer.lines

\* Camera frames overwritten before they were written cost rows, never the
\* episode: the writer only fails on a fault or on what a session left.
OverwrittenFramesCostRows == writer.error /\ ~writer.beginFailed => faults > 0

\* A settled episode has no thread left that could still write to it.
SettledIsDrained == cpc = "settled" => wpc = "ended" /\ queue = <<>> /\ plan = <<>>

\* What an episode claims is what is on disk: one recording, every accepted
\* call a row or a quality line, no thread left behind, and an error only
\* after a fault.
EpisodeIsAccounted ==
    TypeOK /\ OneRecording /\ CompletedAccounts /\ OverwrittenFramesCostRows /\ SettledIsDrained

\* A terminal call that was queued is answered unless the process dies, so
\* a slow filesystem shows up as a timeout and not as a lost call.
TerminalAnswered ==
    (cpc \in {"waitFinal", "waitDiscard"}) ~> (answer # "none" \/ cpc \in {"down", "failed", "closing"})
=============================================================================
