---------------------------- MODULE CameraCapture ----------------------------
(***************************************************************************)
(* One RGB-D camera between the device and the readers of its frames       *)
(* (src/episode_dataset/process_runtime.py, camera.py;                     *)
(* src/vision_interface/realsense_adapter.py).                             *)
(*                                                                         *)
(* A child captures framesets and publishes them into a ring of slots that *)
(* readers copy without a lock.  There are two of it: the child process of *)
(* ProcessCamera over SharedMemoryCameraFrameRing, and the thread of       *)
(* AsyncRGBDCamera over CameraFrameRing; "threaded" says which one runs.   *)
(* A frame is known by its ring sequence.  An image plane (RGB, depth, and *)
(* depth aligned to RGB) is copied in two steps, so that a reader can copy *)
(* a plane that is half written.  Memory is sequentially consistent.       *)
(***************************************************************************)
EXTENDS Integers, Sequences, FiniteSets

CONSTANTS
    Capacity,       \* slots of the ring, descriptors queued, references kept
    Planes,         \* image planes of a frame
    MaxFrames,      \* bound on the frames captured
    WarmupFrames,   \* warmup_frames
    SyncRetries     \* sync_retry_frames

ASSUME CameraAssumption ==
    /\ Capacity \in Nat \ {0, 1} /\ Planes \in Nat \ {0} /\ MaxFrames \in Nat
    /\ WarmupFrames \in Nat /\ SyncRetries \in Nat

VARIABLES
    threaded,                                       \* which implementation
    cpc, captured, attempt, received, plane, exitOk, device,    \* the child
    header, pixels,                                 \* the ring
    descriptors, status, stop,                      \* the channels
    ppc, references, metadata, profile, error,      \* the owner's handle
    rpc, wanted, copied, tries, lastRead            \* a reader

childVars == <<cpc, captured, attempt, received, plane, exitOk, device>>
ringVars == <<header, pixels>>
channelVars == <<descriptors, status, stop>>
handleVars == <<ppc, references, metadata, profile, error>>
readerVars == <<rpc, wanted, copied, tries, lastRead>>
vars == <<threaded, childVars, ringVars, channelVars, handleVars, readerVars>>

None == -1
HalfWritten == -2
StatusSlots == 16
Frames == 0 .. MaxFrames - 1
Slots == 0 .. Capacity - 1
SlotOf(s) == s % Capacity
StableVersion(s) == 2 * s + 2
Published(s) == header[SlotOf(s)] = [version |-> StableVersion(s), seq |-> s]
Latest(q, size) == IF Len(q) > size THEN Tail(q) ELSE q
Seqs(q) == {q[i] : i \in 1 .. Len(q)}

\* _queue_put_latest: drop the oldest item to make room for the newest.
QueuePutLatest(q, item, size) == Latest(Append(q, item), size)

\* SharedMemoryCameraFrameRing.create; CameraFrameRing has no slots yet.
CreateRing ==
    /\ header = [i \in Slots |-> [version |-> 0, seq |-> None]]
    /\ pixels = [p \in 1 .. Planes |-> [i \in Slots |-> None]]

Init ==
    /\ threaded \in BOOLEAN
    /\ cpc = "down" /\ captured = 0 /\ attempt = 0 /\ received = 0 /\ plane = 0
    /\ exitOk = TRUE /\ device = "none"
    /\ CreateRing
    /\ descriptors = <<>> /\ status = <<>> /\ stop = FALSE
    /\ ppc = "new" /\ references = <<>> /\ metadata = {} /\ profile = FALSE /\ error = FALSE
    /\ rpc = "idle" /\ wanted = None /\ copied = <<>> /\ tries = 0 /\ lastRead = <<>>

-----------------------------------------------------------------------------
(* The child *)

ChildTo(next) == cpc' = next
ChildAlive == cpc \notin {"down", "dead"}

\* The work before the handler is installed: affinity and attaching the ring.
Attach ==
    /\ cpc = "attach"
    /\ \/ ChildTo("open") /\ UNCHANGED exitOk
       \/ ChildTo("dead") /\ exitOk' = FALSE
    /\ UNCHANGED <<threaded, captured, attempt, received, plane, device, ringVars, channelVars, handleVars, readerVars>>

\* RealSenseCamera.__init__ up to its warm-up captures.
OpenCamera ==
    /\ cpc = "open"
    /\ \/ ChildTo(IF WarmupFrames = 0 THEN "loop" ELSE "capture") /\ device' = "open"
       \/ ChildTo("failing") /\ UNCHANGED device
    /\ UNCHANGED <<threaded, captured, attempt, received, plane, exitOk, ringVars, channelVars, handleVars, readerVars>>

\* The capture loop's test of the stop event.
CaptureLoop ==
    /\ cpc = "loop"
    /\ ChildTo(IF stop THEN "closing" ELSE "capture")
    /\ UNCHANGED <<threaded, captured, attempt, received, plane, exitOk, device, ringVars, channelVars, handleVars, readerVars>>

\* One frameset: usable, or its colour and depth timestamps too far apart.
CaptureOnce ==
    /\ cpc = "capture" /\ device = "open" /\ captured < WarmupFrames + MaxFrames
    /\ \/ /\ captured' = captured + 1 /\ attempt' = 0
          /\ ChildTo(IF captured >= WarmupFrames THEN "publish"
                     ELSE IF captured + 1 < WarmupFrames THEN "capture" ELSE "loop")
       \/ /\ attempt' = (attempt + 1) % (SyncRetries + 1)
          /\ ChildTo(IF attempt = SyncRetries THEN "failing" ELSE "capture")
          /\ UNCHANGED captured
    /\ UNCHANGED <<threaded, received, plane, exitOk, device, ringVars, channelVars, handleVars, readerVars>>

\* A missing or malformed frameset, a device timeout or a closed camera.
CaptureFails ==
    /\ cpc = "capture" /\ ChildTo("failing")
    /\ UNCHANGED <<threaded, captured, attempt, received, plane, exitOk, device, ringVars, channelVars, handleVars, readerVars>>

\* publish(): an odd version marks the slot; the thread's ring also forgets
\* the frame that was in it, and keeps the old sequence until the end.
PublishBegin ==
    /\ cpc = "publish" /\ ChildTo("planes") /\ plane' = 1
    /\ header' = [header EXCEPT ![SlotOf(received)] =
                     [version |-> StableVersion(received) - 1,
                      seq |-> IF threaded THEN header[SlotOf(received)].seq ELSE received]]
    /\ metadata' = IF threaded THEN metadata \ {header[SlotOf(received)].seq} ELSE metadata
    /\ UNCHANGED <<threaded, captured, attempt, received, exitOk, device, pixels, channelVars,
                   ppc, references, profile, error, readerVars>>

\* np.copyto of one plane into the slot, seen half done.
CopyPlane ==
    /\ cpc = "planes" /\ plane <= Planes
    /\ LET half == pixels[plane][SlotOf(received)] = HalfWritten IN
       /\ pixels' = [pixels EXCEPT ![plane][SlotOf(received)] = IF half THEN received ELSE HalfWritten]
       /\ plane' = IF half THEN plane + 1 ELSE plane
    /\ UNCHANGED <<threaded, cpc, captured, attempt, received, exitOk, device, header, channelVars,
                   handleVars, readerVars>>

\* The even version makes the slot readable.
PublishEnd ==
    /\ cpc = "planes" /\ plane > Planes /\ ChildTo("announce")
    /\ header' = [header EXCEPT ![SlotOf(received)] =
                     [version |-> StableVersion(received), seq |-> received]]
    /\ UNCHANGED <<threaded, captured, attempt, received, plane, exitOk, device, pixels, channelVars,
                   handleVars, readerVars>>

\* The process queues a descriptor and, for the first frame, its profile.
AnnounceFrame ==
    /\ cpc = "announce" /\ ~threaded /\ ChildTo("loop")
    /\ descriptors' = QueuePutLatest(descriptors, received, Capacity)
    /\ status' = IF received = 0 THEN QueuePutLatest(status, "ready", StatusSlots) ELSE status
    /\ received' = received + 1
    /\ UNCHANGED <<threaded, captured, attempt, plane, exitOk, device, ringVars, stop, handleVars, readerVars>>

\* The thread appends the reference itself; its deque keeps the newest.
AnnounceReference ==
    /\ cpc = "announce" /\ threaded /\ ChildTo("loop")
    /\ metadata' = metadata \cup {received}
    /\ references' = QueuePutLatest(references, received, Capacity)
    /\ received' = received + 1
    /\ UNCHANGED <<threaded, captured, attempt, plane, exitOk, device, ringVars, channelVars,
                   ppc, profile, error, readerVars>>

\* except BaseException: the process reports, the thread sets its error.
ReportFailure ==
    /\ cpc = "failing"
    /\ IF threaded THEN ChildTo("dead") /\ error' = TRUE /\ UNCHANGED status
       ELSE ChildTo("closing") /\ status' = QueuePutLatest(status, "error", StatusSlots) /\ UNCHANGED error
    /\ UNCHANGED <<threaded, captured, attempt, received, plane, exitOk, device, ringVars, descriptors, stop,
                   ppc, references, metadata, profile, readerVars>>

\* finally: close the camera, report the counters, detach from the ring.
Finally ==
    /\ cpc = "closing" /\ ChildTo("dead")
    /\ IF threaded THEN UNCHANGED <<device, status>>
       ELSE /\ device' = IF device = "open" THEN "closed" ELSE device
            /\ status' = QueuePutLatest(status, "stopped", StatusSlots)
    /\ UNCHANGED <<threaded, captured, attempt, received, plane, exitOk, ringVars, descriptors, stop,
                   handleVars, readerVars>>

ChildStep ==
    \/ Attach \/ OpenCamera \/ CaptureLoop \/ CaptureOnce \/ CaptureFails \/ PublishBegin
    \/ CopyPlane \/ PublishEnd \/ AnnounceFrame \/ AnnounceReference \/ ReportFailure \/ Finally

-----------------------------------------------------------------------------
(* The owner's handle *)

\* _poll_status drains the status queue.  The final counters of a child
\* that stopped are merged into the profile as well.
PollStatus(tail) ==
    /\ profile' = (profile \/ \E i \in 1 .. Len(status) : status[i] \in {"ready", "stopped"})
    /\ error' = (error \/ tail \/ \E i \in 1 .. Len(status) : status[i] = "error")
    /\ status' = <<>>

Start ==
    /\ ppc = "new"
    /\ ppc' = IF threaded THEN "running" ELSE "starting"
    /\ ChildTo(IF threaded THEN "open" ELSE "attach")
    /\ UNCHANGED <<threaded, captured, attempt, received, plane, exitOk, device, ringVars, channelVars,
                   references, metadata, profile, error, readerVars>>

\* One turn of start()'s wait.
StartPoll ==
    /\ ppc = "starting"
    /\ LET exited == ~ChildAlive /\ ~error /\ \A i \in 1 .. Len(status) : status[i] # "error" IN
       /\ PollStatus(exited /\ ~profile')
       /\ ppc' = IF profile' THEN "running" ELSE IF exited THEN "stop" ELSE "starting"
    /\ UNCHANGED <<threaded, childVars, ringVars, descriptors, stop, references, metadata, readerVars>>

StartTimeout ==
    /\ ppc = "starting" /\ ppc' = "stop"
    /\ UNCHANGED <<threaded, childVars, ringVars, channelVars, references, metadata, profile, error, readerVars>>

\* The error property, read by the camera forwarder.
PollError ==
    /\ ppc = "running" /\ ~threaded
    /\ PollStatus(~ChildAlive /\ ~exitOk)
    /\ UNCHANGED <<threaded, childVars, ringVars, descriptors, stop, ppc, references, metadata, readerVars>>

\* register_descriptor, with the bound on the metadata kept.
RegisterDescriptor(known, s) ==
    LET kept == (known \ {s - Capacity}) \cup {s} IN
    IF Cardinality(kept) <= 2 * Capacity THEN kept
    ELSE kept \ {CHOOSE m \in kept : \A k \in kept : m <= k}

\* latest and latest_after: every queued descriptor becomes a reference.
DrainDescriptor ==
    /\ ppc = "running" /\ descriptors # <<>>
    /\ metadata' = RegisterDescriptor(metadata, Head(descriptors))
    /\ references' = QueuePutLatest(references, Head(descriptors), Capacity)
    /\ descriptors' = Tail(descriptors)
    /\ UNCHANGED <<threaded, childVars, ringVars, status, stop, ppc, profile, error, readerVars>>

\* Mutant: a start() that failed does not release the handle.
Stop_NotOnFailure ==
    /\ ppc = "running" \/ (ppc = "new" /\ ~threaded)
    /\ stop' = TRUE
    /\ ppc' = IF cpc = "down" THEN "releasing" ELSE "joining"
    /\ device' = IF threaded /\ device = "open" THEN "closed" ELSE device
    /\ UNCHANGED <<threaded, cpc, captured, attempt, received, plane, exitOk, ringVars, descriptors, status,
                   references, metadata, profile, error, readerVars>>

\* stop(): the thread's camera is closed under it.
Stop ==
    /\ ppc \in {"running", "stop"} \/ (ppc = "new" /\ ~threaded)
    /\ stop' = TRUE
    /\ ppc' = IF cpc = "down" THEN "releasing" ELSE "joining"
    /\ device' = IF threaded /\ device = "open" THEN "closed" ELSE device
    /\ UNCHANGED <<threaded, cpc, captured, attempt, received, plane, exitOk, ringVars, descriptors, status,
                   references, metadata, profile, error, readerVars>>

Joined ==
    /\ ppc \in {"joining", "terminated", "killed"} /\ ~ChildAlive
    /\ ppc' = IF threaded THEN "closed" ELSE "releasing"
    /\ UNCHANGED <<threaded, childVars, ringVars, channelVars, references, metadata, profile, error, readerVars>>

\* Mutant: a child that ignores SIGTERM is left alone.
JoinTimeout_NoKill ==
    /\ ppc \in {"joining", "terminated"} /\ ChildAlive
    /\ ppc' = CASE threaded -> "closed" [] ppc = "joining" -> "terminated" [] OTHER -> "releasing"
    /\ IF threaded \/ ppc = "terminated" THEN UNCHANGED <<cpc, exitOk>>
       ELSE \/ ChildTo("dead") /\ exitOk' = FALSE
            \/ UNCHANGED <<cpc, exitOk>>
    /\ UNCHANGED <<threaded, captured, attempt, received, plane, device, ringVars, channelVars,
                   references, metadata, profile, error, readerVars>>

\* join(timeout) with a live child: a thread is left behind; a process is
\* terminated, which a child blocked in the driver may survive, then killed.
JoinTimeout ==
    /\ ppc \in {"joining", "terminated"} /\ ChildAlive
    /\ ppc' = CASE threaded -> "closed" [] ppc = "joining" -> "terminated" [] OTHER -> "killed"
    /\ IF threaded THEN UNCHANGED <<cpc, exitOk>>
       ELSE \/ ChildTo("dead") /\ exitOk' = FALSE
            \/ ppc = "joining" /\ UNCHANGED <<cpc, exitOk>>
    /\ UNCHANGED <<threaded, captured, attempt, received, plane, device, ringVars, channelVars,
                   references, metadata, profile, error, readerVars>>

\* The final status, then the ring is closed and its blocks are unlinked.
Release ==
    /\ ppc = "releasing" /\ ppc' = "closed"
    /\ PollStatus(FALSE)
    /\ UNCHANGED <<threaded, childVars, ringVars, descriptors, stop, references, metadata, readerVars>>

HandleStep ==
    \/ Start \/ StartPoll \/ StartTimeout \/ PollError \/ DrainDescriptor
    \/ Stop \/ Joined \/ JoinTimeout \/ Release

-----------------------------------------------------------------------------
(* A reader holding one of the references *)

ReadBegin ==
    /\ rpc = "idle" /\ ppc = "running"
    /\ \E s \in Seqs(references) :
          /\ wanted' = s
          /\ rpc' = IF Published(s) /\ s \in metadata THEN "copy"
                    ELSE IF threaded /\ s \in metadata THEN "check" ELSE "idle"
    /\ copied' = <<>> /\ tries' = 1 /\ lastRead' = <<>>
    /\ UNCHANGED <<threaded, childVars, ringVars, channelVars, handleVars>>

ReadPlane ==
    /\ rpc = "copy" /\ Len(copied) < Planes
    /\ copied' = Append(copied, pixels[Len(copied) + 1][SlotOf(wanted)])
    /\ UNCHANGED <<threaded, childVars, ringVars, channelVars, handleVars, rpc, wanted, tries, lastRead>>

\* Mutant: the copy is used without looking at the version again.
ReadEnd_Unchecked ==
    /\ rpc = "copy" /\ Len(copied) = Planes
    /\ rpc' = "idle" /\ lastRead' = copied
    /\ UNCHANGED <<threaded, childVars, ringVars, channelVars, handleVars, wanted, copied, tries>>

\* The copy counts only if the header is what it was; the thread's ring
\* tries three times before it gives up.
ReadEnd ==
    /\ rpc = "copy" /\ Len(copied) = Planes
    /\ IF Published(wanted) THEN rpc' = "idle" /\ lastRead' = copied
       ELSE rpc' = (IF threaded THEN "check" ELSE "idle") /\ UNCHANGED lastRead
    /\ UNCHANGED <<threaded, childVars, ringVars, channelVars, handleVars, wanted, copied, tries>>

ReadRetry ==
    /\ rpc = "check"
    /\ tries' = IF tries < 3 THEN tries + 1 ELSE tries
    /\ rpc' = CASE tries = 3 -> "idle" [] Published(wanted) -> "copy" [] OTHER -> "check"
    /\ copied' = <<>>
    /\ UNCHANGED <<threaded, childVars, ringVars, channelVars, handleVars, wanted, lastRead>>

Next == ChildStep \/ HandleStep \/ ReadBegin \/ ReadPlane \/ ReadEnd \/ ReadRetry

\* The child never blocks for ever: wait_for_frames has a timeout.  The
\* owner's waits are timed joins.  Nothing makes the owner call stop().
Fairness ==
    /\ WF_vars(ChildStep)
    /\ WF_vars(StartPoll \/ StartTimeout) /\ WF_vars(Joined \/ JoinTimeout) /\ WF_vars(Release)
    /\ WF_vars(ppc = "stop" /\ Stop)
    /\ WF_vars(ReadPlane \/ ReadEnd \/ ReadRetry)

Spec == Init /\ [][Next]_vars /\ Fairness

-----------------------------------------------------------------------------
(* Properties *)

PlaneValues == Frames \cup {None, HalfWritten}

TypeOK ==
    /\ threaded \in BOOLEAN /\ exitOk \in BOOLEAN /\ stop \in BOOLEAN
    /\ cpc \in {"down", "attach", "open", "loop", "capture", "publish", "planes", "announce",
                "failing", "closing", "dead"}
    /\ captured \in 0 .. WarmupFrames + MaxFrames /\ attempt \in 0 .. SyncRetries
    /\ received \in 0 .. MaxFrames /\ plane \in 0 .. Planes + 1
    /\ device \in {"none", "open", "closed"}
    /\ header \in [Slots -> [version : 0 .. 2 * MaxFrames, seq : Frames \cup {None}]]
    /\ pixels \in [1 .. Planes -> [Slots -> PlaneValues]]
    /\ Seqs(descriptors) \subseteq Frames /\ Len(descriptors) <= Capacity
    /\ Seqs(status) \subseteq {"ready", "error", "stopped"} /\ Len(status) <= 3
    /\ ppc \in {"new", "starting", "running", "stop", "joining", "terminated", "killed", "releasing", "closed"}
    /\ Seqs(references) \subseteq Frames /\ Len(references) <= Capacity
    /\ metadata \subseteq Frames /\ profile \in BOOLEAN /\ error \in BOOLEAN
    /\ rpc \in {"idle", "copy", "check"} /\ wanted \in Frames \cup {None} /\ tries \in 0 .. 3
    /\ Seqs(copied) \subseteq PlaneValues /\ Len(copied) <= Planes
    /\ Seqs(lastRead) \subseteq PlaneValues /\ Len(lastRead) <= Planes

\* read() never hands out an image whose planes are of different frames, or
\* half of one, however the writer overtakes the reader.
NoTornFrame == lastRead # <<>> => \A i \in 1 .. Planes : lastRead[i] = wanted

\* Metadata is evicted only for frames whose slot was overwritten: whatever
\* reference the owner still holds to a frame of the ring can be read.
ReadableFrameHasMetadata == \A s \in Seqs(references) : Published(s) => s \in metadata

\* ProcessCamera.start() returns only with a frame published, or with the
\* error of the child already known to the handle.
StartedWithFrameOrError == ppc = "running" /\ ~threaded => received > 0 \/ error

\* Once the handle of a camera process is closed and its shared memory
\* unlinked, no process is left that writes frames.
ClosedCameraHasNoWriter == ppc = "closed" /\ ~threaded => ~ChildAlive

\* What a handle tells is true of the child: references it holds can be read,
\* a started camera has a frame or an error, a closed one has no writer.
HandleIsTruthful ==
    TypeOK /\ ReadableFrameHasMetadata /\ StartedWithFrameOrError /\ ClosedCameraHasNoWriter

\* start() ends: the camera runs, or the handle is released again.
StartEnds == ppc = "starting" ~> ppc \in {"running", "closed"}

\* stop() ends whatever the child is doing.
StopEnds == ppc = "joining" ~> ppc = "closed"

\* start() and stop() return, whatever state the child and the driver are in.
CallsEnd == StartEnds /\ StopEnds
=============================================================================
