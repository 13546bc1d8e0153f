------------------------ MODULE PhysicalSessionProofs ------------------------
(***************************************************************************)
(* Proofs about PhysicalSession, for every set of stages and formats,      *)
(* every capacity of the event queue and every number of ticks and faults. *)
(*                                                                         *)
(* None of the properties is inductive: that a report is truthful or an    *)
(* end clean depends on where the main thread was when each party was      *)
(* started, stopped or failed.  RunInv says, for every place of the main   *)
(* thread, which parties can be up (RefusalInv, EpisodeInv, ReceiverInv,   *)
(* NativeInv), what is being raised (RaisingInv), which parts of the       *)
(* cleanup are done (CleanupInv), how late a target may be (LateInv) and   *)
(* where every event given to the log is (LogInv).                         *)
(***************************************************************************)
EXTENDS PhysicalSession, TLAPS

\* The places of the main thread, and the states of the others.
Pcs ==
  {"configure", "construct", "episodes", "undo", "hand", "native", "wait",
   "receiver"} \cup Loop \cup
  {"end_tick", "leave", "log_sentinel", "log_join", "except", "cleanup",
   "report", "exit"}

Ticks == {NULL, "target", "heartbeat", "disengaged", "hard_stop"}
StopReasons == AbortReasons \cup {"duration_complete", "keyboard"}

Plans ==
  [stage : Stages, format : Formats, defect : Defects \cup {NULL},
   preview : BOOLEAN, diagnostic : BOOLEAN]
Mains ==
  [pc : Pcs, at : 1 .. 5, abort : AbortReasons, stop : StopReasons,
   raising : {NULL, "interrupt", "error"}, ticks : 0 .. MaxTicks, tick : Ticks,
   engaged : BOOLEAN, prior : BOOLEAN, stopped : BOOLEAN, late : {0, 1},
   rc : BOOLEAN, typed : BOOLEAN, skipped : BOOLEAN,
   exit : {NULL, "refused", "raised", "zero", "two"}]
Natives ==
  [life : {"off", "run", "stopping", "reported", "exited"}, ready : BOOLEAN,
   fault : BOOLEAN, told : BOOLEAN, metrics : {NULL, "normal", "native_fault"}]
Hands ==
  [life : {"off", "run", "failed", "clean"}, order : {NULL, "hold", "terminal"},
   fault : BOOLEAN]
Logs ==
  [thread : {"off", "run", "ended"}, file : {"open", "closed"},
   queue : 0 .. LogCapacity, sentinel : BOOLEAN, given : Nat, written : Nat,
   drops : Nat, errors : Nat, told : Nat \X Nat]
Runtimes ==
  [runtime : {"off", "up", "closed"}, procs : SUBSET Processes,
   forwarder : BOOLEAN, state : {"IDLE", "REC", "DONE"},
   fate : {NULL, "rotated", "aborted", "discarded", "finished"},
   failed : BOOLEAN]

TypeInv ==
  /\ plan \in Plans
  /\ plan.stage = "bounded" => plan.defect \notin HandDefects
  /\ main \in Mains
  /\ native \in Natives
  /\ hand \in Hands
  /\ recv \in {"off", "run", "failed", "closed"}
  /\ log \in Logs
  /\ ep \in Runtimes
  /\ faults \in 0 .. MaxFaults

\* Before the first start, while the parties are started, and the try block.
Fresh == {"configure", "construct"}
Starting == {"episodes", "undo", "hand", "native", "wait", "receiver"}
InTry == Starting \cup Loop \cup {"end_tick"}
\* Part i of the cleanup is done; the cleanup is over; it is over and was
\* not cut short.
Closed(i) == main.pc = "cleanup" /\ main.at > i
Over == main.pc = "report" \/ (main.pc = "exit" /\ main.exit # "refused")
CleanOver == main.pc = "report" \/ (main.pc = "exit" /\ main.exit # "refused" /\ ~main.skipped)

\* A run that was refused, or has not started yet, has started nothing.
RefusalInv ==
  /\ main.exit # NULL <=> main.pc = "exit"
  /\ main.pc \in Fresh \/ main.exit = "refused" =>
       /\ native.life = "off" /\ hand.life = "off" /\ recv = "off"
       /\ ep.procs = {} /\ ep.runtime = "off" /\ log.thread = "off"
  /\ plan.defect # NULL => main.pc = "configure" \/ main.exit = "refused"

\* An exception is raised only on the way out, and an error leaves a reason.
RaisingInv ==
  /\ main.pc \in Fresh \cup InTry => main.raising = NULL
  /\ main.pc = "except" => main.raising # NULL
  /\ main.pc \in {"cleanup", "report", "exit"} =>
       main.raising # "interrupt" /\ (main.raising = "error" => main.abort # NULL)
  /\ main.pc # "exit" \/ main.exit \in {"zero", "two"} => ~main.skipped
  /\ main.exit \in {"zero", "two"} => main.raising # "error"
  /\ main.pc \in Fresh \cup Starting => main.abort = NULL

\* A target sent under a failed hand is the last one: from there on the loop
\* is left.
LateInv ==
  /\ hand.life # "off" => Combined
  /\ main.late = 1 =>
       /\ main.pc \notin Fresh \cup Starting \cup
                         {"control", "poll_rc", "read_metrics", "classify"}
       /\ main.pc \in {"edge", "record", "log", "end_tick", "check"} => hand.life = "failed"

\* What each part of the finally block has done.
CleanupInv ==
  /\ Closed(1) \/ Over => (Combined => hand.order = IF main.abort = NULL THEN "hold" ELSE "terminal")
  /\ Closed(2) \/ Over => main.stopped
  /\ Closed(3) \/ CleanOver => native.life \in {"off", "exited"}
  /\ Closed(4) \/ CleanOver => hand.life \in {"off", "clean"}

\* The episode runtime is up only between its start and the end of the cleanup.
EpisodeInv ==
  /\ ep.forwarder <=> ep.runtime = "up"
  /\ ep.runtime # "up" /\ main.pc \notin {"episodes", "undo"} => ep.procs = {}
  /\ main.pc \in Fresh => main.at = 1
  /\ main.pc = "episodes" /\ main.at = 1 => ep.procs = {}
  /\ main.pc \in Fresh \cup {"episodes", "undo"} => ep.runtime = "off"
  /\ CleanOver => ep.runtime # "up"
  /\ ep.fate = "finished" => main.pc \in {"report", "exit"} /\ main.abort = NULL

\* The receiver and the log are started last and closed first.
ReceiverInv ==
  /\ main.pc \in Fresh \cup Starting => recv = "off" /\ log.thread = "off"
  /\ main.pc \in Loop \cup {"end_tick"} => recv \in {"run", "failed"}
  /\ main.pc \in {"log_sentinel", "log_join", "except", "cleanup", "report", "exit"}
       => recv \in {"off", "closed"}

\* What the native worker left behind agrees with what it did.
NativeInv ==
  /\ main.pc \in Fresh \cup {"episodes", "undo", "hand", "native"} => native.life = "off"
  /\ native.metrics = "native_fault" => native.fault
  /\ native.metrics # NULL => native.life \in {"reported", "exited"}
  /\ main.abort = "worker_exit" =>
       native.life = "exited" /\ native.metrics # "native_fault"
  /\ main.pc \in {"read_metrics", "classify"} /\ main.rc => native.life = "exited"
  /\ NativeFaultIsNamed

\* Without a counted loss every event given to the log is written or queued,
\* and a report without a loss is made after the thread ended.
LogInv ==
  /\ log.drops = 0 /\ log.errors = 0 => log.given = log.written + log.queue
  /\ log.thread = "off" => log.given = 0 /\ log.written = 0 /\ log.queue = 0
  /\ log.sentinel \/ log.thread = "ended" =>
       main.pc \in {"log_join", "except", "cleanup", "report", "exit"}
  /\ log.thread = "ended" => log.queue = 0
  /\ /\ main.pc \in {"cleanup", "report"} \/ main.exit \in {"zero", "two"}
     /\ main.raising = NULL /\ main.stop # "keyboard" /\ log.told = <<0, 0>>
     => log.thread # "run" /\ log.written = log.given

\* The eight together.
OrderInv ==
  /\ RefusalInv
  /\ RaisingInv
  /\ LateInv
  /\ CleanupInv
  /\ EpisodeInv
  /\ ReceiverInv
  /\ NativeInv
  /\ LogInv

RunInv == TypeInv /\ OrderInv

USE DEF NULL, Symptoms, Combined, HandFailed

-----------------------------------------------------------------------------
(* Facts every action needs *)

\* The bounds are positive numbers and the parties are well typed.
LEMMA Bounds ==
  /\ LogCapacity \in Nat /\ LogCapacity > 0 /\ MaxTicks \in Nat /\ MaxTicks > 0 /\ MaxFaults \in Nat
  /\ Stages \subseteq {"bounded", "combined"} /\ Formats \subseteq {"none", "staging", "canonical"}
  /\ 1 \in 1 .. 5 /\ 2 \in 1 .. 5 /\ 3 \in 1 .. 5 /\ 4 \in 1 .. 5 /\ 5 \in 1 .. 5
  BY PhysicalAssumption

\* What the type invariant says, party by party.
LEMMA Parties ==
  ASSUME RunInv
  PROVE  /\ plan \in Plans /\ main \in Mains /\ native \in Natives /\ hand \in Hands /\ log \in Logs /\ ep \in Runtimes
         /\ recv \in {"off", "run", "failed", "closed"} /\ faults \in 0 .. MaxFaults
  BY DEF RunInv, TypeInv

\* What the native worker leaves behind.
LEMMA RunFacts ==
  ASSUME RunInv
  PROVE  /\ native.metrics = "native_fault" => native.fault
         /\ main.pc \in {"read_metrics", "classify"} /\ main.rc => native.life = "exited"
  BY DEF RunInv, OrderInv, NativeInv

\* What the event-log thread and its writers count stays a number.
LEMMA Counts ==
  ASSUME RunInv
  PROVE  /\ log.given + 1 \in Nat /\ log.written + 1 \in Nat /\ log.drops + 1 \in Nat /\ log.errors + 1 \in Nat
         /\ log.drops + log.queue \in Nat
         /\ log.queue # LogCapacity => log.queue + 1 \in 0 .. LogCapacity
         /\ log.queue > 0 => log.queue - 1 \in 0 .. LogCapacity
         /\ <<log.drops, log.errors>> \in Nat \X Nat /\ <<log.drops, log.errors + 1>> \in Nat \X Nat
<1>1. /\ log.given \in Nat /\ log.written \in Nat /\ log.drops \in Nat /\ log.errors \in Nat
      /\ log.queue \in 0 .. LogCapacity
  BY Parties DEF Logs
<1> QED
  BY <1>1, Bounds

\* The parts of the cleanup, by their place, and the step to the next.
LEMMA CleanupSteps ==
  ASSUME RunInv
  PROVE  /\ Cleaning("hand") => main.pc = "cleanup" /\ main.at = 1 /\ CleanedMain = [main EXCEPT !.at = 2, !.pc = "cleanup"]
         /\ Cleaning("adapter") => main.pc = "cleanup" /\ main.at = 2 /\ CleanedMain = [main EXCEPT !.at = 3, !.pc = "cleanup"]
         /\ Cleaning("native") => main.pc = "cleanup" /\ main.at = 3 /\ CleanedMain = [main EXCEPT !.at = 4, !.pc = "cleanup"]
         /\ Cleaning("hand_worker") => main.pc = "cleanup" /\ main.at = 4
            /\ CleanedMain = [main EXCEPT !.at = 5, !.pc = "cleanup"]
         /\ Cleaning("episodes") => main.pc = "cleanup" /\ main.at = 5 /\ CleanedMain = [main EXCEPT !.at = 1, !.pc = "report"]
<1>1. main.at \in 1 .. 5 /\ main \in Mains
  BY Parties DEF Mains
<1>2. /\ CleanupOrder[1] = "hand" /\ CleanupOrder[2] = "adapter" /\ CleanupOrder[3] = "native"
      /\ CleanupOrder[4] = "hand_worker" /\ CleanupOrder[5] = "episodes" /\ Len(CleanupOrder) = 5
  BY DEF CleanupOrder
<1>3. main.at = 1 \/ main.at = 2 \/ main.at = 3 \/ main.at = 4 \/ main.at = 5
  BY <1>1
<1>4. CleanedMain = [main EXCEPT !.at = IF main.at = 5 THEN 1 ELSE main.at + 1, !.pc = IF main.at = 5 THEN "report" ELSE "cleanup"]
  BY <1>2 DEF CleanedMain
<1>5. CASE main.at = 1
  BY <1>2, <1>4, <1>5 DEF Cleaning
<1>6. CASE main.at = 2
  BY <1>2, <1>4, <1>6 DEF Cleaning
<1>7. CASE main.at = 3
  BY <1>2, <1>4, <1>7 DEF Cleaning
<1>8. CASE main.at = 4
  BY <1>2, <1>4, <1>8 DEF Cleaning
<1>9. CASE main.at = 5
  BY <1>2, <1>4, <1>9 DEF Cleaning
<1> QED
  BY <1>3, <1>5, <1>6, <1>7, <1>8, <1>9

-----------------------------------------------------------------------------
(* Every action keeps the invariant.  The first step of each proof says what  *)
(* the action leaves alone, the second in which ways it can go.               *)

\* The checks before any I/O: only a plan without a defect goes on.
LEMMA ConfigureKeeps ==
  ASSUME RunInv, Configure
  PROVE  RunInv'
<1>1. plan' = plan /\ faults' \in 0 .. MaxFaults /\ UNCHANGED <<native, hand, recv, log, ep>> /\ main.pc = "configure"
  BY Parties, Bounds DEF Configure, Refuse, Goto, YamlRefuses, ProfileRefuses, ContractRefuses, HandRefuses, RatesRefuse,
     CpuRefuses, Defects, YamlDefects, ProfileDefects, ContractDefects, HandDefects, RateDefects, CpuDefects, Plans, TypeInv
<1>2. \/ main' = [main EXCEPT !.pc = "exit", !.exit = "refused"]
      \/ main' = [main EXCEPT !.pc = "construct"] /\ plan.defect = NULL
  <2>1. ASSUME plan.defect # NULL
        PROVE  YamlRefuses \/ ProfileRefuses \/ ContractRefuses \/ HandRefuses \/ RatesRefuse \/ CpuRefuses
    <3>1. plan.defect \in Defects /\ (plan.stage = "bounded" => plan.defect \notin HandDefects)
      BY <2>1, Parties DEF Plans, RunInv, TypeInv
    <3>2. plan.stage \in {"bounded", "combined"}
      BY Parties, Bounds DEF Plans
    <3> QED
      BY <3>1, <3>2 DEF Defects, YamlRefuses, ProfileRefuses, ContractRefuses, HandRefuses, RatesRefuse, CpuRefuses
  <2>2. Refuse \/ (Goto("construct") /\ plan.defect = NULL)
    BY <2>1, Zenon DEF Configure
  <2> QED
    BY <2>2 DEF Refuse, Goto
<1>3. CASE main' = [main EXCEPT !.pc = "exit", !.exit = "refused"]
  <2>1. main' \in Mains
    BY <1>3, Parties DEF Mains, Pcs
  <2>2. OrderInv'
    BY <1>1, <1>3, SMTT(30) DEF RunInv, OrderInv, RefusalInv, RaisingInv, LateInv, CleanupInv, EpisodeInv, ReceiverInv,
       NativeInv, LogInv, NativeFaultIsNamed,
       TypeInv, Mains, Natives, Hands, Logs, Runtimes, Fresh, Starting, InTry, Loop, Closed, Over, CleanOver
  <2> QED
    BY <1>1, <1>3, Parties, <2>1, <2>2 DEF RunInv, TypeInv
<1>4. CASE main' = [main EXCEPT !.pc = "construct"] /\ plan.defect = NULL
  <2>1. main' \in Mains
    BY <1>4, Parties DEF Mains, Pcs
  <2>2. OrderInv'
    BY <1>1, <1>4, SMTT(30) DEF RunInv, OrderInv, RefusalInv, RaisingInv, LateInv, CleanupInv, EpisodeInv, ReceiverInv,
       NativeInv, LogInv, NativeFaultIsNamed,
       TypeInv, Mains, Natives, Hands, Logs, Runtimes, Fresh, Starting, InTry, Loop, Closed, Over, CleanOver
  <2> QED
    BY <1>1, <1>4, Parties, <2>1, <2>2 DEF RunInv, TypeInv
<1> QED
  BY <1>2, <1>3, <1>4

\* The objects are built before anything is started.
LEMMA ConstructKeeps ==
  ASSUME RunInv, Construct
  PROVE  RunInv'
<1>1. plan' = plan /\ faults' \in 0 .. MaxFaults /\ UNCHANGED <<native, hand, recv, log, ep>> /\ main.pc = "construct"
  BY Parties, Bounds DEF Construct, Refuse, Goto
<1>2. \/ main' = [main EXCEPT !.pc = "exit", !.exit = "refused"]
      \/ main' = [main EXCEPT !.pc = "episodes"]
      \/ main' = [main EXCEPT !.pc = "hand"]
  BY <1>1, Parties DEF RunInv, OrderInv, ReceiverInv, EpisodeInv, Fresh, Starting, Construct, Refuse, Goto
<1>3. CASE main' = [main EXCEPT !.pc = "exit", !.exit = "refused"]
  <2>1. main' \in Mains
    BY <1>3, Parties DEF Mains, Pcs
  <2>2. OrderInv'
    BY <1>1, <1>3, SMTT(30) DEF RunInv, OrderInv, RefusalInv, RaisingInv, LateInv, CleanupInv, EpisodeInv, ReceiverInv,
       NativeInv, LogInv, NativeFaultIsNamed,
       TypeInv, Mains, Natives, Hands, Logs, Runtimes, Fresh, Starting, InTry, Loop, Closed, Over, CleanOver
  <2> QED
    BY <1>1, <1>3, Parties, <2>1, <2>2 DEF RunInv, TypeInv
<1>4. CASE main' = [main EXCEPT !.pc = "episodes"]
  <2>1. main' \in Mains
    BY <1>4, Parties DEF Mains, Pcs
  <2>2. OrderInv'
    BY <1>1, <1>4, SMTT(30) DEF RunInv, OrderInv, RefusalInv, RaisingInv, LateInv, CleanupInv, EpisodeInv, ReceiverInv,
       NativeInv, LogInv, NativeFaultIsNamed,
       TypeInv, Mains, Natives, Hands, Logs, Runtimes, Fresh, Starting, InTry, Loop, Closed, Over, CleanOver
  <2> QED
    BY <1>1, <1>4, Parties, <2>1, <2>2 DEF RunInv, TypeInv
<1>5. CASE main' = [main EXCEPT !.pc = "hand"]
  <2>1. main' \in Mains
    BY <1>5, Parties DEF Mains, Pcs
  <2>2. OrderInv'
    BY <1>1, <1>5, SMTT(30) DEF RunInv, OrderInv, RefusalInv, RaisingInv, LateInv, CleanupInv, EpisodeInv, ReceiverInv,
       NativeInv, LogInv, NativeFaultIsNamed,
       TypeInv, Mains, Natives, Hands, Logs, Runtimes, Fresh, Starting, InTry, Loop, Closed, Over, CleanOver
  <2> QED
    BY <1>1, <1>5, Parties, <2>1, <2>2 DEF RunInv, TypeInv
<1> QED
  BY <1>2, <1>3, <1>4, <1>5

\* EpisodeDataRuntime.start refuses its configuration before it starts anything.
LEMMA EpisodeConfigFailsKeeps ==
  ASSUME RunInv, EpisodeConfigFails
  PROVE  RunInv'
<1>1. plan' = plan /\ faults' \in 0 .. MaxFaults /\ UNCHANGED <<native, hand, recv, log, ep>> /\ main.pc = "episodes"
      /\ main.at = 1
  BY Parties, Bounds DEF EpisodeConfigFails, Raise
<1>2. main' = [main EXCEPT !.raising = "error", !.pc = "except"]
  BY <1>1, Parties DEF RunInv, OrderInv, ReceiverInv, EpisodeInv, Fresh, Starting, EpisodeConfigFails, Raise
<1>3. main' \in Mains
  BY <1>2, Parties DEF Mains, Pcs
<1>4. OrderInv'
  BY <1>1, <1>2, SMTT(30) DEF RunInv, OrderInv, RefusalInv, RaisingInv, LateInv, CleanupInv, EpisodeInv, ReceiverInv, NativeInv,
     LogInv, NativeFaultIsNamed,
     TypeInv, Mains, Natives, Hands, Logs, Runtimes, Fresh, Starting, InTry, Loop, Closed, Over, CleanOver
<1> QED
  BY <1>1, <1>2, Parties, <1>3, <1>4 DEF RunInv, TypeInv

\* The cameras, the recorder and the preview, then the forwarder thread.
LEMMA StartEpisodesKeeps ==
  ASSUME RunInv, StartEpisodes
  PROVE  RunInv'
<1>1. plan' = plan /\ faults' \in 0 .. MaxFaults /\ UNCHANGED <<native, hand, recv, log>> /\ main.pc = "episodes"
  BY Parties, Bounds DEF StartEpisodes, Goto, Roles, Processes, Runtimes, Mains
<1>2. \/ main' = [main EXCEPT !.pc = "hand"] /\ ep' = [ep EXCEPT !.runtime = "up", !.forwarder = TRUE]
      \/ main' = [main EXCEPT !.at = main.at + 1] /\ main.at <= 4 /\ \E ps \in SUBSET Processes : ep' = [ep EXCEPT !.procs = ps]
      \/ main' = [main EXCEPT !.pc = "undo"] /\ \E ps \in SUBSET Processes : ep' = [ep EXCEPT !.procs = ps]
  BY <1>1, Parties
     DEF RunInv, OrderInv, ReceiverInv, EpisodeInv, Fresh, Starting, StartEpisodes, Goto, Roles, Processes, Runtimes, Mains
<1>3. CASE main' = [main EXCEPT !.pc = "hand"] /\ ep' = [ep EXCEPT !.runtime = "up", !.forwarder = TRUE]
  <2>1. main' \in Mains
    BY <1>3, Parties DEF Mains, Pcs
  <2>2. ep' \in Runtimes
    BY <1>1, <1>3, Parties DEF Runtimes
  <2>3. OrderInv'
    BY <1>1, <1>3, SMTT(30) DEF RunInv, OrderInv, RefusalInv, RaisingInv, LateInv, CleanupInv, EpisodeInv, ReceiverInv,
       NativeInv, LogInv, NativeFaultIsNamed,
       TypeInv, Mains, Natives, Hands, Logs, Runtimes, Fresh, Starting, InTry, Loop, Closed, Over, CleanOver
  <2> QED
    BY <1>1, <1>3, Parties, <2>1, <2>2, <2>3 DEF RunInv, TypeInv
<1>4. CASE main' = [main EXCEPT !.at = main.at + 1] /\ main.at <= 4
           /\ \E ps \in SUBSET Processes : ep' = [ep EXCEPT !.procs = ps]
  <2>1. main' \in Mains
    BY <1>4, Parties, Bounds DEF Mains
  <2>2. ep' \in Runtimes
    BY <1>1, <1>4, Parties DEF Runtimes
  <2>3. OrderInv'
    BY <1>1, <1>4, SMTT(30) DEF RunInv, OrderInv, RefusalInv, RaisingInv, LateInv, CleanupInv, EpisodeInv, ReceiverInv,
       NativeInv, LogInv, NativeFaultIsNamed,
       TypeInv, Mains, Natives, Hands, Logs, Runtimes, Fresh, Starting, InTry, Loop, Closed, Over, CleanOver
  <2> QED
    BY <1>1, <1>4, Parties, <2>1, <2>2, <2>3 DEF RunInv, TypeInv
<1>5. CASE main' = [main EXCEPT !.pc = "undo"] /\ \E ps \in SUBSET Processes : ep' = [ep EXCEPT !.procs = ps]
  <2>1. main' \in Mains
    BY <1>5, Parties DEF Mains, Pcs
  <2>2. ep' \in Runtimes
    BY <1>1, <1>5, Parties DEF Runtimes
  <2>3. OrderInv'
    BY <1>1, <1>5, SMTT(30) DEF RunInv, OrderInv, RefusalInv, RaisingInv, LateInv, CleanupInv, EpisodeInv, ReceiverInv,
       NativeInv, LogInv, NativeFaultIsNamed,
       TypeInv, Mains, Natives, Hands, Logs, Runtimes, Fresh, Starting, InTry, Loop, Closed, Over, CleanOver
  <2> QED
    BY <1>1, <1>5, Parties, <2>1, <2>2, <2>3 DEF RunInv, TypeInv
<1> QED
  BY <1>2, <1>3, <1>4, <1>5

\* The except clause of EpisodeDataRuntime.start leaves no process.
LEMMA UndoEpisodesKeeps ==
  ASSUME RunInv, UndoEpisodes
  PROVE  RunInv'
<1>1. plan' = plan /\ faults' \in 0 .. MaxFaults /\ UNCHANGED <<native, hand, recv, log>> /\ main.pc = "undo"
      /\ ep' = [ep EXCEPT !.procs = {}]
  BY Parties, Bounds DEF UndoEpisodes, Undo, Raise, Runtimes
<1>2. main' = [main EXCEPT !.raising = "error", !.pc = "except"]
  BY <1>1, Parties DEF RunInv, OrderInv, ReceiverInv, EpisodeInv, Fresh, Starting, UndoEpisodes, Undo, Raise, Runtimes
<1>3. main' \in Mains
  BY <1>2, Parties DEF Mains, Pcs
<1>4. ep' \in Runtimes
  BY <1>1, <1>2, Parties DEF Runtimes
<1>5. OrderInv'
  BY <1>1, <1>2, SMTT(30) DEF RunInv, OrderInv, RefusalInv, RaisingInv, LateInv, CleanupInv, EpisodeInv, ReceiverInv, NativeInv,
     LogInv, NativeFaultIsNamed,
     TypeInv, Mains, Natives, Hands, Logs, Runtimes, Fresh, Starting, InTry, Loop, Closed, Over, CleanOver
<1> QED
  BY <1>1, <1>2, Parties, <1>3, <1>4, <1>5 DEF RunInv, TypeInv

\* RH56PcDirectWorker.start, only for a run with the hand.
LEMMA StartHandKeeps ==
  ASSUME RunInv, StartHand
  PROVE  RunInv'
<1>1. plan' = plan /\ faults' \in 0 .. MaxFaults /\ UNCHANGED <<native, recv, log, ep>> /\ main.pc = "hand"
  BY Parties, Bounds DEF StartHand, Goto, Raise
<1>2. \/ main' = [main EXCEPT !.pc = "native"] /\ UNCHANGED hand
      \/ main' = [main EXCEPT !.pc = "native"] /\ Combined /\ hand' = [hand EXCEPT !.life = "run"]
      \/ main' = [main EXCEPT !.raising = "error", !.pc = "except"] /\ Combined
         /\ hand' = [hand EXCEPT !.life = "failed", !.fault = TRUE]
  BY <1>1, Parties DEF RunInv, OrderInv, ReceiverInv, EpisodeInv, Fresh, Starting, StartHand, Goto, Raise
<1>3. CASE main' = [main EXCEPT !.pc = "native"] /\ UNCHANGED hand
  <2>1. main' \in Mains
    BY <1>3, Parties DEF Mains, Pcs
  <2>2. OrderInv'
    BY <1>1, <1>3, SMTT(30) DEF RunInv, OrderInv, RefusalInv, RaisingInv, LateInv, CleanupInv, EpisodeInv, ReceiverInv,
       NativeInv, LogInv, NativeFaultIsNamed,
       TypeInv, Mains, Natives, Hands, Logs, Runtimes, Fresh, Starting, InTry, Loop, Closed, Over, CleanOver
  <2> QED
    BY <1>1, <1>3, Parties, <2>1, <2>2 DEF RunInv, TypeInv
<1>4. CASE main' = [main EXCEPT !.pc = "native"] /\ Combined /\ hand' = [hand EXCEPT !.life = "run"]
  <2>1. main' \in Mains
    BY <1>4, Parties DEF Mains, Pcs
  <2>2. hand' \in Hands
    BY <1>1, <1>4, Parties DEF Hands
  <2>3. OrderInv'
    BY <1>1, <1>4, SMTT(30) DEF RunInv, OrderInv, RefusalInv, RaisingInv, LateInv, CleanupInv, EpisodeInv, ReceiverInv,
       NativeInv, LogInv, NativeFaultIsNamed,
       TypeInv, Mains, Natives, Hands, Logs, Runtimes, Fresh, Starting, InTry, Loop, Closed, Over, CleanOver
  <2> QED
    BY <1>1, <1>4, Parties, <2>1, <2>2, <2>3 DEF RunInv, TypeInv
<1>5. CASE main' = [main EXCEPT !.raising = "error", !.pc = "except"] /\ Combined
           /\ hand' = [hand EXCEPT !.life = "failed", !.fault = TRUE]
  <2>1. main' \in Mains
    BY <1>5, Parties DEF Mains, Pcs
  <2>2. hand' \in Hands
    BY <1>1, <1>5, Parties DEF Hands
  <2>3. OrderInv'
    BY <1>1, <1>5, SMTT(30) DEF RunInv, OrderInv, RefusalInv, RaisingInv, LateInv, CleanupInv, EpisodeInv, ReceiverInv,
       NativeInv, LogInv, NativeFaultIsNamed,
       TypeInv, Mains, Natives, Hands, Logs, Runtimes, Fresh, Starting, InTry, Loop, Closed, Over, CleanOver
  <2> QED
    BY <1>1, <1>5, Parties, <2>1, <2>2, <2>3 DEF RunInv, TypeInv
<1> QED
  BY <1>2, <1>3, <1>4, <1>5

\* NativeWorkerProcess.start.
LEMMA StartNativeKeeps ==
  ASSUME RunInv, StartNative
  PROVE  RunInv'
<1>1. plan' = plan /\ faults' \in 0 .. MaxFaults /\ UNCHANGED <<hand, recv, log, ep>> /\ main.pc = "native"
      /\ native' = [native EXCEPT !.life = "run"]
  BY Parties, Bounds DEF StartNative, Goto
<1>2. main' = [main EXCEPT !.pc = "wait"]
  BY <1>1, Parties DEF RunInv, OrderInv, ReceiverInv, EpisodeInv, Fresh, Starting, StartNative, Goto
<1>3. main' \in Mains
  BY <1>2, Parties DEF Mains, Pcs
<1>4. native' \in Natives
  BY <1>1, <1>2, Parties DEF Natives
<1>5. OrderInv'
  BY <1>1, <1>2, SMTT(30) DEF RunInv, OrderInv, RefusalInv, RaisingInv, LateInv, CleanupInv, EpisodeInv, ReceiverInv, NativeInv,
     LogInv, NativeFaultIsNamed,
     TypeInv, Mains, Natives, Hands, Logs, Runtimes, Fresh, Starting, InTry, Loop, Closed, Over, CleanOver
<1> QED
  BY <1>1, <1>2, Parties, <1>3, <1>4, <1>5 DEF RunInv, TypeInv

\* _wait_status: the worker is ready, or the run raises before the receiver is started.
LEMMA WaitStatusKeeps ==
  ASSUME RunInv, WaitStatus
  PROVE  RunInv'
<1>1. plan' = plan /\ faults' \in 0 .. MaxFaults /\ UNCHANGED <<native, hand, recv, log, ep>> /\ main.pc = "wait"
  BY Parties, Bounds DEF WaitStatus, Goto, Raise
<1>2. \/ main' = [main EXCEPT !.pc = "receiver"]
      \/ main' = [main EXCEPT !.raising = "error", !.pc = "except"]
  BY <1>1, Parties DEF RunInv, OrderInv, ReceiverInv, EpisodeInv, Fresh, Starting, WaitStatus, Goto, Raise
<1>3. CASE main' = [main EXCEPT !.pc = "receiver"]
  <2>1. main' \in Mains
    BY <1>3, Parties DEF Mains, Pcs
  <2>2. OrderInv'
    BY <1>1, <1>3, SMTT(30) DEF RunInv, OrderInv, RefusalInv, RaisingInv, LateInv, CleanupInv, EpisodeInv, ReceiverInv,
       NativeInv, LogInv, NativeFaultIsNamed,
       TypeInv, Mains, Natives, Hands, Logs, Runtimes, Fresh, Starting, InTry, Loop, Closed, Over, CleanOver
  <2> QED
    BY <1>1, <1>3, Parties, <2>1, <2>2 DEF RunInv, TypeInv
<1>4. CASE main' = [main EXCEPT !.raising = "error", !.pc = "except"]
  <2>1. main' \in Mains
    BY <1>4, Parties DEF Mains, Pcs
  <2>2. OrderInv'
    BY <1>1, <1>4, SMTT(30) DEF RunInv, OrderInv, RefusalInv, RaisingInv, LateInv, CleanupInv, EpisodeInv, ReceiverInv,
       NativeInv, LogInv, NativeFaultIsNamed,
       TypeInv, Mains, Natives, Hands, Logs, Runtimes, Fresh, Starting, InTry, Loop, Closed, Over, CleanOver
  <2> QED
    BY <1>1, <1>4, Parties, <2>1, <2>2 DEF RunInv, TypeInv
<1> QED
  BY <1>2, <1>3, <1>4

\* The receiver and the event log are started together.
LEMMA StartReceiverKeeps ==
  ASSUME RunInv, StartReceiver
  PROVE  RunInv'
<1>1. plan' = plan /\ faults' \in 0 .. MaxFaults /\ UNCHANGED <<native, hand, ep>> /\ main.pc = "receiver" /\ recv' = "run"
  BY Parties, Bounds DEF StartReceiver, Goto, OpenLog
<1>2. \/ main' = [main EXCEPT !.pc = "check"] /\ log' = [log EXCEPT !.thread = "run", !.file = "open"]
      \/ main' = [main EXCEPT !.pc = "check"] /\ log' = [log EXCEPT !.errors = @ + 1]
  BY <1>1, Parties DEF RunInv, OrderInv, ReceiverInv, EpisodeInv, Fresh, Starting, StartReceiver, Goto, OpenLog
<1>3. CASE main' = [main EXCEPT !.pc = "check"] /\ log' = [log EXCEPT !.thread = "run", !.file = "open"]
  <2>1. main' \in Mains
    BY <1>3, Parties DEF Mains, Pcs, Loop
  <2>2. log' \in Logs
    BY <1>1, <1>3, Parties, Counts DEF Logs
  <2>3. OrderInv'
    BY <1>1, <1>3, SMTT(30) DEF RunInv, OrderInv, RefusalInv, RaisingInv, LateInv, CleanupInv, EpisodeInv, ReceiverInv,
       NativeInv, LogInv, NativeFaultIsNamed,
       TypeInv, Mains, Natives, Hands, Logs, Runtimes, Fresh, Starting, InTry, Loop, Closed, Over, CleanOver
  <2> QED
    BY <1>1, <1>3, Parties, <2>1, <2>2, <2>3 DEF RunInv, TypeInv
<1>4. CASE main' = [main EXCEPT !.pc = "check"] /\ log' = [log EXCEPT !.errors = @ + 1]
  <2>1. main' \in Mains
    BY <1>4, Parties DEF Mains, Pcs, Loop
  <2>2. log' \in Logs
    BY <1>1, <1>4, Parties, Counts DEF Logs
  <2>3. OrderInv'
    BY <1>1, <1>4, SMTT(30) DEF RunInv, OrderInv, RefusalInv, RaisingInv, LateInv, CleanupInv, EpisodeInv, ReceiverInv,
       NativeInv, LogInv, NativeFaultIsNamed,
       TypeInv, Mains, Natives, Hands, Logs, Runtimes, Fresh, Starting, InTry, Loop, Closed, Over, CleanOver
  <2> QED
    BY <1>1, <1>4, Parties, <2>1, <2>2, <2>3 DEF RunInv, TypeInv
<1> QED
  BY <1>2, <1>3, <1>4

\* The top of an iteration: no tick begins under a failed hand, and a worker
\* exit is named by the metrics it left.
LEMMA CheckKeeps ==
  ASSUME RunInv, Check
  PROVE  RunInv'
<1>1. plan' = plan /\ faults' \in 0 .. MaxFaults /\ UNCHANGED <<recv, log>> /\ main.pc = "check"
  BY Parties, Bounds DEF Check, Goto, Natives, Runtimes, Mains, Sends, Raise, StopAdapter, ClassifyExit, Terminal, HandFailed
<1>2. \/ main' = [main EXCEPT !.pc = "leave"] /\ UNCHANGED <<native, hand, ep>>
      \/ main' = [main EXCEPT !.abort = "hand_fault", !.stop = "hand_fault", !.stopped = TRUE, !.pc = "leave"]
         /\ UNCHANGED <<hand, ep>> /\ (native' = native \/ native' = [native EXCEPT !.told = TRUE])
      \/ \E why \in {"worker_exit", "native_fault"} : main' = [main EXCEPT !.abort = why, !.stop = why, !.stopped = TRUE, !.pc = "leave"] /\ (why = "worker_exit" => native.metrics # "native_fault")
        /\ native.life = "exited" /\ UNCHANGED <<native, ep>>
           /\ hand' = (IF Combined THEN [hand EXCEPT !.order = "terminal"] ELSE hand)
      \/ main' = [main EXCEPT !.raising = "error", !.pc = "leave"] /\ UNCHANGED <<native, hand, ep>>
      \/ \E f \in BOOLEAN : main' = [main EXCEPT !.pc = "control", !.ticks = main.ticks + 1] /\ main.ticks < MaxTicks
         /\ ~HandFailed /\ ep' = [ep EXCEPT !.failed = f] /\ UNCHANGED <<native, hand>>
  <2>1. \/ Goto("leave") /\ UNCHANGED <<native, hand, ep>>
        \/ StopAdapter /\ UNCHANGED <<hand, ep>>
           /\ main' = [main EXCEPT !.abort = "hand_fault", !.stop = "hand_fault", !.stopped = TRUE, !.pc = "leave"]
        \/ /\ native.life = "exited" /\ hand' = Terminal(hand) /\ UNCHANGED <<native, ep>>
           /\ main' = [main EXCEPT !.abort = ClassifyExit, !.stop = ClassifyExit, !.stopped = TRUE, !.pc = "leave"]
        \/ recv = "failed" /\ Raise("error") /\ UNCHANGED <<native, hand, ep>>
        \/ /\ main.ticks < MaxTicks /\ ~HandFailed /\ UNCHANGED <<native, hand>>
           /\ ep' = [ep EXCEPT !.failed = @ \/ (ep.runtime = "up" /\ ep.state = "DONE")]
           /\ main' = [main EXCEPT !.pc = "control", !.ticks = @ + 1]
    BY Zenon DEF Check
  <2>2. CASE Goto("leave") /\ UNCHANGED <<native, hand, ep>>
    BY <2>2 DEF Goto
  <2>3. CASE StopAdapter /\ UNCHANGED <<hand, ep>>
             /\ main' = [main EXCEPT !.abort = "hand_fault", !.stop = "hand_fault", !.stopped = TRUE, !.pc = "leave"]
    BY <2>3 DEF StopAdapter, Sends
  <2>4. CASE /\ native.life = "exited" /\ hand' = Terminal(hand) /\ UNCHANGED <<native, ep>>
             /\ main' = [main EXCEPT !.abort = ClassifyExit, !.stop = ClassifyExit, !.stopped = TRUE, !.pc = "leave"]
    <3> DEFINE why == ClassifyExit
    <3>1. why \in {"worker_exit", "native_fault"} /\ (why = "worker_exit" => native.metrics # "native_fault")
      BY Parties DEF ClassifyExit, RunInv, OrderInv, NativeInv
    <3> HIDE DEF why
    <3> QED
      BY <2>4, <3>1 DEF Terminal, why
  <2>5. CASE recv = "failed" /\ Raise("error") /\ UNCHANGED <<native, hand, ep>>
    BY <2>5 DEF Raise
  <2>6. CASE /\ main.ticks < MaxTicks /\ ~HandFailed /\ UNCHANGED <<native, hand>>
             /\ ep' = [ep EXCEPT !.failed = @ \/ (ep.runtime = "up" /\ ep.state = "DONE")]
             /\ main' = [main EXCEPT !.pc = "control", !.ticks = @ + 1]
    <3> DEFINE f == ep.failed \/ (ep.runtime = "up" /\ ep.state = "DONE")
    <3>1. f \in BOOLEAN
      BY Parties DEF Runtimes
    <3>2. ep' = [ep EXCEPT !.failed = f] /\ main' = [main EXCEPT !.pc = "control", !.ticks = main.ticks + 1]
      BY <2>6
    <3> HIDE DEF f
    <3> QED
      BY <2>6, <3>1, <3>2
  <2> QED
    BY <2>1, <2>2, <2>3, <2>4, <2>5, <2>6
<1>3. CASE main' = [main EXCEPT !.pc = "leave"] /\ UNCHANGED <<native, hand, ep>>
  <2>1. main' \in Mains
    BY <1>3, Parties DEF Mains, Pcs
  <2>2. OrderInv'
    BY <1>1, <1>3, SMTT(30) DEF RunInv, OrderInv, RefusalInv, RaisingInv, LateInv, CleanupInv, EpisodeInv, ReceiverInv,
       NativeInv, LogInv, NativeFaultIsNamed,
       TypeInv, Mains, Natives, Hands, Logs, Runtimes, Fresh, Starting, InTry, Loop, Closed, Over, CleanOver
  <2> QED
    BY <1>1, <1>3, Parties, <2>1, <2>2 DEF RunInv, TypeInv
<1>4. CASE main' = [main EXCEPT !.abort = "hand_fault", !.stop = "hand_fault", !.stopped = TRUE, !.pc = "leave"]
           /\ UNCHANGED <<hand, ep>> /\ (native' = native \/ native' = [native EXCEPT !.told = TRUE])
  <2>1. main' \in Mains
    BY <1>4, Parties, ZenonT(60) DEF Mains, Pcs, StopReasons, AbortReasons
  <2>2. native' \in Natives
    BY <1>1, <1>4, Parties DEF Natives
  <2>3. OrderInv'
    BY <1>1, <1>4, SMTT(30) DEF RunInv, OrderInv, RefusalInv, RaisingInv, LateInv, CleanupInv, EpisodeInv, ReceiverInv,
       NativeInv, LogInv, NativeFaultIsNamed,
       TypeInv, Mains, Natives, Hands, Logs, Runtimes, Fresh, Starting, InTry, Loop, Closed, Over, CleanOver
  <2> QED
    BY <1>1, <1>4, Parties, <2>1, <2>2, <2>3 DEF RunInv, TypeInv
<1>5. ASSUME NEW why \in {"worker_exit", "native_fault"},
             main' = [main EXCEPT !.abort = why, !.stop = why, !.stopped = TRUE, !.pc = "leave"]
             /\ (why = "worker_exit" => native.metrics # "native_fault")
        /\ native.life = "exited" /\ UNCHANGED <<native, ep>>
           /\ hand' = (IF Combined THEN [hand EXCEPT !.order = "terminal"] ELSE hand)
      PROVE  RunInv'
  <2>1. main' \in Mains
    BY <1>5, Parties, ZenonT(60) DEF Mains, Pcs, StopReasons, AbortReasons
  <2>2. hand' \in Hands
    BY <1>1, <1>5, Parties DEF Hands
  <2>3. OrderInv'
    BY <1>1, <1>5, SMTT(30) DEF RunInv, OrderInv, RefusalInv, RaisingInv, LateInv, CleanupInv, EpisodeInv, ReceiverInv,
       NativeInv, LogInv, NativeFaultIsNamed,
       TypeInv, Mains, Natives, Hands, Logs, Runtimes, Fresh, Starting, InTry, Loop, Closed, Over, CleanOver
  <2> QED
    BY <1>1, <1>5, Parties, <2>1, <2>2, <2>3 DEF RunInv, TypeInv
<1>6. CASE main' = [main EXCEPT !.raising = "error", !.pc = "leave"] /\ UNCHANGED <<native, hand, ep>>
  <2>1. main' \in Mains
    BY <1>6, Parties DEF Mains, Pcs
  <2>2. OrderInv'
    BY <1>1, <1>6, SMTT(30) DEF RunInv, OrderInv, RefusalInv, RaisingInv, LateInv, CleanupInv, EpisodeInv, ReceiverInv,
       NativeInv, LogInv, NativeFaultIsNamed,
       TypeInv, Mains, Natives, Hands, Logs, Runtimes, Fresh, Starting, InTry, Loop, Closed, Over, CleanOver
  <2> QED
    BY <1>1, <1>6, Parties, <2>1, <2>2 DEF RunInv, TypeInv
<1>7. ASSUME NEW f \in BOOLEAN, main' = [main EXCEPT !.pc = "control", !.ticks = main.ticks + 1] /\ main.ticks < MaxTicks
             /\ ~HandFailed /\ ep' = [ep EXCEPT !.failed = f] /\ UNCHANGED <<native, hand>>
      PROVE  RunInv'
  <2>1. main' \in Mains
    <3>1. main.ticks + 1 \in 0 .. MaxTicks
      BY <1>7, Parties, Bounds DEF Mains
    <3> QED
      BY <1>7, <3>1, Parties DEF Mains, Pcs, Loop
  <2>2. ep' \in Runtimes
    BY <1>1, <1>7, Parties DEF Runtimes
  <2>3. OrderInv'
    BY <1>1, <1>7, SMTT(30) DEF RunInv, OrderInv, RefusalInv, RaisingInv, LateInv, CleanupInv, EpisodeInv, ReceiverInv,
       NativeInv, LogInv, NativeFaultIsNamed,
       TypeInv, Mains, Natives, Hands, Logs, Runtimes, Fresh, Starting, InTry, Loop, Closed, Over, CleanOver
  <2> QED
    BY <1>1, <1>7, Parties, <2>1, <2>2, <2>3 DEF RunInv, TypeInv
<1> QED
  BY <1>2, <1>3, <1>4, <1>5, <1>6, <1>7

\* A tick may send one target under a hand that failed after the check; the
\* next check ends the loop.
LEMMA ControlKeeps ==
  ASSUME RunInv, Control
  PROVE  RunInv'
<1>1. plan' = plan /\ faults' \in 0 .. MaxFaults /\ UNCHANGED <<native, hand, recv, log, ep>> /\ main.pc = "control"
  <2>1. plan' = plan /\ UNCHANGED <<native, hand, recv, log, ep>> /\ main.pc = "control"
    BY Zenon DEF Control, Goto, Raise, Sends
  <2>2. faults' = faults \/ (faults < MaxFaults /\ faults' = faults + 1)
    BY Zenon DEF Control, Goto, Raise, Sends
  <2> QED
    BY <2>1, <2>2, Parties, Bounds
<1>2. \/ \E kind \in {"target", "heartbeat"}, e \in BOOLEAN : main' = [main EXCEPT !.pc = "poll_rc", !.tick = kind, !.engaged = e]
      \/ \E kind \in {"target", "heartbeat"}, e \in BOOLEAN, n \in {0, 1} : main' = [main EXCEPT !.pc = "edge", !.tick = kind, !.engaged = e, !.late = n] /\ (n = main.late \/ hand.life = "failed")
      \/ main' = [main EXCEPT !.pc = "edge", !.tick = "disengaged", !.engaged = FALSE]
      \/ main' = [main EXCEPT !.pc = "poll_rc", !.tick = "hard_stop", !.engaged = FALSE]
      \/ main' = [main EXCEPT !.raising = "error", !.pc = "leave"]
  <2>1. ASSUME NEW kind \in {"target", "heartbeat"}, NEW ok \in BOOLEAN,
               main' = [main EXCEPT !.pc = IF ok THEN "edge" ELSE "poll_rc", !.tick = kind, !.engaged = kind = "target",
                                    !.late = IF ok /\ kind = "target" /\ hand.life = "failed" /\ @ < 2 THEN @ + 1 ELSE @]
        PROVE  \/ \E e \in BOOLEAN : main' = [main EXCEPT !.pc = "poll_rc", !.tick = kind, !.engaged = e]
               \/ \E e \in BOOLEAN, n \in {0, 1} :
                     /\ main' = [main EXCEPT !.pc = "edge", !.tick = kind, !.engaged = e, !.late = n]
                     /\ n = main.late \/ hand.life = "failed"
    <3> DEFINE e == kind = "target"
               n == IF ok /\ kind = "target" /\ hand.life = "failed" /\ main.late < 2 THEN main.late + 1 ELSE main.late
    <3>1. e \in BOOLEAN
      OBVIOUS
    <3>2. main.late = 0
      BY <1>1, Parties DEF Mains, RunInv, OrderInv, LateInv
    <3>3. n \in {0, 1} /\ (n = main.late \/ hand.life = "failed") /\ (~ok => n = main.late)
      BY <3>2
    <3>4. main' = [main EXCEPT !.pc = IF ok THEN "edge" ELSE "poll_rc", !.tick = kind, !.engaged = e, !.late = n]
      BY <2>1, Zenon
    <3> HIDE DEF e, n
    <3>5. CASE ok
      BY <3>1, <3>3, <3>4, <3>5
    <3>6. CASE ~ok
      <4>1. main' = [main EXCEPT !.pc = "poll_rc", !.tick = kind, !.engaged = e, !.late = main.late]
        BY <3>3, <3>4, <3>6
      <4>2. main' = [main EXCEPT !.pc = "poll_rc", !.tick = kind, !.engaged = e]
        BY <4>1, Parties DEF Mains
      <4> QED
        BY <3>1, <4>2
    <3> QED
      BY <3>5, <3>6
  <2>2. \/ \E kind \in {"target", "heartbeat"}, ok \in BOOLEAN :
              main' = [main EXCEPT !.pc = IF ok THEN "edge" ELSE "poll_rc", !.tick = kind, !.engaged = kind = "target",
                                   !.late = IF ok /\ kind = "target" /\ hand.life = "failed" /\ @ < 2 THEN @ + 1 ELSE @]
        \/ main' = [main EXCEPT !.pc = "edge", !.tick = "disengaged", !.engaged = FALSE]
        \/ main' = [main EXCEPT !.pc = "poll_rc", !.tick = "hard_stop", !.engaged = FALSE]
        \/ Raise("error")
    BY Zenon DEF Control
  <2>3. CASE Raise("error")
    <3>1. recv # "off"
      BY <1>1 DEF RunInv, OrderInv, ReceiverInv, Loop
    <3> QED
      BY <2>3, <3>1, Zenon DEF Raise
  <2>4. CASE \E kind \in {"target", "heartbeat"}, ok \in BOOLEAN :
               main' = [main EXCEPT !.pc = IF ok THEN "edge" ELSE "poll_rc", !.tick = kind, !.engaged = kind = "target",
                                    !.late = IF ok /\ kind = "target" /\ hand.life = "failed" /\ @ < 2 THEN @ + 1 ELSE @]
    BY <2>1, <2>4, Zenon
  <2> QED
    BY <2>2, <2>3, <2>4
<1>3. ASSUME NEW kind \in {"target", "heartbeat"}, NEW e \in BOOLEAN,
             main' = [main EXCEPT !.pc = "poll_rc", !.tick = kind, !.engaged = e]
      PROVE  RunInv'
  <2>1. main' \in Mains
    BY <1>3, Parties, ZenonT(60) DEF Mains, Pcs, Loop, Ticks
  <2>2. OrderInv'
    BY <1>1, <1>3, SMTT(30) DEF RunInv, OrderInv, RefusalInv, RaisingInv, LateInv, CleanupInv, EpisodeInv, ReceiverInv,
       NativeInv, LogInv, NativeFaultIsNamed,
       TypeInv, Mains, Natives, Hands, Logs, Runtimes, Fresh, Starting, InTry, Loop, Closed, Over, CleanOver
  <2> QED
    BY <1>1, <1>3, Parties, <2>1, <2>2 DEF RunInv, TypeInv
<1>4. ASSUME NEW kind \in {"target", "heartbeat"}, NEW e \in BOOLEAN, NEW n \in {0, 1},
             main' = [main EXCEPT !.pc = "edge", !.tick = kind, !.engaged = e, !.late = n]
             /\ (n = main.late \/ hand.life = "failed")
      PROVE  RunInv'
  <2>1. main' \in Mains
    <3>1. main' = [main EXCEPT !.pc = "edge", !.tick = kind, !.engaged = e, !.late = n]
      BY <1>4
    <3>2. main \in Mains
      BY Parties
    <3> QED
      BY <3>1, <3>2, ZenonT(60) DEF Mains, Pcs, Loop, Ticks
  <2>2. OrderInv'
    BY <1>1, <1>4, SMTT(30) DEF RunInv, OrderInv, RefusalInv, RaisingInv, LateInv, CleanupInv, EpisodeInv, ReceiverInv,
       NativeInv, LogInv, NativeFaultIsNamed,
       TypeInv, Mains, Natives, Hands, Logs, Runtimes, Fresh, Starting, InTry, Loop, Closed, Over, CleanOver
  <2> QED
    BY <1>1, <1>4, Parties, <2>1, <2>2 DEF RunInv, TypeInv
<1>5. CASE main' = [main EXCEPT !.pc = "edge", !.tick = "disengaged", !.engaged = FALSE]
  <2>1. main' \in Mains
    BY <1>5, Parties, ZenonT(60) DEF Mains, Pcs, Loop, Ticks
  <2>2. OrderInv'
    BY <1>1, <1>5, SMTT(30) DEF RunInv, OrderInv, RefusalInv, RaisingInv, LateInv, CleanupInv, EpisodeInv, ReceiverInv,
       NativeInv, LogInv, NativeFaultIsNamed,
       TypeInv, Mains, Natives, Hands, Logs, Runtimes, Fresh, Starting, InTry, Loop, Closed, Over, CleanOver
  <2> QED
    BY <1>1, <1>5, Parties, <2>1, <2>2 DEF RunInv, TypeInv
<1>6. CASE main' = [main EXCEPT !.pc = "poll_rc", !.tick = "hard_stop", !.engaged = FALSE]
  <2>1. main' \in Mains
    BY <1>6, Parties, ZenonT(60) DEF Mains, Pcs, Loop, Ticks
  <2>2. OrderInv'
    BY <1>1, <1>6, SMTT(30) DEF RunInv, OrderInv, RefusalInv, RaisingInv, LateInv, CleanupInv, EpisodeInv, ReceiverInv,
       NativeInv, LogInv, NativeFaultIsNamed,
       TypeInv, Mains, Natives, Hands, Logs, Runtimes, Fresh, Starting, InTry, Loop, Closed, Over, CleanOver
  <2> QED
    BY <1>1, <1>6, Parties, <2>1, <2>2 DEF RunInv, TypeInv
<1>7. CASE main' = [main EXCEPT !.raising = "error", !.pc = "leave"]
  <2>1. main' \in Mains
    BY <1>7, Parties DEF Mains, Pcs
  <2>2. OrderInv'
    BY <1>1, <1>7, SMTT(30) DEF RunInv, OrderInv, RefusalInv, RaisingInv, LateInv, CleanupInv, EpisodeInv, ReceiverInv,
       NativeInv, LogInv, NativeFaultIsNamed,
       TypeInv, Mains, Natives, Hands, Logs, Runtimes, Fresh, Starting, InTry, Loop, Closed, Over, CleanOver
  <2> QED
    BY <1>1, <1>7, Parties, <2>1, <2>2 DEF RunInv, TypeInv
<1> QED
  BY <1>2, <1>3, <1>4, <1>5, <1>6, <1>7

\* The return code is read first ...
LEMMA PollReturnCodeKeeps ==
  ASSUME RunInv, PollReturnCode
  PROVE  RunInv'
<1>1. plan' = plan /\ faults' \in 0 .. MaxFaults /\ UNCHANGED <<native, hand, recv, log, ep>> /\ main.pc = "poll_rc"
  BY Parties, Bounds DEF PollReturnCode
<1>2. \E e \in BOOLEAN : main' = [main EXCEPT !.pc = "read_metrics", !.rc = e] /\ (e => native.life = "exited")
  BY <1>1, Parties DEF RunInv, OrderInv, ReceiverInv, EpisodeInv, Fresh, Starting, PollReturnCode
<1>3. ASSUME NEW e \in BOOLEAN, main' = [main EXCEPT !.pc = "read_metrics", !.rc = e] /\ (e => native.life = "exited")
      PROVE  RunInv'
  <2>1. main' \in Mains
    BY <1>3, Parties DEF Mains, Pcs, Loop
  <2>2. OrderInv'
    BY <1>1, <1>3, SMTT(30) DEF RunInv, OrderInv, RefusalInv, RaisingInv, LateInv, CleanupInv, EpisodeInv, ReceiverInv,
       NativeInv, LogInv, NativeFaultIsNamed,
       TypeInv, Mains, Natives, Hands, Logs, Runtimes, Fresh, Starting, InTry, Loop, Closed, Over, CleanOver
  <2> QED
    BY <1>1, <1>3, Parties, <2>1, <2>2 DEF RunInv, TypeInv
<1> QED
  BY <1>2, <1>3

\* ... the metrics file second ...
LEMMA ReadMetricsKeeps ==
  ASSUME RunInv, ReadMetrics
  PROVE  RunInv'
<1>1. plan' = plan /\ faults' \in 0 .. MaxFaults /\ UNCHANGED <<native, hand, recv, log, ep>> /\ main.pc = "read_metrics"
  BY Parties, Bounds DEF ReadMetrics
<1>2. \E e \in BOOLEAN : main' = [main EXCEPT !.pc = "classify", !.typed = e]
  BY <1>1, Parties DEF RunInv, OrderInv, ReceiverInv, EpisodeInv, Fresh, Starting, ReadMetrics
<1>3. ASSUME NEW e \in BOOLEAN, main' = [main EXCEPT !.pc = "classify", !.typed = e]
      PROVE  RunInv'
  <2>1. main' \in Mains
    BY <1>3, Parties DEF Mains, Pcs, Loop
  <2>2. OrderInv'
    BY <1>1, <1>3, SMTT(30) DEF RunInv, OrderInv, RefusalInv, RaisingInv, LateInv, CleanupInv, EpisodeInv, ReceiverInv,
       NativeInv, LogInv, NativeFaultIsNamed,
       TypeInv, Mains, Natives, Hands, Logs, Runtimes, Fresh, Starting, InTry, Loop, Closed, Over, CleanOver
  <2> QED
    BY <1>1, <1>3, Parties, <2>1, <2>2 DEF RunInv, TypeInv
<1> QED
  BY <1>2, <1>3

\* ... and the reason a failed dispatch gets stops the adapter and the hand.
LEMMA ClassifyKeeps ==
  ASSUME RunInv, Classify
  PROVE  RunInv'
<1>1. plan' = plan /\ faults' \in 0 .. MaxFaults /\ UNCHANGED <<recv, log, ep>> /\ main.pc = "classify"
      /\ (native' = native \/ native' = [native EXCEPT !.told = TRUE])
         /\ hand' = (IF Combined THEN [hand EXCEPT !.order = "terminal"] ELSE hand)
  BY Parties, Bounds DEF Classify, StopAdapter, Sends, Terminal
<1>2. \E why \in AbortReasons : main' = [main EXCEPT !.pc = "record", !.abort = why, !.stop = why, !.stopped = TRUE, !.prior = main.engaged] /\ (why = "worker_exit" => native.life = "exited" /\ native.metrics # "native_fault")
  <2> DEFINE reason == CASE main.rc -> ClassifyExit
                         [] ~main.rc /\ main.typed -> "native_fault"
                         [] ~main.rc /\ ~main.typed /\ main.tick = "hard_stop" -> "hard_stop"
                         [] ~main.rc /\ ~main.typed /\ main.tick = "heartbeat" -> "heartbeat_transport"
                         [] OTHER -> "IPC_failure"
  <2>1. main' = [main EXCEPT !.pc = "record", !.abort = reason, !.stop = reason, !.stopped = TRUE, !.prior = main.engaged]
    BY Zenon DEF Classify
  <2>2. reason \in AbortReasons /\ (reason = "worker_exit" => native.life = "exited" /\ native.metrics # "native_fault")
    <3>1. main.rc => native.life = "exited"
      BY <1>1, RunFacts
    <3>2. ClassifyExit \in {"worker_exit", "native_fault"} /\ (ClassifyExit = "worker_exit" => native.metrics # "native_fault")
      BY RunFacts DEF ClassifyExit
    <3>3. CASE main.rc
      BY <3>1, <3>2, <3>3 DEF AbortReasons
    <3>4. CASE ~main.rc
      BY <3>4 DEF AbortReasons
    <3> QED
      BY <3>3, <3>4
  <2> HIDE DEF reason
  <2> QED
    BY <2>1, <2>2
<1>3. ASSUME NEW why \in AbortReasons,
             main' = [main EXCEPT !.pc = "record", !.abort = why, !.stop = why, !.stopped = TRUE, !.prior = main.engaged]
             /\ (why = "worker_exit" => native.life = "exited" /\ native.metrics # "native_fault")
      PROVE  RunInv'
  <2>1. main' \in Mains
    BY <1>3, Parties DEF Mains, Pcs, Loop, StopReasons
  <2>2. native' \in Natives
    BY <1>1, <1>3, Parties DEF Natives
  <2>3. hand' \in Hands
    BY <1>1, <1>3, Parties DEF Hands
  <2>4. OrderInv'
    BY <1>1, <1>3, SMTT(30) DEF RunInv, OrderInv, RefusalInv, RaisingInv, LateInv, CleanupInv, EpisodeInv, ReceiverInv,
       NativeInv, LogInv, NativeFaultIsNamed,
       TypeInv, Mains, Natives, Hands, Logs, Runtimes, Fresh, Starting, InTry, Loop, Closed, Over, CleanOver
  <2> QED
    BY <1>1, <1>3, Parties, <2>1, <2>2, <2>3, <2>4 DEF RunInv, TypeInv
<1> QED
  BY <1>2, <1>3

\* The release edge, and the pause that could not be sent.
LEMMA EdgeKeeps ==
  ASSUME RunInv, Edge
  PROVE  RunInv'
<1>1. plan' = plan /\ faults' \in 0 .. MaxFaults /\ UNCHANGED <<native, hand, recv, log, ep>> /\ main.pc = "edge"
  <2>1. plan' = plan /\ UNCHANGED <<native, hand, recv, log, ep>> /\ main.pc = "edge"
    BY Zenon DEF Edge, Sends
  <2>2. faults' = faults \/ (faults < MaxFaults /\ faults' = faults + 1)
    BY Zenon DEF Edge, Sends
  <2> QED
    BY <2>1, <2>2, Parties, Bounds
<1>2. \/ main' = [main EXCEPT !.pc = "record", !.prior = main.engaged]
      \/ main' = [main EXCEPT !.pc = "record", !.prior = FALSE]
      \/ main' = [main EXCEPT !.pc = "record", !.prior = FALSE, !.abort = "pause_transport", !.stop = "pause_transport"]
  BY <1>1, Parties, ZenonT(60) DEF RunInv, OrderInv, ReceiverInv, EpisodeInv, Fresh, Starting, Edge, Sends
<1>3. CASE main' = [main EXCEPT !.pc = "record", !.prior = main.engaged]
  <2>1. main' \in Mains
    BY <1>3, Parties DEF Mains, Pcs, Loop
  <2>2. OrderInv'
    BY <1>1, <1>3, SMTT(30) DEF RunInv, OrderInv, RefusalInv, RaisingInv, LateInv, CleanupInv, EpisodeInv, ReceiverInv,
       NativeInv, LogInv, NativeFaultIsNamed,
       TypeInv, Mains, Natives, Hands, Logs, Runtimes, Fresh, Starting, InTry, Loop, Closed, Over, CleanOver
  <2> QED
    BY <1>1, <1>3, Parties, <2>1, <2>2 DEF RunInv, TypeInv
<1>4. CASE main' = [main EXCEPT !.pc = "record", !.prior = FALSE]
  <2>1. main' \in Mains
    BY <1>4, Parties DEF Mains, Pcs, Loop
  <2>2. OrderInv'
    BY <1>1, <1>4, SMTT(30) DEF RunInv, OrderInv, RefusalInv, RaisingInv, LateInv, CleanupInv, EpisodeInv, ReceiverInv,
       NativeInv, LogInv, NativeFaultIsNamed,
       TypeInv, Mains, Natives, Hands, Logs, Runtimes, Fresh, Starting, InTry, Loop, Closed, Over, CleanOver
  <2> QED
    BY <1>1, <1>4, Parties, <2>1, <2>2 DEF RunInv, TypeInv
<1>5. CASE main' = [main EXCEPT !.pc = "record", !.prior = FALSE, !.abort = "pause_transport", !.stop = "pause_transport"]
  <2>1. main' \in Mains
    <3>1. "pause_transport" \in AbortReasons /\ "pause_transport" \in StopReasons
      BY DEF AbortReasons, StopReasons
    <3> QED
      BY <1>5, <3>1, Parties, ZenonT(60) DEF Mains, Pcs, Loop
  <2>2. OrderInv'
    BY <1>1, <1>5, SMTT(30) DEF RunInv, OrderInv, RefusalInv, RaisingInv, LateInv, CleanupInv, EpisodeInv, ReceiverInv,
       NativeInv, LogInv, NativeFaultIsNamed,
       TypeInv, Mains, Natives, Hands, Logs, Runtimes, Fresh, Starting, InTry, Loop, Closed, Over, CleanOver
  <2> QED
    BY <1>1, <1>5, Parties, <2>1, <2>2 DEF RunInv, TypeInv
<1> QED
  BY <1>2, <1>3, <1>4, <1>5

\* One sample for the collector.
LEMMA RecordKeeps ==
  ASSUME RunInv, Record
  PROVE  RunInv'
<1>1. plan' = plan /\ faults' \in 0 .. MaxFaults /\ UNCHANGED <<native, hand, recv, log>> /\ main.pc = "record"
  BY Parties, Bounds DEF Record, Goto
<1>2. \/ main' = [main EXCEPT !.pc = "log"] /\ UNCHANGED ep
      \/ main' = [main EXCEPT !.pc = "log"] /\ ep' = [ep EXCEPT !.state = "REC", !.fate = NULL]
      \/ main' = [main EXCEPT !.pc = "log"] /\ ep' = [ep EXCEPT !.state = "IDLE", !.fate = "rotated"]
      \/ main' = [main EXCEPT !.pc = "log"] /\ ep' = [ep EXCEPT !.failed = TRUE]
  BY <1>1, Parties DEF RunInv, OrderInv, ReceiverInv, EpisodeInv, Fresh, Starting, Record, Goto
<1>3. CASE main' = [main EXCEPT !.pc = "log"] /\ UNCHANGED ep
  <2>1. main' \in Mains
    BY <1>3, Parties DEF Mains, Pcs, Loop
  <2>2. OrderInv'
    BY <1>1, <1>3, SMTT(30) DEF RunInv, OrderInv, RefusalInv, RaisingInv, LateInv, CleanupInv, EpisodeInv, ReceiverInv,
       NativeInv, LogInv, NativeFaultIsNamed,
       TypeInv, Mains, Natives, Hands, Logs, Runtimes, Fresh, Starting, InTry, Loop, Closed, Over, CleanOver
  <2> QED
    BY <1>1, <1>3, Parties, <2>1, <2>2 DEF RunInv, TypeInv
<1>4. CASE main' = [main EXCEPT !.pc = "log"] /\ ep' = [ep EXCEPT !.state = "REC", !.fate = NULL]
  <2>1. main' \in Mains
    BY <1>4, Parties DEF Mains, Pcs, Loop
  <2>2. ep' \in Runtimes
    BY <1>1, <1>4, Parties DEF Runtimes
  <2>3. OrderInv'
    BY <1>1, <1>4, SMTT(30) DEF RunInv, OrderInv, RefusalInv, RaisingInv, LateInv, CleanupInv, EpisodeInv, ReceiverInv,
       NativeInv, LogInv, NativeFaultIsNamed,
       TypeInv, Mains, Natives, Hands, Logs, Runtimes, Fresh, Starting, InTry, Loop, Closed, Over, CleanOver
  <2> QED
    BY <1>1, <1>4, Parties, <2>1, <2>2, <2>3 DEF RunInv, TypeInv
<1>5. CASE main' = [main EXCEPT !.pc = "log"] /\ ep' = [ep EXCEPT !.state = "IDLE", !.fate = "rotated"]
  <2>1. main' \in Mains
    BY <1>5, Parties DEF Mains, Pcs, Loop
  <2>2. ep' \in Runtimes
    BY <1>1, <1>5, Parties DEF Runtimes
  <2>3. OrderInv'
    BY <1>1, <1>5, SMTT(30) DEF RunInv, OrderInv, RefusalInv, RaisingInv, LateInv, CleanupInv, EpisodeInv, ReceiverInv,
       NativeInv, LogInv, NativeFaultIsNamed,
       TypeInv, Mains, Natives, Hands, Logs, Runtimes, Fresh, Starting, InTry, Loop, Closed, Over, CleanOver
  <2> QED
    BY <1>1, <1>5, Parties, <2>1, <2>2, <2>3 DEF RunInv, TypeInv
<1>6. CASE main' = [main EXCEPT !.pc = "log"] /\ ep' = [ep EXCEPT !.failed = TRUE]
  <2>1. main' \in Mains
    BY <1>6, Parties DEF Mains, Pcs, Loop
  <2>2. ep' \in Runtimes
    BY <1>1, <1>6, Parties DEF Runtimes
  <2>3. OrderInv'
    BY <1>1, <1>6, SMTT(30) DEF RunInv, OrderInv, RefusalInv, RaisingInv, LateInv, CleanupInv, EpisodeInv, ReceiverInv,
       NativeInv, LogInv, NativeFaultIsNamed,
       TypeInv, Mains, Natives, Hands, Logs, Runtimes, Fresh, Starting, InTry, Loop, Closed, Over, CleanOver
  <2> QED
    BY <1>1, <1>6, Parties, <2>1, <2>2, <2>3 DEF RunInv, TypeInv
<1> QED
  BY <1>2, <1>3, <1>4, <1>5, <1>6

\* _AsyncEventLog.write: an event is queued, or dropped and counted.
LEMMA WriteEventKeeps ==
  ASSUME RunInv, WriteEvent
  PROVE  RunInv'
<1>1. plan' = plan /\ faults' \in 0 .. MaxFaults /\ UNCHANGED <<native, hand, recv, ep>> /\ main.pc = "log"
  BY Parties, Bounds DEF WriteEvent, Goto, LogWrite, EventMustBeWritten
<1>2. \/ main' = [main EXCEPT !.pc = "end_tick"] /\ UNCHANGED log
      \/ main' = [main EXCEPT !.pc = "end_tick"] /\ log.thread # "off" /\ log' = [log EXCEPT !.given = @ + 1, !.drops = @ + 1]
      \/ main' = [main EXCEPT !.pc = "end_tick"] /\ log.thread # "off" /\ log.queue # LogCapacity
         /\ log' = [log EXCEPT !.given = @ + 1, !.queue = @ + 1]
  BY <1>1, Parties
     DEF RunInv, OrderInv, ReceiverInv, EpisodeInv, Fresh, Starting, WriteEvent, Goto, LogWrite, EventMustBeWritten
<1>3. CASE main' = [main EXCEPT !.pc = "end_tick"] /\ UNCHANGED log
  <2>1. main' \in Mains
    BY <1>3, Parties DEF Mains, Pcs
  <2>2. OrderInv'
    BY <1>1, <1>3, SMTT(30) DEF RunInv, OrderInv, RefusalInv, RaisingInv, LateInv, CleanupInv, EpisodeInv, ReceiverInv,
       NativeInv, LogInv, NativeFaultIsNamed,
       TypeInv, Mains, Natives, Hands, Logs, Runtimes, Fresh, Starting, InTry, Loop, Closed, Over, CleanOver
  <2> QED
    BY <1>1, <1>3, Parties, <2>1, <2>2 DEF RunInv, TypeInv
<1>4. CASE main' = [main EXCEPT !.pc = "end_tick"] /\ log.thread # "off" /\ log' = [log EXCEPT !.given = @ + 1, !.drops = @ + 1]
  <2>1. main' \in Mains
    BY <1>4, Parties DEF Mains, Pcs
  <2>2. log' \in Logs
    BY <1>1, <1>4, Parties, Counts DEF Logs
  <2>3. OrderInv'
    BY <1>1, <1>4, SMTT(30) DEF RunInv, OrderInv, RefusalInv, RaisingInv, LateInv, CleanupInv, EpisodeInv, ReceiverInv,
       NativeInv, LogInv, NativeFaultIsNamed,
       TypeInv, Mains, Natives, Hands, Logs, Runtimes, Fresh, Starting, InTry, Loop, Closed, Over, CleanOver
  <2> QED
    BY <1>1, <1>4, Parties, <2>1, <2>2, <2>3 DEF RunInv, TypeInv
<1>5. CASE main' = [main EXCEPT !.pc = "end_tick"] /\ log.thread # "off" /\ log.queue # LogCapacity
           /\ log' = [log EXCEPT !.given = @ + 1, !.queue = @ + 1]
  <2>1. main' \in Mains
    BY <1>5, Parties DEF Mains, Pcs
  <2>2. log' \in Logs
    BY <1>1, <1>5, Parties, Counts DEF Logs
  <2>3. OrderInv'
    BY <1>1, <1>5, SMTT(30) DEF RunInv, OrderInv, RefusalInv, RaisingInv, LateInv, CleanupInv, EpisodeInv, ReceiverInv,
       NativeInv, LogInv, NativeFaultIsNamed,
       TypeInv, Mains, Natives, Hands, Logs, Runtimes, Fresh, Starting, InTry, Loop, Closed, Over, CleanOver
  <2> QED
    BY <1>1, <1>5, Parties, <2>1, <2>2, <2>3 DEF RunInv, TypeInv
<1> QED
  BY <1>2, <1>3, <1>4, <1>5

\* The end of an iteration.
LEMMA EndTickKeeps ==
  ASSUME RunInv, EndTick
  PROVE  RunInv'
<1>1. plan' = plan /\ faults' \in 0 .. MaxFaults /\ UNCHANGED <<native, hand, recv, log, ep>> /\ main.pc = "end_tick"
  BY Parties, Bounds DEF EndTick, Goto
<1>2. \/ main' = [main EXCEPT !.pc = "leave"] /\ main.abort # NULL
      \/ main' = [main EXCEPT !.pc = "check"] /\ main.abort = NULL
  BY <1>1, Parties DEF RunInv, OrderInv, ReceiverInv, EpisodeInv, Fresh, Starting, EndTick, Goto
<1>3. CASE main' = [main EXCEPT !.pc = "leave"] /\ main.abort # NULL
  <2>1. main' \in Mains
    BY <1>3, Parties DEF Mains, Pcs
  <2>2. OrderInv'
    BY <1>1, <1>3, SMTT(30) DEF RunInv, OrderInv, RefusalInv, RaisingInv, LateInv, CleanupInv, EpisodeInv, ReceiverInv,
       NativeInv, LogInv, NativeFaultIsNamed,
       TypeInv, Mains, Natives, Hands, Logs, Runtimes, Fresh, Starting, InTry, Loop, Closed, Over, CleanOver
  <2> QED
    BY <1>1, <1>3, Parties, <2>1, <2>2 DEF RunInv, TypeInv
<1>4. CASE main' = [main EXCEPT !.pc = "check"] /\ main.abort = NULL
  <2>1. main' \in Mains
    BY <1>4, Parties DEF Mains, Pcs, Loop
  <2>2. OrderInv'
    BY <1>1, <1>4, SMTT(30) DEF RunInv, OrderInv, RefusalInv, RaisingInv, LateInv, CleanupInv, EpisodeInv, ReceiverInv,
       NativeInv, LogInv, NativeFaultIsNamed,
       TypeInv, Mains, Natives, Hands, Logs, Runtimes, Fresh, Starting, InTry, Loop, Closed, Over, CleanOver
  <2> QED
    BY <1>1, <1>4, Parties, <2>1, <2>2 DEF RunInv, TypeInv
<1> QED
  BY <1>2, <1>3, <1>4

\* The inner finally closes the receiver.
LEMMA CloseReceiverKeeps ==
  ASSUME RunInv, CloseReceiver
  PROVE  RunInv'
<1>1. plan' = plan /\ faults' \in 0 .. MaxFaults /\ UNCHANGED <<native, hand, log, ep>> /\ main.pc = "leave"
      /\ recv' = (IF recv = "off" THEN "off" ELSE "closed")
  BY Parties, Bounds DEF CloseReceiver, Goto
<1>2. main' = [main EXCEPT !.pc = "log_sentinel"]
  BY <1>1, Parties DEF RunInv, OrderInv, ReceiverInv, EpisodeInv, Fresh, Starting, CloseReceiver, Goto
<1>3. main' \in Mains
  BY <1>2, Parties DEF Mains, Pcs
<1>4. OrderInv'
  BY <1>1, <1>2, SMTT(30) DEF RunInv, OrderInv, RefusalInv, RaisingInv, LateInv, CleanupInv, EpisodeInv, ReceiverInv, NativeInv,
     LogInv, NativeFaultIsNamed,
     TypeInv, Mains, Natives, Hands, Logs, Runtimes, Fresh, Starting, InTry, Loop, Closed, Over, CleanOver
<1> QED
  BY <1>1, <1>2, Parties, <1>3, <1>4 DEF RunInv, TypeInv

\* _AsyncEventLog.__exit__: the sentinel, if there is room for it ...
LEMMA LogSentinelKeeps ==
  ASSUME RunInv, LogSentinel
  PROVE  RunInv'
<1>1. plan' = plan /\ faults' \in 0 .. MaxFaults /\ UNCHANGED <<native, hand, recv, ep>> /\ main.pc = "log_sentinel"
  BY Parties, Bounds DEF LogSentinel, Goto
<1>2. \/ main' = [main EXCEPT !.pc = "log_join"] /\ UNCHANGED log
      \/ main' = [main EXCEPT !.pc = "log_join"] /\ log.thread # "off" /\ log' = [log EXCEPT !.sentinel = TRUE]
      \/ main' = [main EXCEPT !.pc = "log_join"] /\ log.thread # "off" /\ log' = [log EXCEPT !.drops = @ + log.queue]
  BY <1>1, Parties DEF RunInv, OrderInv, ReceiverInv, EpisodeInv, Fresh, Starting, LogSentinel, Goto
<1>3. CASE main' = [main EXCEPT !.pc = "log_join"] /\ UNCHANGED log
  <2>1. main' \in Mains
    BY <1>3, Parties DEF Mains, Pcs
  <2>2. OrderInv'
    BY <1>1, <1>3, SMTT(30) DEF RunInv, OrderInv, RefusalInv, RaisingInv, LateInv, CleanupInv, EpisodeInv, ReceiverInv,
       NativeInv, LogInv, NativeFaultIsNamed,
       TypeInv, Mains, Natives, Hands, Logs, Runtimes, Fresh, Starting, InTry, Loop, Closed, Over, CleanOver
  <2> QED
    BY <1>1, <1>3, Parties, <2>1, <2>2 DEF RunInv, TypeInv
<1>4. CASE main' = [main EXCEPT !.pc = "log_join"] /\ log.thread # "off" /\ log' = [log EXCEPT !.sentinel = TRUE]
  <2>1. main' \in Mains
    BY <1>4, Parties DEF Mains, Pcs
  <2>2. log' \in Logs
    BY <1>1, <1>4, Parties, Counts DEF Logs
  <2>3. OrderInv'
    BY <1>1, <1>4, SMTT(30) DEF RunInv, OrderInv, RefusalInv, RaisingInv, LateInv, CleanupInv, EpisodeInv, ReceiverInv,
       NativeInv, LogInv, NativeFaultIsNamed,
       TypeInv, Mains, Natives, Hands, Logs, Runtimes, Fresh, Starting, InTry, Loop, Closed, Over, CleanOver
  <2> QED
    BY <1>1, <1>4, Parties, <2>1, <2>2, <2>3 DEF RunInv, TypeInv
<1>5. CASE main' = [main EXCEPT !.pc = "log_join"] /\ log.thread # "off" /\ log' = [log EXCEPT !.drops = @ + log.queue]
  <2>1. main' \in Mains
    BY <1>5, Parties DEF Mains, Pcs
  <2>2. log' \in Logs
    BY <1>1, <1>5, Parties, Counts DEF Logs
  <2>3. OrderInv'
    BY <1>1, <1>5, SMTT(30) DEF RunInv, OrderInv, RefusalInv, RaisingInv, LateInv, CleanupInv, EpisodeInv, ReceiverInv,
       NativeInv, LogInv, NativeFaultIsNamed,
       TypeInv, Mains, Natives, Hands, Logs, Runtimes, Fresh, Starting, InTry, Loop, Closed, Over, CleanOver
  <2> QED
    BY <1>1, <1>5, Parties, <2>1, <2>2, <2>3 DEF RunInv, TypeInv
<1> QED
  BY <1>2, <1>3, <1>4, <1>5

\* ... and the counters, which are told only when nothing is being raised.
LEMMA LogJoinKeeps ==
  ASSUME RunInv, LogJoin
  PROVE  RunInv'
<1>1. plan' = plan /\ faults' \in 0 .. MaxFaults /\ UNCHANGED <<native, hand, recv, ep>> /\ main.pc = "log_join"
  BY Parties, Bounds DEF LogJoin
<1>2. \/ main' = [main EXCEPT !.pc = "except", !.at = 1] /\ main.raising # NULL /\ log.thread = "off" /\ UNCHANGED log
      \/ main' = [main EXCEPT !.pc = "except", !.at = 1] /\ main.raising # NULL /\ log.thread = "run"
         /\ log' = [log EXCEPT !.file = "closed", !.errors = @ + 1]
      \/ main' = [main EXCEPT !.pc = "except", !.at = 1] /\ main.raising # NULL /\ log.thread = "ended"
         /\ log' = [log EXCEPT !.file = "closed"]
      \/ main' = [main EXCEPT !.pc = "cleanup", !.at = 1] /\ main.raising = NULL /\ log.thread = "off"
         /\ log' = [log EXCEPT !.told = <<log.drops, log.errors>>]
      \/ main' = [main EXCEPT !.pc = "cleanup", !.at = 1] /\ main.raising = NULL /\ log.thread = "run"
         /\ log' = [log EXCEPT !.file = "closed", !.errors = log.errors + 1, !.told = <<log.drops, log.errors + 1>>]
      \/ main' = [main EXCEPT !.pc = "cleanup", !.at = 1] /\ main.raising = NULL /\ log.thread = "ended"
         /\ log' = [log EXCEPT !.file = "closed", !.told = <<log.drops, log.errors>>]
  <2>1. log.thread \in {"off", "run", "ended"}
    BY Parties DEF Logs
  <2>2. CASE main.raising # NULL
    <3>1. main' = [main EXCEPT !.pc = "except", !.at = 1]
      BY <2>2, Zenon DEF LogJoin
    <3>2. log' = IF log.thread = "off" THEN log
                 ELSE [log EXCEPT !.file = "closed", !.errors = IF log.thread = "run" THEN log.errors + 1 ELSE log.errors]
      BY <2>2, Zenon DEF LogJoin
    <3>3. CASE log.thread = "off"
      BY <2>2, <3>1, <3>2, <3>3
    <3>4. CASE log.thread = "run"
      BY <2>2, <3>1, <3>2, <3>4
    <3>5. CASE log.thread = "ended"
      <4>1. log' = [log EXCEPT !.file = "closed", !.errors = log.errors]
        BY <3>2, <3>5
      <4>2. log' = [log EXCEPT !.file = "closed"]
        BY <4>1, Parties DEF Logs
      <4> QED
        BY <2>2, <3>1, <3>5, <4>2
    <3> QED
      BY <2>1, <3>3, <3>4, <3>5
  <2>3. CASE main.raising = NULL
    <3> DEFINE closed == IF log.thread = "off" THEN log
                         ELSE [log EXCEPT !.file = "closed", !.errors = IF log.thread = "run" THEN log.errors + 1 ELSE log.errors]
    <3>1. main' = [main EXCEPT !.pc = "cleanup", !.at = 1]
      BY <2>3, Zenon DEF LogJoin
    <3>2. log' = [closed EXCEPT !.told = <<closed.drops, closed.errors>>]
      BY <2>3, Zenon DEF LogJoin
    <3>3. CASE log.thread = "off"
      BY <2>3, <3>1, <3>2, <3>3
    <3>4. CASE log.thread = "run"
      <4>1. closed = [log EXCEPT !.file = "closed", !.errors = log.errors + 1]
        BY <3>4
      <4>2. closed.drops = log.drops /\ closed.errors = log.errors + 1
        BY <4>1, Parties DEF Logs
      <4> HIDE DEF closed
      <4> QED
        BY <2>3, <3>1, <3>2, <3>4, <4>1, <4>2
    <3>5. CASE log.thread = "ended"
      <4>1. closed = [log EXCEPT !.file = "closed"]
        <5>1. closed = [log EXCEPT !.file = "closed", !.errors = log.errors]
          BY <3>5
        <5> QED
          BY <5>1, Parties DEF Logs
      <4>2. closed.drops = log.drops /\ closed.errors = log.errors
        BY <4>1, Parties DEF Logs
      <4> HIDE DEF closed
      <4> QED
        BY <2>3, <3>1, <3>2, <3>5, <4>1, <4>2
    <3> QED
      BY <2>1, <3>3, <3>4, <3>5
  <2> QED
    BY <2>2, <2>3
<1>3. CASE main' = [main EXCEPT !.pc = "except", !.at = 1] /\ main.raising # NULL /\ log.thread = "off" /\ UNCHANGED log
  <2>1. main' \in Mains
    BY <1>3, Parties, Bounds DEF Mains, Pcs
  <2>2. OrderInv'
    BY <1>1, <1>3, SMTT(30) DEF RunInv, OrderInv, RefusalInv, RaisingInv, LateInv, CleanupInv, EpisodeInv, ReceiverInv,
       NativeInv, LogInv, NativeFaultIsNamed,
       TypeInv, Mains, Natives, Hands, Logs, Runtimes, Fresh, Starting, InTry, Loop, Closed, Over, CleanOver
  <2> QED
    BY <1>1, <1>3, Parties, <2>1, <2>2 DEF RunInv, TypeInv
<1>4. CASE main' = [main EXCEPT !.pc = "except", !.at = 1] /\ main.raising # NULL /\ log.thread = "run"
           /\ log' = [log EXCEPT !.file = "closed", !.errors = @ + 1]
  <2>1. main' \in Mains
    BY <1>4, Parties, Bounds DEF Mains, Pcs
  <2>2. log' \in Logs
    BY <1>1, <1>4, Parties, Counts DEF Logs
  <2>3. OrderInv'
    BY <1>1, <1>4, SMTT(30) DEF RunInv, OrderInv, RefusalInv, RaisingInv, LateInv, CleanupInv, EpisodeInv, ReceiverInv,
       NativeInv, LogInv, NativeFaultIsNamed,
       TypeInv, Mains, Natives, Hands, Logs, Runtimes, Fresh, Starting, InTry, Loop, Closed, Over, CleanOver
  <2> QED
    BY <1>1, <1>4, Parties, <2>1, <2>2, <2>3 DEF RunInv, TypeInv
<1>5. CASE main' = [main EXCEPT !.pc = "except", !.at = 1] /\ main.raising # NULL /\ log.thread = "ended"
           /\ log' = [log EXCEPT !.file = "closed"]
  <2>1. main' \in Mains
    BY <1>5, Parties, Bounds DEF Mains, Pcs
  <2>2. log' \in Logs
    BY <1>1, <1>5, Parties, Counts DEF Logs
  <2>3. OrderInv'
    BY <1>1, <1>5, SMTT(30) DEF RunInv, OrderInv, RefusalInv, RaisingInv, LateInv, CleanupInv, EpisodeInv, ReceiverInv,
       NativeInv, LogInv, NativeFaultIsNamed,
       TypeInv, Mains, Natives, Hands, Logs, Runtimes, Fresh, Starting, InTry, Loop, Closed, Over, CleanOver
  <2> QED
    BY <1>1, <1>5, Parties, <2>1, <2>2, <2>3 DEF RunInv, TypeInv
<1>6. CASE main' = [main EXCEPT !.pc = "cleanup", !.at = 1] /\ main.raising = NULL /\ log.thread = "off"
           /\ log' = [log EXCEPT !.told = <<log.drops, log.errors>>]
  <2>1. main' \in Mains
    BY <1>6, Parties, Bounds DEF Mains, Pcs
  <2>2. log' \in Logs
    BY <1>1, <1>6, Parties, Counts DEF Logs
  <2>3. OrderInv'
    BY <1>1, <1>6, SMTT(30) DEF RunInv, OrderInv, RefusalInv, RaisingInv, LateInv, CleanupInv, EpisodeInv, ReceiverInv,
       NativeInv, LogInv, NativeFaultIsNamed,
       TypeInv, Mains, Natives, Hands, Logs, Runtimes, Fresh, Starting, InTry, Loop, Closed, Over, CleanOver
  <2> QED
    BY <1>1, <1>6, Parties, <2>1, <2>2, <2>3 DEF RunInv, TypeInv
<1>7. CASE main' = [main EXCEPT !.pc = "cleanup", !.at = 1] /\ main.raising = NULL /\ log.thread = "run"
           /\ log' = [log EXCEPT !.file = "closed", !.errors = log.errors + 1, !.told = <<log.drops, log.errors + 1>>]
  <2>1. main' \in Mains
    BY <1>7, Parties, Bounds DEF Mains, Pcs
  <2>2. log' \in Logs
    BY <1>1, <1>7, Parties, Counts DEF Logs
  <2>3. OrderInv'
    BY <1>1, <1>7, SMTT(30) DEF RunInv, OrderInv, RefusalInv, RaisingInv, LateInv, CleanupInv, EpisodeInv, ReceiverInv,
       NativeInv, LogInv, NativeFaultIsNamed,
       TypeInv, Mains, Natives, Hands, Logs, Runtimes, Fresh, Starting, InTry, Loop, Closed, Over, CleanOver
  <2> QED
    BY <1>1, <1>7, Parties, <2>1, <2>2, <2>3 DEF RunInv, TypeInv
<1>8. CASE main' = [main EXCEPT !.pc = "cleanup", !.at = 1] /\ main.raising = NULL /\ log.thread = "ended"
           /\ log' = [log EXCEPT !.file = "closed", !.told = <<log.drops, log.errors>>]
  <2>1. main' \in Mains
    BY <1>8, Parties, Bounds DEF Mains, Pcs
  <2>2. log' \in Logs
    BY <1>1, <1>8, Parties, Counts DEF Logs
  <2>3. OrderInv'
    BY <1>1, <1>8, SMTT(30) DEF RunInv, OrderInv, RefusalInv, RaisingInv, LateInv, CleanupInv, EpisodeInv, ReceiverInv,
       NativeInv, LogInv, NativeFaultIsNamed,
       TypeInv, Mains, Natives, Hands, Logs, Runtimes, Fresh, Starting, InTry, Loop, Closed, Over, CleanOver
  <2> QED
    BY <1>1, <1>8, Parties, <2>1, <2>2, <2>3 DEF RunInv, TypeInv
<1> QED
  BY <1>2, <1>3, <1>4, <1>5, <1>6, <1>7, <1>8

\* Ctrl+C or SIGTERM anywhere in the try block.
LEMMA InterruptKeeps ==
  ASSUME RunInv, Interrupt
  PROVE  RunInv'
<1>1. plan' = plan /\ faults' \in 0 .. MaxFaults /\ UNCHANGED <<native, hand, recv, log>>
      /\ main.pc \in {"episodes", "hand", "native", "wait", "receiver"} \cup Loop
  BY Parties, Bounds DEF Interrupt, Raise, Undo, Runtimes, Loop
<1>2. \/ main' = [main EXCEPT !.raising = "interrupt", !.pc = "except"] /\ main.pc = "episodes"
         /\ ep' = [ep EXCEPT !.procs = {}]
      \/ main' = [main EXCEPT !.raising = "interrupt", !.pc = "except"] /\ main.pc # "episodes" /\ UNCHANGED ep /\ recv = "off"
      \/ main' = [main EXCEPT !.raising = "interrupt", !.pc = "leave"] /\ main.pc # "episodes" /\ UNCHANGED ep
  BY <1>1, Parties DEF RunInv, OrderInv, ReceiverInv, EpisodeInv, Fresh, Starting, Interrupt, Raise, Undo, Runtimes, Loop
<1>3. CASE main' = [main EXCEPT !.raising = "interrupt", !.pc = "except"] /\ main.pc = "episodes"
           /\ ep' = [ep EXCEPT !.procs = {}]
  <2>1. main' \in Mains
    BY <1>3, Parties DEF Mains, Pcs
  <2>2. ep' \in Runtimes
    BY <1>1, <1>3, Parties DEF Runtimes
  <2>3. OrderInv'
    BY <1>1, <1>3, SMTT(30) DEF RunInv, OrderInv, RefusalInv, RaisingInv, LateInv, CleanupInv, EpisodeInv, ReceiverInv,
       NativeInv, LogInv, NativeFaultIsNamed,
       TypeInv, Mains, Natives, Hands, Logs, Runtimes, Fresh, Starting, InTry, Loop, Closed, Over, CleanOver
  <2> QED
    BY <1>1, <1>3, Parties, <2>1, <2>2, <2>3 DEF RunInv, TypeInv
<1>4. CASE main' = [main EXCEPT !.raising = "interrupt", !.pc = "except"] /\ main.pc # "episodes" /\ UNCHANGED ep
           /\ recv = "off"
  <2>1. main' \in Mains
    BY <1>4, Parties DEF Mains, Pcs
  <2>2. OrderInv'
    BY <1>1, <1>4, SMTT(30) DEF RunInv, OrderInv, RefusalInv, RaisingInv, LateInv, CleanupInv, EpisodeInv, ReceiverInv,
       NativeInv, LogInv, NativeFaultIsNamed,
       TypeInv, Mains, Natives, Hands, Logs, Runtimes, Fresh, Starting, InTry, Loop, Closed, Over, CleanOver
  <2> QED
    BY <1>1, <1>4, Parties, <2>1, <2>2 DEF RunInv, TypeInv
<1>5. CASE main' = [main EXCEPT !.raising = "interrupt", !.pc = "leave"] /\ main.pc # "episodes" /\ UNCHANGED ep
  <2>1. main' \in Mains
    BY <1>5, Parties DEF Mains, Pcs
  <2>2. OrderInv'
    BY <1>1, <1>5, SMTT(30) DEF RunInv, OrderInv, RefusalInv, RaisingInv, LateInv, CleanupInv, EpisodeInv, ReceiverInv,
       NativeInv, LogInv, NativeFaultIsNamed,
       TypeInv, Mains, Natives, Hands, Logs, Runtimes, Fresh, Starting, InTry, Loop, Closed, Over, CleanOver
  <2> QED
    BY <1>1, <1>5, Parties, <2>1, <2>2 DEF RunInv, TypeInv
<1> QED
  BY <1>2, <1>3, <1>4, <1>5

\* The except clauses: an interrupt stops the adapter, an error is a reason to abort.
LEMMA ExceptKeeps ==
  ASSUME RunInv, Except
  PROVE  RunInv'
<1>1. plan' = plan /\ faults' \in 0 .. MaxFaults /\ UNCHANGED <<hand, recv, log, ep>> /\ main.pc = "except"
      /\ (native' = native \/ native' = [native EXCEPT !.told = TRUE])
  BY Parties, Bounds DEF Except, StopAdapter, Sends, ExceptMain
<1>2. \/ main' = [main EXCEPT !.pc = "cleanup", !.at = 1, !.stop = "keyboard", !.stopped = TRUE, !.raising = NULL]
      \/ main' = [main EXCEPT !.pc = "cleanup", !.at = 1] /\ main.raising = "error" /\ main.abort # NULL
      \/ \E why \in {"hand_fault", "exception"} : main' = [main EXCEPT !.pc = "cleanup", !.at = 1, !.abort = why, !.stop = why]
         /\ main.raising = "error"
  BY <1>1, Parties DEF RunInv, OrderInv, ReceiverInv, EpisodeInv, Fresh, Starting, Except, StopAdapter, Sends, ExceptMain
<1>3. CASE main' = [main EXCEPT !.pc = "cleanup", !.at = 1, !.stop = "keyboard", !.stopped = TRUE, !.raising = NULL]
  <2>1. main' \in Mains
    BY <1>3, Parties, Bounds DEF Mains, Pcs, StopReasons
  <2>2. native' \in Natives
    BY <1>1, <1>3, Parties DEF Natives
  <2>3. OrderInv'
    BY <1>1, <1>3, SMTT(30) DEF RunInv, OrderInv, RefusalInv, RaisingInv, LateInv, CleanupInv, EpisodeInv, ReceiverInv,
       NativeInv, LogInv, NativeFaultIsNamed,
       TypeInv, Mains, Natives, Hands, Logs, Runtimes, Fresh, Starting, InTry, Loop, Closed, Over, CleanOver
  <2> QED
    BY <1>1, <1>3, Parties, <2>1, <2>2, <2>3 DEF RunInv, TypeInv
<1>4. CASE main' = [main EXCEPT !.pc = "cleanup", !.at = 1] /\ main.raising = "error" /\ main.abort # NULL
  <2>1. main' \in Mains
    BY <1>4, Parties, Bounds DEF Mains, Pcs
  <2>2. native' \in Natives
    BY <1>1, <1>4, Parties DEF Natives
  <2>3. OrderInv'
    BY <1>1, <1>4, SMTT(30) DEF RunInv, OrderInv, RefusalInv, RaisingInv, LateInv, CleanupInv, EpisodeInv, ReceiverInv,
       NativeInv, LogInv, NativeFaultIsNamed,
       TypeInv, Mains, Natives, Hands, Logs, Runtimes, Fresh, Starting, InTry, Loop, Closed, Over, CleanOver
  <2> QED
    BY <1>1, <1>4, Parties, <2>1, <2>2, <2>3 DEF RunInv, TypeInv
<1>5. ASSUME NEW why \in {"hand_fault", "exception"},
             main' = [main EXCEPT !.pc = "cleanup", !.at = 1, !.abort = why, !.stop = why] /\ main.raising = "error"
      PROVE  RunInv'
  <2>1. main' \in Mains
    BY <1>5, Parties, Bounds, ZenonT(60) DEF Mains, Pcs, StopReasons, AbortReasons
  <2>2. native' \in Natives
    BY <1>1, <1>5, Parties DEF Natives
  <2>3. OrderInv'
    BY <1>1, <1>5, SMTT(30) DEF RunInv, OrderInv, RefusalInv, RaisingInv, LateInv, CleanupInv, EpisodeInv, ReceiverInv,
       NativeInv, LogInv, NativeFaultIsNamed,
       TypeInv, Mains, Natives, Hands, Logs, Runtimes, Fresh, Starting, InTry, Loop, Closed, Over, CleanOver
  <2> QED
    BY <1>1, <1>5, Parties, <2>1, <2>2, <2>3 DEF RunInv, TypeInv
<1> QED
  BY <1>2, <1>3, <1>4, <1>5

\* The finally block, first part: the hand is told to hold or to stop.
LEMMA CleanHandKeeps ==
  ASSUME RunInv, CleanHand
  PROVE  RunInv'
<1>1. plan' = plan /\ faults' \in 0 .. MaxFaults /\ UNCHANGED <<native, recv, log, ep>> /\ main.pc = "cleanup" /\ main.at = 1
  <2>1. plan' = plan /\ UNCHANGED <<native, recv, log, ep>> /\ main.pc = "cleanup" /\ main.at = 1
    BY CleanupSteps, Zenon DEF CleanHand, Cleaned
  <2>2. faults' = faults \/ (faults < MaxFaults /\ faults' = faults + 1)
    BY Zenon DEF CleanHand, Cleaned
  <2> QED
    BY <2>1, <2>2, Parties, Bounds
<1>2. \/ main' = [main EXCEPT !.at = 2, !.pc = "cleanup"] /\ UNCHANGED hand /\ ~Combined
      \/ main' = [main EXCEPT !.at = 2, !.pc = "cleanup"] /\ main.abort # NULL /\ hand' = [hand EXCEPT !.order = "terminal"]
      \/ main' = [main EXCEPT !.at = 2, !.pc = "cleanup"] /\ main.abort = NULL /\ hand' = [hand EXCEPT !.order = "hold"]
  <2>1. main' = [main EXCEPT !.at = 2, !.pc = "cleanup"]
    BY CleanupSteps, Zenon DEF CleanHand, Cleaned
  <2>2. hand' = IF ~Combined THEN hand ELSE [hand EXCEPT !.order = IF main.abort # NULL THEN "terminal" ELSE "hold"]
    BY Zenon DEF CleanHand
  <2>3. CASE ~Combined
    BY <2>1, <2>2, <2>3
  <2>4. CASE Combined /\ main.abort # NULL
    BY <2>1, <2>2, <2>4
  <2>5. CASE Combined /\ main.abort = NULL
    BY <2>1, <2>2, <2>5
  <2> QED
    BY <2>3, <2>4, <2>5
<1>3. CASE main' = [main EXCEPT !.at = 2, !.pc = "cleanup"] /\ UNCHANGED hand /\ ~Combined
  <2>1. main' \in Mains
    BY <1>3, Parties, Bounds DEF Mains, Pcs
  <2>2. OrderInv'
    BY <1>1, <1>3, SMTT(30) DEF RunInv, OrderInv, RefusalInv, RaisingInv, LateInv, CleanupInv, EpisodeInv, ReceiverInv,
       NativeInv, LogInv, NativeFaultIsNamed,
       TypeInv, Mains, Natives, Hands, Logs, Runtimes, Fresh, Starting, InTry, Loop, Closed, Over, CleanOver
  <2> QED
    BY <1>1, <1>3, Parties, <2>1, <2>2 DEF RunInv, TypeInv
<1>4. CASE main' = [main EXCEPT !.at = 2, !.pc = "cleanup"] /\ main.abort # NULL /\ hand' = [hand EXCEPT !.order = "terminal"]
  <2>1. main' \in Mains
    BY <1>4, Parties, Bounds DEF Mains, Pcs
  <2>2. hand' \in Hands
    BY <1>1, <1>4, Parties DEF Hands
  <2>3. OrderInv'
    BY <1>1, <1>4, SMTT(30) DEF RunInv, OrderInv, RefusalInv, RaisingInv, LateInv, CleanupInv, EpisodeInv, ReceiverInv,
       NativeInv, LogInv, NativeFaultIsNamed,
       TypeInv, Mains, Natives, Hands, Logs, Runtimes, Fresh, Starting, InTry, Loop, Closed, Over, CleanOver
  <2> QED
    BY <1>1, <1>4, Parties, <2>1, <2>2, <2>3 DEF RunInv, TypeInv
<1>5. CASE main' = [main EXCEPT !.at = 2, !.pc = "cleanup"] /\ main.abort = NULL /\ hand' = [hand EXCEPT !.order = "hold"]
  <2>1. main' \in Mains
    BY <1>5, Parties, Bounds DEF Mains, Pcs
  <2>2. hand' \in Hands
    BY <1>1, <1>5, Parties DEF Hands
  <2>3. OrderInv'
    BY <1>1, <1>5, SMTT(30) DEF RunInv, OrderInv, RefusalInv, RaisingInv, LateInv, CleanupInv, EpisodeInv, ReceiverInv,
       NativeInv, LogInv, NativeFaultIsNamed,
       TypeInv, Mains, Natives, Hands, Logs, Runtimes, Fresh, Starting, InTry, Loop, Closed, Over, CleanOver
  <2> QED
    BY <1>1, <1>5, Parties, <2>1, <2>2, <2>3 DEF RunInv, TypeInv
<1> QED
  BY <1>2, <1>3, <1>4, <1>5

\* Second part: the arm, unless it was told already.
LEMMA CleanAdapterKeeps ==
  ASSUME RunInv, CleanAdapter
  PROVE  RunInv'
<1>1. plan' = plan /\ faults' \in 0 .. MaxFaults /\ UNCHANGED <<hand, recv, log, ep>> /\ main.pc = "cleanup" /\ main.at = 2
      /\ (native' = native \/ native' = [native EXCEPT !.told = TRUE])
  <2>1. plan' = plan /\ UNCHANGED <<hand, recv, log, ep>> /\ main.pc = "cleanup" /\ main.at = 2
        /\ (native' = native \/ native' = [native EXCEPT !.told = TRUE])
    BY CleanupSteps, Zenon DEF CleanAdapter, Cleaned, StopOwed, StopAdapter, Sends
  <2>2. faults' = faults \/ (faults < MaxFaults /\ faults' = faults + 1)
    BY Zenon DEF CleanAdapter, Cleaned, StopOwed, StopAdapter, Sends
  <2> QED
    BY <2>1, <2>2, Parties, Bounds
<1>2. \/ main' = [main EXCEPT !.at = 3, !.pc = "cleanup", !.stopped = TRUE]
      \/ main' = [main EXCEPT !.at = 3, !.pc = "cleanup"] /\ main.stopped
  <2>1. CleanedMain = [main EXCEPT !.at = 3, !.pc = "cleanup"]
    BY CleanupSteps, Zenon DEF CleanAdapter
  <2>2. main' = [CleanedMain EXCEPT !.stopped = TRUE] \/ (main.stopped /\ main' = CleanedMain)
    BY Zenon DEF CleanAdapter, Cleaned, StopOwed
  <2>3. [CleanedMain EXCEPT !.stopped = TRUE] = [main EXCEPT !.at = 3, !.pc = "cleanup", !.stopped = TRUE]
    BY <2>1, Zenon
  <2> QED
    BY <2>1, <2>2, <2>3, Zenon
<1>3. CASE main' = [main EXCEPT !.at = 3, !.pc = "cleanup", !.stopped = TRUE]
  <2>1. main' \in Mains
    BY <1>3, Parties, Bounds DEF Mains, Pcs
  <2>2. native' \in Natives
    BY <1>1, <1>3, Parties DEF Natives
  <2>3. OrderInv'
    BY <1>1, <1>3, SMTT(30) DEF RunInv, OrderInv, RefusalInv, RaisingInv, LateInv, CleanupInv, EpisodeInv, ReceiverInv,
       NativeInv, LogInv, NativeFaultIsNamed,
       TypeInv, Mains, Natives, Hands, Logs, Runtimes, Fresh, Starting, InTry, Loop, Closed, Over, CleanOver
  <2> QED
    BY <1>1, <1>3, Parties, <2>1, <2>2, <2>3 DEF RunInv, TypeInv
<1>4. CASE main' = [main EXCEPT !.at = 3, !.pc = "cleanup"] /\ main.stopped
  <2>1. main' \in Mains
    BY <1>4, Parties, Bounds DEF Mains, Pcs
  <2>2. native' \in Natives
    BY <1>1, <1>4, Parties DEF Natives
  <2>3. OrderInv'
    BY <1>1, <1>4, SMTT(30) DEF RunInv, OrderInv, RefusalInv, RaisingInv, LateInv, CleanupInv, EpisodeInv, ReceiverInv,
       NativeInv, LogInv, NativeFaultIsNamed,
       TypeInv, Mains, Natives, Hands, Logs, Runtimes, Fresh, Starting, InTry, Loop, Closed, Over, CleanOver
  <2> QED
    BY <1>1, <1>4, Parties, <2>1, <2>2, <2>3 DEF RunInv, TypeInv
<1> QED
  BY <1>2, <1>3, <1>4

\* Third part: the native worker is gone, or the cleanup is cut short.
LEMMA CleanNativeKeeps ==
  ASSUME RunInv, CleanNative
  PROVE  RunInv'
<1>1. plan' = plan /\ faults' \in 0 .. MaxFaults /\ UNCHANGED <<hand, recv, log, ep>> /\ main.pc = "cleanup" /\ main.at = 3
  <2>1. plan' = plan /\ UNCHANGED <<hand, recv, log, ep>> /\ main.pc = "cleanup" /\ main.at = 3
    BY CleanupSteps, Zenon DEF CleanNative, Cleaned, NativeWaitOver
  <2>2. faults' = faults \/ (faults < MaxFaults /\ faults' = faults + 1)
    BY Zenon DEF CleanNative, Cleaned, NativeWaitOver
  <2> QED
    BY <2>1, <2>2, Parties, Bounds
<1>2. \/ main' = [main EXCEPT !.at = 4, !.pc = "cleanup"] /\ native.life \in {"off", "exited"} /\ UNCHANGED native
      \/ UNCHANGED main /\ native' = [native EXCEPT !.told = TRUE]
      \/ main' = [main EXCEPT !.at = 4, !.pc = "cleanup"] /\ native.life \notin {"off", "exited"}
         /\ native' = [native EXCEPT !.life = "exited"]
      \/ main' = [main EXCEPT !.pc = "exit", !.exit = "raised", !.skipped = TRUE] /\ UNCHANGED native
  <2>1. CleanedMain = [main EXCEPT !.at = 4, !.pc = "cleanup"]
    BY CleanupSteps, Zenon DEF CleanNative
  <2>2. \/ main' = CleanedMain /\ native.life \in {"off", "exited"} /\ UNCHANGED native
        \/ UNCHANGED main /\ native' = [native EXCEPT !.told = TRUE]
        \/ main' = CleanedMain /\ native.life \notin {"off", "exited"} /\ native' = [native EXCEPT !.life = "exited"]
        \/ main' = [main EXCEPT !.pc = "exit", !.exit = "raised", !.skipped = TRUE] /\ UNCHANGED native
    BY Zenon DEF CleanNative, Cleaned
  <2> QED
    BY <2>1, <2>2, Zenon
<1>3. CASE main' = [main EXCEPT !.at = 4, !.pc = "cleanup"] /\ native.life \in {"off", "exited"} /\ UNCHANGED native
  <2>1. main' \in Mains
    BY <1>3, Parties, Bounds DEF Mains, Pcs
  <2>2. OrderInv'
    BY <1>1, <1>3, SMTT(30) DEF RunInv, OrderInv, RefusalInv, RaisingInv, LateInv, CleanupInv, EpisodeInv, ReceiverInv,
       NativeInv, LogInv, NativeFaultIsNamed,
       TypeInv, Mains, Natives, Hands, Logs, Runtimes, Fresh, Starting, InTry, Loop, Closed, Over, CleanOver
  <2> QED
    BY <1>1, <1>3, Parties, <2>1, <2>2 DEF RunInv, TypeInv
<1>4. CASE UNCHANGED main /\ native' = [native EXCEPT !.told = TRUE]
  <2>1. native' \in Natives
    BY <1>1, <1>4, Parties DEF Natives
  <2>2. OrderInv'
    BY <1>1, <1>4, SMTT(30) DEF RunInv, OrderInv, RefusalInv, RaisingInv, LateInv, CleanupInv, EpisodeInv, ReceiverInv,
       NativeInv, LogInv, NativeFaultIsNamed,
       TypeInv, Mains, Natives, Hands, Logs, Runtimes, Fresh, Starting, InTry, Loop, Closed, Over, CleanOver
  <2> QED
    BY <1>1, <1>4, Parties, <2>1, <2>2 DEF RunInv, TypeInv
<1>5. CASE main' = [main EXCEPT !.at = 4, !.pc = "cleanup"] /\ native.life \notin {"off", "exited"}
           /\ native' = [native EXCEPT !.life = "exited"]
  <2>1. main' \in Mains
    BY <1>5, Parties, Bounds DEF Mains, Pcs
  <2>2. native' \in Natives
    BY <1>1, <1>5, Parties DEF Natives
  <2>3. OrderInv'
    BY <1>1, <1>5, SMTT(30) DEF RunInv, OrderInv, RefusalInv, RaisingInv, LateInv, CleanupInv, EpisodeInv, ReceiverInv,
       NativeInv, LogInv, NativeFaultIsNamed,
       TypeInv, Mains, Natives, Hands, Logs, Runtimes, Fresh, Starting, InTry, Loop, Closed, Over, CleanOver
  <2> QED
    BY <1>1, <1>5, Parties, <2>1, <2>2, <2>3 DEF RunInv, TypeInv
<1>6. CASE main' = [main EXCEPT !.pc = "exit", !.exit = "raised", !.skipped = TRUE] /\ UNCHANGED native
  <2>1. main' \in Mains
    BY <1>6, Parties DEF Mains, Pcs
  <2>2. OrderInv'
    BY <1>1, <1>6, SMTT(30) DEF RunInv, OrderInv, RefusalInv, RaisingInv, LateInv, CleanupInv, EpisodeInv, ReceiverInv,
       NativeInv, LogInv, NativeFaultIsNamed,
       TypeInv, Mains, Natives, Hands, Logs, Runtimes, Fresh, Starting, InTry, Loop, Closed, Over, CleanOver
  <2> QED
    BY <1>1, <1>6, Parties, <2>1, <2>2 DEF RunInv, TypeInv
<1> QED
  BY <1>2, <1>3, <1>4, <1>5, <1>6

\* Fourth part: the hand worker.
LEMMA HandCleanupKeeps ==
  ASSUME RunInv, HandCleanup
  PROVE  RunInv'
<1>1. plan' = plan /\ faults' \in 0 .. MaxFaults /\ UNCHANGED <<native, recv, log, ep>> /\ main.pc = "cleanup" /\ main.at = 4
  <2>1. plan' = plan /\ UNCHANGED <<native, recv, log, ep>> /\ main.pc = "cleanup" /\ main.at = 4
    BY CleanupSteps, Zenon DEF HandCleanup, Cleaned
  <2>2. faults' = faults \/ (faults < MaxFaults /\ faults' = faults + 1)
    BY Zenon DEF HandCleanup, Cleaned
  <2> QED
    BY <2>1, <2>2, Parties, Bounds
<1>2. \/ main' = [main EXCEPT !.at = 5, !.pc = "cleanup"] /\ hand' = [hand EXCEPT !.life = IF @ = "off" THEN "off" ELSE "clean"]
      \/ main' = [main EXCEPT !.pc = "exit", !.exit = "raised", !.skipped = TRUE] /\ UNCHANGED hand
  <2>1. CleanedMain = [main EXCEPT !.at = 5, !.pc = "cleanup"]
    BY CleanupSteps, Zenon DEF HandCleanup
  <2>2. \/ main' = CleanedMain /\ hand' = [hand EXCEPT !.life = IF @ = "off" THEN "off" ELSE "clean"]
        \/ main' = [main EXCEPT !.pc = "exit", !.exit = "raised", !.skipped = TRUE] /\ UNCHANGED hand
    BY Zenon DEF HandCleanup, Cleaned
  <2> QED
    BY <2>1, <2>2, Zenon
<1>3. CASE main' = [main EXCEPT !.at = 5, !.pc = "cleanup"]
           /\ hand' = [hand EXCEPT !.life = IF @ = "off" THEN "off" ELSE "clean"]
  <2>1. main' \in Mains
    BY <1>3, Parties, Bounds DEF Mains, Pcs
  <2>2. hand' \in Hands
    BY <1>1, <1>3, Parties DEF Hands
  <2>3. OrderInv'
    BY <1>1, <1>3, SMTT(30) DEF RunInv, OrderInv, RefusalInv, RaisingInv, LateInv, CleanupInv, EpisodeInv, ReceiverInv,
       NativeInv, LogInv, NativeFaultIsNamed,
       TypeInv, Mains, Natives, Hands, Logs, Runtimes, Fresh, Starting, InTry, Loop, Closed, Over, CleanOver
  <2> QED
    BY <1>1, <1>3, Parties, <2>1, <2>2, <2>3 DEF RunInv, TypeInv
<1>4. CASE main' = [main EXCEPT !.pc = "exit", !.exit = "raised", !.skipped = TRUE] /\ UNCHANGED hand
  <2>1. main' \in Mains
    BY <1>4, Parties DEF Mains, Pcs
  <2>2. OrderInv'
    BY <1>1, <1>4, SMTT(30) DEF RunInv, OrderInv, RefusalInv, RaisingInv, LateInv, CleanupInv, EpisodeInv, ReceiverInv,
       NativeInv, LogInv, NativeFaultIsNamed,
       TypeInv, Mains, Natives, Hands, Logs, Runtimes, Fresh, Starting, InTry, Loop, Closed, Over, CleanOver
  <2> QED
    BY <1>1, <1>4, Parties, <2>1, <2>2 DEF RunInv, TypeInv
<1> QED
  BY <1>2, <1>3, <1>4

\* Last part: the recorder; an episode is finished only without an abort.
LEMMA CleanEpisodesKeeps ==
  ASSUME RunInv, CleanEpisodes
  PROVE  RunInv'
<1>1. plan' = plan /\ faults' \in 0 .. MaxFaults /\ UNCHANGED <<native, hand, recv, log>> /\ main.pc = "cleanup" /\ main.at = 5
  <2>1. plan' = plan /\ UNCHANGED <<native, hand, recv, log>> /\ main.pc = "cleanup" /\ main.at = 5
    BY CleanupSteps, Zenon DEF CleanEpisodes, Cleaned, CloseEpisodes
  <2>2. faults' = faults \/ (faults < MaxFaults /\ faults' = faults + 1)
    BY Zenon DEF CleanEpisodes, Cleaned, CloseEpisodes
  <2> QED
    BY <2>1, <2>2, Parties, Bounds
<1>2. \/ main' = [main EXCEPT !.at = 1, !.pc = "report"] /\ ep.runtime # "up" /\ UNCHANGED ep
      \/ \E f \in {"aborted", "discarded", "finished"} : main' = [main EXCEPT !.at = 1, !.pc = "report"] /\ ep.runtime = "up"
         /\ (f = "finished" => main.abort = NULL)
        /\ ep' = [ep EXCEPT !.state = "DONE", !.fate = f, !.runtime = "closed", !.procs = {}, !.forwarder = FALSE]
      \/ main' = [main EXCEPT !.at = 1, !.pc = "report"] /\ ep.runtime = "up"
         /\ ep' = [ep EXCEPT !.state = "DONE", !.runtime = "closed", !.procs = {}, !.forwarder = FALSE]
      \/ main' = [main EXCEPT !.at = 1, !.pc = "report"] /\ ep.runtime = "up"
         /\ ep' = [ep EXCEPT !.failed = TRUE, !.runtime = "closed", !.procs = {}, !.forwarder = FALSE]
  <2>1. main' = [main EXCEPT !.at = 1, !.pc = "report"]
    BY CleanupSteps, Zenon DEF CleanEpisodes, Cleaned
  <2>2. \/ ep.runtime # "up" /\ UNCHANGED ep
        \/ /\ ep.runtime = "up"
           /\ ep' = CloseEpisodes(IF ep.state = "REC" THEN [ep EXCEPT !.state = "DONE", !.fate = EpisodeFate]
                                  ELSE [ep EXCEPT !.state = "DONE"], TRUE)
        \/ ep.runtime = "up" /\ ep' = CloseEpisodes([ep EXCEPT !.failed = TRUE], FALSE)
    BY Zenon DEF CleanEpisodes
  <2>3. CASE ep.runtime # "up" /\ UNCHANGED ep
    BY <2>1, <2>3
  <2>4. CASE /\ ep.runtime = "up"
             /\ ep' = CloseEpisodes(IF ep.state = "REC" THEN [ep EXCEPT !.state = "DONE", !.fate = EpisodeFate]
                                    ELSE [ep EXCEPT !.state = "DONE"], TRUE)
    <3> DEFINE f == EpisodeFate
    <3>1. f \in {"aborted", "discarded", "finished"} /\ (f = "finished" => main.abort = NULL)
      BY DEF EpisodeFate
    <3> HIDE DEF f
    <3>2. CASE ep.state = "REC"
      <4>1. ep' = [ep EXCEPT !.state = "DONE", !.fate = f, !.runtime = "closed", !.procs = {}, !.forwarder = FALSE]
        BY <2>4, <3>2, Zenon DEF CloseEpisodes, f
      <4> QED
        BY <2>1, <2>4, <3>1, <4>1
    <3>3. CASE ep.state # "REC"
      <4>1. ep' = [ep EXCEPT !.state = "DONE", !.runtime = "closed", !.procs = {}, !.forwarder = FALSE]
        BY <2>4, <3>3, Zenon DEF CloseEpisodes
      <4> QED
        BY <2>1, <2>4, <4>1
    <3> QED
      BY <3>2, <3>3
  <2>5. CASE ep.runtime = "up" /\ ep' = CloseEpisodes([ep EXCEPT !.failed = TRUE], FALSE)
    BY <2>1, <2>5, Zenon DEF CloseEpisodes
  <2> QED
    BY <2>2, <2>3, <2>4, <2>5
<1>3. CASE main' = [main EXCEPT !.at = 1, !.pc = "report"] /\ ep.runtime # "up" /\ UNCHANGED ep
  <2>1. main' \in Mains
    BY <1>3, Parties, Bounds DEF Mains, Pcs
  <2>2. OrderInv'
    BY <1>1, <1>3, SMTT(30) DEF RunInv, OrderInv, RefusalInv, RaisingInv, LateInv, CleanupInv, EpisodeInv, ReceiverInv,
       NativeInv, LogInv, NativeFaultIsNamed,
       TypeInv, Mains, Natives, Hands, Logs, Runtimes, Fresh, Starting, InTry, Loop, Closed, Over, CleanOver
  <2> QED
    BY <1>1, <1>3, Parties, <2>1, <2>2 DEF RunInv, TypeInv
<1>4. ASSUME NEW f \in {"aborted", "discarded", "finished"}, main' = [main EXCEPT !.at = 1, !.pc = "report"]
             /\ ep.runtime = "up" /\ (f = "finished" => main.abort = NULL)
        /\ ep' = [ep EXCEPT !.state = "DONE", !.fate = f, !.runtime = "closed", !.procs = {}, !.forwarder = FALSE]
      PROVE  RunInv'
  <2>1. main' \in Mains
    BY <1>4, Parties, Bounds DEF Mains, Pcs
  <2>2. ep' \in Runtimes
    BY <1>1, <1>4, Parties DEF Runtimes
  <2>3. OrderInv'
    BY <1>1, <1>4, SMTT(30) DEF RunInv, OrderInv, RefusalInv, RaisingInv, LateInv, CleanupInv, EpisodeInv, ReceiverInv,
       NativeInv, LogInv, NativeFaultIsNamed,
       TypeInv, Mains, Natives, Hands, Logs, Runtimes, Fresh, Starting, InTry, Loop, Closed, Over, CleanOver
  <2> QED
    BY <1>1, <1>4, Parties, <2>1, <2>2, <2>3 DEF RunInv, TypeInv
<1>5. CASE main' = [main EXCEPT !.at = 1, !.pc = "report"] /\ ep.runtime = "up"
           /\ ep' = [ep EXCEPT !.state = "DONE", !.runtime = "closed", !.procs = {}, !.forwarder = FALSE]
  <2>1. main' \in Mains
    BY <1>5, Parties, Bounds DEF Mains, Pcs
  <2>2. ep' \in Runtimes
    BY <1>1, <1>5, Parties DEF Runtimes
  <2>3. OrderInv'
    BY <1>1, <1>5, SMTT(30) DEF RunInv, OrderInv, RefusalInv, RaisingInv, LateInv, CleanupInv, EpisodeInv, ReceiverInv,
       NativeInv, LogInv, NativeFaultIsNamed,
       TypeInv, Mains, Natives, Hands, Logs, Runtimes, Fresh, Starting, InTry, Loop, Closed, Over, CleanOver
  <2> QED
    BY <1>1, <1>5, Parties, <2>1, <2>2, <2>3 DEF RunInv, TypeInv
<1>6. CASE main' = [main EXCEPT !.at = 1, !.pc = "report"] /\ ep.runtime = "up"
           /\ ep' = [ep EXCEPT !.failed = TRUE, !.runtime = "closed", !.procs = {}, !.forwarder = FALSE]
  <2>1. main' \in Mains
    BY <1>6, Parties, Bounds DEF Mains, Pcs
  <2>2. ep' \in Runtimes
    BY <1>1, <1>6, Parties DEF Runtimes
  <2>3. OrderInv'
    BY <1>1, <1>6, SMTT(30) DEF RunInv, OrderInv, RefusalInv, RaisingInv, LateInv, CleanupInv, EpisodeInv, ReceiverInv,
       NativeInv, LogInv, NativeFaultIsNamed,
       TypeInv, Mains, Natives, Hands, Logs, Runtimes, Fresh, Starting, InTry, Loop, Closed, Over, CleanOver
  <2> QED
    BY <1>1, <1>6, Parties, <2>1, <2>2, <2>3 DEF RunInv, TypeInv
<1> QED
  BY <1>2, <1>3, <1>4, <1>5, <1>6

\* The summary, with the reconciled reason.
LEMMA ReportKeeps ==
  ASSUME RunInv, Report
  PROVE  RunInv'
<1>1. plan' = plan /\ faults' \in 0 .. MaxFaults /\ UNCHANGED <<native, hand, recv, log, ep>> /\ main.pc = "report"
  BY Parties, Bounds DEF Report, Reconcile
<1>2. \/ main' = [main EXCEPT !.pc = "exit", !.exit = "raised"] /\ (main.raising = "error" \/ native.metrics = NULL)
      \/ \E why \in AbortReasons, code \in {"zero", "two"} : main' = [main EXCEPT !.pc = "exit", !.abort = why, !.exit = code]
         /\ main.raising # "error"
        /\ (why = main.abort \/ (main.abort \in Symptoms /\ why = "native_fault"))
           /\ (native.metrics = "native_fault" => why \notin Symptoms)
  <2>1. CASE main.raising = "error" \/ native.metrics = NULL
    BY <2>1, Zenon DEF Report
  <2>2. CASE ~(main.raising = "error" \/ native.metrics = NULL)
    <3> DEFINE why == Reconcile(main.abort)
               code == IF ep.failed \/ why # NULL THEN "two" ELSE "zero"
    <3>1. main' = [main EXCEPT !.pc = "exit", !.abort = why, !.exit = code]
      BY <2>2, Zenon DEF Report
    <3>2. /\ why \in AbortReasons /\ (why = main.abort \/ (main.abort \in Symptoms /\ why = "native_fault"))
          /\ native.metrics = "native_fault" => why \notin Symptoms
      BY Parties DEF Reconcile, Mains, AbortReasons
    <3>3. code \in {"zero", "two"}
      OBVIOUS
    <3> HIDE DEF why, code
    <3> QED
      BY <2>2, <3>1, <3>2, <3>3
  <2> QED
    BY <2>1, <2>2
<1>3. CASE main' = [main EXCEPT !.pc = "exit", !.exit = "raised"] /\ (main.raising = "error" \/ native.metrics = NULL)
  <2>1. main' \in Mains
    BY <1>3, Parties DEF Mains, Pcs
  <2>2. OrderInv'
    BY <1>1, <1>3, SMTT(30) DEF RunInv, OrderInv, RefusalInv, RaisingInv, LateInv, CleanupInv, EpisodeInv, ReceiverInv,
       NativeInv, LogInv, NativeFaultIsNamed,
       TypeInv, Mains, Natives, Hands, Logs, Runtimes, Fresh, Starting, InTry, Loop, Closed, Over, CleanOver
  <2> QED
    BY <1>1, <1>3, Parties, <2>1, <2>2 DEF RunInv, TypeInv
<1>4. ASSUME NEW why \in AbortReasons, NEW code \in {"zero", "two"},
             main' = [main EXCEPT !.pc = "exit", !.abort = why, !.exit = code] /\ main.raising # "error"
        /\ (why = main.abort \/ (main.abort \in Symptoms /\ why = "native_fault"))
           /\ (native.metrics = "native_fault" => why \notin Symptoms)
      PROVE  RunInv'
  <2>1. main' \in Mains
    BY <1>4, Parties DEF Mains, Pcs
  <2>2. OrderInv'
    BY <1>1, <1>4, SMTT(30) DEF RunInv, OrderInv, RefusalInv, RaisingInv, LateInv, CleanupInv, EpisodeInv, ReceiverInv,
       NativeInv, LogInv, NativeFaultIsNamed,
       TypeInv, Mains, Natives, Hands, Logs, Runtimes, Fresh, Starting, InTry, Loop, Closed, Over, CleanOver
  <2> QED
    BY <1>1, <1>4, Parties, <2>1, <2>2 DEF RunInv, TypeInv
<1> QED
  BY <1>2, <1>3, <1>4

\* What fails beside the main thread.
LEMMA BreaksKeeps ==
  ASSUME RunInv, Breaks
  PROVE  RunInv'
<1>1. plan' = plan /\ faults' \in 0 .. MaxFaults /\ UNCHANGED main /\ main.pc # "exit" /\ UNCHANGED log
  BY Parties, Bounds DEF Breaks, NativeFaults, NativeCrashes, HandFails, ReceiverFails, RecorderFails
<1>2. \/ native.life = "run" /\ native' = [native EXCEPT !.life = "stopping", !.fault = TRUE] /\ UNCHANGED <<hand, recv, ep>>
      \/ native.life = "run" /\ native' = [native EXCEPT !.life = "exited"] /\ UNCHANGED <<hand, recv, ep>>
      \/ hand.life = "run" /\ hand' = [hand EXCEPT !.life = "failed", !.fault = TRUE] /\ UNCHANGED <<native, recv, ep>>
      \/ recv = "run" /\ recv' = "failed" /\ UNCHANGED <<native, hand, ep>>
      \/ ep.runtime = "up" /\ ep' = [ep EXCEPT !.state = "DONE", !.fate = "aborted"] /\ UNCHANGED <<native, hand, recv>>
  BY <1>1, Parties DEF RunInv, OrderInv, ReceiverInv, EpisodeInv, Fresh, Starting, Breaks, NativeFaults, NativeCrashes,
     HandFails, ReceiverFails, RecorderFails
<1>3. CASE native.life = "run" /\ native' = [native EXCEPT !.life = "stopping", !.fault = TRUE] /\ UNCHANGED <<hand, recv, ep>>
  <2>1. native' \in Natives
    BY <1>1, <1>3, Parties DEF Natives
  <2>2. OrderInv'
    BY <1>1, <1>3, SMTT(30) DEF RunInv, OrderInv, RefusalInv, RaisingInv, LateInv, CleanupInv, EpisodeInv, ReceiverInv,
       NativeInv, LogInv, NativeFaultIsNamed,
       TypeInv, Mains, Natives, Hands, Logs, Runtimes, Fresh, Starting, InTry, Loop, Closed, Over, CleanOver
  <2> QED
    BY <1>1, <1>3, Parties, <2>1, <2>2 DEF RunInv, TypeInv
<1>4. CASE native.life = "run" /\ native' = [native EXCEPT !.life = "exited"] /\ UNCHANGED <<hand, recv, ep>>
  <2>1. native' \in Natives
    BY <1>1, <1>4, Parties DEF Natives
  <2>2. OrderInv'
    BY <1>1, <1>4, SMTT(30) DEF RunInv, OrderInv, RefusalInv, RaisingInv, LateInv, CleanupInv, EpisodeInv, ReceiverInv,
       NativeInv, LogInv, NativeFaultIsNamed,
       TypeInv, Mains, Natives, Hands, Logs, Runtimes, Fresh, Starting, InTry, Loop, Closed, Over, CleanOver
  <2> QED
    BY <1>1, <1>4, Parties, <2>1, <2>2 DEF RunInv, TypeInv
<1>5. CASE hand.life = "run" /\ hand' = [hand EXCEPT !.life = "failed", !.fault = TRUE] /\ UNCHANGED <<native, recv, ep>>
  <2>1. hand' \in Hands
    BY <1>1, <1>5, Parties DEF Hands
  <2>2. OrderInv'
    BY <1>1, <1>5, SMTT(30) DEF RunInv, OrderInv, RefusalInv, RaisingInv, LateInv, CleanupInv, EpisodeInv, ReceiverInv,
       NativeInv, LogInv, NativeFaultIsNamed,
       TypeInv, Mains, Natives, Hands, Logs, Runtimes, Fresh, Starting, InTry, Loop, Closed, Over, CleanOver
  <2> QED
    BY <1>1, <1>5, Parties, <2>1, <2>2 DEF RunInv, TypeInv
<1>6. CASE recv = "run" /\ recv' = "failed" /\ UNCHANGED <<native, hand, ep>>
  <2>1. OrderInv'
    BY <1>1, <1>6, SMTT(30) DEF RunInv, OrderInv, RefusalInv, RaisingInv, LateInv, CleanupInv, EpisodeInv, ReceiverInv,
       NativeInv, LogInv, NativeFaultIsNamed,
       TypeInv, Mains, Natives, Hands, Logs, Runtimes, Fresh, Starting, InTry, Loop, Closed, Over, CleanOver
  <2> QED
    BY <1>1, <1>6, Parties, <2>1 DEF RunInv, TypeInv
<1>7. CASE ep.runtime = "up" /\ ep' = [ep EXCEPT !.state = "DONE", !.fate = "aborted"] /\ UNCHANGED <<native, hand, recv>>
  <2>1. ep' \in Runtimes
    BY <1>1, <1>7, Parties DEF Runtimes
  <2>2. OrderInv'
    BY <1>1, <1>7, SMTT(30) DEF RunInv, OrderInv, RefusalInv, RaisingInv, LateInv, CleanupInv, EpisodeInv, ReceiverInv,
       NativeInv, LogInv, NativeFaultIsNamed,
       TypeInv, Mains, Natives, Hands, Logs, Runtimes, Fresh, Starting, InTry, Loop, Closed, Over, CleanOver
  <2> QED
    BY <1>1, <1>7, Parties, <2>1, <2>2 DEF RunInv, TypeInv
<1> QED
  BY <1>2, <1>3, <1>4, <1>5, <1>6, <1>7

\* The event-log thread.
LEMMA LogThreadKeeps ==
  ASSUME RunInv, LogThread
  PROVE  RunInv'
<1>1. plan' = plan /\ faults' \in 0 .. MaxFaults /\ UNCHANGED <<main, native, hand, recv, ep>> /\ log.thread = "run"
  BY Parties, Bounds DEF LogThread
<1>2. \/ log.queue > 0 /\ log' = [log EXCEPT !.queue = @ - 1, !.written = @ + 1] /\ log.file = "open"
      \/ log.queue > 0 /\ log' = [log EXCEPT !.queue = @ - 1, !.errors = @ + 1]
      \/ log.queue = 0 /\ log.sentinel /\ log' = [log EXCEPT !.thread = "ended", !.sentinel = FALSE]
  BY <1>1, Parties DEF RunInv, OrderInv, ReceiverInv, EpisodeInv, Fresh, Starting, LogThread
<1>3. CASE log.queue > 0 /\ log' = [log EXCEPT !.queue = @ - 1, !.written = @ + 1] /\ log.file = "open"
  <2>1. log' \in Logs
    BY <1>1, <1>3, Parties, Counts DEF Logs
  <2>2. OrderInv'
    BY <1>1, <1>3, SMTT(30) DEF RunInv, OrderInv, RefusalInv, RaisingInv, LateInv, CleanupInv, EpisodeInv, ReceiverInv,
       NativeInv, LogInv, NativeFaultIsNamed,
       TypeInv, Mains, Natives, Hands, Logs, Runtimes, Fresh, Starting, InTry, Loop, Closed, Over, CleanOver
  <2> QED
    BY <1>1, <1>3, Parties, <2>1, <2>2 DEF RunInv, TypeInv
<1>4. CASE log.queue > 0 /\ log' = [log EXCEPT !.queue = @ - 1, !.errors = @ + 1]
  <2>1. log' \in Logs
    BY <1>1, <1>4, Parties, Counts DEF Logs
  <2>2. OrderInv'
    BY <1>1, <1>4, SMTT(30) DEF RunInv, OrderInv, RefusalInv, RaisingInv, LateInv, CleanupInv, EpisodeInv, ReceiverInv,
       NativeInv, LogInv, NativeFaultIsNamed,
       TypeInv, Mains, Natives, Hands, Logs, Runtimes, Fresh, Starting, InTry, Loop, Closed, Over, CleanOver
  <2> QED
    BY <1>1, <1>4, Parties, <2>1, <2>2 DEF RunInv, TypeInv
<1>5. CASE log.queue = 0 /\ log.sentinel /\ log' = [log EXCEPT !.thread = "ended", !.sentinel = FALSE]
  <2>1. log' \in Logs
    BY <1>1, <1>5, Parties, Counts DEF Logs
  <2>2. OrderInv'
    BY <1>1, <1>5, SMTT(30) DEF RunInv, OrderInv, RefusalInv, RaisingInv, LateInv, CleanupInv, EpisodeInv, ReceiverInv,
       NativeInv, LogInv, NativeFaultIsNamed,
       TypeInv, Mains, Natives, Hands, Logs, Runtimes, Fresh, Starting, InTry, Loop, Closed, Over, CleanOver
  <2> QED
    BY <1>1, <1>5, Parties, <2>1, <2>2 DEF RunInv, TypeInv
<1> QED
  BY <1>2, <1>3, <1>4, <1>5

\* The native worker reports its startup reference.
LEMMA NativeReadyKeeps ==
  ASSUME RunInv, NativeReady
  PROVE  RunInv'
<1>1. plan' = plan /\ faults' \in 0 .. MaxFaults /\ UNCHANGED <<main, hand, recv, log, ep>> /\ native.life = "run"
  BY Parties, Bounds DEF NativeReady
<1>2. native' = [native EXCEPT !.ready = TRUE]
  BY <1>1, Parties DEF RunInv, OrderInv, ReceiverInv, EpisodeInv, Fresh, Starting, NativeReady
<1>3. native' \in Natives
  BY <1>1, <1>2, Parties DEF Natives
<1>4. OrderInv'
  BY <1>1, <1>2, SMTT(30) DEF RunInv, OrderInv, RefusalInv, RaisingInv, LateInv, CleanupInv, EpisodeInv, ReceiverInv, NativeInv,
     LogInv, NativeFaultIsNamed,
     TypeInv, Mains, Natives, Hands, Logs, Runtimes, Fresh, Starting, InTry, Loop, Closed, Over, CleanOver
<1> QED
  BY <1>1, <1>2, Parties, <1>3, <1>4 DEF RunInv, TypeInv

\* The native worker stops by itself.
LEMMA NativeStopsKeeps ==
  ASSUME RunInv, NativeStops
  PROVE  RunInv'
<1>1. plan' = plan /\ faults' \in 0 .. MaxFaults /\ UNCHANGED <<main, hand, recv, log, ep>> /\ native.life = "run"
  BY Parties, Bounds DEF NativeStops
<1>2. native' = [native EXCEPT !.life = "stopping"]
  BY <1>1, Parties DEF RunInv, OrderInv, ReceiverInv, EpisodeInv, Fresh, Starting, NativeStops
<1>3. native' \in Natives
  BY <1>1, <1>2, Parties DEF Natives
<1>4. OrderInv'
  BY <1>1, <1>2, SMTT(30) DEF RunInv, OrderInv, RefusalInv, RaisingInv, LateInv, CleanupInv, EpisodeInv, ReceiverInv, NativeInv,
     LogInv, NativeFaultIsNamed,
     TypeInv, Mains, Natives, Hands, Logs, Runtimes, Fresh, Starting, InTry, Loop, Closed, Over, CleanOver
<1> QED
  BY <1>1, <1>2, Parties, <1>3, <1>4 DEF RunInv, TypeInv

\* Its metrics become readable once it stopped, with the fault if there was one.
LEMMA NativeReportsKeeps ==
  ASSUME RunInv, NativeReports
  PROVE  RunInv'
<1>1. plan' = plan /\ faults' \in 0 .. MaxFaults /\ UNCHANGED <<main, hand, recv, log, ep>> /\ native.life = "stopping"
  BY Parties, Bounds DEF NativeReports
<1>2. \E m \in {"normal", "native_fault"} : native' = [native EXCEPT !.life = "reported", !.metrics = m]
      /\ (m = "native_fault" <=> native.fault)
  BY <1>1, Parties DEF RunInv, OrderInv, ReceiverInv, EpisodeInv, Fresh, Starting, NativeReports
<1>3. ASSUME NEW m \in {"normal", "native_fault"}, native' = [native EXCEPT !.life = "reported", !.metrics = m]
             /\ (m = "native_fault" <=> native.fault)
      PROVE  RunInv'
  <2>1. native' \in Natives
    BY <1>1, <1>3, Parties DEF Natives
  <2>2. OrderInv'
    BY <1>1, <1>3, SMTT(30) DEF RunInv, OrderInv, RefusalInv, RaisingInv, LateInv, CleanupInv, EpisodeInv, ReceiverInv,
       NativeInv, LogInv, NativeFaultIsNamed,
       TypeInv, Mains, Natives, Hands, Logs, Runtimes, Fresh, Starting, InTry, Loop, Closed, Over, CleanOver
  <2> QED
    BY <1>1, <1>3, Parties, <2>1, <2>2 DEF RunInv, TypeInv
<1> QED
  BY <1>2, <1>3

\* The native worker is reaped.
LEMMA NativeExitsKeeps ==
  ASSUME RunInv, NativeExits
  PROVE  RunInv'
<1>1. plan' = plan /\ faults' \in 0 .. MaxFaults /\ UNCHANGED <<main, hand, recv, log, ep>> /\ native.life = "reported"
  BY Parties, Bounds DEF NativeExits
<1>2. native' = [native EXCEPT !.life = "exited"]
  BY <1>1, Parties DEF RunInv, OrderInv, ReceiverInv, EpisodeInv, Fresh, Starting, NativeExits
<1>3. native' \in Natives
  BY <1>1, <1>2, Parties DEF Natives
<1>4. OrderInv'
  BY <1>1, <1>2, SMTT(30) DEF RunInv, OrderInv, RefusalInv, RaisingInv, LateInv, CleanupInv, EpisodeInv, ReceiverInv, NativeInv,
     LogInv, NativeFaultIsNamed,
     TypeInv, Mains, Natives, Hands, Logs, Runtimes, Fresh, Starting, InTry, Loop, Closed, Over, CleanOver
<1> QED
  BY <1>1, <1>2, Parties, <1>3, <1>4 DEF RunInv, TypeInv


-----------------------------------------------------------------------------
(* The whole run *)

\* Everything is off when the command line is read.
LEMMA InitHolds == Init => RunInv
<1> SUFFICES ASSUME Init PROVE RunInv
  OBVIOUS
<1>1. plan \in Plans /\ (plan.stage = "bounded" => plan.defect \notin HandDefects)
  BY DEF Init, Plans
<1>2. main = [pc |-> "configure", at |-> 1, abort |-> NULL, stop |-> "duration_complete", raising |-> NULL,
              ticks |-> 0, tick |-> NULL, engaged |-> FALSE, prior |-> FALSE, stopped |-> FALSE, late |-> 0,
              rc |-> FALSE, typed |-> FALSE, skipped |-> FALSE, exit |-> NULL]
  BY DEF Init
<1>3. main \in Mains
  <2>1. 0 \in 0 .. MaxTicks
    BY Bounds
  <2> QED
    BY <1>2, <2>1, Bounds DEF Mains, Pcs, Ticks, StopReasons, AbortReasons
<1>4. native = [life |-> "off", ready |-> FALSE, fault |-> FALSE, told |-> FALSE, metrics |-> NULL] /\ native \in Natives
  BY DEF Init, Natives
<1>5. hand = [life |-> "off", order |-> NULL, fault |-> FALSE] /\ hand \in Hands
  BY DEF Init, Hands
<1>6. /\ log = [thread |-> "off", file |-> "closed", queue |-> 0, sentinel |-> FALSE,
                given |-> 0, written |-> 0, drops |-> 0, errors |-> 0, told |-> <<0, 0>>]
      /\ log \in Logs
  <2>1. 0 \in 0 .. LogCapacity /\ <<0, 0>> \in Nat \X Nat
    BY Bounds
  <2> QED
    BY <2>1 DEF Init, Logs
<1>7. /\ ep = [runtime |-> "off", procs |-> {}, forwarder |-> FALSE, state |-> "IDLE", fate |-> NULL, failed |-> FALSE]
      /\ ep \in Runtimes
  BY DEF Init, Runtimes
<1>8. recv = "off" /\ faults = 0 /\ 0 \in 0 .. MaxFaults
  BY Bounds DEF Init
<1>9. OrderInv
  BY <1>2, <1>4, <1>5, <1>6, <1>7, <1>8, SMTT(30)
  DEF OrderInv, RefusalInv, RaisingInv, LateInv, CleanupInv, EpisodeInv, ReceiverInv, NativeInv, LogInv, NativeFaultIsNamed,
      Fresh, Starting, InTry, Loop, Closed, Over, CleanOver
<1> QED
  BY <1>1, <1>3, <1>4, <1>5, <1>6, <1>7, <1>8, <1>9 DEF RunInv, TypeInv

\* Every step, and every stutter, keeps the invariant.
LEMMA NextHolds == RunInv /\ [Next]_vars => RunInv'
<1> SUFFICES ASSUME RunInv, [Next]_vars PROVE RunInv'
  OBVIOUS
<1>1. CASE MainStep
  BY <1>1, ConfigureKeeps, ConstructKeeps, StartEpisodesKeeps, UndoEpisodesKeeps, StartHandKeeps, StartNativeKeeps,
     WaitStatusKeeps,
     StartReceiverKeeps, CheckKeeps, ControlKeeps, PollReturnCodeKeeps, ReadMetricsKeeps, ClassifyKeeps, EdgeKeeps, RecordKeeps,
     WriteEventKeeps, EndTickKeeps, CloseReceiverKeeps, LogSentinelKeeps, LogJoinKeeps, ExceptKeeps, CleanHandKeeps,
     CleanAdapterKeeps, CleanNativeKeeps, HandCleanupKeeps, CleanEpisodesKeeps, ReportKeeps
  DEF MainStep
<1>2. CASE EpisodeConfigFails
  BY <1>2, EpisodeConfigFailsKeeps
<1>3. CASE Interrupt
  BY <1>3, InterruptKeeps
<1>4. CASE Breaks
  BY <1>4, BreaksKeeps
<1>5. CASE LogThread
  BY <1>5, LogThreadKeeps
<1>6. CASE NativeReady \/ NativeStops \/ NativeReports \/ NativeExits
  BY <1>6, NativeReadyKeeps, NativeStopsKeeps, NativeReportsKeeps, NativeExitsKeeps
<1>7. CASE UNCHANGED vars
  <2>1. /\ plan' = plan /\ main' = main /\ native' = native /\ hand' = hand /\ recv' = recv
        /\ log' = log /\ ep' = ep /\ faults' = faults
    BY <1>7 DEF vars
  <2>2. TypeInv'
    BY <2>1 DEF RunInv, TypeInv
  <2>3. OrderInv'
    BY <2>1 DEF RunInv, OrderInv, RefusalInv, RaisingInv, LateInv, CleanupInv, EpisodeInv, ReceiverInv, NativeInv, LogInv,
                NativeFaultIsNamed, Closed, Over, CleanOver
  <2> QED
    BY <2>2, <2>3 DEF RunInv
<1> QED
  BY <1>1, <1>2, <1>3, <1>4, <1>5, <1>6, <1>7 DEF Next

\* The invariant of the whole run of main, with the parties beside it.
THEOREM RunInvariance == Spec => []RunInv
  BY InitHolds, NextHolds, PTL DEF Spec

-----------------------------------------------------------------------------
(* What the invariant says of the run *)

\* The types the run checks.
LEMMA TypesFollow == ASSUME RunInv PROVE TypeOK
<1>1. /\ log.queue \in 0 .. LogCapacity /\ log.thread \in {"off", "run", "ended"}
      /\ log.given \in Nat /\ log.written \in Nat /\ log.drops \in Nat /\ log.errors \in Nat
  BY Parties DEF Logs
<1>2. /\ main.abort \in AbortReasons /\ main.ticks \in 0 .. MaxTicks /\ main.late \in {0, 1}
      /\ main.exit \in {NULL, "refused", "raised", "zero", "two"} /\ main.raising \in {NULL, "interrupt", "error"}
  BY Parties DEF Mains
<1>3. /\ native.life \in {"off", "run", "stopping", "reported", "exited"} /\ native.metrics \in {NULL, "normal", "native_fault"}
      /\ hand.life \in {"off", "run", "failed", "clean"} /\ hand.order \in {NULL, "hold", "terminal"}
  BY Parties DEF Natives, Hands
<1>4. ep.procs \subseteq Processes /\ ep.fate \in {NULL, "rotated", "aborted", "discarded", "finished"}
  BY Parties DEF Runtimes
<1>5. main.late \in 0 .. 2
  BY <1>2
<1> QED
  BY <1>1, <1>2, <1>3, <1>4, <1>5, Parties DEF TypeOK

\* The start and the end of main are safe.
LEMMA SafetyFollows ==
  ASSUME RunInv
  PROVE  RefusedBeforeIO /\ HandFaultStopsTargets /\ EndedIsSafe /\ EndedIsClean
<1>1. RefusedBeforeIO
  BY DEF RunInv, OrderInv, RefusalInv, Fresh, RefusedBeforeIO
<1>2. HandFaultStopsTargets
  BY Parties DEF Mains, HandFaultStopsTargets
<1>3. EndedIsSafe
  BY Parties DEF Mains, RunInv, OrderInv, RefusalInv, CleanupInv, Over, EndedIsSafe
<1>4. EndedIsClean
  BY Parties DEF Mains, RunInv, OrderInv, RefusalInv, CleanupInv, EpisodeInv, ReceiverInv, Over, CleanOver, Fresh, EndedIsClean
<1> QED
  BY <1>1, <1>2, <1>3, <1>4

\* What the report says is what happened.
LEMMA TruthFollows == ASSUME RunInv PROVE ReportIsTruthful
<1>1. NativeFaultIsNamed
  BY DEF RunInv, OrderInv, NativeInv
<1>2. NoFalseCompletion
  BY DEF RunInv, OrderInv, EpisodeInv, RaisingInv, NoFalseCompletion
<1>3. EventLossIsReported
  BY Parties DEF Mains, RunInv, OrderInv, RefusalInv, RaisingInv, LogInv, EventLossIsReported
<1> QED
  BY <1>1, <1>2, <1>3 DEF ReportIsTruthful

\* Only the last part of the cleanup closes a started episode runtime.
LEMMA OnlyCleanupCloses ==
  ASSUME RunInv, Next, ep.runtime = "up", ep'.runtime = "closed"
  PROVE  CleanEpisodes
<1>1. ep \in Runtimes /\ ep' # ep
  BY Parties
<1>2. ~StartEpisodes /\ ~UndoEpisodes /\ ~EpisodeConfigFails /\ main.pc # "episodes"
  <2>1. main.pc \notin {"episodes", "undo"}
    BY DEF RunInv, OrderInv, EpisodeInv
  <2> QED
    BY <2>1 DEF StartEpisodes, UndoEpisodes, EpisodeConfigFails
<1>3. ~Check
  <2>1. ASSUME NEW f, ep' = [ep EXCEPT !.failed = f]
        PROVE  FALSE
    BY <1>1, <2>1 DEF Runtimes
  <2>2. Check => ep' = ep \/ \E f : ep' = [ep EXCEPT !.failed = f]
    BY Zenon DEF Check
  <2> QED
    BY <1>1, <2>1, <2>2
<1>4. ~Record
  BY <1>1 DEF Record, Runtimes
<1>5. ~Breaks
  BY <1>1 DEF Breaks, NativeFaults, NativeCrashes, HandFails, ReceiverFails, RecorderFails, Runtimes
<1>6. ~Interrupt
  BY <1>1, <1>2, Zenon DEF Interrupt
<1>7. ~(Configure \/ Construct \/ StartHand \/ StartNative \/ WaitStatus \/ StartReceiver \/ Control \/ PollReturnCode \/ ReadMetrics)
  BY <1>1, Zenon
     DEF Configure, Construct, StartHand, StartNative, WaitStatus, StartReceiver, Control, PollReturnCode, ReadMetrics
<1>8. ~(Classify \/ Edge \/ WriteEvent \/ EndTick \/ CloseReceiver \/ LogSentinel \/ LogJoin \/ Except)
  BY <1>1, Zenon DEF Classify, Edge, WriteEvent, EndTick, CloseReceiver, LogSentinel, LogJoin, Except
<1>9. ~(CleanHand \/ CleanAdapter \/ CleanNative \/ HandCleanup \/ Report)
  BY <1>1, Zenon DEF CleanHand, CleanAdapter, CleanNative, HandCleanup, Report
<1>10. ~(LogThread \/ NativeReady \/ NativeStops \/ NativeReports \/ NativeExits)
  BY <1>1, Zenon DEF LogThread, NativeReady, NativeStops, NativeReports, NativeExits
<1> QED
  BY <1>2, <1>3, <1>4, <1>5, <1>6, <1>7, <1>8, <1>9, <1>10 DEF Next, MainStep

\* By then the four parts before it are done: the arm is stopped, the native
\* worker gone and the hand worker cleaned up.
LEMMA RobotFirst ==
  ASSUME RunInv, CleanEpisodes
  PROVE  main.stopped /\ native.life \in {"off", "exited"} /\ hand.life \in {"off", "clean"}
<1>1. main.pc = "cleanup" /\ main.at = 5
  BY CleanupSteps, Zenon DEF CleanEpisodes
<1> QED
  BY <1>1 DEF RunInv, OrderInv, CleanupInv, Closed

-----------------------------------------------------------------------------

\* Every party stays in a state its code can be in, and the event queue of
\* _AsyncEventLog within its capacity.
THEOREM TypeCorrect == Spec => []TypeOK
  BY RunInvariance, TypesFollow, PTL

\* _reconcile_terminal_transport_symptom, the end of the episode under way
\* and the counters of the event log: the report tells what happened.
THEOREM ReportCorrect == Spec => []ReportIsTruthful
  BY RunInvariance, TruthFollows, PTL

\* The checks before the first I/O, the loop and the finally block of main.
THEOREM SafeCorrect == Spec => SafeFromStartToEnd
<1>1. RunInv => TypeOK /\ RefusedBeforeIO /\ HandFaultStopsTargets /\ EndedIsSafe /\ EndedIsClean
  BY TypesFollow, SafetyFollows
<1>2. RunInv /\ [Next]_vars =>
        [ep.runtime = "up" /\ ep'.runtime = "closed" =>
           main.stopped /\ native.life \in {"off", "exited"} /\ hand.life \in {"off", "clean"}]_vars
  BY OnlyCleanupCloses, RobotFirst
<1> QED
  BY RunInvariance, <1>1, <1>2, PTL DEF Spec, SafeFromStartToEnd, RobotBeforeRecorder
=============================================================================
