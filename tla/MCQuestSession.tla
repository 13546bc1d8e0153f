---------------------------- MODULE MCQuestSession ----------------------------
(***************************************************************************)
(* QuestSession for TLC, under two bounds chosen in the initial state.     *)
(* "restarts": two senders of two packets each, triggers without their     *)
(* hysteresis band, short runs.  "one sender": longer runs of one sender   *)
(* that uses the index trigger alone, in all of its bands.                 *)
(* Each is a part of the behaviours of QuestSession.                       *)
(***************************************************************************)
EXTENDS QuestSession

CONSTANTS
  First,        \* the sender of "one sender"
  RestartSeqs,  \* bound: sequence numbers of "restarts"
  RestartNow    \* bound: control periods of "restarts"

ASSUME MCAssumption ==
  First \in SessionIds /\ RestartSeqs \subseteq Seqs /\ RestartNow <= MaxNow

VARIABLE bound

Bounds == {"restarts", "one sender"}

\* The CTRL datagrams of a bound.
Datagrams ==
  IF bound = "restarts"
  THEN [session : SessionIds, seq : RestartSeqs, facts : BOOLEAN,
        index : IndexValues \ {"band"}, grip : GripValues]
  ELSE [session : {First}, seq : Seqs, facts : BOOLEAN,
        index : IndexValues, grip : {"low"}]

\* Only "one sender" leaves a datagram waiting in the socket.
DrainTimes == IF bound = "restarts" THEN {now} ELSE ReceiveTimes

MCInit == Init /\ bound \in Bounds

MCControllerPacket ==
  /\ ~stopped
  /\ \E pkt \in Datagrams, t \in DrainTimes :
       Publish(Update(provider, pkt, t), t)
  /\ UNCHANGED <<now, session, outputs>>

MCTick == Tick /\ (bound = "restarts" => now < RestartNow)

MCNext ==
  /\ \/ MCControllerPacket \/ MalformedController \/ MalformedHandData
     \/ MCTick \/ Abort \/ Finish
  /\ UNCHANGED bound

MCSpec == MCInit /\ [][MCNext]_<<vars, bound>>
===============================================================================
