---------------------------- MODULE QuestController ----------------------------
(***************************************************************************)
(* Host side of the left Quest controller: ControllerProvider, which       *)
(* accepts only forward packets of the current sender session, and         *)
(* ControllerClutchAdapter, which turns its snapshot into one sample for   *)
(* the arm clutch (index trigger) and one for the hand clutch (grip).      *)
(* Operators on records; LiveQuestControllerRouter's ingest and poll       *)
(* apply them.  Packet counters are telemetry and left out.                *)
(***************************************************************************)
EXTENDS MotionClutch

CONSTANTS
  SessionIds,  \* sender session identifiers (one per start of the Quest app)
  Seqs,        \* packet sequence numbers
  IndexValues, \* bands the index trigger takes
  GripValues   \* bands the grip takes

NoSession == "no session"

ASSUME ControllerAssumption ==
  /\ NoSession \notin SessionIds
  /\ Seqs \subseteq Nat
  /\ IndexValues \subseteq Bands
  /\ GripValues \subseteq Bands

Packet == [session : SessionIds, seq : Seqs, facts : BOOLEAN,
           index : IndexValues, grip : GripValues]

\* The provider: latest accepted packet (session is NoSession before the first
\* one), its receive time, the sessions retired and the forced invalid latch.
Provider ==
  [session : SessionIds \cup {NoSession}, seq : Nat, facts : BOOLEAN,
   index : Bands, grip : Bands, at : Nat,
   retired : SUBSET SessionIds, forced : BOOLEAN]

ProviderInit ==
  [session |-> NoSession, seq |-> 0, facts |-> FALSE, index |-> "low",
   grip |-> "low", at |-> 0, retired |-> {}, forced |-> FALSE]

\* ControllerProvider._accept
Accept(p, pkt, t) ==
  [p EXCEPT !.session = pkt.session, !.seq = pkt.seq, !.facts = pkt.facts,
            !.index = pkt.index, !.grip = pkt.grip, !.at = t,
            !.forced = FALSE]

\* ControllerProvider.update: packets of a retired session, duplicates and
\* reordered packets are counted and dropped; a new session retires the old.
Update(p, pkt, t) ==
  IF pkt.session \in p.retired THEN p
  ELSE IF pkt.session = p.session
  THEN IF pkt.seq <= p.seq THEN p ELSE Accept(p, pkt, t)
  ELSE [Accept(p, pkt, t) EXCEPT
          !.retired = p.retired \cup ({p.session} \ {NoSession})]

\* ControllerProvider.invalidate
Invalidate(p) == [p EXCEPT !.forced = TRUE]

\* ControllerProvider.snapshot: controller_valid
ControllerValid(p, t) ==
  /\ p.session # NoSession
  /\ p.facts
  /\ ~p.forced
  /\ t >= p.at
  /\ t - p.at <= Stale

\* The adapter: shared_release_required and the session it last saw.
Gate == [release : BOOLEAN, session : SessionIds \cup {NoSession}]

GateInit == [release |-> TRUE, session |-> NoSession]

\* Mutant: a new sender session needs no release.
GateStep_AnySession(g, p, t) ==
  [session |-> p.session,
   release |-> \/ p.session = NoSession
               \/ ~ControllerValid(p, t)
               \/ g.release /\ ~(p.index = "low" /\ p.grip = "low")]

\* ControllerClutchAdapter.samples: a new session or an invalid snapshot makes
\* a release of both controls necessary; one valid packet with both released
\* ends it.
GateStep(g, p, t) ==
  LET required == g.release \/ p.session # g.session
  IN [session |-> p.session,
      release |-> \/ p.session = NoSession
                  \/ ~ControllerValid(p, t)
                  \/ required /\ ~(p.index = "low" /\ p.grip = "low")]

SampleOf(p, value, valid) ==
  IF p.session = NoSession
  THEN [value |-> "low", at |-> 0, seq |-> 0, valid |-> FALSE]
  ELSE [value |-> value, at |-> p.at, seq |-> p.seq, valid |-> valid]

\* The frame set_clutch_samples publishes, given the gate after GateStep.
Frame(p, g, t) ==
  LET valid == ControllerValid(p, t) /\ ~g.release
  IN [index |-> SampleOf(p, p.index, valid),
      grip  |-> SampleOf(p, p.grip, valid),
      left  |-> ControllerValid(p, t)]
=============================================================================
