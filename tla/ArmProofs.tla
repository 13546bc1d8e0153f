------------------------------ MODULE ArmProofs ------------------------------
(***************************************************************************)
(* The safety properties of the arm's path.                                *)
(*                                                                         *)
(* First the native worker, for every queue length, every number of packets *)
(* and every motion boundary: WireInv orders the packets in the socket, so  *)
(* that a stop is always the newest; MotionInv says where the arm stands    *)
(* before the first target and after braking; ReleaseInv relates the        *)
(* controller's modes to what the worker knows of them.                     *)
(*                                                                         *)
(* Then the schedule of the same loop, ServoSchedule, for every period and  *)
(* every slack: where the deadline, the reference of the start period and   *)
(* the resampler's time stand to one another while the loop sleeps and     *)
(* while a cycle is under way.                                             *)
(*                                                                         *)
(* Last the sessions that choose the targets, TargetSession, for every      *)
(* range, limit and number of retries.  What evaluate() returns is          *)
(* described once (ResultOf), from what a candidate is (CandidateOf) and    *)
(* what is left of a trial (RecoveryFacts); TargetInv says where joints,    *)
(* target and arm stay and that a tick under way has accepted nothing yet.  *)
(***************************************************************************)
EXTENDS JakaServoWorker, ServoSchedule, TargetSession, WellFoundedInduction, TLAPS

Valid(i) == wire[i].kind # "malformed"

WireInv ==
    /\ lastSequence <= sequence
    /\ \A i \in DOMAIN wire : Valid(i) =>
         /\ wire[i].seq <= sequence /\ lastSequence < wire[i].seq
         /\ wire[i].kind = "stop" => halted /\ wire[i].seq = sequence
    /\ \A i, j \in DOMAIN wire : i < j /\ Valid(i) /\ Valid(j) => wire[i].seq < wire[j].seq

MotionInv ==
    /\ ~firstTarget =>
         arm.emitted = startHold /\ arm.destination = startHold /\ arm.velocity = 0 /\ arm.acceleration = 0
    /\ stoppedReady => AtRest(arm) /\ pauseRequested
    /\ pc \in {"connect", "verify", "edg", "servo", "hold"} =>
         ~stoppedReady /\ arm.velocity = 0 /\ arm.acceleration = 0

ReleaseInv ==
    /\ error = 0 /\ pc # "done" =>
         (robot.edg => backend.edg) /\ (robot.servo => backend.servo)
    /\ CleanExitReleases

JakaInv == TypeOK /\ WireInv /\ MotionInv /\ ReleaseInv

USE WorkerAssumption

------------------------------------------------------------------------------
(* The newest packet of a drain *)

\* A nonempty set of naturals bounded above has a largest element.
LEMMA LargestNatural ==
  ASSUME NEW T, T # {}, NEW b \in Nat, \A t \in T : t \in Nat /\ t <= b
  PROVE  \E t \in T : \A u \in T : u <= t
<1> DEFINE D == {b - t : t \in T}
<1>1. D \subseteq Nat /\ D # {}
  OBVIOUS
<1>2. \E x \in D : \A y \in D : ~(<<y, x>> \in OpToRel(<, Nat))
  BY <1>1, NatLessThanWellFounded, WFMin
<1>3. PICK x \in D : \A y \in D : ~(y < x)
  BY <1>1, <1>2 DEF OpToRel
<1>4. PICK t \in T : x = b - t
  OBVIOUS
<1>5. ASSUME NEW u \in T PROVE u <= t
  <2>1. b - u \in D
    OBVIOUS
  <2>2. ~(b - u < b - t)
    BY <1>3, <1>4, <2>1
  <2> QED
    BY <2>2
<1> QED
  BY <1>5

\* What the socket holds are packets.
LEMMA WirePackets ==
  ASSUME TypeOK
  PROVE  /\ DOMAIN wire = 1..Len(wire) /\ Len(wire) \in Nat /\ sequence \in Nat
         /\ \A i \in DOMAIN wire : /\ i \in Nat /\ wire[i] \in Packet
                                    /\ wire[i].seq \in Nat /\ wire[i].pos \in Position
                                    /\ wire[i].kind \in Kinds
<1>1. wire \in Seq(Packet) /\ sequence \in Nat
  BY DEF TypeOK
<1>2. DOMAIN wire = 1..Len(wire) /\ Len(wire) \in Nat
  BY <1>1
<1>3. \A i \in DOMAIN wire : i \in Nat /\ wire[i] \in Packet
  BY <1>1, <1>2
<1> QED
  BY <1>1, <1>2, <1>3 DEF Packet

\* A drain with a fresh packet has a newest one, taken from the socket.
LEMMA NewestExists ==
  ASSUME TypeOK, WireInv, Fresh # {}
  PROVE  \E i \in Fresh : Newest = wire[i] /\ \A j \in Fresh : wire[j].seq <= wire[i].seq
<1> DEFINE S == {wire[i].seq : i \in Fresh}
<1>1. \A i \in DOMAIN wire : wire[i].seq \in Nat
  BY WirePackets
<1>2. \A t \in S : t \in Nat /\ t <= sequence
  BY <1>1 DEF Fresh, WireInv, Valid
<1>3. S # {} /\ sequence \in Nat
  BY DEF TypeOK
<1>4. \E t \in S : \A u \in S : u <= t
  <2> HIDE DEF S
  <2> QED
    BY <1>2, <1>3, LargestNatural
<1>5. \E i \in Fresh : \A j \in Fresh : wire[j].seq <= wire[i].seq
  BY <1>4
<1> QED
  BY <1>5 DEF Newest

\* A stop in the socket is the newest packet: its producer sends nothing more.
LEMMA StopIsNewest ==
  ASSUME TypeOK, WireInv, NEW k \in DOMAIN wire, wire[k].kind = "stop"
  PROVE  Got("stop")
<1>1. k \in Fresh
  BY DEF Fresh, WireInv, Valid
<1>2. PICK i \in Fresh : Newest = wire[i] /\ \A j \in Fresh : wire[j].seq <= wire[i].seq
  BY <1>1, NewestExists
<1>3. i \in DOMAIN wire /\ Valid(i) /\ i \in Nat /\ k \in Nat /\ wire[i].seq \in Nat
  BY WirePackets DEF Fresh, Valid
<1>4. wire[k].seq <= wire[i].seq /\ wire[i].seq <= sequence /\ wire[k].seq = sequence
  BY <1>1, <1>2, <1>3 DEF WireInv, Valid
<1>5. Valid(k) /\ wire[k].seq \in Nat /\ sequence \in Nat
  BY WirePackets DEF Valid
<1>6. i = k
  BY <1>3, <1>4, <1>5 DEF WireInv
<1> QED
  BY <1>1, <1>2, <1>6 DEF Got

------------------------------------------------------------------------------
(* The producer *)

\* What the socket takes is a prefix, and it fits.
LEMMA DeliveredFacts ==
  ASSUME TypeOK, NEW ps \in Seq(Packet)
  PROVE  /\ Delivered(ps) \in Seq(Packet)
         /\ Len(Delivered(ps)) \in Nat /\ Len(Delivered(ps)) <= Len(ps)
         /\ Len(wire) + Len(Delivered(ps)) <= MaxQueue
         /\ \A i \in 1..Len(Delivered(ps)) : Delivered(ps)[i] = ps[i]
<1> DEFINE n == IF Len(ps) < Room THEN Len(ps) ELSE Room
<1>1. Len(wire) \in Nat /\ Len(wire) <= MaxQueue /\ Len(ps) \in Nat
  BY WirePackets DEF TypeOK
<1>2. Room \in Nat /\ Room + Len(wire) <= MaxQueue
  BY <1>1 DEF Room
<1>3. n \in Nat /\ n <= Len(ps) /\ n <= Room
  BY <1>1, <1>2
<1>4. Delivered(ps) = [i \in 1..n |-> ps[i]]
  BY DEF Delivered
<1> HIDE DEF n
<1>5. \A i \in 1..n : ps[i] \in Packet
  BY <1>1, <1>3
<1>6. Delivered(ps) \in Seq(Packet) /\ Len(Delivered(ps)) = n
  BY <1>3, <1>4, <1>5
<1> QED
  BY <1>1, <1>2, <1>3, <1>4, <1>6

\* Packets numbered in order keep the socket in order; a stop is the last.
LEMMA Sending ==
  ASSUME TypeOK, WireInv, ~halted, NEW ps \in Seq(Packet),
         \A i \in 1..Len(ps) : /\ ps[i].seq = sequence + i
                               /\ ps[i].kind = "stop" => halted' /\ i = Len(ps),
         wire' = wire \o Delivered(ps), sequence' = sequence + Len(ps),
         UNCHANGED lastSequence
  PROVE  WireInv' /\ wire' \in Seq(Packet) /\ Len(wire') <= MaxQueue /\ sequence' \in Nat
<1> DEFINE d == Delivered(ps)
           w == wire \o d
<1>1. /\ d \in Seq(Packet) /\ Len(d) \in Nat /\ Len(d) <= Len(ps)
      /\ Len(wire) + Len(d) <= MaxQueue /\ \A i \in 1..Len(d) : d[i] = ps[i]
  BY DeliveredFacts
<1>2. wire \in Seq(Packet) /\ Len(wire) \in Nat /\ sequence \in Nat /\ lastSequence \in Nat
  BY WirePackets DEF TypeOK
<1> HIDE DEF d
<1>3. /\ w \in Seq(Packet) /\ Len(w) = Len(wire) + Len(d) /\ DOMAIN w = 1..Len(w)
      /\ \A i \in 1..Len(wire) : w[i] = wire[i]
      /\ \A i \in 1..Len(d) : w[Len(wire) + i] = d[i]
  BY <1>1, <1>2
<1>4. ASSUME NEW i \in 1..Len(w)
      PROVE  \/ i \in 1..Len(wire) /\ w[i] = wire[i]
             \/ /\ i - Len(wire) \in 1..Len(ps) /\ w[i] = ps[i - Len(wire)]
                /\ w[i].seq = sequence + (i - Len(wire))
                /\ w[i].kind = "stop" => halted' /\ i - Len(wire) = Len(ps)
  <2>1. CASE i <= Len(wire)
    BY <1>2, <1>3, <2>1
  <2>2. CASE i > Len(wire)
    <3> DEFINE k == i - Len(wire)
    <3>1. k \in 1..Len(d) /\ i = Len(wire) + k
      BY <1>1, <1>2, <1>3, <2>2
    <3> HIDE DEF k
    <3>2. w[i] = d[k] /\ d[k] = ps[k] /\ k \in 1..Len(ps)
      BY <1>1, <1>3, <3>1
    <3>3. w[i].seq = sequence + k /\ (w[i].kind = "stop" => halted' /\ k = Len(ps))
      BY <3>2
    <3> QED
      BY <3>1, <3>2, <3>3 DEF k
  <2> QED
    BY <1>2, <2>1, <2>2
<1>5. \A i \in 1..Len(wire) : wire[i].kind # "malformed" =>
         /\ wire[i].seq \in Nat /\ wire[i].seq <= sequence /\ lastSequence < wire[i].seq
         /\ wire[i].kind # "stop"
  BY <1>2, WirePackets DEF WireInv, Valid
<1>6. \A i, j \in 1..Len(wire) : i < j /\ wire[i].kind # "malformed" /\ wire[j].kind # "malformed"
         => wire[i].seq < wire[j].seq
  <2>1. DOMAIN wire = 1..Len(wire)
    BY <1>2
  <2> QED
    BY <2>1 DEF WireInv, Valid
<1>7. wire' = w /\ sequence' = sequence + Len(ps) /\ lastSequence' = lastSequence
  BY DEF d
<1>8. Len(ps) \in Nat /\ lastSequence <= sequence
  BY DEF WireInv
<1> HIDE DEF w
<1>9. lastSequence' <= sequence'
  BY <1>2, <1>7, <1>8
<1>10. ASSUME NEW i \in 1..Len(w), w[i].kind # "malformed"
       PROVE  /\ w[i].seq <= sequence + Len(ps) /\ lastSequence < w[i].seq
              /\ w[i].kind = "stop" => halted' /\ w[i].seq = sequence + Len(ps)
  BY <1>2, <1>4, <1>5, <1>8, <1>10, SMTT(60)
<1>11. ASSUME NEW i \in 1..Len(w), NEW j \in 1..Len(w), i < j,
              w[i].kind # "malformed", w[j].kind # "malformed"
       PROVE  w[i].seq < w[j].seq
  <2>1. CASE j <= Len(wire)
    <3>1. i \in 1..Len(wire) /\ j \in 1..Len(wire)
      BY <1>2, <1>3, <1>11, <2>1
    <3>2. w[i] = wire[i] /\ w[j] = wire[j]
      BY <1>3, <3>1
    <3> QED
      BY <1>6, <1>11, <3>1, <3>2
  <2>2. CASE i > Len(wire)
    <3>1. i \in Int /\ j \in Int /\ i \notin 1..Len(wire) /\ j \notin 1..Len(wire)
      BY <1>2, <1>11, <2>2
    <3>2. w[i].seq = sequence + (i - Len(wire)) /\ w[j].seq = sequence + (j - Len(wire))
      BY <1>4, <3>1
    <3> QED
      BY <1>2, <1>11, <3>1, <3>2
  <2>3. CASE i <= Len(wire) /\ j > Len(wire)
    <3>1. w[i].seq \in Nat /\ w[i].seq <= sequence
      BY <1>2, <1>3, <1>5, <1>11, <2>3
    <3>2. w[j].seq = sequence + (j - Len(wire)) /\ j - Len(wire) > 0
      BY <1>2, <1>4, <2>3
    <3> QED
      BY <1>2, <3>1, <3>2
  <2> QED
    BY <1>2, <2>1, <2>2, <2>3
<1>12. WireInv'
  BY <1>3, <1>7, <1>9, <1>10, <1>11 DEF WireInv, Valid
<1> QED
  BY <1>1, <1>2, <1>3, <1>7, <1>8, <1>12

\* A step of the producer only touches its own state and the socket.
LEMMA ProducerFrame ==
  ASSUME JakaInv, engaged' \in BOOLEAN, halted' \in BOOLEAN, sequence' \in Nat,
         wire' \in Seq(Packet), Len(wire') <= MaxQueue, WireInv',
         UNCHANGED <<socketOpen, robotVars, endVars, streamVars, motionVars, reported>>
  PROVE  JakaInv'
<1>1. TypeOK'
  BY DEF JakaInv, TypeOK, robotVars, endVars, streamVars, motionVars
<1>2. MotionInv'
  BY DEF JakaInv, MotionInv, AtRest, endVars, motionVars
<1>3. ReleaseInv'
  BY DEF JakaInv, ReleaseInv, CleanExitReleases, robotVars, endVars
<1> QED
  BY <1>1, <1>2, <1>3 DEF JakaInv

LEMMA TickPreserves == JakaInv /\ ProducerTick => JakaInv'
<1> SUFFICES ASSUME JakaInv, ProducerTick PROVE JakaInv'
  OBVIOUS
<1>1. TypeOK /\ WireInv /\ sequence \in Nat /\ engaged \in BOOLEAN
  BY DEF JakaInv, TypeOK
<1>2. PICK after \in BOOLEAN, kind \in {"joint", "heartbeat", "none"}, pos \in Targets \cup {0} :
         /\ engaged' = after /\ sequence' = sequence + Len(TickPackets(after, kind, pos))
         /\ wire' = wire \o Delivered(TickPackets(after, kind, pos))
         /\ halted' = (/\ Len(Delivered(TickPackets(after, kind, pos))) < Len(TickPackets(after, kind, pos))
                       /\ engaged \/ after \/ kind # "heartbeat")
  BY ZenonT(60) DEF ProducerTick
<1> DEFINE m == MainPacket(kind, pos)
           e == PausePacket(after, Len(m))
           all == m \o e
<1>3. pos \in Position
  BY DEF Position
<1>4. m \in Seq(Packet) /\ Len(m) \in {0, 1} /\ \A i \in 1..Len(m) : m[i].seq = sequence + i /\ m[i].kind # "stop"
  <2>1. CASE kind = "none"
    BY <2>1 DEF MainPacket
  <2>2. CASE kind # "none"
    <3> DEFINE p == [seq |-> sequence + 1, kind |-> kind, pos |-> pos]
    <3>1. p \in Packet /\ p.seq = sequence + 1 /\ p.kind # "stop"
      BY <1>1, <1>3, <2>2 DEF Packet, Kinds
    <3>2. m = <<p>>
      BY <2>2 DEF MainPacket
    <3> HIDE DEF p, m
    <3> QED
      BY <3>1, <3>2
  <2> QED
    BY <2>1, <2>2
<1> HIDE DEF m
<1>5. /\ e \in Seq(Packet) /\ Len(e) \in {0, 1}
      /\ \A i \in 1..Len(e) : e[i].seq = sequence + Len(m) + i /\ e[i].kind # "stop"
  <2>1. CASE ~(engaged /\ ~after)
    BY <2>1 DEF PausePacket
  <2>2. CASE engaged /\ ~after
    <3> DEFINE p == [seq |-> sequence + Len(m) + 1, kind |-> "pause", pos |-> 0]
    <3>1. p \in Packet /\ p.seq = sequence + Len(m) + 1 /\ p.kind # "stop"
      BY <1>1, <1>4 DEF Packet, Kinds, Position
    <3>2. e = <<p>>
      BY <2>2 DEF PausePacket
    <3> HIDE DEF p, e
    <3> QED
      BY <3>1, <3>2
  <2> QED
    BY <2>1, <2>2
<1> HIDE DEF e
<1>6. /\ all \in Seq(Packet) /\ Len(all) = Len(m) + Len(e)
      /\ \A i \in 1..Len(all) : all[i].seq = sequence + i /\ all[i].kind # "stop"
  <2>1. all \in Seq(Packet) /\ Len(all) = Len(m) + Len(e)
    BY <1>4, <1>5
  <2>2. /\ \A i \in 1..Len(m) : all[i] = m[i]
        /\ \A i \in 1..Len(e) : all[Len(m) + i] = e[i]
    BY <1>4, <1>5
  <2>3. ASSUME NEW i \in 1..Len(all) PROVE all[i].seq = sequence + i /\ all[i].kind # "stop"
    <3>1. CASE i <= Len(m)
      BY <1>4, <2>1, <2>2, <3>1
    <3>2. CASE i > Len(m)
      <4> DEFINE k == i - Len(m)
      <4>1. k \in 1..Len(e) /\ i = Len(m) + k
        BY <1>4, <1>5, <2>1, <3>2
      <4> HIDE DEF k
      <4>2. all[i] = e[k] /\ e[k].seq = sequence + Len(m) + k /\ e[k].kind # "stop"
        BY <1>5, <2>2, <4>1
      <4> QED
        BY <1>1, <1>4, <4>1, <4>2
    <3> QED
      BY <1>4, <3>1, <3>2
  <2> HIDE DEF all
  <2> QED
    BY <2>1, <2>3
<1>7. /\ engaged' = after /\ sequence' = sequence + Len(all) /\ wire' = wire \o Delivered(all)
      /\ halted' \in BOOLEAN
  BY <1>2 DEF m, e, TickPackets
<1>8. /\ ~halted
      /\ UNCHANGED <<socketOpen, robotVars, endVars, streamVars, motionVars, reported>>
  BY DEF ProducerTick
<1>9. lastSequence' = lastSequence
  BY <1>8 DEF streamVars
<1> HIDE DEF all
<1>10. WireInv' /\ wire' \in Seq(Packet) /\ Len(wire') <= MaxQueue /\ sequence' \in Nat
  BY <1>1, <1>6, <1>7, <1>8, <1>9, Sending
<1> QED
  BY <1>7, <1>8, <1>10, ProducerFrame

LEMMA StopPreserves == JakaInv /\ ProducerStop => JakaInv'
<1> SUFFICES ASSUME JakaInv, ProducerStop PROVE JakaInv'
  OBVIOUS
<1> DEFINE p == [seq |-> sequence + 1, kind |-> "stop", pos |-> 0]
           ps == <<p>>
<1>1. TypeOK /\ WireInv /\ sequence \in Nat /\ engaged \in BOOLEAN
  BY DEF JakaInv, TypeOK
<1>2. p \in Packet /\ p.seq = sequence + 1
  BY <1>1 DEF Packet, Kinds, Position
<1>3. /\ ~halted /\ halted' = TRUE /\ sequence' = sequence + 1 /\ wire' = wire \o Delivered(ps)
      /\ UNCHANGED <<engaged, socketOpen, robotVars, endVars, streamVars, motionVars, reported>>
  BY DEF ProducerStop
<1> HIDE DEF p
<1>4. ps \in Seq(Packet) /\ Len(ps) = 1 /\ \A i \in 1..Len(ps) : i = 1 /\ ps[i] = p
  BY <1>2
<1>5. lastSequence' = lastSequence
  BY <1>3 DEF streamVars
<1> HIDE DEF ps
<1>6. WireInv' /\ wire' \in Seq(Packet) /\ Len(wire') <= MaxQueue /\ sequence' \in Nat
  BY <1>1, <1>2, <1>3, <1>4, <1>5, Sending
<1> QED
  BY <1>1, <1>3, <1>6, ProducerFrame

LEMMA DiesPreserves == JakaInv /\ ProducerDies => JakaInv'
<1> SUFFICES ASSUME JakaInv, ProducerDies PROVE JakaInv'
  OBVIOUS
<1>1. /\ halted' \in BOOLEAN /\ engaged' \in BOOLEAN /\ sequence' \in Nat
      /\ wire' \in Seq(Packet) /\ Len(wire') <= MaxQueue
      /\ UNCHANGED <<socketOpen, robotVars, endVars, streamVars, motionVars, reported>>
  BY DEF ProducerDies, JakaInv, TypeOK
<1>2. WireInv'
  BY DEF ProducerDies, JakaInv, WireInv, Valid, streamVars
<1> QED
  BY <1>1, <1>2, ProducerFrame

LEMMA MalformedPreserves == JakaInv /\ MalformedDatagram => JakaInv'
<1> SUFFICES ASSUME JakaInv, MalformedDatagram PROVE JakaInv'
  OBVIOUS
<1> DEFINE p == [seq |-> 0, kind |-> "malformed", pos |-> 0]
<1>1. TypeOK /\ WireInv /\ wire \in Seq(Packet) /\ Len(wire) \in Nat
  BY WirePackets DEF JakaInv, TypeOK
<1>2. p \in Packet /\ p.kind = "malformed"
  BY DEF Packet, Kinds, Position
<1>3. /\ Room > 0 /\ wire' = Append(wire, p)
      /\ UNCHANGED <<producerVars, socketOpen, robotVars, endVars, streamVars, motionVars, reported>>
  BY DEF MalformedDatagram
<1> HIDE DEF p
<1>4. /\ wire' \in Seq(Packet) /\ Len(wire') = Len(wire) + 1 /\ DOMAIN wire' = 1..(Len(wire) + 1)
      /\ \A i \in 1..Len(wire) : wire'[i] = wire[i]
      /\ wire'[Len(wire) + 1] = p
  BY <1>1, <1>2, <1>3
<1>5. Len(wire') <= MaxQueue
  BY <1>1, <1>3, <1>4 DEF Room
<1>6. \A i \in DOMAIN wire' : Valid(i)' => i \in DOMAIN wire /\ wire'[i] = wire[i] /\ Valid(i)
  BY <1>1, <1>2, <1>4 DEF Valid
<1>7. WireInv'
  BY <1>1, <1>3, <1>6 DEF WireInv, producerVars, streamVars
<1>8. halted' \in BOOLEAN /\ engaged' \in BOOLEAN /\ sequence' \in Nat
  BY <1>1, <1>3 DEF TypeOK, producerVars
<1> QED
  BY <1>3, <1>4, <1>5, <1>7, <1>8, ProducerFrame

------------------------------------------------------------------------------
(* Setup and the end of the loop *)

\* The socket's order survives any step that leaves socket and counters alone.
LEMMA WireFrame ==
  ASSUME WireInv, UNCHANGED <<producerVars, wire, lastSequence>>
  PROVE  WireInv'
BY DEF WireInv, Valid, producerVars

LEMMA SetupCallPreserves ==
  ASSUME JakaInv, NEW effect \in BOOLEAN,
         NEW at \in {"connect", "edg", "servo"}, NEW then \in {"verify", "servo", "hold"},
         NEW flag \in {"connected", "edg", "servo"}, effect => flag # "connected",
         SetupCall(at, then, flag, effect)
  PROVE  JakaInv'
<1>1. /\ pc = at /\ pc' \in {then, "shutdown"} /\ (pc' = then => error' = error) /\ error' \in {error, 1}
      /\ pc' = "shutdown" => error' = 1
      /\ UNCHANGED <<producerVars, wire, socketOpen, streamVars, motionVars, reported>>
  BY DEF SetupCall, Throw
<1>2. robot' \in [edg : BOOLEAN, servo : BOOLEAN]
  BY DEF SetupCall, JakaInv, TypeOK
<1>3. backend' \in [connected : BOOLEAN, edg : BOOLEAN, servo : BOOLEAN]
  BY DEF SetupCall, JakaInv, TypeOK
<1>4. TypeOK'
  <2>1. pc' \in {"verify", "servo", "hold", "shutdown"} /\ error' \in {0, 1}
    BY <1>1 DEF JakaInv, TypeOK
  <2> QED
    BY <1>1, <1>2, <1>3, <2>1 DEF JakaInv, TypeOK, producerVars, streamVars, motionVars
<1>5. WireInv'
  BY <1>1, WireFrame DEF JakaInv, streamVars
<1>6. MotionInv'
  BY <1>1 DEF JakaInv, MotionInv, AtRest, motionVars
<1>7. ReleaseInv'
  <2>1. pc' # "done" /\ pc # "done"
    BY <1>1
  <2>2. ASSUME error' = 0 PROVE (robot'.edg => backend'.edg) /\ (robot'.servo => backend'.servo)
    <3>1. error = 0 /\ (robot.edg => backend.edg) /\ (robot.servo => backend.servo)
      BY <1>1, <2>1, <2>2 DEF JakaInv, TypeOK, ReleaseInv, SetupCall, Throw
    <3>2. /\ backend' = [backend EXCEPT ![flag] = TRUE]
          /\ robot' \in {robot, [robot EXCEPT ![flag] = TRUE]}
      BY <2>2 DEF SetupCall, Throw
    <3>3. flag \in {"connected", "edg", "servo"}
      OBVIOUS
    <3>4. /\ robot \in [edg : BOOLEAN, servo : BOOLEAN]
          /\ backend \in [connected : BOOLEAN, edg : BOOLEAN, servo : BOOLEAN]
      BY DEF JakaInv, TypeOK
    <3> QED
      BY <3>1, <3>2, <3>3, <3>4
  <2> QED
    BY <2>1, <2>2 DEF ReleaseInv, CleanExitReleases
<1> QED
  BY <1>4, <1>5, <1>6, <1>7 DEF JakaInv

LEMMA VerifyPreserves == JakaInv /\ Verify => JakaInv'
<1> SUFFICES ASSUME JakaInv, Verify PROVE JakaInv'
  OBVIOUS
<1>1. TypeOK'
  BY DEF JakaInv, TypeOK, Verify, Throw, producerVars, robotVars, streamVars, motionVars
<1>2. WireInv'
  BY WireFrame DEF JakaInv, Verify, streamVars
<1>3. MotionInv'
  BY DEF JakaInv, MotionInv, AtRest, Verify, Throw, motionVars
<1>4. ReleaseInv'
  BY DEF JakaInv, ReleaseInv, CleanExitReleases, Verify, Throw, robotVars
<1> QED
  BY <1>1, <1>2, <1>3, <1>4 DEF JakaInv

LEMMA BeginHoldPreserves == JakaInv /\ BeginHold => JakaInv'
<1> SUFFICES ASSUME JakaInv, BeginHold PROVE JakaInv'
  OBVIOUS
<1>1. /\ arm \in Motion /\ pc' \in {"loop", "shutdown"} /\ error' \in {0, 1}
      /\ startHold \in Position
  BY DEF JakaInv, TypeOK, BeginHold, Throw
<1>2. arm' \in Motion /\ startHold' \in Position
  BY <1>1 DEF BeginHold, Motion
<1>3. TypeOK'
  BY <1>1, <1>2 DEF JakaInv, TypeOK, BeginHold, producerVars, robotVars, streamVars
<1>4. WireInv'
  BY WireFrame DEF JakaInv, BeginHold, streamVars
<1>5. MotionInv'
  BY <1>1, <1>2 DEF JakaInv, MotionInv, AtRest, BeginHold, Motion, Throw
<1>6. ReleaseInv'
  BY DEF JakaInv, ReleaseInv, CleanExitReleases, BeginHold, Throw, robotVars
<1> QED
  BY <1>3, <1>4, <1>5, <1>6 DEF JakaInv

LEMMA LeaveLoopPreserves == JakaInv /\ LeaveLoop => JakaInv'
<1> SUFFICES ASSUME JakaInv, LeaveLoop PROVE JakaInv'
  OBVIOUS
<1>1. TypeOK'
  BY DEF JakaInv, TypeOK, LeaveLoop, Leave, Throw, producerVars, robotVars, streamVars, motionVars
<1>2. WireInv'
  BY WireFrame DEF JakaInv, LeaveLoop, streamVars
<1>3. MotionInv'
  BY DEF JakaInv, MotionInv, AtRest, LeaveLoop, Leave, Throw, motionVars
<1>4. ReleaseInv'
  BY DEF JakaInv, ReleaseInv, CleanExitReleases, LeaveLoop, Leave, Throw, robotVars
<1> QED
  BY <1>1, <1>2, <1>3, <1>4 DEF JakaInv

LEMMA CloseSocketPreserves == JakaInv /\ CloseSocket => JakaInv'
<1> SUFFICES ASSUME JakaInv, CloseSocket PROVE JakaInv'
  OBVIOUS
<1>1. TypeOK'
  <2>1. wire' \in Seq(Packet) /\ Len(wire') <= MaxQueue
    <3>1. wire' = <<>> /\ MaxQueue \in Nat
      BY DEF CloseSocket
    <3> QED
      BY <3>1
  <2>2. socketOpen' \in BOOLEAN
    BY Zenon DEF CloseSocket
  <2> QED
    BY <2>1, <2>2 DEF JakaInv, TypeOK, CloseSocket, producerVars, robotVars, streamVars, motionVars
<1>2. WireInv'
  BY DEF JakaInv, WireInv, CloseSocket, producerVars, streamVars
<1>3. MotionInv'
  BY DEF JakaInv, MotionInv, AtRest, CloseSocket, motionVars
<1>4. ReleaseInv'
  BY DEF JakaInv, ReleaseInv, CleanExitReleases, CloseSocket, robotVars
<1> QED
  BY <1>1, <1>2, <1>3, <1>4 DEF JakaInv

\* With every call successful the modes the worker knows of are left, and
\* without an error there are no others.
LEMMA CleanupPreserves == JakaInv /\ Cleanup => JakaInv'
<1> SUFFICES ASSUME JakaInv, Cleanup PROVE JakaInv'
  OBVIOUS
<1>1. PICK failed \in SUBSET {f \in {"connected", "edg", "servo"} : backend[f]} :
         /\ error' = ErrorAfter(failed)
         /\ robot' \in {[edg |-> e, servo |-> s] : e, s \in BOOLEAN}
         /\ \A f \in {"edg", "servo"} :
              IF backend[f] THEN f \notin failed => ~robot'[f] ELSE robot'[f] = robot[f]
  BY DEF Cleanup
<1>2. robot' \in [edg : BOOLEAN, servo : BOOLEAN]
  BY <1>1
<1>3. backend' \in [connected : BOOLEAN, edg : BOOLEAN, servo : BOOLEAN]
  BY DEF Cleanup
<1>4. error' \in {0, 1} /\ (error' = 0 => failed = {} /\ error = 0)
  BY <1>1 DEF ErrorAfter, JakaInv, TypeOK
<1>5. TypeOK'
  BY <1>2, <1>3, <1>4 DEF JakaInv, TypeOK, Cleanup, producerVars, streamVars, motionVars
<1>6. WireInv'
  BY WireFrame DEF JakaInv, Cleanup, streamVars
<1>7. MotionInv'
  BY DEF JakaInv, MotionInv, AtRest, Cleanup, motionVars
<1>8. ASSUME error' = 0 PROVE ~robot'.servo /\ ~robot'.edg
  BY <1>1, <1>4, <1>8 DEF JakaInv, ReleaseInv, Cleanup
<1>9. ReleaseInv'
  BY <1>8 DEF ReleaseInv, CleanExitReleases, Cleanup
<1> QED
  BY <1>5, <1>6, <1>7, <1>9 DEF JakaInv

------------------------------------------------------------------------------
(* The loop *)

\* A drain empties the socket and remembers a sequence that was sent.
LEMMA DrainFacts ==
  ASSUME JakaInv, Drained, UNCHANGED producerVars
  PROVE  /\ WireInv' /\ wire' \in Seq(Packet) /\ Len(wire') <= MaxQueue
         /\ received' \in BOOLEAN /\ age' \in 0..HoldAge /\ lastSequence' \in Nat
<1>1. TypeOK /\ WireInv /\ sequence \in Nat /\ lastSequence \in Nat /\ lastSequence <= sequence
  BY DEF JakaInv, TypeOK, WireInv
<1>2. wire' = <<>>
  BY DEF Drained
<1>3. wire' \in Seq(Packet) /\ Len(wire') <= MaxQueue /\ DOMAIN wire' = {}
  BY <1>2
<1>4. lastSequence' \in Nat /\ lastSequence' <= sequence
  <2>1. CASE Fresh = {}
    BY <1>1, <2>1 DEF Drained
  <2>2. CASE Fresh # {}
    <3>1. PICK i \in Fresh : Newest = wire[i]
      BY <1>1, <2>2, NewestExists
    <3>2. wire[i].seq \in Nat /\ wire[i].seq <= sequence
      BY <1>1, WirePackets DEF Fresh, WireInv, Valid
    <3> QED
      BY <2>2, <3>1, <3>2 DEF Drained
  <2> QED
    BY <2>1, <2>2
<1>5. WireInv'
  BY <1>3, <1>4 DEF WireInv, producerVars
<1>6. received' \in BOOLEAN
  BY DEF Drained, JakaInv, TypeOK
<1>7. age' \in 0..HoldAge
  BY DEF Drained, AgeAfter, JakaInv, TypeOK
<1> QED
  BY <1>3, <1>4, <1>5, <1>6, <1>7

\* Applying a packet keeps the emitted position; without a target the arm is
\* held where it was, or not touched.
LEMMA AppliedFacts ==
  ASSUME JakaInv
  PROVE  /\ Applied \in Motion /\ Applied.emitted = arm.emitted
         /\ Applied.velocity = arm.velocity /\ Applied.acceleration = arm.acceleration
         /\ ~Got("joint") => Applied.destination \in {arm.emitted, arm.destination}
         /\ ~Got("joint") /\ ~Got("pause") => Applied = arm
<1>1. TypeOK /\ WireInv /\ arm \in Motion
  BY DEF JakaInv, TypeOK
<1>2. ASSUME Got("joint") PROVE Newest.pos \in Position
  <2>1. PICK i \in Fresh : Newest = wire[i]
    BY <1>1, <1>2, NewestExists DEF Got
  <2> QED
    BY <1>1, <2>1, WirePackets DEF Fresh
<1>3. CASE Got("pause")
  <2>1. Applied = Hold(arm)
    BY <1>3 DEF Applied
  <2>2. ~Got("joint")
    BY <1>3 DEF Got
  <2> QED
    BY <1>1, <1>3, <2>1, <2>2 DEF Hold, Motion
<1>4. CASE ~Got("pause") /\ Got("joint")
  <2>1. Applied = Accept(arm, Newest.pos)
    BY <1>4 DEF Applied
  <2> QED
    BY <1>1, <1>2, <1>4, <2>1 DEF Accept, Motion
<1>5. CASE ~Got("pause") /\ ~Got("joint")
  BY <1>1, <1>5 DEF Applied
<1> QED
  BY <1>3, <1>4, <1>5

\* An arm at its destination without velocity is commanded where it is.
LEMMA RestStays ==
  ASSUME NEW m \in Motion, m.emitted = m.destination, m.velocity = 0, m.acceleration = 0,
         NEW p \in Proposed(m)
  PROVE  p = m.emitted /\ ~Crosses(m, p)
<1>1. m.emitted \in Int
  BY DEF Motion, Position
<1>2. p = m.emitted
  BY <1>1 DEF Proposed, Between, Position
<1> QED
  BY <1>1, <1>2 DEF Crosses, Distance, Acceleration

LEMMA EndingDrainPreserves == JakaInv /\ EndingDrain => JakaInv'
<1> SUFFICES ASSUME JakaInv, EndingDrain PROVE JakaInv'
  OBVIOUS
<1>1. /\ pc = "loop" /\ pc' = "shutdown" /\ error' \in {error, 1} /\ Drained
      /\ UNCHANGED <<producerVars, socketOpen, robotVars, startHold, holdCycles, samples, reported>>
  BY DEF EndingDrain, EndingPacket, Leave, Throw
<1>2. /\ WireInv' /\ wire' \in Seq(Packet) /\ Len(wire') <= MaxQueue
      /\ received' \in BOOLEAN /\ age' \in 0..HoldAge /\ lastSequence' \in Nat
  BY <1>1, DrainFacts
<1>3. arm' \in Motion /\ arm \in Motion
  BY AppliedFacts DEF EndingDrain, JakaInv, TypeOK
<1>4. firstTarget' \in BOOLEAN /\ stoppedReady' \in BOOLEAN
  BY Zenon DEF EndingDrain, JakaInv, TypeOK
<1>5. pauseRequested' \in BOOLEAN
  BY DEF EndingDrain, PauseAfter, JakaInv, TypeOK
<1>6. error' \in {0, 1}
  BY <1>1 DEF JakaInv, TypeOK
<1>7. TypeOK'
  BY <1>1, <1>2, <1>3, <1>4, <1>5, <1>6 DEF JakaInv, TypeOK, producerVars, robotVars
<1>8. MotionInv'
  <2>1. CASE Misaligned
    BY <1>1, <2>1 DEF EndingDrain, JakaInv, MotionInv, AtRest, Misaligned, Got
  <2>2. CASE ~Misaligned
    <3>1. arm' = Applied
      BY <2>2 DEF EndingDrain
    <3>2. firstTarget' = (firstTarget \/ Got("joint"))
      BY <2>2 DEF EndingDrain
    <3>3. ~firstTarget' => arm'.emitted = startHold' /\ arm'.destination = startHold' /\ arm'.velocity = 0 /\ arm'.acceleration = 0
      BY <1>1, <3>1, <3>2, AppliedFacts DEF JakaInv, MotionInv
    <3>4. stoppedReady' => stoppedReady /\ ~Got("pause") /\ ~Got("joint")
      BY <2>2 DEF EndingDrain
    <3>5. stoppedReady' => AtRest(arm') /\ pauseRequested'
      BY <2>2, <3>1, <3>4, AppliedFacts DEF EndingDrain, PauseAfter, JakaInv, MotionInv
    <3> QED
      BY <1>1, <3>3, <3>5 DEF MotionInv, AtRest
  <2> QED
    BY <2>1, <2>2
<1>9. ReleaseInv'
  BY <1>1 DEF JakaInv, ReleaseInv, CleanExitReleases, EndingDrain, EndingPacket, Leave, Throw, robotVars
<1> QED
  BY <1>2, <1>7, <1>8, <1>9 DEF JakaInv

\* What one cycle commands, in one place.
CommandedPoint(p, active, q) ==
    /\ q \in (IF Crosses(Applied, p) THEN Limited(Applied) ELSE {p})
    /\ arm' = Committed(Applied, q, Crosses(Applied, p), active)
    /\ holdCycles' = (IF Crosses(Applied, p) /\ NoProgress(Applied, q) THEN holdCycles + 1 ELSE 0)
    /\ holdCycles' <= MaxHoldCycles
    /\ stoppedReady' = (PauseAfter /\ AtRest(arm'))
    /\ samples' = 1 - samples /\ reported' = TRUE

LEMMA CyclePoint ==
  ASSUME Cycle, ~(Throw("cycle_fault") /\ arm' = Applied
                    /\ stoppedReady' = (stoppedReady /\ ~Got("pause") /\ ~Got("joint"))
                    /\ UNCHANGED <<holdCycles, samples, reported>>)
  PROVE  \E p \in Proposed(Applied), active \in BOOLEAN : \E q : CommandedPoint(p, active, q)
BY DEF Cycle, CommandedPoint

\* The committed state is a motion at the commanded point.
LEMMA CommittedFacts ==
  ASSUME NEW m \in Motion, NEW q \in Position, NEW limited, NEW active \in BOOLEAN,
         limited \in BOOLEAN
  PROVE  /\ Committed(m, q, limited, active) \in Motion
         /\ Committed(m, q, limited, active).emitted = q
         /\ Committed(m, q, limited, active).destination = m.destination
         /\ Committed(m, q, limited, active).velocity = q - m.emitted
         /\ Committed(m, q, limited, active).acceleration = (q - m.emitted) - m.velocity
<1>1. m.emitted \in Int /\ q \in Int /\ m.velocity \in Int
  BY DEF Motion, Position
<1>2. q - m.emitted \in Int /\ (q - m.emitted) - m.velocity \in Int
  BY <1>1
<1>3. (limited \/ active) \in BOOLEAN
  BY Zenon
<1> DEFINE v == q - m.emitted
           a == (q - m.emitted) - m.velocity
           b == limited \/ active
           c == Committed(m, q, limited, active)
<1>4. c = [m EXCEPT !.emitted = q, !.velocity = v, !.acceleration = a, !.active = b]
  BY DEF Committed, Acceleration
<1>5. v \in Int /\ a \in Int /\ b \in BOOLEAN
  BY <1>2, <1>3
<1> HIDE DEF v, a, b, c
<1>6. c \in Motion /\ c.emitted = q /\ c.destination = m.destination /\ c.velocity = v
      /\ c.acceleration = a
  BY <1>4, <1>5 DEF Motion
<1> QED
  BY <1>6 DEF c, v, a

\* Types of a commanded cycle, and where it leaves an arm that may not move.
LEMMA PointFacts ==
  ASSUME JakaInv, NEW p \in Proposed(Applied), NEW active \in BOOLEAN, NEW q,
         CommandedPoint(p, active, q)
  PROVE  /\ arm' \in Motion /\ holdCycles' \in 0..MaxHoldCycles
         /\ stoppedReady' \in BOOLEAN /\ samples' \in {0, 1} /\ reported' \in BOOLEAN
         /\ arm'.destination = Applied.destination
         /\ Applied.emitted = Applied.destination /\ Applied.velocity = 0 /\ Applied.acceleration = 0
              => arm'.emitted = Applied.emitted /\ arm'.velocity = 0 /\ arm'.acceleration = 0
<1>1. Applied \in Motion /\ holdCycles \in 0..MaxHoldCycles /\ samples \in {0, 1}
  BY AppliedFacts DEF JakaInv, TypeOK
<1>2. Crosses(Applied, p) \in BOOLEAN
  BY DEF Crosses
<1>3. Applied.emitted \in Position
  BY <1>1 DEF Motion
<1>4. p \in Position
  BY <1>1, <1>3 DEF Proposed, Between
<1>5. q \in Position
  BY <1>4 DEF CommandedPoint, Limited
<1>6. arm' = Committed(Applied, q, Crosses(Applied, p), active)
  BY DEF CommandedPoint
<1>7. /\ arm' \in Motion /\ arm'.emitted = q /\ arm'.destination = Applied.destination
      /\ arm'.velocity = q - Applied.emitted
      /\ arm'.acceleration = (q - Applied.emitted) - Applied.velocity
  BY <1>1, <1>2, <1>5, <1>6, CommittedFacts
<1>8. holdCycles' \in 0..MaxHoldCycles
  BY <1>1 DEF CommandedPoint
<1>9. stoppedReady' \in BOOLEAN
  BY Zenon DEF CommandedPoint
<1>10. reported' \in BOOLEAN
  BY Zenon DEF CommandedPoint
<1>11. samples' \in {0, 1}
  BY <1>1 DEF CommandedPoint
<1>12. ASSUME Applied.emitted = Applied.destination, Applied.velocity = 0, Applied.acceleration = 0
       PROVE  arm'.emitted = Applied.emitted /\ arm'.velocity = 0 /\ arm'.acceleration = 0
  <2>1. p = Applied.emitted /\ ~Crosses(Applied, p)
    BY <1>1, <1>12, RestStays
  <2>2. q = p
    BY <2>1 DEF CommandedPoint
  <2>3. Applied.emitted \in Int
    BY <1>3 DEF Position
  <2> QED
    BY <1>7, <1>12, <2>1, <2>2, <2>3
<1> QED
  BY <1>7, <1>8, <1>9, <1>10, <1>11, <1>12

LEMMA CyclePreserves == JakaInv /\ Cycle => JakaInv'
<1> SUFFICES ASSUME JakaInv, Cycle PROVE JakaInv'
  OBVIOUS
<1>1. /\ pc = "loop" /\ Drained /\ firstTarget' = (firstTarget \/ Got("joint"))
      /\ pauseRequested' = PauseAfter
      /\ UNCHANGED <<producerVars, socketOpen, robotVars, startHold>>
  BY DEF Cycle
<1>2. /\ WireInv' /\ wire' \in Seq(Packet) /\ Len(wire') <= MaxQueue
      /\ received' \in BOOLEAN /\ age' \in 0..HoldAge /\ lastSequence' \in Nat
  BY <1>1, DrainFacts
<1>3. firstTarget' \in BOOLEAN
  BY Zenon, <1>1 DEF JakaInv, TypeOK
<1>4. pauseRequested' \in BOOLEAN
  BY <1>1 DEF PauseAfter, JakaInv, TypeOK
<1>5. /\ pc' \in {"loop", "shutdown"} /\ error' \in {error, 1} /\ (error' = error \/ error' = 1)
  BY <1>1 DEF Cycle, Throw, endVars
<1>6. pc' # "done" /\ error' \in {0, 1}
  BY <1>5 DEF JakaInv, TypeOK
<1>7. ReleaseInv'
  BY <1>1, <1>5, <1>6 DEF JakaInv, TypeOK, ReleaseInv, CleanExitReleases, robotVars
<1>8. ~Got("joint") /\ ~firstTarget =>
         Applied.emitted = startHold /\ Applied.destination = startHold /\ Applied.velocity = 0 /\ Applied.acceleration = 0
  BY AppliedFacts DEF JakaInv, MotionInv
<1> DEFINE Faulted == Throw("cycle_fault") /\ arm' = Applied
                        /\ stoppedReady' = (stoppedReady /\ ~Got("pause") /\ ~Got("joint"))
                        /\ UNCHANGED <<holdCycles, samples, reported>>
<1>9. CASE Faulted
  <2>1. arm' \in Motion
    BY <1>9, AppliedFacts
  <2>2. stoppedReady' \in BOOLEAN
    BY Zenon, <1>9 DEF JakaInv, TypeOK
  <2>3. TypeOK'
    BY <1>1, <1>2, <1>3, <1>4, <1>5, <1>6, <1>9, <2>1, <2>2
       DEF JakaInv, TypeOK, producerVars, robotVars
  <2>4. stoppedReady' => AtRest(arm') /\ pauseRequested'
    BY <1>1, <1>9, AppliedFacts DEF PauseAfter, JakaInv, MotionInv
  <2>5. MotionInv'
    BY <1>1, <1>5, <1>8, <1>9, <2>4 DEF MotionInv, AtRest
  <2> QED
    BY <1>2, <1>7, <2>3, <2>5 DEF JakaInv
<1>10. CASE ~Faulted
  <2>1. PICK p \in Proposed(Applied), active \in BOOLEAN : \E q : CommandedPoint(p, active, q)
    BY <1>10, CyclePoint
  <2>2. PICK q : CommandedPoint(p, active, q)
    BY <2>1
  <2>3. /\ arm' \in Motion /\ holdCycles' \in 0..MaxHoldCycles
        /\ stoppedReady' \in BOOLEAN /\ samples' \in {0, 1} /\ reported' \in BOOLEAN
        /\ arm'.destination = Applied.destination
        /\ Applied.emitted = Applied.destination /\ Applied.velocity = 0 /\ Applied.acceleration = 0
              => arm'.emitted = Applied.emitted /\ arm'.velocity = 0 /\ arm'.acceleration = 0
    BY <2>2, PointFacts
  <2>4. TypeOK'
    BY <1>1, <1>2, <1>3, <1>4, <1>5, <1>6, <2>3 DEF JakaInv, TypeOK, producerVars, robotVars
  <2>5. stoppedReady' => AtRest(arm') /\ pauseRequested'
    BY <1>1, <2>2 DEF CommandedPoint
  <2>6. ~firstTarget' => arm'.emitted = startHold' /\ arm'.destination = startHold' /\ arm'.velocity = 0 /\ arm'.acceleration = 0
    BY <1>1, <1>8, <2>3
  <2>7. MotionInv'
    BY <1>5, <2>5, <2>6 DEF MotionInv, AtRest
  <2> QED
    BY <1>2, <1>7, <2>4, <2>7 DEF JakaInv
<1> QED
  BY <1>9, <1>10

------------------------------------------------------------------------------
(* The invariant and the theorems *)

LEMMA InitInv == Init => JakaInv
<1> SUFFICES ASSUME Init PROVE JakaInv
  OBVIOUS
<1>1. wire \in Seq(Packet) /\ Len(wire) <= MaxQueue /\ DOMAIN wire = {}
  <2>1. wire = <<>>
    BY DEF Init
  <2> QED
    BY <2>1
<1>2. arm \in Motion
  BY DEF Init, Motion, Position
<1>3. robot \in [edg : BOOLEAN, servo : BOOLEAN]
  BY Zenon DEF Init
<1>4. backend \in [connected : BOOLEAN, edg : BOOLEAN, servo : BOOLEAN]
  BY Zenon DEF Init
<1>5. 0 \in Position
  BY DEF Position
<1>6. TypeOK
  <2>1. /\ engaged \in BOOLEAN /\ halted \in BOOLEAN /\ socketOpen \in BOOLEAN
        /\ received \in BOOLEAN /\ firstTarget \in BOOLEAN /\ pauseRequested \in BOOLEAN
        /\ stoppedReady \in BOOLEAN /\ reported \in BOOLEAN
    BY Zenon DEF Init
  <2>2. /\ sequence \in Nat /\ error \in {0, 1} /\ lastSequence \in Nat /\ age \in 0..HoldAge
        /\ samples \in {0, 1} /\ holdCycles \in 0..MaxHoldCycles /\ startHold \in Position
        /\ pc = "connect"
    BY <1>5 DEF Init
  <2> QED
    BY <1>1, <1>2, <1>3, <1>4, <2>1, <2>2 DEF TypeOK
<1>7. WireInv
  BY <1>1 DEF Init, WireInv
<1>8. MotionInv
  BY DEF Init, MotionInv
<1>9. ReleaseInv
  BY DEF Init, ReleaseInv, CleanExitReleases
<1> QED
  BY <1>6, <1>7, <1>8, <1>9 DEF JakaInv

LEMMA StepInv == JakaInv /\ [Next]_vars => JakaInv'
<1> SUFFICES ASSUME JakaInv, [Next]_vars PROVE JakaInv'
  OBVIOUS
<1>1. CASE Producer
  BY <1>1, TickPreserves, StopPreserves, DiesPreserves, MalformedPreserves DEF Producer
<1>2. CASE Connect
  <2> DEFINE effect == FALSE
  <2>1. SetupCall("connect", "verify", "connected", effect) /\ effect \in BOOLEAN
    BY Zenon, <1>2 DEF Connect
  <2>2. ~effect
    BY Zenon
  <2> HIDE DEF effect
  <2> QED
    BY <2>1, <2>2, SetupCallPreserves
<1>3. CASE EdgInit
  <2> DEFINE effect == TRUE
  <2>1. SetupCall("edg", "servo", "edg", effect) /\ effect \in BOOLEAN
    BY Zenon, <1>3 DEF EdgInit
  <2> HIDE DEF effect
  <2> QED
    BY <2>1, SetupCallPreserves
<1>4. CASE EnableServo
  <2> DEFINE effect == TRUE
  <2>1. SetupCall("servo", "hold", "servo", effect) /\ effect \in BOOLEAN
    BY Zenon, <1>4 DEF EnableServo
  <2> HIDE DEF effect
  <2> QED
    BY <2>1, SetupCallPreserves
<1>5. CASE Verify \/ BeginHold \/ LeaveLoop \/ EndingDrain \/ Cycle \/ CloseSocket \/ Cleanup
  BY <1>5, VerifyPreserves, BeginHoldPreserves, LeaveLoopPreserves, EndingDrainPreserves,
     CyclePreserves, CloseSocketPreserves, CleanupPreserves
<1>6. CASE UNCHANGED vars
  <2>1. TypeOK'
    BY <1>6 DEF JakaInv, TypeOK, vars, producerVars, robotVars, endVars, streamVars, motionVars
  <2>2. WireInv'
    BY <1>6, WireFrame DEF JakaInv, vars, streamVars
  <2>3. MotionInv'
    BY <1>6 DEF JakaInv, MotionInv, AtRest, vars, endVars, motionVars
  <2>4. ReleaseInv'
    BY <1>6 DEF JakaInv, ReleaseInv, CleanExitReleases, vars, robotVars, endVars
  <2> QED
    BY <2>1, <2>2, <2>3, <2>4 DEF JakaInv
<1> QED
  BY <1>1, <1>2, <1>3, <1>4, <1>5, <1>6 DEF Next, Setup, Loop

\* The invariant holds in every reachable state of the worker and its producer.
THEOREM InvariantHolds == Spec => []JakaInv
BY InitInv, StepInv, PTL DEF Spec

\* Type correctness: queue, counters, modes and motion stay in range; in
\* particular no commanded position leaves the manufacturer limits.
THEOREM TypeCorrect == Spec => []TypeOK
<1>1. JakaInv => TypeOK
  BY DEF JakaInv
<1> QED
  BY <1>1, InvariantHolds, PTL

\* Before the first aligned target the arm is commanded where it was read after
\* EDG (main.cpp, the startup q_hold).
THEOREM StartupCorrect == Spec => []StartupHolds
<1>1. JakaInv => StartupHolds
  BY DEF JakaInv, MotionInv, StartupHolds
<1> QED
  BY <1>1, InvariantHolds, PTL

\* A worker that exits with success has left servo mode and EDG
\* (RealBackend::cleanup and the error code of run()).
THEOREM CleanExitCorrect == Spec => []CleanExitReleases
<1>1. JakaInv => CleanExitReleases
  BY DEF JakaInv, ReleaseInv
<1> QED
  BY <1>1, InvariantHolds, PTL

\* A stop packet in the socket is never superseded by drain_newest().
THEOREM StopCorrect == Spec => StopEndsLoop
<1>1. JakaInv /\ [Next]_vars =>
         ((\E i \in DOMAIN wire : wire[i].kind = "stop") /\ wire' = <<>> => pc' # "loop")
  <2> SUFFICES ASSUME JakaInv, [Next]_vars,
                      NEW i \in DOMAIN wire, wire[i].kind = "stop", wire' = <<>>, pc' = "loop"
               PROVE  FALSE
    OBVIOUS
  <2>1. Got("stop")
    BY StopIsNewest DEF JakaInv
  <2>2. ~Cycle
    BY <2>1 DEF Cycle, Commanding
  <2>3. ~EndingDrain /\ ~LeaveLoop /\ ~CloseSocket /\ ~Cleanup
    BY DEF EndingDrain, EndingPacket, LeaveLoop, Leave, Throw, CloseSocket, Cleanup
  <2>4. wire' # wire
    BY WirePackets DEF JakaInv
  <2>5. ~Setup /\ ~ProducerDies /\ ~UNCHANGED vars
    BY <2>4 DEF Setup, Connect, Verify, EdgInit, EnableServo, SetupCall, BeginHold, ProducerDies, vars
  <2>6. wire \in Seq(Packet) /\ Len(wire) \in Nat /\ Len(wire) # 0
    BY WirePackets DEF JakaInv, TypeOK
  <2>7. ~MalformedDatagram
    <3>1. Append(wire, [seq |-> 0, kind |-> "malformed", pos |-> 0]) # <<>>
      BY <2>6
    <3> QED
      BY <3>1 DEF MalformedDatagram
  <2>8. ~ProducerTick /\ ~ProducerStop
    <3>1. halted
      BY DEF JakaInv, WireInv, Valid
    <3> QED
      BY <3>1 DEF ProducerTick, ProducerStop
  <2> QED
    BY <2>2, <2>3, <2>5, <2>7, <2>8 DEF Next, Producer, Loop
<1> QED
  BY <1>1, InvariantHolds, PTL DEF Spec, StopEndsLoop

\* After STOPPED_READY the commanded position only changes with a new target.
THEOREM StoppedCorrect == Spec => StoppedStaysStopped
<1>1. JakaInv /\ [Next]_vars => (stoppedReady /\ pauseRequested' => arm'.emitted = arm.emitted)
  <2> SUFFICES ASSUME JakaInv, [Next]_vars, stoppedReady, pauseRequested' PROVE arm'.emitted = arm.emitted
    OBVIOUS
  <2>1. AtRest(arm) /\ pc # "hold"
    BY DEF JakaInv, MotionInv
  <2>2. CASE Cycle
    <3>1. ~Got("joint")
      BY <2>2 DEF Cycle, PauseAfter
    <3>2. Applied.emitted = arm.emitted /\ Applied.emitted = Applied.destination /\ Applied.velocity = 0 /\ Applied.acceleration = 0
      BY <2>1, <3>1, AppliedFacts DEF AtRest
    <3>3. CASE arm' = Applied
      BY <3>2, <3>3
    <3>4. CASE arm' # Applied
      <4>1. PICK p \in Proposed(Applied), active \in BOOLEAN : \E q : CommandedPoint(p, active, q)
        BY <2>2, <3>4, CyclePoint
      <4>2. PICK q : CommandedPoint(p, active, q)
        BY <4>1
      <4> QED
        BY <3>2, <4>2, PointFacts
    <3> QED
      BY <3>3, <3>4
  <2>3. CASE EndingDrain
    BY <2>3, AppliedFacts DEF EndingDrain
  <2>4. CASE Producer \/ UNCHANGED vars
    <3>1. UNCHANGED motionVars
      BY Zenon, <2>4
         DEF Producer, ProducerTick, ProducerStop, ProducerDies, MalformedDatagram, vars
    <3> QED
      BY <3>1 DEF motionVars
  <2>5. CASE Verify \/ LeaveLoop \/ CloseSocket \/ Cleanup
    <3>1. UNCHANGED motionVars
      <4>1. Verify => UNCHANGED motionVars
        BY Zenon DEF Verify
      <4>2. LeaveLoop => UNCHANGED motionVars
        BY Zenon DEF LeaveLoop
      <4>3. CloseSocket => UNCHANGED motionVars
        BY Zenon DEF CloseSocket
      <4>4. Cleanup => UNCHANGED motionVars
        BY DEF Cleanup
      <4> QED
        BY <2>5, <4>1, <4>2, <4>3, <4>4
    <3> QED
      BY <3>1 DEF motionVars
  <2>6. ~BeginHold
    BY <2>1 DEF BeginHold
  <2>7. CASE Connect \/ EdgInit \/ EnableServo
    <3>1. UNCHANGED motionVars
      BY Zenon, <2>7 DEF Connect, EdgInit, EnableServo, SetupCall
    <3> QED
      BY <3>1 DEF motionVars
  <2> QED
    BY <2>2, <2>3, <2>4, <2>5, <2>6, <2>7 DEF Next, Loop, Setup
<1> QED
  BY <1>1, InvariantHolds, PTL DEF Spec, StoppedStaysStopped

\* Without a target the arm is commanded to one position, from EDG on and again
\* after STOPPED_READY.
THEOREM RestCorrect == Spec => RestsWithoutTarget
BY StartupCorrect, StoppedCorrect, PTL DEF RestsWithoutTarget

------------------------------------------------------------------------------
(* The schedule of the loop, module ServoSchedule *)

SleepAligned ==
    phase = "sleep" => servoTime <= deadline /\ deadline <= previous /\ previous <= now
CycleAligned ==
    phase = "cycle" => /\ deadline <= lastStart /\ servoTime <= lastStart
                       /\ ~realign => servoTime <= deadline
\* A warning that counts was raised by a late start.
WarningsAreLate == phase # "fault" /\ warnings > 0 => wasLate

ScheduleInv ==
    /\ ScheduleTypeOK /\ EvaluationAdvances /\ NextDeadlineAhead
    /\ SleepAligned /\ CycleAligned /\ WarningsAreLate

USE ScheduleAssumption

\* The lateness of a start is a natural number and bounds the start period.
LEMMA LatenessFacts ==
  ASSUME ScheduleTypeOK, SleepAligned, phase = "sleep", NEW begun \in Nat, begun >= deadline + Period
  PROVE  /\ Lateness(begun) = begun - (deadline + Period)
         /\ Lateness(begun) \in Nat
         /\ begun - previous <= Period + Lateness(begun)
         /\ Warning(begun) => Lateness(begun) > PeriodSlack
BY DEF ScheduleTypeOK, SleepAligned, Lateness, Warning

\* The counters of the startup grace stay in range.
LEMMA GraceFacts ==
  ASSUME ScheduleTypeOK
  PROVE  /\ GraceAfter \in BOOLEAN
         /\ (IF GraceAfter THEN graceSpent + 1 ELSE graceSpent) \in 0..GraceCycles
BY DEF ScheduleTypeOK, GraceAfter

\* The evaluation time is on the grid or at the start, never behind.
LEMMA EvaluationFacts ==
  ASSUME ScheduleTypeOK, SleepAligned, phase = "sleep", NEW begun \in Nat, begun >= deadline + Period
  PROVE  /\ EvaluationTime(begun) \in Nat
         /\ servoTime <= EvaluationTime(begun) /\ EvaluationTime(begun) <= begun
         /\ ~Warning(begun) => EvaluationTime(begun) = deadline + Period
         /\ WarningsAfter(begun) \in Nat /\ Warning(begun) \in BOOLEAN
         /\ WarningsAfter(begun) > 0 => Warning(begun)
BY DEF ScheduleTypeOK, SleepAligned, EvaluationTime, WarningsAfter, Warning

LEMMA StartPreserves == ScheduleInv /\ StartCycle => ScheduleInv'
<1> SUFFICES ASSUME ScheduleInv, StartCycle PROVE ScheduleInv'
  OBVIOUS
<1>1. PICK begun \in now..MaxTime :
         /\ begun >= deadline + Period
         /\ now' = begun /\ deadline' = deadline + Period /\ lastStart' = begun
         /\ grace' = GraceAfter
         /\ graceSpent' = IF GraceAfter THEN graceSpent + 1 ELSE graceSpent
         /\ wasLate' = (Lateness(begun) > PeriodSlack)
         /\ \/ /\ StartFault(begun)
               /\ phase' = "fault"
               /\ UNCHANGED <<everReceived, warnings, realign, servoTime>>
            \/ /\ StartProceeds(begun)
               /\ warnings' = WarningsAfter(begun) /\ realign' = Warning(begun)
               /\ everReceived' \in {everReceived, TRUE}
               /\ IF EvaluationTime(begun) < servoTime
                    THEN phase' = "fault" /\ outcome' = "servo_time_moved_backwards"
                         /\ UNCHANGED servoTime
                    ELSE phase' = "cycle" /\ servoTime' = EvaluationTime(begun)
                         /\ UNCHANGED outcome
  BY DEF StartCycle
<1>2. /\ phase = "sleep" /\ previous' = previous /\ misses' = misses
      /\ begun \in Nat /\ ScheduleTypeOK /\ SleepAligned
  BY <1>1 DEF StartCycle, ScheduleInv, ScheduleTypeOK
<1>3. CASE StartFault(begun) /\ phase' = "fault" /\ UNCHANGED <<everReceived, warnings, realign, servoTime>>
  <2>1. outcome' \in {"hard_start_timing_miss", "consecutive_start_timing_misses"}
    BY <1>3 DEF StartFault
  <2>2. wasLate' \in BOOLEAN
    BY <1>1
  <2>3. ScheduleTypeOK'
    BY <1>1, <1>2, <1>3, <2>1, <2>2, GraceFacts DEF ScheduleTypeOK
  <2> QED
    BY <1>3, <2>1, <2>3 DEF ScheduleInv, EvaluationAdvances, NextDeadlineAhead, SleepAligned,
       CycleAligned, WarningsAreLate
<1>4. CASE /\ StartProceeds(begun)
           /\ warnings' = WarningsAfter(begun) /\ realign' = Warning(begun)
           /\ everReceived' \in {everReceived, TRUE}
           /\ IF EvaluationTime(begun) < servoTime
                THEN phase' = "fault" /\ outcome' = "servo_time_moved_backwards"
                     /\ UNCHANGED servoTime
                ELSE phase' = "cycle" /\ servoTime' = EvaluationTime(begun)
                     /\ UNCHANGED outcome
  <2>1. /\ EvaluationTime(begun) \in Nat
        /\ servoTime <= EvaluationTime(begun) /\ EvaluationTime(begun) <= begun
        /\ ~Warning(begun) => EvaluationTime(begun) = deadline + Period
        /\ WarningsAfter(begun) \in Nat /\ Warning(begun) \in BOOLEAN
        /\ WarningsAfter(begun) > 0 => Warning(begun)
    BY <1>1, <1>2, EvaluationFacts
  <2>2. phase' = "cycle" /\ servoTime' = EvaluationTime(begun) /\ outcome' = outcome
    BY <1>2, <1>4, <2>1 DEF ScheduleTypeOK
  <2>3. wasLate' \in BOOLEAN /\ everReceived' \in BOOLEAN /\ realign' \in BOOLEAN
    <3>1. wasLate' \in BOOLEAN
      BY <1>1
    <3>2. everReceived' \in BOOLEAN
      BY <1>2, <1>4, Zenon DEF ScheduleTypeOK
    <3>3. realign' \in BOOLEAN
      BY <1>4, <2>1, Zenon
    <3> QED
      BY <3>1, <3>2, <3>3
  <2>4. ScheduleTypeOK'
    BY <1>1, <1>2, <1>4, <2>1, <2>2, <2>3, GraceFacts DEF ScheduleTypeOK
  <2>5. WarningsAreLate'
    <3>1. ASSUME warnings' > 0 PROVE Lateness(begun) > PeriodSlack
      BY <1>1, <1>2, <1>4, <2>1, <3>1, LatenessFacts
    <3> QED
      BY <1>1, <3>1 DEF WarningsAreLate
  <2>6. CycleAligned'
    BY <1>1, <1>2, <1>4, <2>1, <2>2 DEF CycleAligned
  <2> QED
    BY <2>2, <2>4, <2>5, <2>6 DEF ScheduleInv, EvaluationAdvances, NextDeadlineAhead, SleepAligned
<1> QED
  BY <1>1, <1>3, <1>4

LEMMA EndPreserves == ScheduleInv /\ EndCycle => ScheduleInv'
<1> SUFFICES ASSUME ScheduleInv, EndCycle PROVE ScheduleInv'
  OBVIOUS
<1>1. PICK end \in now..MaxTime :
         /\ now' = end
         /\ misses' = IF CompletionMissed(end) THEN misses + 1 ELSE 0
         /\ IF CompletionMissed(end) /\ HardCompletion(end)
              THEN /\ phase' = "fault" /\ outcome' = "hard_completion_timing_miss"
                   /\ previous' = lastStart /\ UNCHANGED deadline
              ELSE /\ phase' = "sleep"
                   /\ deadline' = RealignedDeadline(end)
                   /\ previous' = ReferenceAfter(end)
                   /\ UNCHANGED outcome
  BY DEF EndCycle
<1>2. /\ phase = "cycle"
      /\ UNCHANGED <<everReceived, grace, graceSpent, warnings, realign, servoTime, lastStart, wasLate>>
      /\ end \in Nat /\ ScheduleTypeOK /\ CycleAligned /\ WarningsAreLate /\ EvaluationAdvances
  BY <1>1 DEF EndCycle, ScheduleInv, ScheduleTypeOK
<1>3. CASE CompletionMissed(end) /\ HardCompletion(end)
  BY <1>1, <1>2, <1>3 DEF ScheduleTypeOK, ScheduleInv, EvaluationAdvances, NextDeadlineAhead, SleepAligned,
     CycleAligned, WarningsAreLate
<1>4. CASE ~(CompletionMissed(end) /\ HardCompletion(end))
  <2>1. /\ phase' = "sleep" /\ deadline' = RealignedDeadline(end)
        /\ previous' = ReferenceAfter(end) /\ outcome' = outcome
    BY <1>1, <1>4
  <2>2. /\ deadline' \in Nat /\ previous' \in Nat
        /\ servoTime <= deadline' /\ deadline' <= previous' /\ previous' <= end
        /\ deadline' + Period >= end
    BY <1>1, <1>2, <2>1 DEF ScheduleTypeOK, CycleAligned, RealignedDeadline, ReferenceAfter, CompletionMissed
  <2>3. ScheduleTypeOK'
    BY <1>1, <1>2, <2>1, <2>2 DEF ScheduleTypeOK
  <2> QED
    BY <1>1, <1>2, <2>1, <2>2, <2>3 DEF ScheduleInv, EvaluationAdvances, NextDeadlineAhead,
       SleepAligned, CycleAligned, WarningsAreLate
<1> QED
  BY <1>3, <1>4

LEMMA ScheduleInitInv == ScheduleInit => ScheduleInv
<1> SUFFICES ASSUME ScheduleInit PROVE ScheduleInv
  OBVIOUS
<1>1. now \in Nat
  BY DEF ScheduleInit
<1>2. everReceived \in BOOLEAN /\ grace \in BOOLEAN /\ realign \in BOOLEAN /\ wasLate \in BOOLEAN
  BY Zenon DEF ScheduleInit
<1>3. ScheduleTypeOK
  BY <1>1, <1>2 DEF ScheduleInit, ScheduleTypeOK
<1> QED
  BY <1>1, <1>3 DEF ScheduleInit, ScheduleInv, EvaluationAdvances, NextDeadlineAhead, SleepAligned,
     CycleAligned, WarningsAreLate

LEMMA ScheduleNextInv == ScheduleInv /\ [ScheduleNext]_scheduleVars => ScheduleInv'
<1> SUFFICES ASSUME ScheduleInv, [ScheduleNext]_scheduleVars PROVE ScheduleInv'
  OBVIOUS
<1>1. CASE UNCHANGED scheduleVars
  BY <1>1 DEF scheduleVars, ScheduleInv, ScheduleTypeOK, EvaluationAdvances, NextDeadlineAhead, SleepAligned,
     CycleAligned, WarningsAreLate
<1> QED
  BY <1>1, StartPreserves, EndPreserves DEF ScheduleNext

LEMMA ScheduleInvariance == ScheduleSpec => []ScheduleInv
BY ScheduleInitInv, ScheduleNextInv, PTL DEF ScheduleSpec

\* Every reachable state of the schedule is well typed.
THEOREM ScheduleTypeCorrect == ScheduleSpec => []ScheduleTypeOK
<1>1. ScheduleInv => ScheduleTypeOK
  BY DEF ScheduleInv
<1> QED
  BY <1>1, ScheduleInvariance, PTL

\* The resampler is never evaluated before its last point, whatever delays the
\* loop meets.
THEOREM EvaluationCorrect == ScheduleSpec => []EvaluationAdvances
<1>1. ScheduleInv => EvaluationAdvances
  BY DEF ScheduleInv
<1> QED
  BY <1>1, ScheduleInvariance, PTL

\* The loop never sleeps towards a deadline that is already past.
THEOREM DeadlineCorrect == ScheduleSpec => []NextDeadlineAhead
<1>1. ScheduleInv => NextDeadlineAhead
  BY DEF ScheduleInv
<1> QED
  BY <1>1, ScheduleInvariance, PTL

\* One start that is less than a period late never ends the loop by itself.
THEOREM DelayCorrect == ScheduleSpec => OneDelayIsTolerated
<1> DEFINE Tolerated ==
      outcome' # outcome /\ outcome' # "hard_completion_timing_miss" /\ now' - deadline' < Period
         => wasLate /\ wasLate'
<1>1. ScheduleInv /\ ScheduleInv' /\ [ScheduleNext]_scheduleVars => [Tolerated]_scheduleVars
  <2> SUFFICES ASSUME ScheduleInv, ScheduleInv', ScheduleNext PROVE Tolerated
    OBVIOUS
  <2>1. CASE EndCycle
    BY <2>1 DEF EndCycle
  <2>2. CASE StartCycle
    <3>1. PICK begun \in now..MaxTime :
             /\ begun >= deadline + Period /\ now' = begun /\ deadline' = deadline + Period
             /\ wasLate' = (Lateness(begun) > PeriodSlack)
             /\ StartFault(begun) \/ outcome' = "servo_time_moved_backwards" \/ outcome' = outcome
      BY <2>2 DEF StartCycle
    <3>2. phase = "sleep" /\ ScheduleTypeOK /\ SleepAligned /\ WarningsAreLate /\ begun \in Nat
      BY <2>2, <3>1 DEF StartCycle, ScheduleInv, ScheduleTypeOK
    <3>3. SUFFICES ASSUME StartFault(begun), begun - (deadline + Period) < Period
                   PROVE  wasLate /\ wasLate'
      BY <3>1 DEF ScheduleInv, EvaluationAdvances
    <3>4. ~HardStart(begun)
      BY <3>1, <3>2, <3>3, LatenessFacts DEF HardStart, ScheduleTypeOK
    <3>5. Warning(begun) /\ warnings > 0
      BY <3>2, <3>3, <3>4 DEF StartFault, WarningsAfter, ScheduleTypeOK
    <3> QED
      BY <3>1, <3>2, <3>5, LatenessFacts DEF WarningsAreLate
  <2> QED
    BY <2>1, <2>2 DEF ScheduleNext
<1> QED
  BY <1>1, ScheduleInvariance, PTL DEF ScheduleSpec, OneDelayIsTolerated

\* The timeline of the loop only moves forward, at every delay the loop meets.
THEOREM TimelineCorrect == ScheduleSpec => []TimelineAdvances
<1>1. ScheduleInv => TimelineAdvances
  BY DEF ScheduleInv, TimelineAdvances
<1> QED
  BY <1>1, ScheduleInvariance, PTL

------------------------------------------------------------------------------
(* The sessions that choose the targets, module TargetSession *)


\* The generator of a session.
Typed ==
    [ik : Joints, safe : Joints, target : Poses, origin : Poses,
     latch : BOOLEAN, at : 0 .. MaxTicks, raised : BOOLEAN]
Ticks ==
    [pc : {"idle", "evaluate", "raised"}, desired : Poses, step : 0 .. (MaxQ + 1),
     backtracks : 0 .. MaxBacktracks, late : BOOLEAN, pushed : BOOLEAN]
Outs == [kind : {"none", "target", "hold", "stop"}, q : Joints]

TargetTypes ==
    /\ path \in {"robot", "sim", "replay"} /\ continuation \in BOOLEAN
    /\ gen \in Typed /\ start \in Joints /\ plant \in Joints /\ status \in Joints
    /\ clutch \in {"Disengaged", "Armed", "Engaged", "Fault"} /\ mapped \in BOOLEAN
    /\ tick \in Ticks /\ out \in Outs
    /\ schedule \in 0 .. Engagements /\ moment \in 0 .. MaxTicks

\* Where the arm and its target stay: the soft range and the start.
LowEnd == IF start < SafeLow THEN start ELSE SafeLow
HighEnd == IF start > SafeHigh THEN start ELSE SafeHigh
MarginInv == {gen.safe, plant, status, out.q} \subseteq LowEnd .. HighEnd

\* Within a tick nothing is accepted before the last evaluation, and what is
\* left of the step does not lead past the desired pose.
TickInv ==
    tick.pc = "evaluate" =>
        /\ path # "replay" /\ clutch = "Engaged"
        /\ gen.at < moment
        /\ Accepting(gen) = Accepting(before)
        /\ tick.step <= Abs(tick.desired - gen.target)

\* The replay never moves its plant.
ReplayInv == start \notin Contact /\ (path = "replay" => plant = start)

TargetInv ==
    /\ TargetTypes /\ MarginInv /\ TickInv /\ ReplayInv
    /\ gen.at <= moment /\ (tick.pc # "raised" => ~gen.raised)
    /\ RaisesOnlyInContact /\ ReferenceOnlyWhileEngaged

USE LimitsOrdered, BoundsAssumption

------------------------------------------------------------------------------
(* The target generator *)

\* A generator whose joints may be a recovery seed, outside the range.
Seeded ==
    [ik : Int, safe : Int, target : Poses, origin : Poses,
     latch : BOOLEAN, at : Nat, raised : BOOLEAN]

\* Clipping ends inside the soft range, and clipping to the joint range in it.
LEMMA ClampFacts ==
    ASSUME NEW q \in Int
    PROVE  /\ Clamp(q, SafeLow, SafeHigh) \in SafeLow .. SafeHigh
           /\ Clamp(q, SafeLow, SafeHigh) \in Joints
           /\ Clamp(q, 0, MaxQ) \in Joints
           /\ q \in SafeLow .. SafeHigh => Clamp(q, SafeLow, SafeHigh) = q
BY DEF Clamp, Joints

\* The risk grows with the position.
LEMMA RiskFacts ==
    ASSUME NEW q \in Int, NEW p \in Int
    PROVE  /\ SingularityRisk(q) \in Nat
           /\ q <= p => SingularityRisk(q) <= SingularityRisk(p)
           /\ HardSingularity(q) \in BOOLEAN
           /\ HardSingularity(q) /\ ~HardSingularity(p) => SingularityRisk(p) < SingularityRisk(q)
BY DEF SingularityRisk, HardSingularity

\* A candidate that no soft margin blocks and that is not hard at its clipped
\* joints is less singular than a hard state inside the margins.
LEMMA LessSingular ==
    ASSUME NEW q \in Int, NEW s \in SafeLow .. SafeHigh,
           HardSingularity(s), ~HardSingularity(Clamp(q, SafeLow, SafeHigh))
    PROVE  SingularityRisk(q) < SingularityRisk(s)
BY DEF HardSingularity, SingularityRisk, Clamp

\* A result is a record with these fields.
IsResult(r) ==
    r = [gen |-> r.gen, reason |-> r.reason, q |-> r.q, stop |-> r.stop, pushed |-> r.pushed,
         late |-> r.late, solved |-> r.solved, outward |-> r.outward,
         limitRisk |-> r.limitRisk, risk |-> r.risk, score |-> r.score]

\* Replacing generator, reason and lateness of a result leaves the rest.
LEMMA ResultFields ==
    ASSUME NEW r, IsResult(r), NEW h, NEW why, NEW late
    PROVE  /\ IsResult([r EXCEPT !.gen = h])
           /\ LET s == [r EXCEPT !.gen = h]
              IN s.gen = h /\ s.reason = r.reason /\ s.q = r.q /\ s.stop = r.stop
                 /\ s.pushed = r.pushed /\ s.late = r.late
           /\ LET s == [r EXCEPT !.gen = h, !.late = late]
              IN s.gen = h /\ s.reason = r.reason /\ s.q = r.q /\ s.stop = r.stop
                 /\ s.pushed = r.pushed /\ s.late = late
           /\ LET s == [r EXCEPT !.gen = h, !.reason = why, !.late = late]
              IN s.gen = h /\ s.reason = why /\ s.q = r.q /\ s.stop = r.stop
                 /\ s.pushed = r.pushed /\ s.late = late
<1>1. DOMAIN r = {"gen", "reason", "q", "stop", "pushed", "late", "solved", "outward",
                  "limitRisk", "risk", "score"}
  BY DEF IsResult
<1>2. IsResult([r EXCEPT !.gen = h])
  BY <1>1 DEF IsResult
<1> QED BY <1>1, <1>2

\* What the session relies on in a candidate r of generator g, judged against
\* the joints ref.
CandidateOf(g, ref, r) ==
    /\ IsResult(r)
    /\ r.gen \in Seeded /\ Accepting(r.gen) = Accepting(g)
    /\ g.ik \in Joints /\ g.safe \in Joints => r.gen.ik \in Joints
    /\ r.q \in Int /\ {r.stop, r.pushed, r.late, r.solved} \subseteq BOOLEAN
    /\ r.solved =>
         /\ r.q \in Joints
         /\ r.pushed <=> Direction(g.safe, Clamp(r.q, SafeLow, SafeHigh)) # "AWAY"
         /\ r.stop <=> HardSingularity(g.safe) /\ r.pushed
    /\ ~r.solved => ~r.pushed /\ r.reason # "ACCEPTED"
    /\ r.reason = "ACCEPTED" =>
         /\ ~MarginBlocked(r.q, ref)
         /\ Abs(r.q - g.safe) <= MaxJointJump
         /\ HardSingularity(Clamp(r.q, SafeLow, SafeHigh)) => ~r.pushed

\* An accepted verdict passed every limit.
LEMMA VerdictFacts ==
    ASSUME NEW g, NEW t, NEW q, NEW ref, NEW limited,
           Verdict(g, t, q, ref, limited) = "ACCEPTED"
    PROVE  /\ ~MarginBlocked(q, ref)
           /\ ~(Abs(q - g.safe) > MaxJointJump)
           /\ HardSingularity(Clamp(q, SafeLow, SafeHigh)) =>
                HardSingularity(g.safe) /\ Direction(g.safe, Clamp(q, SafeLow, SafeHigh)) = "AWAY"
<1>1. ClassifyCandidate(g, t, q, ref, limited) = "ACCEPTED"
  BY DEF Verdict
<1>2. ~MarginBlocked(q, ref) /\ ~(Abs(q - g.safe) > MaxJointJump)
  BY <1>1 DEF ClassifyCandidate
<1> QED BY <1>2 DEF Verdict

\* The exits before a candidate exists leave what was accepted alone.
LEMMA RefusedFacts ==
    ASSUME NEW g \in Seeded, NEW ref \in Int, NEW h \in {g, SetAuthoritative(g, g.safe)},
           NEW reason, reason # "ACCEPTED"
    PROVE  CandidateOf(g, ref, Refused(h, reason))
<1>1. /\ h \in Seeded /\ Accepting(h) = Accepting(g)
      /\ g.ik \in Joints /\ g.safe \in Joints => h.ik \in Joints
  BY DEF SetAuthoritative, Seeded, Accepting
<1>2. h.safe \in Int
  BY <1>1 DEF Seeded
<1>3. (reason = Exhausted) \in BOOLEAN
  OBVIOUS
<1>4. IsResult(Refused(h, reason))
  BY DEF Refused, IsResult
<1> QED BY <1>1, <1>2, <1>3, <1>4 DEF CandidateOf, Refused

\* The verdict on a solved candidate.
LEMMA JudgedFacts ==
    ASSUME NEW g \in Seeded, NEW t \in Poses, NEW ref \in Int, NEW instant \in Nat,
           NEW c, c.raw \in Int
    PROVE  /\ CandidateOf(g, ref, Judged(g, t, ref, instant, c))
           /\ ~PrefilterRaises(g, instant) => ~Judged(g, t, ref, instant, c).gen.raised
<1> DEFINE q == Clamp(c.raw, 0, MaxQ)
           clipped == Clamp(q, SafeLow, SafeHigh)
           direction == Direction(g.safe, clipped)
           stop == HardStopRequired(g, q)
           verdict == Verdict(g, t, q, ref, q # c.raw)
           moved == [SetClipped(g, q) EXCEPT !.latch = Latched(g, clipped),
                                             !.raised = PrefilterRaises(g, instant)]
           r == Judged(g, t, ref, instant, c)
<1>1. q \in Joints /\ q \in Int /\ clipped \in Joints /\ clipped \in Int
  BY ClampFacts DEF Joints
<1>2. r.gen = (IF c.late = "checking" THEN SetAuthoritative(moved, g.safe) ELSE moved)
  BY DEF Judged
<1>3. r.q = q /\ r.stop = stop /\ r.pushed = (direction # "AWAY") /\ r.late = (c.late = "checking")
      /\ r.solved = TRUE
      /\ r.reason = IF c.late = "checking" THEN LateVerdict(verdict, stop) ELSE verdict
  BY DEF Judged
<1>4. Latched(g, clipped) \in BOOLEAN
  BY DEF Latched, Seeded
<1>5. PrefilterRaises(g, instant) \in BOOLEAN
  BY DEF PrefilterRaises
<1>6. /\ moved \in Seeded /\ moved.raised = PrefilterRaises(g, instant)
      /\ moved.ik = clipped
      /\ Accepting(moved) = Accepting(g)
  <2> HIDE DEF q
  <2>1. SetClipped(g, q) = [g EXCEPT !.ik = clipped]
    BY DEF SetClipped
  <2> HIDE DEF clipped
  <2> QED BY <1>1, <1>4, <1>5, <2>1 DEF Seeded, Accepting
<1>7. g.safe \in Int
  BY DEF Seeded
<1>8. /\ r.gen \in Seeded /\ r.gen.raised = PrefilterRaises(g, instant)
      /\ g.safe \in Joints => r.gen.ik \in Joints
      /\ Accepting(r.gen) = Accepting(g)
  <2> HIDE DEF moved, r
  <2>1. CASE c.late = "checking"
    BY <1>2, <1>6, <1>7, <2>1 DEF SetAuthoritative, Seeded, Accepting
  <2>2. CASE c.late # "checking"
    BY <1>1, <1>2, <1>6, <2>2
  <2> QED BY <2>1, <2>2
<1>9. stop = (HardSingularity(g.safe) /\ direction # "AWAY")
  BY DEF HardStopRequired
<1>10. ASSUME r.reason = "ACCEPTED"
       PROVE  /\ ~MarginBlocked(q, ref)
              /\ ~(Abs(q - g.safe) > MaxJointJump)
              /\ HardSingularity(clipped) => direction = "AWAY"
  <2>1. verdict = "ACCEPTED"
    BY <1>3, <1>10 DEF LateVerdict, Exhausted
  <2> HIDE DEF q, r
  <2> QED BY <2>1, VerdictFacts
<1>11. Abs(q - g.safe) \in Int
  BY <1>1, <1>7 DEF Abs
<1>12. HardSingularity(g.safe) \in BOOLEAN
  BY <1>7, RiskFacts
<1>16. IsResult(r)
  BY DEF Judged, IsResult
<1> HIDE DEF q, stop, verdict, moved, r
<1>13. ~(Abs(q - g.safe) > MaxJointJump) => Abs(q - g.safe) <= MaxJointJump
  BY <1>11
<1>14. {r.stop, r.pushed, r.late, r.solved} \subseteq BOOLEAN
  BY <1>3, <1>9, <1>12
<1> HIDE DEF clipped, direction
<1>15. CandidateOf(g, ref, r)
  <2>1. r.pushed <=> Direction(g.safe, Clamp(r.q, SafeLow, SafeHigh)) # "AWAY"
    BY <1>3 DEF direction, clipped
  <2>2. r.stop <=> HardSingularity(g.safe) /\ r.pushed
    BY <1>3, <1>9
  <2>3. r.reason = "ACCEPTED" =>
         /\ ~MarginBlocked(r.q, ref)
         /\ Abs(r.q - g.safe) <= MaxJointJump
         /\ HardSingularity(Clamp(r.q, SafeLow, SafeHigh)) => ~r.pushed
    BY <1>3, <1>10, <1>13 DEF clipped
  <2> QED BY <1>1, <1>3, <1>8, <1>14, <1>16, <2>1, <2>2, <2>3 DEF CandidateOf
<1> QED BY <1>8, <1>15 DEF r

\* evaluate() without recovery, every exit.
LEMMA CandidateFacts ==
    ASSUME NEW g \in Seeded, NEW t \in Poses, NEW ref \in Int, NEW instant \in Nat,
           NEW c, c.raw \in Int, ~PrefilterRaises(g, instant), ~g.raised
    PROVE  LET r == EvaluateCandidate(g, t, ref, instant, c)
           IN CandidateOf(g, ref, r) /\ ~r.gen.raised
<1> DEFINE r == EvaluateCandidate(g, t, ref, instant, c)
<1>1. /\ Exhausted # "ACCEPTED"
      /\ ~SetAuthoritative(g, g.safe).raised
  BY DEF Exhausted, SetAuthoritative, Seeded
<1>2. CASE c.late = "start"
  BY <1>1, <1>2, RefusedFacts DEF EvaluateCandidate, Refused
<1>3. CASE c.late # "start" /\ c.late = "solving"
  BY <1>1, <1>3, RefusedFacts DEF EvaluateCandidate, Refused
<1>4. CASE c.late # "start" /\ c.late # "solving" /\ c.solve = "nonfinite"
  BY <1>1, <1>4, RefusedFacts DEF EvaluateCandidate, Refused
<1>5. CASE c.late # "start" /\ c.late # "solving" /\ c.solve # "nonfinite" /\ c.solve = "nobranch"
  BY <1>1, <1>5, RefusedFacts DEF EvaluateCandidate, Refused
<1>6. CASE c.late # "start" /\ c.late # "solving" /\ c.solve # "nonfinite" /\ c.solve # "nobranch"
  <2>1. r = Judged(g, t, ref, instant, c)
    BY <1>6 DEF EvaluateCandidate
  <2> HIDE DEF r
  <2>2. CandidateOf(g, ref, r)
    BY <2>1, JudgedFacts
  <2>3. ~r.gen.raised
    BY <2>1, JudgedFacts
  <2> QED BY <2>2, <2>3 DEF r
<1> QED BY <1>2, <1>3, <1>4, <1>5, <1>6

\* Every choice has joints, and so has every candidate.
LEMMA CandidatesFacts ==
    ASSUME NEW g \in Seeded, NEW t \in Poses, NEW ref \in Int, NEW instant \in Nat,
           NEW budget, NEW r \in Candidates(g, t, ref, instant, budget),
           ~PrefilterRaises(g, instant), ~g.raised
    PROVE  CandidateOf(g, ref, r) /\ ~r.gen.raised
<1>1. PICK c \in Choices(g.safe, t, budget) : r = EvaluateCandidate(g, t, ref, instant, c)
  BY DEF Candidates
<1>2. g.safe \in Int /\ Solutions(g.safe, t) \subseteq Int
  BY DEF Seeded, Solutions, Segment, Poses
<1>3. c.raw \in {g.safe} \cup Solutions(g.safe, t)
  BY DEF Choices
<1> QED BY <1>1, <1>2, <1>3, CandidateFacts

\* What evaluate() returns from generator g for pose t: a refused result leaves
\* the accepted joints, pose, origin and time alone; an accepted one takes one
\* bounded step inside the limits; and a hard state inside the soft range that
\* the candidate does not leave is stopped or left all the same.
ResultOf(g, t, ref, instant, r) ==
    /\ r.gen \in Seeded /\ r.gen.ik \in Joints /\ ~r.gen.raised
    /\ {r.stop, r.pushed, r.late} \subseteq BOOLEAN
    /\ ~Accepted(r) => Accepting(r.gen) = Accepting(g)
    /\ Accepted(r) =>
         /\ r.q \in Joints /\ ~MarginBlocked(r.q, ref)
         /\ Abs(r.q - g.safe) <= MaxJointJump + SeedStep
         /\ Accepting(r.gen) = [safe |-> r.q, target |-> t, origin |-> g.origin, at |-> instant]
    /\ r.pushed /\ HardSingularity(g.safe) /\ g.safe \in SafeLow .. SafeHigh =>
         IF Accepted(r) THEN SingularityRisk(r.q) < SingularityRisk(g.safe) ELSE r.stop

\* _commit_accepted_result moves joints, pose and time together.
LEMMA CommitFacts ==
    ASSUME NEW g \in Seeded, NEW q \in Joints, NEW t \in Poses, NEW instant \in Nat,
           ~PrefilterRaises(g, instant), ~g.raised
    PROVE  LET h == Commit(g, q, t, instant)
           IN /\ h \in Seeded /\ h.ik = q /\ ~h.raised
              /\ Accepting(h) = [safe |-> q, target |-> t, origin |-> g.origin, at |-> instant]
<1>1. PrefilterRaises(g, instant) \in BOOLEAN
  BY DEF PrefilterRaises
<1>2. q \in Int
  BY DEF Joints
<1> DEFINE k == TrackerCommits(g, instant)
<1>3. k \in Seeded /\ k.raised = FALSE /\ k.at = instant /\ k.origin = g.origin
  BY <1>1 DEF TrackerCommits, Seeded
<1>4. Commit(g, q, t, instant) = [k EXCEPT !.ik = q, !.safe = q, !.target = t]
  BY DEF Commit
<1> HIDE DEF k
<1> QED BY <1>2, <1>3, <1>4 DEF Seeded, Accepting

\* The prefilter looks at the accepted time alone.
LEMMA SameTime ==
    ASSUME NEW g, NEW h, NEW instant, g.at = h.at
    PROVE  PrefilterRaises(g, instant) = PrefilterRaises(h, instant)
BY DEF PrefilterRaises

\* What stays of a record whose accepted part is the same.
LEMMA SameAccepting ==
    ASSUME NEW g, NEW h, Accepting(g) = Accepting(h)
    PROVE  g.safe = h.safe /\ g.target = h.target /\ g.origin = h.origin /\ g.at = h.at
<1>1. /\ Accepting(g).safe = g.safe /\ Accepting(g).target = g.target
      /\ Accepting(g).origin = g.origin /\ Accepting(g).at = g.at
      /\ Accepting(h).safe = h.safe /\ Accepting(h).target = h.target
      /\ Accepting(h).origin = h.origin /\ Accepting(h).at = h.at
  BY DEF Accepting
<1> QED BY <1>1

\* An accepted candidate of a generator that is pushed is not hard, whatever
\* generator it was judged from.
LEMMA PushedFacts ==
    ASSUME NEW g, NEW ref \in Int, NEW r, CandidateOf(g, ref, r), Accepted(r), r.pushed,
           NEW s \in SafeLow .. SafeHigh, HardSingularity(s)
    PROVE  SingularityRisk(r.q) < SingularityRisk(s)
<1>1. r.q \in Int /\ ~HardSingularity(Clamp(r.q, SafeLow, SafeHigh))
  BY DEF CandidateOf, Accepted
<1> QED BY <1>1, LessSingular

\* The primary candidate alone.
LEMMA ConcludedFacts ==
    ASSUME NEW g \in Seeded, g.ik \in Joints, g.safe \in Joints,
           NEW t \in Poses, NEW ref \in Int, NEW instant \in Nat, ~PrefilterRaises(g, instant),
           NEW r, CandidateOf(g, ref, r), ~r.gen.raised
    PROVE  ResultOf(g, t, ref, instant, Concluded(r, t, instant))
<1>1. CASE Accepted(r)
  <2> DEFINE h == Commit(r.gen, r.q, t, instant)
  <2>1. /\ h \in Seeded /\ h.ik = r.q /\ ~h.raised
        /\ Accepting(h) = [safe |-> r.q, target |-> t, origin |-> g.origin, at |-> instant]
    <3>1. r.gen \in Seeded /\ r.gen.at = g.at /\ r.gen.origin = g.origin
      BY SameAccepting DEF CandidateOf
    <3>2. ~PrefilterRaises(r.gen, instant)
      BY <3>1, SameTime
    <3>3. r.q \in Joints
      BY <1>1 DEF CandidateOf, Accepted
    <3> QED BY <3>1, <3>2, <3>3, CommitFacts
  <2> HIDE DEF h
  <2> DEFINE s == Concluded(r, t, instant)
  <2>2. s = [r EXCEPT !.gen = h]
    BY <1>1 DEF Concluded, h
  <2>3. s.gen = h /\ s.reason = r.reason /\ s.q = r.q /\ s.stop = r.stop
        /\ s.pushed = r.pushed /\ s.late = r.late
    BY <2>2, ResultFields DEF CandidateOf
  <2> HIDE DEF s
  <2>4. Accepted(s) /\ s.q \in Joints /\ ~MarginBlocked(s.q, ref)
    BY <1>1, <2>3 DEF Accepted, CandidateOf
  <2>5. Abs(s.q - g.safe) <= MaxJointJump + SeedStep
    <3>1. Abs(s.q - g.safe) <= MaxJointJump /\ s.q \in Int /\ g.safe \in Int
      BY <1>1, <2>3 DEF Accepted, CandidateOf, Seeded
    <3> QED BY <3>1 DEF Abs
  <2>6. s.pushed /\ HardSingularity(g.safe) /\ g.safe \in SafeLow .. SafeHigh =>
          SingularityRisk(s.q) < SingularityRisk(g.safe)
    BY <1>1, <2>3, PushedFacts
  <2>7. s.gen \in Seeded /\ s.gen.ik \in Joints /\ ~s.gen.raised
    BY <2>1, <2>3, <2>4
  <2> QED BY <2>1, <2>3, <2>4, <2>5, <2>6, <2>7 DEF ResultOf, s, CandidateOf
<1>2. CASE ~Accepted(r)
  <2>1. Concluded(r, t, instant) = r
    BY <1>2 DEF Concluded
  <2> QED BY <1>2, <2>1 DEF ResultOf, CandidateOf
<1> QED BY <1>1, <1>2

\* A trial from a moved seed and its commit.
LEMMA TrialFacts ==
    ASSUME NEW g \in Seeded, g.safe \in Joints, NEW ref \in Int, NEW primary, CandidateOf(g, ref, primary),
           NEW t \in Poses, NEW instant \in Nat, NEW budget,
           ~PrefilterRaises(g, instant), ~primary.gen.raised,
           NEW trial \in Trials(primary, t, ref, instant, budget)
    PROVE  /\ IsResult(trial) /\ trial.gen.raised = FALSE
           /\ {trial.stop, trial.pushed, trial.late} \subseteq BOOLEAN
           /\ Accepted(trial) =>
                /\ trial.q \in Joints /\ ~MarginBlocked(trial.q, ref)
                /\ Abs(trial.q - g.safe) <= MaxJointJump + SeedStep
                /\ \A s \in SafeLow .. SafeHigh :
                      trial.pushed /\ HardSingularity(s) => SingularityRisk(trial.q) < SingularityRisk(s)
<1> DEFINE seed == TowardSafeSeed(primary.gen.safe)
           placed == [primary.gen EXCEPT !.safe = seed]
           seeded == SetAuthoritative(placed, seed)
           left == IF primary.late THEN "spent" ELSE budget
<1>1. /\ primary.gen \in Seeded /\ primary.gen.raised = FALSE
      /\ primary.gen.at = g.at /\ primary.gen.safe = g.safe /\ g.safe \in Int
  BY SameAccepting DEF CandidateOf, Seeded
<1>2. seed \in Int /\ Abs(seed - g.safe) <= SeedStep
  BY <1>1 DEF TowardSafeSeed, Abs
<1>3. /\ seeded \in Seeded /\ seeded.raised = FALSE
      /\ seeded.at = g.at /\ seeded.safe = seed
  <2> HIDE DEF seed
  <2> QED BY <1>1, <1>2 DEF SetAuthoritative, Seeded
<1>4. ~PrefilterRaises(seeded, instant)
  BY <1>3, SameTime
<1> HIDE DEF seeded
<1>5. PICK r \in Candidates(seeded, t, ref, instant, left) : trial = Concluded(r, t, instant)
  BY DEF Trials, seeded
<1>6. CandidateOf(seeded, ref, r) /\ r.gen.raised = FALSE
  <2>1. CandidateOf(seeded, ref, r) /\ ~r.gen.raised
    BY <1>3, <1>4, CandidatesFacts
  <2> QED BY <2>1 DEF CandidateOf, Seeded
<1>7. CASE Accepted(r)
  <2> DEFINE h == Commit(r.gen, r.q, t, instant)
  <2>1. r.gen \in Seeded /\ r.gen.at = seeded.at /\ r.q \in Joints
    BY <1>6, <1>7, SameAccepting DEF CandidateOf, Accepted
  <2>2. ~PrefilterRaises(r.gen, instant)
    BY <1>4, <2>1, SameTime
  <2>3. h \in Seeded /\ ~h.raised
    BY <1>6, <2>1, <2>2, CommitFacts
  <2>4. h.raised = FALSE
    BY <2>3 DEF Seeded
  <2> HIDE DEF h
  <2>5. trial = [r EXCEPT !.gen = h]
    BY <1>5, <1>7 DEF Concluded, h
  <2>6. /\ IsResult(trial) /\ trial.gen = h /\ trial.reason = r.reason /\ trial.q = r.q
        /\ trial.stop = r.stop /\ trial.pushed = r.pushed /\ trial.late = r.late
    BY <1>6, <2>5, ResultFields DEF CandidateOf
  <2>7. ~MarginBlocked(trial.q, ref) /\ Abs(r.q - seed) <= MaxJointJump
    BY <1>3, <1>6, <1>7, <2>6 DEF CandidateOf, Accepted
  <2>8. Abs(trial.q - g.safe) <= MaxJointJump + SeedStep
    <3>1. r.q \in Int
      BY <2>1 DEF Joints
    <3> HIDE DEF seed
    <3> QED BY <1>1, <1>2, <2>6, <2>7, <3>1 DEF Abs
  <2>9. \A s \in SafeLow .. SafeHigh :
          trial.pushed /\ HardSingularity(s) => SingularityRisk(trial.q) < SingularityRisk(s)
    BY <1>6, <1>7, <2>6, PushedFacts
  <2> QED BY <1>6, <2>1, <2>4, <2>6, <2>7, <2>8, <2>9 DEF CandidateOf
<1>8. CASE ~Accepted(r)
  <2>1. trial = r
    BY <1>5, <1>8 DEF Concluded
  <2> QED BY <1>6, <1>8, <2>1 DEF CandidateOf
<1> QED BY <1>7, <1>8

\* Recovery: whichever of the two is selected is committed on the generator as
\* it was before the trial, or nothing is.
LEMMA RecoveryFacts ==
    ASSUME NEW g \in Seeded, g.ik \in Joints, g.safe \in Joints,
           NEW ref \in Int, NEW primary, CandidateOf(g, ref, primary),
           NEW t \in Poses, NEW instant \in Nat, NEW budget,
           ~PrefilterRaises(g, instant), ~primary.gen.raised,
           NEW trial \in Trials(primary, t, ref, instant, budget)
    PROVE  ResultOf(g, t, ref, instant, TryRecovery(primary, trial, t, instant))
<1> DEFINE snapshot == primary.gen
           restored == Restore(snapshot, trial.gen)
           selected == IF PrefersTrial(primary, trial) THEN trial ELSE primary
           late == primary.late \/ trial.late
           why == IF trial.reason = Exhausted THEN Exhausted ELSE selected.reason
           h == Commit(restored, selected.q, t, instant)
           k == SetAuthoritative(restored, snapshot.safe)
           r == TryRecovery(primary, trial, t, instant)
<1>1. /\ IsResult(trial) /\ trial.gen.raised = FALSE
      /\ {trial.stop, trial.pushed, trial.late} \subseteq BOOLEAN
      /\ Accepted(trial) =>
           /\ trial.q \in Joints /\ ~MarginBlocked(trial.q, ref)
           /\ Abs(trial.q - g.safe) <= MaxJointJump + SeedStep
           /\ \A s \in SafeLow .. SafeHigh :
                 trial.pushed /\ HardSingularity(s) => SingularityRisk(trial.q) < SingularityRisk(s)
  BY TrialFacts
<1>2. /\ IsResult(primary)
      /\ {primary.stop, primary.pushed, primary.late} \subseteq BOOLEAN
      /\ primary.pushed => primary.stop \/ ~HardSingularity(g.safe)
      /\ Accepted(primary) =>
           /\ primary.q \in Joints /\ ~MarginBlocked(primary.q, ref)
           /\ Abs(primary.q - g.safe) <= MaxJointJump
  BY DEF CandidateOf, Accepted
<1>3. Accepted(primary) /\ primary.pushed =>
        \A s \in SafeLow .. SafeHigh :
           HardSingularity(s) => SingularityRisk(primary.q) < SingularityRisk(s)
  BY PushedFacts
<1>4. Accepted(primary) => Abs(primary.q - g.safe) <= MaxJointJump + SeedStep
  <2>1. g.safe \in Int /\ (Accepted(primary) => primary.q \in Int)
    BY <1>2 DEF Seeded, Joints
  <2> QED BY <1>2, <2>1 DEF Abs
<1>5. /\ snapshot \in Seeded /\ snapshot.ik \in Joints
      /\ Accepting(snapshot) = Accepting(g)
      /\ snapshot.safe = g.safe /\ snapshot.origin = g.origin /\ snapshot.at = g.at
  BY SameAccepting DEF CandidateOf
<1>6. /\ restored \in Seeded /\ restored.raised = FALSE /\ restored.ik = snapshot.ik
      /\ Accepting(restored) = Accepting(g) /\ restored.origin = g.origin /\ restored.at = g.at
  <2> HIDE DEF snapshot
  <2>1. restored \in Seeded /\ restored.raised = FALSE /\ restored.ik = snapshot.ik
        /\ Accepting(restored) = Accepting(snapshot)
    BY <1>1, <1>5 DEF Restore, Seeded, Accepting
  <2> HIDE DEF restored
  <2> QED BY <1>5, <2>1, SameAccepting
<1> HIDE DEF snapshot, restored
<1>7. /\ IsResult(selected) /\ {selected.stop, selected.pushed, selected.late} \subseteq BOOLEAN
      /\ late \in BOOLEAN
  BY <1>1, <1>2
<1>8. Accepted(selected) =>
           /\ selected.q \in Joints /\ ~MarginBlocked(selected.q, ref)
           /\ Abs(selected.q - g.safe) <= MaxJointJump + SeedStep
           /\ \A s \in SafeLow .. SafeHigh :
                 selected.pushed /\ HardSingularity(s) => SingularityRisk(selected.q) < SingularityRisk(s)
  BY <1>1, <1>2, <1>3, <1>4
<1>9. ~Accepted(selected) => selected = primary
  BY DEF PrefersTrial
<1> HIDE DEF selected, late
<1>10. CASE Accepted(selected)
  <2>1. ~PrefilterRaises(restored, instant)
    BY <1>6, SameTime
  <2>2. /\ h \in Seeded /\ h.ik = selected.q /\ ~h.raised
        /\ Accepting(h) = [safe |-> selected.q, target |-> t, origin |-> restored.origin, at |-> instant]
    BY <1>6, <1>8, <1>10, <2>1, CommitFacts
  <2>3. r = [selected EXCEPT !.gen = h, !.late = late]
    BY <1>10 DEF TryRecovery, selected, late, restored, snapshot
  <2> HIDE DEF h, r
  <2>4. r.gen = h /\ r.reason = selected.reason /\ r.q = selected.q /\ r.stop = selected.stop
        /\ r.pushed = selected.pushed /\ r.late = late
    BY <1>7, <2>3, ResultFields
  <2>5. Accepted(r)
    BY <1>10, <2>4 DEF Accepted
  <2> QED BY <1>6, <1>7, <1>8, <1>10, <2>2, <2>4, <2>5 DEF ResultOf, r
<1>11. CASE ~Accepted(selected)
  <2>1. k \in Seeded /\ k.ik = g.safe /\ k.raised = FALSE /\ Accepting(k) = Accepting(g)
    BY <1>5, <1>6 DEF SetAuthoritative, Seeded, Accepting, Joints
  <2>2. r = [selected EXCEPT !.gen = k, !.reason = why, !.late = late]
    BY <1>11 DEF TryRecovery, selected, late, restored, snapshot
  <2>3. why # "ACCEPTED"
    BY <1>11 DEF Accepted, Exhausted
  <2> HIDE DEF k, r, why
  <2>4. r.gen = k /\ r.reason = why /\ r.q = selected.q /\ r.stop = selected.stop
        /\ r.pushed = selected.pushed /\ r.late = late
    BY <1>7, <2>2, ResultFields
  <2>5. ~Accepted(r)
    BY <2>3, <2>4 DEF Accepted
  <2>6. r.pushed /\ HardSingularity(g.safe) => r.stop
    BY <1>2, <1>9, <1>11, <2>4
  <2> QED BY <1>7, <2>1, <2>4, <2>5, <2>6 DEF ResultOf, r
<1> QED BY <1>10, <1>11

\* evaluate(), the whole call.
LEMMA EvaluateFacts ==
    ASSUME NEW g \in Seeded, g.ik \in Joints, g.safe \in Joints, ~g.raised,
           NEW t \in Poses, NEW ref \in Int, NEW instant \in Nat, NEW budget,
           ~PrefilterRaises(g, instant), NEW r \in Evaluate(g, t, ref, instant, budget)
    PROVE  ResultOf(g, t, ref, instant, r)
<1>1. PICK primary \in Candidates(g, t, ref, instant, budget) :
        r \in IF primary.solved /\ ShouldRecover(g, primary)
              THEN {TryRecovery(primary, trial, t, instant) :
                      trial \in Trials(primary, t, ref, instant, budget)}
              ELSE {Concluded(primary, t, instant)}
  BY DEF Evaluate
<1>2. CandidateOf(g, ref, primary) /\ ~primary.gen.raised
  BY CandidatesFacts
<1>3. CASE primary.solved /\ ShouldRecover(g, primary)
  <2>1. PICK trial \in Trials(primary, t, ref, instant, budget) : r = TryRecovery(primary, trial, t, instant)
    BY <1>1, <1>3
  <2> QED BY <1>2, <2>1, RecoveryFacts
<1>4. CASE ~(primary.solved /\ ShouldRecover(g, primary))
  BY <1>1, <1>2, <1>4, ConcludedFacts
<1> QED BY <1>3, <1>4

------------------------------------------------------------------------------
(* The sessions *)

\* The generator of a session is one whose joints are in range.
LEMMA TypedFacts ==
    ASSUME NEW g
    PROVE  g \in Typed <=> g \in Seeded /\ g.ik \in Joints /\ g.safe \in Joints /\ g.at \in 0 .. MaxTicks
<1>1. Joints \subseteq Int /\ 0 .. MaxTicks \subseteq Nat
  BY DEF Joints
<1> QED BY <1>1 DEF Typed, Seeded

\* Joints are poses.
LEMMA PosesFacts == Joints \subseteq Poses /\ Joints \subseteq Int /\ Poses \subseteq Int
BY DEF Joints, Poses

\* The generator is synchronized with the joints q, or q is refused.
LEMMA SynchronizeFacts ==
    ASSUME NEW g \in Typed, NEW q \in Joints
    PROVE  LET h == Synchronize(g, q)
           IN /\ h \in Typed
              /\ q \in Contact => h.raised = TRUE /\ Accepting(h) = Accepting(g)
              /\ q \notin Contact => /\ h.raised = g.raised /\ h.ik = q
                                    /\ h.safe = q /\ h.target = q /\ h.origin = q /\ h.at = 0
<1>1. CASE q \in Contact
  BY <1>1 DEF Synchronize, Typed, Accepting
<1>2. CASE q \notin Contact
  <2> DEFINE k == [g EXCEPT !.ik = q]
             m == [k EXCEPT !.origin = k.ik, !.target = k.ik, !.safe = k.ik, !.latch = FALSE]
  <2>1. Synchronize(g, q) = [m EXCEPT !.at = 0]
    BY <1>2 DEF Synchronize, CaptureReference, SetAuthoritative, ResetTracker
  <2>2. k \in Typed /\ k.ik = q /\ k.raised = g.raised
    BY DEF Typed
  <2> HIDE DEF k
  <2>3. /\ m \in Typed /\ m.ik = q /\ m.safe = q /\ m.target = q /\ m.origin = q
        /\ m.raised = g.raised
    BY <2>2, PosesFacts DEF Typed
  <2> HIDE DEF m
  <2>4. 0 \in 0 .. MaxTicks
    OBVIOUS
  <2> QED BY <1>2, <2>1, <2>3, <2>4 DEF Typed
<1> QED BY <1>1, <1>2

\* CaptureFrom takes the reference at the joints q.
LEMMA CaptureFacts ==
    ASSUME gen \in Typed, NEW q \in Joints
    PROVE  LET h == CaptureFrom(q)
           IN /\ h \in Typed
              /\ q \in Contact => h.raised = TRUE /\ Accepting(h) = Accepting(gen)
              /\ q \notin Contact /\ ~gen.raised =>
                   /\ h.raised = FALSE /\ h.ik = q
                   /\ h.safe = q /\ h.target = q /\ h.origin = q /\ h.at = 0
<1> DEFINE k == Synchronize(gen, q)
           m == [k EXCEPT !.origin = k.ik, !.target = k.ik, !.safe = k.ik, !.latch = FALSE]
<1>1. /\ k \in Typed
      /\ q \in Contact => k.raised = TRUE /\ Accepting(k) = Accepting(gen)
      /\ q \notin Contact => /\ k.raised = gen.raised /\ k.ik = q
                            /\ k.safe = q /\ k.target = q /\ k.origin = q /\ k.at = 0
  BY SynchronizeFacts
<1>2. CaptureFrom(q) = IF k.raised THEN k ELSE [m EXCEPT !.at = 0]
  BY DEF CaptureFrom, Raised, CaptureReference, ResetTracker
<1> HIDE DEF k
<1>3. CASE k.raised
  BY <1>1, <1>2, <1>3
<1>4. CASE ~k.raised
  <2>1. q \notin Contact
    BY <1>1, <1>4
  <2>2. /\ m \in Typed /\ m.ik = q /\ m.safe = q /\ m.target = q /\ m.origin = q
        /\ m.raised = k.raised
    BY <1>1, <2>1, PosesFacts DEF Typed
  <2> HIDE DEF m
  <2>3. 0 \in 0 .. MaxTicks /\ (~k.raised => k.raised = FALSE)
    BY <1>1 DEF Typed
  <2> QED BY <1>2, <1>4, <2>1, <2>2, <2>3 DEF Typed
<1> QED BY <1>3, <1>4

\* Neither a vetted target nor a move towards one leaves the margin.
LEMMA MarginFacts ==
    ASSUME start \in Joints, NEW ref \in LowEnd .. HighEnd, NEW q \in Joints
    PROVE  /\ ~MarginBlocked(q, ref) => q \in LowEnd .. HighEnd
           /\ \A p \in LowEnd .. HighEnd : \A x \in Segment(p, ref) : x \in LowEnd .. HighEnd
<1>1. LowEnd \in Int /\ HighEnd \in Int /\ LowEnd <= SafeLow /\ SafeHigh <= HighEnd
  BY DEF Joints, LowEnd, HighEnd
<1>2. q \in Int /\ ref \in Int
  BY <1>1 DEF Joints
<1>3. ~MarginBlocked(q, ref) => q \in LowEnd .. HighEnd
  BY <1>1, <1>2 DEF MarginBlocked
<1>4. \A p \in LowEnd .. HighEnd : \A x \in Segment(p, ref) : x \in LowEnd .. HighEnd
  BY <1>1, <1>2 DEF Segment, Poses
<1> QED BY <1>3, <1>4

\* A bounded step stays between two poses.
LEMMA StepFacts ==
    ASSUME NEW from \in Poses, NEW desired \in Poses, NEW step \in Nat,
           step <= Abs(desired - from)
    PROVE  StepToward(from, desired, step) \in Poses
BY DEF StepToward, Abs, Poses

\* The first step of a tick ends at the desired pose at the latest.
LEMMA FirstStepFacts ==
    ASSUME gen' \in Typed, NEW desired \in Poses
    PROVE  FirstStep(desired) \in 0 .. (MaxQ + 1) /\ FirstStep(desired) <= Abs(desired - gen'.target)
<1>1. gen'.target \in Poses
  BY DEF Typed
<1> QED BY <1>1 DEF FirstStep, Abs, Poses

\* The types of the invariant are those of the model.
LEMMA TypesNamed == TargetTypes => TargetTypeOK
BY DEF TargetTypes, TargetTypeOK, Typed, Ticks, Outs

\* The ticks that are not under way, and the one that begins.
LEMMA TickFacts ==
    /\ Idle \in Ticks /\ Idle.pc = "idle"
    /\ Stopped \in Ticks /\ Stopped.pc = "raised"
    /\ \A l, p \in BOOLEAN : LET t == [Idle EXCEPT !.late = l, !.pushed = p]
                            IN t \in Ticks /\ t.pc = "idle" /\ t.late = l /\ t.pushed = p
<1>1. 0 \in Poses /\ 0 \in 0 .. (MaxQ + 1) /\ 0 \in 0 .. MaxBacktracks
  BY DEF Poses
<1> QED BY <1>1 DEF Idle, Stopped, Ticks

\* A tick that begins.
LEMMA BeginFacts ==
    ASSUME gen' \in Typed, NEW desired \in Poses
    PROVE  LET t == EvaluationOf(desired)
           IN /\ t \in Ticks /\ t.pc = "evaluate"
              /\ t.step <= Abs(t.desired - gen'.target)
<1> DEFINE f == FirstStep(desired)
<1>1. f \in 0 .. (MaxQ + 1) /\ f <= Abs(desired - gen'.target)
  BY FirstStepFacts
<1>2. 0 \in Poses /\ 0 \in 0 .. (MaxQ + 1) /\ 0 \in 0 .. MaxBacktracks
  BY DEF Poses
<1>3. EvaluationOf(desired) = [Idle EXCEPT !.pc = "evaluate", !.desired = desired, !.step = f]
  BY DEF EvaluationOf
<1> HIDE DEF f
<1>4. /\ EvaluationOf(desired) \in Ticks /\ EvaluationOf(desired).pc = "evaluate"
      /\ EvaluationOf(desired).step = f /\ EvaluationOf(desired).desired = desired
  BY <1>1, <1>2, <1>3 DEF Idle, Ticks
<1> QED BY <1>1, <1>4

\* What the session publishes.
LEMMA PublishedFacts ==
    ASSUME NEW q \in Joints, NEW kind \in {"none", "target", "hold", "stop"}
    PROVE  Published(kind, q) \in Outs /\ Published(kind, q).q = q /\ Published(kind, q).kind = kind
BY DEF Published, Outs

\* Every session starts at rest, away from contacts.
LEMMA InitFacts == TargetInit => TargetInv
<1> SUFFICES ASSUME TargetInit PROVE TargetInv
  OBVIOUS
<1>1. /\ start \in Joints /\ start \notin Contact /\ plant = start /\ status = start
      /\ start \in Poses
  BY PosesFacts DEF TargetInit
<1>2. gen \in Typed /\ gen.safe = start /\ gen.at = 0 /\ gen.raised = FALSE
  <2>1. 0 \in 0 .. MaxTicks
    OBVIOUS
  <2> QED BY <1>1, <2>1 DEF TargetInit, NewGenerator, Typed
<1>3. out \in Outs /\ out.q = start
  BY <1>1, PublishedFacts DEF TargetInit
<1>4. tick \in Ticks /\ tick.pc = "idle"
  BY TickFacts DEF TargetInit
<1>5. schedule \in 0 .. Engagements /\ moment \in 0 .. MaxTicks /\ moment = 0
  BY DEF TargetInit
<1>6. TargetTypes
  BY <1>1, <1>2, <1>3, <1>4, <1>5 DEF TargetInit, TargetTypes
<1>7. MarginInv
  BY <1>1, <1>2, <1>3 DEF MarginInv, LowEnd, HighEnd, Joints
<1> QED
  BY <1>1, <1>2, <1>4, <1>5, <1>6, <1>7
  DEF TargetInv, TickInv, ReplayInv, RaisesOnlyInContact, ReferenceOnlyWhileEngaged, TargetInit

\* The ends of the range do not move.
LEMMA EndsStay == UNCHANGED start => LowEnd' = LowEnd /\ HighEnd' = HighEnd
BY DEF LowEnd, HighEnd

\* Outside an evaluation nothing of TickInv is left to say.
LEMMA OutsideTick ==
    ASSUME TargetTypes', MarginInv', ReplayInv', gen'.at <= moment',
           tick'.pc # "raised" => ~gen'.raised, RaisesOnlyInContact', ReferenceOnlyWhileEngaged',
           tick'.pc # "evaluate"
    PROVE  TargetInv'
BY DEF TargetInv, TickInv

\* The producer reads a status, and may synchronize with it.
LEMMA ReadStatusFacts == TargetInv /\ ReadStatus => TargetInv'
<1> SUFFICES ASSUME TargetInv, ReadStatus PROVE TargetInv'
  OBVIOUS
<1> USE DEF ReadStatus
<1>1. TargetTypes /\ MarginInv /\ ReplayInv /\ ReferenceOnlyWhileEngaged
  BY DEF TargetInv
<1>2. gen \in Typed /\ gen.raised = FALSE /\ gen.at <= moment /\ plant \in Joints
  BY DEF TargetInv, TargetTypes, Typed
<1>3. \/ gen' = gen
      \/ gen' = Synchronize(gen, plant)
  OBVIOUS
<1>4. /\ gen' \in Typed /\ gen'.at <= gen.at
      /\ gen'.safe = gen.safe \/ gen'.safe = plant
      /\ gen'.raised => plant \in Contact
  <2>1. CASE gen' = gen
    BY <1>2, <2>1 DEF Typed
  <2>2. CASE gen' = Synchronize(gen, plant)
    <3>1. /\ gen' \in Typed
          /\ plant \in Contact => gen'.raised = TRUE /\ Accepting(gen') = Accepting(gen)
          /\ plant \notin Contact => gen'.raised = gen.raised /\ gen'.safe = plant /\ gen'.at = 0
      BY <1>2, <2>2, SynchronizeFacts
    <3>2. plant \in Contact => gen'.safe = gen.safe /\ gen'.at = gen.at
      BY <3>1, SameAccepting
    <3>3. gen.at \in Nat
      BY <1>2 DEF Typed
    <3> QED BY <1>2, <3>1, <3>2, <3>3
  <2> QED BY <1>3, <2>1, <2>2
<1>5. /\ tick' \in Ticks
      /\ tick'.pc = IF gen'.raised THEN "raised" ELSE "idle"
  BY TickFacts DEF Raised
<1>6. TargetTypes'
  BY <1>1, <1>4, <1>5 DEF TargetTypes, config
<1>7. gen'.at <= moment'
  BY <1>1, <1>2, <1>4 DEF Typed, TargetTypes
<1>8. MarginInv'
  BY <1>1, <1>4, EndsStay DEF MarginInv, config
<1>9. ReplayInv' /\ RaisesOnlyInContact' /\ ReferenceOnlyWhileEngaged'
  BY <1>1, <1>4, <1>5 DEF ReplayInv, RaisesOnlyInContact, ReferenceOnlyWhileEngaged, config
<1> QED BY <1>4, <1>5, <1>6, <1>7, <1>8, <1>9, OutsideTick

\* The physical or simulated clutch engages.
LEMMA CaptureStep == TargetInv /\ Capture => TargetInv'
<1> SUFFICES ASSUME TargetInv, Capture PROVE TargetInv'
  OBVIOUS
<1> DEFINE q == IF path = "robot" THEN status ELSE plant
<1>1. TargetTypes /\ MarginInv /\ ReplayInv
  BY DEF TargetInv
<1>2. gen \in Typed /\ gen.raised = FALSE /\ gen.at <= moment /\ q \in Joints /\ moment \in Nat
  BY DEF TargetInv, TargetTypes, Typed, Capture
<1>3. gen' = CaptureFrom(q) /\ before' = gen'
  BY DEF Capture
<1>4. /\ gen' \in Typed
      /\ q \in Contact => gen'.raised = TRUE /\ Accepting(gen') = Accepting(gen)
      /\ q \notin Contact => gen'.raised = FALSE /\ gen'.ik = q /\ gen'.safe = q /\ gen'.at = 0
  BY <1>2, <1>3, CaptureFacts
<1>5. q \in Contact => gen'.safe = gen.safe /\ gen'.at = gen.at
  BY <1>4, SameAccepting
<1>6. moment' = moment + 1 /\ moment' \in 0 .. MaxTicks
  BY <1>2 DEF Capture
<1>7. gen'.ik \in Poses
  BY <1>4, PosesFacts DEF Typed
<1>8. CASE gen'.raised
  <2>1. q \in Contact
    BY <1>4, <1>8
  <2>2. tick' = Stopped
    BY <1>8 DEF Capture, Raised
  <2>3. TargetTypes'
    BY <1>1, <1>4, <1>6, <2>2, TickFacts DEF TargetTypes, Capture, config
  <2>4. MarginInv'
    BY <1>1, <1>5, <2>1, EndsStay DEF MarginInv, Capture, config
  <2>5. gen'.at <= moment'
    BY <1>2, <1>5, <1>6, <2>1 DEF Typed
  <2>6. ReplayInv' /\ RaisesOnlyInContact' /\ ReferenceOnlyWhileEngaged'
    BY <1>1, <2>1 DEF ReplayInv, RaisesOnlyInContact, ReferenceOnlyWhileEngaged, Capture, config
  <2> QED BY <2>2, <2>3, <2>4, <2>5, <2>6, TickFacts, OutsideTick
<1>9. CASE ~gen'.raised
  <2>1. q \notin Contact
    BY <1>4, <1>9
  <2>2. tick' = EvaluationOf(gen'.ik)
    BY <1>9 DEF Capture, Raised
  <2>3. tick' \in Ticks /\ tick'.pc = "evaluate" /\ tick'.step <= Abs(tick'.desired - gen'.target)
    BY <1>4, <1>7, <2>2, BeginFacts
  <2>4. TargetTypes'
    BY <1>1, <1>4, <1>6, <2>3 DEF TargetTypes, Capture, config
  <2>5. MarginInv'
    BY <1>1, <1>4, <2>1, EndsStay DEF MarginInv, Capture, config
  <2>6. gen'.at <= moment' /\ gen'.at < moment'
    BY <1>2, <1>4, <1>6, <2>1
  <2>7. TickInv'
    BY <1>3, <2>3, <2>6 DEF TickInv, Capture, config
  <2>8. ReplayInv' /\ RaisesOnlyInContact' /\ ReferenceOnlyWhileEngaged'
    BY <1>1, <2>3 DEF ReplayInv, RaisesOnlyInContact, ReferenceOnlyWhileEngaged, Capture, config
  <2> QED BY <1>9, <2>4, <2>5, <2>6, <2>7, <2>8 DEF TargetInv
<1> QED BY <1>8, <1>9

\* A new desired pose of an engaged tick.
LEMMA UpdateStep == TargetInv /\ Update => TargetInv'
<1> SUFFICES ASSUME TargetInv, Update PROVE TargetInv'
  OBVIOUS
<1>1. TargetTypes /\ MarginInv /\ ReplayInv /\ ReferenceOnlyWhileEngaged
  BY DEF TargetInv
<1>2. gen \in Typed /\ ~gen.raised /\ gen.at <= moment /\ moment \in Nat
  BY DEF TargetInv, TargetTypes, Update
<1>3. PICK desired \in Poses : gen' = gen /\ tick' = EvaluationOf(desired)
  BY DEF Update
<1>4. moment' = moment + 1 /\ moment' \in 0 .. MaxTicks
  BY <1>2 DEF Update
<1>5. tick' \in Ticks /\ tick'.pc = "evaluate" /\ tick'.step <= Abs(tick'.desired - gen'.target)
  BY <1>2, <1>3, BeginFacts
<1>6. TargetTypes'
  BY <1>1, <1>3, <1>4, <1>5 DEF TargetTypes, Update, config
<1>7. MarginInv'
  BY <1>1, <1>3, EndsStay DEF MarginInv, Update, config
<1>8. gen'.at <= moment' /\ gen'.at < moment' /\ ~gen'.raised
  BY <1>2, <1>3, <1>4 DEF Typed
<1>9. TickInv'
  BY <1>3, <1>5, <1>8 DEF TickInv, Update, config
<1>10. ReplayInv' /\ RaisesOnlyInContact' /\ ReferenceOnlyWhileEngaged'
  BY <1>1, <1>5 DEF ReplayInv, RaisesOnlyInContact, ReferenceOnlyWhileEngaged, Update, config
<1> QED BY <1>6, <1>7, <1>8, <1>9, <1>10 DEF TargetInv

\* The trigger is released.
LEMMA ReleaseStep == TargetInv /\ Release => TargetInv'
<1> SUFFICES ASSUME TargetInv, Release PROVE TargetInv'
  OBVIOUS
<1>1. TargetTypes /\ MarginInv /\ ReplayInv /\ gen.at <= moment /\ ~gen.raised
      /\ out.q \in Joints /\ tick.pc = "idle"
  BY DEF TargetInv, TargetTypes, Outs, Release
<1>2. out' \in Outs /\ out'.q = out.q
  BY <1>1, PublishedFacts DEF Release
<1>3. TargetTypes'
  BY <1>1, <1>2 DEF TargetTypes, Release, config
<1>4. MarginInv'
  BY <1>1, <1>2, EndsStay DEF MarginInv, Release, config
<1>5. ReplayInv' /\ RaisesOnlyInContact' /\ ReferenceOnlyWhileEngaged'
      /\ gen'.at <= moment' /\ ~gen'.raised /\ tick'.pc = "idle"
  BY <1>1 DEF ReplayInv, RaisesOnlyInContact, ReferenceOnlyWhileEngaged, Release, config
<1> QED BY <1>3, <1>4, <1>5, OutsideTick

\* The arm moves towards the published target.
LEMMA PlantStep == TargetInv /\ PlantMoves => TargetInv'
<1> SUFFICES ASSUME TargetInv, PlantMoves PROVE TargetInv'
  OBVIOUS
<1>1. TargetTypes /\ MarginInv /\ ReplayInv /\ ReferenceOnlyWhileEngaged
      /\ gen.at <= moment /\ ~gen.raised /\ tick.pc = "idle" /\ start \in Joints
  BY DEF TargetInv, TargetTypes, PlantMoves
<1>2. plant' \in Joints /\ plant' \in Segment(plant, out.q)
  BY DEF PlantMoves
<1>3. TargetTypes'
  BY <1>1, <1>2 DEF TargetTypes, PlantMoves, config
<1>4. plant' \in LowEnd .. HighEnd
  BY <1>1, <1>2, MarginFacts DEF MarginInv
<1>5. MarginInv'
  BY <1>1, <1>4, EndsStay DEF MarginInv, PlantMoves, config
<1>6. ReplayInv' /\ RaisesOnlyInContact' /\ ReferenceOnlyWhileEngaged'
      /\ gen'.at <= moment' /\ ~gen'.raised /\ tick'.pc = "idle"
  BY <1>1 DEF ReplayInv, RaisesOnlyInContact, ReferenceOnlyWhileEngaged, PlantMoves, config
<1> QED BY <1>3, <1>5, <1>6, OutsideTick

\* What holds when a replayed datagram is taken.
LEMMA DatagramFacts ==
    ASSUME TargetInv, Datagram
    PROVE  /\ moment' = moment + 1 /\ moment' \in 0 .. MaxTicks /\ gen.at < moment' /\ gen.at <= moment'
           /\ TargetTypes /\ MarginInv /\ ReplayInv /\ ReferenceOnlyWhileEngaged
           /\ gen.raised = FALSE /\ path = "replay" /\ plant = start /\ tick.pc = "idle"
<1>1. /\ TargetTypes /\ MarginInv /\ ReplayInv /\ ReferenceOnlyWhileEngaged
      /\ gen.raised = FALSE /\ gen.at \in Nat /\ gen.at <= moment
      /\ path = "replay" /\ plant = start /\ tick.pc = "idle"
  BY DEF TargetInv, TargetTypes, Typed, ReplayInv, Datagram
<1>2. moment \in 0 .. MaxTicks
  BY DEF TargetInv, TargetTypes
<1> QED BY <1>1, <1>2 DEF Datagram

\* A datagram that cannot be used.
LEMMA UnsafeStep == TargetInv /\ UnsafeDatagram => TargetInv'
<1> SUFFICES ASSUME TargetInv, UnsafeDatagram PROVE TargetInv'
  OBVIOUS
<1>1. /\ moment' \in 0 .. MaxTicks /\ gen.at <= moment'
      /\ TargetTypes /\ MarginInv /\ ReplayInv /\ ~gen.raised /\ tick.pc = "idle"
      /\ out.q \in Joints
  BY DatagramFacts DEF UnsafeDatagram, TargetTypes, Outs
<1>2. out' \in Outs /\ out'.q = out.q
  BY <1>1, PublishedFacts DEF UnsafeDatagram, Disengage
<1>3. TargetTypes'
  BY <1>1, <1>2 DEF TargetTypes, UnsafeDatagram, Disengage, config
<1>4. MarginInv'
  BY <1>1, <1>2, EndsStay DEF MarginInv, UnsafeDatagram, config
<1>5. ReplayInv' /\ RaisesOnlyInContact' /\ ReferenceOnlyWhileEngaged'
      /\ gen'.at <= moment' /\ ~gen'.raised /\ tick'.pc = "idle"
  BY <1>1 DEF ReplayInv, RaisesOnlyInContact, ReferenceOnlyWhileEngaged, UnsafeDatagram, Disengage, config
<1> QED BY <1>3, <1>4, <1>5, OutsideTick

\* A scheduled engagement arms the replay.
LEMMA ScheduledStep == TargetInv /\ ScheduledEngagement => TargetInv'
<1> SUFFICES ASSUME TargetInv, ScheduledEngagement PROVE TargetInv'
  OBVIOUS
<1>1. /\ moment' \in 0 .. MaxTicks /\ gen.at <= moment'
      /\ TargetTypes /\ MarginInv /\ ReplayInv /\ ~gen.raised /\ tick.pc = "idle"
      /\ ~mapped
  BY DatagramFacts DEF ScheduledEngagement, ReferenceOnlyWhileEngaged
<1>2. schedule' \in 0 .. Engagements
  BY <1>1 DEF ScheduledEngagement, TargetTypes
<1>3. TargetTypes'
  BY <1>1, <1>2 DEF TargetTypes, ScheduledEngagement, config
<1>4. MarginInv'
  BY <1>1, EndsStay DEF MarginInv, ScheduledEngagement, config
<1>5. ReplayInv' /\ RaisesOnlyInContact' /\ ReferenceOnlyWhileEngaged'
      /\ gen'.at <= moment' /\ ~gen'.raised /\ tick'.pc = "idle"
  BY <1>1 DEF ReplayInv, RaisesOnlyInContact, ReferenceOnlyWhileEngaged, ScheduledEngagement, config
<1> QED BY <1>3, <1>4, <1>5, OutsideTick

\* A datagram that is judged: the target is accepted within the limits, or
\* the engagement ends.
LEMMA JudgeFacts ==
    ASSUME TargetInv, Datagram, NEW g \in Typed, ~g.raised, g.at < moment',
           g.safe \in LowEnd .. HighEnd, NEW desired \in Poses, Judge(g, desired),
           UNCHANGED <<path, continuation, start, plant, status>>, schedule' \in 0 .. Engagements
    PROVE  /\ TargetInv'
           /\ tick'.pc = "idle" /\ gen'.origin = g.origin
           /\ gen'.at = moment' => Abs(gen'.safe - g.safe) <= MaxJointJump + SeedStep
<1>1. /\ moment' = moment + 1 /\ moment' \in 0 .. MaxTicks
      /\ TargetTypes /\ MarginInv /\ ReplayInv
      /\ path = "replay" /\ plant = start /\ tick.pc = "idle"
  BY DatagramFacts
<1>2. PICK r \in Evaluate(g, desired, g.safe, moment', "none") :
        /\ gen' = r.gen
        /\ tick' = (IF Raised(r.gen) THEN Stopped ELSE Idle)
        /\ IF Accepted(r)
           THEN clutch' = "Engaged" /\ mapped' = TRUE /\ out' = Published("target", r.q)
           ELSE Disengage
  BY DEF Judge
<1>3. g \in Seeded /\ g.ik \in Joints /\ g.safe \in Joints /\ g.safe \in Int /\ g.at \in Nat
  BY TypedFacts, PosesFacts DEF Typed
<1>4. ~PrefilterRaises(g, moment')
  BY <1>1, <1>3 DEF PrefilterRaises
<1>5. ResultOf(g, desired, g.safe, moment', r)
  BY <1>1, <1>2, <1>3, <1>4, EvaluateFacts
<1>6. gen' \in Seeded /\ gen'.ik \in Joints /\ ~gen'.raised
  BY <1>2, <1>5 DEF ResultOf
<1>7. tick' = Idle
  BY <1>2, <1>6 DEF Raised
<1>8. start \in Joints /\ out.q \in Joints /\ out.q \in LowEnd .. HighEnd
  BY <1>1 DEF TargetTypes, Outs, MarginInv
<1>9. /\ gen'.safe \in Joints /\ gen'.safe \in LowEnd .. HighEnd
      /\ gen'.at \in 0 .. MaxTicks /\ gen'.at <= moment' /\ gen'.origin = g.origin
      /\ gen'.at = moment' => Abs(gen'.safe - g.safe) <= MaxJointJump + SeedStep
      /\ out' \in Outs /\ out'.q \in LowEnd .. HighEnd
      /\ clutch' \in {"Engaged", "Disengaged"} /\ mapped' \in BOOLEAN
      /\ mapped' => clutch' = "Engaged"
  <2>1. CASE Accepted(r)
    <3>1. /\ r.q \in Joints /\ ~MarginBlocked(r.q, g.safe)
          /\ Abs(r.q - g.safe) <= MaxJointJump + SeedStep
          /\ gen'.safe = r.q /\ gen'.origin = g.origin /\ gen'.at = moment'
      <4>1. Accepting(gen') = [safe |-> r.q, target |-> desired, origin |-> g.origin, at |-> moment']
        BY <1>2, <1>5, <2>1 DEF ResultOf
      <4>2. gen'.safe = r.q /\ gen'.origin = g.origin /\ gen'.at = moment'
        BY <4>1 DEF Accepting
      <4> QED BY <1>5, <2>1, <4>2 DEF ResultOf
    <3>2. r.q \in LowEnd .. HighEnd
      BY <1>8, <3>1, MarginFacts
    <3>3. out' \in Outs /\ out'.q = r.q
      BY <1>2, <2>1, <3>1, PublishedFacts
    <3>4. moment' <= moment'
      BY <1>1
    <3> QED BY <1>1, <1>2, <2>1, <3>1, <3>2, <3>3, <3>4
  <2>2. CASE ~Accepted(r)
    <3>1. gen'.safe = g.safe /\ gen'.origin = g.origin /\ gen'.at = g.at
      BY <1>2, <1>5, <2>2, SameAccepting DEF ResultOf
    <3>2. out' \in Outs /\ out'.q = out.q
      BY <1>2, <1>8, <2>2, PublishedFacts DEF Disengage
    <3>3. g.at \in 0 .. MaxTicks /\ g.at <= moment' /\ g.at # moment'
      BY <1>1, <1>3 DEF Typed
    <3> QED BY <1>2, <1>3, <1>8, <2>2, <3>1, <3>2, <3>3 DEF Disengage
  <2> QED BY <2>1, <2>2
<1>10. gen' \in Typed
  BY <1>6, <1>9, TypedFacts
<1>11. TargetTypes'
  BY <1>1, <1>7, <1>9, <1>10, TickFacts DEF TargetTypes
<1>12. MarginInv'
  BY <1>1, <1>9, EndsStay DEF MarginInv
<1>13. ReplayInv' /\ RaisesOnlyInContact' /\ ReferenceOnlyWhileEngaged' /\ tick'.pc = "idle"
  BY <1>1, <1>7, <1>9, TickFacts DEF ReplayInv, RaisesOnlyInContact, ReferenceOnlyWhileEngaged
<1> QED BY <1>6, <1>9, <1>11, <1>12, <1>13, OutsideTick

\* The replay captures its reference and judges the captured pose.
LEMMA ReplayCaptureFacts ==
    ASSUME TargetInv, ReplayCapture
    PROVE  /\ TargetInv' /\ tick'.pc = "idle" /\ gen'.origin = plant
           /\ gen'.at = moment' => Abs(gen'.safe - before'.safe) <= MaxJointJump + SeedStep
<1> DEFINE g == CaptureFrom(plant)
<1>1. Datagram /\ before' = g /\ Judge(g, g.ik)
  BY DEF ReplayCapture
<1>2. /\ moment' \in Nat /\ moment' > 0 /\ TargetTypes /\ MarginInv /\ ReplayInv
      /\ gen.raised = FALSE /\ plant = start
  <2>1. /\ moment' = moment + 1 /\ moment \in 0 .. MaxTicks /\ TargetTypes /\ MarginInv /\ ReplayInv
        /\ gen.raised = FALSE /\ plant = start
    BY <1>1, DatagramFacts DEF TargetTypes
  <2> QED BY <2>1
<1>3. /\ g \in Typed /\ ~g.raised /\ g.ik = plant /\ g.safe = plant /\ g.origin = plant /\ g.at = 0
  BY <1>2, CaptureFacts DEF TargetTypes, ReplayInv
<1>4. g.at < moment' /\ g.safe \in LowEnd .. HighEnd /\ g.ik \in Poses
  BY <1>2, <1>3, PosesFacts DEF MarginInv, TargetTypes
<1>5. UNCHANGED <<path, continuation, start, plant, status>> /\ schedule' \in 0 .. Engagements
  BY <1>2 DEF ReplayCapture, config, TargetTypes
<1> HIDE DEF g
<1> QED BY <1>1, <1>3, <1>4, <1>5, JudgeFacts

\* The replay judges a pose of an engagement.
LEMMA ReplayMotionFacts ==
    ASSUME TargetInv, ReplayMotion
    PROVE  /\ TargetInv' /\ tick'.pc = "idle"
           /\ gen'.at = moment' => Abs(gen'.safe - before'.safe) <= MaxJointJump + SeedStep
<1>1. Datagram /\ before' = gen
  BY DEF ReplayMotion
<1>2. PICK desired \in Poses : Judge(gen, desired)
  BY DEF ReplayMotion
<1>3. /\ gen \in Typed /\ ~gen.raised /\ gen.at < moment' /\ gen.safe \in LowEnd .. HighEnd
      /\ TargetTypes
  BY <1>1, DatagramFacts DEF TargetTypes, MarginInv
<1>4. UNCHANGED <<path, continuation, start, plant, status>> /\ schedule' \in 0 .. Engagements
  BY <1>3 DEF ReplayMotion, config, TargetTypes
<1> QED BY <1>1, <1>2, <1>3, <1>4, JudgeFacts

\* One evaluation of a tick: result r for pose t, and what the tick makes of it.
EvaluatedTo(t, r) ==
    /\ ResultOf(gen, t, BranchReference, moment, r)
    /\ gen' = r.gen
    /\ tick' = (IF Retries(r) THEN NextRetry(tick, r.late)
                ELSE [Idle EXCEPT !.late = tick.late \/ r.late, !.pushed = r.pushed])
    /\ IF tick'.pc = "idle" THEN Publish(r) ELSE UNCHANGED <<out, clutch, mapped>>

\* The results an evaluation of a tick can have are those of evaluate().
LEMMA TickResultFacts ==
    ASSUME TargetInv, EvaluateTick
    PROVE  /\ gen \in Typed /\ gen.safe \in Int /\ moment \in 0 .. MaxTicks /\ moment > 0 /\ gen.at < moment
           /\ Accepting(gen) = Accepting(before)
           /\ BranchReference \in LowEnd .. HighEnd
           /\ \E t \in Poses : \E r : EvaluatedTo(t, r)
<1> DEFINE t == StepToward(gen.target, tick.desired, tick.step)
<1>1. /\ TargetTypes /\ gen \in Typed /\ ~gen.raised /\ tick \in Ticks /\ tick.pc = "evaluate"
      /\ moment \in 0 .. MaxTicks
  BY DEF TargetInv, TargetTypes, EvaluateTick
<1>2. /\ Accepting(gen) = Accepting(before) /\ gen.at < moment
      /\ tick.step <= Abs(tick.desired - gen.target)
  BY <1>1 DEF TargetInv, TickInv
<1>3. gen \in Seeded /\ gen.ik \in Joints /\ gen.safe \in Joints /\ gen.safe \in Int /\ gen.at \in Nat
  <2>1. gen \in Seeded /\ gen.ik \in Joints /\ gen.safe \in Joints
    BY <1>1, TypedFacts
  <2> QED BY <2>1, PosesFacts DEF Seeded
<1>4. moment > 0 /\ ~PrefilterRaises(gen, moment)
  BY <1>1, <1>2, <1>3 DEF PrefilterRaises
<1>5. t \in Poses
  BY <1>1, <1>2, StepFacts DEF Ticks, Typed
<1>6. BranchReference \in LowEnd .. HighEnd
  BY DEF TargetInv, MarginInv, BranchReference
<1>7. BranchReference \in Int
  BY <1>1, <1>3, PosesFacts DEF TargetTypes, BranchReference
<1>8. PICK r \in Evaluate(gen, t, BranchReference, moment, Budget) :
        /\ gen' = r.gen
        /\ tick' = (IF Raised(r.gen) THEN Stopped
                    ELSE IF Retries(r) THEN NextRetry(tick, r.late)
                    ELSE [Idle EXCEPT !.late = tick.late \/ r.late, !.pushed = r.pushed])
        /\ IF tick'.pc = "idle" THEN Publish(r) ELSE UNCHANGED <<out, clutch, mapped>>
  BY DEF EvaluateTick
<1> HIDE DEF t
<1>9. ResultOf(gen, t, BranchReference, moment, r)
  BY <1>1, <1>3, <1>4, <1>5, <1>7, <1>8, EvaluateFacts
<1>10. ~r.gen.raised
  BY <1>9 DEF ResultOf
<1>11. EvaluatedTo(t, r)
  BY <1>8, <1>9, <1>10 DEF EvaluatedTo, Raised
<1> QED BY <1>1, <1>2, <1>3, <1>4, <1>5, <1>6, <1>11

\* A tick that tries again stays a tick, with a smaller step.
LEMMA RetryFacts ==
    ASSUME tick \in Ticks, tick.pc = "evaluate", NEW r, Retries(r), r.late \in BOOLEAN
    PROVE  LET t == NextRetry(tick, r.late)
           IN /\ t \in Ticks /\ t.pc = "evaluate" /\ t.desired = tick.desired
              /\ t.step <= tick.step
<1> DEFINE step == tick.step \div 2
           count == tick.backtracks + 1
           late == tick.late \/ r.late
<1>1. step \in 0 .. (MaxQ + 1) /\ step <= tick.step
  BY DEF Ticks
<1>2. count \in 0 .. MaxBacktracks
  BY DEF Ticks, Retries
<1>3. late \in BOOLEAN
  BY DEF Ticks
<1>4. NextRetry(tick, r.late) = [tick EXCEPT !.step = step, !.backtracks = count, !.late = late]
  BY DEF NextRetry
<1> HIDE DEF step, count, late
<1> QED BY <1>1, <1>2, <1>3, <1>4 DEF Ticks

\* What an evaluation means for the invariant and for the four properties of
\* a step.
LEMMA EvaluateTickFacts ==
    ASSUME TargetInv, EvaluateTick
    PROVE  /\ TargetInv'
           /\ clutch = "Engaged" /\ tick'.pc \in {"idle", "evaluate"}
           /\ tick'.pc = "evaluate" => gen'.at # moment'
           /\ tick'.pc = "idle" /\ out'.kind = "target" =>
                Abs(gen'.safe - before'.safe) <= MaxJointJump + SeedStep
           /\ tick'.pc = "idle" /\ out'.kind # "target" => Accepting(gen') = Accepting(before)
           /\ /\ tick'.pc = "idle" /\ tick'.pushed
              /\ HardSingularity(before.safe) /\ before.safe \in SafeLow .. SafeHigh
              => \/ out'.kind = "stop"
                 \/ out'.kind = "target" /\ SingularityRisk(out'.q) < SingularityRisk(before.safe)
<1>1. /\ gen \in Typed /\ gen.safe \in Int /\ moment \in 0 .. MaxTicks /\ moment > 0 /\ gen.at < moment
      /\ Accepting(gen) = Accepting(before) /\ BranchReference \in LowEnd .. HighEnd
  BY TickResultFacts
<1>10. PICK t \in Poses : \E r : EvaluatedTo(t, r)
  BY TickResultFacts
<1>11. PICK r : EvaluatedTo(t, r)
  BY <1>10
<1>2. /\ ResultOf(gen, t, BranchReference, moment, r)
      /\ gen' = r.gen
      /\ tick' = (IF Retries(r) THEN NextRetry(tick, r.late)
                  ELSE [Idle EXCEPT !.late = tick.late \/ r.late, !.pushed = r.pushed])
      /\ IF tick'.pc = "idle" THEN Publish(r) ELSE UNCHANGED <<out, clutch, mapped>>
  BY <1>11 DEF EvaluatedTo
<1>3. /\ TargetTypes /\ MarginInv /\ ReplayInv /\ ReferenceOnlyWhileEngaged
      /\ path # "replay" /\ clutch = "Engaged" /\ tick.pc = "evaluate"
      /\ tick.step <= Abs(tick.desired - gen.target)
  BY DEF TargetInv, TickInv, EvaluateTick
<1>4. /\ UNCHANGED <<path, continuation, start, plant, status, before, schedule, moment>>
  BY DEF EvaluateTick, config
<1>5. gen' \in Seeded /\ gen'.ik \in Joints /\ ~gen'.raised
      /\ r.pushed \in BOOLEAN /\ r.late \in BOOLEAN /\ r.stop \in BOOLEAN
  BY <1>2 DEF ResultOf
<1>6. gen.safe = before.safe
  BY <1>1, SameAccepting
<1>7. tick.late \in BOOLEAN /\ tick \in Ticks /\ start \in Joints
  BY <1>3 DEF TargetTypes, Ticks
<1>8. CASE Retries(r)
  <2>1. Accepting(gen') = Accepting(gen)
    BY <1>2, <1>8 DEF ResultOf, Retries
  <2>2. gen'.safe = gen.safe /\ gen'.target = gen.target /\ gen'.at = gen.at
    BY <2>1, SameAccepting
  <2>3. gen' \in Typed
    BY <1>1, <1>5, <2>2, TypedFacts DEF Typed
  <2>4. /\ tick' \in Ticks /\ tick'.pc = "evaluate" /\ tick'.desired = tick.desired
        /\ tick'.step <= tick.step
    BY <1>2, <1>3, <1>5, <1>7, <1>8, RetryFacts
  <2>5. UNCHANGED <<out, clutch, mapped>>
    BY <1>2, <2>4
  <2>6. TargetTypes'
    BY <1>3, <1>4, <2>3, <2>4, <2>5 DEF TargetTypes
  <2>7. MarginInv'
    BY <1>3, <1>4, <2>2, <2>5, EndsStay DEF MarginInv
  <2>8. tick'.step <= Abs(tick'.desired - gen'.target)
    BY <1>1, <1>3, <1>7, <2>2, <2>4 DEF Ticks, Typed, Poses, Abs
  <2>9. TickInv'
    BY <1>1, <1>3, <1>4, <2>1, <2>2, <2>5, <2>8 DEF TickInv
  <2>10. gen'.at <= moment'
    BY <1>1, <1>4, <2>2 DEF Typed
  <2>11. ReplayInv' /\ RaisesOnlyInContact' /\ ReferenceOnlyWhileEngaged'
    BY <1>3, <1>4, <2>4, <2>5 DEF ReplayInv, RaisesOnlyInContact, ReferenceOnlyWhileEngaged
  <2>12. TargetInv'
    BY <1>5, <2>6, <2>7, <2>9, <2>10, <2>11 DEF TargetInv
  <2>13. gen'.at # moment'
    BY <1>1, <1>4, <2>2 DEF Typed
  <2> QED BY <1>3, <2>4, <2>12, <2>13
<1>9. CASE ~Retries(r)
  <2> DEFINE l == tick.late \/ r.late
  <2>1. tick' = [Idle EXCEPT !.late = l, !.pushed = r.pushed]
    BY <1>2, <1>9
  <2>2. l \in BOOLEAN
    BY <1>5, <1>7
  <2> HIDE DEF l
  <2>3. tick' \in Ticks /\ tick'.pc = "idle" /\ tick'.pushed = r.pushed
    BY <1>5, <2>1, <2>2, TickFacts
  <2>4. Publish(r)
    BY <1>2, <2>3
  <2>5. out.q \in Joints /\ out.q \in LowEnd .. HighEnd
    BY <1>3 DEF TargetTypes, Outs, MarginInv
  <2>6. /\ gen'.safe \in Joints /\ gen'.safe \in LowEnd .. HighEnd
        /\ gen'.at \in 0 .. MaxTicks /\ gen'.at <= moment
        /\ out' \in Outs /\ out'.q \in LowEnd .. HighEnd
        /\ out'.kind = Outcome(r) /\ (Accepted(r) => out'.q = r.q)
    <3>1. CASE Accepted(r)
      <4>1. Accepting(gen') = [safe |-> r.q, target |-> t, origin |-> gen.origin, at |-> moment]
        BY <1>2, <3>1 DEF ResultOf
      <4>2. gen'.safe = r.q /\ gen'.at = moment
        BY <4>1 DEF Accepting
      <4>3. r.q \in Joints /\ r.q \in LowEnd .. HighEnd
        BY <1>1, <1>2, <1>7, <3>1, MarginFacts DEF ResultOf
      <4>4. out' = Published("target", r.q) /\ Outcome(r) = "target"
        BY <2>4, <3>1 DEF Publish, Outcome
      <4> QED BY <1>1, <4>2, <4>3, <4>4, PublishedFacts
    <3>2. CASE ~Accepted(r)
      <4>1. gen'.safe = gen.safe /\ gen'.at = gen.at
        BY <1>2, <3>2, SameAccepting DEF ResultOf
      <4>2. gen.safe \in Joints /\ gen.safe \in LowEnd .. HighEnd /\ gen.at \in 0 .. MaxTicks
            /\ gen.at <= moment
        BY <1>1, <1>3 DEF Typed, MarginInv
      <4>3. out' = Published(Outcome(r), out.q) /\ Outcome(r) \in {"none", "target", "hold", "stop"}
        BY <2>4, <3>2 DEF Publish, Outcome
      <4> QED BY <2>5, <3>2, <4>1, <4>2, <4>3, PublishedFacts
    <3> QED BY <3>1, <3>2
  <2>7. gen' \in Typed
    BY <1>5, <2>6, TypedFacts
  <2>8. /\ clutch' \in {"Engaged", "Fault"} /\ mapped' \in BOOLEAN
        /\ mapped' => clutch' = "Engaged"
    BY <1>3, <2>4 DEF Publish, TargetTypes
  <2>9. TargetTypes'
    BY <1>3, <1>4, <2>3, <2>6, <2>7, <2>8 DEF TargetTypes
  <2>10. MarginInv'
    BY <1>3, <1>4, <2>6, EndsStay DEF MarginInv
  <2>11. ReplayInv' /\ RaisesOnlyInContact' /\ ReferenceOnlyWhileEngaged' /\ gen'.at <= moment'
    BY <1>3, <1>4, <2>3, <2>6, <2>8 DEF ReplayInv, RaisesOnlyInContact, ReferenceOnlyWhileEngaged
  <2>12. TargetInv'
    BY <1>5, <2>3, <2>9, <2>10, <2>11, OutsideTick
  <2>13. CASE Accepted(r)
    <3>1. out'.kind = "target" /\ out'.q = r.q
      BY <2>6, <2>13 DEF Outcome
    <3>2. Accepting(gen') = [safe |-> r.q, target |-> t, origin |-> gen.origin, at |-> moment]
      BY <1>2, <2>13 DEF ResultOf
    <3>3. gen'.safe = r.q
      BY <3>2 DEF Accepting
    <3>4. Abs(r.q - gen.safe) <= MaxJointJump + SeedStep
      BY <1>2, <2>13 DEF ResultOf
    <3>5. r.pushed /\ HardSingularity(gen.safe) /\ gen.safe \in SafeLow .. SafeHigh =>
            SingularityRisk(r.q) < SingularityRisk(gen.safe)
      BY <1>2, <2>13 DEF ResultOf
    <3> QED BY <1>3, <1>4, <1>6, <2>3, <2>12, <3>1, <3>3, <3>4, <3>5
  <2>14. CASE ~Accepted(r)
    <3>1. out'.kind # "target" /\ (r.stop => out'.kind = "stop")
      BY <2>6, <2>14 DEF Outcome
    <3>2. Accepting(gen') = Accepting(before)
      BY <1>1, <1>2, <2>14 DEF ResultOf
    <3>3. r.pushed /\ HardSingularity(gen.safe) /\ gen.safe \in SafeLow .. SafeHigh => r.stop
      BY <1>2, <2>14 DEF ResultOf
    <3> QED BY <1>3, <1>6, <2>3, <2>12, <3>1, <3>2, <3>3
  <2> QED BY <2>13, <2>14
<1> QED BY <1>8, <1>9

LEMMA StutterStep == TargetInv /\ UNCHANGED targetVars => TargetInv'
BY DEF targetVars, TargetInv, TargetTypes, MarginInv, LowEnd, HighEnd, TickInv, ReplayInv,
       RaisesOnlyInContact, ReferenceOnlyWhileEngaged

\* Every step keeps the invariant.
LEMMA TargetStepFacts == TargetInv /\ [TargetNext]_targetVars => TargetInv'
BY ReadStatusFacts, CaptureStep, UpdateStep, ReleaseStep, EvaluateTickFacts, PlantStep,
   UnsafeStep, ScheduledStep, ReplayCaptureFacts, ReplayMotionFacts, StutterStep
DEF TargetNext

\* Theorem: the invariant of the target sessions holds in every reachable
\* state: joints, target and arm stay between the soft range and the start,
\* and a tick under way has accepted nothing yet.
THEOREM TargetInvariance == TargetSpec => []TargetInv
<1>1. TargetInit => TargetInv
  BY InitFacts
<1>2. TargetInv /\ [TargetNext]_targetVars => TargetInv'
  BY TargetStepFacts
<1> QED BY <1>1, <1>2, PTL DEF TargetSpec

\* The parts of the invariant that the runs check.
LEMMA InvariantGives ==
    TargetInv => TargetTypeOK /\ RaisesOnlyInContact /\ MarginNeverWorsened /\ ReferenceOnlyWhileEngaged
<1> SUFFICES ASSUME TargetInv
             PROVE  TargetTypeOK /\ RaisesOnlyInContact /\ MarginNeverWorsened /\ ReferenceOnlyWhileEngaged
  OBVIOUS
<1>1. TargetTypeOK
  BY TypesNamed DEF TargetInv
<1>2. MarginNeverWorsened
  BY DEF TargetInv, MarginInv, MarginNeverWorsened, LowEnd, HighEnd
<1> QED BY <1>1, <1>2 DEF TargetInv

\* The step is bounded, whatever action took it.
LEMMA BoundedStep ==
    ASSUME TargetInv, [TargetNext]_targetVars,
           out'.kind = "target", moment' # 0, gen'.at = moment', gen.at # moment'
    PROVE  Abs(gen'.safe - before'.safe) <= MaxJointJump + SeedStep
<1>1. CASE ReadStatus
  <2>1. /\ gen \in Typed /\ plant \in Joints /\ moment' = moment /\ moment \in Nat
    BY <1>1 DEF TargetInv, TargetTypes, ReadStatus
  <2>2. gen' = gen \/ gen' = Synchronize(gen, plant)
    BY <1>1 DEF ReadStatus
  <2>3. CASE gen' = Synchronize(gen, plant)
    <3>1. /\ plant \in Contact => Accepting(gen') = Accepting(gen)
          /\ plant \notin Contact => gen'.at = 0
      BY <2>1, <2>3, SynchronizeFacts
    <3> QED BY <2>1, <3>1, SameAccepting
  <2> QED BY <2>1, <2>2, <2>3
<1>2. CASE Capture
  <2> DEFINE q == IF path = "robot" THEN status ELSE plant
  <2>1. gen \in Typed /\ ~gen.raised /\ q \in Joints
    BY <1>2 DEF TargetInv, TargetTypes, Capture
  <2>2. gen' = CaptureFrom(q)
    BY <1>2 DEF Capture
  <2> HIDE DEF q
  <2>3. /\ q \in Contact => Accepting(gen') = Accepting(gen)
        /\ q \notin Contact => gen'.at = 0
    BY <2>1, <2>2, CaptureFacts
  <2>4. gen'.at = gen.at \/ gen'.at = 0
    BY <2>3, SameAccepting
  <2>5. moment' = moment + 1 /\ moment \in Nat /\ gen.at \in Nat
    BY <1>2, <2>1 DEF Capture, TargetInv, TargetTypes, Typed
  <2> QED BY <2>4, <2>5
<1>3. CASE EvaluateTick
  BY <1>3, EvaluateTickFacts
<1>4. CASE ReplayCapture
  BY <1>4, ReplayCaptureFacts
<1>5. CASE ReplayMotion
  BY <1>5, ReplayMotionFacts
<1>6. CASE Update \/ Release \/ PlantMoves \/ UnsafeDatagram \/ ScheduledEngagement \/ UNCHANGED targetVars
  <2>1. gen' = gen
    BY <1>6 DEF Update, Release, PlantMoves, UnsafeDatagram, ScheduledEngagement, targetVars
  <2> QED BY <2>1
<1> QED BY <1>1, <1>2, <1>3, <1>4, <1>5, <1>6 DEF TargetNext

\* A tick finishes in an evaluation only.
LEMMA FinishedByEvaluation ==
    ASSUME TargetInv, [TargetNext]_targetVars, Finished
    PROVE  EvaluateTick
<1>1. tick.pc = "evaluate" /\ tick'.pc = "idle"
  BY DEF Finished
<1>2. ~UNCHANGED targetVars
  BY <1>1 DEF targetVars
<1> QED BY <1>1, <1>2 DEF TargetNext, ReadStatus, Capture, Update, Release, PlantMoves, Datagram,
           UnsafeDatagram, ScheduledEngagement, ReplayCapture, ReplayMotion

\* An engagement begins with a capture of the measured joints.
LEMMA EngagedStep ==
    ASSUME TargetInv, [TargetNext]_targetVars,
           clutch # "Engaged", clutch' = "Engaged", tick'.pc # "raised"
    PROVE  gen'.origin = IF path = "robot" THEN status ELSE plant
<1>1. CASE Capture
  <2> DEFINE q == IF path = "robot" THEN status ELSE plant
  <2>1. gen \in Typed /\ ~gen.raised /\ q \in Joints
    BY <1>1 DEF TargetInv, TargetTypes, Capture
  <2>2. gen' = CaptureFrom(q) /\ ~gen'.raised
    <3>1. gen' = CaptureFrom(q) /\ (gen'.raised => tick' = Stopped)
      BY <1>1 DEF Capture, Raised
    <3> QED BY <3>1, TickFacts
  <2> HIDE DEF q
  <2>3. gen'.origin = q
    BY <2>1, <2>2, CaptureFacts
  <2> QED BY <2>3 DEF q
<1>2. CASE ReplayCapture
  <2>1. path = "replay"
    BY <1>2 DEF ReplayCapture, Datagram
  <2> QED BY <1>2, <2>1, ReplayCaptureFacts
<1>3. CASE EvaluateTick
  BY <1>3, EvaluateTickFacts
<1>4. CASE ReadStatus \/ Update \/ Release \/ PlantMoves \/ UnsafeDatagram \/ ScheduledEngagement
           \/ ReplayMotion \/ UNCHANGED targetVars
  BY <1>4 DEF ReadStatus, Update, Release, PlantMoves, UnsafeDatagram, Disengage,
              ScheduledEngagement, ReplayMotion, targetVars
<1> QED BY <1>1, <1>2, <1>3, <1>4 DEF TargetNext

\* Theorem: an accepted target is one bounded step within limits and margin,
\* a refused tick leaves no trace, and only a measured contact raises
\* (evaluate, the recovery loop), for every limit, arm range and retry count.
THEOREM TargetsCorrect == TargetSpec => OnlyVettedTargets
<1>1. TargetInv => TargetTypeOK /\ RaisesOnlyInContact /\ MarginNeverWorsened
  BY InvariantGives
<1>2. TargetInv /\ [TargetNext]_targetVars =>
        [out'.kind = "target" /\ moment' # 0 /\ gen'.at = moment' /\ gen.at # moment' =>
           Abs(gen'.safe - before'.safe) <= MaxJointJump + SeedStep]_targetVars
  BY BoundedStep
<1>3. TargetInv /\ [TargetNext]_targetVars =>
        [Finished /\ out'.kind # "target" => Accepting(gen') = Accepting(before)]_targetVars
  BY FinishedByEvaluation, EvaluateTickFacts DEF Finished
<1> QED BY <1>1, <1>2, <1>3, TargetInvariance, PTL
        DEF TargetSpec, OnlyVettedTargets, AcceptedStepBounded, RefusedLeavesNoTrace

\* Theorem: an engagement starts at the measured arm, its reference ends with
\* it, and a singular state that is not left is stopped, for all three kinds of
\* session.
THEOREM FollowsCorrect == TargetSpec => FollowsMeasuredArm
<1>1. TargetInv => ReferenceOnlyWhileEngaged
  BY InvariantGives
<1>2. TargetInv /\ [TargetNext]_targetVars =>
        [clutch # "Engaged" /\ clutch' = "Engaged" /\ tick'.pc # "raised" =>
           gen'.origin = IF path = "robot" THEN status ELSE plant]_targetVars
  BY EngagedStep
<1>3. TargetInv /\ [TargetNext]_targetVars =>
        [Finished /\ ~ tick'.late /\ tick'.pushed
         /\ HardSingularity(before.safe) /\ before.safe \in SafeLow..SafeHigh =>
           \/ out'.kind = "stop"
           \/ out'.kind = "target" /\ SingularityRisk(out'.q) < SingularityRisk(before.safe)]_targetVars
  BY FinishedByEvaluation, EvaluateTickFacts DEF Finished
<1> QED BY <1>1, <1>2, <1>3, TargetInvariance, PTL
        DEF TargetSpec, FollowsMeasuredArm, EngagedFromMeasured, SingularStateStops
=============================================================================
