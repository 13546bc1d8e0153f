--------------------------- MODULE TemporalEnsemble ---------------------------
(***************************************************************************)
(* AbsoluteTimeTemporalEnsembler (embodiment_core/act_temporal_executor.py): *)
(* the predicted points waiting for their command tick.  A point is          *)
(* [id, q, end, t]: query, tick the query was made for, time it ended, tick  *)
(* the point is for.  The values predicted, and their weights, are left out. *)
(***************************************************************************)
EXTENDS Integers, FiniteSets, FiniteSetsExt

CONSTANTS
    MaxSourceHorizon,       \* the last step of a chunk that is used
    MaxPredictionAge,       \* in ticks
    Capacity                \* of the buffer, in points

ASSUME EnsembleAssumption ==
    MaxSourceHorizon \in Nat /\ MaxPredictionAge \in Nat /\ Capacity \in Nat \ {0}

NoPoint == [id |-> 0, q |-> 0, end |-> 0, t |-> 0]
NewEnsemble == [points |-> {}, last |-> NoPoint]

\* Points of one tick are in the order of their queries.
Before(x, y) == x.t < y.t \/ (x.t = y.t /\ x.id < y.id)

\* Mutant: the contributors are read from the wrong end.
OlderQuery_Reversed(x, y) == x.q > y.q \/ (x.q = y.q /\ x.id > y.id)

\* Contributors are in the order of the ticks they were asked for.
OlderQuery(x, y) == x.q < y.q \/ (x.q = y.q /\ x.id < y.id)

\* A full buffer gives up the oldest query of the next tick, again and again.
TrimCapacity(points) ==
    {x \in points : Cardinality({y \in points : Before(x, y)}) < Capacity}

ChunkPoints(p) ==
    {[id |-> p.id, q |-> p.q, end |-> p.end, t |-> p.q + h] : h \in 0 .. MaxSourceHorizon}

\* Chunks are added one by one, with a trim after each; one trim after the last
\* keeps the same points, as it is always the first ones in order that go.
AddPredictions(e, chunks) == [e EXCEPT !.points = TrimCapacity(@ \cup UNION {ChunkPoints(p) : p \in chunks})]
AddPrediction(e, p) == AddPredictions(e, {p})

Expire(points, tick) == {x \in points : x.t >= tick}

\* The buffer after the selection, and what was selected: the newest of the
\* candidates, or the last action, held however old it is.
Select(e, tick) ==
    LET live == Expire(e.points, tick)
        candidates == {x \in live : x.t = tick /\ tick - x.q <= MaxPredictionAge}
        newest == CHOOSE x \in candidates : \A y \in candidates : y = x \/ OlderQuery(y, x)
        action == IF candidates = {} THEN e.last ELSE newest
    IN [buffer |-> [points |-> {x \in live : x.t # tick}, last |-> action],
        kind |-> IF candidates # {} THEN "policy" ELSE IF action = NoPoint THEN "none" ELSE "held",
        point |-> action]
=============================================================================
