---------------------------- MODULE EpisodeStore ----------------------------
(***************************************************************************)
(* What the episode writers promise to whoever reads the dataset: an       *)
(* episode appears in one step, as a whole, never changes and never goes   *)
(* away, and the index names only episodes that have appeared.             *)
(***************************************************************************)
EXTENDS Naturals

CONSTANTS Episodes, Roles, MaxRows

VARIABLES
    published,      \* episode -> its content, once it can be seen
    indexed         \* the episodes named in the index, or being named

NoEpisode == [status |-> "none", rows |-> 0, frames |-> [r \in Roles |-> 0]]

\* A completed episode has rows and as many frames of each camera; an aborted or
\* invalid one may have stopped anywhere.
Whole(s) == s.status = "COMPLETED" => s.rows > 0 /\ \A r \in Roles : s.frames[r] = s.rows
Episode == {s \in [status : {"COMPLETED", "ABORTED", "INVALID"}, rows : 0 .. MaxRows,
                   frames : [Roles -> 0 .. MaxRows]] : Whole(s)}

Init == published = [e \in Episodes |-> NoEpisode] /\ indexed = {}

Publish(e) ==
    /\ published[e] = NoEpisode /\ published'[e] \in Episode
    /\ published' = [published EXCEPT ![e] = published'[e]]
    /\ UNCHANGED indexed

Index(e) ==
    /\ published[e] # NoEpisode /\ e \notin indexed
    /\ indexed' = indexed \cup {e} /\ UNCHANGED published

Next == \E e \in Episodes : Publish(e) \/ Index(e)
Spec == Init /\ [][Next]_<<published, indexed>>
=============================================================================
