----------------------- MODULE FlecsReplicatedEntities -----------------------
(***************************************************************************)
(* What the receiving side of the protocol promises, whatever the order in   *)
(* which the shards deliver their records: for each identity the newest      *)
(* record wins, and an entity that was removed comes back only by a record   *)
(* newer than its removal.                                                   *)
(***************************************************************************)
EXTENDS Naturals

CONSTANTS
    NetworkIds,
    Revisions   \* the revisions records may carry, positive numbers

VARIABLES
    revision,  \* the revision of the record that decided each identity's state
    present    \* whether the entity exists

Init ==
    /\ revision = [id \in NetworkIds |-> 0]
    /\ present = [id \in NetworkIds |-> FALSE]

\* A snapshot counts only if it is newer than everything before it.
Show(id, r) ==
    /\ r > revision[id]
    /\ revision' = [revision EXCEPT ![id] = r]
    /\ present' = [present EXCEPT ![id] = TRUE]

\* A removal also ends the entity at its own revision.
Hide(id, r) ==
    /\ r >= revision[id]
    /\ revision' = [revision EXCEPT ![id] = r]
    /\ present' = [present EXCEPT ![id] = FALSE]

Next == \E id \in NetworkIds, r \in Revisions : Show(id, r) \/ Hide(id, r)

Spec == Init /\ [][Next]_<<revision, present>>
=============================================================================
