---------------------------- MODULE FlecsForkJoin ----------------------------
(***************************************************************************)
(* What the pipeline's worker threads promise: an operation of the pipeline  *)
(* is taken up by a set of stages, each of them runs its share once, and the *)
(* results are merged when all have, and not before.                         *)
(***************************************************************************)
CONSTANT StageIds

VARIABLES
    members,    \* the stages the current operation was given to; none between operations
    ran         \* those of them that have run their share

forkJoinVars == <<members, ran>>

FJInit == members = {} /\ ran = {}

Fork ==
    /\ members = {}
    /\ members' \in (SUBSET StageIds) \ {{}}
    /\ UNCHANGED ran

RunShare ==
    /\ \E s \in members \ ran : ran' = ran \cup {s}
    /\ UNCHANGED members

Merge ==
    /\ members # {} /\ ran = members
    /\ members' = {} /\ ran' = {}

FJSpec == FJInit /\ [][Fork \/ RunShare \/ Merge]_forkJoinVars
=============================================================================
