--------------------------- MODULE MCFlecsCommands ---------------------------
EXTENDS FlecsCommands, TLC

CONSTANTS Parent, Child, Position, ChildOf, Likes, v1, v2

\* Observers that set a component when a pair goes, delete another entity, and
\* remove a component that was set: one may call the other, also in the middle of
\* an ecs_delete.
MCReactions == {
    [on |-> "OnRemove", id |-> [rel |-> Likes, target |-> Parent], target |-> Self, op |-> "Set", operand |-> Position, value |-> Default],
    [on |-> "OnAdd", id |-> Position, target |-> Parent, op |-> "Delete", operand |-> NoId, value |-> Default],
    [on |-> "OnSet", id |-> Position, target |-> Self, op |-> "Remove", operand |-> Position, value |-> Default]}

\* An observer that deletes the entity whose component goes
MCDeletions == {
    [on |-> "OnRemove", id |-> Position, target |-> Self, op |-> "Delete", operand |-> NoId, value |-> Default]}

\* Game code's values; none is expected of what observers set.
MCSymmetry == Permutations(Values)
=============================================================================
