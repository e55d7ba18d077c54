---------------------------- MODULE FlecsEntities ----------------------------
(***************************************************************************)
(* What the entity index promises: an id has at most one living entity, and  *)
(* a new entity is none that was alive before, so that a handle that was     *)
(* kept never comes to name another entity.  The second holds until          *)
(* generations are forced: chosen by the application (ecs_make_alive,        *)
(* ecs_set_version) or started over after the last.                          *)
(***************************************************************************)
CONSTANT Entity     \* records with an id and a generation

VARIABLES
    living,
    dead,       \* entities that were alive
    forced

entitiesVars == <<living, dead, forced>>

OnePerId(S) == \A e, f \in S : e.id = f.id => e = f

FEInit == living = {} /\ dead = {} /\ forced = FALSE

Create ==
    /\ living' \in SUBSET Entity
    /\ living \subseteq living'
    /\ OnePerId(living')
    /\ ~forced => (living' \ living) \cap dead = {}
    /\ UNCHANGED <<dead, forced>>

Revive ==
    /\ \E e \in Entity : living' = living \cup {e}
    /\ OnePerId(living')
    /\ forced' = TRUE
    /\ UNCHANGED dead

Destroy ==
    /\ \E e \in living : living' = living \ {e} /\ dead' = dead \cup {e}
    /\ forced => forced'

ChangeVersion ==
    /\ \E e \in living, f \in Entity :
          /\ f.id = e.id
          /\ living' = (living \ {e}) \cup {f}
          /\ dead' = dead \cup ({e} \ {f})
    /\ forced' = TRUE

\* The generation that the next entity with an id will have
ChooseVersion == forced' = TRUE /\ UNCHANGED <<living, dead>>

FESpec == FEInit /\ [][Create \/ Revive \/ Destroy \/ ChangeVersion \/ ChooseVersion]_entitiesVars
=============================================================================
