------------------------- MODULE MCContainerLifecycle -------------------------
(* Small instances of ContainerLifecycle. *)
EXTENDS ContainerLifecycle, TLC

Symmetry == Permutations(Callers) \cup Permutations(Pids)

Active == {t \in Callers : th[t] # Idle}
Foreign == {b \in Births : proc[b].kind = "foreign"}

(* Two clients at once on a device of the container's own, or one at a time     *)
(* with a daemon crash and other programs that take freed pids.                *)
Small ==
    \/ /\ crashes = 0 /\ Foreign = {}
       /\ \A t \in Callers : th[t].op \notin {"rm", "prune"}
    \/ Cardinality(Active) <= 1
===============================================================================
