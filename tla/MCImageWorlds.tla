----------------------------- MODULE MCImageWorlds -----------------------------
(* Three small worlds checked side by side, a behaviour staying in one: pulls   *)
(* and prunes of one image ("safe"), requests of every kind ("every"), and      *)
(* pulls of which no two at work share a layer ("apart").                       *)
(* A behaviour of the first and the last ends when it becomes exempt, and only  *)
(* the last has merges that skip files: no property of the others looks at it.  *)
EXTENDS MCImageStore

VARIABLE world

OneOffer == [w \in Workers |-> {{l1}, {l2}}]
NoSkips == \A x \in Name : dirs[x] # None => dirs[x].root # "lossy"

Inside ==
    \/ /\ world = "safe" /\ kept # "exempt" /\ NoSkips
       /\ \A t \in Workers : th[t].want \subseteq {l1} /\ th[t].op \in {"none", "pull", "prune"}
    \/ /\ world = "every" /\ NoSkips
       /\ \A t \in Workers : th[t].want \subseteq {l1}
    \/ /\ world = "apart" /\ kept # "exempt"
       /\ \A t \in Workers : th[t].op \in {"none", "pull"}
       /\ \A t, u \in Workers : t # u => th[t].want \cap th[u].want = {}

WorldsInit == Init /\ world \in {"safe", "every", "apart"}
WorldsNext == Next /\ UNCHANGED world /\ Inside'
WorldsSpec == WorldsInit /\ [][WorldsNext]_<<vars, world>>

(* VisibleIsWhole holds of pulls that share no layer, unless a crash met a      *)
(* half deleted backup (Restart); images_race shows two that do.                *)
ApartIsWhole == world = "apart" => VisibleIsWhole
===============================================================================
