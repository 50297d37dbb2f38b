----------------------------- MODULE MCImageStore -----------------------------
(* Small instances of ImageStore. *)
EXTENDS ImageStore, TLC

CONSTANTS w1, w2, w3, l1, l2

(* One image, of all the layers. *)
AnyOffer   == [w \in Workers |-> {Layers}]
Symmetry   == Permutations(Workers)
===============================================================================
