---------------------------- MODULE MCCowOverlay ----------------------------
(* Two processes that copy up in one container; one alone in its container, *)
(* which also renames, beside one of another container; and two containers  *)
(* whose descriptors for reading are changed, without and with the tracking *)
(* of such descriptors.                                                     *)
EXTENDS CowOverlay, TLC

CONSTANTS p1, p2, c1, c2

Load(c, ops, max, track) == [home |-> c, ops |-> ops, max |-> max, track |-> track]

Together == [p \in {p1, p2} |->
    IF p = p1 THEN Load(c1, {"open", "fchmod", "write", "close", "syscall"}, 2, TRUE)
    ELSE Load(c1, {"opentrunc", "openread", "chmod", "truncate", "truncate0"}, 2, TRUE)]

Apart == [p \in {p1, p2} |->
    IF p = p1 THEN Load(c1, {"open", "rename", "fchmod", "ftruncate0", "write", "fclose", "dup", "dup2"}, 3, FALSE)
    ELSE Load(c2, {"truncate0"}, 1, FALSE)]

Reading == {"openread", "fchmod", "ftruncate", "ftruncate0", "syscall", "dup2self"}
Default == [p \in {p1, p2} |->
    IF p = p1 THEN Load(c1, Reading, 3, FALSE) ELSE Load(c2, {"fopen", "openexcl", "truncate", "write", "dup"}, 2, FALSE)]
Strict == [p \in {p1, p2} |->
    IF p = p1 THEN Load(c1, Reading \ {"syscall"}, 3, TRUE) ELSE Load(c1, {"truncate", "truncate0"}, 1, TRUE)]

MCLoads == {Together, Apart, Default, Strict}

Symmetry == Permutations(Spare)
=============================================================================
