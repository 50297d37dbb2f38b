---------------------------- MODULE MCEventStream ----------------------------
(* Small instances of EventStream: c1 filters by kind, any other client takes everything. *)
EXTENDS EventStream

MCWanted == [c \in Clients |-> IF c = "c1" THEN {"a"} ELSE Kinds]
==============================================================================
