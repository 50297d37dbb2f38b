------------------------------- MODULE MCDirect -------------------------------
(***************************************************************************)
(* The parts of the direct executor that work while one program is stopped,  *)
(* the memory pager, its telemetry ring and the paths, side by side: they    *)
(* share no state, so in a behaviour only one of them moves, and the states  *)
(* to check are the sum of the three and not the product.                    *)
(***************************************************************************)
EXTENDS DirectPager, DirectPaths, TLC

VARIABLE part
mcvars == <<pvars, fvars, part>>

Req(f, l, fl, fi, p) == [fixed |-> f, len |-> l, flags |-> fl, file |-> fi, prot |-> p]
AnonPrivate == {"anonymous", "private"}
MCRequests == {Req(FALSE, l, AnonPrivate, FALSE, {"r", "w"}) : l \in {1, 3}} \cup {Req(FALSE, 1, {"anonymous"}, FALSE, {"r", "w"})}
(* Bound: one row of the table has more than one page. *)
OneIsLong == Cardinality({s \in Slots : reg[s].len > 1}) <= 1
BaseSymmetry == Permutations(Bases)

(* An image with a link that leads up and out, absolute links to a file, to   *)
(* a directory and below a directory whose name begins like a bind's, a       *)
(* script, and one bind below another.                                       *)
MCRoot == <<"d", "r">>
MCBinds == <<[host |-> <<"d", "w">>, guest |-> <<"v">>], [host |-> <<"d", "y">>, guest |-> <<"v", "n">>]>>
Below(s) == MCRoot \o s
MCTree ==
    LET dirs == {<<>>, <<"d">>, MCRoot, Below(<<"a">>), Below(<<"v">>), Below(<<"vx">>),
                 <<"d", "w">>, <<"d", "y">>, <<"d", "w", "n">>}
        links == Below(<<"l">>) :> Link(Abs(<<"a">>)) @@ Below(<<"a", "j">>) :> Link(Abs(<<"vx", "f">>))
                 @@ Below(<<"k">>) :> Link(Rel(<<"..", "o">>)) @@ Below(<<"q">>) :> Link(Abs(<<"f">>))
        scripts == Below(<<"a", "s">>) :> Script(<<"l", "f">>)
        files == {<<"d", "f">>, <<"d", "o">>, Below(<<"f">>), Below(<<"a", "f">>), Below(<<"vx", "f">>),
                  Below(<<"v", "f">>), <<"d", "w", "f">>, <<"d", "y", "f">>, <<"d", "w", "n", "f">>}
    IN links @@ scripts @@ [h \in dirs |-> Dir] @@ [h \in files |-> File(1)]
Names == {"a", "f", "l", "v", "vx", "n", "k", "q", "j", "s", "..", "zz"}
Deeper == {<<"v", "n", "f">>, <<"v", "n", "..">>, <<"l", "..", "a">>, <<"a", "j", "f">>, <<"v", "..", "..">>,
           <<"..", "..", "f">>, <<"l", "zz", "..">>, <<"v", "n", "zz">>}
Segs == UNION {[1..n -> Names] : n \in 0..2} \cup Deeper
MCGuestPaths == [abs : BOOLEAN, seg : Segs] \ {Rel(<<>>)}
(* Hard links to new names, over an existing file, over a status-old, and of   *)
(* a status-old to itself.                                                   *)
MCLinkPairs == {<<Abs(<<"l", "f">>), Abs(<<"v", "zz">>)>>, <<Abs(<<"v", "n", "f">>), Rel(<<"zz">>)>>,
                <<Abs(<<"a", "s">>), Abs(<<"f">>)>>, <<Abs(<<"f">>), Abs(<<"vx", "f">>)>>,
                <<Abs(<<"vx", "f">>), Abs(<<"vx", "f">>)>>}
MCReplaced == {Below(<<"vx", "f">>)}

MCNext == \/ part = "memory" /\ PagerNext /\ OneIsLong' /\ UNCHANGED <<fvars, part>>
          \/ part = "ring" /\ RingNext /\ UNCHANGED <<fvars, part>>
          \/ part = "paths" /\ FilesNext /\ UNCHANGED <<pvars, part>>
MCInit == PagerInit /\ FilesInit /\ part \in {"memory", "ring", "paths"}
Spec == MCInit /\ [][MCNext]_mcvars

(* The properties of the paths, looked at where the paths move: each is the   *)
(* one of DirectPaths by that name.                                          *)
PathsLead     == part = "paths" => OpensWhatTheGuestSees
ProgramsStart == part = "paths" => StartsWhatTheGuestSees
CopiesAreMade == part = "paths" => CopiesAreWhole
=============================================================================
