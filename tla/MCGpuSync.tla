----------------------------- MODULE MCGpuSync -----------------------------
(* One application with two threads, a fence, a timeline, a binary semaphore  *)
(* and an event, and submissions that mix frames, copies, dispatches, event   *)
(* commands, barriers, waits and signals.                                     *)
EXTENDS GpuSync

CONSTANTS t1, t2, f1, s1, s2, b1, e1

MCThreads == {t1, t2}
MCOrders  == {<<f1, s1, b1>>, <<s1, f1>>, <<s1, s2, b1>>, <<s1, b1>>, <<e1>>}
MCSlots   == [fence |-> 1, sem |-> 2, event |-> 1]

Info1(waits, bufs, signals) == [waits |-> waits, bufs |-> bufs, signals |-> signals]
Call(api, fence, submits) == [api |-> api, fence |-> fence, submits |-> submits]

\* Frames and compute work ordered by a timeline and a binary semaphore
OrderedCalls == {
    Call("legacy", f1, <<Info1(<<>>, <<<<"bind", "draw">>>>, <<<<s1, 1>>>>)>>),
    Call("legacy", f1, <<Info1(<<<<s1, 1>>>>, <<<<"copy", "dispatch">>>>, <<<<b1, 1>>>>)>>),
    Call("legacy", None, <<Info1(<<<<b1, 1>>>>, <<<<"bind", "draw", "copy", "draw">>, <<"draw">>>>,
                                 <<<<s1, 2>>>>)>>),
    Call("legacy", f1, <<Info1(<<>>, <<<<"draw">>>>, <<>>),
                         Info1(<<>>, <<<<"copy", "dispatch">>>>, <<>>)>>) }

\* A binary semaphore between two frames, or between a frame and a dispatch
BinaryCalls == {
    Call("legacy", None, <<Info1(<<>>, <<<<"draw">>>>, <<<<b1, 1>>>>)>>),
    Call("legacy", None, <<Info1(<<<<b1, 1>>>>, <<<<"draw">>, <<"draw">>>>, <<<<s1, 2>>>>)>>),
    Call("legacy", None, <<Info1(<<<<b1, 1>>>>, <<<<"dispatch">>>>, <<>>)>>) }

\* Several frames, work around them, faults
FaultyCalls == {
    Call("submit2", f1, <<Info1(<<>>, <<<<"draw", "barrier">>, <<"draw">>>>, <<>>)>>),
    Call("submit2", f1, <<Info1(<<>>, <<<<"draw">>, <<"copy">>>>, <<>>),
                          Info1(<<<<s1, 1>>>>, <<<<"draw">>>>, <<<<s1, 2>>>>)>>),
    \* work after the frame: refused with a fence, executed without one
    Call("legacy", f1, <<Info1(<<>>, <<<<"draw", "barrier", "copy">>>>, <<>>)>>),
    Call("legacy", None, <<Info1(<<>>, <<<<"copy", "bind", "draw", "barrier", "copy">>>>,
                                 <<>>)>>),
    \* refused: a copy right after the last record of the pass
    Call("legacy", None, <<Info1(<<>>, <<<<"draw", "bind", "copy">>>>, <<>>)>>) }

\* Two timelines and a wait for any of them
AnyCalls == {
    Call("legacy", None, <<Info1(<<>>, <<<<"draw">>>>, <<<<s1, 1>>>>)>>),
    Call("legacy", None, <<Info1(<<<<s2, 1>>>>, <<<<"dispatch">>>>, <<<<s1, 2>>>>)>>) }

EventCalls == {
    Call("submit2", None, <<Info1(<<>>, <<<<"set", "dispatch">>>>, <<>>)>>),
    Call("submit2", None, <<Info1(<<>>, <<<<"await", "copy", "reset">>>>, <<>>)>>) }

\* A frame that waits for what only the ICD's copy has: it times out and is left
\* on the device until the host signals the semaphore.
LeftCalls == {
    Call("legacy", None, <<Info1(<<>>, <<<<"dispatch">>>>, <<<<s1, 1>>>>)>>),
    Call("legacy", f1, <<Info1(<<<<s1, 1>>>>, <<<<"draw">>>>, <<<<s1, 2>>>>)>>) }

MCCalls == OrderedCalls \cup BinaryCalls \cup FaultyCalls \cup AnyCalls \cup EventCalls \cup LeftCalls

\* Each scene puts some of the objects and calls on stage.
VARIABLE scene
Scenes   == {"ordered", "binary", "faulty", "any", "event", "left"}
Cast     == [ordered |-> {f1, s1, b1}, binary |-> {s1, b1}, faulty |-> {f1, s1},
             any |-> {s1, s2, b1}, event |-> {e1, s1}, left |-> {f1, s1}]
CallsOf  == [ordered |-> OrderedCalls, binary |-> BinaryCalls, faulty |-> FaultyCalls,
             any |-> AnyCalls, event |-> EventCalls, left |-> LeftCalls]

IdsOn    == [ordered |-> 3, binary |-> 2, faulty |-> 2, any |-> 3, event |-> 2, left |-> 2]

OnStage ==
    /\ \A o \in Objects : Live(o) => o \in Cast[scene]
    /\ \A t \in Threads : run[t].kind = "submit" => run[t].call \in CallsOf[scene]
    /\ generation <= IdsOn[scene]
    /\ crashes + restarts > 0 => scene \in {"faulty", "event"}
    /\ Len(device) <= 1

MCInit == Init /\ scene \in Scenes
MCNext == Next /\ UNCHANGED scene /\ OnStage'
MCSpec == MCInit /\ [][MCNext]_<<vars, scene>>
Symmetric == Permutations({t1, t2})
============================================================================
