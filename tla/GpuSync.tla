------------------------------ MODULE GpuSync ------------------------------
(***************************************************************************)
(* Fences, semaphores, events and queue submission of the Vulkan bridge:   *)
(* the ICD inside the container (pdocker_vulkan_icd.c) and the executor of *)
(* the app (pdocker_gpu_executor.c), which exchange one command per socket *)
(* connection.                                                             *)
(*                                                                         *)
(* The ICD keeps a local copy of every object and a per-process counter of *)
(* ids; the executor keeps registries keyed by that id alone.  It serves   *)
(* one connection at a time, so an exchange is one step, and a wait        *)
(* without a timeout holds it (`busy').  vkQueueSubmit is a program of     *)
(* steps (`prog'): checks on the local copies, host-side operations,       *)
(* dispatches and graphics frames, between which the other threads move.   *)
(* Only a graphics frame carries waits, signals and a fence to the         *)
(* executor.                                                               *)
(***************************************************************************)
EXTENDS Naturals, Sequences, FiniteSets, SequencesExt

CONSTANTS Threads,               \* the application's threads
          Fences, Timelines, Binaries, Events,     \* its objects
          Calls,                 \* the queue submissions it may make
          SlotCount,             \* kind -> slots of that registry of the executor
          MaxValue,              \* bound on the values of a timeline
          MaxId,                 \* bound on the id counter
          MaxRestarts,           \* executor restarts
          MaxCrashes,            \* deaths of the application
          Orders,                \* sequences in which it creates its objects
          None

Objects == Fences \cup Timelines \cup Binaries \cup Events
Sems    == Timelines \cup Binaries
Dead    == [id |-> 0, signaled |-> FALSE, value |-> 0]
Idle    == [kind |-> "idle"]
Free    == [kind |-> "free"]

ASSUME SlotAssumption == SlotCount \in [{"fence", "sem", "event"} -> Nat \ {0}]

ASSUME BoundAssumption == {MaxValue, MaxId, MaxRestarts, MaxCrashes} \subseteq Nat

\* The sets of names do not overlap (an event may stay uncreated).
ASSUME NameAssumption ==
    /\ Fences \cap Sems = {} /\ Fences \cap Events = {} /\ Sems \cap Events = {}
    /\ Timelines \cap Binaries = {}
    /\ None \notin Objects \cup Threads /\ Events # {}

VARIABLES obj,         \* the ICD's copy of each object
          generation,  \* the process's id counter
          fenceReg,    \* executor: fence id -> payload
          semReg,      \* executor: semaphore id -> [timeline, count, last]
          eventReg,    \* executor: event id -> payload
          device,      \* frames a timeout left on the device's queue
          busy,        \* the endless wait that holds the executor, or Free
          run,         \* thread -> the call it is in
          restarts, crashes,
          truth,       \* history: what was really signaled
          tainted,     \* history: objects whose id or value is not their own
          promised     \* history: how the fence's last submission completed

vars == <<obj, generation, fenceReg, semReg, eventReg, device, busy, run,
          restarts, crashes, truth, tainted, promised>>

----------------------------------------------------------------------------
\* Recorded command buffers: a sequence of items, each a command op, a
\* graphics record, or both.

OpKinds        == {"draw", "barrier", "copy", "set", "reset", "await", "dispatch"}
RecordKinds    == {"draw", "barrier", "bind"}
FrameKinds     == {"draw", "barrier"}                  \* is_graphics_frame_op
HostKinds      == {"copy", "barrier", "set", "reset", "await"}
TransferKinds  == {"copy"}                             \* interleavable_transfer

Graphics(b)    == \E n \in DOMAIN b : b[n] \in RecordKinds
HasWork(b)     == b # <<>>

\* The members of a set of positions, in their order
InOrder(P)     == [k \in 1..Cardinality(P) |->
                     CHOOSE n \in P : Cardinality({m \in P : m < n}) = k - 1]
OpPlaces(b)    == {n \in DOMAIN b : b[n] \in OpKinds}
OpsOf(b)       == [k \in 1..Cardinality(OpPlaces(b)) |-> b[InOrder(OpPlaces(b))[k]]]

\* A record's sequence number is the index of the next command op.
OpIndex(b, n)  == 1 + Cardinality({m \in OpPlaces(b) : m < n})
RecordSeqs(b)  == {OpIndex(b, n) : n \in {m \in DOMAIN b : b[m] \in RecordKinds}}
FirstGpu(b)    == CHOOSE s \in RecordSeqs(b) : \A u \in RecordSeqs(b) : s <= u
LastGpu(b)     == CHOOSE s \in RecordSeqs(b) : \A u \in RecordSeqs(b) : s >= u
Draws(b)       == {k \in DOMAIN OpsOf(b) : OpsOf(b)[k] = "draw"}
BetweenDraws(b, k) == (\E d \in Draws(b) : d < k) /\ (\E d \in Draws(b) : k < d)

\* Mutant: a transfer between the first and the last graphics record is taken.
MixedPlanLoose(b) ==
    \A k \in DOMAIN OpsOf(b) :
        \/ OpsOf(b)[k] \in FrameKinds
        \/ OpsOf(b)[k] \in HostKinds

\* Whether a buffer with graphics records can be replayed: every other op is a
\* host-side one, outside the frame unless it is a transfer between two draws.
MixedPlan(b) ==
    \A k \in DOMAIN OpsOf(b) :
        \/ OpsOf(b)[k] \in FrameKinds
        \/ /\ OpsOf(b)[k] \in HostKinds
           /\ (k >= FirstGpu(b) /\ k <= LastGpu(b)) =>
                 BetweenDraws(b, k) /\ OpsOf(b)[k] \in TransferKinds

HostBefore(b)  == {k \in DOMAIN OpsOf(b) : OpsOf(b)[k] \in HostKinds /\ k < FirstGpu(b)}
HostAfter(b)   == {k \in DOMAIN OpsOf(b) : OpsOf(b)[k] \in HostKinds /\ k > LastGpu(b)}

\* The commands of the frame: what has a record, and the transfers between
\* draws, which the builder appends before the record they precede.
FrameOps(b) ==
    LET inFrame == {k \in DOMAIN OpsOf(b) :
                       \/ OpsOf(b)[k] \in FrameKinds
                       \/ OpsOf(b)[k] \in TransferKinds /\ BetweenDraws(b, k)}
    IN  [k \in 1..Cardinality(inFrame) |-> OpsOf(b)[InOrder(inFrame)[k]]]

----------------------------------------------------------------------------
\* What a submission sends where

Submits(c)        == c.submits
GraphicsBufs(s)   == {j \in DOMAIN s.bufs : Graphics(s.bufs[j])}
IsFirstFrame(s, j) == j \in GraphicsBufs(s) /\ \A m \in GraphicsBufs(s) : j <= m
IsLastFrame(s, j)  == j \in GraphicsBufs(s) /\ \A m \in GraphicsBufs(s) : j >= m

Waited(s)         == {s.waits[n][1] : n \in DOMAIN s.waits}
Signals(s)        == {s.signals[n][1] : n \in DOMAIN s.signals}

Entry(type, o, v) == [type |-> type, obj |-> o, value |-> v]

EntriesOf(type, pairs) == [n \in DOMAIN pairs |-> Entry(type, pairs[n][1], pairs[n][2])]

\* vkQueueSubmit attaches the fence to every VkSubmitInfo, vkQueueSubmit2 to
\* the last one.
WithFence(c, i) == c.fence # None /\ (c.api = "legacy" \/ i = Len(c.submits))
SyncEntries(c, i) ==
    [waits |-> EntriesOf("wait", c.submits[i].waits),
     completions |-> EntriesOf("signal", c.submits[i].signals)
                     \o IF WithFence(c, i) THEN <<Entry("fence", c.fence, 0)>> ELSE <<>>]

\* Waits go with the first graphics frame, signals and fence with the last.
FrameEntries(c, i, j) ==
    (IF IsFirstFrame(c.submits[i], j) THEN SyncEntries(c, i).waits ELSE <<>>)
    \o (IF IsLastFrame(c.submits[i], j) THEN SyncEntries(c, i).completions ELSE <<>>)

HasWait(es)       == \E n \in DOMAIN es : es[n].type = "wait"
HasCompletion(es) == \E n \in DOMAIN es : es[n].type \in {"signal", "fence"}

\* Mutant: a completion before trailing work is taken.
RefusedWithoutTrailing(c, i, j) ==
    LET s  == c.submits[i]
        b  == s.bufs[j]
        es == FrameEntries(c, i, j)
    IN  \/ ~MixedPlan(b)
        \/ HasWait(es) /\ (HostBefore(b) # {} \/ \E m \in 1..(j - 1) : HasWork(s.bufs[m]))

\* A frame is refused when its waits would come after earlier work or its
\* completion before later work of the same VkSubmitInfo.
Refused(c, i, j) ==
    LET s  == c.submits[i]
        b  == s.bufs[j]
        es == FrameEntries(c, i, j)
    IN  \/ ~MixedPlan(b)
        \/ HasWait(es) /\ (HostBefore(b) # {} \/ \E m \in 1..(j - 1) : HasWork(s.bufs[m]))
        \/ HasCompletion(es)
              /\ (HostAfter(b) # {} \/ \E m \in (j + 1)..Len(s.bufs) : HasWork(s.bufs[m]))

\* A call names objects of the right kind, and no semaphore twice in the signals
\* of one VkSubmitInfo.
Pairs == Seq(Sems \X (0..MaxValue))
ASSUME CallAssumption ==
    \A c \in Calls :
        /\ c.fence \in Fences \cup {None}
        /\ c.submits # <<>>
        /\ c.submits \in Seq([waits : Pairs, signals : Pairs,
                              bufs : Seq(Seq(OpKinds \cup RecordKinds))])
        /\ \A i \in DOMAIN c.submits : \A m, n \in DOMAIN c.submits[i].signals :
              c.submits[i].signals[m][1] = c.submits[i].signals[n][1] => m = n

Step(op, i, what) == [op |-> op, sub |-> i, what |-> what]
OpSteps(ops, i)   == [n \in DOMAIN ops |->
                        Step(IF ops[n] = "dispatch" THEN "dispatch" ELSE "host", i, ops[n])]

BufferSteps(c, i, j) ==
    LET b == c.submits[i].bufs[j]
    IN  IF ~Graphics(b) THEN OpSteps(OpsOf(b), i)
        ELSE IF Refused(c, i, j) THEN <<Step("refuse", i, None)>>
        ELSE OpSteps(SubSeq(OpsOf(b), 1, FirstGpu(b) - 1), i)
             \o <<Step("frame", i, [ops |-> FrameOps(b), entries |-> FrameEntries(c, i, j)])>>
             \o OpSteps(SubSeq(OpsOf(b), LastGpu(b) + 1, Len(OpsOf(b))), i)

\* Mutant: semaphores complete before the work.
SubmitStepsCompleteFirst(c, i) ==
    <<Step("validate", i, None), Step("complete", i, None)>>
    \o FlattenSeq([j \in DOMAIN c.submits[i].bufs |-> BufferSteps(c, i, j)])

SubmitSteps(c, i) ==
    <<Step("validate", i, None)>>
    \o FlattenSeq([j \in DOMAIN c.submits[i].bufs |-> BufferSteps(c, i, j)])
    \o <<Step("complete", i, None)>>

Program(c) == FlattenSeq([i \in DOMAIN c.submits |-> SubmitSteps(c, i)])
              \o <<Step("end", Len(c.submits), None)>>

WantedOps(s) == FlattenSeq([j \in DOMAIN s.bufs |-> OpsOf(s.bufs[j])])
WorkOps      == {"host", "dispatch", "frame"}

----------------------------------------------------------------------------
\* The executor's registries

Id(o)        == obj[o].id
Live(o)      == obj[o].id # 0
Put(f, k, v) == [x \in DOMAIN f \cup {k} |-> IF x = k THEN v ELSE f[x]]
Cut(f, k)    == [x \in DOMAIN f \ {k} |-> f[x]]
Full(f, kind) == Cardinality(DOMAIN f) >= SlotCount[kind]
NewSem(isTimeline, v) == [timeline |-> isTimeline, count |-> v, last |-> v]

FencePayload(f) == Id(f) \in DOMAIN fenceReg /\ fenceReg[Id(f)]
SemCount(s)     == IF Id(s) \in DOMAIN semReg THEN semReg[Id(s)].count ELSE 0

Init ==
    /\ obj = [o \in Objects |-> Dead]
    /\ generation = 0
    /\ fenceReg = <<>> /\ semReg = <<>> /\ eventReg = <<>>
    /\ device = <<>>
    /\ busy = Free
    /\ run = [t \in Threads |-> Idle]
    /\ restarts = 0 /\ crashes = 0
    /\ truth = [o \in Sems \cup Events |-> 0]
    /\ tainted = {}
    /\ promised = [f \in Fences |-> "no"]

Serving == busy = Free
Ready(t) == run[t] = Idle /\ Serving
NextToCreate(o) ==
    /\ ~Live(o) /\ generation < MaxId
    /\ \E q \in Orders : \E n \in DOMAIN q : q[n] = o /\ \A m \in 1..(n - 1) : Live(q[m])

\* An object some running call refers to: valid use leaves it alone.
UsedBy(c) == {c.fence} \cup UNION {Waited(s) \cup Signals(s) : s \in ToSet(c.submits)}
InUse(o)  == \/ \E t \in Threads : run[t].kind = "submit" /\ o \in UsedBy(run[t].call)
             \/ \E t \in Threads : run[t].kind \in {"wait", "poll"} /\ o \in run[t].objs

Quiet == UNCHANGED <<device, restarts, crashes>>

----------------------------------------------------------------------------
\* Creating and destroying

\* vkCreateFence.  An id the executor already has (a process that died without
\* destroying it) keeps its payload.
CreateFence(t, f, initial) ==
    /\ Ready(t) /\ NextToCreate(f)
    /\ LET id == generation + 1
           known == id \in DOMAIN fenceReg
       IN /\ generation' = id
          /\ \/ /\ ~known /\ Full(fenceReg, "fence")
                /\ UNCHANGED <<obj, fenceReg, tainted, promised>>
             \/ /\ known \/ ~Full(fenceReg, "fence")
                /\ fenceReg' = IF known THEN fenceReg ELSE Put(fenceReg, id, initial)
                /\ obj' = [obj EXCEPT ![f] = [id |-> id, signaled |-> initial, value |-> 0]]
                /\ tainted' = IF known THEN tainted \cup {f} ELSE tainted \ {f}
                /\ promised' = [promised EXCEPT ![f] = "no"]
    /\ UNCHANGED <<semReg, eventReg, busy, run, truth>> /\ Quiet

\* vkCreateSemaphore: an existing id answers with the value it has there.
CreateSem(t, s, initial) ==
    /\ Ready(t) /\ NextToCreate(s)
    /\ s \in Binaries => initial = 0
    /\ LET id == generation + 1
           known == id \in DOMAIN semReg
           isT == s \in Timelines
       IN /\ generation' = id
          /\ \/ /\ IF known THEN semReg[id].timeline # isT ELSE Full(semReg, "sem")
                /\ UNCHANGED <<obj, semReg, tainted, truth>>
             \/ /\ IF known THEN semReg[id].timeline = isT ELSE ~Full(semReg, "sem")
                /\ semReg' = IF known THEN semReg ELSE Put(semReg, id, NewSem(isT, initial))
                /\ obj' = [obj EXCEPT ![s] =
                     [id |-> id,
                      signaled |-> FALSE,
                      value |-> IF isT THEN semReg'[id].last ELSE 0]]
                /\ tainted' = IF known THEN tainted \cup {s} ELSE tainted \ {s}
                /\ truth' = [truth EXCEPT ![s] = initial]
    /\ UNCHANGED <<fenceReg, eventReg, busy, run, promised>> /\ Quiet

\* vkCreateEvent
CreateEvent(t, e) ==
    /\ Ready(t) /\ NextToCreate(e)
    /\ LET id == generation + 1
           known == id \in DOMAIN eventReg
       IN /\ generation' = id
          /\ \/ /\ ~known /\ Full(eventReg, "event")
                /\ UNCHANGED <<obj, eventReg, tainted, truth>>
             \/ /\ known \/ ~Full(eventReg, "event")
                /\ eventReg' = IF known THEN eventReg ELSE Put(eventReg, id, FALSE)
                /\ obj' = [obj EXCEPT ![e] = [id |-> id, signaled |-> eventReg'[id], value |-> 0]]
                /\ tainted' = IF known THEN tainted \cup {e} ELSE tainted \ {e}
                /\ truth' = [truth EXCEPT ![e] = 0]
    /\ UNCHANGED <<fenceReg, semReg, busy, run, promised>> /\ Quiet

\* Mutant: the executor keeps the entry of a destroyed object.
DestroyKeepsEntry(t, o) ==
    /\ Ready(t) /\ Live(o) /\ ~InUse(o)
    /\ obj' = [obj EXCEPT ![o] = Dead]
    /\ tainted' = tainted \ {o}
    /\ UNCHANGED <<generation, fenceReg, semReg, eventReg, busy, run, truth, promised>> /\ Quiet

\* A submission left on the device holds the handle, not the id.
Names(e, o)   == e.id = Id(o) /\ o \in IF e.type = "fence" THEN Fences ELSE Sems
Forgotten(o)  == [n \in DOMAIN device |-> [m \in DOMAIN device[n] |->
                    IF Names(device[n][m], o) THEN [device[n][m] EXCEPT !.id = 0]
                                              ELSE device[n][m]]]

\* vkDestroyFence, vkDestroySemaphore, vkDestroyEvent
Destroy(t, o) ==
    /\ Ready(t) /\ Live(o) /\ ~InUse(o)
    /\ fenceReg' = IF o \in Fences THEN Cut(fenceReg, Id(o)) ELSE fenceReg
    /\ semReg'   = IF o \in Sems   THEN Cut(semReg, Id(o))   ELSE semReg
    /\ eventReg' = IF o \in Events THEN Cut(eventReg, Id(o)) ELSE eventReg
    /\ obj' = [obj EXCEPT ![o] = Dead]
    /\ tainted' = tainted \ {o}
    /\ device' = Forgotten(o)
    /\ UNCHANGED <<generation, busy, run, restarts, crashes, truth, promised>>

----------------------------------------------------------------------------
\* Host operations on one object

\* vkResetFences: a fence the executor does not know answers device lost.
ResetFence(t, f) ==
    /\ Ready(t) /\ Live(f) /\ ~InUse(f) /\ Id(f) \in DOMAIN fenceReg
    /\ fenceReg' = Put(fenceReg, Id(f), FALSE)
    /\ obj' = [obj EXCEPT ![f].signaled = FALSE]
    /\ promised' = [promised EXCEPT ![f] = "no"]
    /\ UNCHANGED <<generation, semReg, eventReg, busy, run, truth, tainted>> /\ Quiet

\* vkGetFenceStatus copies the executor's answer.
FenceStatus(t, f) ==
    /\ Ready(t) /\ Live(f) /\ Id(f) \in DOMAIN fenceReg
    /\ obj' = [obj EXCEPT ![f].signaled = FencePayload(f)]
    /\ UNCHANGED <<generation, fenceReg, semReg, eventReg, busy, run, truth, tainted, promised>>
    /\ Quiet

\* vkGetSemaphoreCounterValue
SemCounter(t, s) ==
    /\ Ready(t) /\ Live(s) /\ s \in Timelines /\ Id(s) \in DOMAIN semReg
    /\ obj' = [obj EXCEPT ![s].value = SemCount(s)]
    /\ semReg' = [semReg EXCEPT ![Id(s)].last = SemCount(s)]
    /\ UNCHANGED <<generation, fenceReg, eventReg, busy, run, truth, tainted, promised>> /\ Quiet

\* vkSignalSemaphore
SignalSem(t, s, v) ==
    /\ Ready(t) /\ Live(s) /\ s \in Timelines /\ ~InUse(s)
    /\ Id(s) \in DOMAIN semReg /\ v > SemCount(s)
    /\ semReg' = [semReg EXCEPT ![Id(s)].count = v, ![Id(s)].last = v]
    /\ obj' = [obj EXCEPT ![s].value = v]
    /\ truth' = [truth EXCEPT ![s] = IF v > @ THEN v ELSE @]
    /\ UNCHANGED <<generation, fenceReg, eventReg, busy, run, tainted, promised>> /\ Quiet

\* vkSetEvent, vkResetEvent
WriteEvent(t, e, on) ==
    /\ Ready(t) /\ Live(e) /\ Id(e) \in DOMAIN eventReg
    /\ eventReg' = Put(eventReg, Id(e), on)
    /\ obj' = [obj EXCEPT ![e].signaled = on]
    /\ truth' = [truth EXCEPT ![e] = IF on THEN 1 ELSE 0]
    /\ UNCHANGED <<generation, fenceReg, semReg, busy, run, tainted, promised>> /\ Quiet

\* vkGetEventStatus copies the executor's answer, whatever commands did.
EventStatus(t, e) ==
    /\ Ready(t) /\ Live(e) /\ Id(e) \in DOMAIN eventReg
    /\ obj' = [obj EXCEPT ![e].signaled = eventReg[Id(e)]]
    /\ UNCHANGED <<generation, fenceReg, semReg, eventReg, busy, run, truth, tainted, promised>>
    /\ Quiet

----------------------------------------------------------------------------
\* Waiting

All(mode, S, P(_)) == IF mode = "all" THEN \A o \in S : P(o) ELSE \E o \in S : P(o)

\* vkWaitForFences on the executor's side: all the fences known and enough of
\* them signaled.  A finite wait that fails changes nothing.
Ids(S)                == {Id(o) : o \in S}
FencesKnown(S)        == Ids(S) \subseteq DOMAIN fenceReg
FencesMet(mode, ids)  == All(mode, ids, LAMBDA id : id \in DOMAIN fenceReg /\ fenceReg[id])
AfterFenceWait(S)     == [o \in Objects |->
                            IF o \in S /\ FencePayload(o)
                            THEN [obj[o] EXCEPT !.signaled = TRUE] ELSE obj[o]]
WaitRecord(kind, t, S, mode, v) ==
    [kind |-> kind, thread |-> t, objs |-> S, ids |-> Ids(S), mode |-> mode, value |-> v]

WaitFences(t, S, mode) ==
    /\ Ready(t) /\ \A f \in S : Live(f)
    /\ \/ /\ FencesKnown(S) /\ FencesMet(mode, Ids(S))
          /\ obj' = AfterFenceWait(S)
          /\ UNCHANGED <<busy, run>>
       \/ /\ FencesKnown(S) /\ ~FencesMet(mode, Ids(S))      \* no timeout
          /\ busy' = WaitRecord("fences", t, S, mode, 0)
          /\ run' = [run EXCEPT ![t] = WaitRecord("wait", t, S, mode, 0)]
          /\ UNCHANGED obj
       \/ /\ ~FencesKnown(S)
          /\ run' = [run EXCEPT ![t] = WaitRecord("poll", t, S, mode, 0)]
          /\ UNCHANGED <<obj, busy>>
    /\ UNCHANGED <<generation, fenceReg, semReg, eventReg, truth, tainted, promised>> /\ Quiet

\* The fallback of vkWaitForFences polls the local copies; it ends with them
\* or with its timeout.
PollFences(t) ==
    /\ run[t].kind = "poll"
    /\ run' = [run EXCEPT ![t] = Idle]
    /\ UNCHANGED <<obj, generation, fenceReg, semReg, eventReg, busy, truth, tainted, promised>>
    /\ Quiet

SemsMet(mode, ids, v) == All(mode, ids, LAMBDA id : id \in DOMAIN semReg /\ semReg[id].count >= v)

\* A wait that succeeded raises every waited copy to the waited value; under
\* wait-any that may be more than was reached.
AfterSemWait(S, v) == [o \in Objects |->
                         IF o \in S /\ obj[o].value < v
                         THEN [obj[o] EXCEPT !.value = v] ELSE obj[o]]
Overstated(S, v)   == {s \in S : SemCount(s) < v}
AfterSemWaitReg(ids) == [id \in DOMAIN semReg |->
                         IF id \in ids
                         THEN [semReg[id] EXCEPT !.last = semReg[id].count] ELSE semReg[id]]

\* vkWaitSemaphores
WaitSems(t, S, mode, v) ==
    /\ Ready(t) /\ \A s \in S : Live(s) /\ s \in Timelines /\ Id(s) \in DOMAIN semReg
    /\ \/ /\ SemsMet(mode, Ids(S), v)
          /\ obj' = AfterSemWait(S, v)
          /\ semReg' = AfterSemWaitReg(Ids(S))
          /\ tainted' = tainted \cup Overstated(S, v)
          /\ UNCHANGED <<busy, run>>
       \/ /\ ~SemsMet(mode, Ids(S), v)                       \* no timeout
          /\ busy' = WaitRecord("sems", t, S, mode, v)
          /\ run' = [run EXCEPT ![t] = WaitRecord("wait", t, S, mode, 0)]
          /\ UNCHANGED <<obj, semReg, tainted>>
    /\ UNCHANGED <<generation, fenceReg, eventReg, truth, promised>> /\ Quiet

\* The device satisfies the wait that holds the executor.
WaitEnds ==
    /\ busy # Free
    /\ \/ /\ busy.kind = "fences" /\ FencesMet(busy.mode, busy.ids)
          /\ obj' = IF busy.thread = None THEN obj ELSE AfterFenceWait(busy.objs)
          /\ UNCHANGED <<semReg, tainted>>
       \/ /\ busy.kind = "sems" /\ SemsMet(busy.mode, busy.ids, busy.value)
          /\ obj' = IF busy.thread = None THEN obj ELSE AfterSemWait(busy.objs, busy.value)
          /\ semReg' = AfterSemWaitReg(busy.ids)
          /\ tainted' = IF busy.thread = None THEN tainted
                        ELSE tainted \cup Overstated(busy.objs, busy.value)
    /\ busy' = Free
    /\ run' = IF busy.thread = None THEN run ELSE [run EXCEPT ![busy.thread] = Idle]
    /\ UNCHANGED <<generation, fenceReg, eventReg, truth, promised>> /\ Quiet

----------------------------------------------------------------------------
\* Queue submission

\* What the specification of Vulkan asks of the caller: the objects are alive,
\* a fence is unsignaled, a signal is new, nothing is used by two calls, and a
\* queue by one thread at a time.
EventOps(c) == \E s \in ToSet(c.submits) : \E b \in ToSet(s.bufs) :
                  \E x \in ToSet(b) : x \in {"set", "reset", "await"}
ValidUse(c) ==
    /\ \A t \in Threads : run[t].kind # "submit"
    /\ \A o \in UsedBy(c) \ {None} : Live(o) /\ (o \in Timelines \/ ~InUse(o))
    /\ EventOps(c) => \A o \in Events : Live(o)
    /\ c.fence # None => ~FencePayload(c.fence) /\ c.fence \notin tainted
    /\ \A s \in ToSet(c.submits) : \A n \in DOMAIN s.signals :
          LET o == s.signals[n][1]
          IN  /\ ~InUse(o)
              /\ o \in Binaries  => truth[o] = 0
              /\ o \in Timelines => s.signals[n][2] > SemCount(o) /\ s.signals[n][2] > obj[o].value

\* vkQueueSubmit and vkQueueSubmit2 begin by clearing the local fence.
SubmitBegin(t, c) ==
    /\ run[t] = Idle /\ ValidUse(c)
    /\ run' = [run EXCEPT ![t] = [kind |-> "submit", call |-> c, prog |-> Program(c),
                                  pc |-> 1, did |-> <<>>]]
    /\ obj' = [o \in Objects |-> IF o = c.fence THEN [obj[o] EXCEPT !.signaled = FALSE] ELSE obj[o]]
    /\ promised' = [f \in Fences |-> IF f = c.fence THEN "no" ELSE promised[f]]
    /\ UNCHANGED <<generation, fenceReg, semReg, eventReg, busy, truth, tainted>> /\ Quiet

Doing(t)   == run[t].prog[run[t].pc]
In(t, op)  == run[t].kind = "submit" /\ Doing(t).op = op
Info(t)    == run[t].call.submits[Doing(t).sub]
Leave(t)   == run' = [run EXCEPT ![t] = Idle]
Onward(t, ops) == run' = [run EXCEPT ![t].pc = @ + 1, ![t].did = @ \o ops]

\* A call that fails leaves the local copies of the semaphores it waited for as
\* they were, whatever its earlier steps have consumed.
Fail(t)    ==
    /\ Leave(t)
    /\ tainted' = IF run[t].did = <<>> THEN tainted
                  ELSE tainted \cup (Binaries \cap Waited(Info(t)))

\* Mutant: any timeline wait passes.
SatisfiedAnyTimeline(s, v) == s \in Timelines \/ obj[s].signaled

\* semaphore_wait_satisfied looks at the ICD's own copy.
Satisfied(s, v) == IF s \in Timelines THEN obj[s].value >= v ELSE obj[s].signaled

Validate(t) ==
    /\ In(t, "validate")
    /\ IF \A n \in DOMAIN Info(t).waits : Satisfied(Info(t).waits[n][1], Info(t).waits[n][2])
       THEN run' = [run EXCEPT ![t].pc = @ + 1, ![t].did = <<>>]
       ELSE Leave(t)
    /\ UNCHANGED <<obj, generation, fenceReg, semReg, eventReg, busy, truth, tainted, promised>>
    /\ Quiet

Refuse(t) ==
    /\ In(t, "refuse") /\ Fail(t)
    /\ UNCHANGED <<obj, generation, fenceReg, semReg, eventReg, busy, truth, promised>>
    /\ Quiet

\* An operation the ICD executes itself: copies on the shared memory, and the
\* event commands, on the local copy of the event only.
TheEvent == CHOOSE x \in Events : TRUE       \* what recorded commands are about
HostOp(t) ==
    /\ In(t, "host")
    /\ LET what == Doing(t).what
           e == TheEvent
       IN \/ /\ what = "await" /\ ~obj[e].signaled /\ Fail(t)
             /\ UNCHANGED <<obj, truth>>
          \/ /\ what = "await" => obj[e].signaled
             /\ Onward(t, <<what>>)
             /\ obj' = IF what \in {"set", "reset"}
                       THEN [obj EXCEPT ![e].signaled = (what = "set")] ELSE obj
             /\ truth' = IF what \in {"set", "reset"}
                         THEN [truth EXCEPT ![e] = IF what = "set" THEN 1 ELSE 0] ELSE truth
             /\ tainted' = IF what = "reset" /\ Id(e) \in DOMAIN eventReg /\ eventReg[Id(e)]
                           THEN tainted \cup {e} ELSE tainted
    /\ UNCHANGED <<generation, fenceReg, semReg, eventReg, busy, promised>> /\ Quiet

\* A dispatch is one exchange without any synchronisation object.
Dispatch(t) ==
    /\ In(t, "dispatch") /\ Serving
    /\ Fail(t) \/ (Onward(t, <<"dispatch">>) /\ UNCHANGED tainted)
    /\ UNCHANGED <<obj, generation, fenceReg, semReg, eventReg, busy, truth, promised>>
    /\ Quiet

----------------------------------------------------------------------------
\* A graphics frame in the executor (run_vulkan_graphics_v6_frame)

WithIds(es)    == [n \in DOMAIN es |-> [type |-> es[n].type, obj |-> es[n].obj,
                                         value |-> es[n].value, id |-> Id(es[n].obj)]]
OfType(es, ty) == {es[n] : n \in {m \in DOMAIN es : es[m].type = ty}}
IdsOf(E)       == {e.id : e \in E}
ObjsOf(es)     == {es[n].obj : n \in DOMAIN es}

\* Resolving: the fence is made if the executor has none and reset; a waited
\* semaphore must be there; a signaled one is made while there is a slot.
FenceFits(es)      == IdsOf(OfType(es, "fence")) \subseteq DOMAIN fenceReg \/ ~Full(fenceReg, "fence")
ResolvedFences(es) == [id \in DOMAIN fenceReg \cup IdsOf(OfType(es, "fence")) |->
                          IF id \in IdsOf(OfType(es, "fence")) THEN FALSE ELSE fenceReg[id]]
WaitsKnown(es)     == IdsOf(OfType(es, "wait")) \subseteq DOMAIN semReg
MissingBy(es, m)   == IdsOf(OfType(SubSeq(es, 1, m), "signal")) \ DOMAIN semReg
Fits(es, m)        == Cardinality(DOMAIN semReg) + Cardinality(MissingBy(es, m)) <= SlotCount["sem"]
Made(es)           == IF ~WaitsKnown(es) THEN {}
                      ELSE UNION {MissingBy(es, m) : m \in {k \in 0..Len(es) : Fits(es, k)}}
ResolvedSems(es)   == [id \in DOMAIN semReg \cup Made(es) |->
                          IF id \in DOMAIN semReg THEN semReg[id]
                          ELSE NewSem(\E n \in DOMAIN es : es[n].id = id /\ es[n].obj \in Timelines, 0)]
Resolves(es)       == FenceFits(es) /\ WaitsKnown(es) /\ Fits(es, Len(es))

\* What the device does with a submission once its waits are met.
DeviceReady(es, sr) ==
    \A e \in OfType(es, "wait") :
        e.id \in DOMAIN sr /\ sr[e.id].count >= (IF sr[e.id].timeline THEN e.value ELSE 1)
SignaledFences(fr, es) == [id \in DOMAIN fr |-> fr[id] \/ id \in IdsOf(OfType(es, "fence"))]
SignalValue(es, id)    == LET e == CHOOSE x \in OfType(es, "signal") : x.id = id
                          IN  IF e.obj \in Timelines THEN e.value ELSE 1
SignaledSems(sr, es) ==
    [id \in DOMAIN sr |->
        IF id \in IdsOf(OfType(es, "signal"))
        THEN [sr[id] EXCEPT !.count = SignalValue(es, id),
                            !.last = IF sr[id].timeline /\ @ < SignalValue(es, id)
                                     THEN SignalValue(es, id) ELSE @]
        ELSE IF id \in IdsOf(OfType(es, "wait")) /\ ~sr[id].timeline
             THEN [sr[id] EXCEPT !.count = 0] ELSE sr[id]]

\* What a submission whose recorded work is all done has really signaled.
Raised(s) == [o \in DOMAIN truth |->
    IF \E n \in DOMAIN s.signals : s.signals[n][1] = o
    THEN LET n == CHOOSE m \in DOMAIN s.signals : s.signals[m][1] = o
         IN  IF o \in Binaries THEN 1
             ELSE IF s.signals[n][2] > truth[o] THEN s.signals[n][2] ELSE truth[o]
    ELSE IF o \in Binaries \cap Waited(s) THEN 0 ELSE truth[o]]

Frame(t) ==
    /\ In(t, "frame") /\ Serving
    /\ LET es  == WithIds(Doing(t).what.entries)
           ops == Doing(t).what.ops
       IN \/ /\ Fail(t)                            \* before the submission
             /\ UNCHANGED <<fenceReg, semReg, device, truth>>
          \/ /\ ~Resolves(es) /\ Fail(t)
             /\ fenceReg' = IF FenceFits(es) THEN ResolvedFences(es) ELSE fenceReg
             /\ semReg' = IF FenceFits(es) THEN ResolvedSems(es) ELSE semReg
             /\ UNCHANGED <<device, truth>>
          \/ /\ Resolves(es)
             /\ device # <<>> \/ ~DeviceReady(es, ResolvedSems(es))
             /\ Leave(t)                           \* -ETIMEDOUT
             /\ device' = Append(device, es)
             /\ fenceReg' = ResolvedFences(es) /\ semReg' = ResolvedSems(es)
             /\ tainted' = tainted \cup ObjsOf(es) \cup (Binaries \cap Waited(Info(t)))
             /\ UNCHANGED truth
          \/ /\ Resolves(es) /\ device = <<>> /\ DeviceReady(es, ResolvedSems(es))
             /\ fenceReg' = SignaledFences(ResolvedFences(es), es)
             /\ semReg' = SignaledSems(ResolvedSems(es), es)
             /\ truth' = IF HasCompletion(es) /\ run[t].did \o ops = WantedOps(Info(t))
                         THEN Raised(Info(t)) ELSE truth
             /\ \/ Onward(t, ops) /\ UNCHANGED tainted
                \/ /\ Leave(t)                     \* the writeback failed
                   /\ tainted' = tainted \cup (Binaries \cap (ObjsOf(es) \cup Waited(Info(t))))
             /\ UNCHANGED device
    /\ UNCHANGED <<obj, generation, eventReg, busy, restarts, crashes, promised>>

\* A submission left on the queue by a timeout starts when its waits are met.
DeviceRuns ==
    /\ device # <<>> /\ DeviceReady(Head(device), semReg)
    /\ fenceReg' = SignaledFences(fenceReg, Head(device))
    /\ semReg' = SignaledSems(semReg, Head(device))
    /\ device' = Tail(device)
    /\ UNCHANGED <<obj, generation, eventReg, busy, run, restarts, crashes, truth, tainted, promised>>

\* complete_submit_semaphores, on the local copies
Complete(t) ==
    /\ In(t, "complete")
    /\ LET s == Info(t)
           Signal(o) == CHOOSE n \in DOMAIN s.signals : s.signals[n][1] = o
       IN /\ obj' = [o \in Objects |->
                IF \E n \in DOMAIN s.signals : s.signals[n][1] = o
                THEN IF o \in Timelines
                     THEN [obj[o] EXCEPT !.value = IF @ < s.signals[Signal(o)][2]
                                                   THEN s.signals[Signal(o)][2] ELSE @]
                     ELSE [obj[o] EXCEPT !.signaled = TRUE]
                ELSE IF o \in Binaries \cap Waited(s)
                     THEN [obj[o] EXCEPT !.signaled = FALSE] ELSE obj[o]]
          /\ truth' = IF run[t].did = WantedOps(s) THEN Raised(s) ELSE truth
    /\ Onward(t, <<>>)
    /\ UNCHANGED <<generation, fenceReg, semReg, eventReg, busy, tainted, promised>> /\ Quiet

\* Whether the fence of a call went to the executor with a frame
Carried(c) == \E j \in DOMAIN c.submits[Len(c.submits)].bufs :
                 HasCompletion(FrameEntries(c, Len(c.submits), j))

\* Mutant: the local fence stays cleared.
SubmitEndLeavesFence(t) ==
    /\ In(t, "end")
    /\ promised' = [f \in Fences |-> IF f # run[t].call.fence THEN promised[f]
                                      ELSE IF Carried(run[t].call) THEN "carried" ELSE "local"]
    /\ Leave(t)
    /\ UNCHANGED <<obj, generation, fenceReg, semReg, eventReg, busy, truth, tainted>> /\ Quiet

\* The call returns success: the local fence is signaled, and only that one.
SubmitEnd(t) ==
    /\ In(t, "end")
    /\ LET c == run[t].call
       IN /\ obj' = [o \in Objects |-> IF o = c.fence THEN [obj[o] EXCEPT !.signaled = TRUE]
                                                      ELSE obj[o]]
          /\ promised' = [f \in Fences |-> IF f # c.fence THEN promised[f]
                                           ELSE IF Carried(c) THEN "carried" ELSE "local"]
    /\ Leave(t)
    /\ UNCHANGED <<generation, fenceReg, semReg, eventReg, busy, truth, tainted>> /\ Quiet

----------------------------------------------------------------------------
\* Faults

\* The executor starts again with empty registries; a waiting client reads the
\* end of its connection.
Restart ==
    /\ restarts < MaxRestarts
    /\ restarts' = restarts + 1
    /\ fenceReg' = <<>> /\ semReg' = <<>> /\ eventReg' = <<>>
    /\ device' = <<>>
    /\ busy' = Free
    /\ run' = [t \in Threads |->
                 IF run[t].kind # "wait" THEN run[t]
                 ELSE IF busy.kind = "fences" THEN [run[t] EXCEPT !.kind = "poll"] ELSE Idle]
    /\ promised' = [f \in Fences |-> "no"]
    /\ UNCHANGED <<obj, generation, crashes, truth, tainted>>

\* The application dies.  The executor learns nothing: its entries stay, and a
\* new process counts its ids from the start again.
Crash ==
    /\ crashes < MaxCrashes
    /\ crashes' = crashes + 1
    /\ obj' = [o \in Objects |-> Dead]
    /\ generation' = 0
    /\ run' = [t \in Threads |-> Idle]
    /\ busy' = IF busy = Free THEN Free ELSE [busy EXCEPT !.thread = None]
    /\ truth' = [o \in DOMAIN truth |-> 0]
    /\ tainted' = {} /\ promised' = [f \in Fences |-> "no"]
    /\ UNCHANGED <<fenceReg, semReg, eventReg, device, restarts>>

----------------------------------------------------------------------------
Host(t) ==
    \/ \E f \in Fences, b \in BOOLEAN : CreateFence(t, f, b)
    \/ \E s \in Sems : CreateSem(t, s, 0)
    \/ \E e \in Events : CreateEvent(t, e)
    \/ \E o \in Objects : Destroy(t, o)
    \/ \E f \in Fences : ResetFence(t, f)
    \/ \E f \in Fences : FenceStatus(t, f)
    \/ \E s \in Timelines : SemCounter(t, s)
    \/ \E s \in Timelines, v \in 1..MaxValue : SignalSem(t, s, v)
    \/ \E e \in Events, on \in BOOLEAN : WriteEvent(t, e, on)
    \/ \E e \in Events : EventStatus(t, e)
    \/ \E S \in SUBSET Fences \ {{}}, mode \in {"all", "any"} : WaitFences(t, S, mode)
    \/ \E S \in SUBSET Timelines \ {{}}, mode \in {"all", "any"}, v \in 1..MaxValue :
          WaitSems(t, S, mode, v)
    \/ PollFences(t)

Submit(t) ==
    \/ \E c \in Calls : SubmitBegin(t, c)
    \/ Validate(t)
    \/ Refuse(t)
    \/ HostOp(t)
    \/ Dispatch(t)
    \/ Frame(t)
    \/ Complete(t)
    \/ SubmitEnd(t)

Next == \/ \E t \in Threads : Host(t) \/ Submit(t)
        \/ WaitEnds
        \/ DeviceRuns
        \/ Restart
        \/ Crash

Spec == Init /\ [][Next]_vars
----------------------------------------------------------------------------
\* Properties

\* The types of the state
Registry(f, R) == DOMAIN f \subseteq Nat /\ f \in [DOMAIN f -> R]
Cells      == [id : Nat, signaled : BOOLEAN, value : Nat]
Payloads   == [timeline : BOOLEAN, count : Nat, last : Nat]
Held       == [type : {"wait", "signal", "fence"}, obj : Objects, value : Nat, id : Nat]
Waits(kinds, threads) == [kind : kinds, thread : threads, objs : SUBSET Objects,
                          ids : SUBSET Nat, mode : {"all", "any"}, value : Nat]
Submitting == [kind : {"submit"}, call : Calls, prog : {Program(c) : c \in Calls},
               pc : Nat, did : Seq(OpKinds)]

TypeOK ==
    /\ obj \in [Objects -> Cells]
    /\ generation \in Nat
    /\ Registry(fenceReg, BOOLEAN) /\ Registry(semReg, Payloads) /\ Registry(eventReg, BOOLEAN)
    /\ device \in Seq(Seq(Held))
    /\ busy \in {Free} \cup Waits({"fences", "sems"}, Threads \cup {None})
    /\ run \in [Threads -> {Idle} \cup Waits({"wait", "poll"}, Threads) \cup Submitting]
    /\ restarts \in Nat /\ crashes \in Nat
    /\ truth \in [Sems \cup Events -> Nat]
    /\ tainted \subseteq Objects
    /\ promised \in [Fences -> {"no", "local", "carried"}]

\* The array of a registry is never overrun.
SlotsSuffice ==
    /\ Cardinality(DOMAIN fenceReg) <= SlotCount["fence"]
    /\ Cardinality(DOMAIN semReg) <= SlotCount["sem"]
    /\ Cardinality(DOMAIN eventReg) <= SlotCount["event"]

\* A submit that reaches its completion has executed every recorded command
\* once and in the recorded order, though host copies, dispatches and frames
\* are executed by two programs (graphics_mixed_submit_plan and the frame
\* builder).
OrderKept ==
    \A t \in Threads :
        In(t, "complete") => run[t].did = WantedOps(Info(t))

\* Whenever any thread could be told that the fence of a running call is
\* signaled, by the executor or by the local copy, the first VkSubmitInfo that
\* took it to the executor has no work left, and under vkQueueSubmit2 the whole
\* call has none.
FenceMeansDone ==
    \A t \in Threads :
        LET r == run[t]
        IN  (/\ r.kind = "submit" /\ r.call.fence # None /\ r.call.fence \notin tainted
             /\ FencePayload(r.call.fence) \/ obj[r.call.fence].signaled)
                 => \A n \in r.pc..Len(r.prog) :
                       r.prog[n].op \in WorkOps =>
                          /\ r.call.api = "legacy"
                          /\ \E i \in 1..(r.prog[n].sub - 1) : GraphicsBufs(r.call.submits[i]) # {}

\* Neither the executor nor the ICD's copy claims a semaphore value that no
\* finished work and no host call has signaled: the local copies are what
\* vkQueueSubmit validates its waits against.
ValuesAreReached ==
    \A s \in Sems \ tainted : Live(s) =>
        /\ s \in Timelines => SemCount(s) <= truth[s] /\ obj[s].value <= truth[s]
        /\ s \in Binaries /\ ~InUse(s) /\ obj[s].signaled => truth[s] = 1

\* No recorded work runs before everything its submit waits for has happened,
\* on whichever side the signal was made; an event wait passes only if the
\* event is set.
WaitsHonoured ==
    [][\A t \in Threads :
         (/\ run[t].kind = "submit" /\ run'[t].kind = "submit"
          /\ Len(run'[t].did) > Len(run[t].did))
         => /\ \A n \in DOMAIN Info(t).waits :
                 LET s == Info(t).waits[n][1]
                 IN  \/ s \in tainted
                     \/ s \in Timelines /\ truth[s] >= Info(t).waits[n][2]
                     \/ s \in Binaries /\ (truth[s] = 1 \/ run[t].did # <<>>)
            /\ run'[t].did[Len(run'[t].did)] = "await"
                 => TheEvent \in tainted \/ truth[TheEvent] = 1]_vars

\* A fence that travelled with a frame stays signaled in both places after its
\* submission returned success, until the application resets or reuses it or
\* the executor forgets it.
CarriedFenceSignals ==
    \A f \in Fences \ tainted :
        Live(f) /\ promised[f] = "carried" /\ Id(f) \in DOMAIN fenceReg
            => FencePayload(f) /\ obj[f].signaled

\* While no client has died, every entry of the executor belongs to a live
\* object of the client: nothing leaks a slot of the 128.
EntriesAreOwned ==
    crashes = 0 => /\ DOMAIN fenceReg \subseteq {Id(f) : f \in {x \in Fences : Live(x)}}
                   /\ DOMAIN semReg \subseteq {Id(s) : s \in {x \in Sems : Live(x)}}
                   /\ DOMAIN eventReg \subseteq {Id(e) : e \in {x \in Events : Live(x)}}

\* "signal fences" (docs/design/GPU_COMPAT.md:79) is the executor's part: once
\* a submission with a fence has returned success, asking the executor for the
\* fence answers signaled.  It does not for a submission whose last command
\* buffers are dispatches or copies.
SubmittedFenceAnswers ==
    \A f \in Fences \ tainted : Live(f) /\ promised[f] # "no" => FencePayload(f)
=============================================================================
