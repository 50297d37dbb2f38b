------------------------- MODULE GpuSyncInvariants -------------------------
(***************************************************************************)
(* The inductive invariants of GpuSync, in parts, and the vocabulary of     *)
(* their proofs: the steps of a program, what has been done by a step, and  *)
(* what a step leaves as it is.  GpuSyncProofs proves them.                 *)
(***************************************************************************)
EXTENDS GpuSync

----------------------------------------------------------------------------
\* Sequences

\* The partial results of FlattenSeq
Flattens(f, s, S) ==
    /\ f \in [1..Len(s) -> Seq(S)]
    /\ f[1] = s[1]
    /\ \A i \in 1..Len(s) : i + 1 \in 1..Len(s) => f[i + 1] = f[i] \o s[i + 1]

\* The first n elements
Take(s, n) == SubSeq(s, 1, n)

\* Where the i-th sequence begins in the concatenation
Start(s, i) == Len(FlattenSeq(Take(s, i - 1)))

\* Where the elements of two joined sequences are
Joins(v, p, q) == v = p \o q

\* A sequence of the values of a function
Maps(D, S, R) == D \in [S -> R]
Map(D, x)     == [n \in 1..Len(x) |-> D[x[n]]]

\* The elements of a sequence
Els(s) == {s[n] : n \in 1..Len(s)}

----------------------------------------------------------------------------
\* The steps of a call

\* Recorded buffers
Bufs == Seq(OpKinds \cup RecordKinds)

\* The commands of a frame
InFrame(b) == {k \in DOMAIN OpsOf(b) :
                  \/ OpsOf(b)[k] \in FrameKinds
                  \/ OpsOf(b)[k] \in TransferKinds /\ BetweenDraws(b, k)}

\* The last command of the frame
FrameEnd(b) == IF LastGpu(b) <= Len(OpsOf(b)) THEN LastGpu(b) ELSE Len(OpsOf(b))

\* What a frame carries besides its commands
EntryType == [type : {"wait", "signal", "fence"}, obj : Objects, value : Nat]

\* The entries of the frame of buffer j are the waits, if it is the first frame
\* of its VkSubmitInfo, and the signals and the fence, if it is the last.
Firsts(c, i, j) == IF IsFirstFrame(c.submits[i], j)
                   THEN {Entry("wait", c.submits[i].waits[m][1], c.submits[i].waits[m][2]) :
                           m \in DOMAIN c.submits[i].waits}
                   ELSE {}
Lasts(c, i, j)  == IF IsLastFrame(c.submits[i], j)
                   THEN {Entry("signal", c.submits[i].signals[m][1], c.submits[i].signals[m][2]) :
                           m \in DOMAIN c.submits[i].signals}
                   ELSE {}
FenceOf(c, i, j) == IF IsLastFrame(c.submits[i], j) /\ WithFence(c, i)
                    THEN {Entry("fence", c.fence, 0)} ELSE {}

\* Every step that a program may have
Frames(c)  == {[ops |-> FrameOps(c.submits[p[1]].bufs[p[2]]), entries |-> FrameEntries(c, p[1], p[2])] :
                 p \in Nat \X Nat}
StepOps    == {"validate", "host", "dispatch", "frame", "refuse", "complete", "end"}
AnyStep(c) == [op : StepOps, sub : Nat, what : OpKinds \cup {None} \cup Frames(c)]

\* The host operations before and after the frame of a buffer, and the frame
Before(b) == SubSeq(OpsOf(b), 1, FirstGpu(b) - 1)
After(b)  == SubSeq(OpsOf(b), LastGpu(b) + 1, Len(OpsOf(b)))
FrameStep(c, i, j) == Step("frame", i, [ops |-> FrameOps(c.submits[i].bufs[j]),
                                        entries |-> FrameEntries(c, i, j)])

\* A step of a buffer
StepKind(c, i, j, x) ==
    /\ x.sub = i
    /\ \/ x.op \in {"host", "dispatch"} /\ x.what \in OpKinds
       \/ x.op = "refuse"
       \/ /\ x = FrameStep(c, i, j)
          /\ Graphics(c.submits[i].bufs[j]) /\ ~Refused(c, i, j)

\* The steps of the buffers of a VkSubmitInfo, and those of the whole call
Pieces(c, i) == [j \in 1..Len(c.submits[i].bufs) |-> BufferSteps(c, i, j)]
Body(c, i)   == FlattenSeq(Pieces(c, i))
Subs(c)      == [i \in 1..Len(c.submits) |-> SubmitSteps(c, i)]

\* Step x is step r of buffer j, and so step m, of VkSubmitInfo i.
InBuffer(c, i, m, x, j, r) ==
    /\ j \in 1..Len(Pieces(c, i)) /\ Pieces(c, i)[j] = BufferSteps(c, i, j)
    /\ j \in 1..Len(c.submits[i].bufs)
    /\ r \in 1..Len(BufferSteps(c, i, j))
    /\ m = 1 + (Start(Pieces(c, i), j) + r)
    /\ x = BufferSteps(c, i, j)[r]

\* The frame carries a fence.
HasFence(es) == \E e \in Els(es) : e.type = "fence"

\* Entries with the ids of their objects
Tagged(e) == [type |-> e.type, obj |-> e.obj, value |-> e.value, id |-> Id(e.obj)]

\* The ids of the fences, and of the semaphores to signal, that a frame carries
FenceIds(es) == IdsOf(OfType(es, "fence"))
SignalIds(es) == IdsOf(OfType(es, "signal"))

----------------------------------------------------------------------------
\* Types, ids and running calls: the invariant of every other proof

\* A running call stands at a step of its own program, at most one call runs,
\* what it uses is alive, and no two live objects share an id.
Running    == \A t \in Threads : run[t].kind = "submit" =>
                 run[t].prog = Program(run[t].call) /\ run[t].pc \in 1..Len(run[t].prog)
OneAtATime == \A t, u \in Threads : run[t].kind = "submit" /\ run[u].kind = "submit" => t = u
UsedLive   == \A t \in Threads : run[t].kind = "submit" =>
                 \A o \in UsedBy(run[t].call) \ {None} : o \in Objects /\ Live(o)
IdsApart   == /\ \A o \in Objects : Id(o) <= generation
              /\ \A o, x \in Objects : Live(o) /\ Id(o) = Id(x) => o = x
Core       == TypeOK /\ Running /\ OneAtATime /\ UsedLive /\ IdsApart

----------------------------------------------------------------------------
\* Fences

\* The fences of the submissions that a timeout left on the device: a fence
\* that still has such an id does not say what it should.
LeftIds    == {id \in UNION {FenceIds(device[n]) : n \in DOMAIN device} : id # 0}
LeftFences == /\ LeftIds \subseteq DOMAIN fenceReg
              /\ \A f \in Fences : Live(f) /\ Id(f) \in LeftIds => f \in tainted

\* A running call whose fence travels with a frame has signaled it, or still owes it.
Sends(x)     == x.op = "refuse" \/ (x.op = "frame" /\ HasFence(x.what.entries))
Owed(r)      == \E n \in r.pc..Len(r.prog) : Sends(r.prog[n])
DoneFrom(r)  == \A n \in r.pc..Len(r.prog) : r.prog[n].op \in WorkOps =>
                   /\ r.call.api = "legacy"
                   /\ \E i \in 1..(r.prog[n].sub - 1) : GraphicsBufs(r.call.submits[i]) # {}
WithOwnFence(u) == run[u].kind = "submit" /\ run[u].call.fence # None
Payer(u)     == Carried(run[u].call) /\ run[u].call.fence \notin tainted
                   /\ Id(run[u].call.fence) \in DOMAIN fenceReg
                => FencePayload(run[u].call.fence) \/ Owed(run[u])
OwesFence    == \A u \in Threads : WithOwnFence(u) =>
                   promised[run[u].call.fence] = "no" /\ Payer(u)

\* The invariant of the fences
FenceInv     == Core /\ LeftFences /\ FenceMeansDone /\ CarriedFenceSignals /\ OwesFence

----------------------------------------------------------------------------
\* The commands a call has done

\* The commands that a step stands for
OneStep(x) == IF x.op = "dispatch" THEN <<"dispatch">>
              ELSE IF x.op = "host" /\ x.what \in OpKinds THEN <<x.what>>
              ELSE IF x.op = "frame" /\ x.what.ops \in Seq(OpKinds) THEN x.what.ops
              ELSE <<>>
DidOf(c)   == [x \in AnyStep(c) |-> OneStep(x)]
Done(c, q) == FlattenSeq(Map(DidOf(c), q))

\* The commands done by the first n steps of VkSubmitInfo i
Progress(c, i, n) == Done(c, Take(SubmitSteps(c, i), n))

\* Step n of the program of c is step m of VkSubmitInfo i.
At(c, n, i, m) ==
    /\ i \in 1..Len(c.submits)
    /\ m \in 1..Len(SubmitSteps(c, i))
    /\ n = Start(Subs(c), i) + m

\* A call that stands at step m of a VkSubmitInfo has passed no refusal in it and
\* has done what its steps before m do.
Due(c, n, did) ==
    \A i, m : At(c, n, i, m) /\ m > 1 =>
        /\ did = Progress(c, i, m - 1)
        /\ \A k \in 1..(m - 1) : SubmitSteps(c, i)[k].op # "refuse"

\* The commands of every running call
DidInv == \A t \in Threads : run[t].kind = "submit" => Due(run[t].call, run[t].pc, run[t].did)

----------------------------------------------------------------------------
\* The values of semaphores and events

\* The semaphores that what a timeout left on the device will signal: one that
\* still has such an id does not say what it should.
LeftSemIds == {id \in UNION {SignalIds(device[n]) : n \in DOMAIN device} : id # 0}
LeftSems == /\ LeftSemIds \subseteq DOMAIN semReg
            /\ \A s \in Sems : Live(s) /\ Id(s) \in LeftSemIds => s \in tainted

\* The wait that holds the executor is the wait of a thread, or of a dead one.
WaiterWaits == busy # Free => /\ busy.thread # None => run[busy.thread].kind = "wait"
                              /\ busy.kind = "fences" => busy.objs \subseteq Fences

\* A binary semaphore whose submit has run, and whose copy is about to be reset
Consumed(b) == \E t \in Threads : In(t, "complete") /\ b \in Waited(Info(t))

\* What either side claims of a semaphore or an event has happened.
TimelineTrue == \A s \in Timelines \ tainted :
                   Live(s) => SemCount(s) <= truth[s] /\ obj[s].value <= truth[s]
BinaryTrue   == \A b \in Binaries \ tainted :
                   Live(b) /\ obj[b].signaled => truth[b] = 1 \/ Consumed(b)
EventTrue    == \A e \in Events \ tainted :
                   /\ obj[e].signaled => truth[e] = 1
                   /\ Live(e) /\ Id(e) \in DOMAIN eventReg /\ eventReg[Id(e)] => truth[e] = 1

\* What a submission between its validation and its completion waits for
Midway(t)  == run[t].kind = "submit" /\ Doing(t).op \notin {"validate", "complete", "end"}
Reached(s, v, did) == \/ s \in tainted
                      \/ s \in Timelines /\ truth[s] >= v
                      \/ s \in Binaries /\ (truth[s] = 1 \/ did # <<>>)
WaitsMet   == \A t \in Threads : Midway(t) =>
                 \A n \in DOMAIN Info(t).waits :
                    Reached(Info(t).waits[n][1], Info(t).waits[n][2], run[t].did)

\* What is true of the semaphores and of the calls that wait for them
SemsTrue == LeftSems /\ TimelineTrue /\ BinaryTrue /\ WaitsMet

\* The invariant of the values
ValueInv   == /\ Core /\ DidInv /\ LeftSems /\ WaiterWaits
              /\ TimelineTrue /\ BinaryTrue /\ EventTrue /\ WaitsMet

----------------------------------------------------------------------------
\* The steps: the disjuncts of Next, grouped, and what they leave as it is

\* The disjuncts of Next, as one list
Creates   == \/ \E t \in Threads, f \in Fences, b \in BOOLEAN : CreateFence(t, f, b)
             \/ \E t \in Threads, s \in Sems : CreateSem(t, s, 0)
             \/ \E t \in Threads, e \in Events : CreateEvent(t, e)
Destroys  == \E t \in Threads, o \in Objects : Destroy(t, o)
HostCalls == \/ \E t \in Threads, f \in Fences : ResetFence(t, f)
             \/ \E t \in Threads, f \in Fences : FenceStatus(t, f)
             \/ \E t \in Threads, s \in Timelines : SemCounter(t, s)
             \/ \E t \in Threads, s \in Timelines, v \in 1..MaxValue : SignalSem(t, s, v)
             \/ \E t \in Threads, e \in Events, on \in BOOLEAN : WriteEvent(t, e, on)
             \/ \E t \in Threads, e \in Events : EventStatus(t, e)
WaitCalls == \/ \E t \in Threads, S \in SUBSET Fences, mode \in {"all", "any"} : WaitFences(t, S, mode)
             \/ \E t \in Threads, S \in SUBSET Timelines, mode \in {"all", "any"}, v \in 1..MaxValue :
                   WaitSems(t, S, mode, v)
             \/ \E t \in Threads : PollFences(t)
             \/ WaitEnds
SubmitCalls == \E t \in Threads : \/ \E c \in Calls : SubmitBegin(t, c)
                                  \/ Validate(t) \/ Refuse(t) \/ HostOp(t) \/ Dispatch(t)
                                  \/ Frame(t) \/ Complete(t) \/ SubmitEnd(t)

\* The steps that are neither the first nor the last one nor a frame
PlainStep(t) == Validate(t) \/ Refuse(t) \/ HostOp(t) \/ Dispatch(t) \/ Complete(t)

\* What a thread does
RunTypes == {Idle} \cup Waits({"wait", "poll"}, Threads) \cup Submitting

\* The steps of a submission but its frames leave the executor alone.
Registries == <<fenceReg, semReg, eventReg, device, busy, restarts, crashes>>

\* Objects keep their ids, and running calls go on or end.
IdsKept   == generation' = generation /\ \A o \in Objects : obj'[o].id = obj[o].id
CallsKept == \A t \in Threads : run'[t].kind = "submit" =>
                /\ run[t].kind = "submit" /\ run'[t].call = run[t].call
                /\ run'[t].prog = run[t].prog /\ run'[t].pc \in 1..Len(run[t].prog)

\* Slots: which entries the steps make and drop
DomainsKept == /\ DOMAIN fenceReg' = DOMAIN fenceReg /\ DOMAIN semReg' = DOMAIN semReg
               /\ DOMAIN eventReg' = DOMAIN eventReg /\ crashes' = crashes

\* Fences: what a step leaves of the fence f, in the executor and in its copy
Still(f) ==
    /\ Live(f)' /\ Id(f)' = Id(f)
    /\ (Id(f) \in DOMAIN fenceReg') = (Id(f) \in DOMAIN fenceReg)
    /\ FencePayload(f)' = FencePayload(f)
    /\ obj'[f].signaled = obj[f].signaled \/ obj'[f].signaled = FencePayload(f)
    /\ promised'[f] = promised[f]
    /\ f \in tainted => f \in tainted'
AllStill   == \A f \in Fences : Live(f) => Still(f)

\* The running calls are where they were.
CallsStill == \A t \in Threads : run'[t].kind = "submit" => run'[t] = run[t]

\* vkResetFences is the only host call that clears a fence, and it leaves the
\* fences of the running calls alone.
Cleared(f) == /\ Live(f)' /\ Id(f)' = Id(f) /\ promised'[f] = "no"
              /\ \A u \in Threads : run[u].kind = "submit" => f \notin UsedBy(run[u].call)
FencesKept == /\ \A f \in Fences : Live(f) => Still(f) \/ Cleared(f)
              /\ \A f \in Fences : Live(f)' => Live(f)
              /\ CallsStill /\ device' = device

\* The steps of a submission: the call of thread t goes on or ends.
Moves(t) == \A u \in Threads : run'[u].kind = "submit" =>
               /\ run[u].kind = "submit"
               /\ \/ run'[u] = run[u]
                  \/ /\ u = t /\ run'[u].call = run[u].call /\ run'[u].prog = run[u].prog
                     /\ run'[u].pc = run[u].pc + 1

\* A step that leaves the fences that say what they should, or takes the
\* promise back, and moves the calls over nothing that sends their fence.
Same(f)      == f \notin tainted' => Live(f) /\ Still(f)
Passes(u)    == /\ run[u].kind = "submit"
                /\ \/ run'[u] = run[u]
                   \/ /\ run'[u].call = run[u].call /\ run'[u].prog = run[u].prog
                      /\ run'[u].pc = run[u].pc + 1 /\ ~Sends(Doing(u))
                /\ run[u].call.fence # None =>
                      /\ Same(run[u].call.fence)
                      /\ promised'[run[u].call.fence] = promised[run[u].call.fence]
QuietFences  == /\ \A f \in Fences : Live(f)' => promised'[f] = "no" \/ Same(f)
                /\ \A u \in Threads : run'[u].kind = "submit" => Passes(u)

\* What a step of thread t adds to the commands of its call, if the call goes on
Adds(t) ==
    /\ run[t].kind = "submit"
    /\ \A u \in Threads \ {t} : run'[u] = run[u]
    /\ run'[t].kind = "submit" =>
          /\ run'[t].call = run[t].call /\ run'[t].pc = run[t].pc + 1
          /\ \/ Doing(t).op = "validate" /\ run'[t].did = <<>>
             \/ /\ Doing(t).op \notin {"validate", "refuse"}
                /\ run'[t].did = run[t].did \o OneStep(Doing(t))

\* What a step leaves of a semaphore that is alive
Steady(s)     == Live(s) /\ Id(s)' = Id(s) /\ (s \in tainted => s \in tainted')
TimeKept(s) == /\ Steady(s) /\ truth[s] <= truth'[s]
               /\ s \notin tainted' =>
                     /\ SemCount(s)' <= SemCount(s) \/ SemCount(s)' <= truth'[s]
                     /\ \/ obj'[s].value <= obj[s].value
                        \/ obj'[s].value <= SemCount(s)
                        \/ obj'[s].value <= truth'[s]
BinKept(b)  == Steady(b) /\ obj'[b].signaled = obj[b].signaled /\ truth'[b] = truth[b]

\* A semaphore that the step has made: its id is tainted if it was there before.
Fresh(s)    == /\ ~Live(s) /\ obj'[s].signaled = FALSE
               /\ Id(s)' \in DOMAIN semReg => s \in tainted'
               /\ s \notin tainted' => SemCount(s)' = 0 /\ obj'[s].value = 0
TimelinesKept == \A s \in Timelines : Live(s)' => TimeKept(s) \/ Fresh(s)
BinariesKept  == \A b \in Binaries : Live(b)' => BinKept(b) \/ Fresh(b)

\* Steps that are not about semaphores
AwayFromSems == /\ \A s \in Sems : /\ obj'[s] = obj[s] /\ truth'[s] = truth[s]
                                   /\ s \in tainted => s \in tainted'
                /\ semReg' = semReg \/ semReg' = <<>>

\* What a frame does to the semaphores: nothing, or a timeout leaves it on the
\* device, or it is done without a completion, or it was the last of its submit.
FrameStops(t, es) ==
    /\ truth' = truth /\ tainted \subseteq tainted'
    /\ semReg' = semReg \/ semReg' = ResolvedSems(es)
    /\ \/ device' = device
       \/ /\ device' = Append(device, es) /\ SignalIds(es) \subseteq DOMAIN semReg'
          /\ ObjsOf(es) \subseteq tainted'
FrameWorks(t, es) ==
    /\ SignalIds(es) = {} /\ semReg' = SignaledSems(ResolvedSems(es), es)
    /\ truth' = truth /\ tainted \subseteq tainted' /\ device' = device
FrameCompletes(t, es) ==
    /\ SignalIds(es) \subseteq DOMAIN ResolvedSems(es)
    /\ semReg' = SignaledSems(ResolvedSems(es), es)
    /\ truth' = Raised(Info(t)) /\ tainted \subseteq tainted' /\ device' = device
    /\ \/ In(t, "complete")' /\ Info(t)' = Info(t)
       \/ Leave(t) /\ Binaries \cap Waited(Info(t)) \subseteq tainted'

\* Events
Sets(e)      == /\ obj[e].signaled => truth[e] = 1
                /\ Live(e) /\ Id(e) \in DOMAIN eventReg /\ eventReg[Id(e)] => truth[e] = 1
EventKept(e) == /\ e \in tainted => e \in tainted'
                /\ Id(e)' = Id(e) /\ obj'[e].signaled = obj[e].signaled /\ truth'[e] = truth[e]
                /\ Live(e) /\ Id(e) \in DOMAIN eventReg' =>
                      Id(e) \in DOMAIN eventReg /\ eventReg'[Id(e)] = eventReg[Id(e)]
EventsAlone  == /\ \A e \in Events : /\ obj'[e] = obj[e] /\ truth'[e] = truth[e]
                                     /\ e \in tainted => e \in tainted'
                /\ eventReg' = eventReg \/ eventReg' = <<>>

\* A step that executes recorded work
Grows(t) == run[t].kind = "submit" /\ run'[t].kind = "submit" /\ Len(run'[t].did) > Len(run[t].did)
=============================================================================
