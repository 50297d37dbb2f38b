------------------------------- MODULE GpuReplay -------------------------------
(***************************************************************************)
(* From the application's calls to the device: a recorded command buffer is  *)
(* submitted, the host executes what lies before the first and after the     *)
(* last graphics record, and the executor replays the frame in between.      *)
(* What the calls mean is defined here by themselves, call by call, as the   *)
(* Vulkan specification has it; the properties compare the two.              *)
(***************************************************************************)
EXTENDS GpuExecutor

VARIABLE sent    \* the last frame that went out with what it did, or None

fvars == <<vars, sent>>

----------------------------------------------------------------------------
\* The work of a transfer region or of a fill or update: what the device or the
\* host does for it, in order.

Work(kind, r) ==
    CASE kind = "copy"       -> <<WorkEvent("COPY_BUFFER", r.src, r.dst, r)>>
      [] kind = "fill"       -> <<WorkEvent("FILL_BUFFER", None, r.buf, r)>>
      [] kind = "update"     -> <<WorkEvent("UPDATE_BUFFER", None, r.buf, r)>>
      [] kind = "clearColor" -> <<WorkEvent("CLEAR_COLOR_IMAGE", None, r.dst, r)>>
      [] kind = "resolve"    -> <<WorkEvent("RESOLVE_IMAGE", r.src, r.dst, r)>>
      [] kind = "blit"       -> <<WorkEvent("BLIT_IMAGE", r.src, r.dst, r)>>
      [] kind = "imageImage" -> <<WorkEvent("COPY_IMAGE", r.src, r.dst, r)>>
      [] kind = "imageCopy"  -> <<WorkEvent(IF r.dst \in Images THEN "COPY_BUFFER_TO_IMAGE"
                                            ELSE "COPY_IMAGE_TO_BUFFER", r.src, r.dst, r)>>
      [] kind = "clearDepth" ->
            LET aspects == SelectSeq(<<"depth", "stencil">>, LAMBDA a : a \in r.aspect)
            IN  [k \in DOMAIN aspects |-> WorkEvent("CLEAR_DEPTH_STENCIL_IMAGE", aspects[k], r.dst, r)]

\* What the host does for the operations around the frame.
HostOp(c, o) ==
    CASE o.type \in Transfers -> Work(o.type, c.tab[o.type][o.span[o.type][1] + 1])
      [] o.type \in {"fill", "update"} -> Work(o.type, o.data)
      [] o.type = "event" -> <<[what |-> "event", event |-> o.data.event, on |-> o.data.on]>>
      [] o.type = "eventWait" -> <<[what |-> "eventWait", event |-> o.data]>>
      [] OTHER -> <<>>    \* barriers change only what the ICD knows of layouts
HostWork(c, ops) == FlattenSeq([k \in DOMAIN ops |-> HostOp(c, ops[k])])

----------------------------------------------------------------------------
\* What a sequence of calls means

NothingYet ==
    [out |-> <<>>, pipe |-> None, vertex |-> NoSpan, index |-> None, pushed |-> NoSpan,
     sets |-> NoSpan, states |-> NoSpan, target |-> None, pass |-> None]

AttachmentOf(a) ==
    IF a = None THEN None ELSE [view |-> a.view, resolve |-> a.resolve, clear |-> a.clear]
Target(t) ==
    TargetEvent([k \in DOMAIN t.color |-> AttachmentOf(t.color[k])], AttachmentOf(t.depth),
                AttachmentOf(t.stencil), t.area, t.layers)

\* The dynamic offset of an element: they are consumed set by set, in order.
DynamicOf(set, k) == Cardinality({j \in 1..k : set.elements[j].dynamic})
DynamicBefore(s, n, k) ==
    FoldLeft(LAMBDA a, m : a + DynamicOf(s.sets[m], Len(s.sets[m].elements)),
             DynamicOf(s.sets[n], k - 1), [m \in 1..n - 1 |-> m])
ElementMeant(s, n, k) ==
    LET d == s.sets[n].elements[k]
    IN  [element |-> d.element, buf |-> d.buf, view |-> d.view, sampler |-> d.sampler,
         offset |-> IF d.dynamic THEN s.offsets[DynamicBefore(s, n, k) + 1] ELSE 0]
SetsMeant(s) ==
    [x \in s.first..s.first + Len(s.sets) - 1 |->
        {ElementMeant(s, x - s.first + 1, k) : k \in DOMAIN s.sets[x - s.first + 1].elements}]

BarrierMeant(acc, memory, bufs, images) ==
    IF memory = 0 /\ bufs = <<>> /\ images = <<>> THEN acc
    ELSE Out(acc, [what |-> "BARRIER", memory |-> memory,
                   bufs |-> [k \in DOMAIN bufs |-> bufs[k].buf],
                   images |-> [k \in DOMAIN images |-> <<images[k].image, images[k].range,
                                                         images[k].old, images[k].new>>]])

\* The transitions of a render pass from one layout of its attachments to another.
PassBarrier(acc, pass, fb, depends, old, new) ==
    LET changed == SelectSeq([n \in DOMAIN pass.atts |-> n],
                             LAMBDA n : pass.atts[n][old] # pass.atts[n][new])
    IN  BarrierMeant(acc, IF depends THEN 1 ELSE 0, <<>>,
                     [k \in DOMAIN changed |->
                        [image |-> fb[changed[k]].view.image, range |-> fb[changed[k]].view.range,
                         old |-> pass.atts[changed[k]][old], new |-> pass.atts[changed[k]][new]]])

\* What a render pass draws on: its colour attachments in their order, each resolved
\* into the attachment behind it if that one is there to resolve.
PassMeant(s) ==
    LET n == Len(s.pass.atts)
        with(r) == {k \in 1..n : s.pass.atts[k].role \in r}
        drawn(k) == IF k + 1 \in with({"resolve"})
                    THEN [view |-> s.fb[k].view, resolve |-> s.fb[k + 1].view, clear |-> s.fb[k].clear]
                    ELSE s.fb[k]
        aspect(r) == IF with(r) = {} THEN None ELSE drawn(Min(with(r)))
    IN  [color |-> [j \in 1..Cardinality(with({"color"})) |->
                        drawn(CHOOSE k \in with({"color"}) : Cardinality(with({"color"}) \cap 1..k) = j)],
         depth |-> aspect({"depth", "both"}), stencil |-> aspect({"stencil", "both"}),
         layers |-> s.layers, area |-> s.area]

Opened(acc, t) == Out([acc EXCEPT !.target = Target(t)],
                      [what |-> "BEGIN_RENDERING", target |-> Target(t)])
Closed(acc) == Out([acc EXCEPT !.target = None], [what |-> "END_RENDERING"])

Means(acc, s) ==
    CASE s.f = "BindPipeline" ->
            IF s.point = "graphics" THEN [acc EXCEPT !.pipe = s.pipe.name] ELSE acc
      [] s.f = "BindVertexBuffers" ->
            [acc EXCEPT !.vertex = [n \in s.first..s.first + Len(s.bufs) - 1 |->
                                        s.bufs[n - s.first + 1]] @@ @]
      [] s.f = "BindIndexBuffer" -> [acc EXCEPT !.index = [buf |-> s.buf, offset |-> s.offset]]
      [] s.f = "SetDynamicState" ->
            [acc EXCEPT !.states = (s.state.name :> s.state.value) @@ @]
      [] s.f = "PushConstants" ->
            [acc EXCEPT !.pushed = [w \in s.offset..s.offset + Len(s.words) - 1 |->
                                        s.words[w - s.offset + 1]] @@ @]
      [] s.f = "BindDescriptorSets" ->
            IF s.point = "graphics" THEN [acc EXCEPT !.sets = SetsMeant(s) @@ @] ELSE acc
      [] s.f = "BeginRendering" -> Opened(acc, s.target)
      [] s.f = "EndRendering" -> Closed(acc)
      [] s.f = "Draw" ->
            Out(acc, DrawEvent(acc, IF s.indexed THEN "DRAW_INDEXED" ELSE "DRAW",
                               IF s.indexed THEN acc.index ELSE None, s.args,
                               IF s.indirect = None THEN None ELSE <<s.indirect, s.count>>))
      [] s.f = "ClearAttachments" ->
            Out(acc, [what |-> "CLEAR_ATTACHMENTS", target |-> acc.target,
                      atts |-> [k \in DOMAIN s.atts |-> ClearAttachmentEntry(s.atts[k])],
                      rects |-> [k \in DOMAIN s.rects |-> ClearRectEntry(s.rects[k])]])
      [] s.f = "PipelineBarrier" -> BarrierMeant(acc, s.memory, s.bufs, s.images)
      [] s.f = "SetEvent" -> Out(acc, [what |-> "event", event |-> s.event, on |-> s.on])
      [] s.f = "WaitEvents" ->
            BarrierMeant(Out(acc, [what |-> "eventWait", event |-> s.event]),
                         s.memory, s.bufs, s.images)
      [] s.f = "BeginRenderPass" ->
            Opened(PassBarrier([acc EXCEPT !.pass = s], s.pass, s.fb, s.pass.begins,
                               "initial", "layout"),
                   PassMeant(s))
      [] s.f = "EndRenderPass" ->
            [PassBarrier(Closed(acc), acc.pass.pass, acc.pass.fb, acc.pass.pass.ends,
                         "layout", "final") EXCEPT !.pass = None]
      [] s.f = "Transfer" ->
            [acc EXCEPT !.out = @ \o FlattenSeq([k \in DOMAIN s.regions |->
                                                    Work(s.kind, s.regions[k])])]
      [] s.f = "FillOrUpdate" ->
            [acc EXCEPT !.out = @ \o Work(s.kind, [buf |-> s.buf, offset |-> s.offset,
                                                   bytes |-> s.bytes])]
      [] s.f = "Query" ->
            Out(acc, IF s.type = "COPY_QUERY_POOL_RESULTS" THEN [what |-> s.type, dst |-> s.dst]
                     ELSE [what |-> s.type, number |-> s.number])
      [] OTHER -> acc

Meaning(calls) == FoldLeft(Means, NothingYet, calls).out

----------------------------------------------------------------------------
\* Submitting a command buffer that has graphics records sends a frame, built
\* after the host's work before it, which the executor checks and replays.  When
\* the frame cannot be built the submission ends there.

SubmitFrame(s) ==
    LET c == cb[s.b]
    IN  /\ Submittable(s)
        /\ Seqs(c) # {}
        /\ \E v \in {Build(c, AfterBarriers(image, c, OpsBefore(c)), s.syncs)} :
            \/ /\ v.err = "ok"
               /\ HostRuns(c, OpsBefore(c) \o OpsAfter(c))
               /\ sent' = [v |-> v, done |-> Executed(v), said |-> said[s.b],
                           before |-> HostWork(c, OpsBefore(c)), after |-> HostWork(c, OpsAfter(c))]
            \/ /\ v.err # "ok"
               /\ HostRuns(c, OpsBefore(c))
               /\ UNCHANGED sent
SubmitHostWork(s) == Submit(s) /\ Seqs(cb[s.b]) = {} /\ UNCHANGED sent

FInit == Init /\ sent = None
FNext == /\ script # <<>>
         /\ \E s \in Head(script) : \/ Call(s) /\ UNCHANGED sent
                                    \/ SubmitFrame(s)
                                    \/ SubmitHostWork(s)
FSpec == FInit /\ [][FNext]_fvars

----------------------------------------------------------------------------
\* Properties

\* Frames that the builder makes and the executor is known to refuse: tables
\* written over payloads (up to V6.10), a copy of query results, a draw that
\* brings an index buffer, a barrier without stages, ranges of image layouts that
\* a view or barrier cuts, and constants or sets bound before a pipeline.
Holds(v, kind) == \E n \in Numbers(v, "command") : Kind(v, n) = kind
NeedsPipeline == {"PUSH_CONSTANTS", "BIND_DESCRIPTOR_SETS"}
KnownRefusal(v) ==
    \/ v.minor <= 10
    \/ Holds(v, "COPY_QUERY_POOL_RESULTS")
    \/ \E n \in Numbers(v, "command") : Kind(v, n) = "DRAW" /\ At(v, "command", n).index # Nowhere
    \/ \E s \in {"memoryBarrier", "bufferBarrier", "imageBarrier"} :
            \E k \in DOMAIN v.t[s] : ~v.t[s][k].staged
    \/ v.t["layoutRange"] # <<>>
    \/ \E n \in Numbers(v, "command") :
            /\ Kind(v, n) \in NeedsPipeline
            /\ \A m \in 0..n - 1 : Kind(v, m) # "BIND_PIPELINE"

\* Every other frame that the ICD could build is accepted by the executor and
\* replayed to its end: nothing recorded and accepted is refused later for how it
\* was put into the frame (content and preflight checks of pdocker_gpu_executor.c
\* against the builder of pdocker_vulkan_icd.c).
FrameIsAccepted ==
    sent # None /\ ~KnownRefusal(sent.v) => sent.done.ok

\* A draw whose constants or vertex buffers the application has bound again by
\* the end of the recording.  The builder reads both from the command buffer when
\* it is submitted, so such a draw gets the later ones.
DrawsOf(out) == {n \in DOMAIN out : out[n].what \in {"DRAW", "DRAW_INDEXED"}}
Rebound(calls) ==
    LET end == FoldLeft(Means, NothingYet, calls)
    IN  \E n \in DrawsOf(end.out) :
            \/ \E w \in DOMAIN end.out[n].pushed : end.out[n].pushed[w] # end.pushed[w]
            \/ \E k \in DOMAIN end.out[n].vertex : end.out[n].vertex[k] # end.vertex[k]

\* The host's work before the frame, the replay and the host's work after it are
\* together what the application's calls mean: each transfer, draw, clear, query
\* and barrier once, in order, each draw with the pipeline, buffers, constants,
\* descriptors, states and attachments it had at its call, those named above
\* excepted (vkQueueSubmit, the builder and the replay).
ReplayIsMeant ==
    sent # None /\ sent.done.ok /\ ~Rebound(sent.said) =>
        sent.before \o sent.done.out \o sent.after = Meaning(sent.said)

\* Every change of layout that the replay adds by itself to an image sent with
\* several layouts begins at the layout the image is in there: the one it was
\* sent with, or the last change over it (the range helpers of the replay).
LayoutBefore(w, moves, k, n, p) ==    \* of subresource p of image n, before move k
    LET over == {j \in 1..k - 1 : moves[j].image = n /\ p \in moves[j].range}
    IN  IF over = {} THEN LayoutOf(FirstLayouts(w)[n], {p}) ELSE moves[Max(over)].new
Chained(w, moves) ==
    \A k \in DOMAIN moves :
        moves[k].old # None /\ FirstLayouts(w)[moves[k].image].active =>
            \A p \in moves[k].range : LayoutBefore(w, moves, k, moves[k].image, p) = moves[k].old
TransitionsChain == sent # None /\ sent.done.ok => Chained(Seen(sent.v), sent.done.moves)

\* The comment at the builder's cursor: the largest header is reserved before the
\* payloads "so a later ABI upgrade cannot overlap data already written".  No
\* table is written over a payload, and every payload is in the frame.
PayloadsAreKept ==
    sent # None => \A k \in DOMAIN sent.v.load : Intact(Seen(sent.v), k)
=============================================================================
