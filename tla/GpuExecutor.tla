------------------------------ MODULE GpuExecutor ------------------------------
(***************************************************************************)
(* What the GPU executor (app/src/main/cpp/pdocker_gpu_executor.c) does with *)
(* a frame: it checks the header, the places of the tables and all that they *)
(* point at, walks the commands once to see whether it can replay them, and  *)
(* then replays them on the device.  A replay is the sequence of what the    *)
(* device is told to do, with the state each draw finds.  The device, its    *)
(* memory and the formats of images are left out.                            *)
(***************************************************************************)
EXTENDS GpuFrame

----------------------------------------------------------------------------
\* Reading a frame.  v is what Build gave, restricted to the tables of its minor.

Seen(v) == [v EXCEPT !.t = [s \in Sections |-> IF s \in Carried(v.minor) THEN @[s] ELSE <<>>]]
Numbers(v, s) == 0..Rows(v, s) - 1
In(v, s, n) == n \in Numbers(v, s)
At(v, s, n) == v.t[s][n + 1]
SpanIn(v, s, span) == span[1] \in 0..Rows(v, s) /\ span[2] \in 0..Rows(v, s) - span[1]
Part(v, s, span) == SubSeq(v.t[s], span[1] + 1, span[1] + span[2])
Every(v, s, P(_)) == \A k \in DOMAIN v.t[s] : P(v.t[s][k])
IsBuffer(v, n) == In(v, "resource", n) /\ At(v, "resource", n).kind = "buffer"
IsMemory(v, n) == In(v, "resource", n) /\ At(v, "resource", n).kind = "memory"
IsImage(v, n) == In(v, "image", n)
Kind(v, n) == At(v, "command", n).kind
Obj(v, s, n) == IF n = Nowhere THEN None ELSE At(v, s, n).obj

\* Stretches of the frame, as <<first byte, how many>>.
Apart(p, q) == p[2] = 0 \/ q[2] = 0 \/ p[1] + p[2] <= q[1] \/ q[1] + q[2] <= p[1]
Stretch(v, k) == <<v.load[k].at, v.load[k].bytes>>
InFrame(v, k) == k = 0 \/ v.load[k].at + v.load[k].bytes <= v.size

\* A payload with a hash is refused when a table was written over it.
Intact(v, k) ==
    /\ InFrame(v, k)
    /\ k # 0 => \A s \in DOMAIN v.place : Apart(Stretch(v, k), v.place[s])

HeaderFits(v) ==
    /\ v.minor \in Minors
    /\ \A s \in Sections : Rows(v, s) <= FrameRoom[s]

TablesFit(v) ==
    \A s \in Carried(v.minor) :
        /\ v.place[s][2] = Rows(v, s) * EntrySize[s]
        /\ v.place[s][2] > 0 => /\ v.place[s][1] >= HeaderSize(v.minor)
                                /\ v.place[s][1] % 8 = 0
                                /\ v.place[s][1] + v.place[s][2] <= v.size

\* From V6.11 on the bytes from the first to the last update are a stretch too;
\* it begins where the payload before the first update ends, not yet aligned.
UpdateStretch(v) ==
    LET loads == {v.t["update"][k].load : k \in DOMAIN v.t["update"]}
    IN  IF loads = {} THEN <<0, 0>>
        ELSE LET n == Min(loads)
                 from == IF n = 1 THEN v.load[n].at ELSE v.load[n - 1].at + v.load[n - 1].bytes
                 last == v.load[Max(loads)]
             IN  <<from, last.at + last.bytes - from>>
NoOverlap(v) ==
    /\ \A s, u \in Carried(v.minor) : s # u => Apart(v.place[s], v.place[u])
    /\ \A s \in Carried(v.minor) : Apart(UpdateStretch(v), v.place[s])

----------------------------------------------------------------------------
\* What the tables point at.  Entries that belong to commands name each command
\* of their kinds exactly once.

Names(v, s, kinds) ==
    /\ Every(v, s, LAMBDA x : In(v, "command", x.command) /\ Kind(v, x.command) \in kinds)
    /\ \A j, k \in DOMAIN v.t[s] : v.t[s][j].command = v.t[s][k].command => j = k
Owns(v, s, kinds) ==
    /\ Names(v, s, kinds)
    /\ \A n \in Numbers(v, "command") : Kind(v, n) \in kinds =>
            \E k \in DOMAIN v.t[s] : v.t[s][k].command = n

ResourcesFit(v) ==
    Every(v, "resource", LAMBDA x : IF x.kind = "memory" THEN x.parent = Nowhere
                                    ELSE IsMemory(v, x.parent))
ImagesFit(v) ==
    /\ Every(v, "image", LAMBDA x : IsMemory(v, x.memory))
    /\ Every(v, "view", LAMBDA x : IsImage(v, x.image))
DescriptorsFit(v) ==
    Every(v, "descriptor", LAMBDA x :
        /\ IF x.view = Nowhere /\ x.sampler = Nowhere THEN IsBuffer(v, x.resource)
           ELSE /\ x.resource = Nowhere /\ ~x.dynamic
                /\ x.view # Nowhere => In(v, "view", x.view)
                /\ x.sampler # Nowhere => In(v, "sampler", x.sampler)
        /\ ~x.dynamic => x.offset = 0)

\* The layouts of an image do not contradict each other.
LayoutRangesFit(v) ==
    /\ Every(v, "layoutRange", LAMBDA x : IsImage(v, x.image))
    /\ \A j, k \in DOMAIN v.t["layoutRange"] :
        LET a == v.t["layoutRange"][j]
            b == v.t["layoutRange"][k]
        IN  a.image = b.image /\ Overlaps(a.range, b.range) => a.layout = b.layout

StagesFit(v) ==
    /\ Every(v, "stage", LAMBDA x : InFrame(v, x.name) /\ Intact(v, x.spec))
    /\ Every(v, "specialization", LAMBDA x :
            /\ In(v, "stage", x.stage)
            /\ At(v, "stage", x.stage).spec # 0
            /\ x.offset < v.load[At(v, "stage", x.stage).spec].bytes)

\* A state of which a pipeline has at most one, and its rows, which are numbered
\* and name the pipeline.
OncePerPipeline(v, s) ==
    /\ Every(v, s, LAMBDA x : In(v, "pipeline", x.pipeline))
    /\ \A j, k \in DOMAIN v.t[s] : v.t[s][j].pipeline = v.t[s][k].pipeline => j = k
RowsOf(v, s, span, pipeline) ==
    /\ SpanIn(v, s, span)
    /\ \A x \in ToSet(Part(v, s, span)) : x.pipeline = pipeline
    /\ Cardinality({x.number : x \in ToSet(Part(v, s, span))}) = span[2]
StatesFit(v) ==
    /\ Every(v, "depthStencil", LAMBDA x : /\ In(v, "pipeline", x.pipeline)
                                           /\ At(v, "pipeline", x.pipeline).depth)
    /\ OncePerPipeline(v, "static")
    /\ OncePerPipeline(v, "blend")
    /\ Every(v, "blend", LAMBDA x :
            /\ x.span[2] = At(v, "pipeline", x.pipeline).colors
            /\ RowsOf(v, "blendAttachment", x.span, x.pipeline))
    /\ OncePerPipeline(v, "viewportState")
    /\ Every(v, "viewportState", LAMBDA x :
            /\ x.views[1] # Nowhere => x.views[2] > 0 /\ RowsOf(v, "viewport", x.views, x.pipeline)
            /\ x.scissors[1] # Nowhere =>
                    x.scissors[2] > 0 /\ RowsOf(v, "scissor", x.scissors, x.pipeline))

PipelinesFit(v) ==
    /\ Every(v, "pipeline", LAMBDA x :
            /\ SpanIn(v, "stage", x.stages)
            /\ SpanIn(v, "vertexBinding", x.bindings)
            /\ SpanIn(v, "vertexAttribute", x.attributes)
            /\ \A a \in ToSet(Part(v, "vertexAttribute", x.attributes)) :
                    \E b \in ToSet(Part(v, "vertexBinding", x.bindings)) : b.slot = a.binding)
    /\ Every(v, "vertexBinding", LAMBDA x : x.resource = Nowhere \/ IsBuffer(v, x.resource))

AttachmentsFit(v) ==
    /\ Every(v, "attachment", LAMBDA x :
            /\ \A n \in {x.view, x.resolve} : n = Nowhere \/ In(v, "view", n)
            /\ InFrame(v, x.load))
    /\ Every(v, "resolveAttachment", LAMBDA x :
            /\ In(v, "attachment", x.attachment)
            /\ At(v, "attachment", x.attachment).resolve # Nowhere)
    /\ Cardinality(ToSet(v.t["resolveAttachment"])) = Rows(v, "resolveAttachment")

BarriersFit(v) ==
    /\ \A s \in {"memoryBarrier", "bufferBarrier", "imageBarrier"} :
        Every(v, s, LAMBDA x : /\ In(v, "command", x.command) /\ Kind(v, x.command) = "BARRIER"
                               /\ x.staged)
    /\ Every(v, "bufferBarrier", LAMBDA x : IsBuffer(v, x.resource))
    /\ Every(v, "imageBarrier", LAMBDA x : IsImage(v, x.image))

\* Commands

\* The kinds that exist only from a minor on.
CommandMinor ==
    [COPY_BUFFER |-> 9, COPY_BUFFER_TO_IMAGE |-> 10, COPY_IMAGE_TO_BUFFER |-> 10,
     COPY_IMAGE |-> 10, FILL_BUFFER |-> 11, UPDATE_BUFFER |-> 11, CLEAR_COLOR_IMAGE |-> 12,
     CLEAR_DEPTH_STENCIL_IMAGE |-> 13, RESOLVE_IMAGE |-> 14, BLIT_IMAGE |-> 15,
     CLEAR_ATTACHMENTS |-> 16, COPY_QUERY_POOL_RESULTS |-> 18] @@ [q \in Queries |-> 17]

StateFree(x) ==
    /\ x.pipeline = Nowhere /\ x.load = 0
    /\ \A span \in {x.descriptors, x.vertices, x.attachments, x.states} : span[2] = 0

CommandFits(v, n, x) ==
    /\ x.pipeline = Nowhere \/ In(v, "pipeline", x.pipeline)
    /\ SpanIn(v, "attachment", x.attachments) /\ SpanIn(v, "descriptor", x.descriptors)
    /\ SpanIn(v, "dynamicOffset", x.offsets) /\ SpanIn(v, "dynamicState", x.states)
    /\ SpanIn(v, "vertexBinding", x.vertices)
    /\ x.kind \in {"DRAW", "DRAW_INDEXED"} => x.pipeline # Nowhere
    /\ x.kind = "DRAW" => x.index = Nowhere
    /\ x.kind = "DRAW_INDEXED" => IsBuffer(v, x.index)
    /\ x.index = Nowhere \/ In(v, "resource", x.index)
    /\ x.kind = "BIND_VERTEX_BUFFERS" =>
            \A b \in ToSet(Part(v, "vertexBinding", x.vertices)) : b.resource # Nowhere
    /\ x.kind = "BIND_DESCRIPTOR_SETS" =>
            /\ x.firstSet # Nowhere
            /\ Len(SelectSeq(Part(v, "descriptor", x.descriptors), LAMBDA d : d.dynamic))
                    = x.offsets[2]
    /\ x.kind \in DOMAIN CommandMinor => v.minor >= CommandMinor[x.kind] /\ StateFree(x)
    /\ Intact(v, x.load)
    /\ x.kind = "PUSH_CONSTANTS" =>
            Cardinality({k \in DOMAIN v.t["push"] : v.t["push"][k].command = n}) = 1
CommandsFit(v) == \A n \in Numbers(v, "command") : CommandFits(v, n, At(v, "command", n))

StateLoadsFit(v) ==
    /\ Every(v, "dynamicState", LAMBDA x : Intact(v, x.load))
    /\ Every(v, "push", LAMBDA x :
            /\ In(v, "command", x.command) /\ Kind(v, x.command) = "PUSH_CONSTANTS"
            /\ v.load[At(v, "command", x.command).load].bytes = x.size * WordBytes)

TransfersFit(v) ==
    /\ Owns(v, "bufferCopy", {"COPY_BUFFER"})
    /\ Every(v, "bufferCopy", LAMBDA x : IsBuffer(v, x.src) /\ IsBuffer(v, x.dst))
    /\ Owns(v, "bufferImageCopy", {"COPY_BUFFER_TO_IMAGE", "COPY_IMAGE_TO_BUFFER"})
    /\ Every(v, "bufferImageCopy", LAMBDA x : IsBuffer(v, x.resource) /\ IsImage(v, x.image))
    /\ Owns(v, "imageCopy", {"COPY_IMAGE"})
    /\ Owns(v, "resolve", {"RESOLVE_IMAGE"})
    /\ Owns(v, "blit", {"BLIT_IMAGE"})
    /\ \A s \in {"imageCopy", "resolve", "blit"} :
            Every(v, s, LAMBDA x : IsImage(v, x.src) /\ IsImage(v, x.dst))
    /\ Owns(v, "fill", {"FILL_BUFFER"})
    /\ Every(v, "fill", LAMBDA x : IsBuffer(v, x.dst))
    /\ Owns(v, "update", {"UPDATE_BUFFER"})
    /\ Every(v, "update", LAMBDA x : IsBuffer(v, x.dst) /\ Intact(v, x.load))
    /\ Owns(v, "clearColor", {"CLEAR_COLOR_IMAGE"})
    /\ Owns(v, "clearDepth", {"CLEAR_DEPTH_STENCIL_IMAGE"})
    /\ \A s \in {"clearColor", "clearDepth"} : Every(v, s, LAMBDA x : IsImage(v, x.image))

ClearsFit(v) ==
    /\ Owns(v, "clear", {"CLEAR_ATTACHMENTS"})
    /\ Every(v, "clear", LAMBDA x :
            /\ x.attachments[2] > 0 /\ SpanIn(v, "clearAttachment", x.attachments)
            /\ x.rects[2] > 0 /\ SpanIn(v, "clearRect", x.rects))

QueriesFit(v) ==
    /\ Owns(v, "query", Queries)
    /\ Every(v, "query", LAMBDA x : /\ x.op = Kind(v, x.command)
                                    /\ x.number = 1 \/ (x.op = "RESET_QUERY_POOL" /\ x.number > 0))
    /\ Owns(v, "copyQuery", {"COPY_QUERY_POOL_RESULTS"})
    /\ Every(v, "copyQuery", LAMBDA x : IsBuffer(v, x.dst) /\ x.number > 0)

IndirectFits(v) ==
    /\ Names(v, "indirect", {"DRAW", "DRAW_INDEXED"})
    /\ Every(v, "indirect", LAMBDA x : IsBuffer(v, x.resource) /\ x.count > 0)

WellFormed(v) ==
    /\ HeaderFits(v) /\ TablesFit(v) /\ NoOverlap(v)
    /\ ResourcesFit(v) /\ ImagesFit(v) /\ DescriptorsFit(v) /\ LayoutRangesFit(v)
    /\ StagesFit(v) /\ StatesFit(v) /\ PipelinesFit(v) /\ AttachmentsFit(v)
    /\ BarriersFit(v) /\ CommandsFit(v) /\ StateLoadsFit(v)
    /\ TransfersFit(v) /\ ClearsFit(v) /\ QueriesFit(v) /\ IndirectFits(v)

----------------------------------------------------------------------------
\* One walk over the commands, before anything is made on the device

InRendering == {"DRAW", "DRAW_INDEXED", "CLEAR_ATTACHMENTS"}
OutOfRendering ==
    {"COPY_BUFFER", "COPY_BUFFER_TO_IMAGE", "COPY_IMAGE_TO_BUFFER", "COPY_IMAGE", "FILL_BUFFER",
     "UPDATE_BUFFER", "CLEAR_COLOR_IMAGE", "CLEAR_DEPTH_STENCIL_IMAGE", "RESOLVE_IMAGE",
     "BLIT_IMAGE"}
Replayable == Queries \cup
    {"SET_DYNAMIC_STATE", "BIND_VERTEX_BUFFERS", "BIND_INDEX_BUFFER", "PUSH_CONSTANTS",
     "BIND_DESCRIPTOR_SETS"}

\* The attachments of a rendering with a role, unused color slots included.
WithRole(v, x, role) ==
    SelectSeq(Part(v, "attachment", x.attachments), LAMBDA a : a.role = role)
Clearable(v, x, a) ==
    IF "color" \in a.aspect
    THEN /\ a.color < Len(WithRole(v, x, "color"))
         /\ WithRole(v, x, "color")[a.color + 1].view # Nowhere
    ELSE \A role \in a.aspect : WithRole(v, x, role) # <<>>
ClearMatches(v, n, x) ==
    \E e \in ToSet(v.t["clear"]) :
        /\ e.command = n
        /\ \A a \in ToSet(Part(v, "clearAttachment", e.attachments)) : Clearable(v, x, a)
        /\ \A r \in ToSet(Part(v, "clearRect", e.rects)) :
                Inside(r, x.area) /\ r.base + r.layers <= x.layers

BeginFits(v, x) ==
    /\ x.attachments[2] > 0
    /\ \A n \in x.attachments[1]..x.attachments[1] + x.attachments[2] - 1 :
        LET a == At(v, "attachment", n)
        IN  /\ a.view = Nowhere => a.role = "color" /\ a.resolve = Nowhere
            /\ a.resolve # Nowhere => \E r \in ToSet(v.t["resolveAttachment"]) : r.attachment = n

PipelineFits(v, n) ==
    /\ In(v, "pipeline", n)
    /\ At(v, "pipeline", n).depth => \E d \in ToSet(v.t["depthStencil"]) : d.pipeline = n
    /\ v.minor < 2 => \A s \in ToSet(Part(v, "stage", At(v, "pipeline", n).stages)) : s.spec = 0

Barriers(v, n) ==
    [s \in {"memoryBarrier", "bufferBarrier", "imageBarrier"} |->
        SelectSeq(v.t[s], LAMBDA b : b.command = n)]

\* acc.in is the rendering that is open, acc.bound whether a pipeline is bound.
\* A copy of query results is not among the commands it knows.
CheckCommand(v, acc, n) ==
    LET x == At(v, "command", n)
        fits ==
            CASE x.kind = "BEGIN_RENDERING" -> acc.in = None /\ BeginFits(v, x)
              [] x.kind = "END_RENDERING"   -> acc.in # None
              [] x.kind = "BIND_PIPELINE"   -> PipelineFits(v, x.pipeline)
              [] x.kind = "CLEAR_ATTACHMENTS" -> acc.in # None /\ ClearMatches(v, n, acc.in)
              [] x.kind \in InRendering     -> acc.in # None /\ acc.bound
              [] x.kind \in OutOfRendering  -> acc.in = None
              [] x.kind = "BARRIER"         -> \E s \in DOMAIN Barriers(v, n) : Barriers(v, n)[s] # <<>>
              [] OTHER                      -> x.kind \in Replayable
    IN  [in |-> CASE x.kind = "BEGIN_RENDERING" -> x
                  [] x.kind = "END_RENDERING" -> None
                  [] OTHER -> acc.in,
         bound |-> acc.bound \/ x.kind = "BIND_PIPELINE",
         ok |-> acc.ok /\ fits]

Steps(v) == [k \in 1..Rows(v, "command") |-> k - 1]

Preflight(v) ==
    LET end == FoldLeft(LAMBDA acc, n : IF acc.ok THEN CheckCommand(v, acc, n) ELSE acc,
                        [in |-> None, bound |-> FALSE, ok |-> TRUE], Steps(v))
    IN  end.ok /\ end.in = None

----------------------------------------------------------------------------
\* Layouts of images during the replay: one for the whole image or, for the
\* images that were sent with several, one for each range that was named.

Named(im, range) == {e \in im.ranges : Overlaps(e.range, range)}
Readable(im, range) ==
    \A e, d \in Named(im, range) : range \subseteq e.range /\ e.layout = d.layout
\* Mutant: part of a named range may change.
WritableInside(im, range) == \A e \in Named(im, range) : range \subseteq e.range
Writable(im, range) == \A e \in Named(im, range) : e.range = range
LayoutOf(im, range) ==
    IF im.active /\ Named(im, range) # {} THEN (CHOOSE e \in Named(im, range) : TRUE).layout
    ELSE im.current
WithLayout(im, range, layout) ==
    IF ~im.active THEN [im EXCEPT !.current = layout]
    ELSE IF Named(im, range) = {}
    THEN [im EXCEPT !.ranges = @ \cup {[range |-> range, layout |-> layout]}]
    ELSE [im EXCEPT !.ranges = {IF Overlaps(e.range, range) THEN [e EXCEPT !.layout = layout] ELSE e :
                                e \in @}]

FirstLayouts(v) ==
    [n \in Numbers(v, "image") |->
        LET mine == {x \in ToSet(v.t["layoutRange"]) : x.image = n}
        IN  [active |-> mine # {}, current |-> At(v, "image", n).layout,
             ranges |-> {[range |-> x.range, layout |-> x.layout] : x \in mine}]]

\* A change of layout.  The replay's own ones begin at the layout it believes in.
Move(acc, i, range, new, own) ==
    LET im == acc.layouts[i]
    IN  IF im.active /\ (~Writable(im, range) \/ (own /\ ~Readable(im, range)))
        THEN [acc EXCEPT !.ok = FALSE]
        ELSE [acc EXCEPT !.layouts[i] = WithLayout(im, range, new),
                         !.moves = Append(@, [image |-> i, range |-> range, new |-> new,
                                              old |-> IF own THEN LayoutOf(im, range) ELSE None])]

MoveView(acc, v, view, new) ==
    IF view = Nowhere THEN acc
    ELSE Move(acc, At(v, "view", view).image, At(v, "view", view).obj.range, new, TRUE)

----------------------------------------------------------------------------
\* The replay

FreshReplay(v) ==
    [ok |-> TRUE, out |-> <<>>, pipe |-> None, vertex |-> NoSpan, index |-> None,
     pushed |-> NoSpan, sets |-> NoSpan, states |-> NoSpan, target |-> None,
     layouts |-> FirstLayouts(v), moves |-> <<>>]

Out(acc, e) == [acc EXCEPT !.out = Append(@, e)]
Refuse(acc) == [acc EXCEPT !.ok = FALSE]

\* What the device is told.
TargetEvent(color, depth, stencil, area, layers) ==
    [color |-> color, depth |-> depth, stencil |-> stencil, area |-> area, layers |-> layers]
DrawEvent(acc, kind, index, args, indirect) ==
    [what |-> kind, pipe |-> acc.pipe, vertex |-> acc.vertex, index |-> index,
     pushed |-> acc.pushed, sets |-> acc.sets, states |-> acc.states, target |-> acc.target,
     args |-> args, indirect |-> indirect]
WorkEvent(kind, src, dst, data) == [what |-> kind, src |-> src, dst |-> dst, data |-> data]

AttachmentMeant(v, a) ==
    IF a.view = Nowhere THEN None
    ELSE [view |-> Obj(v, "view", a.view), resolve |-> Obj(v, "view", a.resolve), clear |-> a.load # 0]
TargetOf(v, x) ==
    LET all(role) == [k \in DOMAIN WithRole(v, x, role) |-> AttachmentMeant(v, WithRole(v, x, role)[k])]
        one(role) == IF all(role) = <<>> THEN None ELSE all(role)[1]
    IN  TargetEvent(all("color"), one("depth"), one("stencil"), x.area, x.layers)

ReplayBegin(v, acc, x) ==
    LET moved == FoldLeft(LAMBDA b, a : MoveView(MoveView(b, v, a.view, a.role), v, a.resolve, a.role),
                          acc, Part(v, "attachment", x.attachments))
    IN  Out([moved EXCEPT !.target = TargetOf(v, x)],
            [what |-> "BEGIN_RENDERING", target |-> TargetOf(v, x)])

ReplayStates(v, acc, x) ==
    [acc EXCEPT !.states = FoldLeft(LAMBDA b, d : (d.state.name :> d.state.value) @@ b, @,
                                    Part(v, "dynamicState", x.states))]

ReplayPush(v, acc, x, n) ==
    LET meta == CHOOSE m \in ToSet(v.t["push"]) : m.command = n
    IN  IF acc.pipe = None THEN Refuse(acc)
        ELSE [acc EXCEPT !.pushed = [w \in meta.offset..meta.offset + meta.size - 1 |->
                                        x.args[w - meta.offset + 1]] @@ @]

ReplayVertices(v, acc, x) ==
    LET rows == Part(v, "vertexBinding", x.vertices)
    IN  IF \E k \in DOMAIN rows : rows[k].slot # rows[1].slot + k - 1 THEN Refuse(acc)
        ELSE [acc EXCEPT !.vertex = FoldLeft(LAMBDA b, r : (r.slot :> Obj(v, "resource", r.resource)) @@ b,
                                             @, rows)]

\* Every set from the first one named to the last one with a descriptor.
ReplaySets(v, acc, x) ==
    LET rows == Part(v, "descriptor", x.descriptors)
        last == Max({rows[k].set : k \in DOMAIN rows})
        write(d) == [element |-> d.element, buf |-> Obj(v, "resource", d.resource),
                     view |-> Obj(v, "view", d.view), sampler |-> Obj(v, "sampler", d.sampler),
                     offset |-> d.offset]
        moved == FoldLeft(LAMBDA b, d : MoveView(b, v, d.view, "sampled"), acc, rows)
    IN  IF acc.pipe = None \/ rows = <<>> \/ \E d \in ToSet(rows) : d.set < x.firstSet
        THEN Refuse(acc)
        ELSE [moved EXCEPT !.sets = [s \in x.firstSet..last |->
                                        {write(d) : d \in {e \in ToSet(rows) : e.set = s}}] @@ @]

ReplayDraw(v, acc, x, n) ==
    LET indirect == SelectSeq(v.t["indirect"], LAMBDA i : i.command = n)
        index == IF x.kind = "DRAW_INDEXED"
                 THEN [buf |-> Obj(v, "resource", x.index), offset |-> x.indexOffset] ELSE acc.index
        from == IF indirect = <<>> THEN None
                ELSE <<Obj(v, "resource", indirect[1].resource), indirect[1].count>>
    IN  IF acc.pipe # Obj(v, "pipeline", x.pipeline) THEN Refuse(acc)
        ELSE Out([acc EXCEPT !.index = index],
                 DrawEvent(acc, x.kind, IF x.kind = "DRAW_INDEXED" THEN index ELSE None, x.args, from))

ReplayBarrier(v, acc, n) ==
    LET b == Barriers(v, n)
        moved == FoldLeft(LAMBDA a, x : IF x.command = n THEN Move(a, x.image, x.range, x.new, FALSE)
                                        ELSE a, acc, v.t["imageBarrier"])
        event == [what |-> "BARRIER", memory |-> Len(b["memoryBarrier"]),
                  bufs |-> [k \in DOMAIN b["bufferBarrier"] |->
                                Obj(v, "resource", b["bufferBarrier"][k].resource)],
                  images |-> [k \in DOMAIN b["imageBarrier"] |->
                                LET x == b["imageBarrier"][k]
                                IN  <<Obj(v, "image", x.image), x.range, x.old, x.new>>]]
    IN  Out(moved, event)

ReplayClear(v, acc, n) ==
    LET e == CHOOSE c \in ToSet(v.t["clear"]) : c.command = n
    IN  Out(acc, [what |-> "CLEAR_ATTACHMENTS", target |-> acc.target,
                  atts |-> Part(v, "clearAttachment", e.attachments),
                  rects |-> Part(v, "clearRect", e.rects)])

\* A transfer finds the entry that names it; it leaves its images in the layout
\* that the application said they are in.
EntryOf(v, s, n) == CHOOSE e \in ToSet(v.t[s]) : e.command = n
MoveImages(acc, src, dst, e) ==
    LET one == IF src = Nowhere THEN acc ELSE Move(acc, src, e.data.range, "transferSrc", FALSE)
    IN  IF dst = Nowhere THEN one ELSE Move(one, dst, e.data.range, "transferDst", FALSE)
ReplayTransfer(v, acc, kind, n) ==
    CASE kind = "COPY_BUFFER" ->
            LET e == EntryOf(v, "bufferCopy", n)
            IN  Out(acc, WorkEvent(kind, Obj(v, "resource", e.src), Obj(v, "resource", e.dst), e.data))
      [] kind = "FILL_BUFFER" ->
            LET e == EntryOf(v, "fill", n)
            IN  Out(acc, WorkEvent(kind, None, Obj(v, "resource", e.dst), e.data))
      [] kind = "UPDATE_BUFFER" ->
            LET e == EntryOf(v, "update", n)
            IN  Out(acc, WorkEvent(kind, None, Obj(v, "resource", e.dst), e.data))
      [] kind = "CLEAR_COLOR_IMAGE" ->
            LET e == EntryOf(v, "clearColor", n)
            IN  Out(MoveImages(acc, Nowhere, e.image, e),
                    WorkEvent(kind, None, Obj(v, "image", e.image), e.data))
      [] kind = "CLEAR_DEPTH_STENCIL_IMAGE" ->
            LET e == EntryOf(v, "clearDepth", n)
            IN  Out(MoveImages(acc, Nowhere, e.image, e),
                    WorkEvent(kind, e.aspect, Obj(v, "image", e.image), e.data))
      [] kind = "COPY_BUFFER_TO_IMAGE" ->
            LET e == EntryOf(v, "bufferImageCopy", n)
            IN  Out(MoveImages(acc, Nowhere, e.image, e),
                    WorkEvent(kind, Obj(v, "resource", e.resource), Obj(v, "image", e.image), e.data))
      [] kind = "COPY_IMAGE_TO_BUFFER" ->
            LET e == EntryOf(v, "bufferImageCopy", n)
            IN  Out(MoveImages(acc, e.image, Nowhere, e),
                    WorkEvent(kind, Obj(v, "image", e.image), Obj(v, "resource", e.resource), e.data))
      [] OTHER ->
            LET e == EntryOf(v, CASE kind = "COPY_IMAGE" -> "imageCopy"
                                  [] kind = "RESOLVE_IMAGE" -> "resolve"
                                  [] kind = "BLIT_IMAGE" -> "blit", n)
            IN  Out(MoveImages(acc, e.src, e.dst, e),
                    WorkEvent(kind, Obj(v, "image", e.src), Obj(v, "image", e.dst), e.data))

ReplayQuery(v, acc, n) ==
    Out(acc, [what |-> Kind(v, n), number |-> EntryOf(v, "query", n).number])
ReplayCopyQuery(v, acc, n) ==
    Out(acc, [what |-> Kind(v, n), dst |-> Obj(v, "resource", EntryOf(v, "copyQuery", n).dst)])

ReplayCommand(v, acc, n) ==
    LET x == At(v, "command", n)
    IN  CASE x.kind = "BEGIN_RENDERING" -> ReplayBegin(v, acc, x)
          [] x.kind = "END_RENDERING" ->
                Out([acc EXCEPT !.target = None], [what |-> "END_RENDERING"])
          [] x.kind = "BIND_PIPELINE" -> [acc EXCEPT !.pipe = Obj(v, "pipeline", x.pipeline)]
          [] x.kind = "SET_DYNAMIC_STATE" -> ReplayStates(v, acc, x)
          [] x.kind = "PUSH_CONSTANTS" -> ReplayPush(v, acc, x, n)
          [] x.kind = "BIND_VERTEX_BUFFERS" -> ReplayVertices(v, acc, x)
          [] x.kind = "BIND_INDEX_BUFFER" ->
                [acc EXCEPT !.index = [buf |-> Obj(v, "resource", x.index), offset |-> x.indexOffset]]
          [] x.kind = "BIND_DESCRIPTOR_SETS" -> ReplaySets(v, acc, x)
          [] x.kind \in {"DRAW", "DRAW_INDEXED"} -> ReplayDraw(v, acc, x, n)
          [] x.kind = "CLEAR_ATTACHMENTS" -> ReplayClear(v, acc, n)
          [] x.kind = "BARRIER" -> ReplayBarrier(v, acc, n)
          [] x.kind \in Queries -> ReplayQuery(v, acc, n)
          [] x.kind = "COPY_QUERY_POOL_RESULTS" -> ReplayCopyQuery(v, acc, n)
          [] OTHER -> ReplayTransfer(v, acc, x.kind, n)

Replay(v) == FoldLeft(LAMBDA acc, n : IF acc.ok THEN ReplayCommand(v, acc, n) ELSE acc,
                      FreshReplay(v), Steps(v))

\* The outcome of a frame: what the device was told, or a refusal.
Refused == [ok |-> FALSE, out |-> <<>>, moves |-> <<>>]
Outcome(acc) == IF acc.ok THEN [ok |-> TRUE, out |-> acc.out, moves |-> acc.moves] ELSE Refused
Executed(v) ==
    LET w == Seen(v)
    IN  IF WellFormed(w) /\ Preflight(w) THEN Outcome(Replay(w)) ELSE Refused
=============================================================================
