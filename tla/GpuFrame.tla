------------------------------ MODULE GpuFrame ------------------------------
(***************************************************************************)
(* The frame the ICD makes of a recorded command buffer at its submission    *)
(* (send_recorded_vulkan_graphics_v6_1_frame of pdocker_vulkan_icd.c): the    *)
(* pipelines, states and commands of the recording with every object they     *)
(* use, in tables that point at each other by number.                         *)
(***************************************************************************)
EXTENDS GpuCommands, GpuAbi

CONSTANTS
    MemoryOf,    \* buffer or image -> the memory it is bound to
    FrameRoom,   \* table -> how many entries a frame may have in it
    NameBytes, StateBytes, ClearBytes, WordBytes   \* sizes of payloads

ASSUME FrameAssumption ==
    /\ FrameRoom \in [Sections -> Nat]
    /\ {NameBytes, StateBytes, ClearBytes, WordBytes} \subseteq Nat \ {0}

\* A frame under construction: its tables, its payloads with their places, the
\* first free byte, the first error, and what is known of image layouts.  The
\* payloads start behind the largest header.
EmptyFrame(layouts) ==
    [t |-> [s \in Sections |-> <<>>], load |-> <<>>, at |-> HeaderSize(20), err |-> "ok",
     layouts |-> layouts]

Fail(f, e) == IF f.err = "ok" THEN [f EXCEPT !.err = e] ELSE f
Then(f, next) == IF f.err = "ok" THEN next ELSE f    \* the first error ends the building
Rows(f, s) == Len(f.t[s])
Add(f, s, x) == IF Rows(f, s) >= FrameRoom[s] THEN Fail(f, "E2BIG")
                ELSE [f EXCEPT !.t[s] = Append(@, x)]
Aligned(n) == ((n + 7) \div 8) * 8
Load(f, bytes) == [f EXCEPT !.load = Append(@, [at |-> Aligned(f.at), bytes |-> bytes]),
                            !.at = Aligned(@) + bytes]

----------------------------------------------------------------------------
\* Objects, each sent once: the place of an object in its table, and the frame
\* with the object in it.

PlaceOf(f, s, obj) ==
    IF \E n \in DOMAIN f.t[s] : f.t[s][n].obj = obj
    THEN (CHOOSE n \in DOMAIN f.t[s] : f.t[s][n].obj = obj) - 1
    ELSE Nowhere
Has(f, s, obj) == PlaceOf(f, s, obj) # Nowhere

WithMemory(f, m) ==
    IF Has(f, "resource", m) THEN f ELSE Add(f, "resource", MemoryResource(m))

WithBuffer(f, b) ==
    LET g == WithMemory(f, MemoryOf[b])
    IN  IF Has(f, "resource", b) THEN f
        ELSE Add(g, "resource", BufferResource(b, PlaceOf(g, "resource", MemoryOf[b])))

\* An image is sent with the layout the ICD believes it has now.
WithImage(f, i) ==
    LET g == WithMemory(f, MemoryOf[i])
    IN  IF Has(f, "image", i) THEN f
        ELSE Add(g, "image", ImageEntry(i, PlaceOf(g, "resource", MemoryOf[i]),
                                        f.layouts[i].current))

WithView(f, v) ==
    LET g == WithImage(f, v.image)
    IN  IF Has(f, "view", v) THEN f
        ELSE Add(g, "view", ViewEntry(v, PlaceOf(g, "image", v.image)))

WithSampler(f, s) == IF Has(f, "sampler", s) THEN f ELSE Add(f, "sampler", SamplerEntry(s))

\* The layouts of the images that have more than one.
LayoutRanges(f) ==
    LET mixed == SelectSeq(f.t["image"], LAMBDA e : f.layouts[e.obj].mixed)
        ranges(e) == [n \in DOMAIN f.layouts[e.obj].ranges |->
                        LayoutRangeEntry(PlaceOf(f, "image", e.obj),
                                         f.layouts[e.obj].ranges[n].range,
                                         f.layouts[e.obj].ranges[n].layout)]
        rows == FlattenSeq([n \in DOMAIN mixed |-> ranges(mixed[n])])
    IN  IF \E n \in DOMAIN mixed : \/ f.layouts[mixed[n].obj].overflow
                                   \/ f.layouts[mixed[n].obj].ranges = <<>>
        THEN Fail(f, "EOPNOTSUPP")
        ELSE FoldLeft(LAMBDA g, x : Add(g, "layoutRange", x), f, rows)

----------------------------------------------------------------------------
\* Pipelines: each one that a record names, at its first use

DepthStencil(f, p, n) == IF p.depth THEN Add(f, "depthStencil", DepthStencilEntry(n)) ELSE f

StaticState(f, p, n) == IF p.static THEN Add(f, "static", StaticEntry(n)) ELSE f

ColorBlend(f, p, n) ==
    LET g == Add(f, "blend", BlendEntry(n, Rows(f, "blendAttachment"), p.colors))
    IN  IF ~p.blend THEN f
        ELSE FoldLeft(LAMBDA h, k : Add(h, "blendAttachment", BlendAttachmentEntry(n, k - 1)),
                      g, [k \in 1..p.colors |-> k])

\* What is static is sent; a dynamic count other than one is sent without.
FirstOf(f, s, x) == IF x.count > 0 /\ ~x.dynamic THEN Rows(f, s) ELSE Nowhere
Fixed(x) == IF x.dynamic THEN 0 ELSE x.count
NeedsViewportState(p) ==
    \E x \in {p.viewports, p.scissors} : Fixed(x) > 0 \/ (x.dynamic /\ x.count # 1)
ViewportState(f, p, n) ==
    LET rows(h, s, row(_, _), x) ==
            FoldLeft(LAMBDA g, k : Add(g, s, row(n, k - 1)), h, [k \in 1..Fixed(x) |-> k])
        g == rows(rows(f, "viewport", ViewportEntry, p.viewports),
                  "scissor", ScissorEntry, p.scissors)
    IN  IF ~NeedsViewportState(p) THEN f
        ELSE Add(g, "viewportState",
                 ViewportStateEntry(n, <<FirstOf(f, "viewport", p.viewports), p.viewports.count>>,
                                       <<FirstOf(f, "scissor", p.scissors), p.scissors.count>>))

VertexInput(f, p) ==
    LET b == FoldLeft(LAMBDA g, k : Add(g, "vertexBinding", VertexBindingEntry(k - 1, Nowhere)),
                      f, [k \in 1..p.bindings |-> k])
    IN  FoldLeft(LAMBDA g, k : Add(g, "vertexAttribute", VertexAttributeEntry(0)),
                 b, [k \in 1..p.attributes |-> k])

\* A stage has its entry name, and its specialization data if it has any.
Stage(f, x) ==
    LET named == Load(f, NameBytes)
        data == IF x.bytes > 0 THEN Load(named, x.bytes) ELSE named
        spec == IF x.bytes > 0 THEN Len(data.load) ELSE 0
        g == Add(data, "stage", StageEntry(Len(named.load), x.code, spec))
    IN  IF \E k \in DOMAIN x.constants : x.constants[k] >= x.bytes THEN Fail(g, "ERANGE")
        ELSE FoldLeft(LAMBDA h, offset : Add(h, "specialization",
                                             SpecializationEntry(Rows(g, "stage") - 1, offset)),
                      g, x.constants)

WithPipeline(f, p) ==
    LET n == Rows(f, "pipeline")
        state == VertexInput(ViewportState(ColorBlend(StaticState(DepthStencil(f, p, n),
                                                                  p, n), p, n), p, n), p)
        row == PipelineEntry(p, <<Rows(f, "stage"), Len(p.stages)>>,
                             <<Rows(f, "vertexBinding"), p.bindings>>,
                             <<Rows(f, "vertexAttribute"), p.attributes>>)
    IN  IF Has(f, "pipeline", p.name) THEN f
        ELSE IF p.odd \/ Rows(f, "stage") + Len(p.stages) > FrameRoom["stage"]
        THEN Fail(f, "EOPNOTSUPP")
        ELSE Add(FoldLeft(Stage, state, p.stages), "pipeline", row)

Piped(c) == SelectSeq(c.tab["rec"], LAMBDA r : /\ r.type \in {"BIND_PIPELINE", "DRAW", "DRAW_INDEXED"}
                                               /\ r.data # None)
Pipelines(f, c) == FoldLeft(LAMBDA g, r : WithPipeline(g, r.data), f, Piped(c))

DynamicStates(f, c) ==
    FoldLeft(LAMBDA g, x : Add(Load(g, StateBytes), "dynamicState",
                               DynamicStateEntry(x, Len(g.load) + 1)), f, c.tab["dyn"])

DynamicOffsets(f, c) ==
    FoldLeft(LAMBDA g, x : Add(g, "dynamicOffset", DynamicOffsetEntry(x)), f, c.tab["offset"])

----------------------------------------------------------------------------
\* Commands.  e is the command's common entry, n its number.

Command(f, e) == Add(f, "command", e)
NextCommand(f) == Rows(f, "command")

\* BEGIN_RENDERING: an attachment per color slot, unused ones included, and one
\* each for depth and stencil if there are any.
AttachmentRows(f, w, role, a) ==    \* w is f with the views of the attachment
    LET x == IF a.clear THEN Load(w, ClearBytes) ELSE w
        y == Add(x, "attachment", AttachmentEntry(role, PlaceOf(w, "view", a.view),
                IF a.resolve = None THEN Nowhere ELSE PlaceOf(w, "view", a.resolve),
                IF a.clear THEN Len(x.load) ELSE 0))
    IN  IF a.resolve = None THEN y
        ELSE Add(y, "resolveAttachment", ResolveAttachmentEntry(Rows(f, "attachment")))
Attachment(f, role, a) ==
    IF a # None
    THEN AttachmentRows(f, FoldLeft(WithView, f, <<a.view>> \o
                               IF a.resolve = None THEN <<>> ELSE <<a.resolve>>), role, a)
    ELSE IF role = "color" THEN Add(f, "attachment", AttachmentEntry(role, Nowhere, Nowhere, 0))
    ELSE f

Attachments(f, target) ==
    LET colors == FoldLeft(LAMBDA g, a : Attachment(g, "color", a), f, target.color)
    IN  Attachment(Attachment(colors, "depth", target.depth), "stencil", target.stencil)

BeginRenderingCommand(f, c, r, e) ==
    LET target == c.tab["target"][r.span["target"][1] + 1]
        g == Attachments(f, target)
    IN  Command(g, [e EXCEPT !.attachments = <<Rows(f, "attachment"),
                                               Rows(g, "attachment") - Rows(f, "attachment")>>,
                             !.area = target.area, !.layers = target.layers])

\* BIND_DESCRIPTOR_SETS: the descriptors of every set the call named, from the
\* snapshot of all the sets bound after it.
DescriptorRow(s, number, d, offset) ==
    LET at(table, obj) == IF obj = None THEN Nowhere ELSE PlaceOf(s, table, obj)
    IN  Add(s, "descriptor", DescriptorEntry(number, d, at("resource", d.buf),
                                             at("view", d.view), at("sampler", d.sampler),
                                             offset))
Descriptor(f, number, d, offset) ==
    LET b == IF d.buf = None THEN f ELSE WithBuffer(f, d.buf)
        v == IF d.view = None THEN b ELSE WithView(b, d.view)
    IN  DescriptorRow(IF d.sampler = None THEN v ELSE WithSampler(v, d.sampler),
                      number, d, offset)

\* The dynamic offset of the n-th element of a bound set.
OffsetOf(bound, n) ==
    LET k == Cardinality({m \in 1..n : bound.set.elements[m].dynamic})
    IN  IF bound.set.elements[n].dynamic /\ k <= Len(bound.offsets) THEN bound.offsets[k] ELSE 0

Descriptors(f, sets, first, count) ==
    LET one(g, number) ==
            FoldLeft(LAMBDA h, n : Descriptor(h, number, sets[number].set.elements[n],
                                              OffsetOf(sets[number], n)),
                     g, [n \in DOMAIN sets[number].set.elements |-> n])
    IN  FoldLeft(one, f, [k \in 1..count |-> first + k - 1])

BindSetsCommand(f, c, r, e) ==
    LET sets == c.tab["bind"][r.span["bind"][1] + 1]
        first == r.data[1]
        count == r.data[2]
        g == Descriptors(f, sets, first, count)
        used == SelectSeq(SubSeq(g.t["descriptor"], Rows(f, "descriptor") + 1, Rows(g, "descriptor")),
                          LAMBDA d : d.dynamic)
    IN  IF \E k \in first..first + count - 1 : sets[k] = None THEN Fail(f, "EPROTO")
        ELSE IF Len(used) # r.span["offset"][2] THEN Fail(f, "EPROTO")
        ELSE Command(g, [e EXCEPT !.descriptors = <<Rows(f, "descriptor"),
                                                    Rows(g, "descriptor") - Rows(f, "descriptor")>>,
                                  !.firstSet = first, !.offsets = r.span["offset"]])

SetStateCommand(f, c, r, e) == Command(f, [e EXCEPT !.states = r.span["dyn"]])

\* BIND_VERTEX_BUFFERS takes the buffers from what is bound when the command
\* buffer is submitted, not when the call was made.
BindVertexCommand(f, c, r, e) ==
    LET slots == [k \in 1..r.data[2] |-> r.data[1] + k - 1]
        one(g, s) == Add(WithBuffer(g, c.vertex[s]), "vertexBinding",
                         VertexBindingEntry(s, PlaceOf(WithBuffer(g, c.vertex[s]), "resource",
                                                       c.vertex[s])))
    IN  IF \E k \in DOMAIN slots : c.vertex[slots[k]] = None THEN Fail(f, "EPROTO")
        ELSE Command(FoldLeft(one, f, slots),
                     [e EXCEPT !.vertices = <<Rows(f, "vertexBinding"), Len(slots)>>])

\* So does BIND_INDEX_BUFFER, but an indexed draw says its buffer again.
BindIndexCommand(f, c, r, e) ==
    LET g == WithBuffer(f, c.index.buf)
    IN  Command(g, [e EXCEPT !.index = PlaceOf(g, "resource", c.index.buf),
                             !.indexOffset = r.data])

\* PUSH_CONSTANTS takes the words from the memory as it is at the submission.
PushCommand(f, c, r, e) ==
    LET x == c.tab["push"][r.span["push"][1] + 1]
        g == Load(f, x.size * WordBytes)
        h == Add(g, "push", PushEntry(NextCommand(f), x.offset, x.size, r.data))
    IN  IF x.offset + x.size > c.pushSize THEN Fail(f, "ERANGE")
        ELSE Command(h, [e EXCEPT !.load = Len(g.load),
                                  !.args = [w \in 1..x.size |-> c.pushed[x.offset + w - 1]]])

\* A part of a table of the recording.
Piece(c, t, span) == SubSeq(c.tab[t], span[1] + 1, span[1] + span[2])

MemoryBarriers(f, c, r) ==
    FoldLeft(LAMBDA g, x : Add(g, "memoryBarrier", MemoryBarrierEntry(NextCommand(f), x.staged)),
             f, Piece(c, "memory", r.span["memory"]))
BufferBarriers(f, c, r) ==
    FoldLeft(LAMBDA g, x : LET h == WithBuffer(g, x.buf)
                           IN  Add(h, "bufferBarrier",
                                   BufferBarrierEntry(NextCommand(f), PlaceOf(h, "resource", x.buf),
                                                      x.staged)),
             f, Piece(c, "buffer", r.span["buffer"]))
ImageBarriers(f, c, r) ==
    FoldLeft(LAMBDA g, x : LET h == WithImage(g, x.image)
                           IN  Add(h, "imageBarrier",
                                   ImageBarrierEntry(NextCommand(f), PlaceOf(h, "image", x.image), x)),
             f, Piece(c, "image", r.span["image"]))
BarrierCommand(f, c, r, e) ==
    Command(ImageBarriers(BufferBarriers(MemoryBarriers(f, c, r), c, r), c, r), e)

ClearCommand(f, c, r, e) ==
    LET g == Add(f, "clear", ClearEntry(NextCommand(f),
                                        <<Rows(f, "clearAttachment"), r.span["att"][2]>>,
                                        <<Rows(f, "clearRect"), r.span["rect"][2]>>))
        a == FoldLeft(LAMBDA h, x : Add(h, "clearAttachment", ClearAttachmentEntry(x)), g,
                      Piece(c, "att", r.span["att"]))
    IN  Command(FoldLeft(LAMBDA h, x : Add(h, "clearRect", ClearRectEntry(x)), a,
                         Piece(c, "rect", r.span["rect"])), e)

\* A query record belongs to the operation recorded right after it.
Queries == {"BEGIN_QUERY", "END_QUERY", "RESET_QUERY_POOL", "WRITE_TIMESTAMP"}
QueryCommand(f, c, r, e) ==
    LET o == c.tab["op"][r.seq + 1]
    IN  IF r.seq >= Size(c, "op") \/ o.type # r.type THEN Fail(f, "EPROTO")
        ELSE IF r.type # "RESET_QUERY_POOL" /\ o.data.number # 1 THEN Fail(f, "EPROTO")
        ELSE Command(Add(f, "query", QueryEntry(NextCommand(f), r.type, o.data.number)), e)
CopyQueryCommand(f, c, r, e) ==
    LET o == c.tab["op"][r.seq + 1]
        g == WithBuffer(f, o.data.dst)
    IN  IF r.seq >= Size(c, "op") \/ o.type # r.type THEN Fail(f, "EPROTO")
        ELSE Command(Add(g, "copyQuery", CopyQueryEntry(NextCommand(f),
                             PlaceOf(g, "resource", o.data.dst), o.data.number)), e)

\* An index buffer bound at a draw is sent with it, indexed or not.
DrawCommand(f, c, r, e) ==
    LET x == c.tab["draw"][r.span["draw"][1] + 1]
        ind == WithBuffer(f, x.indirect)
        i == IF x.indirect = None THEN f
             ELSE Add(ind, "indirect", IndirectEntry(NextCommand(f),
                               PlaceOf(ind, "resource", x.indirect), x.count))
        g == IF x.index = None THEN i ELSE WithBuffer(i, x.index.buf)
        at == [e EXCEPT !.index = PlaceOf(g, "resource", x.index.buf),
                        !.indexOffset = x.index.offset]
    IN  IF x.indirect # None /\ x.count = 0 THEN Fail(f, "EINVAL")
        ELSE Command(g, [(IF x.index = None THEN e ELSE at) EXCEPT !.args = x.args])

RecordCommand(f, c, r) ==
    LET known == r.type \in {"BIND_PIPELINE", "DRAW", "DRAW_INDEXED"} /\ r.data # None
        e == [CommandEntry(r.type) EXCEPT
                !.pipeline = IF known THEN PlaceOf(f, "pipeline", r.data.name) ELSE Nowhere]
    IN  CASE r.type = "BEGIN_RENDERING"      -> BeginRenderingCommand(f, c, r, e)
          [] r.type = "BIND_DESCRIPTOR_SETS" -> BindSetsCommand(f, c, r, e)
          [] r.type = "SET_DYNAMIC_STATE"    -> SetStateCommand(f, c, r, e)
          [] r.type = "BIND_VERTEX_BUFFERS"  -> BindVertexCommand(f, c, r, e)
          [] r.type = "BIND_INDEX_BUFFER"    -> BindIndexCommand(f, c, r, e)
          [] r.type = "PUSH_CONSTANTS"       -> PushCommand(f, c, r, e)
          [] r.type = "BARRIER"              -> BarrierCommand(f, c, r, e)
          [] r.type = "CLEAR_ATTACHMENTS"    -> ClearCommand(f, c, r, e)
          [] r.type \in Queries              -> QueryCommand(f, c, r, e)
          [] r.type = "COPY_QUERY_POOL_RESULTS" -> CopyQueryCommand(f, c, r, e)
          [] r.type \in {"DRAW", "DRAW_INDEXED"} -> DrawCommand(f, c, r, e)
          [] OTHER -> Command(f, e)    \* BIND_PIPELINE and END_RENDERING

----------------------------------------------------------------------------
\* Transfers between the first and the last draw become commands of the frame,
\* each with an entry of its kind that names the command.  x is the region.

BufferCopyOp(f, x) ==
    LET g == WithBuffer(WithBuffer(f, x.src), x.dst)
    IN  Command(Add(g, "bufferCopy", BufferCopyEntry(NextCommand(f), PlaceOf(g, "resource", x.src),
                                                     PlaceOf(g, "resource", x.dst), x)),
                CommandEntry("COPY_BUFFER"))

FillOp(f, x) ==
    LET g == WithBuffer(f, x.buf)
    IN  IF x.bytes % 4 # 0 \/ x.offset % 4 # 0 THEN Fail(f, "ERANGE")
        ELSE Command(Add(g, "fill", FillEntry(NextCommand(f), PlaceOf(g, "resource", x.buf), x)),
                     CommandEntry("FILL_BUFFER"))

UpdateOp(f, x) ==
    LET g == Load(WithBuffer(f, x.buf), x.bytes)
    IN  IF x.bytes % 4 # 0 \/ x.offset % 4 # 0 THEN Fail(f, "ERANGE")
        ELSE Command(Add(g, "update", UpdateEntry(NextCommand(f), PlaceOf(g, "resource", x.buf),
                                                  Len(g.load), x)),
                     CommandEntry("UPDATE_BUFFER"))

ClearColorOp(f, x) ==
    LET g == WithImage(f, x.dst)
    IN  IF x.aspect # {"color"} THEN Fail(f, "EOPNOTSUPP")
        ELSE Command(Add(g, "clearColor", ClearColorEntry(NextCommand(f),
                                                          PlaceOf(g, "image", x.dst), x)),
                     CommandEntry("CLEAR_COLOR_IMAGE"))

\* Depth and stencil are cleared by a command each.
ClearDepthOp(f, x) ==
    LET one(h, a) == Command(Add(h, "clearDepth", ClearDepthEntry(NextCommand(h),
                                                     PlaceOf(h, "image", x.dst), a, x)),
                             CommandEntry("CLEAR_DEPTH_STENCIL_IMAGE"))
        aspects == SelectSeq(<<"depth", "stencil">>, LAMBDA a : a \in x.aspect)
    IN  IF x.aspect = {} \/ ~(x.aspect \subseteq {"depth", "stencil"})
        THEN Fail(f, "EOPNOTSUPP")
        ELSE FoldLeft(one, WithImage(f, x.dst), aspects)

ResolveOp(f, x) ==
    LET g == WithImage(WithImage(f, x.src), x.dst)
    IN  Command(Add(g, "resolve", ResolveEntry(NextCommand(f), PlaceOf(g, "image", x.src),
                                               PlaceOf(g, "image", x.dst), x)),
                CommandEntry("RESOLVE_IMAGE"))

BlitOp(f, x) ==
    LET g == WithImage(WithImage(f, x.src), x.dst)
    IN  Command(Add(g, "blit", BlitEntry(NextCommand(f), PlaceOf(g, "image", x.src),
                                         PlaceOf(g, "image", x.dst), x)),
                CommandEntry("BLIT_IMAGE"))

BufferImageCopyOp(f, x) ==
    LET toImage == x.dst \in Images
        buf == IF toImage THEN x.src ELSE x.dst
        im == IF toImage THEN x.dst ELSE x.src
        g == WithImage(WithBuffer(f, buf), im)
    IN  Command(Add(g, "bufferImageCopy", BufferImageCopyEntry(NextCommand(f),
                        PlaceOf(g, "resource", buf), PlaceOf(g, "image", im), x)),
                CommandEntry(IF toImage THEN "COPY_BUFFER_TO_IMAGE" ELSE "COPY_IMAGE_TO_BUFFER"))

ImageCopyOp(f, x) ==
    LET g == WithImage(WithImage(f, x.src), x.dst)
    IN  Command(Add(g, "imageCopy", ImageCopyEntry(NextCommand(f), PlaceOf(g, "image", x.src),
                                                   PlaceOf(g, "image", x.dst), x)),
                CommandEntry("COPY_IMAGE"))

TransferCommand(f, c, o) ==
    LET region == c.tab[o.type][o.span[o.type][1] + 1]
    IN  CASE o.type = "copy"       -> BufferCopyOp(f, region)
          [] o.type = "fill"       -> FillOp(f, o.data)
          [] o.type = "update"     -> UpdateOp(f, o.data)
          [] o.type = "clearColor" -> ClearColorOp(f, region)
          [] o.type = "clearDepth" -> ClearDepthOp(f, region)
          [] o.type = "resolve"    -> ResolveOp(f, region)
          [] o.type = "blit"       -> BlitOp(f, region)
          [] o.type = "imageCopy"  -> BufferImageCopyOp(f, region)
          [] o.type = "imageImage" -> ImageCopyOp(f, region)
          [] OTHER -> f

\* The operations from one on up to another, if they lie between the draws.
Interleaved(f, c, from, until) ==
    FoldLeft(LAMBDA g, k : IF k \in BetweenDraws(c) THEN TransferCommand(g, c, c.tab["op"][k])
                           ELSE g,
             f, [k \in 1..until - from |-> from + k])

TransfersLeft(acc, c) == Interleaved(acc.f, c, acc.sent, Size(c, "op"))
CommandsTransfersLate(f, c) ==
    LET one(acc, r) ==
            LET until == IF r.seq > acc.sent THEN r.seq ELSE acc.sent
                g == RecordCommand(acc.f, c, r)
            IN  [f |-> Then(acc.f, Then(g, Interleaved(g, c, acc.sent, until))), sent |-> until]
    IN  TransfersLeft(FoldLeft(one, [f |-> f, sent |-> 0], c.tab["rec"]), c)

\* A record's transfers come first: those recorded before it and not sent yet.
Commands(f, c) ==
    LET one(acc, r) ==
            LET until == IF r.seq > acc.sent THEN r.seq ELSE acc.sent
                g == Interleaved(acc.f, c, acc.sent, until)
            IN  [f |-> Then(acc.f, Then(g, RecordCommand(g, c, r))), sent |-> until]
    IN  TransfersLeft(FoldLeft(one, [f |-> f, sent |-> 0], c.tab["rec"]), c)

----------------------------------------------------------------------------
\* The finished frame

\* Some operations raise the version even when the host executes them.
OpMinor == [fill |-> 11, update |-> 11, clearColor |-> 12, clearDepth |-> 13, resolve |-> 14,
            blit |-> 15] @@ [q \in Queries |-> 17] @@ ("COPY_QUERY_POOL_RESULTS" :> 18)
OpMinors(c) == {OpMinor[c.tab["op"][n].type] :
                n \in {k \in DOMAIN c.tab["op"] : c.tab["op"][k].type \in DOMAIN OpMinor}}

MinorNeeded(f, c) == Max({1} \cup OpMinors(c) \cup
                         {MinorOf[s] : s \in {x \in Sections : f.t[x] # <<>>}})

SectionOrder ==
    <<"resource", "descriptor", "image", "view", "sampler", "stage", "pipeline",
      "vertexBinding", "vertexAttribute", "attachment", "dynamicState", "command",
      "dynamicOffset", "push", "imageBarrier", "memoryBarrier", "bufferBarrier",
      "specialization", "depthStencil", "resolveAttachment", "static", "blend",
      "blendAttachment", "viewportState", "viewport", "scissor", "indirect", "bufferCopy",
      "bufferImageCopy", "imageCopy", "fill", "update", "clearColor", "clearDepth", "resolve",
      "blit", "clear", "clearAttachment", "clearRect", "query", "copyQuery", "sync",
      "layoutRange">>

TableStartAtHeader(f, minor) == HeaderSize(minor)

\* The tables go behind the payloads, but up to V6.10 right behind the header; one
\* without entries has no place.
TableStart(f, minor) == IF minor <= 10 THEN HeaderSize(minor) ELSE Aligned(f.at)
TablePlaces(f, minor) ==
    LET one(acc, s) ==
            LET bytes == Rows(f, s) * EntrySize[s]
            IN  [end |-> acc.end + bytes, place |-> [acc.place EXCEPT ![s] = <<acc.end, bytes>>]]
    IN  FoldLeft(one, [end |-> TableStart(f, minor), place |-> [s \in Carried(minor) |-> <<0, 0>>]],
                 SelectSeq(SectionOrder, LAMBDA s : s \in Carried(minor) /\ Rows(f, s) > 0))

Finished(f, c) ==
    LET minor == MinorNeeded(f, c)
        placed == TablePlaces(f, minor)
    IN  [minor |-> minor, t |-> f.t, load |-> f.load, place |-> placed.place,
         size |-> placed.end, err |-> f.err]

Contents(f, c, syncs) ==
    LET s == FoldLeft(LAMBDA g, x : Add(g, "sync", SyncEntry(x)), f, syncs)
        pipelines == Pipelines(s, c)
        states == DynamicStates(pipelines, c)
        offsets == DynamicOffsets(states, c)
        commands == Commands(offsets, c)
    IN  Then(s, Then(pipelines, Then(states, Then(offsets, Then(commands, LayoutRanges(commands))))))

Build(c, layouts, syncs) == Finished(Contents(EmptyFrame(layouts), c, syncs), c)
=============================================================================
