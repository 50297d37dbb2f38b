------------------------------ MODULE GpuCommands ------------------------------
(***************************************************************************)
(* Recording of Vulkan command buffers by the container's ICD               *)
(* (docker-proot-setup/src/gpu/pdocker_vulkan_icd.c).  Nothing is executed   *)
(* while an application records: every vkCmd* call appends to two lists of   *)
(* the command buffer, the operations (executed on the host or dispatched)   *)
(* and the graphics records (sent in one frame), whose entries point into    *)
(* tables of snapshots.  Secondary buffers are copied into the primary one.  *)
(* An application's calls come from Scripts; each call is one action.        *)
(***************************************************************************)
EXTENDS Naturals, Sequences, FiniteSets, SequencesExt, Functions

CONSTANTS
    None,        \* a null handle
    Room,        \* table -> how many entries a command buffer has for it
    Images,      \* the images of the application
    Parts,       \* the subresources (aspect, level, layer) every image has
    Slots,       \* how many vertex bindings there are
    SetSlots,    \* how many descriptor sets can be bound
    PushWords,   \* the size of the push constant memory, in words
    Scripts      \* sequences of sets of calls: step n makes one call of set n

Transfers == {"copy", "imageCopy", "imageImage", "clearColor", "resolve", "blit",
              "clearDepth"}
Tables == Transfers \cup
    {"op", "rec", "target", "draw", "bind", "offset", "dyn", "push", "clear",
     "att", "rect", "memory", "buffer", "image", "dispatch"}
Buffers == {"primary", "secondary"}

ASSUME RoomAssumption == Room \in [Tables -> Nat]

\* A call is named; its arguments that are an array and its length are a sequence, the
\* handles of command buffers are handles, and a transfer is one of the transfers.
IsSeq(x) == x \in Seq(ToSet(x))
CallOK(s) ==
    /\ "f" \in DOMAIN s /\ s.b \in Buffers
    /\ s.f = "BindDescriptorSets" => IsSeq(s.offsets)
    /\ s.f = "ClearAttachments" => IsSeq(s.atts) /\ IsSeq(s.rects)
    /\ s.f \in {"PipelineBarrier", "WaitEvents"} =>
            s.memory \in Nat /\ IsSeq(s.bufs) /\ IsSeq(s.images)
    /\ s.f = "BeginRenderPass" => IsSeq(s.pass.atts)
    /\ s.f = "Transfer" => s.kind \in Transfers /\ IsSeq(s.regions)
    /\ s.f = "ExecuteCommands" => s.bufs \in Seq(Buffers)
ScriptOK(calls) == IsSeq(calls) /\ \A n \in DOMAIN calls : \A s \in calls[n] : CallOK(s)

ASSUME ScriptsAssumption == \A calls \in Scripts : ScriptOK(calls)

VARIABLES
    cb,       \* buffer -> what is recorded in it
    image,    \* image -> the layout the ICD believes it has
    truth,    \* image -> subresource -> the layout the executed barriers left
    said,     \* buffer -> the calls made since its recording began
    script    \* what the application does next

vars == <<cb, image, truth, said, script>>

----------------------------------------------------------------------------
\* A command buffer

NoSpan == [t \in {} |-> <<0, 0>>]

Cleared == [t \in Tables |-> <<>>]
Unbound == [s \in 0..Slots - 1 |-> None]
NoSets == [s \in 0..SetSlots - 1 |-> None]
NoTarget == [color |-> <<>>, depth |-> None, stencil |-> None, layers |-> 0,
             area |-> <<0, 0>>]

Blank(level) ==
    [level |-> level, tab |-> Cleared, failed |-> FALSE, unsupported |-> FALSE,
     badSets |-> FALSE, rendering |-> FALSE, inherited |-> FALSE, inPass |-> FALSE,
     pass |-> None, target |-> NoTarget, gpipe |-> None, cpipe |-> None,
     vertex |-> Unbound, index |-> None, pushed |-> [w \in 0..PushWords - 1 |-> 0],
     pushSize |-> 0, gsets |-> NoSets, csets |-> NoSets]

Size(c, t) == Len(c.tab[t])
Full(c, t) == Size(c, t) >= Room[t]
Put(c, t, x) == [c EXCEPT !.tab[t] = Append(@, x)]
Unsupported(c) == [c EXCEPT !.unsupported = TRUE]
Failed(c) == [c EXCEPT !.failed = TRUE]

\* A graphics record: its type, the operations recorded before it, the ranges of
\* the tables it points at (first entry counted from 0, how many), its data.
Record(c, type, span, data) ==
    IF Full(c, "rec") THEN Failed(Unsupported(c))
    ELSE Put(c, "rec", [type |-> type, seq |-> Size(c, "op"), span |-> span, data |-> data])

\* An operation.
Op(c, type, span, data) ==
    IF Full(c, "op") THEN Failed(c)
    ELSE Put(c, "op", [type |-> type, span |-> span, data |-> data])

\* The ranges that the next entries of some tables will have, and that of one.
NextSpan(c, counts) == [t \in DOMAIN counts |-> <<Size(c, t), counts[t]>>]
Next1(c, t) == NextSpan(c, [u \in {t} |-> 1])

----------------------------------------------------------------------------
\* Begin, end, pipelines and the state calls

Begin(c, s) ==
    [Blank(c.level) EXCEPT !.unsupported = s.odd, !.inherited = s.inherits]

EndResult(c) == IF c.failed THEN "refused" ELSE "ok"

BindPipeline(c, s) ==
    CASE s.point = "compute"  -> [c EXCEPT !.cpipe = s.pipe]
      [] s.point = "graphics" ->
            Record([c EXCEPT !.gpipe = s.pipe], "BIND_PIPELINE", NoSpan, s.pipe)
      [] OTHER -> Unsupported(c)

BindVertexBuffers(c, s) ==
    IF s.first + Len(s.bufs) > Slots THEN Unsupported(c)
    ELSE Record([c EXCEPT !.vertex = [n \in DOMAIN @ |->
                    IF n >= s.first /\ n < s.first + Len(s.bufs)
                    THEN s.bufs[n - s.first + 1] ELSE @[n]]],
                "BIND_VERTEX_BUFFERS", NoSpan, <<s.first, Len(s.bufs)>>)

BindIndexBuffer(c, s) ==
    Record([c EXCEPT !.index = [buf |-> s.buf, offset |-> s.offset]],
           "BIND_INDEX_BUFFER", NoSpan, s.offset)

\* All the dynamic state setters go through one function; a state larger than
\* its snapshot (more than five viewports) is not stored.
SetDynamicState(c, s) ==
    IF Full(c, "dyn") \/ s.big THEN Unsupported(c)
    ELSE Record(Put(c, "dyn", s.state), "SET_DYNAMIC_STATE", Next1(c, "dyn"), s.state)

\* A range past the end of the memory is ignored or cut without a flag.
PushConstants(c, s) ==
    LET kept == IF s.offset + Len(s.words) > PushWords THEN PushWords - s.offset
                ELSE Len(s.words)
        top == s.offset + kept
        d == [c EXCEPT !.pushed = [w \in DOMAIN @ |-> IF w \in s.offset..top - 1
                                                      THEN s.words[w - s.offset + 1] ELSE @[w]],
                       !.pushSize = IF top > @ THEN top ELSE @]
    IN  IF s.offset >= PushWords THEN c
        ELSE IF Full(d, "push") THEN Unsupported(d)
        ELSE Record(Put(d, "push", [offset |-> s.offset, size |-> kept,
                                    hash |-> SubSeq(s.words, 1, kept)]),
                    "PUSH_CONSTANTS", Next1(d, "push"), s.stages)

----------------------------------------------------------------------------
\* Descriptor sets.  A set has a type and some dynamic descriptors; a layout
\* gives the type of each set number.

\* Where the dynamic offsets of the n-th bound set start, and how many are used.
Dynamic(sets, n) == IF sets[n] = None THEN 0 ELSE sets[n].dynamic
OffsetsBefore(sets, n) == FoldLeft(LAMBDA a, m : a + Dynamic(sets, m), 0,
                                   [k \in 1..n - 1 |-> k])

BoundSet(s, n) ==
    [set |-> s.sets[n],
     offsets |-> LET first == OffsetsBefore(s.sets, n) + 1
                     last == first + s.sets[n].dynamic - 1
                 IN  SubSeq(s.offsets, first,
                            IF last > Len(s.offsets) THEN Len(s.offsets) ELSE last)]

BoundSets(old, s) ==
    [k \in DOMAIN old |->
        LET n == k - s.first + 1
        IN  IF n \in DOMAIN s.sets /\ s.sets[n] # None THEN BoundSet(s, n) ELSE old[k]]

SetFits(layout, number, set) ==
    /\ ~set.odd
    /\ number < Len(layout.sets)
    /\ layout.sets[number + 1] = set.type

SetsFit(s) ==
    /\ ~s.layout.odd
    /\ s.first + Len(s.sets) <= SetSlots
    /\ \A n \in DOMAIN s.sets : s.sets[n] # None => SetFits(s.layout, s.first + n - 1, s.sets[n])
    /\ OffsetsBefore(s.sets, Len(s.sets) + 1) = Len(s.offsets)

\* The offsets are kept in a table of their own, before anything is checked.
GraphicsOffsets(c, s) ==
    IF Len(s.offsets) > Room["offset"] - Size(c, "offset") THEN [c EXCEPT !.badSets = TRUE]
    ELSE [c EXCEPT !.tab["offset"] = @ \o s.offsets]

BindDescriptorSets(c, s) ==
    LET bad(d) == [d EXCEPT !.badSets = @ \/ ~SetsFit(s)]
        d == bad([GraphicsOffsets(c, s) EXCEPT !.gsets = BoundSets(@, s)])
        span == NextSpan(c, [bind |-> 1, offset |-> Len(s.offsets)])
    IN  IF s.sets = <<>> THEN c
        ELSE CASE s.point = "compute"  -> bad([c EXCEPT !.csets = BoundSets(@, s)])
               [] s.point = "graphics" ->
                     IF Full(d, "bind") THEN [d EXCEPT !.badSets = TRUE]
                     ELSE Record(Put(d, "bind", d.gsets), "BIND_DESCRIPTOR_SETS", span,
                                 <<s.first, Len(s.sets)>>)
               [] OTHER -> [c EXCEPT !.badSets = TRUE]

----------------------------------------------------------------------------
\* Dynamic rendering and draws

WithTarget(c) ==
    IF Full(c, "target") THEN Unsupported(c)
    ELSE Record(Put(c, "target", c.target), "BEGIN_RENDERING", Next1(c, "target"),
                c.target.layers)

BeginRendering(c, s) ==
    WithTarget([c EXCEPT !.rendering = TRUE, !.inPass = FALSE, !.pass = None,
                         !.target = s.target, !.unsupported = @ \/ s.odd])

EndRendering(c) ==
    [Record(c, "END_RENDERING", NoSpan, None) EXCEPT !.rendering = FALSE, !.target = NoTarget]

\* What a draw remembers of the state at its call.
Snapshot(c, s) ==
    [pipe |-> c.gpipe, sets |-> c.gsets, pushed |-> c.pushed, pushSize |-> c.pushSize,
     vertex |-> c.vertex, index |-> c.index, dyn |-> c.tab["dyn"], target |-> c.target,
     indexed |-> s.indexed, indirect |-> s.indirect, count |-> s.count, args |-> s.args]

DrawIsWrong(c, s) ==
    \/ c.gpipe = None
    \/ ~c.rendering /\ ~c.inherited
    \/ c.inPass
    \/ s.indexed /\ c.index = None

Draw(c, s) ==
    LET d == IF DrawIsWrong(c, s) THEN Unsupported(c) ELSE c
        e == Put(d, "draw", Snapshot(d, s))
        type == IF s.indexed THEN "DRAW_INDEXED" ELSE "DRAW"
    IN  IF Full(d, "draw") THEN Unsupported(d)
        ELSE Op(Record(e, type, Next1(d, "draw"), d.gpipe), "draw", Next1(d, "draw"), None)

Inside(r, area) ==
    /\ r.from < r.to
    /\ r.from >= area[1]
    /\ r.to <= area[2]

HasAttachment(c, a) ==
    IF a.aspect = {"color"} THEN a.color < Len(c.target.color) /\ c.target.color[a.color + 1] # None
    ELSE /\ a.aspect # {} /\ a.aspect \subseteq {"depth", "stencil"}
         /\ "depth" \in a.aspect => c.target.depth # None
         /\ "stencil" \in a.aspect => c.target.stencil # None

ClearAllowed(c, s) ==
    /\ c.rendering /\ ~c.inherited
    /\ s.atts # <<>> /\ s.rects # <<>>
    /\ Size(c, "att") + Len(s.atts) <= Room["att"]
    /\ Size(c, "rect") + Len(s.rects) <= Room["rect"]
    /\ ~Full(c, "clear") /\ ~Full(c, "rec")
    /\ \A n \in DOMAIN s.atts : HasAttachment(c, s.atts[n])
    /\ \A n \in DOMAIN s.rects : /\ Inside(s.rects[n], c.target.area)
                                 /\ s.rects[n].layers > 0
                                 /\ s.rects[n].base + s.rects[n].layers <= c.target.layers

ClearAttachments(c, s) ==
    LET span == NextSpan(c, [att |-> Len(s.atts), rect |-> Len(s.rects)])
        all == NextSpan(c, [clear |-> 1, att |-> Len(s.atts), rect |-> Len(s.rects)])
        d == [Put(c, "clear", span) EXCEPT !.tab["att"] = @ \o s.atts,
                                           !.tab["rect"] = @ \o s.rects]
    IN  IF ~ClearAllowed(c, s) THEN Unsupported(c)
        ELSE Record(d, "CLEAR_ATTACHMENTS", all, None)

----------------------------------------------------------------------------
\* Barriers

MemoryBarrier(c, staged) ==
    IF Full(c, "memory") THEN Unsupported(c) ELSE Put(c, "memory", [staged |-> staged])

\* x is the buffer, and whether the range lies in it.
BufferBarrier(c, x, staged) ==
    IF Full(c, "buffer") \/ ~x.inside THEN Unsupported(c)
    ELSE Put(c, "buffer", [buf |-> x.buf, staged |-> staged])

ImageBarrier(c, x, staged) ==
    IF Full(c, "image") THEN Failed(Unsupported(c))
    ELSE Op(Put(c, "image", [image |-> x.image, old |-> x.old, new |-> x.new,
                             range |-> x.range, staged |-> staged]),
            "imageBarrier", Next1(c, "image"), None)

\* The record of the barriers that d has and c has not.
BarrierRecord(c, d) ==
    LET span == NextSpan(c, [t \in {"memory", "buffer", "image"} |-> Size(d, t) - Size(c, t)])
    IN  IF \A t \in DOMAIN span : span[t][2] = 0 THEN d
        ELSE Record(d, "BARRIER", span, None)

\* vkCmdPipelineBarrier and its second version, which alone takes empty stages.
PipelineBarrier(c, s) ==
    LET start == [c EXCEPT !.unsupported = @ \/ s.odd]
        m == FoldLeft(LAMBDA d, n : MemoryBarrier(d, s.staged), start, [n \in 1..s.memory |-> n])
        b == FoldLeft(LAMBDA d, x : BufferBarrier(d, x, s.staged), m, s.bufs)
        i == FoldLeft(LAMBDA d, x : ImageBarrier(d, x, s.staged), b, s.images)
    IN  Op(BarrierRecord(c, i), "barrier", NoSpan, None)

\* Setting or resetting an event.
SetEvent(c, s) == Op(c, "event", NoSpan, [event |-> s.event, on |-> s.on])

\* One wait per event, then the barrier; the second version interleaves them.
WaitEvents(c, s) ==
    IF s.event = None THEN Unsupported(c)
    ELSE PipelineBarrier(Op(c, "eventWait", NoSpan, s.event), s)

----------------------------------------------------------------------------
\* Render passes, rewritten to dynamic rendering.  A pass with one subpass has a
\* sequence of the attachments that it uses, with a role, an initial and a final
\* layout and the layout of the subpass; one of role "resolve" follows the
\* attachment it resolves, one of role "both" is depth and stencil.  Dependencies
\* give memory barriers.

\* One layout transition of an attachment view; acc.ok turns FALSE for good.
Transition(acc, t) ==
    IF ~acc.ok \/ image[t.view.image].mixed THEN [acc EXCEPT !.ok = FALSE]
    ELSE IF t.old = t.new THEN acc
    ELSE IF Full(acc.c, "image") THEN [acc EXCEPT !.ok = FALSE]
    ELSE [acc EXCEPT !.c = ImageBarrier(@, [image |-> t.view.image, old |-> t.old,
                                            new |-> t.new, range |-> t.view.range], TRUE)]

Transitions(c, depends, ts) ==
    LET d == IF depends THEN MemoryBarrier(c, TRUE) ELSE c
        acc == FoldLeft(Transition, [c |-> d, ok |-> TRUE], ts)
    IN  IF ~acc.ok THEN acc
        ELSE [c |-> BarrierRecord(c, acc.c),
              ok |-> BarrierRecord(c, acc.c) = acc.c \/ ~Full(acc.c, "rec")]

PassTransitions(p, fb, old, new) ==
    [n \in DOMAIN p.atts |-> [view |-> fb[n].view, old |-> p.atts[n][old], new |-> p.atts[n][new]]]

PassTarget(p, fb, layers, area) ==
    LET used(n) == IF n + 1 \in DOMAIN p.atts /\ p.atts[n + 1].role = "resolve"
                   THEN [fb[n] EXCEPT !.resolve = fb[n + 1].view] ELSE fb[n]
        views(roles) == SelectSeq([n \in DOMAIN p.atts |-> n], LAMBDA n : p.atts[n].role \in roles)
        one(roles) == IF views(roles) = <<>> THEN None ELSE used(views(roles)[1])
    IN  [color |-> [k \in DOMAIN views({"color"}) |-> used(views({"color"})[k])],
         depth |-> one({"depth", "both"}), stencil |-> one({"stencil", "both"}),
         layers |-> IF layers = 0 THEN 1 ELSE layers, area |-> area]

PassFits(s) ==
    /\ s.inline /\ s.pass.single
    /\ Len(s.fb) >= Len(s.pass.atts)
    /\ \A n \in DOMAIN s.pass.atts : s.fb[n] # None

BeginRenderPass(c, s) ==
    LET d == [c EXCEPT !.unsupported = @ \/ s.odd, !.pass = [p |-> s.pass, fb |-> s.fb]]
        e == [d EXCEPT !.target = PassTarget(s.pass, s.fb, s.layers, s.area)]
        acc == Transitions(e, s.pass.begins, PassTransitions(s.pass, s.fb, "initial", "layout"))
        outside(x) == [x EXCEPT !.inPass = TRUE, !.rendering = FALSE]
    IN  IF ~PassFits(s) THEN outside(Unsupported(d))
        ELSE IF ~acc.ok \/ Full(acc.c, "target") \/ Full(acc.c, "rec")
        THEN outside(IF acc.ok THEN WithTarget(acc.c) ELSE acc.c)
        ELSE [WithTarget(acc.c) EXCEPT !.rendering = TRUE, !.inPass = FALSE]

NextSubpass(c) == Unsupported(c)

EndRenderPass(c) ==
    LET d == Record(c, "END_RENDERING", NoSpan, None)
        acc == IF c.rendering /\ c.pass # None
               THEN Transitions(d, c.pass.p.ends,
                                PassTransitions(c.pass.p, c.pass.fb, "layout", "final"))
               ELSE [c |-> d, ok |-> TRUE]
    IN  [acc.c EXCEPT !.unsupported = @ \/ ~acc.ok, !.rendering = FALSE, !.inPass = FALSE,
                      !.pass = None]

----------------------------------------------------------------------------
\* Transfers, dispatches and queries

\* One entry and one operation per region; without room the region is dropped.
TransferRegion(c, kind, r) ==
    IF Full(c, kind) THEN c ELSE Op(Put(c, kind, r), kind, Next1(c, kind), None)
Transfer(c, s) ==
    IF s.bound THEN FoldLeft(LAMBDA d, r : TransferRegion(d, s.kind, r), c, s.regions) ELSE c

\* vkCmdFillBuffer and vkCmdUpdateBuffer keep their data in the operation.
FillOrUpdate(c, s) ==
    IF s.bound /\ s.bytes > 0
    THEN Op(c, s.kind, NoSpan, [buf |-> s.buf, offset |-> s.offset, bytes |-> s.bytes])
    ELSE c

LayoutsFit(c) ==
    c.cpipe = None \/ \A k \in DOMAIN c.csets :
        c.csets[k] # None => SetFits(c.cpipe.layout, k, c.csets[k].set)

Dispatch(c, s) ==
    LET d == [c EXCEPT !.badSets = @ \/ ~LayoutsFit(c)]
        x == [pipe |-> d.cpipe, sets |-> d.csets, pushed |-> d.pushed,
              groups |-> s.groups, indirect |-> s.indirect]
    IN  IF Full(d, "dispatch") THEN d
        ELSE Op(Put(d, "dispatch", x), "dispatch", Next1(d, "dispatch"), None)

\* The record comes first: without room for it there is no operation either.
Query(c, s) ==
    IF ~s.inPool \/ (s.type = "COPY_QUERY_POOL_RESULTS" /\ s.number = 0) THEN c
    ELSE IF Full(c, "rec") THEN Record(c, s.type, NoSpan, None)
    ELSE Op(Record(c, s.type, NoSpan, None), s.type, NoSpan, [number |-> s.number, dst |-> s.dst])

----------------------------------------------------------------------------
\* Secondary buffers

RoomFor(c, d) == \A t \in Tables : Size(c, t) + Size(d, t) <= Room[t]

MovedSpan(span, c) == [t \in DOMAIN span |-> <<span[t][1] + Size(c, t), span[t][2]>>]

\* Mutant: the ranges of the dynamic offsets stay where they were.
RebasedRecordKeepsOffsets(r, c) ==
    [r EXCEPT !.seq = @ + Size(c, "op"),
              !.span = [t \in DOMAIN @ |-> IF t = "offset" THEN @[t] ELSE MovedSpan(@, c)[t]]]
RebasedRecord(r, c) == [r EXCEPT !.seq = @ + Size(c, "op"), !.span = MovedSpan(@, c)]

RebasedOp(o, c) == [o EXCEPT !.span = MovedSpan(@, c)]

RebasedTable(t, c, d) ==
    [n \in DOMAIN d.tab[t] |->
        CASE t = "rec"   -> RebasedRecord(d.tab[t][n], c)
          [] t = "op"    -> RebasedOp(d.tab[t][n], c)
          [] t = "clear" -> MovedSpan(d.tab[t][n], c)
          [] OTHER       -> d.tab[t][n]]

\* The bound state of the secondary replaces that of the primary: the vertex
\* bindings always, the rest only where the secondary bound something.
MergedState(c, d) ==
    [c EXCEPT !.vertex = d.vertex,
              !.index = IF d.index = None THEN @ ELSE d.index,
              !.pushed = IF d.pushSize > 0 THEN d.pushed ELSE @,
              !.pushSize = IF d.pushSize > 0 THEN d.pushSize ELSE @,
              !.cpipe = IF d.cpipe = None THEN @ ELSE d.cpipe,
              !.gpipe = IF d.gpipe = None THEN @ ELSE d.gpipe]

Mergeable(c, d) ==
    /\ d.level = "secondary"
    /\ RoomFor(c, d)
    /\ ~d.unsupported /\ ~d.badSets /\ ~d.rendering /\ ~d.inPass

Merged(c, d) ==
    MergedState([c EXCEPT !.tab = [t \in Tables |-> @[t] \o RebasedTable(t, c, d)]], d)

\* The first one that cannot be merged ends the call; those before it stay.
ExecuteOne(acc, d) ==
    IF ~acc.ok THEN acc
    ELSE IF Mergeable(acc.c, d) THEN [acc EXCEPT !.c = Merged(@, d)]
    ELSE [c |-> Unsupported(acc.c), ok |-> FALSE]
ExecuteCommands(c, ds) ==
    IF ds = <<>> THEN c
    ELSE IF c.level # "primary" THEN Unsupported(c)
    ELSE FoldLeft(ExecuteOne, [c |-> c, ok |-> TRUE], ds).c

----------------------------------------------------------------------------
\* What the ICD knows of image layouts

Overlaps(r, q) == r \cap q # {}

\* Mutant: an overlapping range is replaced instead of giving the cache up.
RangeCacheReplaces(i, range, layout) ==
    LET kept == SelectSeq(i.ranges, LAMBDA e : ~Overlaps(e.range, range))
    IN  [i EXCEPT !.ranges = Append(kept, [range |-> range, layout |-> layout])]

RangeCache(i, range, layout) ==
    IF \E n \in DOMAIN i.ranges : i.ranges[n].range = range
    THEN [i EXCEPT !.ranges = [n \in DOMAIN @ |->
            IF @[n].range = range THEN [@[n] EXCEPT !.layout = layout] ELSE @[n]]]
    ELSE IF \/ \E n \in DOMAIN i.ranges : Overlaps(i.ranges[n].range, range)
            \/ Len(i.ranges) >= Room["image"]
    THEN [i EXCEPT !.overflow = TRUE]
    ELSE [i EXCEPT !.ranges = Append(@, [range |-> range, layout |-> layout])]

\* A barrier executed on the host: only one over the whole image leaves a known
\* layout; a range outside the image (here the empty one) gives the cache up.
HostBarrier(i, x) ==
    IF x.range = {} THEN [i EXCEPT !.mixed = TRUE, !.overflow = TRUE]
    ELSE IF x.range = Parts
    THEN [current |-> x.new, mixed |-> FALSE, ranges |-> <<>>, overflow |-> FALSE]
    ELSE RangeCache([i EXCEPT !.mixed = TRUE], x.range, x.new)

BarriersOf(c, ops) ==
    FlattenSeq([k \in DOMAIN ops |->
        IF ops[k].type = "imageBarrier" THEN <<c.tab["image"][ops[k].span["image"][1] + 1]>>
        ELSE <<>>])

\* The image states after the barriers among some operations ran on the host.
Believed(im, x) == [im EXCEPT ![x.image] = HostBarrier(@, x)]
AfterBarriers(im, c, ops) == FoldLeft(Believed, im, BarriersOf(c, ops))

Truly(tr, x) ==
    [tr EXCEPT ![x.image] = [p \in Parts |-> IF p \in x.range THEN x.new ELSE @[p]]]
TrulyAfter(tr, c, ops) == FoldLeft(Truly, tr, BarriersOf(c, ops))

----------------------------------------------------------------------------
\* The application's calls

Init ==
    /\ cb = [b \in Buffers |-> Blank(b)]
    /\ image = [i \in Images |-> [current |-> "undefined", mixed |-> FALSE, ranges |-> <<>>,
                                  overflow |-> FALSE]]
    /\ truth = [i \in Images |-> [p \in Parts |-> "undefined"]]
    /\ said = [b \in Buffers |-> <<>>]
    /\ script \in Scripts

Recorded(s, c, calls) ==
    /\ cb' = [cb EXCEPT ![s.b] = c]
    /\ said' = [said EXCEPT ![s.b] = calls]
    /\ script' = Tail(script)
    /\ UNCHANGED <<image, truth>>

Does(s, c) == Recorded(s, c, Append(said[s.b], s))

vkBeginCommandBuffer(s)    == s.f = "Begin" /\ Recorded(s, Begin(cb[s.b], s), <<>>)
vkCmdBindPipeline(s)       == s.f = "BindPipeline" /\ Does(s, BindPipeline(cb[s.b], s))
vkCmdBindVertexBuffers(s)  == s.f = "BindVertexBuffers" /\ Does(s, BindVertexBuffers(cb[s.b], s))
vkCmdBindIndexBuffer(s)    == s.f = "BindIndexBuffer" /\ Does(s, BindIndexBuffer(cb[s.b], s))
vkCmdSetDynamicState(s)    == s.f = "SetDynamicState" /\ Does(s, SetDynamicState(cb[s.b], s))
vkCmdPushConstants(s)      == s.f = "PushConstants" /\ Does(s, PushConstants(cb[s.b], s))
vkCmdBindDescriptorSets(s) == s.f = "BindDescriptorSets" /\ Does(s, BindDescriptorSets(cb[s.b], s))
vkCmdBeginRendering(s)     == s.f = "BeginRendering" /\ Does(s, BeginRendering(cb[s.b], s))
vkCmdEndRendering(s)       == s.f = "EndRendering" /\ Does(s, EndRendering(cb[s.b]))
vkCmdDraw(s)               == s.f = "Draw" /\ Does(s, Draw(cb[s.b], s))
vkCmdClearAttachments(s)   == s.f = "ClearAttachments" /\ Does(s, ClearAttachments(cb[s.b], s))
vkCmdPipelineBarrier(s)    == s.f = "PipelineBarrier" /\ Does(s, PipelineBarrier(cb[s.b], s))
vkCmdSetEvent(s)           == s.f = "SetEvent" /\ Does(s, SetEvent(cb[s.b], s))
vkCmdWaitEvents(s)         == s.f = "WaitEvents" /\ Does(s, WaitEvents(cb[s.b], s))
vkCmdNextSubpass(s)        == s.f = "NextSubpass" /\ Does(s, NextSubpass(cb[s.b]))
vkCmdEndRenderPass(s)      == s.f = "EndRenderPass" /\ Does(s, EndRenderPass(cb[s.b]))
vkCmdTransfer(s)           == s.f = "Transfer" /\ Does(s, Transfer(cb[s.b], s))
vkCmdFillOrUpdate(s)       == s.f = "FillOrUpdate" /\ Does(s, FillOrUpdate(cb[s.b], s))
vkCmdDispatch(s)           == s.f = "Dispatch" /\ Does(s, Dispatch(cb[s.b], s))
vkCmdQuery(s)              == s.f = "Query" /\ Does(s, Query(cb[s.b], s))

\* What is said of a render pass keeps whether it began.
vkCmdBeginRenderPass(s) ==
    /\ s.f = "BeginRenderPass"
    /\ \E c \in {BeginRenderPass(cb[s.b], s)} :
            Recorded(s, c, Append(said[s.b], [x \in DOMAIN s \cup {"began"} |->
                                                 IF x = "began" THEN c.rendering ELSE s[x]]))

vkCmdExecuteCommands(s) ==
    /\ s.f = "ExecuteCommands"
    /\ Recorded(s, ExecuteCommands(cb[s.b], [n \in DOMAIN s.bufs |-> cb[s.bufs[n]]]),
                said[s.b] \o FlattenSeq([n \in DOMAIN s.bufs |-> said[s.bufs[n]]]))

Accepted(c) == ~c.failed /\ ~c.unsupported /\ ~c.badSets

\* The operations that the host executes around the frame of a submitted buffer.
Seqs(c) == {c.tab["rec"][n].seq : n \in DOMAIN c.tab["rec"]}
OpsBefore(c) ==
    LET first == CHOOSE q \in Seqs(c) : \A r \in Seqs(c) : q <= r
    IN  IF Seqs(c) = {} THEN c.tab["op"]
        ELSE SubSeq(c.tab["op"], 1, IF first < Size(c, "op") THEN first ELSE Size(c, "op"))
OpsAfter(c) ==
    LET last == CHOOSE q \in Seqs(c) : \A r \in Seqs(c) : q >= r
    IN  IF Seqs(c) = {} THEN <<>> ELSE SubSeq(c.tab["op"], last + 2, Size(c, "op"))

\* What may stand beside a frame: a dispatch may not, and inside it only the
\* transfers between two draws, which the frame carries.
FrameOps == {"draw", "imageBarrier", "barrier", "BEGIN_QUERY", "END_QUERY", "RESET_QUERY_POOL",
             "WRITE_TIMESTAMP", "COPY_QUERY_POOL_RESULTS"}
Interleavable == Transfers \cup {"fill", "update"}
Draws(c) == {n \in DOMAIN c.tab["op"] : c.tab["op"][n].type = "draw"}
BetweenDraws(c) == {n \in DOMAIN c.tab["op"] : \E a, b \in Draws(c) : a < n /\ n < b}
PlanFits(c) ==
    \A n \in DOMAIN c.tab["op"] : c.tab["op"][n].type \notin FrameOps =>
        /\ c.tab["op"][n].type # "dispatch"
        /\ (\E q, r \in Seqs(c) : q < n /\ n <= r + 1) =>
              n \in BetweenDraws(c) /\ c.tab["op"][n].type \in Interleavable

\* A wait cannot come after work of the host, nor a completion before it.
SyncsFit(c, syncs) ==
    /\ "wait" \in syncs => OpsBefore(c) = <<>>
    /\ syncs \cap {"signal", "fence"} # {} => OpsAfter(c) = <<>>

\* A wait on the host finds its event set, or the submission ends there.
EventsAreSet(ops) ==
    \A n \in DOMAIN ops : ops[n].type = "eventWait" =>
        LET of == {m \in 1..n - 1 : ops[m].type = "event" /\ ops[m].data.event = ops[n].data}
        IN  of # {} /\ ops[Max(of)].data.on

Submittable(s) ==
    /\ s.f = "Submit"
    /\ EventsAreSet(OpsBefore(cb[s.b]) \o OpsAfter(cb[s.b]))
    /\ EndResult(cb[s.b]) = "ok"
    /\ Accepted(cb[s.b])
    /\ Seqs(cb[s.b]) # {} => PlanFits(cb[s.b]) /\ SyncsFit(cb[s.b], Range(s.syncs))

\* The host executes the given operations, in order.
HostRuns(c, ops) ==
    /\ image' = AfterBarriers(image, c, ops)
    /\ truth' = TrulyAfter(truth, c, ops)
    /\ script' = Tail(script)
    /\ UNCHANGED <<cb, said>>

Submit(s) ==
    /\ Submittable(s)
    /\ HostRuns(cb[s.b], OpsBefore(cb[s.b]) \o OpsAfter(cb[s.b]))

\* A call that only records.
Call(s) ==
    \/ vkBeginCommandBuffer(s) \/ vkCmdBindPipeline(s) \/ vkCmdBindVertexBuffers(s)
    \/ vkCmdBindIndexBuffer(s) \/ vkCmdSetDynamicState(s) \/ vkCmdPushConstants(s)
    \/ vkCmdBindDescriptorSets(s) \/ vkCmdBeginRendering(s) \/ vkCmdEndRendering(s)
    \/ vkCmdDraw(s) \/ vkCmdClearAttachments(s) \/ vkCmdPipelineBarrier(s)
    \/ vkCmdSetEvent(s) \/ vkCmdWaitEvents(s) \/ vkCmdBeginRenderPass(s)
    \/ vkCmdNextSubpass(s) \/ vkCmdEndRenderPass(s) \/ vkCmdTransfer(s)
    \/ vkCmdFillOrUpdate(s) \/ vkCmdDispatch(s) \/ vkCmdQuery(s)
    \/ vkCmdExecuteCommands(s)

Next == script # <<>> /\ \E s \in Head(script) : Call(s) \/ Submit(s)

Spec == Init /\ [][Next]_vars

----------------------------------------------------------------------------
\* Properties

\* No table of a command buffer outgrows its array, every range of a record or an
\* operation lies in its table unless the buffer is to be refused, and the records'
\* places among the operations do not decrease (the arrays of the recording in
\* pdocker_vulkan_icd.c).
TypeOK ==
    \A b \in Buffers :
        LET c == cb[b]
        IN  /\ \A t \in Tables : Size(c, t) <= Room[t]
            /\ ~c.unsupported /\ ~c.badSets =>
                    \A x \in ToSet(c.tab["rec"]) \cup ToSet(c.tab["op"]) :
                        \A t \in DOMAIN x.span : x.span[t][1] + x.span[t][2] <= Size(c, t)
            /\ \A m, n \in DOMAIN c.tab["rec"] :
                    /\ m < n => c.tab["rec"][m].seq <= c.tab["rec"][n].seq
                    /\ c.tab["rec"][n].seq <= Size(c, "op")

\* The tables that records take ranges of, and where the records before one end
Shared == {"target", "draw", "bind", "offset", "dyn", "push", "clear", "att", "rect",
           "memory", "buffer", "image"}
Reading(c, t) == {n \in DOMAIN c.tab["rec"] : LET span == c.tab["rec"][n].span
                                              IN  t \in DOMAIN span /\ span[t][2] > 0}
SpanEnd(c, t, n) == c.tab["rec"][n].span[t][1] + c.tab["rec"][n].span[t][2]
EndBefore(c, t, n) == LET earlier == {m \in Reading(c, t) : m < n}
                      IN  IF earlier = {} THEN 0 ELSE SpanEnd(c, t, Max(earlier))
PassesBegan(calls) == \A k \in DOMAIN calls : calls[k].f = "BeginRenderPass" => calls[k].began

\* In a command buffer that may be submitted the records share out each table
\* among them, in order and without a gap: none reads an entry of another, also
\* after secondary buffers were copied in (append_secondary_command_buffer).  A
\* render pass that could not begin is left out: its transitions stay behind.
RecordsShareTables ==
    \A b \in Buffers : Accepted(cb[b]) /\ PassesBegan(said[b]) =>
        \A t \in Shared :
            /\ \A n \in Reading(cb[b], t) : cb[b].tab["rec"][n].span[t][1] = EndBefore(cb[b], t, n)
            /\ EndBefore(cb[b], t, Size(cb[b], "rec") + 1) = Size(cb[b], t)

\* What the ICD knows of the layouts of an image, as long as it has not given the
\* cache up, is what the barriers it executed left in each subresource.
LayoutIsKnown ==
    \A i \in Images : ~image[i].overflow =>
        \A p \in Parts :
            LET rows == image[i].ranges
                mine == {n \in DOMAIN rows : p \in rows[n].range}
            IN  /\ mine = {} => truth[i][p] = image[i].current
                /\ \A n \in mine : truth[i][p] = rows[n].layout
=============================================================================
