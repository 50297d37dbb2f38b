------------------------------- MODULE GpuAbi -------------------------------
(***************************************************************************)
(* The frame in which the ICD sends a recorded command buffer to the GPU    *)
(* executor (docker-proot-setup/src/gpu/pdocker_gpu_abi.h, of which the app  *)
(* has the same copy).  A frame is a header, payloads and tables.  Each      *)
(* minor version V6.1 to V6.20 appends to the header an extension with the   *)
(* places of its tables, so a header of one minor begins with all the ones   *)
(* before it.  Sizes are in bytes.  Entries keep what the properties tell    *)
(* apart: who points at what, and how much.                                  *)
(***************************************************************************)
EXTENDS Integers, Sequences, FiniteSets

Nowhere == -1   \* the index that points at nothing

----------------------------------------------------------------------------
\* The header extensions: size of the header that ends with it, and the entry
\* size of each table it places.

V6 == [header |-> 448,
       entry |-> [resource |-> 72, descriptor |-> 88, image |-> 104, view |-> 72,
                  sampler |-> 88, stage |-> 64, pipeline |-> 176, vertexBinding |-> 32,
                  vertexAttribute |-> 16, attachment |-> 72, dynamicState |-> 40,
                  command |-> 160]]
V61 == [header |-> 616, entry |-> [dynamicOffset |-> 8, push |-> 24, imageBarrier |-> 88,
                                   memoryBarrier |-> 40, bufferBarrier |-> 72]]
V62 == [header |-> 664,  entry |-> [specialization |-> 24]]
V63 == [header |-> 712,  entry |-> [depthStencil |-> 80]]
V64 == [header |-> 760,  entry |-> [resolveAttachment |-> 16]]
V65 == [header |-> 808,  entry |-> [static |-> 32]]
V66 == [header |-> 896,  entry |-> [blend |-> 40, blendAttachment |-> 40]]
V67 == [header |-> 1024, entry |-> [viewportState |-> 32, viewport |-> 32, scissor |-> 32]]
V68 == [header |-> 1072, entry |-> [indirect |-> 40]]
V69 == [header |-> 1120, entry |-> [bufferCopy |-> 40]]
V610 == [header |-> 1208, entry |-> [bufferImageCopy |-> 80, imageCopy |-> 88]]
V611 == [header |-> 1320, entry |-> [fill |-> 40, update |-> 48]]
V612 == [header |-> 1368, entry |-> [clearColor |-> 64]]
V613 == [header |-> 1416, entry |-> [clearDepth |-> 64]]
V614 == [header |-> 1464, entry |-> [resolve |-> 88]]
V615 == [header |-> 1512, entry |-> [blit |-> 112]]
V616 == [header |-> 1640, entry |-> [clear |-> 32, clearAttachment |-> 48, clearRect |-> 32]]
V617 == [header |-> 1704, entry |-> [query |-> 56]]
V618 == [header |-> 1752, entry |-> [copyQuery |-> 64]]
V619 == [header |-> 1800, entry |-> [sync |-> 48]]
V620 == [header |-> 1848, entry |-> [layoutRange |-> 40]]

Extensions == <<V61, V62, V63, V64, V65, V66, V67, V68, V69, V610, V611, V612, V613,
                V614, V615, V616, V617, V618, V619, V620>>
Minors == 1..20

Sections == DOMAIN V6.entry \cup UNION {DOMAIN Extensions[m].entry : m \in Minors}

\* The minor that brought a table, and the tables of a frame of a minor.
MinorOf == [s \in Sections |-> IF s \in DOMAIN V6.entry THEN 1
                               ELSE CHOOSE m \in Minors : s \in DOMAIN Extensions[m].entry]
EntrySize == [s \in Sections |-> IF s \in DOMAIN V6.entry THEN V6.entry[s]
                                 ELSE Extensions[MinorOf[s]].entry[s]]
Carried(minor) == {s \in Sections : MinorOf[s] <= minor}
HeaderSize(minor) == Extensions[minor].header

----------------------------------------------------------------------------
\* Objects

MemoryResource(m)         == [kind |-> "memory", obj |-> m, parent |-> Nowhere]
BufferResource(b, memory) == [kind |-> "buffer", obj |-> b, parent |-> memory]
ImageEntry(i, memory, layout) == [obj |-> i, memory |-> memory, layout |-> layout]
ViewEntry(v, image)       == [obj |-> v, image |-> image]
SamplerEntry(s)           == [obj |-> s]
DescriptorEntry(set, d, resource, view, sampler, offset) ==
    [set |-> set, element |-> d.element, resource |-> resource, view |-> view,
     sampler |-> sampler, dynamic |-> d.dynamic, offset |-> offset]
LayoutRangeEntry(image, range, layout) == [image |-> image, range |-> range, layout |-> layout]

\* Pipelines

StageEntry(name, code, spec) == [name |-> name, code |-> code, spec |-> spec]
PipelineEntry(p, stages, bindings, attributes) ==
    [obj |-> p.name, stages |-> stages, bindings |-> bindings, attributes |-> attributes,
     colors |-> p.colors, depth |-> p.depth]
VertexBindingEntry(slot, resource) == [slot |-> slot, resource |-> resource]
VertexAttributeEntry(binding)      == [binding |-> binding]
SpecializationEntry(stage, offset) == [stage |-> stage, offset |-> offset]
DepthStencilEntry(p)               == [pipeline |-> p]
StaticEntry(p)                     == [pipeline |-> p]
BlendEntry(p, first, count)        == [pipeline |-> p, span |-> <<first, count>>]
BlendAttachmentEntry(p, number)    == [pipeline |-> p, number |-> number]
ViewportStateEntry(p, views, scissors) ==
    [pipeline |-> p, views |-> views, scissors |-> scissors]
ViewportEntry(p, number)           == [pipeline |-> p, number |-> number]
ScissorEntry(p, number)            == [pipeline |-> p, number |-> number]

\* Commands.  Every kind that carries more than the common entry has entries in
\* tables of its own, which name the command by its number.

CommandEntry(kind) ==
    [kind |-> kind, pipeline |-> Nowhere, attachments |-> <<0, 0>>, descriptors |-> <<0, 0>>,
     firstSet |-> Nowhere, offsets |-> <<0, 0>>, states |-> <<0, 0>>, vertices |-> <<0, 0>>,
     index |-> Nowhere, indexOffset |-> 0, load |-> 0, area |-> <<0, 0>>, layers |-> 0,
     args |-> 0]
AttachmentEntry(role, view, resolve, load) ==
    [role |-> role, view |-> view, resolve |-> resolve, load |-> load]
ResolveAttachmentEntry(attachment)  == [attachment |-> attachment]
DynamicStateEntry(state, load)      == [state |-> state, load |-> load]
DynamicOffsetEntry(offset)          == [offset |-> offset]
PushEntry(n, offset, size, stages)  ==
    [command |-> n, offset |-> offset, size |-> size, stages |-> stages]
MemoryBarrierEntry(n, staged)       == [command |-> n, staged |-> staged]
BufferBarrierEntry(n, buf, staged)  == [command |-> n, resource |-> buf, staged |-> staged]
ImageBarrierEntry(n, image, x)      ==
    [command |-> n, image |-> image, old |-> x.old, new |-> x.new, range |-> x.range,
     staged |-> x.staged]
IndirectEntry(n, buf, count)        == [command |-> n, resource |-> buf, count |-> count]
BufferCopyEntry(n, src, dst, data)  == [command |-> n, src |-> src, dst |-> dst, data |-> data]
BufferImageCopyEntry(n, buf, image, data) ==
    [command |-> n, resource |-> buf, image |-> image, data |-> data]
ImageCopyEntry(n, src, dst, data)   == [command |-> n, src |-> src, dst |-> dst, data |-> data]
FillEntry(n, dst, data)             == [command |-> n, dst |-> dst, data |-> data]
UpdateEntry(n, dst, load, data)     ==
    [command |-> n, dst |-> dst, load |-> load, data |-> data]
ClearColorEntry(n, image, data)     == [command |-> n, image |-> image, data |-> data]
ClearDepthEntry(n, image, aspect, data) ==
    [command |-> n, image |-> image, aspect |-> aspect, data |-> data]
ResolveEntry(n, src, dst, data)     == [command |-> n, src |-> src, dst |-> dst, data |-> data]
BlitEntry(n, src, dst, data)        == [command |-> n, src |-> src, dst |-> dst, data |-> data]
ClearEntry(n, attachments, rects)   ==
    [command |-> n, attachments |-> attachments, rects |-> rects]
ClearAttachmentEntry(a)             == [aspect |-> a.aspect, color |-> a.color]
ClearRectEntry(r)                   ==
    [from |-> r.from, to |-> r.to, base |-> r.base, layers |-> r.layers]
QueryEntry(n, op, number)           == [command |-> n, op |-> op, number |-> number]
CopyQueryEntry(n, dst, number)      == [command |-> n, dst |-> dst, number |-> number]
SyncEntry(x)                        == [sync |-> x]
=============================================================================
