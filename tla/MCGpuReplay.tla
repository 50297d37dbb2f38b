------------------------------ MODULE MCGpuReplay ------------------------------
(* Recordings for the instance of GpuReplay that TLC checks.  A script is a      *)
(* sequence of steps; a step is a set of calls, of which one is made.            *)
EXTENDS GpuReplay

MCParts == {1, 2, 3}
MCRoom == ("draw" :> 4) @@ [t \in Tables |-> 24]
MCFrameRoom == ("command" :> 24) @@ [s \in Sections |-> 16]
MCMemoryOf == [b1 |-> "m1", b2 |-> "m2", i1 |-> "m1", i2 |-> "m3"]

----------------------------------------------------------------------------
\* Objects

Whole == {1, 2, 3}
View(i, r) == [image |-> i, range |-> r]
Att(i, r) == [view |-> View(i, r), resolve |-> None, clear |-> r = Whole]
Resolved(i, j) == [view |-> View(i, Whole), resolve |-> View(j, Whole), clear |-> FALSE]
Target1(c, d, s) == [color |-> c, depth |-> d, stencil |-> s, layers |-> 2, area |-> <<0, 10>>]
Plain == Target1(<<Att("i1", Whole)>>, None, None)
Deep == Target1(<<None, Resolved("i1", "i2")>>, Att("i2", {1}), Att("i2", {2}))

Layout == [sets |-> <<"T", "U">>, odd |-> FALSE]
One == [count |-> 1, dynamic |-> FALSE]
Free(n) == [count |-> n, dynamic |-> TRUE]
Stages(n, constants) == [k \in 1..n |-> [code |-> k, bytes |-> 4 * Len(constants),
                                         constants |-> constants]]
Simple == [name |-> "simple", odd |-> FALSE, stages |-> Stages(1, <<>>), bindings |-> 0,
           attributes |-> 0, colors |-> 1, depth |-> FALSE, static |-> FALSE, blend |-> FALSE,
           viewports |-> Free(1), scissors |-> Free(1), layout |-> Layout]
Rich == [Simple EXCEPT !.name = "rich", !.stages = Stages(2, <<0, 4>>), !.bindings = 1,
                       !.attributes = 1, !.colors = 2, !.depth = TRUE, !.static = TRUE,
                       !.blend = TRUE, !.viewports = [count |-> 2, dynamic |-> FALSE],
                       !.scissors = Free(2)]

Element(n, buf, dynamic) ==
    [element |-> n, buf |-> buf, view |-> None, sampler |-> None, dynamic |-> dynamic]
Set(type, elements) ==
    [type |-> type, odd |-> FALSE, elements |-> elements,
     dynamic |-> Len(SelectSeq(elements, LAMBDA d : d.dynamic))]
SetT == Set("T", <<Element(0, "b1", TRUE), Element(1, "b2", FALSE)>>)
SetU == Set("U", <<Element(0, "b2", TRUE), Element(3, "b1", TRUE)>>)
Sampled(r) == Set("T", <<[element |-> 0, buf |-> None, view |-> View("i2", r),
                          sampler |-> "s", dynamic |-> FALSE]>>)

----------------------------------------------------------------------------
\* Calls, and sequences of steps with one call each

Of(b, f, x) == <<{[b |-> b, f |-> f] @@ x}>>
P(f, x) == Of("primary", f, x)
Either(steps) == <<UNION {step[1] : step \in steps}>>
Start(b) == Of(b, "Begin", [odd |-> FALSE, inherits |-> FALSE])
Bind(b, p) == Of(b, "BindPipeline", [point |-> "graphics", pipe |-> p])
Vertex(b, first, bufs) == Of(b, "BindVertexBuffers", [first |-> first, bufs |-> bufs])
Index(b, buf) == Of(b, "BindIndexBuffer", [buf |-> buf, offset |-> 8])
Dyn(b, value) == Of(b, "SetDynamicState",
                    [state |-> [name |-> "viewport", value |-> value], big |-> FALSE])
Push(b, offset, words) ==
    Of(b, "PushConstants", [offset |-> offset, words |-> words, stages |-> "all"])
Sets(b, first, sets, offsets) ==
    Of(b, "BindDescriptorSets", [point |-> "graphics", first |-> first, sets |-> sets,
                                 offsets |-> offsets, layout |-> Layout])
Open(b, t) == Of(b, "BeginRendering", [target |-> t, odd |-> FALSE])
Close(b) == Of(b, "EndRendering", [odd |-> FALSE])
DrawCall(b, indexed, indirect, n) ==
    Of(b, "Draw", [indexed |-> indexed, indirect |-> indirect, count |-> 1, args |-> n])
Clear(b, aspect, color) ==
    Of(b, "ClearAttachments", [atts |-> <<[aspect |-> aspect, color |-> color]>>,
                               rects |-> <<[from |-> 2, to |-> 5, base |-> 0, layers |-> 1]>>])
Barrier(memory, bufs, images) ==
    P("PipelineBarrier", [odd |-> FALSE, staged |-> TRUE, memory |-> memory,
                          bufs |-> bufs, images |-> images])
Change(i, r, old, new) == [image |-> i, old |-> old, new |-> new, range |-> r]
Region(src, dst, aspect) == [src |-> src, dst |-> dst, aspect |-> aspect, range |-> Whole]
Move1(kind, src, dst, aspect) ==
    P("Transfer", [kind |-> kind, bound |-> TRUE, regions |-> <<Region(src, dst, aspect)>>])
Write(kind, buf) == P("FillOrUpdate", [kind |-> kind, bound |-> TRUE, bytes |-> 8, buf |-> buf,
                                       offset |-> 4])
QueryCall(type) == P("Query", [type |-> type, inPool |-> TRUE, number |-> 1, dst |-> "b1"])
Send(syncs) == P("Submit", [syncs |-> syncs])

AnyTransfer ==
    Either({Move1("copy", "b1", "b2", {"color"}), Move1("imageCopy", "b1", "i1", {"color"}),
            Move1("imageCopy", "i2", "b2", {"color"}), Move1("imageImage", "i1", "i2", {"color"}),
            Move1("clearColor", None, "i1", {"color"}), Move1("clearDepth", None, "i2", {"depth"}),
            Move1("clearDepth", None, "i2", {"depth", "stencil"}),
            Move1("resolve", "i1", "i2", {"color"}), Move1("blit", "i2", "i1", {"color"}),
            Write("fill", "b1"), Write("update", "b2")})
EventCall(on) == P("SetEvent", [event |-> "e", on |-> on])
HostCall == Either({Move1("copy", "b1", "b2", {"color"}), Write("fill", "b2"),
                    EventCall(TRUE)})
Draw1(b) == DrawCall(b, FALSE, None, 1)
Rendered(b, t) == Open(b, t) \o Draw1(b) \o Close(b)

\* Transfers before, between and after two renderings.
Frames ==
    {Start("primary") \o before \o Bind("primary", p) \o Rendered("primary", Plain)
        \o between \o Rendered("primary", Plain) \o after \o Send(<<>>) :
     before \in {<<>>, HostCall}, p \in {Simple, Rich},
     between \in {<<>>, AnyTransfer, HostCall \o Write("update", "b1")},
     after \in {<<>>, Write("fill", "b1"), Barrier(1, <<>>, <<>>) \o AnyTransfer}}

\* The state that draws find, bound in several orders and again between draws.
StateCalls(b) ==
    {Dyn(b, 1), Push(b, 1, <<5, 6>>), Vertex(b, 1, <<"b1">>), Sets(b, 0, <<SetT, SetU>>, <<1, 2, 3>>)}
States ==
    {Start("primary") \o Bind("primary", p) \o s1 \o s2 \o Open("primary", t) \o Draw1("primary")
        \o s3 \o draw \o Close("primary") \o Send(<<"fence">>) :
     p \in {Simple, Rich}, s1 \in StateCalls("primary"), s2 \in StateCalls("primary"),
     t \in {Plain, Deep},
     s3 \in {Dyn("primary", 2), Bind("primary", Rich), Sets("primary", 1, <<SetU>>, <<7, 8>>),
             Sets("primary", 0, <<Sampled({2})>>, <<>>), Index("primary", "b2")},
     draw \in {Draw1("primary"), DrawCall("primary", TRUE, None, 2),
               DrawCall("primary", FALSE, "b1", 3), Clear("primary", {"color"}, 0),
               Clear("primary", {"depth", "stencil"}, 0)}}

\* Secondary buffers that render, copied once or twice after the primary's work.
Second(s) == Start("secondary") \o Bind("secondary", Simple) \o s \o Open("secondary", Plain)
             \o DrawCall("secondary", FALSE, None, 5) \o Clear("secondary", {"color"}, 0)
             \o Close("secondary")
Secondaries ==
    {Second(s) \o Start("primary") \o Bind("primary", Rich) \o first
        \o P("ExecuteCommands", [bufs |-> again]) \o then \o Send(<<"signal">>) :
     s \in {Dyn("secondary", 3), Sets("secondary", 0, <<SetT>>, <<4>>), Vertex("secondary", 0, <<"b2">>)},
     first \in {Rendered("primary", Plain), Sets("primary", 0, <<SetT>>, <<9>>) \o Dyn("primary", 1)
                    \o Rendered("primary", Plain)},
     again \in {<<"secondary">>, <<"secondary", "secondary">>},
     then \in {<<>>, Rendered("primary", Deep)}}

\* Render passes, barriers, queries and events.
Pass(begins, ends, role) ==
    [single |-> TRUE, begins |-> begins, ends |-> ends,
     atts |-> <<[role |-> "color", initial |-> "undefined", layout |-> "color", final |-> "present"],
                [role |-> role, initial |-> "undefined", layout |-> "depth", final |-> "sampled"]>>]
InPass(begins, ends, role) ==
    P("BeginRenderPass", [pass |-> Pass(begins, ends, role),
                          fb |-> <<Att("i1", Whole), Att("i2", Whole)>>, layers |-> 2,
                          area |-> <<0, 10>>, inline |-> TRUE, odd |-> FALSE])
    \o Draw1("primary") \o P("EndRenderPass", [odd |-> FALSE])
AnyBarrier == Either({Barrier(1, <<[buf |-> "b1", inside |-> TRUE]>>, <<Change("i2", {1}, "undefined", "color")>>),
                      Barrier(0, <<>>, <<Change("i1", Whole, "color", "sampled")>>),
                      P("WaitEvents", [event |-> "e", odd |-> FALSE, staged |-> TRUE, memory |-> 1,
                                       bufs |-> <<>>, images |-> <<>>])})
Passes ==
    {Start("primary") \o before \o Bind("primary", Simple) \o InPass(begins, ends, role) \o between
        \o InPass(FALSE, FALSE, "depth") \o AnyBarrier \o Send(syncs) :
     before \in {<<>>, QueryCall("RESET_QUERY_POOL"), AnyBarrier, EventCall(TRUE),
                EventCall(FALSE) \o EventCall(TRUE) \o AnyBarrier}, begins \in BOOLEAN, ends \in BOOLEAN,
     role \in {"both", "resolve"}, between \in {<<>>, AnyBarrier, QueryCall("WRITE_TIMESTAMP") \o AnyTransfer,
                 QueryCall("COPY_QUERY_POOL_RESULTS")},
     syncs \in {<<"wait">>, <<"fence">>}}

\* Images in several layouts: a barrier on the host, then renderings of parts.
Parted == Either({Barrier(0, <<>>, <<Change("i1", {1, 2}, "undefined", "color")>>),
                  Barrier(0, <<>>, <<Change("i1", {1, 2}, "undefined", "color"),
                                     Change("i1", {2, 3}, "color", "sampled")>>),
                  Barrier(0, <<>>, <<Change("i1", {3}, "undefined", "depth"),
                                     Change("i1", {1, 2}, "undefined", "sampled")>>)})
Within == Barrier(0, <<>>, <<Change("i1", {1}, "color", "sampled")>>)
PartView(r) == Target1(<<Att("i1", r)>>, None, None)
Layouts ==
    {Start("primary") \o Parted \o Send(<<>>) \o Start("primary") \o before \o Bind("primary", Simple)
        \o Rendered("primary", PartView(r)) \o between \o Rendered("primary", PartView(q))
        \o Send(<<"fence">>) :
     r \in {{1, 2}, {3}, Whole}, q \in {{2}, {1, 2}, Whole}, before \in {<<>>, Parted},
     between \in {<<>>, Within}}

\* Calls the ICD gives up on, and buffers that run full.
Full4 == Rendered("primary", Plain) \o Rendered("primary", Plain) \o Draw1("primary") \o Draw1("primary")
         \o Draw1("primary")
Dispatches == P("BindPipeline", [point |-> "compute", pipe |-> Simple])
    \o Either({P("BindDescriptorSets", [point |-> "compute", first |-> 0, sets |-> <<SetT>>,
                                        offsets |-> <<1>>, layout |-> Layout]),
               P("BindDescriptorSets", [point |-> "compute", first |-> 1, sets |-> <<SetT>>,
                                        offsets |-> <<1>>, layout |-> Layout])})
    \o P("Dispatch", [groups |-> 1, indirect |-> None])
Refusals ==
    {Start("primary") \o x \o Send(<<>>) :
     x \in {Full4, Draw1("primary"), Dispatches, Dispatches \o Rendered("primary", Plain),
            Bind("primary", Simple) \o P("NextSubpass", [odd |-> FALSE]),
            Push("primary", 3, <<1, 2>>) \o Write("fill", "b1"),
            Dyn("primary", 1) \o Dyn("primary", 2) \o Rendered("primary", Plain)}}

\* Two draws with other constants or vertex buffers each.
LiveScripts ==
    {Start("primary") \o Bind("primary", Simple) \o set \o Open("primary", Deep) \o Draw1("primary")
        \o again \o Draw1("primary") \o Close("primary") \o Send(<<"fence">>) :
     set \in {Push("primary", 0, <<5, 6>>), Vertex("primary", 0, <<"b1">>)},
     again \in {<<>>, Dyn("primary", 2), Push("primary", 1, <<7>>), Vertex("primary", 0, <<"b2">>)}}

MCScripts == Frames \cup States \cup Secondaries \cup Passes \cup Layouts \cup Refusals \cup LiveScripts

\* A frame of a low minor with payloads.
OverlapScripts == {Start("primary") \o Bind("primary", Simple) \o Dyn("primary", 1)
                     \o Rendered("primary", Plain) \o again \o Send(<<>>) :
                   again \in {<<>>, Rendered("primary", Plain), Rendered("primary", Deep)}}
=============================================================================
