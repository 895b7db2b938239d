--------------------------- MODULE FrameRecording ---------------------------
(***************************************************************************)
(* What one frame records into its command buffer: PipelineManager's nine  *)
(* pipelines, the shadow pass and the passes of the picture, in the order  *)
(* of GameClient::run.                                                     *)
(*                                                                         *)
(* Nothing checks a recording in a release build: a draw under a pipeline  *)
(* of another render pass, a descriptor set left over from an incompatible *)
(* layout, a setter of the builder called before the one that overwrites   *)
(* it, all give a wrong picture and no error.  The model executes each     *)
(* call on the state Vulkan keeps for a command buffer, and rasterises one *)
(* pixel, so that its properties speak of the picture.                     *)
(*                                                                         *)
(* A thing drawn is [what, z, i]: its bucket, its distance from the camera *)
(* and its place in the bucket.  Distances are even, ClearDepth is the     *)
(* cleared depth and the skybox's; a depth bias moves a surface by one.    *)
(* Buckets of the different models of one kind are drawn the same way: one *)
(* of each kind is kept.  The instance buffers and frames in flight are    *)
(* RenderBuckets' and FramePipeline's.                                     *)
(***************************************************************************)
EXTENDS Integers, Sequences, SequencesExt, FiniteSets

CONSTANTS
    ClearDepth, \* the cleared depth
    Depths,     \* distances a surface may have: even and smaller than ClearDepth
    Room,       \* bound: things in each bucket
    MaxThings,  \* bound: things in the buckets of one frame
    MaxFrames   \* bound: frames recorded

MapSlots == 0 .. 1  \* MAX_FRAMES_IN_FLIGHT

BucketNames ==
    {"opaque", "outline", "transparent", "outlineTransparent", "billboard", "text"}

ASSUME DepthsAssumption ==
    /\ ClearDepth \in Nat \ {0} /\ \A b \in BucketNames : Room[b] \in Nat
    /\ Depths \subseteq {z \in 1 .. ClearDepth - 1 : z % 2 = 0}
    /\ MaxThings \in Nat /\ MaxFrames \in Nat \ {0}

VARIABLES
    begun,      \* frames begun
    frameIndex, \* Renderer::m_currentFrameIndex
    step,       \* calls of the frame made so far
    scene,      \* the buckets of the frame (RenderManager)
    drawn       \* what the commands recorded so far did

recordingVars == <<begun, frameIndex, step, scene, drawn>>
-----------------------------------------------------------------------------
(* Pipeline::Builder: the defaults, and what each setter overwrites.       *)

Builder(pass, sets, size, stride) ==
    [pass |-> pass, sets |-> sets, size |-> size, stride |-> stride,
     enabled |-> {}, compare |-> "always", colours |-> 1, bias |-> 0]

EnableDepthTest(b) ==
    [b EXCEPT !.enabled = @ \cup {"test", "write"}, !.compare = "less"]
\* Defect: the setter that keeps blended surfaces out of the depth buffer
\* does nothing.
KeepDepthWrite(b) == b

DisableDepthWrite(b) == [b EXCEPT !.enabled = @ \ {"write"}]
SetDepthCompareOp(b, op) == [b EXCEPT !.compare = op]
SetDepthBias(b, bias) == [b EXCEPT !.bias = bias]
EnableAlphaBlending(b) == [b EXCEPT !.enabled = @ \cup {"blend"}]
DisableColorAttachments(b) == [b EXCEPT !.colours = 0]

(* The strides of the instance data the draws write, in bytes; 0: none.    *)
ModelInstance == 120
OutlineInstance == 80
ShadowInstance == 64
BillboardInstance == 44
TextInstance == 40

(* PipelineManager::initPipelines.  The outlines' pipelines take the       *)
(* vertex descriptions of Model, as the code does.                         *)

Skybox ==
    SetDepthCompareOp(DisableDepthWrite(EnableDepthTest(
        Builder("main", <<"bindless">>, 80, 0))), "less_or_equal")

ModelShadow ==
    SetDepthBias(EnableDepthTest(DisableColorAttachments(
        Builder("shadow", <<>>, 64, ShadowInstance))), 1)

ModelOpaque ==
    EnableDepthTest(
        Builder("main", <<"bindless", "shadow">>, 80, ModelInstance))

ModelTransparent ==
    EnableAlphaBlending(DisableDepthWrite(EnableDepthTest(
        Builder("main", <<"bindless", "shadow">>, 80, ModelInstance))))

OutlineOpaque ==
    SetDepthCompareOp(SetDepthBias(EnableDepthTest(
        Builder("main", <<"bindless">>, 80, ModelInstance)), -1),
        "less_or_equal")

OutlineTransparent ==
    EnableAlphaBlending(SetDepthCompareOp(SetDepthBias(DisableDepthWrite(
        EnableDepthTest(Builder("main", <<"bindless">>, 80, ModelInstance))),
        -1), "less_or_equal"))

TextPipeline ==
    EnableAlphaBlending(Builder("main", <<"bindless">>, 80, TextInstance))

BillboardText ==
    EnableAlphaBlending(DisableDepthWrite(EnableDepthTest(
        Builder("main", <<"bindless">>, 144, BillboardInstance))))

Imgui == EnableAlphaBlending(Builder("main", <<"bindless">>, 64, 0))
-----------------------------------------------------------------------------
(* The command buffer's state (Vulkan).  A set or a push constant survives *)
(* the bind of another pipeline only under a layout compatible with it:    *)
(* the same push constant range and the same sets up to its number.        *)

Layout(p) == [sets |-> p.sets, size |-> p.size]
Compatible(a, b, n) ==
    /\ a.size = b.size
    /\ Len(a.sets) >= n /\ Len(b.sets) >= n
    /\ SubSeq(a.sets, 1, n) = SubSeq(b.sets, 1, n)

Unset == [sets |-> <<>>, size |-> 0]

BindPipeline(g, p) == [g EXCEPT !.pipe = p]

NoSet == [content |-> [kind |-> "none", slot |-> 0], layout |-> Unset]

\* A set bound under one layout is lost when another is bound next to it
\* under a layout that differs before the two.
BindSet(g, p, n, content) ==
    [g EXCEPT !.sets = [k \in DOMAIN @ |->
        IF k = n THEN [content |-> content, layout |-> Layout(p)]
        ELSE IF Compatible(@[k].layout, Layout(p), IF k < n THEN k ELSE n)
             THEN @[k]
        ELSE NoSet]]

\* BindlessManager::bind, into set 0
BindBindless(g, p) == BindSet(g, p, 1, [kind |-> "bindless", slot |-> 0])

\* ShadowMap::bind: the map of this frame's slot, into set 1
BindShadow(g, p) ==
    BindSet(g, p, 2, [kind |-> "shadow", slot |-> frameIndex])

PushConstant(g, p, size) ==
    [g EXCEPT !.push = [size |-> size, layout |-> Layout(p)]]

(* One pixel: the depth test, the depth write and the blending of a thing. *)
Passes(p, z, depth) ==
    \/ "test" \notin p.enabled
    \/ p.compare = "less" /\ z < depth
    \/ p.compare = "less_or_equal" /\ z <= depth

Shade(p, pixel, t) ==
    LET z == t.z + p.bias
    IN IF ~Passes(p, z, pixel.depth) THEN pixel
       ELSE [depth |-> IF {"test", "write"} \subseteq p.enabled THEN z ELSE pixel.depth,
             seen |-> IF p.colours = 0 THEN pixel.seen
                      ELSE IF "blend" \in p.enabled THEN Append(pixel.seen, t)
                      ELSE <<t>>]

(* What a draw relied on, kept for the properties.                         *)
Relied(g, stride, n) ==
    [pipe |-> g.pipe, pass |-> g.pass, sets |-> g.sets, push |-> g.push,
     scissor |-> g.scissor, stride |-> stride, count |-> n,
     shadows |-> g.shadows]

\* The instances of a draw, in the order of its bucket.
Shaded(p, pixel, things) ==
    LET after[n \in 0 .. Len(things)] ==
            IF n = 0 THEN pixel ELSE Shade(p, after[n - 1], things[n])
    IN  after[Len(things)]

DrawInstances(g, things, stride) ==
    [g EXCEPT
        !.draws = @ \cup {Relied(g, stride, Len(things))},
        !.pixel = Shaded(g.pipe, @, things),
        !.shadows = IF g.pass # "shadow" THEN @
                    ELSE [@ EXCEPT ![frameIndex].casters = things]]

(* A bucket is drawn unless it is empty (draw() of every model returns).   *)
DrawBucket(g, things, stride) ==
    IF things = <<>> THEN g ELSE DrawInstances(g, things, stride)
-----------------------------------------------------------------------------
(* The calls of a frame.                                                   *)

ClearedPixel == [depth |-> ClearDepth, seen |-> <<>>]

\* ShadowMap::update: the light's matrix of this frame, into its slot
UpdateShadow(g) == [g EXCEPT !.shadows[frameIndex].light = begun]

\* ShadowMap::begin: clear, viewport and scissor of the map's size
BeginShadow(g) ==
    [g EXCEPT !.pass = "shadow", !.scissor = "shadow",
              !.pixel = ClearedPixel,
              !.shadows[frameIndex].layout = "attachment",
              !.shadows[frameIndex].casters = <<>>]

\* ShadowMap::end: the pass leaves the image ready to be sampled
EndShadow(g) ==
    [g EXCEPT !.pass = "none",
              !.shadows[frameIndex].layout = "read_only"]

\* PipelineManager::renderShadowPass; drawShadow copies the models' buckets
RenderShadowPass(g) ==
    EndShadow(DrawBucket(
        PushConstant(BindPipeline(BeginShadow(UpdateShadow(g)), ModelShadow),
                     ModelShadow, 64),
        scene.opaque, ShadowInstance))

\* Renderer::beginRenderPass
BeginRenderPass(g) ==
    [g EXCEPT !.pass = "main", !.scissor = "frame", !.pixel = ClearedPixel]

\* The part every pass of the picture starts with.
With(g, p, size) ==
    PushConstant(BindBindless(BindPipeline(g, p), p), p, size)

RenderModelsOpaque(g) ==
    DrawBucket(BindShadow(With(g, ModelOpaque, 80), ModelOpaque),
               scene.opaque, ModelInstance)

RenderModelsTransparent(g) ==
    DrawBucket(BindShadow(With(g, ModelTransparent, 80), ModelTransparent),
               scene.transparent, ModelInstance)

RenderModelOutlinesOpaque(g) ==
    DrawBucket(With(g, OutlineOpaque, 80), scene.outline, OutlineInstance)

RenderModelOutlinesTransparent(g) ==
    DrawBucket(With(g, OutlineTransparent, 80),
               scene.outlineTransparent, OutlineInstance)

RenderSkybox(g) ==
    DrawInstances(With(g, Skybox, 80), <<[what |-> "skybox", z |-> ClearDepth, i |-> 1]>>, 0)

(* The texts push their constants only with a bucket that is not empty.    *)
RenderBillboardTexts(g) ==
    LET bound == BindBindless(BindPipeline(g, BillboardText), BillboardText)
    IN IF scene.billboard = <<>> THEN bound
       ELSE DrawInstances(PushConstant(bound, BillboardText, 144),
                 scene.billboard, BillboardInstance)

RenderTexts(g) ==
    LET bound == BindBindless(BindPipeline(g, TextPipeline), TextPipeline)
    IN IF scene.text = <<>> THEN bound
       ELSE DrawInstances(PushConstant(bound, TextPipeline, 80),
                 scene.text, TextInstance)

\* Imgui::draw narrows the scissor for each command of its lists.
RenderImguiPass(g) ==
    DrawInstances([With(g, Imgui, 64) EXCEPT !.scissor = "widget"],
         <<[what |-> "imgui", z |-> 0, i |-> 1]>>, 0)

EndRenderPass(g) == [g EXCEPT !.pass = "none"]

\* GameClient::run, between beginFrame and endFrame
Calls == <<"shadow", "begin", "opaque", "outlines", "skybox", "transparent",
           "outlinesTransparent", "billboards", "texts", "imgui", "end">>
-----------------------------------------------------------------------------
Bucket(what, zs) ==
    {[i \in DOMAIN f |-> [what |-> what, z |-> f[i], i |-> i]] :
        f \in BoundedSeq(zs, Room[what])}

Things(s) ==
    Len(s.opaque) + Len(s.outline) + Len(s.transparent)
        + Len(s.outlineTransparent) + Len(s.billboard) + Len(s.text)

Scenes ==
    {s \in [opaque : Bucket("opaque", Depths), outline : Bucket("outline", Depths),
            transparent : Bucket("transparent", Depths),
            outlineTransparent : Bucket("outlineTransparent", Depths),
            billboard : Bucket("billboard", Depths), text : Bucket("text", {0})] :
        Things(s) <= MaxThings}

NoScene ==
    [opaque |-> <<>>, outline |-> <<>>, transparent |-> <<>>,
     outlineTransparent |-> <<>>, billboard |-> <<>>, text |-> <<>>]

\* ShadowMap::transitionToReadOnly: every slot's image can be sampled from
\* the start, though nothing was drawn into it
Recorder ==
    [pass |-> "none", pipe |-> Imgui,
     sets |-> [n \in 1 .. 2 |-> NoSet],
     push |-> [size |-> 0, layout |-> Unset], scissor |-> "none",
     pixel |-> ClearedPixel, draws |-> {},
     shadows |-> [s \in MapSlots |->
                    [layout |-> "read_only", light |-> 0, casters |-> <<>>]]]

RecordingInit ==
    /\ begun = 0 /\ frameIndex = 0 /\ step = Len(Calls)
    /\ scene = NoScene /\ drawn = Recorder

NextIndex == (frameIndex + 1) % 2

(* Renderer::endFrame and the next beginFrame: a command buffer keeps      *)
(* nothing of its last recording, the shadow maps keep their images.       *)
BeginFrame ==
    /\ step = Len(Calls) /\ begun < MaxFrames
    /\ begun' = begun + 1
    /\ frameIndex' = IF begun = 0 THEN 0 ELSE NextIndex
    /\ scene' \in Scenes
    /\ drawn' = [Recorder EXCEPT !.shadows = drawn.shadows]
    /\ step' = 0

Call(call, g) ==
    /\ step < Len(Calls) /\ Calls[step + 1] = call
    /\ drawn' = g /\ step' = step + 1
    /\ UNCHANGED <<begun, frameIndex, scene>>

RecordingNext ==
    \/ BeginFrame
    \/ Call("shadow", RenderShadowPass(drawn))
    \/ Call("begin", BeginRenderPass(drawn))
    \/ Call("opaque", RenderModelsOpaque(drawn))
    \/ Call("outlines", RenderModelOutlinesOpaque(drawn))
    \/ Call("skybox", RenderSkybox(drawn))
    \/ Call("transparent", RenderModelsTransparent(drawn))
    \/ Call("outlinesTransparent", RenderModelOutlinesTransparent(drawn))
    \/ Call("billboards", RenderBillboardTexts(drawn))
    \/ Call("texts", RenderTexts(drawn))
    \/ Call("imgui", RenderImguiPass(drawn))
    \/ Call("end", EndRenderPass(drawn))

RecordingSpec == RecordingInit /\ [][RecordingNext]_recordingVars
-----------------------------------------------------------------------------
(* The type invariant: a depth never passes the cleared one, and nothing   *)
(* is nearer than a biased surface.                                        *)
RecordingTypeOK ==
    /\ begun \in 0 .. MaxFrames /\ frameIndex \in MapSlots
    /\ step \in 0 .. Len(Calls)
    /\ drawn.pass \in {"none", "shadow", "main"}
    /\ drawn.scissor \in {"none", "shadow", "frame", "widget"}
    /\ drawn.pixel.depth \in 1 .. ClearDepth
    /\ \A s \in MapSlots : /\ drawn.shadows[s].layout \in {"attachment", "read_only"}
                           /\ drawn.shadows[s].light \in 0 .. begun

(* Every draw is made inside the render pass its pipeline was built for,   *)
(* with every set its shaders use and the push constants bound under a     *)
(* layout compatible with the pipeline's: what the rest of the recording   *)
(* left behind is never relied upon by chance.                             *)
DrawsFit ==
    \A d \in drawn.draws :
        /\ d.pass = d.pipe.pass
        /\ \A n \in 1 .. Len(d.pipe.sets) :
             /\ d.sets[n].content.kind = d.pipe.sets[n]
             /\ Compatible(d.sets[n].layout, Layout(d.pipe), n)
        /\ d.push.size = d.pipe.size
        /\ d.push.layout.size = d.pipe.size

(* Only the interface is clipped to its widgets: a draw of the world is    *)
(* made with the scissor its pass set.                                     *)
WholeFrameDrawn ==
    \A d \in drawn.draws :
        d.pipe # Imgui => d.scissor = IF d.pass = "shadow" THEN "shadow"
                                      ELSE "frame"

(* The shader finds each instance where the draw wrote it, except for the  *)
(* outlines (their pipelines declare the stride of another structure).     *)
InstancesReadInPlace ==
    \A d \in drawn.draws :
        \/ d.stride = d.pipe.stride
        \/ d.count <= 1
        \/ d.pipe \in {OutlineOpaque, OutlineTransparent}

(* A surface is lit through the shadow map of its own frame: the slot that *)
(* is bound was drawn in this frame with all of its opaque parts and its   *)
(* light, and its pass has ended.                                          *)
ShadowOfThisFrame ==
    \A d \in drawn.draws :
        Len(d.pipe.sets) = 2 =>
            d.shadows[d.sets[2].content.slot]
                = [layout |-> "read_only", light |-> begun,
                   casters |-> scene.opaque]

Done == step = Len(Calls) /\ begun > 0
Of(things) == {[z |-> things[i].z, t |-> things[i]] : i \in DOMAIN things}
Biased(things) ==
    {[z |-> things[i].z - 1, t |-> things[i]] : i \in DOMAIN things}
Solid == Of(scene.opaque) \cup Biased(scene.outline)
Nearer(z) == {s \in Solid : s.z < z}

(* When a frame is recorded, the surface under everything blended is the   *)
(* nearest solid one, the sky where there is none; no other solid surface  *)
(* is left over it.                                                        *)
NearestShows ==
    Done => LET base == drawn.pixel.seen[1]
            IN IF Solid = {} THEN base.what = "skybox"
               ELSE \E s \in Solid : s.t = base /\ Nearer(s.z) = {}

(* Every blended surface in front of the nearest solid one is in the       *)
(* picture, blended surfaces do not hide one another, and none shows       *)
(* through a solid one.                                                    *)
BlendedAllSeen ==
    Done =>
        {drawn.pixel.seen[i] : i \in 2 .. Len(drawn.pixel.seen)} =
            {s.t : s \in {b \in Of(scene.transparent)
                                \cup Of(scene.billboard) :
                            \A o \in Solid : b.z < o.z}}
            \cup {s.t : s \in {b \in Biased(scene.outlineTransparent) :
                            \A o \in Solid : b.z <= o.z}}
            \cup {scene.text[i] : i \in DOMAIN scene.text}
            \cup {[what |-> "imgui", z |-> 0, i |-> 1]}

(* The interface covers the world: nothing is blended over the texts but   *)
(* the interface's own windows.                                            *)
InterfaceOnTop ==
    Done => LET seen == drawn.pixel.seen IN
            /\ Last(seen).what = "imgui"
            /\ \A i, j \in DOMAIN seen :
                 seen[i].what = "text" /\ j > i =>
                     seen[j].what \in {"text", "imgui"}

(* Every draw finds the pass, the descriptor sets, the push constants, the *)
(* instances and the shadow map it was made for, whatever the recording    *)
(* left bound before it, and the pixel shows the nearest solid surface,    *)
(* everything blended in front of it and the interface over all            *)
(* (pipeline_manager.cpp, shadow_map.cpp).                                 *)
FrameShowsScene ==
    /\ RecordingTypeOK /\ DrawsFit /\ WholeFrameDrawn /\ InstancesReadInPlace
    /\ ShadowOfThisFrame /\ NearestShows /\ BlendedAllSeen /\ InterfaceOnTop
=============================================================================
