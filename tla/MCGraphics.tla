------------------------------ MODULE MCGraphics ------------------------------
(***************************************************************************)
(* The graphics part of the client for TLC.  Its seven components share no *)
(* state in the models, so one run explores one component per behaviour:   *)
(* `subject` says which, and the others keep the state they start in.      *)
(***************************************************************************)
EXTENDS GlyphAtlas, FramePipeline, DeviceSetup, TextureStore, FrameRecording, RenderBuckets,
        FiniteSetsExt, TLC

\* Characters 1 and 2, the line break 3, and 9, which no font here has.
MCContents == {<<<<2, 9, 1>>, <<1, 3, 2, 1>>>>, <<<<1, 2, 1, 2, 1, 2>>>>}

VARIABLES
    subject,
    file, store, job, loads     \* MeshFile

-----------------------------------------------------------------------------
(* In the map a part with a decal, a text, and a selection box that holds a *)
(* part and a stray text; a second part; and a label of the interface.  A   *)
(* buffer holds two instances.                                              *)
MCObjects == {"p", "d", "t", "b", "c", "x", "q", "l"}
MCTop == {"p", "q", "l"}
MCClass == [o \in MCObjects |->
    CASE o = "d" -> "decal" [] o \in {"t", "x"} -> "text" [] o = "b" -> "box" [] o = "l" -> "label"
      [] OTHER -> "part"]
MCHome == [o \in MCObjects |->
    CASE o \in {"d", "t", "b"} -> "p" [] o \in {"c", "x"} -> "b" [] OTHER -> o]
MCRootOf == [o \in MCObjects |-> IF o = "l" THEN "gui" ELSE "map"]
MCBranches == [o \in MCObjects |->
    CASE o = "p" -> <<"d", "t", "b">> [] o = "b" -> <<"c", "x">> [] OTHER -> <<>>]
MCStart == [o \in MCObjects |->
    [alpha |-> "opaque", mesh |-> IF o \in {"t", "x", "l"} THEN "nunito" ELSE "cube",
     anchored |-> "no", place |-> IF o = "q" THEN 2 ELSE 1,
     skin |-> IF o = "d" THEN "Top" ELSE "wood"]]
MCLoaded == {"cube", "sphere", "nunito"}
Change(o, f, vs) == {[obj |-> o, field |-> f, value |-> v] : v \in vs}
MCEdit ==
    Change("p", "alpha", {"opaque", "clear"}) \cup Change("p", "mesh", {"cube", "sphere"})
    \cup Change("p", "anchored", {"yes", "no"}) \cup Change("p", "place", {0, 4})
    \cup Change("q", "place", {0}) \cup Change("q", "alpha", {"clear"})
    \cup Change("b", "alpha", {"clear", "hidden"}) \cup Change("d", "skin", {"Left"})
    \cup Change("t", "mesh", {"arial"}) \cup Change("l", "place", {0})

(* Two depths are enough for nearer, farther and equal surfaces.           *)
MCRoom == [b \in BucketNames |-> IF b \in {"opaque", "outline", "transparent"} THEN 2 ELSE 1]

(* Two files that can be read, one wide and one tall, and one that cannot. *)
Pictures == [wide |-> <<5, 2>>, tall |-> <<1, 4>>, broken |-> <<>>]
MCFiles == DOMAIN Pictures
MCCapacity == [texture |-> 1000, cubemap |-> 10]
MCAtlas == <<4, 4>>

(* Two vertices and two indices tell meshes, offsets and strides apart.    *)
MeshReader == INSTANCE MeshFile WITH
    Meshes <- [positions : {<<>>, <<21>>, <<22, 23>>}, indices : {<<>>, <<1, 0>>},
               stride : {1, 3, 4}],
    Claims <- {0, 1, 2, 3}, Cuts <- {0, 1, 4}, MaxMeshes <- 2, MaxLoads <- 2

(* An ordinary machine, one whose first device cannot present and whose    *)
(* second has no present mode, and one no device of which will do.         *)
Basic == [id |-> 1, families |-> <<{"graphics", "present"}>>, extension |-> TRUE,
          features |-> TRUE, formats |-> <<"srgb">>, modes |-> <<"fifo">>,
          minImages |-> 2, maxImages |-> 3, depth |-> <<{"attachment", "sampled", "linear"}>>]
Split == [Basic EXCEPT !.id = 2, !.families = <<{"present"}, {"graphics"}>>,
                       !.formats = <<"unorm", "srgb">>, !.maxImages = 0,
                       !.depth = <<{}, {"attachment", "sampled"}>>]
Headless == [Basic EXCEPT !.id = 3, !.families = <<{"graphics"}, {}>>]
Modeless == [Basic EXCEPT !.id = 4, !.modes = <<>>]
MCMachines == {<<Basic>>, <<Headless, Modeless, Split>>, <<Headless>>}

ASSUME MeshReader!MeshFileAssumption

-----------------------------------------------------------------------------
Components == {"glyphs", "frames", "buckets", "recording", "textures", "meshes", "setup"}

meshVars      == <<file, store, job, loads>>
graphicsVars  == <<subject, atlasVars, vars, bucketVars, recordingVars, storeVars, meshVars,
                   setupVars>>

Stays(c) == CASE c = "glyphs" -> UNCHANGED atlasVars
              [] c = "frames" -> UNCHANGED vars
              [] c = "buckets" -> UNCHANGED bucketVars
              [] c = "recording" -> UNCHANGED recordingVars
              [] c = "textures" -> UNCHANGED storeVars
              [] c = "meshes" -> UNCHANGED meshVars
              [] c = "setup" -> UNCHANGED setupVars
Only(c) == subject = c /\ subject' = subject /\ \A other \in Components \ {c} : Stays(other)

GraphicsInit ==
    /\ subject \in Components
    /\ subject = "frames" \/ (real = 1 /\ image = 1)
    /\ subject = "meshes" \/ file = CHOOSE f \in MeshReader!Files : TRUE
    /\ subject = "setup" \/ machine = <<Basic>>
    /\ AtlasInit /\ Init /\ BucketsInit /\ RecordingInit /\ StoreInit
    /\ MeshReader!Init /\ SetupInit

GraphicsNext ==
    \/ Only("glyphs") /\ AtlasNext
    \/ Only("frames") /\ Next
    \/ Only("buckets") /\ BucketsNext
    \/ Only("recording") /\ RecordingNext
    \/ Only("textures") /\ StoreNext
    \/ Only("meshes") /\ MeshReader!Next
    \/ Only("setup") /\ SetupNext

\* FramePipeline's fairness, for the behaviours that are about it.
GraphicsSpec ==
    /\ GraphicsInit /\ [][GraphicsNext]_graphicsVars
    /\ WF_vars(subject = "frames" /\ MainThread)
    /\ WF_vars(subject = "frames" /\ GpuFinishes)
    /\ WF_vars(subject = "frames" /\ MouseMoves)
    /\ SF_vars(subject = "frames" /\ DriverReports)

-----------------------------------------------------------------------------
(* The conjunct TypeOK of MeshesAgree says that the variables of the       *)
(* component keep their types.                                             *)

(* Frames go on, whatever the user resizes and whenever the surface is     *)
(* reported out of date; the swapchain gets the size of the window; and a  *)
(* closed window ends the program with the GPU at rest.                    *)
FramesKeepComing ==
    subject = "frames" => FramesGoOn /\ ExtentSettles /\ CloseEnds

(* A mesh is what its file says, or refused, and its three forms - drawn,  *)
(* shadow and outline - agree; a loaded one is never replaced (model.cpp,  *)
(* model_shadow.cpp, model_outline.cpp).                                   *)
MeshesAgree ==
    /\ [](subject = "meshes" => MeshReader!TypeOK /\ MeshReader!ReadsTheFile /\ MeshReader!OneShape)
    /\ MeshReader!StoreOnlyGrows
=============================================================================
