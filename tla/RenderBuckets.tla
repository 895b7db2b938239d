--------------------------- MODULE RenderBuckets ---------------------------
(***************************************************************************)
(* RenderManager: two trees, the map and the interface, turned into the    *)
(* buckets the models draw from.  A rebuild walks its tree and adds a slot *)
(* per visible object to the bucket of its pass and mesh; unanchored       *)
(* parts, what is attached to them and every label are also remembered as  *)
(* dynamic targets (bucket and index), whose slots are rewritten every     *)
(* frame without a walk.  A change of a tree only sets its dirty flag.     *)
(* Every frame culls the solid buckets once more, and the passes draw what *)
(* is left of them; the texts are drawn as they are.                       *)
(*                                                                         *)
(* The main thread rebuilds and draws; the TCP thread (the server's map,   *)
(* remote players) and the editor change the trees.  A step of the walk    *)
(* visits one object and copies the list of its children (getChildren).    *)
(* Colours, matrices and tile factors are left out: a slot carries where   *)
(* the object is and the texture of each face.                             *)
(***************************************************************************)
EXTENDS Integers, Sequences, FiniteSets, SequencesExt

CONSTANTS
    Obj,          \* the instances
    Top,          \* those that are children of a root
    Class,        \* obj -> "part", "box" (SelectionBox), "text" (BillboardText), "decal", "label" (Text)
    Home,         \* obj -> its parent (its own name for the children of a root)
    RootOf,       \* obj -> the root it is below: "map" or "gui"
    Branches,     \* obj -> its children, in order
    Start,        \* obj -> its properties when it enters the tree
    Edit,         \* property changes: [obj, field, value]
    Loaded,       \* meshes and fonts that were loaded (basic_resource_loader)
    Reach,        \* m_renderDistance
    MaxInstances, \* m_maxInstancesPerBucket and Model::kMaxInstanceCount
    EditBound     \* bound on the changes of the trees

Roots == {"map", "gui"}    \* m_workspace, m_coreGui
Texts == {"text", "label"}
Solids == {"part", "box"}
Classes == Texts \cup Solids \cup {"decal"}
Meshes == {"cube", "sphere"}
TextFonts == {"nunito", "arial"}
Faces == {"Top", "Left"}
Skins == {"studs", "inlets", "glue", "smooth", "grass", "wood", "decal"} \cup Faces

\* What an object is drawn with: for a text "mesh" is its font, for a decal
\* "skin" is its face.
Properties(o) ==
    [alpha : {"opaque", "clear", "hidden"}, mesh : IF Class[o] \in Texts THEN TextFonts ELSE Meshes,
     anchored : {"yes", "no"}, place : Nat, skin : Skins]

Edited(r, e) ==
    [alpha |-> IF e.field = "alpha" THEN e.value ELSE r.alpha,
     mesh |-> IF e.field = "mesh" THEN e.value ELSE r.mesh,
     anchored |-> IF e.field = "anchored" THEN e.value ELSE r.anchored,
     place |-> IF e.field = "place" THEN e.value ELSE r.place,
     skin |-> IF e.field = "skin" THEN e.value ELSE r.skin]

ObjectsAssumption ==
    /\ Top \subseteq Obj /\ Class \in [Obj -> Classes]
    /\ Home \in [Obj -> Obj] /\ \A o \in Top : Home[o] = o
    /\ RootOf \in [Obj -> Roots] /\ \A o \in Obj : RootOf[Home[o]] = RootOf[o]
    /\ Branches \in [Obj -> Seq(Obj)]
    /\ \A o \in Obj : /\ IsInjective(Branches[o])
                      /\ Range(Branches[o]) = {c \in Obj \ Top : Home[c] = o}
    \* No object is above itself.
    /\ \A S \in SUBSET (Obj \ Top) : S # {} => \E o \in S : Home[o] \notin S
    /\ \A o \in Obj : o \in DOMAIN Start /\ Start[o] \in Properties(o)
    /\ \A e \in Edit : e.obj \in Obj /\ Edited(Start[e.obj], e) \in Properties(e.obj)
    /\ Reach \in Nat /\ MaxInstances \in Nat /\ EditBound \in Nat

ASSUME ObjectsAssumption

VARIABLES
    tops,    \* root -> its children, in order
    prop,    \* obj -> its properties
    edits,   \* changes made so far
    stale,   \* the roots whose flag is set: m_mapHierarchyDirty, m_guiHierarchyDirty
    heard,   \* the roots the dirty callbacks are subscribed to
    walkPc,  \* main thread: "check" a flag, "walk" a tree, "draw" a frame
    root,    \* the root it checks or walks
    todo,    \* objects the walk has still to visit
    buckets, \* m_*InstancesData, m_*InstancesContent: <<class, pass, mesh>> -> slots
    targets, \* m_*DynamicTargets
    screen,  \* what the last frame drew of each bucket
    visible, \* m_visible*: the culled buckets, what the getters hand to the passes
    overlap  \* history: the roots whose tree changed during their last walk

bucketVars == <<tops, prop, edits, stale, heard, walkPc, root, todo, buckets, targets, screen,
                visible, overlap>>

BucketKeys == (Solids \X {"clear", "opaque"} \X Meshes) \cup (Texts \X {"clear"} \X TextFonts)
RootOfKey(k) == IF k[1] = "label" THEN "gui" ELSE "map"
Slot == [obj : Obj, place : Nat, faces : [Faces -> Skins]]
NoSlots == [k \in BucketKeys |-> <<>>]

BucketsInit ==
    /\ tops = [r \in Roots |-> <<>>] /\ prop = Start /\ edits = 0
    /\ stale = Roots /\ heard = {} /\ walkPc = "check" /\ root = "map" /\ todo = <<>>
    /\ buckets = NoSlots /\ targets = {} /\ screen = NoSlots /\ visible = NoSlots
    /\ overlap = {}

----------------------------------------------------------------------------
(* What a walk makes of one object *)

\* A selection box or a text outside a part, and a hidden box, end the walk of
\* that branch: the loop continues without descending.
Cut(o) ==
    /\ RootOf[o] = "map" /\ Class[o] \in {"box", "text"}
    /\ \/ Class[Home[o]] # "part" \/ Home[o] = o
       \/ Class[o] = "box" /\ prop[o].alpha = "hidden"

\* A hidden part draws nothing, but the walk descends below it.  The interface
\* shows its labels, the map everything else.
Drawn(o) ==
    IF RootOf[o] = "gui" THEN Class[o] = "label"
    ELSE IF Class[o] = "part" THEN prop[o].alpha # "hidden"
    ELSE Class[o] \in {"box", "text"} /\ ~Cut(o)

\* The part an object is drawn at.
Carrier(o) == IF Class[o] \in {"box", "text"} THEN Home[o] ELSE o

\* The pass and the mesh: an outline takes the shape of its part.
Pass(o) == IF Class[o] \in Texts \/ prop[o].alpha = "clear" THEN "clear" ELSE "opaque"
BucketKey(o) == <<Class[o], Pass(o), prop[IF Class[o] = "box" THEN Home[o] ELSE o].mesh>>

\* Only a block shows its surfaces or its material; the first decal child then
\* takes its face.
Decals(o) == {i \in DOMAIN Branches[o] : Class[Branches[o][i]] = "decal"}
FirstDecal(o) == Branches[o][CHOOSE i \in Decals(o) : \A j \in Decals(o) : i <= j]
Skin(o) == IF prop[o].mesh = "cube" THEN prop[o].skin ELSE "smooth"
FaceOf(o, f) ==
    IF Class[o] = "part" /\ Decals(o) # {} /\ prop[FirstDecal(o)].skin = f THEN "decal" ELSE Skin(o)

FacesOf(o) == [f \in Faces |-> FaceOf(o, f)]
SlotOf(o) == [obj |-> o, place |-> prop[Carrier(o)].place, faces |-> FacesOf(o)]

\* Every label of the interface is dynamic; in the map, what hangs on an
\* unanchored part.
Moves(o) == Class[o] = "label" \/ prop[Carrier(o)].anchored = "no"

Appended(o) ==
    /\ buckets' = [buckets EXCEPT ![BucketKey(o)] = Append(@, SlotOf(o))]
    /\ targets' = IF Moves(o)
                  THEN targets \cup {[obj |-> o, key |-> BucketKey(o),
                                      at |-> Len(buckets[BucketKey(o)]) + 1]}
                  ELSE targets

----------------------------------------------------------------------------
(* The rebuild of one tree, on the main thread *)

\* Defect: the children of the root are not listened to.
HearDescendants(o) == IF o \in Top THEN {} ELSE heard \cap {RootOf[o]}

\* The flags the callbacks set when something happens at an object of a tree.
Hears(o) == heard \cap {RootOf[o]}

\* The first rebuild subscribes the dirty callbacks to the root.
RebuildBegin ==
    /\ walkPc = "check" /\ root \in stale
    /\ walkPc' = "walk" /\ heard' = heard \cup {root}
    /\ todo' = tops[root]
    /\ buckets' = [k \in BucketKeys |-> IF RootOfKey(k) = root THEN <<>> ELSE buckets[k]]
    /\ targets' = {t \in targets : RootOfKey(t.key) # root}
    /\ overlap' = overlap \ {root}
    /\ UNCHANGED <<tops, prop, edits, stale, root, screen, visible>>

\* collectMapInstances and collectGuiInstances, one turn of the loop: the object
\* gets its slot, then come its children, unless the branch ends here.
Visit ==
    /\ walkPc = "walk" /\ todo # <<>>
    /\ LET o == Head(todo) IN
       /\ IF Drawn(o) THEN Appended(o) ELSE UNCHANGED <<buckets, targets>>
       /\ todo' = (IF Cut(o) THEN <<>> ELSE Branches[o]) \o Tail(todo)
    /\ UNCHANGED <<tops, prop, edits, stale, heard, walkPc, root, screen, visible, overlap>>

\* The map is looked at first, then the interface, then a frame is drawn.
Onward == IF root = "map" THEN walkPc' = "check" /\ root' = "gui"
                          ELSE walkPc' = "draw" /\ root' = "map"

\* The flag is cleared last: a change since the walk began is forgotten.
RebuildEnd ==
    /\ walkPc = "walk" /\ todo = <<>>
    /\ stale' = stale \ {root} /\ Onward
    /\ UNCHANGED <<tops, prop, edits, heard, todo, buckets, targets, screen, visible, overlap>>

NothingToRebuild ==
    /\ walkPc = "check" /\ root \notin stale
    /\ Onward
    /\ UNCHANGED <<tops, prop, edits, stale, heard, todo, buckets, targets, screen, visible, overlap>>

----------------------------------------------------------------------------
(* A frame, on the main thread *)

\* updateDynamicTransforms.
InPlace(slot) == [slot EXCEPT !.place = prop[Carrier(slot.obj)].place]
UpdateDynamicTransforms(bs) ==
    [k \in BucketKeys |-> [i \in DOMAIN bs[k] |->
        IF [obj |-> bs[k][i].obj, key |-> k, at |-> i] \in targets
        THEN InPlace(bs[k][i]) ELSE bs[k][i]]]

\* cullBuckets: what is in reach, only the nearest when there are too many, and
\* far to near in the transparent passes.  The camera stands at place 0.  The
\* opaque passes keep the order of the bucket, one of the orders nth_element
\* may leave.
InReach(ss) == {i \in DOMAIN ss : ss[i].place <= Reach}

\* The elements of S from the highest rank down (std::sort).
Arranges(f, S, rank) ==
    /\ f \in [1 .. Cardinality(S) -> S] /\ Range(f) = S
    /\ \A i, j \in DOMAIN f : i < j => rank[f[i]] >= rank[f[j]]
Arranged(S, rank) == CHOOSE f \in [1 .. Cardinality(S) -> S] : Arranges(f, S, rank)

Distance(ss) == [i \in DOMAIN ss |-> ss[i].place]
BucketOrder(ss) == [i \in DOMAIN ss |-> Len(ss) - i]
Nearest(ss) ==
    LET far == Arranged(InReach(ss), Distance(ss))
    IN {far[i] : i \in {j \in DOMAIN far : Len(far) - j < MaxInstances}}

Cull(ss, pass) ==
    LET order == Arranged(Nearest(ss), IF pass = "clear" THEN Distance(ss) ELSE BucketOrder(ss))
    IN [i \in DOMAIN order |-> ss[order[i]]]
CullInstances(bs) == [k \in BucketKeys |-> IF k[1] \in Solids THEN Cull(bs[k], k[2]) ELSE <<>>]

\* Model::draw: a mesh that was loaded draws its culled bucket, up to the size
\* of the instance buffer, which is also the default limit of the culling
\* (nothing sets another).
DrawModel(ss) == SubSeq(ss, 1, IF Len(ss) > MaxInstances THEN MaxInstances ELSE Len(ss))
DrawModels(bs) == [k \in BucketKeys |-> IF k[3] \in Loaded THEN DrawModel(bs[k]) ELSE <<>>]

\* Text::draw: the letters of every font bucket go into the one instance buffer
\* of the one font that was loaded; the GPU reads it after all draws are
\* recorded, so the bucket drawn last overlays the others.
Overlay(under, over) == [i \in DOMAIN under |-> IF i \in DOMAIN over THEN over[i] ELSE under[i]]
DrawTexts(bs, class, last) ==
    [f \in TextFonts |->
        Overlay(DrawModel(bs[<<class, "clear", f>>]), DrawModel(bs[<<class, "clear", last>>]))]

Filled(bs, class) == {f \in TextFonts : bs[<<class, "clear", f>>] # <<>>}

DrawFrame ==
    /\ walkPc = "draw" /\ walkPc' = "check"
    /\ LET bs == UpdateDynamicTransforms(buckets)
           vs == CullInstances(bs) IN
       /\ buckets' = bs /\ visible' = vs
       /\ \E last \in [Texts -> TextFonts] :
            /\ \A class \in Texts : Filled(bs, class) # {} => last[class] \in Filled(bs, class)
            /\ screen' = [k \in BucketKeys |->
                 IF k[1] \in Texts THEN DrawTexts(bs, k[1], last[k[1]])[k[3]]
                 ELSE DrawModels(vs)[k]]
    /\ UNCHANGED <<tops, prop, edits, stale, heard, root, todo, targets, overlap>>

\* beginFrame has no image to draw to: the turn ends without a frame.
SkipFrame ==
    /\ walkPc = "draw" /\ walkPc' = "check"
    /\ UNCHANGED <<tops, prop, edits, stale, heard, root, todo, buckets, targets, screen, visible,
                   overlap>>

----------------------------------------------------------------------------
(* Changes of the trees, on any thread *)

\* An object and all it is below.
Chain == [o \in Obj |->
    {a \in Obj : \A S \in SUBSET Obj : (o \in S /\ \A x \in S : Home[x] \in S) => a \in S}]

InTree(o) == \E i \in DOMAIN tops[RootOf[o]] : tops[RootOf[o]][i] \in Chain[o]

Changed(o) ==
    /\ edits < EditBound /\ edits' = edits + 1
    /\ overlap' = IF walkPc = "walk" THEN overlap \cup ({root} \cap {RootOf[o]}) ELSE overlap
    /\ UNCHANGED <<heard, walkPc, root, todo, buckets, targets, screen, visible>>

PutIn(o) ==
    /\ ~InTree(o) /\ Changed(o)
    /\ tops' = [tops EXCEPT ![RootOf[o]] = Append(@, o)]
    /\ stale' = stale \cup Hears(o) /\ UNCHANGED prop

TakeOut(o) ==
    /\ Changed(o)
    /\ \E i \in DOMAIN tops[RootOf[o]] :
          /\ tops[RootOf[o]][i] = o
          /\ tops' = [tops EXCEPT ![RootOf[o]] = RemoveAt(@, i)]
    /\ stale' = stale \cup Hears(o) /\ UNCHANGED prop

\* A setter that notifies.
SetProperty(e) ==
    /\ Edited(prop[e.obj], e) # prop[e.obj] /\ Changed(e.obj)
    /\ prop' = [prop EXCEPT ![e.obj] = Edited(@, e)]
    /\ stale' = stale \cup (IF InTree(e.obj) THEN Hears(e.obj) ELSE {})
    /\ UNCHANGED tops

\* setPosition(silent): physics, the network and the gizmo move a part without
\* a word.
MoveSilently(e) ==
    /\ Edited(prop[e.obj], e) # prop[e.obj] /\ Changed(e.obj)
    /\ prop' = [prop EXCEPT ![e.obj] = Edited(@, e)]
    /\ UNCHANGED <<tops, stale>>

BucketsNext ==
    \/ RebuildBegin \/ Visit \/ RebuildEnd \/ NothingToRebuild \/ DrawFrame \/ SkipFrame
    \/ \E o \in Top : PutIn(o) \/ TakeOut(o)
    \/ \E e \in Edit : IF e.field = "place" THEN MoveSilently(e) ELSE SetProperty(e)

BucketsSpec == BucketsInit /\ [][BucketsNext]_bucketVars

----------------------------------------------------------------------------
(* Properties *)

\* Every variable keeps its type, and no draw outgrows the instance buffer.
BucketsTypeOK ==
    /\ tops \in [Roots -> Seq(Top)] /\ edits \in 0 .. EditBound
    /\ stale \subseteq Roots /\ heard \subseteq Roots /\ overlap \subseteq Roots
    /\ walkPc \in {"check", "walk", "draw"} /\ root \in Roots
    /\ \A o \in Obj : prop[o] \in Properties(o)
    /\ buckets \in [BucketKeys -> Seq(Slot)]
    /\ targets \subseteq [obj : Obj, key : BucketKeys, at : Nat \ {0}]
    /\ \A k \in BucketKeys : Len(screen[k]) \in 0 .. MaxInstances

\* A dynamic target always names the slot of its own object: no frame writes
\* outside a bucket or moves another object's slot, even while a rebuild runs.
TargetsOwnTheirSlots ==
    \A t \in targets : /\ t.at \in DOMAIN buckets[t.key]
                       /\ buckets[t.key][t.at].obj = t.obj

\* The slots an object has.
Where(o) ==
    UNION {{<<k, i>> : i \in {j \in DOMAIN buckets[k] : buckets[k][j].obj = o}} : k \in BucketKeys}

Seen(o) == InTree(o) /\ Drawn(o) /\ \A a \in Chain[o] \ {o} : ~Cut(a)

Current(r) == r \notin stale /\ r \notin overlap

\* With its flag clear, and no change during the last walk of its tree, every
\* object to be seen has exactly one slot, in the bucket of its pass and shape
\* and with its present faces, and nothing else has one.
BucketsMatchTree ==
    \A o \in Obj : Current(RootOf[o]) /\ ~(walkPc = "walk" /\ root = RootOf[o]) =>
        IF Seen(o)
        THEN \E i \in DOMAIN buckets[BucketKey(o)] :
               /\ Where(o) = {<<BucketKey(o), i>>}
               /\ buckets[BucketKey(o)][i].faces = FacesOf(o)
        ELSE Where(o) = {}

\* What is drawn of the solids is in reach, and drawn far to near where it
\* blends.
DrawnFarToNear ==
    \A k \in {x \in BucketKeys : x[1] \in Solids} :
        /\ \A i \in DOMAIN screen[k] : screen[k][i].place <= Reach
        /\ k[2] = "clear" =>
             \A i, j \in DOMAIN screen[k] : i < j => screen[k][i].place >= screen[k][j].place

\* A frame leaves out what is in reach only when the buffer is full, and then
\* nothing nearer than what it draws.
NearestDrawn ==
    [][DrawFrame => \A k \in {x \in BucketKeys : x[1] \in Solids /\ x[3] \in Loaded} :
        \A t \in Range(buckets'[k]) \ Range(screen'[k]) :
            /\ t.place <= Reach => Len(screen'[k]) = MaxInstances
            /\ \A s \in Range(screen'[k]) : t.place >= s.place]_bucketVars

\* What a frame draws at a moving part stands where the part is at that frame,
\* whenever the walk it draws from is up to date and texts use one font only.
OneFont == \A class \in Texts, f, g \in TextFonts : {f, g} \subseteq Filled(buckets, class) => f = g
MovingDrawnInPlace ==
    [][DrawFrame /\ OneFont =>
        \A k \in BucketKeys : Current(RootOfKey(k)) =>
            \A s \in Range(screen'[k]) :
                Moves(s.obj) => s.place = prop[Carrier(s.obj)].place]_bucketVars

\* The buckets hold what is in the trees once the last change was heard, and a
\* frame draws of them what is in reach, the nearest when there is too much, far
\* to near where it blends; moving parts own the instance they update and are
\* drawn where they are.
PictureMatchesTree ==
    /\ [](BucketsTypeOK /\ TargetsOwnTheirSlots /\ BucketsMatchTree /\ DrawnFarToNear)
    /\ NearestDrawn /\ MovingDrawnInPlace
=============================================================================
