---------------------------- MODULE GraphicsProofs ----------------------------
(***************************************************************************)
(* Five components of the renderer, for all values of their constants.     *)
(*                                                                         *)
(* GlyphAtlas: for every font and every atlas width glyphs never touch,    *)
(* and none crosses the right edge; for any texts each letter is drawn in  *)
(* its turn and its place: TurnsRight says what one turn of the loop over  *)
(* a text leaves, AllRight what the texts so far have.                     *)
(*                                                                         *)
(* FramePipeline: for any number of slots, images and window sizes the     *)
(* frames the GPU works on are apart.  IInv says why: a fence tells        *)
(* whether its slot has a batch, so there are never more batches than      *)
(* slots, and the buffers all frames share were overwritten once for every *)
(* batch behind a given one.                                               *)
(*                                                                         *)
(* DeviceSetup: on any machines what a client chooses fits, and for any    *)
(* number of clients in one directory the pipeline cache one takes is its  *)
(* own; SetupInv says whose writing a file holds.                          *)
(*                                                                         *)
(* TextureStore: for images of any size what the shaders can sample is     *)
(* whole, and a name keeps its image; StoreInv says what every level of    *)
(* the image being made looks like at each command.                        *)
(*                                                                         *)
(* FrameRecording: for any depths and buckets of any size every draw finds *)
(* what its pipeline needs, and the pixel shows the scene; RecordingRight  *)
(* says what each call leaves bound, and which things the pixel shows.     *)
(***************************************************************************)
EXTENDS GlyphAtlas, FramePipeline, DeviceSetup, TextureStore, FrameRecording, TLAPS,
        FiniteSetTheorems, SequenceTheorems, WellFoundedInduction

-----------------------------------------------------------------------------
(* Glyphs in their atlas.                                                  *)

PlaceOK ==
    /\ code \in Nat \ {0} /\ currentX \in Nat /\ currentY \in Nat /\ rowHeight \in Nat
    /\ DOMAIN characters \subseteq 1..(code - 1)
    /\ \A c \in DOMAIN characters :
           /\ characters[c].left \in Nat /\ characters[c].top \in Nat
           /\ characters[c].width \in Nat /\ characters[c].rows \in Nat

\* Finished rows end above the current one, and the glyphs of the current row
\* end left of the cursor and inside the row's height.
RowsPacked ==
    \A c \in DOMAIN characters :
        /\ characters[c].top <= currentY
        /\ characters[c].top = currentY =>
               /\ characters[c].left + characters[c].width < currentX
               /\ characters[c].rows < rowHeight
        /\ characters[c].top < currentY =>
               characters[c].top + characters[c].rows < currentY

Packed == PlaceOK /\ RowsPacked /\ WithinRows /\ GlyphsApart

LEMMA InitPacked == AtlasInit => Packed
BY DEF AtlasInit, Packed, PlaceOK, RowsPacked, WithinRows, GlyphsApart

LEMMA LoadKeeps ==
    ASSUME Packed, NEW width \in Widths, NEW rows \in Rows, NEW advance \in Advances,
           LoadGlyph(width, rows, advance)
    PROVE  Packed'
<1> DEFINE wraps == Wraps(currentX, width)
           x == IF wraps THEN 0 ELSE currentX
           y == IF wraps THEN currentY + rowHeight ELSE currentY
           glyph == [left |-> x, top |-> y, width |-> width, rows |-> rows,
                     advance |-> advance]
           old == DOMAIN characters
<1>1. /\ width \in Nat /\ width < AtlasWidth /\ rows \in Nat /\ AtlasWidth \in Nat
    BY AtlasAssumption
<1>2. /\ code' = code + 1 /\ currentX' = x + width + 1 /\ currentY' = y
      /\ rowHeight' = Heightened(IF wraps THEN 0 ELSE rowHeight, rows)
      /\ DOMAIN characters' = old \cup {code}
      /\ characters'[code] = glyph
      /\ \A c \in old : c # code => characters'[c] = characters[c]
    BY DEF LoadGlyph
<1>3. code \notin old
    BY DEF Packed, PlaceOK
<1>4. x \in Nat /\ y \in Nat /\ x + width < AtlasWidth
    BY <1>1 DEF Packed, PlaceOK, Wraps
<1>5. /\ rowHeight' \in Nat /\ rows < rowHeight'
      /\ ~wraps => rowHeight <= rowHeight'
    BY <1>1, <1>2 DEF Packed, PlaceOK, Heightened, Larger
<1>6. PlaceOK'
    BY <1>1, <1>2, <1>3, <1>4, <1>5 DEF Packed, PlaceOK
<1>7. \A c \in old : characters[c].top + characters[c].rows < y
                     \/ (~wraps /\ characters[c].top = y
                         /\ characters[c].left + characters[c].width < x)
    BY DEF Packed, PlaceOK, RowsPacked
<1>8. RowsPacked'
    <2> SUFFICES ASSUME NEW c \in old \cup {code}
                 PROVE  /\ characters'[c].top <= currentY'
                        /\ characters'[c].top = currentY' =>
                              /\ characters'[c].left + characters'[c].width < currentX'
                              /\ characters'[c].rows < rowHeight'
                        /\ characters'[c].top < currentY' =>
                              characters'[c].top + characters'[c].rows < currentY'
        BY <1>2 DEF RowsPacked
    <2>1. CASE c = code
        BY <2>1, <1>1, <1>2, <1>4, <1>5
    <2>2. CASE c # code
        <3>1. c \in old /\ characters'[c] = characters[c]
            BY <2>2, <1>2
        <3>2. /\ characters[c].top \in Nat /\ characters[c].rows \in Nat
              /\ characters[c].left \in Nat /\ characters[c].width \in Nat
            BY <3>1 DEF Packed, PlaceOK
        <3>3. CASE characters[c].top + characters[c].rows < y
            BY <3>1, <3>2, <3>3, <1>2, <1>4
        <3>4. CASE ~wraps /\ characters[c].top = y
                   /\ characters[c].left + characters[c].width < x
            <4>1. characters[c].rows < rowHeight
                BY <3>1, <3>4 DEF Packed, RowsPacked
            <4> QED BY <3>1, <3>2, <3>4, <4>1, <1>1, <1>2, <1>4, <1>5 DEF Packed, PlaceOK
        <3> QED BY <3>1, <3>3, <3>4, <1>7
    <2> QED BY <2>1, <2>2
<1>9. WithinRows'
    BY <1>2, <1>3, <1>4 DEF Packed, WithinRows
<1>10. \A c \in old : Apart(characters[c], glyph) /\ Apart(glyph, characters[c])
    BY <1>7 DEF Apart
<1>11. GlyphsApart'
    BY <1>2, <1>3, <1>10 DEF Packed, GlyphsApart
<1> QED BY <1>6, <1>8, <1>9, <1>11 DEF Packed

LEMMA RestKeeps ==
    ASSUME Packed,
           UNCHANGED <<currentX, currentY, rowHeight, characters>>,
           code' = code \/ code' = code + 1
    PROVE  Packed'
BY DEF Packed, PlaceOK, RowsPacked, WithinRows, GlyphsApart

LEMMA AlwaysPacked == AtlasSpec => []Packed
<1>1. Packed /\ [AtlasNext]_atlasVars => Packed'
    <2> SUFFICES ASSUME Packed, [AtlasNext]_atlasVars PROVE Packed'
        OBVIOUS
    <2>1. CASE SkipGlyph
        BY <2>1, RestKeeps DEF SkipGlyph
    <2>2. CASE \E w \in Widths, r \in Rows, a \in Advances : LoadGlyph(w, r, a)
        BY <2>2, LoadKeeps
    <2>3. CASE \E t \in Contents : Draw(t)
        BY <2>3, RestKeeps DEF Draw
    <2>4. CASE UNCHANGED atlasVars
        BY <2>4, RestKeeps DEF atlasVars
    <2> QED BY <2>1, <2>2, <2>3, <2>4 DEF AtlasNext, LoadFont
<1> QED BY <1>1, InitPacked, PTL DEF AtlasSpec

\* loadFont (text.cpp 111-153) leaves a pixel between any two glyphs, whatever
\* their sizes and whichever of them the font lacks.
THEOREM NeverTouch == AtlasSpec => []GlyphsApart
<1>1. Packed => GlyphsApart
    BY DEF Packed
<1> QED BY <1>1, AlwaysPacked, PTL

\* The copy of a glyph's rows (text.cpp 131-135) stays on its own rows.
THEOREM NeverCross == AtlasSpec => []WithinRows
<1>1. Packed => WithinRows
    BY DEF Packed
<1> QED BY <1>1, AlwaysPacked, PTL

\* Sampling any glyph of the atlas reads that glyph and nothing else
\* (text.cpp 111-153).
THEOREM AlwaysPlaced == AtlasSpec => []GlyphsPlaced
<1>1. GlyphsApart /\ WithinRows => GlyphsPlaced
    BY DEF GlyphsPlaced
<1> QED BY <1>1, NeverTouch, NeverCross, PTL

-----------------------------------------------------------------------------
(* Frames in flight.                                                       *)

(* A batch of commands the GPU was given. *)
BatchType == [frame : Slots, image : Images, gen : {0, 1}, ahead : Nat, touched : BOOLEAN]

(* The types of the variables, the batches' included. *)
Types ==
    /\ real \in Sizes /\ size \in Sizes /\ extent \in Sizes
    /\ events \in BOOLEAN /\ open \in BOOLEAN /\ resized \in BOOLEAN /\ closing \in BOOLEAN
    /\ resizes \in 0..ResizeBound /\ ui \in {"begun", "ended"}
    /\ pc \in {"update", "acquire", "record", "submit", "recreate", "left"}
    /\ gen \in {0, 1} /\ frame \in Slots /\ image \in Images
    /\ fence \in [Slots -> BOOLEAN] /\ inFlight \in [Images -> Slots \cup {None}]
    /\ gpu \in Seq(BatchType)

(* A slot's fence tells whether the GPU has a batch of it, and it never has two;
   no two batches have an image in common, and all images are the present
   swapchain's. *)
FencesTell == \A f \in Slots : ~fence[f] <=> \E j \in 1 .. Len(gpu) : gpu[j].frame = f
OnePerSlot == \A j, k \in 1 .. Len(gpu) : j # k => gpu[j].frame # gpu[k].frame
OnePerImage == \A j, k \in 1 .. Len(gpu) : j # k => gpu[j].image # gpu[k].image
Untouched == \A j \in 1 .. Len(gpu) : ~gpu[j].touched /\ gpu[j].gen = gen

(* The main thread between acquiring an image and submitting what it recorded. *)
Acquired ==
    pc \in {"record", "submit"} =>
        fence[frame] /\ \A j \in 1 .. Len(gpu) : gpu[j].image # image

(* The shared buffers were overwritten once for every later batch, and once more
   for the frame just recorded. *)
Recorded == IF pc = "submit" THEN 1 ELSE 0
AheadOfLater == \A j \in 1 .. Len(gpu) : gpu[j].ahead = Len(gpu) - j + Recorded

BatchesApart == FencesTell /\ OnePerSlot /\ OnePerImage /\ Untouched /\ Acquired /\ AheadOfLater
IInv == Types /\ BatchesApart

----------------------------------------------------------------------------
(* As many different things as positions do not fit into fewer. *)
LEMMA DifferentFit ==
    ASSUME NEW n \in Nat, NEW S, IsFiniteSet(S), NEW g \in [1 .. n -> S],
           \A j, k \in 1 .. n : j # k => g[j] # g[k]
    PROVE  n <= Cardinality(S)
<1>1. IsFiniteSet(1 .. n) /\ Cardinality(1 .. n) = n
  <2>1. IsFiniteSet(1 .. n) /\ Cardinality(1 .. n) = IF 1 > n THEN 0 ELSE n - 1 + 1
    BY FS_Interval
  <2>. QED
    BY <2>1
<1>2. Cardinality(S) \in Nat
  BY FS_CardinalityType
<1>3. ~(Cardinality(S) < Cardinality(1 .. n))
  BY <1>1, FS_PigeonHole
<1>. QED
  BY <1>1, <1>2, <1>3

(* A batch of a queue of batches. *)
LEMMA BatchAt ==
    ASSUME NEW q \in Seq(BatchType), NEW j \in 1 .. Len(q)
    PROVE  q[j] \in BatchType /\ q[j].frame \in Slots /\ q[j].touched \in BOOLEAN
<1>1. q[j] \in BatchType
  BY ElementOfSeq
<1>. QED
  BY <1>1 DEF BatchType

(* The fields of what Record makes of a batch. *)
LEMMA OverwrittenFields ==
    \A b \in BatchType :
        LET o == Overwritten(b) IN
        /\ o \in BatchType
        /\ o.frame = b.frame /\ o.image = b.image /\ o.gen = b.gen /\ o.ahead = b.ahead + 1
        /\ o.touched = (b.touched \/ b.frame = frame)
<1>. SUFFICES ASSUME NEW b \in BatchType
     PROVE  LET o == Overwritten(b) IN
            /\ o \in BatchType
            /\ o.frame = b.frame /\ o.image = b.image /\ o.gen = b.gen /\ o.ahead = b.ahead + 1
            /\ o.touched = (b.touched \/ b.frame = frame)
  OBVIOUS
<1>1. /\ b.frame \in Slots /\ b.image \in Images /\ b.gen \in {0, 1} /\ b.ahead \in Nat
      /\ b.ahead + 1 \in Nat /\ b.touched \in BOOLEAN /\ (b.touched \/ b.frame = frame) \in BOOLEAN
  BY DEF BatchType
<1>2. b = [frame |-> b.frame, image |-> b.image, gen |-> b.gen, ahead |-> b.ahead,
           touched |-> b.touched]
  BY DEF BatchType
<1>3. PICK t \in BOOLEAN : t = (b.touched \/ b.frame = frame)
  BY <1>1
<1>4. Overwritten(b) = [frame |-> b.frame, image |-> b.image, gen |-> b.gen,
                        ahead |-> b.ahead + 1, touched |-> t]
  <2>1. Overwritten(b).frame = b.frame /\ DOMAIN b = {"frame", "image", "gen", "ahead", "touched"}
    BY DEF Overwritten, BatchType
  <2>2. Overwritten(b) = [x \in DOMAIN b |-> IF x = "touched" THEN t
                                           ELSE IF x = "ahead" THEN b.ahead + 1 ELSE b[x]]
    BY <1>3, <2>1 DEF Overwritten
  <2>. QED
    BY <2>1, <2>2
<1>5. Overwritten(b) \in BatchType
  BY <1>1, <1>4 DEF BatchType
<1>. QED
  BY <1>3, <1>4, <1>5

(* There are at most as many batches as slots, and fewer while a slot is free. *)
LEMMA BatchesFit ==
    ASSUME IInv
    PROVE  /\ Len(gpu) <= MaxFramesInFlight
           /\ (\E f \in Slots : fence[f]) => Len(gpu) < MaxFramesInFlight
<1>1. /\ MaxFramesInFlight \in Nat /\ Len(gpu) \in Nat
      /\ \A j \in 1 .. Len(gpu) : gpu[j].frame \in Slots
  BY BatchAt, PipelineAssumption DEF IInv, Types
<1>2. IsFiniteSet(Slots) /\ Cardinality(Slots) = MaxFramesInFlight
  <2>1. IsFiniteSet(0 .. MaxFramesInFlight - 1)
         /\ Cardinality(0 .. MaxFramesInFlight - 1)
              = IF 0 > MaxFramesInFlight - 1 THEN 0 ELSE MaxFramesInFlight - 1 - 0 + 1
    BY <1>1, FS_Interval
  <2>. QED
    BY <1>1, <2>1 DEF Slots
<1>4. ASSUME NEW S, S \subseteq Slots, \A j \in 1 .. Len(gpu) : gpu[j].frame \in S
      PROVE  Len(gpu) <= Cardinality(S)
  <2>1. IsFiniteSet(S)
    BY <1>2, <1>4, FS_Subset
  <2>. DEFINE g == [j \in 1 .. Len(gpu) |-> gpu[j].frame]
  <2>2. g \in [1 .. Len(gpu) -> S]
    BY <1>4
  <2>3. \A j, k \in 1 .. Len(gpu) : j # k => g[j] # g[k]
    BY DEF IInv, BatchesApart, OnePerSlot
  <2>. HIDE DEF g
  <2>. QED
    BY <1>1, <2>1, <2>2, <2>3, DifferentFit
<1>5. Len(gpu) <= MaxFramesInFlight
  BY <1>1, <1>2, <1>4
<1>6. ASSUME NEW f \in Slots, fence[f] PROVE Len(gpu) < MaxFramesInFlight
  <2>1. \A j \in 1 .. Len(gpu) : gpu[j].frame \in Slots \ {f}
    BY <1>1, <1>6 DEF IInv, BatchesApart, FencesTell
  <2>2. Len(gpu) <= Cardinality(Slots \ {f})
    BY <1>4, <2>1
  <2>3. Cardinality(Slots \ {f}) = MaxFramesInFlight - 1
    <3>1. Cardinality(Slots \ {f}) =
            IF f \in Slots THEN Cardinality(Slots) - 1 ELSE Cardinality(Slots)
      BY <1>2, FS_RemoveElement
    <3>. QED
      BY <1>2, <3>1
  <2>. QED
    BY <1>1, <2>2, <2>3
<1>. QED
  BY <1>5, <1>6

LEMMA InitApart == Init => IInv
<1>. SUFFICES ASSUME Init PROVE IInv
  OBVIOUS
<1>. USE PipelineAssumption DEF Init, Slots, None
<1>1. Types
  BY DEF Types
<1>2. Len(gpu) = 0
  OBVIOUS
<1>3. BatchesApart
  BY <1>2 DEF BatchesApart, FencesTell, OnePerSlot, OnePerImage, Untouched, Acquired, AheadOfLater
<1>. QED
  BY <1>1, <1>3 DEF IInv

LEMMA TypesStep == Types /\ Next => Types'
<1>. SUFFICES ASSUME Types, Next PROVE Types'
  OBVIOUS
<1>. USE PipelineAssumption DEF Types, window, cpu, chain, UpdateWindow, ResizedNow
<1>1. CASE Update
  BY <1>1 DEF Update, NewImguiFrame
<1>2. CASE Leave
  BY <1>2 DEF Leave
<1>3. CASE AcquireImage
  BY <1>3 DEF AcquireImage
<1>4. CASE AcquireOutOfDate
  BY <1>4 DEF AcquireOutOfDate
<1>5. CASE Record
  <2>1. gpu' \in Seq(BatchType)
    <3>1. \A j \in 1 .. Len(gpu) : Overwritten(gpu[j]) \in BatchType
      BY BatchAt, OverwrittenFields
    <3>2. gpu' = [j \in 1 .. Len(gpu) |-> Overwritten(gpu[j])] /\ Len(gpu) \in Nat
      BY <1>5 DEF Record
    <3>. QED
      BY <3>1, <3>2
  <2>. QED
    BY <1>5, <2>1 DEF Record, RenderImgui
<1>6. CASE Submit
  <2>1. Batch \in BatchType
    BY DEF Batch, BatchType
  <2>2. gpu' \in Seq(BatchType)
    BY <1>6, <2>1 DEF Submit
  <2>3. frame' \in Slots
    BY <1>6 DEF Submit, NextFrame, Slots
  <2>4. resized' \in BOOLEAN /\ pc' \in {"update", "recreate"}
    BY <1>6 DEF Submit
  <2>. QED
    BY <1>6, <2>2, <2>3, <2>4 DEF Submit
<1>7. CASE AwaitStableSize
  BY <1>7 DEF AwaitStableSize
<1>8. CASE RecreateSwapchain
  BY <1>8 DEF RecreateSwapchain, NewSync
<1>9. CASE GpuFinishes
  <2>1. gpu' \in Seq(BatchType)
    BY <1>9 DEF GpuFinishes
  <2>2. fence' \in [Slots -> BOOLEAN]
    BY <1>9 DEF GpuFinishes
  <2>. QED
    BY <1>9, <2>1, <2>2 DEF GpuFinishes
<1>10. CASE Resize
  BY <1>10 DEF Resize
<1>11. CASE MouseMoves
  BY <1>11 DEF MouseMoves
<1>12. CASE Close
  BY <1>12 DEF Close
<1>. QED
  BY <1>1, <1>2, <1>3, <1>4, <1>5, <1>6, <1>7, <1>8, <1>9, <1>10, <1>11, <1>12 DEF Next, MainThread

LEMMA ApartStep == IInv /\ Next => BatchesApart'
<1>. SUFFICES ASSUME IInv, Next PROVE BatchesApart'
  OBVIOUS
<1>a. Types /\ Types' /\ gpu \in Seq(BatchType) /\ Len(gpu) \in Nat
      /\ frame \in Slots /\ image \in Images
      /\ fence \in [Slots -> BOOLEAN]
  BY TypesStep DEF IInv, Types
<1>b. BatchesApart
  BY DEF IInv
<1>c. \A j \in 1 .. Len(gpu) : gpu[j] \in BatchType /\ gpu[j].frame \in Slots
  BY <1>a, BatchAt
<1>k. ASSUME UNCHANGED <<gpu, gen, fence, frame>>, pc' # "submit",
             pc' = "record" => fence[frame] /\ \A j \in 1 .. Len(gpu) : gpu[j].image # image',
             pc # "submit"
      PROVE  BatchesApart'
  BY <1>b, <1>k DEF BatchesApart, FencesTell, OnePerSlot, OnePerImage, Untouched, Acquired,
     AheadOfLater, Recorded
<1>l. ASSUME UNCHANGED <<gpu, gen, fence, frame, pc, image>> PROVE  BatchesApart'
  BY <1>b, <1>l DEF BatchesApart, FencesTell, OnePerSlot, OnePerImage, Untouched, Acquired,
     AheadOfLater, Recorded
<1>. USE DEF window, cpu, chain
<1>1. CASE Update
  BY <1>1, <1>k DEF Update
<1>2. CASE Leave
  BY <1>2, <1>k DEF Leave
<1>3. CASE AcquireImage
  <2>1. \A j \in 1 .. Len(gpu) : gpu[j].image # image'
    BY <1>3, <1>a DEF AcquireImage, Free, Range
  <2>. QED
    BY <1>3, <1>k, <2>1 DEF AcquireImage, FenceWaited
<1>4. CASE AcquireOutOfDate
  BY <1>4, <1>k DEF AcquireOutOfDate
<1>5. CASE Record
  <2>1. /\ gpu' = [j \in 1 .. Len(gpu) |-> Overwritten(gpu[j])] /\ pc = "record" /\ pc' = "submit"
        /\ UNCHANGED <<gen, fence, frame, image>>
    BY <1>5, <1>a DEF Record
  <2>2. Len(gpu') = Len(gpu)
    BY <2>1, <1>a
  <2>3. \A j \in 1 .. Len(gpu) : gpu[j].frame # frame
    BY <1>a, <1>b, <2>1 DEF BatchesApart, Acquired, FencesTell
  <2>4. \A j \in 1 .. Len(gpu) :
           /\ gpu'[j].frame = gpu[j].frame /\ gpu'[j].image = gpu[j].image
           /\ gpu'[j].gen = gpu[j].gen /\ gpu'[j].ahead = gpu[j].ahead + 1
           /\ gpu'[j].touched = gpu[j].touched
    <3>. SUFFICES ASSUME NEW j \in 1 .. Len(gpu)
         PROVE  /\ gpu'[j].frame = gpu[j].frame /\ gpu'[j].image = gpu[j].image
                /\ gpu'[j].gen = gpu[j].gen /\ gpu'[j].ahead = gpu[j].ahead + 1
                /\ gpu'[j].touched = gpu[j].touched
      OBVIOUS
    <3>1. gpu'[j] = Overwritten(gpu[j]) /\ gpu[j] \in BatchType /\ gpu[j].touched \in BOOLEAN
      BY <1>c, <2>1 DEF BatchType
    <3>. QED
      BY <2>3, <3>1, OverwrittenFields
  <2>5. FencesTell' /\ OnePerSlot' /\ OnePerImage' /\ Untouched'
    BY <1>b, <2>1, <2>2, <2>4 DEF BatchesApart, FencesTell, OnePerSlot, OnePerImage, Untouched
  <2>6. Acquired'
    BY <1>b, <2>1, <2>2, <2>4 DEF BatchesApart, Acquired
  <2>7. AheadOfLater'
    <3>1. \A j \in 1 .. Len(gpu) : gpu[j].ahead = Len(gpu) - j
      BY <1>a, <1>b, <2>1 DEF BatchesApart, AheadOfLater, Recorded
    <3>. QED
      BY <1>a, <2>1, <2>2, <2>4, <3>1 DEF AheadOfLater, Recorded
  <2>. QED
    BY <2>5, <2>6, <2>7 DEF BatchesApart
<1>6. CASE Submit
  <2>1. /\ gpu' = Append(gpu, Batch) /\ pc = "submit" /\ pc' \in {"update", "recreate"}
        /\ fence' = [fence EXCEPT ![frame] = FALSE] /\ UNCHANGED gen
    BY <1>6 DEF Submit
  <2>2. /\ Batch.frame = frame /\ Batch.image = image /\ Batch.gen = gen
        /\ Batch.ahead = 0 /\ ~Batch.touched
    BY DEF Batch
  <2>3. /\ Len(gpu') = Len(gpu) + 1 /\ gpu'[Len(gpu) + 1] = Batch
        /\ \A j \in 1 .. Len(gpu) : gpu'[j] = gpu[j]
    BY <1>a, <2>1
  <2>4. \A j \in 1 .. Len(gpu) : gpu[j].frame # frame /\ gpu[j].image # image
    BY <1>a, <1>b, <2>1 DEF BatchesApart, Acquired, FencesTell
  <2>5. \A j \in 1 .. Len(gpu') : j \in 1 .. Len(gpu) \/ j = Len(gpu) + 1
    BY <1>a, <2>3
  <2>6. FencesTell'
    <3>. SUFFICES ASSUME NEW f \in Slots
         PROVE  ~fence'[f] <=> \E j \in 1 .. Len(gpu') : gpu'[j].frame = f
      BY DEF FencesTell
    <3>1. CASE f = frame
      <4>1. Len(gpu) + 1 \in 1 .. Len(gpu') /\ gpu'[Len(gpu) + 1].frame = f
        BY <1>a, <2>2, <2>3, <3>1
      <4>. QED
        BY <1>a, <2>1, <3>1, <4>1
    <3>2. CASE f # frame
      <4>1. fence'[f] = fence[f]
        BY <1>a, <2>1, <3>2
      <4>2. \A j \in 1 .. Len(gpu) : j \in 1 .. Len(gpu')
        BY <1>a, <2>3
      <4>. QED
        BY <1>b, <2>2, <2>3, <2>5, <3>2, <4>1, <4>2 DEF BatchesApart, FencesTell
    <3>. QED
      BY <3>1, <3>2
  <2>7. OnePerSlot' /\ OnePerImage' /\ Untouched'
    BY <1>b, <2>1, <2>2, <2>3, <2>4, <2>5 DEF BatchesApart, OnePerSlot, OnePerImage, Untouched
  <2>8. Acquired'
    BY <2>1 DEF Acquired
  <2>9. AheadOfLater'
    <3>1. \A j \in 1 .. Len(gpu) : gpu[j].ahead = Len(gpu) - j + 1
      BY <1>a, <1>b, <2>1 DEF BatchesApart, AheadOfLater, Recorded
    <3>2. \A j \in 1 .. Len(gpu') : gpu'[j].ahead = Len(gpu') - j
      BY <1>a, <2>2, <2>3, <2>5, <3>1
    <3>3. Recorded' = 0
      BY <2>1 DEF Recorded
    <3>. QED
      BY <1>a, <2>3, <3>2, <3>3 DEF AheadOfLater
  <2>. QED
    BY <2>6, <2>7, <2>8, <2>9 DEF BatchesApart
<1>7. CASE AwaitStableSize
  BY <1>7, <1>l DEF AwaitStableSize
<1>8. CASE RecreateSwapchain
  <2>1. gpu' = <<>> /\ pc' = "update" /\ fence' = [f \in Slots |-> TRUE]
    BY <1>8 DEF RecreateSwapchain, DeviceIdle, NewSync
  <2>2. Len(gpu') = 0
    BY <2>1
  <2>. QED
    BY <2>1, <2>2
       DEF BatchesApart, FencesTell, OnePerSlot, OnePerImage, Untouched, Acquired, AheadOfLater
<1>9. CASE GpuFinishes
  <2>1. /\ gpu # <<>> /\ gpu' = Tail(gpu) /\ fence' = [fence EXCEPT ![gpu[1].frame] = TRUE]
        /\ UNCHANGED <<gen, frame, image, pc>>
    <3>1. gpu # <<>> /\ Head(gpu) = gpu[1]
      BY <1>9, <1>a DEF GpuFinishes
    <3>. QED
      BY <1>9, <3>1 DEF GpuFinishes
  <2>2. /\ Len(gpu) >= 1 /\ Len(gpu') = Len(gpu) - 1
        /\ \A j \in 1 .. Len(gpu') : gpu'[j] = gpu[j + 1] /\ j + 1 \in 1 .. Len(gpu)
    BY <1>a, <2>1
  <2>3. \A j \in 1 .. Len(gpu) : j = 1 \/ (j - 1 \in 1 .. Len(gpu') /\ (j - 1) + 1 = j)
    BY <1>a, <2>2
  <2>4. FencesTell'
    <3>. SUFFICES ASSUME NEW f \in Slots
         PROVE  ~fence'[f] <=> \E j \in 1 .. Len(gpu') : gpu'[j].frame = f
      BY DEF FencesTell
    <3>0. 1 \in 1 .. Len(gpu)
      BY <1>a, <2>2
    <3>1. CASE f = gpu[1].frame
      <4>1. \A j \in 1 .. Len(gpu') : j + 1 # 1
        BY <1>a, <2>2
      <4>2. \A j \in 1 .. Len(gpu') : gpu'[j].frame # f
        BY <1>b, <2>2, <3>0, <3>1, <4>1 DEF BatchesApart, OnePerSlot
      <4>. QED
        BY <1>a, <2>1, <3>1, <4>2
    <3>2. CASE f # gpu[1].frame
      <4>1. fence'[f] = fence[f]
        BY <1>a, <2>1, <3>2
      <4>2. ASSUME NEW j \in 1 .. Len(gpu), gpu[j].frame = f
            PROVE  \E k \in 1 .. Len(gpu') : gpu'[k].frame = f
        BY <2>2, <2>3, <3>2, <4>2
      <4>. QED
        BY <1>b, <2>2, <4>1, <4>2 DEF BatchesApart, FencesTell
    <3>. QED
      BY <3>1, <3>2
  <2>5. \A j, k \in 1 .. Len(gpu') : j # k => j + 1 # k + 1
    BY <1>a, <2>2
  <2>6. OnePerSlot' /\ OnePerImage' /\ Untouched'
    BY <1>b, <2>1, <2>2, <2>5 DEF BatchesApart, OnePerSlot, OnePerImage, Untouched
  <2>7. Acquired'
    BY <1>a, <1>b, <1>c, <2>1, <2>2 DEF BatchesApart, Acquired
  <2>8. AheadOfLater'
    <3>1. Recorded' = Recorded /\ Recorded \in Nat
      BY <2>1 DEF Recorded
    <3>2. \A j \in 1 .. Len(gpu') : gpu'[j].ahead = Len(gpu) - (j + 1) + Recorded
      BY <1>b, <2>2 DEF BatchesApart, AheadOfLater
    <3>3. \A j \in 1 .. Len(gpu') : Len(gpu) - (j + 1) = Len(gpu') - j
      BY <1>a, <2>2
    <3>. QED
      BY <3>1, <3>2, <3>3 DEF AheadOfLater
  <2>. QED
    BY <2>4, <2>6, <2>7, <2>8 DEF BatchesApart
<1>10. CASE Resize
  BY <1>10, <1>l DEF Resize
<1>11. CASE MouseMoves
  BY <1>11, <1>l DEF MouseMoves
<1>12. CASE Close
  BY <1>12, <1>l DEF Close
<1>. QED
  BY <1>1, <1>2, <1>3, <1>4, <1>5, <1>6, <1>7, <1>8, <1>9, <1>10, <1>11, <1>12 DEF Next, MainThread

(* The invariant says what the run checks. *)
LEMMA ApartEnough == IInv => FramesApart
<1>. SUFFICES ASSUME IInv PROVE FramesApart
  OBVIOUS
<1>a. gpu \in Seq(BatchType) /\ Len(gpu) \in Nat /\ DOMAIN gpu = 1 .. Len(gpu)
      /\ MaxFramesInFlight \in Nat
  BY PipelineAssumption DEF IInv, Types
<1>b. \A b \in Range(gpu) : \E j \in 1 .. Len(gpu) : b = gpu[j]
  BY <1>a DEF Range
<1>1. TypeOK
  BY BatchesFit DEF IInv, Types, TypeOK
<1>2. SlotUntouched /\ ImagesOfThisSwapchain
  BY <1>a, <1>b DEF IInv, BatchesApart, Untouched, OnePerImage, SlotUntouched, ImagesOfThisSwapchain
<1>3. InstancesSlightlyAhead
  <2>. SUFFICES ASSUME NEW j \in 1 .. Len(gpu) PROVE gpu[j].ahead < MaxFramesInFlight
    BY <1>b DEF InstancesSlightlyAhead
  <2>1. gpu[j].ahead = Len(gpu) - j + Recorded
    BY DEF IInv, BatchesApart, AheadOfLater
  <2>2. CASE pc = "submit"
    <3>1. Len(gpu) < MaxFramesInFlight
      BY <2>2, BatchesFit DEF IInv, BatchesApart, Acquired, Types
    <3>. QED
      BY <1>a, <2>1, <2>2, <3>1 DEF Recorded
  <2>3. CASE pc # "submit"
    <3>1. Len(gpu) <= MaxFramesInFlight
      BY BatchesFit
    <3>. QED
      BY <1>a, <2>1, <2>3, <3>1 DEF Recorded
  <2>. QED
    BY <2>2, <2>3
<1>. QED
  BY <1>1, <1>2, <1>3 DEF FramesApart

(* Whatever the window, the driver and the GPU do, and for any number of slots,
   images and sizes: nothing a pending frame reads is rewritten except the
   shared instance buffers, by fewer frames than there are slots, and no two
   pending frames draw into one image or into one of a destroyed swapchain
   (Renderer's fences, Swapchain's images and recreateSwapchain's waitIdle). *)
THEOREM FramesStayApart == Spec => []FramesApart
<1>1. Init => IInv
  BY InitApart
<1>2. IInv /\ [Next]_vars => IInv'
  <2>1. ASSUME IInv, Next PROVE IInv'
    BY <2>1, TypesStep, ApartStep DEF IInv
  <2>2. ASSUME IInv, UNCHANGED vars PROVE IInv'
    BY <2>2 DEF IInv, Types, BatchesApart, FencesTell, OnePerSlot, OnePerImage, Untouched, Acquired,
                AheadOfLater, Recorded, vars, window, cpu, chain
  <2>. QED
    BY <2>1, <2>2
<1>3. IInv => FramesApart
  BY ApartEnough
<1>. QED
  BY <1>1, <1>2, <1>3, PTL DEF Spec

-----------------------------------------------------------------------------
(* DeviceSetup: the choices.                                                *)

LEMMA HasLeast ==
    ASSUME NEW S \in SUBSET Nat, S # {}
    PROVE  \E x \in S : \A y \in S : x <= y
<1>1. PICK x \in S : \A y \in S : ~(<<y, x>> \in OpToRel(<, Nat))
    BY NatLessThanWellFounded, WFMin
<1>2. \A y \in S : y < x => <<y, x>> \in OpToRel(<, Nat)
    BY DEF OpToRel
<1>3. \A y \in S : ~(y < x)
    BY <1>1, <1>2, Zenon
<1> QED BY <1>3

LEMMA HasGreatest ==
    ASSUME NEW n \in Nat, NEW S \in SUBSET (1..n), S # {}
    PROVE  \E x \in S : \A y \in S : y <= x
<1> DEFINE T == {n - x : x \in S}
<1>0. \A x \in S : n - x \in Nat
    OBVIOUS
<1>1. T \in SUBSET Nat /\ T # {}
    BY <1>0
<1>2. PICK t \in T : \A u \in T : t <= u
    BY <1>1, HasLeast
<1>3. PICK x \in S : t = n - x
    OBVIOUS
<1>4. \A y \in S : n - x <= n - y
    BY <1>2, <1>3
<1> QED BY <1>4

Both == {"graphics", "present"}
SeenBy(d, i) == UNION {d.families[j] : j \in 1..i}
Completes(d, i) == Both \subseteq SeenBy(d, i)

\* The scan covers the families up to the first with which both kinds of work
\* are found, or all.
LEMMA ScannedFamilies ==
    ASSUME NEW d, IsDevice(d)
    PROVE  \E n \in 0..Len(d.families) :
              /\ Scanned(d) = 1..n
              /\ \/ n = Len(d.families) /\ \A i \in 1..n : ~Completes(d, i)
                 \/ /\ n # 0 /\ Completes(d, n)
                    /\ \A i \in 1..(n - 1) : ~Completes(d, i)
<1> DEFINE stops == {i \in Families(d) : Completes(d, i)}
<1>1. Len(d.families) \in Nat /\ Families(d) = 1..Len(d.families)
    BY DEF IsDevice, Families
<1>2. Scanned(d) = IF stops = {} THEN Families(d)
                   ELSE {i \in Families(d) : \A s \in stops : i <= s}
    BY DEF Scanned, Completes, SeenBy, Both
<1> HIDE DEF Completes
<1>3. CASE stops = {}
    BY <1>1, <1>2, <1>3
<1>4. CASE stops # {}
    <2>1. stops \in SUBSET Nat
        BY <1>1
    <2>2. PICK n \in stops : \A s \in stops : n <= s
        BY <1>4, <2>1, HasLeast
    <2>3. Scanned(d) = 1..n
        <3>1. n \in 1..Len(d.families) /\ \A s \in stops : s \in Nat
            BY <1>1, <2>2
        <3>2. \A i \in 1..Len(d.families) : (\A s \in stops : i <= s) <=> i <= n
            BY <1>1, <2>2, <3>1
        <3>3. Scanned(d) = {i \in 1..Len(d.families) : \A s \in stops : i <= s}
            BY <1>1, <1>2, <1>4
        <3>4. Scanned(d) = {i \in 1..Len(d.families) : i <= n}
            BY <3>2, <3>3
        <3> QED BY <1>1, <3>1, <3>4
    <2>4. \A i \in 1..(n - 1) : ~Completes(d, i)
        BY <1>1, <2>2
    <2> QED BY <1>1, <2>2, <2>3, <2>4
<1> QED BY <1>3, <1>4

\* Of a kind, the last scanned family that has it; 0 if none has.
LEMMA LatestFamily ==
    ASSUME NEW d, IsDevice(d), NEW kind
    PROVE  \/ /\ Latest(d, kind) = 0
              /\ \A i \in Scanned(d) : kind \notin d.families[i]
           \/ /\ Latest(d, kind) \in Scanned(d)
              /\ kind \in d.families[Latest(d, kind)]
              /\ \A i \in Scanned(d) : kind \in d.families[i] => i <= Latest(d, kind)
<1> DEFINE found == {i \in Scanned(d) : kind \in d.families[i]}
<1>1. PICK n \in 0..Len(d.families) : Scanned(d) = 1..n
    BY ScannedFamilies
<1>2. Len(d.families) \in Nat
    BY DEF IsDevice
<1>3. Latest(d, kind) = IF found = {} THEN 0
                        ELSE CHOOSE i \in found : \A j \in found : j <= i
    BY DEF Latest
<1>4. CASE found = {}
    BY <1>3, <1>4
<1>5. CASE found # {}
    <2>1. found \in SUBSET (1..n) /\ n \in Nat
        BY <1>1, <1>2
    <2>2. \E i \in found : \A j \in found : j <= i
        BY <1>5, <2>1, HasGreatest
    <2>3. Latest(d, kind) \in found /\ \A j \in found : j <= Latest(d, kind)
        BY <1>3, <1>5, <2>2
    <2> QED BY <2>3
<1> QED BY <1>4, <1>5

\* What the program takes for suitable is what it needs.
LEMMA SuitableFits ==
    ASSUME NEW d, IsDevice(d)
    PROVE  Suitable(d) <=> Fits(d)
<1>1. PICK n \in 0..Len(d.families) :
          /\ Scanned(d) = 1..n
          /\ \/ n = Len(d.families) /\ \A i \in 1..n : ~Completes(d, i)
             \/ /\ n # 0 /\ Completes(d, n)
                /\ \A i \in 1..(n - 1) : ~Completes(d, i)
    BY ScannedFamilies
<1>2. Len(d.families) \in Nat /\ Families(d) = 1..Len(d.families)
    BY DEF IsDevice, Families
<1>3. ASSUME NEW kind \in Both
      PROVE  Latest(d, kind) # 0 <=> \E i \in Families(d) : kind \in d.families[i]
    <2>1. Latest(d, kind) # 0 <=> \E i \in 1..n : kind \in d.families[i]
        BY <1>1, <1>2, LatestFamily
    <2>2. CASE n = Len(d.families)
        BY <1>2, <2>1, <2>2
    <2>3. CASE Completes(d, n)
        <3>1. \E i \in 1..n : kind \in d.families[i]
            BY <2>3 DEF Completes, SeenBy
        <3> QED BY <1>2, <2>1, <3>1
    <2> QED BY <1>1, <2>2, <2>3
<1>4. Complete(d) <=>
          \A kind \in {"graphics", "present"} : \E i \in Families(d) : kind \in d.families[i]
    BY <1>3 DEF Complete, Both
<1> QED BY <1>4 DEF Suitable, Fits

\* The first suitable device, or 0.
LEMMA PickedDevice ==
    ASSUME NEW m \in Machines
    PROVE  \/ Pick(m) = 0 /\ \A i \in DOMAIN m : ~Suitable(m[i])
           \/ /\ Pick(m) \in DOMAIN m /\ Pick(m) # 0 /\ Suitable(m[Pick(m)])
              /\ \A i \in 1..(Pick(m) - 1) : ~Suitable(m[i])
<1> DEFINE I == {i \in 1..Len(m) : Suitable(m[i])}
<1>1. Len(m) \in Nat /\ DOMAIN m = 1..Len(m)
    BY SetupAssumption
<1>2. Pick(m) = IF I # {} THEN CHOOSE x \in I : \A y \in I : x <= y ELSE 0
    BY DEF Pick, SelectInSeq, Min
<1>3. CASE I = {}
    BY <1>1, <1>2, <1>3
<1>4. CASE I # {}
    <2>1. I \in SUBSET Nat
        OBVIOUS
    <2>2. \E x \in I : \A y \in I : x <= y
        BY <1>4, <2>1, HasLeast
    <2>3. Pick(m) \in I /\ \A y \in I : Pick(m) <= y
        BY <1>2, <1>4, <2>2
    <2>4. \A i \in 1..(Pick(m) - 1) : i \in 1..Len(m) /\ i \notin I
        BY <1>1, <2>3
    <2> QED BY <1>1, <2>3, <2>4
<1> QED BY <1>3, <1>4

\* The first depth format with the features, or 0.
LEMMA FirstFormat ==
    ASSUME NEW d, IsDevice(d), NEW features
    PROVE  \/ /\ FirstWith(d, features) = 0
              /\ \A i \in DOMAIN d.depth : ~(features \subseteq d.depth[i])
           \/ /\ FirstWith(d, features) # 0
              /\ FirstWith(d, features) \in DOMAIN d.depth
              /\ features \subseteq d.depth[FirstWith(d, features)]
<1> DEFINE I == {i \in 1..Len(d.depth) : features \subseteq d.depth[i]}
<1>1. Len(d.depth) \in Nat /\ DOMAIN d.depth = 1..Len(d.depth)
    BY DEF IsDevice
<1>2. FirstWith(d, features) = IF I # {} THEN CHOOSE x \in I : \A y \in I : x <= y ELSE 0
    BY DEF FirstWith, SelectInSeq, Min
<1>3. CASE I = {}
    BY <1>1, <1>2, <1>3
<1>4. CASE I # {}
    <2>1. I \in SUBSET Nat
        OBVIOUS
    <2>2. \E x \in I : \A y \in I : x <= y
        BY <1>4, <2>1, HasLeast
    <2>3. FirstWith(d, features) \in I
        BY <1>2, <1>4, <2>2
    <2> QED BY <1>1, <2>3
<1> QED BY <1>3, <1>4

\* The fields of a choice, for the lemmas below.
LEMMA SetupFields ==
    ASSUME NEW d, NEW v, NEW s, s = Setup(d, v)
    PROVE  /\ s # <<>>
           /\ s.device = d /\ s.driver = v
           /\ s.graphics = Latest(d, "graphics") /\ s.present = Latest(d, "present")
           /\ s.shared <=> (Latest(d, "graphics") = Latest(d, "present"))
           /\ s.images = ImageCount(d) /\ s.shadow = ShadowFormat(d)
<1>1. "device" \in DOMAIN s
    BY DEF Setup
<1>2. "device" \notin DOMAIN <<>>
    OBVIOUS
<1> QED BY <1>1, <1>2 DEF Setup

\* The queues of a device that fits: both on families that take their work,
\* and one of them on the family that completes the scan.
LEMMA QueuesFit ==
    ASSUME NEW d, IsDevice(d), Fits(d)
    PROVE  LET g == Latest(d, "graphics")
               p == Latest(d, "present")
           IN  /\ "graphics" \in d.families[g] /\ "present" \in d.families[p]
               /\ \E n \in Families(d) :
                     /\ Completes(d, n) /\ \A i \in 1..(n - 1) : ~Completes(d, i)
                     /\ g = p <=> Both \subseteq d.families[n]
                     /\ n \in {g, p} /\ g \in 1..n /\ p \in 1..n
<1> DEFINE g == Latest(d, "graphics")
           p == Latest(d, "present")
<1>1. PICK n \in 0..Len(d.families) :
          /\ Scanned(d) = 1..n
          /\ \/ n = Len(d.families) /\ \A i \in 1..n : ~Completes(d, i)
             \/ /\ n # 0 /\ Completes(d, n)
                /\ \A i \in 1..(n - 1) : ~Completes(d, i)
    BY ScannedFamilies
<1>2. Len(d.families) \in Nat /\ Families(d) = 1..Len(d.families)
    BY DEF IsDevice, Families
<1>3. g # 0 /\ p # 0
    BY SuitableFits DEF Suitable, Complete
<1>4. /\ g \in 1..n /\ "graphics" \in d.families[g]
      /\ \A i \in 1..n : "graphics" \in d.families[i] => i <= g
    BY <1>1, <1>3, LatestFamily
<1>5. /\ p \in 1..n /\ "present" \in d.families[p]
      /\ \A i \in 1..n : "present" \in d.families[i] => i <= p
    BY <1>1, <1>3, LatestFamily
<1> HIDE DEF g, p
<1>6. n # 0 /\ Completes(d, n)
    <2>1. CASE n = Len(d.families) /\ \A i \in 1..n : ~Completes(d, i)
        <3>1. n \in 1..n
            BY <1>2, <1>4
        <3>2. Completes(d, n)
            BY <1>4, <1>5 DEF Completes, SeenBy, Both
        <3> QED BY <2>1, <3>1, <3>2
    <2> QED BY <1>1, <2>1
<1>7. \A i \in 1..(n - 1) : ~Completes(d, i)
    BY <1>1, <1>2, <1>6
<1>8. n \in {g, p}
    <2> SUFFICES ASSUME n # g, n # p PROVE FALSE
        OBVIOUS
    <2>1. g \in 1..(n - 1) /\ p \in 1..(n - 1) /\ n - 1 \in 1..(n - 1)
        BY <1>2, <1>4, <1>5
    <2>2. Completes(d, n - 1)
        BY <1>4, <1>5, <2>1 DEF Completes, SeenBy, Both
    <2> QED BY <1>7, <2>1, <2>2
<1>9. g = p <=> Both \subseteq d.families[n]
    <2>1. n \in 1..n
        BY <1>2, <1>4
    <2>2. ASSUME Both \subseteq d.families[n] PROVE g = p
        BY <1>4, <1>5, <2>1, <2>2 DEF Both
    <2>3. ASSUME g = p PROVE Both \subseteq d.families[n]
        BY <1>4, <1>5, <1>8, <2>3 DEF Both
    <2> QED BY <2>2, <2>3
<1>10. n \in Families(d)
    BY <1>1, <1>2, <1>6
<1> QED BY <1>4, <1>5, <1>6, <1>7, <1>8, <1>9, <1>10 DEF g, p

LEMMA ImagesFit ==
    ASSUME NEW d, IsDevice(d)
    PROVE  /\ ImageCount(d) >= d.minImages
           /\ d.maxImages > 0 => ImageCount(d) <= d.maxImages
BY DEF IsDevice, ImageCount

LEMMA ShadowFits ==
    ASSUME NEW d, IsDevice(d), ShadowFormat(d).format # 0
    PROVE  LET s == ShadowFormat(d) IN
           /\ {"attachment", "sampled"} \subseteq d.depth[s.format]
           /\ s.linear <=> "linear" \in d.depth[s.format]
           /\ ~s.linear => \A i \in DOMAIN d.depth :
                ~({"attachment", "sampled", "linear"} \subseteq d.depth[i])
<1> DEFINE all  == {"attachment", "sampled", "linear"}
           some == {"attachment", "sampled"}
<1>1. \/ FirstWith(d, all) = 0 /\ \A i \in DOMAIN d.depth : ~(all \subseteq d.depth[i])
      \/ FirstWith(d, all) # 0 /\ all \subseteq d.depth[FirstWith(d, all)]
    BY FirstFormat
<1>2. \/ FirstWith(d, some) = 0
      \/ /\ FirstWith(d, some) \in DOMAIN d.depth
         /\ some \subseteq d.depth[FirstWith(d, some)]
    BY FirstFormat
<1>3. ShadowFormat(d) =
          IF FirstWith(d, all) # 0
          THEN [format |-> FirstWith(d, all), linear |-> TRUE]
          ELSE [format |-> FirstWith(d, some), linear |-> FALSE]
    BY DEF ShadowFormat
<1>4. CASE FirstWith(d, all) # 0
    BY <1>1, <1>3, <1>4
<1>5. CASE FirstWith(d, all) = 0
    BY <1>1, <1>2, <1>3, <1>5
<1> QED BY <1>4, <1>5

-----------------------------------------------------------------------------
(* DeviceSetup: what is on disk.                                            *)

Saving == {"header", "body", "rename", "remove", "again"}
Bare   == {"off", "instance", "no instance", "no device"}
Points == Saving \cup Bare
          \cup {"picked", "no features", "no format", "device", "running", "uncached"}

\* Every start on this machine chooses the same device, for the driver it finds.
Chosen(v) == Setup(machine[Pick(machine)], v)
Options   == {<<>>} \cup {Chosen(v) : v \in 0..UpdateBound}

SetupTypes ==
    /\ machine \in Machines /\ driver \in 0..UpdateBound
    /\ cache \in Inodes \cup {NoInode} /\ tmp \in Inodes \cup {NoInode}
    /\ content \in [Inodes -> Data] /\ writers \in [Inodes -> SUBSET Clients]
    /\ starts \in [Clients -> 0..StartBound] /\ startPc \in [Clients -> Points]
    /\ setup \in [Clients -> Options] /\ given \in [Clients -> Data]
    /\ fd \in [Clients -> Inodes \cup {NoInode}]
    /\ last \in Tags \cup {<<>>} /\ refused \in BOOLEAN

\* What a client has at each point of its life.
Progress ==
    \A c \in Clients :
        /\ startPc[c] \in Bare <=> setup[c] = <<>>
        /\ startPc[c] \in Saving <=> fd[c] # NoInode
        /\ setup[c] # <<>> => Pick(machine) # 0
        /\ startPc[c] = "no device" => Pick(machine) = 0
        /\ startPc[c] \in {"device", "running", "uncached"} =>
               setup[c].shadow.format # 0
        /\ given[c] # <<>> => setup[c] # <<>> /\ Head(given[c]) = Tag(c)

\* What a client that saves has written so far.
WrittenHere(c) == IF startPc[c] = "header" THEN <<>>
              ELSE IF startPc[c] = "body" THEN <<Tag(c)>>
              ELSE <<Tag(c), Tag(c)>>

\* Whoever has a file open has written it at once with others, if any: a file
\* of one writer holds what that client has written.  A client that has had the
\* temporary file holds it still or is done with it, so one that moves a file
\* it has not open adds itself to the writers.
FilesKept ==
    /\ tmp # NoInode => tmp # cache /\ writers[tmp] # {}
    /\ \A c \in Clients : fd[c] # NoInode =>
           /\ c \in writers[fd[c]]
           /\ writers[fd[c]] = {c} => content[fd[c]] = WrittenHere(c)
           /\ tmp # NoInode /\ c \in writers[tmp] => fd[c] = tmp
    /\ \A x \in Clients : cache # NoInode /\ writers[cache] = {x} =>
           /\ content[cache] = <<last, last>>
           /\ \A c \in Clients : fd[c] # cache

SetupInv == SetupTypes /\ Progress /\ FilesKept

LEMMA PutParts ==
    ASSUME NEW data \in Data, NEW tag \in Tags
    PROVE  /\ Put(data, 1, tag) \in Data /\ Put(data, 2, tag) \in Data
           /\ data = <<>> => Put(data, 1, tag) = <<tag>>
           /\ data = <<tag>> => Put(data, 2, tag) = <<tag, tag>>
<1>1. CASE data = <<>>
    <2>1. Put(data, 1, tag) = <<tag>>
        BY <1>1 DEF Put
    <2>2. Put(data, 2, tag) = <<<<>>, tag>>
        BY <1>1 DEF Put
    <2> QED BY <1>1, <2>1, <2>2 DEF Data
<1>2. ASSUME NEW h \in Tags, data = <<h>>
      PROVE  Put(data, 1, tag) = <<tag>> /\ Put(data, 2, tag) = <<h, tag>>
    BY <1>2 DEF Put
<1>3. ASSUME NEW h \in Tags \cup {<<>>}, NEW b \in Tags, data = <<h, b>>
      PROVE  Put(data, 1, tag) = <<tag, b>> /\ Put(data, 2, tag) = <<h, tag>>
    BY <1>3 DEF Put
<1>4. CASE \E h \in Tags : data = <<h>>
    <2>1. PICK h \in Tags : data = <<h>>
        BY <1>4
    <2>2. data # <<>> /\ (data = <<tag>> => h = tag)
        BY <2>1
    <2> QED BY <1>2, <2>1, <2>2 DEF Data
<1>5. CASE \E h \in Tags \cup {<<>>}, b \in Tags : data = <<h, b>>
    <2>1. PICK h \in Tags \cup {<<>>}, b \in Tags : data = <<h, b>>
        BY <1>5
    <2>2. data # <<>> /\ data # <<tag>>
        BY <2>1
    <2> QED BY <1>3, <2>1, <2>2 DEF Data
<1> QED BY <1>1, <1>4, <1>5 DEF Data

\* There are more inodes than clients and the name of the cache can use.
LEMMA FreshInode ==
    ASSUME SetupTypes
    PROVE  Fresh \in Inodes /\ Fresh # cache /\ \A o \in Clients : fd[o] # Fresh
<1> DEFINE others == Inodes \ {cache}
<1>1. IsFiniteSet(others) /\ IsFiniteSet(Clients) /\ Cardinality(others) > Cardinality(Clients)
    <2>1. /\ IsFiniteSet(others)
          /\ Cardinality(others) = IF cache \in Inodes THEN Cardinality(Inodes) - 1
                                   ELSE Cardinality(Inodes)
        BY SetupAssumption, FS_RemoveElement
    <2>2. Cardinality(Inodes) \in Nat /\ Cardinality(Clients) \in Nat
        BY SetupAssumption, FS_CardinalityType
    <2> QED BY <2>1, <2>2, SetupAssumption
<1>2. \E i \in Inodes : i # cache /\ \A o \in Clients : fd[o] # i
    <2> SUFFICES ASSUME \A i \in others : \E o \in Clients : fd[o] = i PROVE FALSE
        OBVIOUS
    <2> DEFINE f == [i \in others |-> CHOOSE o \in Clients : fd[o] = i]
    <2>1. f \in [others -> Clients] /\ \A i \in others : fd[f[i]] = i
        OBVIOUS
    <2> HIDE DEF f, others
    <2>2. \E i, j \in others : i # j /\ f[i] = f[j]
        BY <1>1, <2>1, FS_PigeonHole
    <2> QED BY <2>1, <2>2
<1> QED BY <1>2 DEF Fresh

\* The tag of a client that has chosen its device.
LEMMA TagsAre ==
    ASSUME SetupTypes, Progress, NEW c \in Clients, setup[c] # <<>>
    PROVE  Tag(c) \in Tags
<1>1. PICK v \in 0..UpdateBound : setup[c] = Chosen(v)
    BY DEF SetupTypes, Options
<1>2. Pick(machine) \in DOMAIN machine
    BY PickedDevice DEF SetupTypes, Progress
<1>3. setup[c].device = machine[Pick(machine)] /\ setup[c].driver = v
    BY <1>1, SetupFields DEF Chosen
<1>4. machine[Pick(machine)] \in UNION {ToSet(m) : m \in Machines}
    BY <1>2 DEF SetupTypes, ToSet
<1> QED BY <1>3, <1>4 DEF Tag, Tags

\* A step that leaves the disk and those who save as they are, or ends a save.
LEMMA FilesStay ==
    ASSUME SetupTypes, FilesKept,
           UNCHANGED <<content, writers, tmp, last>>, cache' \in {cache, NoInode},
           fd' \in [Clients -> Inodes \cup {NoInode}],
           \A c \in Clients :
               /\ fd'[c] \in {fd[c], NoInode}
               /\ fd'[c] # NoInode =>
                      /\ setup'[c] = setup[c]
                      /\ \/ startPc'[c] = startPc[c]
                         \/ {startPc[c], startPc'[c]} \subseteq {"rename", "remove", "again"}
    PROVE  FilesKept'
<1>1. \A c \in Clients : fd'[c] # NoInode => WrittenHere(c)' = WrittenHere(c)
    BY DEF WrittenHere, Tag
<1>2. tmp' # NoInode => tmp' # cache' /\ writers'[tmp'] # {}
    BY DEF FilesKept
<1>3. ASSUME NEW c \in Clients, fd'[c] # NoInode
      PROVE  /\ c \in writers'[fd'[c]]
             /\ writers'[fd'[c]] = {c} => content'[fd'[c]] = WrittenHere(c)'
             /\ tmp' # NoInode /\ c \in writers'[tmp'] => fd'[c] = tmp'
    BY <1>1, <1>3 DEF FilesKept
<1>4. ASSUME NEW x \in Clients, cache' # NoInode /\ writers'[cache'] = {x}
      PROVE  content'[cache'] = <<last', last'>> /\ \A c \in Clients : fd'[c] # cache'
    BY <1>4 DEF FilesKept
<1> QED BY <1>2, <1>3, <1>4, Zenon DEF FilesKept

LEMMA StartsBounded ==
    \A n \in 0..StartBound : n < StartBound => n + 1 \in 0..StartBound
BY SetupAssumption

\* The end of a client, however it comes about.
LEMMA EndsRight ==
    ASSUME SetupTypes, Progress, NEW c \in Clients, Ends(c)
    PROVE  /\ UNCHANGED <<machine, driver, starts>>
           /\ startPc' \in [Clients -> Points] /\ setup' \in [Clients -> Options]
           /\ given' \in [Clients -> Data] /\ fd' \in [Clients -> Inodes \cup {NoInode}]
           /\ Progress'
           /\ \A o \in Clients :
                  IF o = c THEN fd'[o] = NoInode
                  ELSE /\ fd'[o] = fd[o] /\ setup'[o] = setup[o] /\ startPc'[o] = startPc[o]
<1>1. UNCHANGED <<machine, driver, starts>>
    BY DEF Ends
<1>2. startPc' = [startPc EXCEPT ![c] = "off"] /\ setup' = [setup EXCEPT ![c] = <<>>]
      /\ given' = [given EXCEPT ![c] = <<>>] /\ fd' = [fd EXCEPT ![c] = NoInode]
    BY DEF Ends, Goes
<1>3. <<>> \in Data /\ <<>> \in Options /\ "off" \in Points
    BY DEF Data, Options, Points, Bare
<1>4. /\ startPc' \in [Clients -> Points] /\ setup' \in [Clients -> Options]
      /\ given' \in [Clients -> Data] /\ fd' \in [Clients -> Inodes \cup {NoInode}]
    BY <1>2, <1>3 DEF SetupTypes
<1>5. \A o \in Clients :
          IF o = c THEN fd'[o] = NoInode /\ setup'[o] = <<>> /\ given'[o] = <<>>
                        /\ startPc'[o] = "off"
          ELSE /\ fd'[o] = fd[o] /\ setup'[o] = setup[o] /\ startPc'[o] = startPc[o]
               /\ given'[o] = given[o]
    BY <1>2 DEF SetupTypes
<1>6. Progress'
    BY ZenonT(40), <1>1, <1>5 DEF Progress, Tag, Bare, Saving
<1> QED BY <1>1, <1>4, <1>5, <1>6

\* A client starts, looks for a device and takes the cache.
LEMMA StartingRight ==
    ASSUME SetupInv, NEW c \in Clients,
           \/ CreateInstance(c) \/ PickPhysicalDevice(c) \/ CreateLogicalDevice(c)
           \/ CreatePipelineCache(c) \/ NoPipelineCache(c)
    PROVE  SetupInv'
<1> USE DEF SetupInv, disk
<1>1. CASE CreateInstance(c)
    <2>1. PICK to \in {"instance", "no instance"} : startPc' = [startPc EXCEPT ![c] = to]
        BY <1>1 DEF CreateInstance, Goes
    <2>2. starts' \in [Clients -> 0..StartBound]
        <3>0. starts[c] \in 0..StartBound /\ starts[c] < StartBound /\ StartBound \in Nat
            BY <1>1, SetupAssumption DEF CreateInstance, SetupTypes
        <3>1. \A n \in 0..StartBound : n < StartBound => n + 1 \in 0..StartBound
            BY StartsBounded
        <3>2. starts' = [starts EXCEPT ![c] = starts[c] + 1]
            BY <1>1 DEF CreateInstance
        <3>3. starts[c] + 1 \in 0..StartBound
            BY <3>0, <3>1, Zenon
        <3> QED BY <3>2, <3>3 DEF SetupTypes
    <2>3. SetupTypes'
        BY ZenonT(40), <1>1, <2>1, <2>2 DEF CreateInstance, SetupTypes, Points, Bare, Options, Chosen
    <2>4. Progress'
        BY <1>1, <2>1 DEF CreateInstance, SetupTypes, Progress, Tag, Bare, Saving
    <2>5. \A o \in Clients : fd[o] # NoInode => startPc'[o] = startPc[o]
        BY <1>1, <2>1 DEF CreateInstance, SetupTypes, Progress, Saving
    <2>6. FilesKept'
        BY <1>1, <2>3, <2>5, FilesStay DEF CreateInstance, SetupTypes
    <2> QED BY <2>3, <2>4, <2>6
<1>2. CASE PickPhysicalDevice(c)
    <2>0. /\ startPc[c] = "instance" /\ setup[c] = <<>> /\ given[c] = <<>> /\ fd[c] = NoInode
          /\ UNCHANGED <<machine, driver, starts, given, fd, disk>>
        BY <1>2 DEF PickPhysicalDevice, Progress, Bare, Saving
    <2>1. /\ \/ /\ Pick(machine) = 0 /\ startPc' = [startPc EXCEPT ![c] = "no device"]
                /\ setup' = setup
             \/ /\ Pick(machine) # 0 /\ startPc' = [startPc EXCEPT ![c] = "picked"]
                /\ setup' = [setup EXCEPT ![c] = Chosen(driver)]
        BY <1>2 DEF PickPhysicalDevice, Goes, Chosen
    <2>2. Chosen(driver) \in Options /\ Chosen(driver) # <<>>
        BY SetupFields DEF Options, Chosen, SetupTypes
    <2>3. startPc' \in [Clients -> Points] /\ setup' \in [Clients -> Options]
        BY <2>1, <2>2 DEF SetupTypes, Points, Bare
    <2>4. SetupTypes'
        BY <2>0, <2>3 DEF SetupTypes, Options, Chosen
    <2>5. \A o \in Clients \ {c} : startPc'[o] = startPc[o] /\ setup'[o] = setup[o]
        BY <2>1 DEF SetupTypes
    <2>6. \/ Pick(machine) = 0 /\ startPc'[c] = "no device" /\ setup'[c] = <<>>
          \/ Pick(machine) # 0 /\ startPc'[c] = "picked" /\ setup'[c] # <<>>
        BY <2>0, <2>1, <2>2 DEF SetupTypes
    <2>7. Progress'
        BY <2>0, <2>5, <2>6 DEF Progress, Tag, Bare, Saving
    <2>8. FilesKept'
        BY <2>0, <2>4, <2>5, FilesStay DEF SetupTypes
    <2> QED BY <2>4, <2>7, <2>8
<1>3. CASE CreateLogicalDevice(c)
    <2>0. /\ startPc[c] = "picked" /\ UNCHANGED <<machine, driver, starts, setup, given, fd, disk>>
        BY <1>3 DEF CreateLogicalDevice
    <2>1. PICK to \in {"no features", "no format", "device"} :
              /\ startPc' = [startPc EXCEPT ![c] = to]
              /\ to = "device" => setup[c].shadow.format # 0
        BY <1>3 DEF CreateLogicalDevice, Goes
    <2>2. SetupTypes'
        BY <2>0, <2>1 DEF SetupTypes, Points, Bare, Options, Chosen
    <2>3. Progress'
        BY <2>0, <2>1 DEF SetupTypes, Progress, Tag, Bare, Saving
    <2>4. \A o \in Clients : fd[o] # NoInode => startPc'[o] = startPc[o]
        BY <2>0, <2>1 DEF SetupTypes, Progress, Saving
    <2>5. FilesKept'
        BY <2>0, <2>2, <2>4, FilesStay DEF SetupTypes
    <2> QED BY <2>2, <2>3, <2>5
<1>4. CASE CreatePipelineCache(c)
    <2>0. /\ startPc[c] = "device" /\ startPc' = [startPc EXCEPT ![c] = "running"]
          /\ UNCHANGED <<machine, driver, starts, setup, fd, disk>>
        BY <1>4 DEF CreatePipelineCache, Goes
    <2>1. PICK data \in Data : /\ given' = [given EXCEPT ![c] = data]
                               /\ data # <<>> => Head(data) = Tag(c)
        <3>1. <<>> \in Data /\ \A i \in Inodes : content[i] \in Data
            BY DEF Data, SetupTypes
        <3> DEFINE all == IF cache = NoInode THEN <<>> ELSE content[cache]
                   new == IF Valid(c, all) THEN all ELSE <<>>
        <3>2. all \in Data
            BY <3>1 DEF SetupTypes
        <3>3. new \in Data /\ (new # <<>> => Head(new) = Tag(c))
            BY <3>1, <3>2 DEF Valid
        <3>4. given' = [given EXCEPT ![c] = new]
            BY <1>4 DEF CreatePipelineCache
        <3> HIDE DEF new
        <3> QED BY <3>3, <3>4
    <2>2. SetupTypes'
        BY <2>0, <2>1 DEF SetupTypes, Points, Options, Chosen
    <2>3. \A o \in Clients :
              IF o = c THEN startPc'[o] = "running" /\ given'[o] = data
              ELSE startPc'[o] = startPc[o] /\ given'[o] = given[o]
        BY <2>0, <2>1 DEF SetupTypes
    <2>4. Progress'
        BY <2>0, <2>1, <2>3 DEF Progress, Tag, Bare, Saving
    <2>5. \A o \in Clients : fd[o] # NoInode => startPc'[o] = startPc[o]
        BY <2>0, <2>3 DEF Progress, Saving
    <2>6. FilesKept'
        BY <2>0, <2>2, <2>5, FilesStay DEF SetupTypes
    <2> QED BY <2>2, <2>4, <2>6
<1>5. CASE NoPipelineCache(c)
    <2>0. /\ startPc[c] = "device" /\ startPc' = [startPc EXCEPT ![c] = "uncached"]
          /\ UNCHANGED <<machine, driver, starts, setup, given, fd, disk>>
        BY <1>5 DEF NoPipelineCache, Goes
    <2>1. SetupTypes'
        BY <2>0 DEF SetupTypes, Points, Options, Chosen
    <2>2. Progress'
        BY <2>0 DEF SetupTypes, Progress, Tag, Bare, Saving
    <2>3. \A o \in Clients : fd[o] # NoInode => startPc'[o] = startPc[o]
        BY <2>0 DEF SetupTypes, Progress, Saving
    <2>4. FilesKept'
        BY <2>0, <2>1, <2>3, FilesStay DEF SetupTypes
    <2> QED BY <2>1, <2>2, <2>4
<1> QED BY <1>1, <1>2, <1>3, <1>4, <1>5

\* The ends that leave the disk alone.
LEMMA EndingRight ==
    ASSUME SetupInv, NEW c \in Clients,
           EndsWithoutSaving(c) \/ SaveSkipped(c) \/ WriteFails(c) \/ Crash(c)
    PROVE  SetupInv'
<1> USE DEF SetupInv, disk
<1>1. Ends(c) /\ UNCHANGED <<cache, tmp, content, writers, last, refused>>
    BY DEF EndsWithoutSaving, SaveSkipped, WriteFails, Crash
<1>2. /\ UNCHANGED <<machine, driver, starts>>
      /\ startPc' \in [Clients -> Points] /\ setup' \in [Clients -> Options]
      /\ given' \in [Clients -> Data] /\ fd' \in [Clients -> Inodes \cup {NoInode}]
      /\ Progress'
      /\ \A o \in Clients :
             IF o = c THEN fd'[o] = NoInode
             ELSE /\ fd'[o] = fd[o] /\ setup'[o] = setup[o] /\ startPc'[o] = startPc[o]
    BY <1>1, EndsRight
<1>3. SetupTypes'
    BY <1>1, <1>2 DEF SetupTypes, Options, Chosen
<1>4. FilesKept'
    BY <1>1, <1>2, FilesStay
<1> QED BY <1>2, <1>3, <1>4

\* A client that saves opens the temporary file, or a new one.
LEMMA OpeningRight ==
    ASSUME SetupInv, NEW c \in Clients, SaveBegin(c)
    PROVE  SetupInv'
<1> USE DEF SetupInv
<1> DEFINE i == IF tmp # NoInode THEN tmp ELSE Fresh
<1>1. /\ startPc[c] = "running" /\ startPc' = [startPc EXCEPT ![c] = "header"]
      /\ UNCHANGED <<machine, driver, starts, setup, given, last, refused, cache>>
      /\ content' = [content EXCEPT ![i] = <<>>]
      /\ writers' = [writers EXCEPT ![i] = {o \in Clients : fd[o] = i} \cup {c}]
      /\ fd' = [fd EXCEPT ![c] = i] /\ tmp' = i
    BY DEF SaveBegin, OpensTmp, Opens, Goes
<1>2. i \in Inodes /\ i # cache /\ i # NoInode
    BY FreshInode, SetupAssumption DEF SetupTypes, FilesKept
<1>3. tmp = NoInode => \A o \in Clients : fd[o] # i
    BY FreshInode
<1>4. fd[c] = NoInode /\ setup[c] # <<>>
    BY <1>1 DEF Progress, Saving, Bare
<1> HIDE DEF i
<1>5. SetupTypes'
    <2>1. <<>> \in Data /\ "header" \in Points
        BY DEF Data, Points, Saving
    <2> QED BY <1>1, <1>2, <2>1 DEF SetupTypes, Options, Chosen
<1>6. \A o \in Clients : IF o = c THEN startPc'[o] = "header" /\ fd'[o] = i
                         ELSE startPc'[o] = startPc[o] /\ fd'[o] = fd[o]
    BY <1>1 DEF SetupTypes
<1>7. /\ content'[i] = <<>> /\ writers'[i] = {o \in Clients : fd[o] = i} \cup {c}
      /\ \A j \in Inodes \ {i} : content'[j] = content[j] /\ writers'[j] = writers[j]
    BY <1>1, <1>2 DEF SetupTypes
<1>8. Progress'
    BY <1>1, <1>2, <1>6 DEF Progress, Tag, Bare, Saving
<1>9. tmp' # NoInode => tmp' # cache' /\ writers'[tmp'] # {}
    BY <1>1, <1>2, <1>7
<1>10. ASSUME NEW o \in Clients, fd'[o] # NoInode
       PROVE  /\ o \in writers'[fd'[o]]
              /\ writers'[fd'[o]] = {o} => content'[fd'[o]] = WrittenHere(o)'
              /\ tmp' # NoInode /\ o \in writers'[tmp'] => fd'[o] = tmp'
    <2>1. CASE o = c
        BY <1>1, <1>6, <1>7, <2>1 DEF WrittenHere
    <2>2. CASE o # c
        <3>1. fd'[o] = fd[o] /\ WrittenHere(o)' = WrittenHere(o) /\ fd[o] \in Inodes
            BY <1>1, <1>6, <1>10, <2>2 DEF WrittenHere, Tag, SetupTypes
        <3>2. CASE fd[o] = i
            BY <1>1, <1>7, <2>2, <3>1, <3>2
        <3>3. CASE fd[o] # i
            BY <1>1, <1>7, <1>10, <2>2, <3>1, <3>3 DEF FilesKept
        <3> QED BY <3>2, <3>3
    <2> QED BY <2>1, <2>2
<1>11. ASSUME NEW x \in Clients, cache' # NoInode /\ writers'[cache'] = {x}
       PROVE  content'[cache'] = <<last', last'>> /\ \A o \in Clients : fd'[o] # cache'
    <2>1. cache \in Inodes \ {i} /\ cache' = cache
        BY <1>1, <1>2, <1>11 DEF SetupTypes
    <2>2. content[cache] = <<last, last>> /\ \A o \in Clients : fd[o] # cache
        BY <1>7, <1>11, <2>1 DEF FilesKept
    <2> QED BY <1>1, <1>6, <1>7, <2>1, <2>2
<1> QED BY <1>5, <1>8, <1>9, <1>10, <1>11, Zenon DEF FilesKept

\* It writes the header, then the body, at its own position.
LEMMA WritingRight ==
    ASSUME SetupInv, NEW c \in Clients, WriteHeader(c) \/ WriteBody(c)
    PROVE  SetupInv'
<1> USE DEF SetupInv
<1>1. PICK at, k, to :
          /\ Write(c, at, k, to)
          /\ \/ at = "header" /\ k = 1 /\ to = "body"
             \/ at = "body" /\ k = 2 /\ to = "rename"
    BY DEF WriteHeader, WriteBody
<1>2. /\ startPc[c] = at /\ startPc' = [startPc EXCEPT ![c] = to]
      /\ content' = [content EXCEPT ![fd[c]] = Put(content[fd[c]], k, Tag(c))]
      /\ UNCHANGED <<machine, driver, starts, setup, given, fd, cache, tmp, writers,
                     last, refused>>
    BY <1>1 DEF Write, Goes
<1>3. startPc[c] \in Saving /\ to \in Saving
    BY <1>1, <1>2 DEF Saving
<1>4. fd[c] \in Inodes /\ setup[c] # <<>>
    BY <1>3 DEF Progress, SetupTypes, Saving, Bare
<1>5. Tag(c) \in Tags /\ content[fd[c]] \in Data
    BY <1>4, TagsAre DEF SetupTypes
<1> DEFINE new == Put(content[fd[c]], k, Tag(c))
<1>6. /\ new \in Data
      /\ k = 1 /\ content[fd[c]] = <<>> => new = <<Tag(c)>>
      /\ k = 2 /\ content[fd[c]] = <<Tag(c)>> => new = <<Tag(c), Tag(c)>>
    BY <1>1, <1>5, PutParts
<1>7. /\ content'[fd[c]] = new
      /\ \A j \in Inodes \ {fd[c]} : content'[j] = content[j]
    BY <1>2, <1>4 DEF SetupTypes
<1>8. content' \in [Inodes -> Data] /\ startPc' \in [Clients -> Points]
    BY <1>2, <1>3, <1>6 DEF SetupTypes, Points
<1>9. \A o \in Clients : startPc'[o] = IF o = c THEN to ELSE startPc[o]
    BY <1>2 DEF SetupTypes
<1>10. SetupTypes'
    BY <1>2, <1>8 DEF SetupTypes, Options, Chosen
<1>11. Progress'
    <2>1. /\ {startPc[c], to} \cap Bare = {}
          /\ {startPc[c], to} \cap {"no device", "device", "running", "uncached"} = {}
        BY <1>1, <1>2 DEF Bare
    <2> QED BY <1>2, <1>3, <1>9, <2>1 DEF Progress, Tag
<1> HIDE DEF new
<1>12. ASSUME NEW o \in Clients, fd'[o] # NoInode
       PROVE  /\ o \in writers'[fd'[o]]
              /\ writers'[fd'[o]] = {o} => content'[fd'[o]] = WrittenHere(o)'
              /\ tmp' # NoInode /\ o \in writers'[tmp'] => fd'[o] = tmp'
    <2>1. /\ o \in writers[fd[o]]
          /\ writers[fd[o]] = {o} => content[fd[o]] = WrittenHere(o)
          /\ tmp # NoInode /\ o \in writers[tmp] => fd[o] = tmp
        BY <1>2, <1>12 DEF FilesKept
    <2>2. writers[fd[o]] = {o} => content'[fd[o]] = WrittenHere(o)'
        <3> SUFFICES ASSUME writers[fd[o]] = {o} PROVE content'[fd[o]] = WrittenHere(o)'
            OBVIOUS
        <3>1. Tag(o)' = Tag(o) /\ fd[o] \in Inodes
            BY <1>2, <1>12 DEF Tag, SetupTypes
        <3>2. CASE o = c
            <4>1. CASE startPc[c] = "header"
                BY <1>1, <1>2, <1>6, <1>7, <1>9, <2>1, <3>1, <3>2, <4>1 DEF WrittenHere
            <4>2. CASE startPc[c] = "body"
                BY <1>1, <1>2, <1>6, <1>7, <1>9, <2>1, <3>1, <3>2, <4>2 DEF WrittenHere
            <4> QED BY <1>1, <1>2, <4>1, <4>2
        <3>3. CASE o # c
            <4>1. fd[o] # fd[c]
                BY <1>4, <3>3, SetupAssumption DEF FilesKept
            <4>2. WrittenHere(o)' = WrittenHere(o)
                BY <1>9, <3>1, <3>3 DEF WrittenHere
            <4> QED BY <1>7, <2>1, <3>1, <4>1, <4>2
        <3> QED BY <3>2, <3>3
    <2> QED BY <1>2, <2>1, <2>2
<1>13. ASSUME NEW x \in Clients, cache' # NoInode /\ writers'[cache'] = {x}
       PROVE  content'[cache'] = <<last', last'>> /\ \A o \in Clients : fd'[o] # cache'
    <2>1. /\ content[cache] = <<last, last>> /\ \A o \in Clients : fd[o] # cache
          /\ cache \in Inodes
        BY <1>2, <1>13 DEF FilesKept, SetupTypes
    <2> QED BY <1>2, <1>7, <2>1
<1>14. tmp' # NoInode => tmp' # cache' /\ writers'[tmp'] # {}
    BY <1>2 DEF FilesKept
<1> QED BY <1>10, <1>11, <1>12, <1>13, <1>14, Zenon DEF FilesKept

\* It moves what has the temporary name, its own file or another's.
LEMMA PlacingRight ==
    ASSUME SetupInv, NEW c \in Clients, startPc[c] \in {"rename", "again"},
           tmp # NoInode, Placed(c)
    PROVE  SetupInv'
<1> USE DEF SetupInv
<1>1. /\ cache' = tmp /\ tmp' = NoInode /\ last' = Tag(c)
      /\ writers' = [writers EXCEPT ![tmp] = writers[tmp] \cup {c}]
      /\ Ends(c) /\ UNCHANGED <<content, refused>>
    BY DEF Placed
<1>2. /\ UNCHANGED <<machine, driver, starts>>
      /\ startPc' \in [Clients -> Points] /\ setup' \in [Clients -> Options]
      /\ given' \in [Clients -> Data] /\ fd' \in [Clients -> Inodes \cup {NoInode}]
      /\ Progress'
      /\ \A o \in Clients :
             IF o = c THEN fd'[o] = NoInode
             ELSE /\ fd'[o] = fd[o] /\ setup'[o] = setup[o] /\ startPc'[o] = startPc[o]
    BY <1>1, EndsRight
<1>3. tmp \in Inodes /\ setup[c] # <<>> /\ fd[c] # NoInode
    BY DEF SetupTypes, Progress, Bare, Saving
<1>4. Tag(c) \in Tags
    BY <1>3, TagsAre
<1>5. /\ writers' \in [Inodes -> SUBSET Clients] /\ writers'[tmp] = writers[tmp] \cup {c}
      /\ \A j \in Inodes \ {tmp} : writers'[j] = writers[j]
    BY <1>1, <1>3 DEF SetupTypes
<1>6. SetupTypes'
    BY <1>1, <1>2, <1>4, <1>5 DEF SetupTypes, Options, Chosen
<1>7. ASSUME NEW o \in Clients, fd'[o] # NoInode
      PROVE  /\ o \in writers'[fd'[o]]
             /\ writers'[fd'[o]] = {o} => content'[fd'[o]] = WrittenHere(o)'
    <2>1. /\ o # c /\ fd'[o] = fd[o] /\ fd[o] \in Inodes /\ fd[o] # NoInode
          /\ WrittenHere(o)' = WrittenHere(o)
        BY <1>2, <1>7 DEF WrittenHere, Tag, SetupTypes
    <2>2. /\ o \in writers[fd[o]]
          /\ writers[fd[o]] = {o} => content[fd[o]] = WrittenHere(o)
        BY <2>1 DEF FilesKept
    <2>3. CASE fd[o] = tmp
        BY <1>5, <2>1, <2>2, <2>3
    <2>4. CASE fd[o] # tmp
        BY <1>1, <1>5, <2>1, <2>2, <2>4
    <2> QED BY <2>3, <2>4
<1>8. ASSUME NEW x \in Clients, writers'[tmp] = {x}
      PROVE  content[tmp] = <<Tag(c), Tag(c)>> /\ \A o \in Clients : fd'[o] # tmp
    <2>1. writers[tmp] = {c}
        BY <1>5, <1>8 DEF FilesKept
    <2>2. fd[c] = tmp
        BY <1>3, <2>1 DEF FilesKept
    <2>3. content[tmp] = WrittenHere(c)
        BY <1>3, <2>1, <2>2 DEF FilesKept
    <2>4. WrittenHere(c) = <<Tag(c), Tag(c)>>
        BY DEF WrittenHere
    <2>5. \A o \in Clients \ {c} : fd[o] # tmp
        BY <2>1 DEF FilesKept
    <2> QED BY <1>2, <2>3, <2>4, <2>5
<1>9. FilesKept'
    BY <1>1, <1>7, <1>8, Zenon DEF FilesKept
<1> QED BY <1>2, <1>6, <1>9

\* Or cannot, and removes the cache first.
LEMMA RefusingRight ==
    ASSUME SetupInv, NEW c \in Clients,
           Rename(c) \/ RenameFails(c) \/ RemoveCache(c) \/ RenameAgain(c)
    PROVE  SetupInv'
<1> USE DEF SetupInv
<1>1. CASE Rename(c)
    BY <1>1, PlacingRight DEF Rename
<1>2. CASE RenameFails(c)
    <2>0. /\ startPc[c] = "rename" /\ startPc' = [startPc EXCEPT ![c] = "remove"]
          /\ refused' \in BOOLEAN
          /\ UNCHANGED <<machine, driver, starts, setup, given, fd, cache, tmp, content,
                         writers, last>>
        BY <1>2 DEF RenameFails, Goes, SetupTypes
    <2>1. SetupTypes'
        BY <2>0 DEF SetupTypes, Points, Saving, Options, Chosen
    <2>2. Progress'
        BY <2>0 DEF SetupTypes, Progress, Tag, Bare, Saving
    <2>3. \A o \in Clients : \/ startPc'[o] = startPc[o]
                             \/ startPc[o] = "rename" /\ startPc'[o] = "remove"
        BY <2>0 DEF SetupTypes
    <2>4. FilesKept'
        BY <2>0, <2>1, <2>3, FilesStay DEF SetupTypes
    <2> QED BY <2>1, <2>2, <2>4
<1>3. CASE RemoveCache(c)
    <2>0. /\ startPc[c] = "remove" /\ startPc' = [startPc EXCEPT ![c] = "again"]
          /\ cache' = NoInode
          /\ UNCHANGED <<machine, driver, starts, setup, given, fd, tmp, content,
                         writers, last, refused>>
        BY <1>3 DEF RemoveCache, Goes
    <2>1. SetupTypes'
        BY <2>0 DEF SetupTypes, Points, Saving, Options, Chosen
    <2>2. Progress'
        BY <2>0 DEF SetupTypes, Progress, Tag, Bare, Saving
    <2>3. \A o \in Clients : \/ startPc'[o] = startPc[o]
                             \/ startPc[o] = "remove" /\ startPc'[o] = "again"
        BY <2>0 DEF SetupTypes
    <2>4. FilesKept'
        BY <2>0, <2>1, <2>3, FilesStay DEF SetupTypes
    <2> QED BY <2>1, <2>2, <2>4
<1>4. CASE RenameAgain(c) /\ ~(tmp # NoInode /\ Placed(c))
    <2>0. /\ Ends(c) /\ UNCHANGED <<cache, tmp, content, writers, last>>
          /\ refused' \in BOOLEAN
        BY <1>4 DEF RenameAgain, SetupTypes
    <2>1. /\ UNCHANGED <<machine, driver, starts>>
          /\ startPc' \in [Clients -> Points] /\ setup' \in [Clients -> Options]
          /\ given' \in [Clients -> Data] /\ fd' \in [Clients -> Inodes \cup {NoInode}]
          /\ Progress'
          /\ \A o \in Clients :
                 IF o = c THEN fd'[o] = NoInode
                 ELSE /\ fd'[o] = fd[o] /\ setup'[o] = setup[o] /\ startPc'[o] = startPc[o]
        BY <2>0, EndsRight
    <2>2. SetupTypes'
        BY <2>0, <2>1 DEF SetupTypes, Options, Chosen
    <2>3. FilesKept'
        BY <2>0, <2>1, FilesStay
    <2> QED BY <2>1, <2>2, <2>3
<1>5. CASE RenameAgain(c) /\ tmp # NoInode /\ Placed(c)
    BY <1>5, PlacingRight DEF RenameAgain
<1> QED BY <1>1, <1>2, <1>3, <1>4, <1>5

LEMMA SetupInitInv == SetupInit => SetupInv
<1> SUFFICES ASSUME SetupInit PROVE SetupInv
    OBVIOUS
<1>1. SetupTypes
    <2>1. 0 \in 0..UpdateBound /\ 0 \in 0..StartBound
        BY SetupAssumption
    <2>2. <<>> \in Data /\ <<>> \in Options /\ "off" \in Points
        BY DEF Data, Options, Points, Bare
    <2> QED BY <2>1, <2>2 DEF SetupInit, SetupTypes
<1>2. Progress
    BY DEF SetupInit, Progress, Bare, Saving
<1>3. FilesKept
    BY DEF SetupInit, FilesKept
<1> QED BY <1>1, <1>2, <1>3 DEF SetupInv

LEMMA SetupInductive == SetupSpec => []SetupInv
<1>1. SetupInv /\ UpdateDriver => SetupInv'
    <2> SUFFICES ASSUME SetupInv, UpdateDriver PROVE SetupInv'
        OBVIOUS
    <2>1. /\ UNCHANGED <<machine, startPc, starts, setup, given, fd, cache, tmp, content,
                         writers, last, refused>>
          /\ driver' \in 0..UpdateBound
        BY SetupAssumption DEF UpdateDriver, disk, SetupInv, SetupTypes
    <2>2. SetupTypes'
        BY <2>1 DEF SetupInv, SetupTypes, Options, Chosen
    <2>3. Progress' /\ FilesKept'
        BY <2>1 DEF SetupInv, Progress, Tag, FilesKept, WrittenHere
    <2> QED BY <2>2, <2>3 DEF SetupInv
<1>2. SetupInv /\ UNCHANGED setupVars => SetupInv'
    <2> SUFFICES ASSUME SetupInv, UNCHANGED setupVars PROVE SetupInv'
        OBVIOUS
    <2>1. SetupTypes'
        BY DEF setupVars, SetupInv, SetupTypes, Options, Chosen
    <2>2. Progress' /\ FilesKept'
        BY DEF setupVars, SetupInv, Progress, Tag, FilesKept, WrittenHere
    <2> QED BY <2>1, <2>2 DEF SetupInv
<1>3. ASSUME SetupInv, NEW c \in Clients, ClientNext(c) PROVE SetupInv'
    BY <1>3, StartingRight, EndingRight, OpeningRight, WritingRight, RefusingRight
       DEF ClientNext
<1>4. SetupInv /\ [SetupNext]_setupVars => SetupInv'
    BY <1>1, <1>2, <1>3 DEF SetupNext
<1> QED BY <1>4, SetupInitInv, PTL DEF SetupSpec

\* A choice that was made, and the device it is of.
LEMMA ChoiceMade ==
    ASSUME SetupInv, NEW c \in Clients, setup[c] # <<>>
    PROVE  \E v, d :
              /\ d = machine[Pick(machine)] /\ Pick(machine) \in DOMAIN machine
              /\ IsDevice(d) /\ Fits(d) /\ setup[c] = Setup(d, v)
              /\ \A i \in 1..(Pick(machine) - 1) : ~Fits(machine[i])
<1> USE DEF SetupInv
<1>1. PICK v \in 0..UpdateBound : setup[c] = Chosen(v)
    BY DEF SetupTypes, Options
<1> DEFINE p == Pick(machine)
<1>2. /\ p \in DOMAIN machine /\ Suitable(machine[p])
      /\ \A i \in 1..(p - 1) : ~Suitable(machine[i])
    BY PickedDevice DEF SetupTypes, Progress
<1>3. \A i \in DOMAIN machine : IsDevice(machine[i])
    BY SetupAssumption DEF SetupTypes, ToSet
<1>4. DOMAIN machine = 1..Len(machine) /\ Len(machine) \in Nat
    BY SetupAssumption DEF SetupTypes
<1>5. \A i \in 1..(p - 1) : i \in DOMAIN machine
    BY <1>2, <1>4
<1>6. Fits(machine[p]) /\ \A i \in 1..(p - 1) : ~Fits(machine[i])
    BY <1>2, <1>3, <1>5, SuitableFits
<1> QED BY <1>1, <1>2, <1>3, <1>6 DEF Chosen

LEMMA PickRight == SetupInv => PickIsFirstFit
<1> SUFFICES ASSUME SetupInv, NEW c \in Clients
             PROVE  /\ startPc[c] = "no device" => \A i \in DOMAIN machine : ~Fits(machine[i])
                    /\ setup[c] # <<>> =>
                         \E i \in DOMAIN machine :
                            /\ setup[c].device = machine[i] /\ Fits(machine[i])
                            /\ \A j \in 1..i - 1 : ~Fits(machine[j])
                            /\ "graphics" \in machine[i].families[setup[c].graphics]
                            /\ "present" \in machine[i].families[setup[c].present]
    BY DEF PickIsFirstFit
<1>1. ASSUME startPc[c] = "no device" PROVE \A i \in DOMAIN machine : ~Fits(machine[i])
    <2>1. \A i \in DOMAIN machine : IsDevice(machine[i])
        BY SetupAssumption DEF SetupInv, SetupTypes, ToSet
    <2>2. Pick(machine) = 0
        BY <1>1 DEF SetupInv, Progress
    <2>3. \A i \in DOMAIN machine : ~Suitable(machine[i])
        BY <2>2, PickedDevice DEF SetupInv, SetupTypes
    <2> QED BY <2>1, <2>3, SuitableFits
<1>2. ASSUME setup[c] # <<>>
      PROVE  \E i \in DOMAIN machine :
                /\ setup[c].device = machine[i] /\ Fits(machine[i])
                /\ \A j \in 1..i - 1 : ~Fits(machine[j])
                /\ "graphics" \in machine[i].families[setup[c].graphics]
                /\ "present" \in machine[i].families[setup[c].present]
    <2>1. PICK v, d :
              /\ d = machine[Pick(machine)] /\ Pick(machine) \in DOMAIN machine
              /\ IsDevice(d) /\ Fits(d) /\ setup[c] = Setup(d, v)
              /\ \A i \in 1..(Pick(machine) - 1) : ~Fits(machine[i])
        BY <1>2, ChoiceMade
    <2>2. /\ setup[c].device = d /\ setup[c].graphics = Latest(d, "graphics")
          /\ setup[c].present = Latest(d, "present")
        BY <2>1, SetupFields
    <2>3. "graphics" \in d.families[setup[c].graphics] /\ "present" \in d.families[setup[c].present]
        BY <2>1, <2>2, QueuesFit
    <2> QED BY <2>1, <2>2, <2>3
<1> QED BY <1>1, <1>2

LEMMA SharedRight == SetupInv => SharedIfTheLastDoesBoth
<1> SUFFICES ASSUME SetupInv PROVE SharedIfTheLastDoesBoth
    OBVIOUS
<1>1. ASSUME NEW c \in Clients, setup[c] # <<>>
      PROVE  LET s == setup[c]
                 i == CHOOSE i \in Families(s.device) :
                        Completes(s.device, i) /\ \A j \in 1..i - 1 : ~Completes(s.device, j)
             IN  /\ s.shared <=> Both \subseteq s.device.families[i]
                 /\ i \in {s.graphics, s.present} /\ s.graphics <= i /\ s.present <= i
    <2>1. PICK v, d : IsDevice(d) /\ Fits(d) /\ setup[c] = Setup(d, v)
        BY <1>1, ChoiceMade
    <2> DEFINE g == Latest(d, "graphics")
               p == Latest(d, "present")
               i == CHOOSE i \in Families(d) :
                        Completes(d, i) /\ \A j \in 1..i - 1 : ~Completes(d, j)
    <2>2. /\ setup[c].device = d /\ setup[c].graphics = g /\ setup[c].present = p
          /\ setup[c].shared <=> (g = p)
        BY <2>1, SetupFields
    <2>3. PICK n \in Families(d) :
              /\ Completes(d, n) /\ \A j \in 1..(n - 1) : ~Completes(d, j)
              /\ g = p <=> Both \subseteq d.families[n]
              /\ n \in {g, p} /\ g \in 1..n /\ p \in 1..n
        BY <2>1, QueuesFit
    <2>4. Families(d) = 1..Len(d.families) /\ Len(d.families) \in Nat
        BY <2>1 DEF IsDevice, Families
    <2>5. i \in Families(d) /\ Completes(d, i) /\ \A j \in 1..(i - 1) : ~Completes(d, j)
        BY <2>3
    <2> HIDE DEF g, p, i
    <2>6. i = n
        <3>1. ~(i < n) /\ ~(n < i)
            BY <2>3, <2>4, <2>5
        <3> QED BY <2>4, <2>5, <3>1
    <2>7. /\ setup[c].shared <=> Both \subseteq d.families[i]
          /\ i \in {g, p} /\ g <= i /\ p <= i
        BY <2>2, <2>3, <2>4, <2>6
    <2> QED BY <2>2, <2>7 DEF i
<1> QED BY <1>1 DEF SharedIfTheLastDoesBoth, Completes, SeenBy, Both

LEMMA ImagesRight == SetupInv => ImageCountLegal
<1> SUFFICES ASSUME SetupInv, NEW c \in Clients, setup[c] # <<>>
             PROVE  LET d == setup[c].device IN
                    /\ setup[c].images >= d.minImages
                    /\ d.maxImages > 0 => setup[c].images <= d.maxImages
    BY DEF ImageCountLegal
<1>1. PICK v, d : IsDevice(d) /\ Fits(d) /\ setup[c] = Setup(d, v)
    BY ChoiceMade
<1>2. setup[c].device = d /\ setup[c].images = ImageCount(d)
    BY <1>1, SetupFields
<1> QED BY <1>1, <1>2, ImagesFit

LEMMA ShadowRight == SetupInv => ShadowFormatBest
<1> SUFFICES ASSUME SetupInv, NEW c \in Clients,
                    startPc[c] \in {"device", "running", "uncached"}
             PROVE  LET d == setup[c].device
                        s == setup[c].shadow
                    IN  /\ {"attachment", "sampled"} \subseteq d.depth[s.format]
                        /\ s.linear <=> "linear" \in d.depth[s.format]
                        /\ ~s.linear => \A i \in DOMAIN d.depth :
                             ~({"attachment", "sampled", "linear"} \subseteq d.depth[i])
    BY DEF ShadowFormatBest
<1>1. setup[c] # <<>> /\ setup[c].shadow.format # 0
    BY DEF SetupInv, Progress, Bare
<1>2. PICK v, d : IsDevice(d) /\ Fits(d) /\ setup[c] = Setup(d, v)
    BY <1>1, ChoiceMade
<1>3. setup[c].device = d /\ setup[c].shadow = ShadowFormat(d)
    BY <1>2, SetupFields
<1> QED BY <1>1, <1>2, <1>3, ShadowFits

LEMMA SaveStands == SetupInv => LastSaveStands
<1> SUFFICES ASSUME SetupInv, cache # NoInode, Cardinality(writers[cache]) = 1
             PROVE  content[cache] = <<last, last>>
    BY DEF LastSaveStands
<1>1. writers[cache] \in SUBSET Clients
    BY DEF SetupInv, SetupTypes
<1>2. IsFiniteSet(writers[cache])
    BY <1>1, SetupAssumption, FS_Subset
<1>3. PICK x : writers[cache] = {x}
    BY <1>2, FS_Singleton
<1> QED BY <1>1, <1>3 DEF SetupInv, FilesKept

\* On any machines and for any number of clients that share a directory: the
\* device, queues, images and shadow format chosen fit (device.cpp 201-231,
\* swapchain.cpp 68-96, shadow_map.cpp 41-64), and the pipeline cache a start
\* takes is for its device and driver, and whole unless two clients saved it at
\* once, whatever was killed, refused or updated in between (device.cpp 320-439).
THEOREM SetupAlwaysRight == SetupSpec => []SetupIsRight
<1>1. SetupInv => SetupTypeOK
    BY DEF SetupInv, SetupTypes, Progress, SetupTypeOK, Bare, Saving
<1>2. SetupInv => HeaderIsOurs
    BY DEF SetupInv, Progress, HeaderIsOurs
<1>3. SetupInv => SetupIsRight
    BY <1>1, <1>2, PickRight, SharedRight, ImagesRight, ShadowRight, SaveStands
       DEF SetupIsRight
<1> QED BY <1>3, SetupInductive, PTL

-----------------------------------------------------------------------------
(* TextureStore: shifts and levels.                                        *)

\* Induction over a set of numbers.
LEMMA FromZeroOn ==
    ASSUME NEW S, 0 \in S, \A k \in Nat : k \in S => k + 1 \in S
    PROVE  \A k \in Nat : k \in S
<1> DEFINE T == {k \in Nat : k \notin S}
<1>1. SUFFICES ASSUME T # {} PROVE FALSE
    OBVIOUS
<1>2. PICK x \in T : \A y \in T : x <= y
    BY <1>1, HasLeast
<1>3. x \in Nat /\ x \notin S /\ x # 0
    BY <1>2
<1>4. x - 1 \in Nat /\ x - 1 < x /\ (x - 1) + 1 = x
    BY <1>3
<1>5. x - 1 \in S
    BY <1>2, <1>4
<1> QED BY <1>3, <1>4, <1>5

LEMMA HalfOf ==
    ASSUME NEW n \in Nat
    PROVE  /\ n \div 2 \in Nat /\ 2 * (n \div 2) <= n /\ n <= 2 * (n \div 2) + 1
           /\ \A m \in Nat : m <= n => m \div 2 <= n \div 2
OBVIOUS

\* The function Shifted defines, as a set of pairs it must be.
Halves(n, k, f) == f = [i \in 0..k |-> IF i = 0 THEN n ELSE f[i - 1] \div 2]

LEMMA HalvesExist ==
    ASSUME NEW n \in Nat, NEW k \in Nat
    PROVE  \E f : Halves(n, k, f)
<1> DEFINE S == {l \in Nat : \E f : Halves(n, l, f)}
<1>1. 0 \in S
    <2> DEFINE f == [i \in 0..0 |-> n]
    <2>1. f = [i \in 0..0 |-> IF i = 0 THEN n ELSE f[i - 1] \div 2]
        OBVIOUS
    <2>2. Halves(n, 0, f)
        BY <2>1 DEF Halves
    <2> QED BY <2>2
<1>2. ASSUME NEW l \in Nat, l \in S PROVE l + 1 \in S
    <2>1. PICK f : Halves(n, l, f)
        BY <1>2
    <2> DEFINE g == [i \in 0..(l + 1) |-> IF i = l + 1 THEN f[l] \div 2 ELSE f[i]]
    <2>2. ASSUME NEW i \in 0..(l + 1)
          PROVE  g[i] = IF i = 0 THEN n ELSE g[i - 1] \div 2
        <3>1. \A j \in 0..l : f[j] = IF j = 0 THEN n ELSE f[j - 1] \div 2
            BY <2>1 DEF Halves
        <3>2. CASE i = l + 1
            BY <3>2
        <3>3. CASE i # l + 1
            <4>1. i \in 0..l /\ (i # 0 => i - 1 \in 0..(l + 1) /\ i - 1 # l + 1)
                BY <3>3
            <4> QED BY <3>1, <3>3, <4>1
        <3> QED BY <3>2, <3>3
    <2>3. Halves(n, l + 1, g)
        BY <2>2 DEF Halves
    <2> QED BY <2>3
<1> HIDE DEF S
<1>3. k \in S
    BY <1>1, <1>2, FromZeroOn
<1> QED BY <1>3 DEF S

LEMMA HalvesAgree ==
    ASSUME NEW n \in Nat, NEW k \in Nat, NEW l \in Nat, NEW f, NEW g,
           Halves(n, k, f), Halves(n, l, g), k <= l
    PROVE  \A i \in 0..k : f[i] = g[i]
<1>1. \A i \in 0..k : f[i] = IF i = 0 THEN n ELSE f[i - 1] \div 2
    BY DEF Halves
<1>2. \A i \in 0..l : g[i] = IF i = 0 THEN n ELSE g[i - 1] \div 2
    BY DEF Halves
<1> DEFINE S == {i \in Nat : i <= k => f[i] = g[i]}
<1>3. 0 \in S
    BY <1>1, <1>2
<1>4. ASSUME NEW i \in Nat, i \in S PROVE i + 1 \in S
    <2> SUFFICES ASSUME i + 1 <= k PROVE f[i + 1] = g[i + 1]
        OBVIOUS
    <2>1. i + 1 \in 0..k /\ i + 1 \in 0..l /\ i + 1 # 0 /\ (i + 1) - 1 = i /\ i <= k
        OBVIOUS
    <2>2. f[i] = g[i]
        BY <1>4, <2>1
    <2> QED BY <1>1, <1>2, <2>1, <2>2
<1> HIDE DEF S
<1>5. \A i \in Nat : i \in S
    BY <1>3, <1>4, FromZeroOn
<1> QED BY <1>5 DEF S

LEMMA ShiftedIs ==
    ASSUME NEW n \in Nat, NEW k \in Nat, NEW f, Halves(n, k, f)
    PROVE  Shifted(n, k) = f[k]
<1> DEFINE h == CHOOSE g : g = [i \in 0..k |-> IF i = 0 THEN n ELSE g[i - 1] \div 2]
<1>1. Shifted(n, k) = h[k]
    BY Zenon DEF Shifted
<1>2. h = [i \in 0..k |-> IF i = 0 THEN n ELSE h[i - 1] \div 2]
    BY Zenon DEF Halves
<1>3. Halves(n, k, h)
    BY <1>2, Zenon DEF Halves
<1> HIDE DEF h
<1>4. h[k] = f[k]
    <2>1. k \in 0..k /\ k <= k
        OBVIOUS
    <2> QED BY <1>3, <2>1, HalvesAgree
<1> QED BY <1>1, <1>4

LEMMA ShiftFacts ==
    ASSUME NEW n \in Nat
    PROVE  /\ Shifted(n, 0) = n
           /\ \A k \in Nat : Shifted(n, k + 1) = Shifted(n, k) \div 2
<1>1. Shifted(n, 0) = n
    <2>1. PICK f : Halves(n, 0, f)
        BY HalvesExist
    <2>2. Shifted(n, 0) = f[0]
        BY <2>1, ShiftedIs
    <2>3. f[0] = n
        BY <2>1 DEF Halves
    <2> QED BY <2>2, <2>3
<1>2. ASSUME NEW k \in Nat PROVE Shifted(n, k + 1) = Shifted(n, k) \div 2
    <2>1. PICK f : Halves(n, k + 1, f)
        BY HalvesExist
    <2>2. PICK g : Halves(n, k, g)
        BY HalvesExist
    <2>3. Shifted(n, k + 1) = f[k + 1] /\ Shifted(n, k) = g[k]
        BY <2>1, <2>2, ShiftedIs
    <2>4. f[k + 1] = f[k] \div 2
        <3>1. \A i \in 0..(k + 1) : f[i] = IF i = 0 THEN n ELSE f[i - 1] \div 2
            BY <2>1 DEF Halves
        <3>2. k + 1 \in 0..(k + 1) /\ k + 1 # 0 /\ (k + 1) - 1 = k
            OBVIOUS
        <3> QED BY <3>1, <3>2
    <2>5. \A i \in 0..k : g[i] = f[i]
        BY <2>1, <2>2, HalvesAgree, k <= k + 1
    <2> QED BY <2>3, <2>4, <2>5
<1> QED BY <1>1, <1>2

LEMMA ShiftIsNumber ==
    ASSUME NEW n \in Nat
    PROVE  \A k \in Nat : Shifted(n, k) \in Nat
<1> DEFINE S == {k \in Nat : Shifted(n, k) \in Nat}
<1>1. 0 \in S
    BY ShiftFacts
<1>2. ASSUME NEW k \in Nat, k \in S PROVE k + 1 \in S
    BY <1>2, ShiftFacts, HalfOf
<1> HIDE DEF S
<1>3. \A k \in Nat : k \in S
    BY <1>1, <1>2, FromZeroOn
<1> QED BY <1>3 DEF S

\* Shifting the half once less.
LEMMA ShiftOfHalf ==
    ASSUME NEW n \in Nat
    PROVE  \A k \in Nat : Shifted(n \div 2, k) = Shifted(n, k + 1)
<1>0. n \div 2 \in Nat
    BY HalfOf
<1> DEFINE S == {k \in Nat : Shifted(n \div 2, k) = Shifted(n, k + 1)}
<1>1. 0 \in S
    <2>1. Shifted(n \div 2, 0) = n \div 2
        BY <1>0, ShiftFacts
    <2>2. Shifted(n, 0 + 1) = n \div 2
        BY ShiftFacts
    <2> QED BY <2>1, <2>2
<1>2. ASSUME NEW k \in Nat, k \in S PROVE k + 1 \in S
    <2>1. Shifted(n \div 2, k + 1) = Shifted(n \div 2, k) \div 2
        BY <1>0, ShiftFacts
    <2>2. Shifted(n, (k + 1) + 1) = Shifted(n, k + 1) \div 2
        BY k + 1 \in Nat, ShiftFacts
    <2> QED BY <1>2, <2>1, <2>2
<1> HIDE DEF S
<1>3. \A k \in Nat : k \in S
    BY <1>1, <1>2, FromZeroOn
<1> QED BY <1>3 DEF S

LEMMA ShiftGrows ==
    ASSUME NEW m \in Nat, NEW n \in Nat, m <= n
    PROVE  \A k \in Nat : Shifted(m, k) <= Shifted(n, k)
<1> DEFINE S == {k \in Nat : Shifted(m, k) <= Shifted(n, k)}
<1>1. 0 \in S
    BY ShiftFacts
<1>2. ASSUME NEW k \in Nat, k \in S PROVE k + 1 \in S
    <2>1. Shifted(m, k) \in Nat /\ Shifted(n, k) \in Nat /\ Shifted(m, k) <= Shifted(n, k)
        BY <1>2, ShiftIsNumber
    <2>2. Shifted(m, k) \div 2 <= Shifted(n, k) \div 2
        BY <2>1, HalfOf
    <2>3. /\ Shifted(m, k + 1) = Shifted(m, k) \div 2
          /\ Shifted(n, k + 1) = Shifted(n, k) \div 2
        BY ShiftFacts
    <2> QED BY <2>2, <2>3
<1> HIDE DEF S
<1>3. \A k \in Nat : k \in S
    BY <1>1, <1>2, FromZeroOn
<1> QED BY <1>3 DEF S

\* Every number has a highest bit.
LEMMA HighestBit ==
    ASSUME NEW n \in Nat \ {0}
    PROVE  \E b \in 1..n : Shifted(n, b - 1) = 1
<1> DEFINE Has(m) == \E b \in 1..m : Shifted(m, b - 1) = 1
           S == {k \in Nat : \A m \in 1..k : Has(m)}
<1>1. 0 \in S
    OBVIOUS
<1>2. ASSUME NEW k \in Nat, k \in S PROVE k + 1 \in S
    <2> SUFFICES ASSUME TRUE PROVE Has(k + 1)
        BY <1>2
    <2>1. CASE k = 0
        <3>1. Shifted(1, 0) = 1
            BY ShiftFacts
        <3>2. 1 \in 1..(k + 1) /\ 1 - 1 = 0 /\ k + 1 = 1
            BY <2>1
        <3> QED BY <3>1, <3>2
    <2>2. CASE k # 0
        <3> DEFINE h == (k + 1) \div 2
        <3>1. h \in 1..k /\ h \in Nat
            BY <2>2
        <3>2. PICK b \in 1..h : Shifted(h, b - 1) = 1
            BY <1>2, <3>1
        <3>3. b - 1 \in Nat /\ b \in Nat /\ b + 1 \in 1..(k + 1) /\ (b - 1) + 1 = b
              /\ (b + 1) - 1 = b /\ k + 1 \in Nat
            BY <3>1, <3>2
        <3>4. Shifted(h, b - 1) = Shifted(k + 1, (b - 1) + 1)
            BY <3>3, ShiftOfHalf
        <3>5. Shifted(k + 1, (b + 1) - 1) = 1
            BY <3>2, <3>3, <3>4
        <3> QED BY <3>3, <3>5
    <2> QED BY <2>1, <2>2
<1>3. n \in S
    <2> HIDE DEF S
    <2> QED BY <1>1, <1>2, FromZeroOn
<1>4. n \in 1..n
    OBVIOUS
<1> QED BY <1>3, <1>4

LEMMA LevelsEnough ==
    ASSUME NEW s \in Extents
    PROVE  /\ MipLevels(s) \in Nat \ {0}
           /\ Extent(s, MipLevels(s) - 1) = <<1, 1>>
<1> DEFINE most == MaxOf(s[1], s[2])
           n == MipLevels(s)
<1>1. /\ s[1] \in Nat /\ s[2] \in Nat /\ most \in Nat \ {0}
      /\ s[1] <= most /\ s[2] <= most
    BY DEF Extents, MaxOf
<1> HIDE DEF most
<1>2. \E b \in 1..most : Shifted(most, b - 1) = 1
    BY <1>1, HighestBit
<1>3. n = CHOOSE b \in 1..most : Shifted(most, b - 1) = 1
    BY Zenon DEF MipLevels, most
<1>4. n \in 1..most /\ Shifted(most, n - 1) = 1
    BY <1>2, <1>3, Zenon
<1> HIDE DEF n
<1>5. n \in Nat \ {0} /\ n - 1 \in Nat
    BY <1>1, <1>4
<1>6. ASSUME NEW d \in {1, 2} PROVE Shifted(s[d], n - 1) \in Nat /\ Shifted(s[d], n - 1) <= 1
    <2>1. Shifted(s[d], n - 1) <= Shifted(most, n - 1)
        BY <1>1, <1>5, ShiftGrows
    <2>2. Shifted(s[d], n - 1) \in Nat
        BY <1>1, <1>5, ShiftIsNumber
    <2> QED BY <1>4, <2>1, <2>2
<1>7. MaxOf(1, Shifted(s[1], n - 1)) = 1 /\ MaxOf(1, Shifted(s[2], n - 1)) = 1
    BY <1>6 DEF MaxOf
<1>8. Extent(s, n - 1) = <<1, 1>>
    BY <1>7 DEF Extent
<1> QED BY <1>5, <1>8 DEF n

\* What the loop halves is what the device calls the next level.
LEMMA HalvedIsNext ==
    ASSUME NEW s \in Extents, NEW k \in Nat
    PROVE  Halved(Extent(s, k)) = Extent(s, k + 1)
<1>1. s[1] \in Nat /\ s[2] \in Nat
    BY DEF Extents
<1>2. ASSUME NEW n \in Nat
      PROVE  Half(MaxOf(1, Shifted(n, k))) = MaxOf(1, Shifted(n, k + 1))
    <2>1. Shifted(n, k) \in Nat /\ Shifted(n, k + 1) = Shifted(n, k) \div 2
        BY ShiftFacts, ShiftIsNumber
    <2> QED BY <2>1 DEF Half, MaxOf
<1>3. /\ Half(MaxOf(1, Shifted(s[1], k))) = MaxOf(1, Shifted(s[1], k + 1))
      /\ Half(MaxOf(1, Shifted(s[2], k))) = MaxOf(1, Shifted(s[2], k + 1))
    BY <1>1, <1>2
<1> QED BY <1>3 DEF Halved, Extent

LEMMA LevelZero == ASSUME NEW s \in Extents PROVE Extent(s, 0) = s
<1>1. s[1] \in Nat \ {0} /\ s[2] \in Nat \ {0} /\ s = <<s[1], s[2]>>
    BY DEF Extents
<1>2. Shifted(s[1], 0) = s[1] /\ Shifted(s[2], 0) = s[2]
    BY <1>1, ShiftFacts
<1>3. MaxOf(1, s[1]) = s[1] /\ MaxOf(1, s[2]) = s[2]
    BY <1>1 DEF MaxOf
<1> QED BY <1>1, <1>2, <1>3 DEF Extent

-----------------------------------------------------------------------------
(* TextureStore: the image being made.                                     *)

ImageTypes == [size : Extents, levels : Seq([layout : {"undefined", "dst", "src", "read"},
                                         data : {"none", "whole", "lost"}])]

Depth(j, s) == IF j.mips THEN MipLevels(s) ELSE 1

\* Level i of the image at each point of its making, mipmaps being at level k.
LevelAt(at, k, i) ==
    [layout |-> CASE at \in {"staging", "undefined"} -> "undefined"
                  [] at = "made" -> "read"
                  [] at = "mips" /\ i < k -> "read"
                  [] OTHER -> "dst",
     data |-> CASE at = "made" -> "whole"
                [] at = "copied" -> "whole"
                [] at = "mips" /\ i <= k -> "whole"
                [] OTHER -> "none"]

Picture(at, s, n, k) == [size |-> s, levels |-> [i \in 1..n |-> LevelAt(at, k, i)]]

Made(at) == at \in {"staging", "undefined", "dst", "copied", "mips", "made"}

Uploading ==
    \E s \in Extents : \E k \in 1..Depth(request, s) :
        /\ upload = Picture(loadPc, s, Depth(request, s), k)
        /\ loadPc = "mips" => mip = [i |-> k, extent |-> Extent(s, k - 1)]
        /\ loadPc = "copied" => Depth(request, s) = 1

InTheMaking ==
    /\ loadPc \in {"idle", "decode", "staging", "undefined", "dst", "copied", "mips", "made",
                   "failed"}
    /\ IF loadPc = "idle" THEN request = <<>> ELSE request \in Requests
    /\ IF Made(loadPc) THEN Uploading ELSE upload = <<>>
    /\ loadPc = "decode" => /\ request.kind \notin Fonts
                            /\ pixels \in Seq(Extents) /\ Len(pixels) < Len(request.files)
    /\ loadPc \notin {"decode", "staging"} => pixels = <<>>

Keys == {"texture", "cubemap"} \cup Fonts

LEMMA RequestFacts ==
    ASSUME NEW j \in Requests
    PROVE  /\ j # <<>> /\ j.kind \in Keys /\ j.mips \in BOOLEAN
           /\ j.kind \notin Fonts => j.files \in Seq(ImageFiles) /\ Len(j.files) >= 1
           /\ Key(j)[1] = j.kind
<1>1. CASE j \in {[kind |-> "texture", name |-> n, files |-> <<f>>, mips |-> b] :
                      n \in Names, f \in ImageFiles, b \in BOOLEAN}
    <2>1. PICK n \in Names, f \in ImageFiles, b \in BOOLEAN :
              j = [kind |-> "texture", name |-> n, files |-> <<f>>, mips |-> b]
        BY <1>1
    <2>2. j.kind = "texture" /\ j.files = <<f>> /\ j.mips = b /\ DOMAIN j # {}
        BY <2>1
    <2>3. <<f>> \in Seq(ImageFiles) /\ Len(<<f>>) = 1
        OBVIOUS
    <2>4. j # <<>>
        BY <2>2
    <2> QED BY <2>2, <2>3, <2>4 DEF Keys, Key
<1>2. CASE j \in {[kind |-> "cubemap", name |-> n, files |-> fs, mips |-> FALSE] :
                      n \in Names, fs \in [1..CubeFaces -> ImageFiles]}
    <2>1. PICK n \in Names, fs \in [1..CubeFaces -> ImageFiles] :
              j = [kind |-> "cubemap", name |-> n, files |-> fs, mips |-> FALSE]
        BY <1>2
    <2>2. j.kind = "cubemap" /\ j.files = fs /\ j.mips = FALSE /\ DOMAIN j # {}
        BY <2>1
    <2>3. fs \in Seq(ImageFiles) /\ Len(fs) = CubeFaces /\ CubeFaces >= 1
        BY StoreAssumption
    <2>4. j # <<>>
        BY <2>2
    <2> QED BY <2>2, <2>3, <2>4 DEF Keys, Key
<1>3. CASE j \in {[kind |-> k, name |-> n, files |-> <<>>, mips |-> FALSE] :
                      k \in Fonts, n \in Names}
    <2>1. PICK k \in Fonts, n \in Names :
              j = [kind |-> k, name |-> n, files |-> <<>>, mips |-> FALSE]
        BY <1>3
    <2>2. j.kind = k /\ j.mips = FALSE /\ DOMAIN j # {}
        BY <2>1
    <2>3. j # <<>>
        BY <2>2
    <2> QED BY <2>1, <2>2, <2>3 DEF Keys, Key
<1> QED BY <1>1, <1>2, <1>3 DEF Requests

LEMMA DepthIsNumber ==
    ASSUME NEW j, NEW s \in Extents
    PROVE  Depth(j, s) \in Nat \ {0}
BY LevelsEnough DEF Depth

LEMMA FreshPicture ==
    ASSUME NEW s \in Extents, NEW n \in Nat, NEW k, NEW at \in {"staging", "undefined"}
    PROVE  NewImage(s, n) = Picture(at, s, n, k)
<1>1. LevelAt(at, k, 1) = [layout |-> "undefined", data |-> "none"]
      /\ \A i \in 1..n : LevelAt(at, k, i) = [layout |-> "undefined", data |-> "none"]
    BY DEF LevelAt
<1> QED BY <1>1 DEF NewImage, Picture

\* What a barrier and the two writing commands leave.
LEMMA BarrierOn ==
    ASSUME NEW img, NEW s, NEW n \in Nat, NEW L, DOMAIN L = 1..n,
           img = [size |-> s, levels |-> L], NEW some, NEW from, NEW to
    PROVE  Barrier(img, some, from, to) =
               [size |-> s, levels |-> [i \in 1..n |-> IF i \in some
                                                       THEN Transitioned(L[i], from, to)
                                                       ELSE L[i]]]
BY DEF Barrier

LEMMA WrittenOn ==
    ASSUME NEW img, NEW s, NEW n \in Nat, NEW L, DOMAIN L = 1..n,
           img = [size |-> s, levels |-> L], NEW i \in 1..n,
           L[i] = [layout |-> "dst", data |-> "none"]
    PROVE  Written(img, i, "whole") =
               [size |-> s, levels |-> [j \in 1..n |-> IF j = i
                                                       THEN [layout |-> "dst", data |-> "whole"]
                                                       ELSE L[j]]]
<1>1. Written(img, i, "whole") = [size |-> s, levels |-> [L EXCEPT ![i].data = "whole"]]
    <2>1. img.levels = L
        OBVIOUS
    <2>2. Written(img, i, "whole") = [img EXCEPT !.levels = [img.levels EXCEPT ![i].data = "whole"]]
        BY DEF Written
    <2>3. \A M : [img EXCEPT !.levels = M] = [size |-> s, levels |-> M]
        OBVIOUS
    <2> QED BY <2>1, <2>2, <2>3, Zenon
<1>2. [L EXCEPT ![i].data = "whole"] = [L EXCEPT ![i] = [layout |-> "dst", data |-> "whole"]]
    <2>1. [L[i] EXCEPT !.data = "whole"] = [layout |-> "dst", data |-> "whole"]
        OBVIOUS
    <2>2. [L EXCEPT ![i].data = "whole"] = [L EXCEPT ![i] = [L[i] EXCEPT !.data = "whole"]]
        OBVIOUS
    <2> QED BY <2>1, <2>2
<1>3. [L EXCEPT ![i] = [layout |-> "dst", data |-> "whole"]]
          = [j \in 1..n |-> IF j = i THEN [layout |-> "dst", data |-> "whole"] ELSE L[j]]
    OBVIOUS
<1> QED BY <1>1, <1>2, <1>3

LEMMA PictureFacts ==
    ASSUME NEW at, NEW s, NEW n \in Nat, NEW k
    PROVE  LET img == Picture(at, s, n, k) IN
           /\ img.size = s /\ All(img) = 1..n /\ Len(img.levels) = n
           /\ \A i \in 1..n : img.levels[i] = LevelAt(at, k, i)
BY DEF Picture, All

LEMMA AllMoved ==
    ASSUME NEW at, NEW s, NEW n \in Nat, NEW k, NEW from, NEW to, NEW then, NEW l,
           \A i \in 1..n : Transitioned(LevelAt(at, k, i), from, to) = LevelAt(then, l, i)
    PROVE  LET img == Picture(at, s, n, k)
           IN  Barrier(img, All(img), from, to) = Picture(then, s, n, l)
<1> DEFINE img == Picture(at, s, n, k)
           L == [i \in 1..n |-> LevelAt(at, k, i)]
<1>1. img = [size |-> s, levels |-> L] /\ All(img) = 1..n /\ DOMAIN L = 1..n
    BY DEF Picture, All
<1>2. Barrier(img, 1..n, from, to) =
          [size |-> s, levels |-> [i \in 1..n |-> IF i \in 1..n
                                                  THEN Transitioned(L[i], from, to) ELSE L[i]]]
    <2> HIDE DEF img, L
    <2> QED BY <1>1, BarrierOn
<1>3. \A i \in 1..n : L[i] = LevelAt(at, k, i)
    OBVIOUS
<1> HIDE DEF img, L
<1>4. Barrier(img, 1..n, from, to) = Picture(then, s, n, l)
    BY <1>2, <1>3 DEF Picture
<1> QED BY <1>1, <1>4 DEF img

LEMMA FirstCopied ==
    ASSUME NEW s, NEW n \in Nat \ {0}, NEW k
    PROVE  /\ Copied(Picture("dst", s, n, k)) = Picture("mips", s, n, 1)
           /\ n = 1 => Copied(Picture("dst", s, n, k)) = Picture("copied", s, n, k)
<1> DEFINE img == Picture("dst", s, n, k)
           L == [i \in 1..n |-> LevelAt("dst", k, i)]
<1>1. img = [size |-> s, levels |-> L]
    BY DEF Picture
<1>2. L[1] = [layout |-> "dst", data |-> "none"] /\ 1 \in 1..n
    BY DEF LevelAt
<1>3. Copied(img) = Written(img, 1, "whole")
    <2>1. img.levels[1] = L[1]
        BY <1>1
    <2> HIDE DEF img, L
    <2> QED BY <1>2, <2>1 DEF Copied
<1> DEFINE M == [i \in 1..n |-> IF i = 1 THEN [layout |-> "dst", data |-> "whole"] ELSE L[i]]
<1>4. Written(img, 1, "whole") = [size |-> s, levels |-> M]
    <2>1. DOMAIN L = 1..n
        OBVIOUS
    <2> HIDE DEF img, L
    <2> QED BY <1>1, <1>2, <2>1, WrittenOn
<1>5. M = [i \in 1..n |-> LevelAt("mips", 1, i)]
    <2>1. \A i \in 1..n : IF i = 1 THEN LevelAt("mips", 1, i) = [layout |-> "dst", data |-> "whole"]
                          ELSE LevelAt("mips", 1, i) = LevelAt("dst", k, i)
        BY DEF LevelAt
    <2> QED BY <2>1
<1>6. ASSUME n = 1
      PROVE  M = [i \in 1..n |-> LevelAt("copied", k, i)]
    <2>1. \A i \in 1..n : i = 1 /\ LevelAt("copied", k, i) = [layout |-> "dst", data |-> "whole"]
        BY <1>6 DEF LevelAt
    <2> QED BY <2>1
<1> HIDE DEF M, img
<1> QED BY <1>3, <1>4, <1>5, <1>6 DEF Picture, img

\* One turn of the loop finishes level k and fills level k + 1.
LEMMA LevelDone ==
    ASSUME NEW s \in Extents, NEW n \in Nat, NEW k \in 1..n, k < n
    PROVE  Barrier(Blit(Barrier(Picture("mips", s, n, k), {k}, "dst", "src"), k, Extent(s, k - 1)),
                   {k}, "src", "read")
               = Picture("mips", s, n, k + 1)
<1> DEFINE L == [i \in 1..n |-> LevelAt("mips", k, i)]
           A == [i \in 1..n |-> IF i = k THEN [layout |-> "src", data |-> "whole"] ELSE L[i]]
           B == [i \in 1..n |-> IF i = k + 1 THEN [layout |-> "dst", data |-> "whole"] ELSE A[i]]
           C == [i \in 1..n |-> IF i = k THEN [layout |-> "read", data |-> "whole"] ELSE B[i]]
           first == Barrier(Picture("mips", s, n, k), {k}, "dst", "src")
           second == Blit(first, k, Extent(s, k - 1))
<1>0. k \in Nat /\ k + 1 \in 1..n /\ k # k + 1 /\ k - 1 \in Nat /\ (k - 1) + 1 = k
    OBVIOUS
<1>1. /\ L[k] = [layout |-> "dst", data |-> "whole"]
      /\ L[k + 1] = [layout |-> "dst", data |-> "none"]
    BY <1>0 DEF LevelAt
<1>2. first = [size |-> s, levels |-> A]
    <2>1. Picture("mips", s, n, k) = [size |-> s, levels |-> L] /\ DOMAIN L = 1..n
        BY DEF Picture
    <2>2. first = [size |-> s, levels |-> [i \in 1..n |-> IF i \in {k}
                                                          THEN Transitioned(L[i], "dst", "src")
                                                          ELSE L[i]]]
        <3> HIDE DEF L
        <3> QED BY <2>1, BarrierOn
    <2>3. Transitioned(L[k], "dst", "src") = [layout |-> "src", data |-> "whole"]
        BY <1>1 DEF Transitioned
    <2> HIDE DEF L
    <2> QED BY <2>2, <2>3
<1>3. second = [size |-> s, levels |-> B]
    <2>1. /\ first.size = s /\ first.levels[k] = [layout |-> "src", data |-> "whole"]
          /\ first.levels[k + 1] = [layout |-> "dst", data |-> "none"]
        <3> HIDE DEF first, L
        <3> QED BY <1>0, <1>1, <1>2
    <2>2. Halved(Extent(s, k - 1)) = Extent(s, k)
        BY <1>0, HalvedIsNext
    <2>3. second = Written(first, k + 1, "whole")
        <3> HIDE DEF first
        <3> QED BY <2>1, <2>2 DEF Blit
    <2>4. Written(first, k + 1, "whole") = [size |-> s, levels |-> B]
        <3>1. DOMAIN A = 1..n /\ A[k + 1] = [layout |-> "dst", data |-> "none"]
            <4> HIDE DEF L
            <4> QED BY <1>0, <1>1
        <3>2. k + 1 \in 1..n
            BY <1>0
        <3>3. n \in Nat
            OBVIOUS
        <3>4. ASSUME NEW i \in 1..n, NEW F, NEW img, DOMAIN F = 1..n,
                     img = [size |-> s, levels |-> F],
                     F[i] = [layout |-> "dst", data |-> "none"]
              PROVE  Written(img, i, "whole") =
                         [size |-> s,
                          levels |-> [j \in 1..n |-> IF j = i
                                                     THEN [layout |-> "dst", data |-> "whole"]
                                                     ELSE F[j]]]
            BY <3>3, <3>4, WrittenOn
        <3> HIDE DEF first, A
        <3> QED BY <1>2, <3>1, <3>2, <3>4
    <2> QED BY <2>3, <2>4
<1>4. Barrier(second, {k}, "src", "read") = [size |-> s, levels |-> C]
    <2>1. DOMAIN B = 1..n
        OBVIOUS
    <2>2. B[k] = [layout |-> "src", data |-> "whole"]
        BY <1>0
    <2>3. Barrier(second, {k}, "src", "read") =
              [size |-> s, levels |-> [i \in 1..n |-> IF i \in {k}
                                                      THEN Transitioned(B[i], "src", "read")
                                                      ELSE B[i]]]
        <3> HIDE DEF second, B
        <3> QED BY <1>3, <2>1, BarrierOn
    <2>4. Transitioned(B[k], "src", "read") = [layout |-> "read", data |-> "whole"]
        BY <2>2 DEF Transitioned
    <2> HIDE DEF B, second
    <2> QED BY <2>3, <2>4
<1>5. \A i \in 1..n : C[i] = LevelAt("mips", k + 1, i)
    <2> TAKE i \in 1..n
    <2>1. CASE i = k
        BY <1>0, <2>1 DEF LevelAt
    <2>2. CASE i = k + 1
        BY <1>0, <2>2 DEF LevelAt
    <2>3. CASE i # k /\ i # k + 1
        <3>1. C[i] = LevelAt("mips", k, i)
            BY <2>3
        <3>2. (i < k <=> i < k + 1) /\ (i <= k <=> i <= k + 1)
            BY <2>3
        <3> QED BY <3>1, <3>2 DEF LevelAt
    <2> QED BY <2>1, <2>2, <2>3
<1> HIDE DEF C, second
<1>6. C = [i \in 1..n |-> LevelAt("mips", k + 1, i)]
    <2> USE DEF C
    <2> HIDE DEF B
    <2> QED BY <1>5
<1> QED BY <1>4, <1>6 DEF Picture, second, first

LEMMA LastMoved ==
    ASSUME NEW s, NEW n \in Nat \ {0}, NEW l
    PROVE  Barrier(Picture("mips", s, n, n), {n}, "dst", "read") = Picture("made", s, n, l)
<1> DEFINE L == [i \in 1..n |-> LevelAt("mips", n, i)]
<1>1. Picture("mips", s, n, n) = [size |-> s, levels |-> L] /\ DOMAIN L = 1..n
    BY DEF Picture
<1>2. Barrier(Picture("mips", s, n, n), {n}, "dst", "read") =
          [size |-> s, levels |-> [i \in 1..n |-> IF i \in {n}
                                                  THEN Transitioned(L[i], "dst", "read")
                                                  ELSE L[i]]]
    <2> HIDE DEF L
    <2> QED BY <1>1, BarrierOn
<1>3. \A i \in 1..n : IF i \in {n} THEN Transitioned(L[i], "dst", "read") = LevelAt("made", l, i)
                      ELSE L[i] = LevelAt("made", l, i)
    BY DEF LevelAt, Transitioned
<1> HIDE DEF L
<1> QED BY <1>2, <1>3 DEF Picture

-----------------------------------------------------------------------------
(* TextureStore: indices, slots and names.                                 *)

Filled == [image : ImageTypes, job : Requests]
Bins == {"texture", "cubemap"}

Tables ==
    /\ arrays \in [Bins -> Seq(Filled)] /\ bound = arrays
    /\ \A kind \in Bins : \A a \in DOMAIN arrays[kind] :
          LET slot == arrays[kind][a]
              key  == Key(slot.job)
          IN  /\ slot.image = Picture("made", slot.image.size,
                                      Depth(slot.job, slot.image.size), 1)
              /\ Array(slot.job.kind) = kind
              /\ key \in DOMAIN indices /\ indices[key] = a - 1
              /\ slot.job.files = asked[key]
    /\ \A k \in DOMAIN indices :
          /\ indices[k] \in 0..Len(arrays[Array(k[1])]) - 1
          /\ Key(arrays[Array(k[1])][indices[k] + 1].job) = k
    /\ IF loadPc = "idle" THEN DOMAIN asked = DOMAIN indices
       ELSE /\ DOMAIN asked = DOMAIN indices \cup {Key(request)}
            /\ Key(request) \notin DOMAIN indices
            /\ asked[Key(request)] = request.files

StoreInv == requests \in 0..RequestBound /\ InTheMaking /\ Tables

LEMMA StoreInitInv == StoreInit => StoreInv
<1> SUFFICES ASSUME StoreInit PROVE StoreInv
    OBVIOUS
<1>1. InTheMaking /\ requests \in 0..RequestBound
    BY StoreAssumption DEF StoreInit, InTheMaking, Made
<1>2. Tables
    <2>1. <<>> \in Seq(Filled) /\ arrays = [kind \in Bins |-> <<>>] /\ bound = arrays
        BY DEF StoreInit, Bins
    <2>2. \A kind \in Bins : DOMAIN arrays[kind] = {}
        BY <2>1
    <2>3. DOMAIN indices = {} /\ DOMAIN asked = {} /\ loadPc = "idle"
        BY DEF StoreInit
    <2> QED BY <2>1, <2>2, <2>3 DEF Tables
<1> QED BY <1>1, <1>2 DEF StoreInv

\* What the steps between a request and its slot leave alone.
LEMMA TablesStay ==
    ASSUME Tables, UNCHANGED held, request' = request, loadPc # "idle", loadPc' # "idle"
    PROVE  Tables'
BY DEF Tables, held

LEMMA RequestStep ==
    ASSUME StoreInv, NEW j \in Requests, Request(j)
    PROVE  StoreInv'
<1> USE DEF StoreInv
<1>0. /\ loadPc = "idle" /\ requests < RequestBound /\ requests' = requests + 1
      /\ UNCHANGED <<pixels, mip, arrays, bound, indices>>
      /\ pixels = <<>> /\ upload = <<>> /\ request = <<>>
    BY DEF Request, InTheMaking, Made
<1>1. requests' \in 0..RequestBound
    BY <1>0, StoreAssumption
<1>2. CASE Known(j)
    <2>1. UNCHANGED <<loadPc, request, upload, asked>>
        BY <1>2 DEF Request
    <2>2. InTheMaking'
        BY <1>0, <2>1 DEF InTheMaking, Made
    <2>3. Tables'
        BY <1>0, <2>1 DEF Tables
    <2> QED BY <1>1, <2>2, <2>3
<1>3. CASE ~Known(j)
    <2>1. /\ request' = j
          /\ IF j.kind \in Fonts
             THEN loadPc' = "undefined" /\ upload' = NewImage(AtlasSize, 1)
             ELSE loadPc' = "decode" /\ UNCHANGED upload
          /\ asked' = IF Key(j) \in DOMAIN asked THEN asked
                      ELSE [k \in DOMAIN asked \cup {Key(j)} |->
                               IF k = Key(j) THEN j.files ELSE asked[k]]
        BY <1>3 DEF Request
    <2>2. Key(j) \notin DOMAIN indices /\ DOMAIN asked = DOMAIN indices
        BY <1>0, <1>3 DEF Known, Tables
    <2>3. asked' = [k \in DOMAIN asked \cup {Key(j)} |->
                       IF k = Key(j) THEN j.files ELSE asked[k]]
        BY <2>1, <2>2
    <2>4. InTheMaking'
        <3>1. CASE j.kind \in Fonts
            <4>1. j.mips = FALSE
                BY <3>1 DEF Requests, Fonts
            <4>2. AtlasSize \in Extents /\ Depth(j, AtlasSize) = 1
                BY <4>1, StoreAssumption DEF Depth
            <4>3. upload' = Picture("undefined", AtlasSize, 1, 1)
                BY <2>1, <3>1, <4>2, FreshPicture
            <4>4. Uploading'
                BY <2>1, <3>1, <4>2, <4>3 DEF Uploading
            <4> QED BY <1>0, <2>1, <3>1, <4>4 DEF InTheMaking, Made
        <3>2. CASE j.kind \notin Fonts
            <4>1. Len(j.files) >= 1
                BY <3>2, RequestFacts
            <4>2. <<>> \in Seq(Extents) /\ Len(<<>>) = 0
                OBVIOUS
            <4>3. Len(pixels') < Len(request'.files) /\ pixels' \in Seq(Extents)
                BY <1>0, <2>1, <4>1, <4>2, RequestFacts, <3>2
            <4> QED BY <1>0, <2>1, <3>2, <4>3 DEF InTheMaking, Made
        <3> QED BY <3>1, <3>2
    <2>5. Tables'
        <3>1. loadPc' # "idle"
            BY <2>1
        <3>2. \A k \in DOMAIN indices : asked'[k] = asked[k]
            BY <2>2, <2>3
        <3>3. DOMAIN asked' = DOMAIN indices \cup {Key(j)} /\ asked'[Key(j)] = j.files
            BY <2>2, <2>3
        <3> QED BY <1>0, <2>1, <2>2, <3>1, <3>2, <3>3 DEF Tables
    <2> QED BY <1>1, <2>4, <2>5
<1> QED BY <1>2, <1>3

LEMMA DecodeStep ==
    ASSUME StoreInv, Decode
    PROVE  StoreInv'
<1> DEFINE this == Size[request.files[Len(pixels) + 1]]
           now  == Append(pixels, this)
<1>0. /\ loadPc = "decode" /\ request \in Requests /\ request.kind \notin Fonts
      /\ pixels \in Seq(Extents) /\ Len(pixels) < Len(request.files) /\ upload = <<>>
      /\ requests' = requests /\ request' = request /\ UNCHANGED held
    BY DEF StoreInv, InTheMaking, Decode, Made
<1>1. this = <<>> \/ this \in Extents
    <2>1. request.files \in Seq(ImageFiles) /\ Len(pixels) \in Nat
        BY <1>0, RequestFacts
    <2>2. Len(pixels) + 1 \in 1..Len(request.files)
        BY <1>0, <2>1
    <2>3. request.files[Len(pixels) + 1] \in ImageFiles
        BY <2>1, <2>2
    <2> QED BY <2>3, StoreAssumption
<1>2. IF this = <<>> THEN loadPc' = "failed" /\ pixels' = <<>> /\ UNCHANGED upload
      ELSE IF this # now[1] THEN loadPc' = "failed" /\ pixels' = <<>> /\ UNCHANGED upload
      ELSE /\ pixels' = now
           /\ IF Len(now) < Len(request.files) THEN UNCHANGED <<loadPc, upload>>
              ELSE /\ loadPc' = "staging"
                   /\ upload' = NewImage(this, IF request.mips THEN MipLevels(this) ELSE 1)
    BY DEF Decode, Freed
<1>3. this \in Extents => now \in Seq(Extents)
    BY <1>0, AppendProperties
<1> HIDE DEF this, now
<1>4. InTheMaking' /\ loadPc' # "idle"
    <2>1. CASE this = <<>> \/ this # now[1]
        BY <1>0, <1>2, <2>1 DEF InTheMaking, Made
    <2>2. CASE this # <<>> /\ this = now[1] /\ Len(now) < Len(request.files)
        BY <1>0, <1>1, <1>2, <1>3, <2>2 DEF InTheMaking, Made
    <2>3. CASE this # <<>> /\ this = now[1] /\ ~(Len(now) < Len(request.files))
        <3>1. /\ loadPc' = "staging" /\ this \in Extents
              /\ upload' = NewImage(this, Depth(request, this))
            BY <1>1, <1>2, <2>3 DEF Depth
        <3>2. Depth(request, this) \in Nat \ {0}
            BY <3>1, DepthIsNumber
        <3>3. upload' = Picture("staging", this, Depth(request, this), 1)
            BY <3>1, <3>2, FreshPicture
        <3>4. Uploading'
            BY <1>0, <3>1, <3>2, <3>3 DEF Uploading
        <3> QED BY <1>0, <3>1, <3>4 DEF InTheMaking, Made
    <2> QED BY <2>1, <2>2, <2>3
<1>5. Tables'
    BY <1>0, <1>4, TablesStay DEF StoreInv
<1> QED BY <1>0, <1>4, <1>5 DEF StoreInv

\* The steps that go through the image's levels.
LEMMA MakingStep ==
    ASSUME StoreInv,
           Stage \/ ToTransferDst \/ CopyBufferToImage \/ ToShaderRead \/ MipLevel \/ MipsEnd
    PROVE  StoreInv'
<1>1. /\ Made(loadPc) /\ Made(loadPc') /\ loadPc \notin {"decode", "failed", "idle"}
      /\ UNCHANGED <<requests, request>> /\ UNCHANGED held
      /\ pixels' = <<>> \/ (UNCHANGED pixels /\ loadPc # "staging")
    BY DEF Stage, ToTransferDst, CopyBufferToImage, ToShaderRead, MipLevel, MipsEnd, Made
<1>2. /\ Uploading /\ request \in Requests /\ request.mips \in BOOLEAN
      /\ loadPc # "staging" => pixels = <<>>
    BY <1>1, RequestFacts DEF StoreInv, InTheMaking
<1>10. PICK s \in Extents : \E k \in 1..Depth(request, s) :
        /\ upload = Picture(loadPc, s, Depth(request, s), k)
        /\ loadPc = "mips" => mip = [i |-> k, extent |-> Extent(s, k - 1)]
        /\ loadPc = "copied" => Depth(request, s) = 1
    BY <1>2 DEF Uploading
<1>3. PICK k \in 1..Depth(request, s) :
        /\ upload = Picture(loadPc, s, Depth(request, s), k)
        /\ loadPc = "mips" => mip = [i |-> k, extent |-> Extent(s, k - 1)]
        /\ loadPc = "copied" => Depth(request, s) = 1
    BY <1>10
<1> DEFINE n == Depth(request, s)
<1>4. n \in Nat \ {0} /\ upload.size = s /\ All(upload) = 1..n /\ Len(upload.levels) = n
    <2>1. n \in Nat \ {0}
        BY DepthIsNumber
    <2>2. upload = Picture(loadPc, s, n, k)
        BY <1>3
    <2> HIDE DEF n
    <2> QED BY <2>1, <2>2, PictureFacts
<1> HIDE DEF n
<1>5. \E l \in 1..n :
        /\ upload' = Picture(loadPc', s, n, l)
        /\ loadPc' = "mips" => mip' = [i |-> l, extent |-> Extent(s, l - 1)]
        /\ loadPc' = "copied" => n = 1
    <2>0. upload = Picture(loadPc, s, n, k) /\ k \in 1..n
        BY <1>3 DEF n
    <2>1. CASE Stage
        <3>1. Picture("staging", s, n, k) = Picture("undefined", s, n, k)
            BY DEF Picture, LevelAt
        <3> QED BY <2>0, <2>1, <3>1 DEF Stage
    <2>2. CASE ToTransferDst
        <3>1. \A i \in 1..n : Transitioned(LevelAt("undefined", k, i), "undefined", "dst")
                              = LevelAt("dst", k, i)
            BY DEF Transitioned, LevelAt
        <3>2. Barrier(upload, All(upload), "undefined", "dst") = Picture("dst", s, n, k)
            BY <1>4, <2>0, <2>2, <3>1, AllMoved DEF ToTransferDst
        <3> QED BY <2>0, <2>2, <3>2 DEF ToTransferDst
    <2>3. CASE CopyBufferToImage
        <3>1. loadPc = "dst" /\ upload' = Copied(Picture("dst", s, n, k))
            BY <2>0, <2>3 DEF CopyBufferToImage
        <3>2. CASE request.mips
            <4>1. loadPc' = "mips" /\ mip' = [i |-> 1, extent |-> s]
                BY <1>4, <2>3, <3>2 DEF CopyBufferToImage
            <4>2. upload' = Picture("mips", s, n, 1) /\ Extent(s, 1 - 1) = s /\ 1 \in 1..n
                BY <1>4, <3>1, FirstCopied, LevelZero
            <4> QED BY <4>1, <4>2
        <3>3. CASE ~request.mips
            <4>1. loadPc' = "copied" /\ n = 1
                BY <2>3, <3>3 DEF CopyBufferToImage, Depth, n
            <4>2. upload' = Picture("copied", s, n, k)
                BY <1>4, <3>1, <4>1, FirstCopied
            <4> QED BY <2>0, <4>1, <4>2
        <3> QED BY <3>2, <3>3
    <2>4. CASE ToShaderRead
        <3>1. \A i \in 1..n : Transitioned(LevelAt("copied", k, i), "dst", "read")
                              = LevelAt("made", k, i)
            BY DEF Transitioned, LevelAt
        <3>2. Barrier(upload, All(upload), "dst", "read") = Picture("made", s, n, k)
            BY <1>4, <2>0, <2>4, <3>1, AllMoved DEF ToShaderRead
        <3> QED BY <2>0, <2>4, <3>2 DEF ToShaderRead
    <2>5. CASE MipLevel
        <3>1. /\ loadPc = "mips" /\ loadPc' = "mips" /\ mip.i = k /\ mip.extent = Extent(s, k - 1)
              /\ k < n /\ mip' = [i |-> k + 1, extent |-> Halved(Extent(s, k - 1))]
              /\ upload' = Barrier(Blit(Barrier(Picture("mips", s, n, k), {k}, "dst", "src"),
                                        k, Extent(s, k - 1)), {k}, "src", "read")
            <4>1. loadPc = "mips" /\ loadPc' = "mips"
                BY <2>5 DEF MipLevel
            <4>2. mip.i = k /\ mip.extent = Extent(s, k - 1)
                BY <1>3, <4>1
            <4>3. /\ mip.i < Len(upload.levels)
                  /\ upload' = Barrier(Blit(Barrier(upload, {mip.i}, "dst", "src"), mip.i, mip.extent),
                                       {mip.i}, "src", "read")
                  /\ mip' = [i |-> mip.i + 1, extent |-> Halved(mip.extent)]
                BY <2>5 DEF MipLevel
            <4> QED BY <1>4, <2>0, <4>1, <4>2, <4>3
        <3>2. upload' = Picture("mips", s, n, k + 1)
            BY <1>4, <2>0, <3>1, LevelDone
        <3>3. k - 1 \in Nat /\ (k - 1) + 1 = k /\ k + 1 \in 1..n /\ (k + 1) - 1 = k
            BY <1>4, <2>0, <3>1
        <3>4. Halved(Extent(s, k - 1)) = Extent(s, k)
            BY <3>3, HalvedIsNext
        <3> QED BY <3>1, <3>2, <3>3, <3>4
    <2>6. CASE MipsEnd
        <3>1. loadPc = "mips" /\ loadPc' = "made" /\ k = n
              /\ upload' = Barrier(upload, {n}, "dst", "read")
            BY <1>3, <1>4, <2>6 DEF MipsEnd
        <3>2. upload' = Picture("made", s, n, k)
            BY <1>4, <2>0, <3>1, LastMoved
        <3> QED BY <2>0, <3>1, <3>2
    <2> QED BY <2>1, <2>2, <2>3, <2>4, <2>5, <2>6
<1>6. Uploading'
    BY <1>1, <1>5 DEF Uploading, n
<1>7. InTheMaking'
    <2>1. loadPc' \notin {"decode", "staging", "idle", "failed"}
        BY DEF Stage, ToTransferDst, CopyBufferToImage, ToShaderRead, MipLevel, MipsEnd
    <2> QED BY <1>1, <1>2, <1>6, <2>1 DEF InTheMaking, Made
<1>8. Tables'
    <2>1. loadPc' # "idle"
        BY <1>1 DEF Made
    <2> QED BY <1>1, <2>1, TablesStay DEF StoreInv
<1> QED BY <1>1, <1>7, <1>8 DEF StoreInv

LEMMA Appended ==
    ASSUME NEW S, NEW q \in Seq(S), NEW e \in S
    PROVE  /\ Append(q, e) \in Seq(S) /\ Len(Append(q, e)) = Len(q) + 1
           /\ Append(q, e)[Len(q) + 1] = e
           /\ \A a \in DOMAIN q : Append(q, e)[a] = q[a]
           /\ DOMAIN Append(q, e) = DOMAIN q \cup {Len(q) + 1}
           /\ Len(q) \in Nat /\ DOMAIN q = 1..Len(q)
<1>1. /\ Append(q, e) \in Seq(S) /\ Len(Append(q, e)) = Len(q) + 1
      /\ Append(q, e)[Len(q) + 1] = e
      /\ \A a \in 1..Len(q) : Append(q, e)[a] = q[a]
    BY AppendProperties
<1>2. Len(q) \in Nat /\ DOMAIN q = 1..Len(q)
    OBVIOUS
<1>3. DOMAIN Append(q, e) = 1..(Len(q) + 1)
    BY <1>1
<1>4. 1..(Len(q) + 1) = 1..Len(q) \cup {Len(q) + 1}
    BY <1>2
<1> QED BY <1>1, <1>2, <1>3, <1>4

LEMMA PublishStep ==
    ASSUME StoreInv, Publish
    PROVE  StoreInv'
<1> DEFINE bin  == Array(request.kind)
           slot == [image |-> upload, job |-> request]
           now  == Append(arrays[bin], slot)
           key  == Key(request)
<1>0. /\ loadPc = "made" /\ loadPc' = "idle" /\ request' = <<>> /\ upload' = <<>>
      /\ UNCHANGED <<requests, pixels, mip, asked>>
      /\ arrays' = [arrays EXCEPT ![bin] = now] /\ bound' = [bound EXCEPT ![bin] = now]
      /\ indices' = [k \in DOMAIN indices \cup {key} |->
                        IF k = key THEN Len(arrays[bin]) ELSE indices[k]]
    BY DEF Publish, PutLast
<1>1. /\ request \in Requests /\ Uploading /\ pixels = <<>> /\ requests \in 0..RequestBound
    BY <1>0 DEF StoreInv, InTheMaking, Made
<1>2. PICK s \in Extents : \E k \in 1..Depth(request, s) :
                               upload = Picture("made", s, Depth(request, s), k)
    BY <1>0, <1>1 DEF Uploading
<1>3. /\ upload.size = s /\ upload = Picture("made", s, Depth(request, s), 1)
      /\ upload \in ImageTypes
    <2>1. \A k, i : LevelAt("made", k, i) = [layout |-> "read", data |-> "whole"]
        BY DEF LevelAt
    <2>2. \A k : Picture("made", s, Depth(request, s), k) = Picture("made", s, Depth(request, s), 1)
        BY <2>1 DEF Picture
    <2>3. upload = Picture("made", s, Depth(request, s), 1)
        BY <1>2, <2>2
    <2>4. Picture("made", s, Depth(request, s), 1)
              = [size |-> s, levels |-> [i \in 1..Depth(request, s) |->
                                            [layout |-> "read", data |-> "whole"]]]
        BY <2>1 DEF Picture
    <2>5. Depth(request, s) \in Nat
        BY DepthIsNumber
    <2> DEFINE States == [layout : {"undefined", "dst", "src", "read"},
                          data : {"none", "whole", "lost"}]
               readable == [layout |-> "read", data |-> "whole"]
    <2>6. readable \in States
        OBVIOUS
    <2>7. [i \in 1..Depth(request, s) |-> readable] \in Seq(States)
        <3> HIDE DEF States, readable
        <3> QED BY <2>5, <2>6
    <2>8. [size |-> s, levels |-> [i \in 1..Depth(request, s) |-> readable]]
              \in [size : Extents, levels : Seq(States)]
        <3> HIDE DEF States, readable
        <3> QED BY <2>7
    <2>9. upload.size = s
        BY <2>3, <2>4
    <2> QED BY <2>3, <2>4, <2>8, <2>9 DEF ImageTypes
<1>4. /\ bin \in Bins /\ key[1] = request.kind /\ slot \in Filled
      /\ slot.image = upload /\ slot.job = request
    BY <1>1, <1>3, RequestFacts DEF Bins, Array, Filled
<1>5. /\ arrays \in [Bins -> Seq(Filled)] /\ bound = arrays
      /\ key \notin DOMAIN indices /\ asked[key] = request.files
      /\ DOMAIN asked = DOMAIN indices \cup {key}
    BY <1>0 DEF StoreInv, Tables
<1>6. /\ now \in Seq(Filled) /\ now[Len(arrays[bin]) + 1] = slot
      /\ \A a \in DOMAIN arrays[bin] : now[a] = arrays[bin][a]
      /\ DOMAIN now = DOMAIN arrays[bin] \cup {Len(arrays[bin]) + 1}
      /\ Len(arrays[bin]) \in Nat /\ DOMAIN arrays[bin] = 1..Len(arrays[bin])
      /\ Len(now) = Len(arrays[bin]) + 1
    <2>1. arrays[bin] \in Seq(Filled)
        BY <1>4, <1>5
    <2> HIDE DEF slot, bin
    <2> QED BY <1>4, <2>1, Appended
<1>7. /\ arrays' \in [Bins -> Seq(Filled)] /\ bound' = arrays' /\ arrays'[bin] = now
      /\ \A kind \in Bins : kind # bin => arrays'[kind] = arrays[kind]
    <2> HIDE DEF now, bin
    <2> QED BY <1>0, <1>4, <1>5, <1>6
<1>8. /\ DOMAIN indices' = DOMAIN indices \cup {key} /\ indices'[key] = Len(arrays[bin])
      /\ \A k \in DOMAIN indices : indices'[k] = indices[k]
    BY <1>0, <1>5
<1> HIDE DEF now, bin, key
<1>9. ASSUME NEW kind \in Bins, NEW a \in DOMAIN arrays'[kind]
      PROVE  /\ arrays'[kind][a].image = Picture("made", arrays'[kind][a].image.size,
                    Depth(arrays'[kind][a].job, arrays'[kind][a].image.size), 1)
             /\ Array(arrays'[kind][a].job.kind) = kind
             /\ Key(arrays'[kind][a].job) \in DOMAIN indices'
             /\ indices'[Key(arrays'[kind][a].job)] = a - 1
             /\ arrays'[kind][a].job.files = asked'[Key(arrays'[kind][a].job)]
    <2>1. CASE kind = bin /\ a = Len(arrays[bin]) + 1
        <3>1. arrays'[kind][a] = slot
            BY <1>6, <1>7, <2>1
        <3> HIDE DEF slot
        <3>2. Len(arrays[bin]) = a - 1
            BY <1>6, <2>1
        <3> QED BY <1>0, <1>3, <1>4, <1>5, <1>8, <2>1, <3>1, <3>2 DEF key, bin
    <2>2. CASE ~(kind = bin /\ a = Len(arrays[bin]) + 1)
        <3>1. a \in DOMAIN arrays[kind] /\ arrays'[kind][a] = arrays[kind][a]
            BY <1>6, <1>7, <2>2
        <3>2. /\ arrays[kind][a].image = Picture("made", arrays[kind][a].image.size,
                    Depth(arrays[kind][a].job, arrays[kind][a].image.size), 1)
              /\ Array(arrays[kind][a].job.kind) = kind
              /\ Key(arrays[kind][a].job) \in DOMAIN indices
              /\ indices[Key(arrays[kind][a].job)] = a - 1
              /\ arrays[kind][a].job.files = asked[Key(arrays[kind][a].job)]
            BY <3>1 DEF StoreInv, Tables
        <3> QED BY <1>0, <1>8, <3>1, <3>2
    <2> QED BY <2>1, <2>2
<1>10. ASSUME NEW k \in DOMAIN indices'
       PROVE  /\ indices'[k] \in 0..Len(arrays'[Array(k[1])]) - 1
              /\ Key(arrays'[Array(k[1])][indices'[k] + 1].job) = k
    <2>1. CASE k = key
        <3>1. Array(k[1]) = bin /\ indices'[k] = Len(arrays[bin]) /\ arrays'[bin] = now
            BY <1>4, <1>7, <1>8, <2>1 DEF key, bin
        <3>2. now[indices'[k] + 1] = slot
            BY <1>6, <3>1
        <3>3. indices'[k] \in 0..Len(now) - 1
            BY <1>6, <3>1
        <3> HIDE DEF slot
        <3> QED BY <1>4, <2>1, <3>1, <3>2, <3>3 DEF key
    <2>2. CASE k # key
        <3>1. /\ k \in DOMAIN indices /\ indices'[k] = indices[k]
              /\ indices[k] \in 0..Len(arrays[Array(k[1])]) - 1
              /\ Key(arrays[Array(k[1])][indices[k] + 1].job) = k
            BY <1>8, <2>2 DEF StoreInv, Tables
        <3>2. Array(k[1]) \in Bins
            BY DEF Array, Bins
        <3>3. CASE Array(k[1]) = bin
            <4>1. Len(arrays[bin]) \in Nat /\ indices[k] + 1 \in DOMAIN arrays[bin]
                BY <1>6, <3>1, <3>3
            <4>2. now[indices[k] + 1] = arrays[bin][indices[k] + 1]
                BY <1>6, <4>1
            <4>3. indices[k] \in 0..Len(now) - 1
                BY <1>6, <3>1, <3>3
            <4> QED BY <1>7, <3>1, <3>3, <4>2, <4>3
        <3>4. CASE Array(k[1]) # bin
            BY <1>7, <3>1, <3>2, <3>4
        <3> QED BY <3>3, <3>4
    <2> QED BY <2>1, <2>2
<1>11. Tables'
    <2>1. DOMAIN asked' = DOMAIN indices'
        BY <1>0, <1>5, <1>8
    <2>2. \A kind \in Bins : \A a \in DOMAIN arrays'[kind] :
             /\ arrays'[kind][a].image = Picture("made", arrays'[kind][a].image.size,
                    Depth(arrays'[kind][a].job, arrays'[kind][a].image.size), 1)
             /\ Array(arrays'[kind][a].job.kind) = kind
             /\ Key(arrays'[kind][a].job) \in DOMAIN indices'
             /\ indices'[Key(arrays'[kind][a].job)] = a - 1
             /\ arrays'[kind][a].job.files = asked'[Key(arrays'[kind][a].job)]
        BY <1>9, Zenon
    <2>3. \A k \in DOMAIN indices' :
             /\ indices'[k] \in 0..Len(arrays'[Array(k[1])]) - 1
             /\ Key(arrays'[Array(k[1])][indices'[k] + 1].job) = k
        BY <1>10, Zenon
    <2>4. arrays' \in [Bins -> Seq(Filled)] /\ bound' = arrays' /\ loadPc' = "idle"
        BY <1>0, <1>7, Zenon
    <2> QED BY <2>1, <2>2, <2>3, <2>4, Zenon DEF Tables
<1>12. InTheMaking'
    BY <1>0, <1>1 DEF InTheMaking, Made
<1> QED BY <1>0, <1>1, <1>11, <1>12 DEF StoreInv

LEMMA StoreStep == StoreInv /\ [StoreNext]_storeVars => StoreInv'
<1> SUFFICES ASSUME StoreInv, [StoreNext]_storeVars PROVE StoreInv'
    OBVIOUS
<1>1. CASE UNCHANGED storeVars
    BY <1>1 DEF storeVars, StoreInv, InTheMaking, Uploading, Tables, Made
<1>2. CASE StoreNext
    BY <1>2, RequestStep, DecodeStep, MakingStep, PublishStep DEF StoreNext
<1> QED BY <1>1, <1>2

LEMMA StoreInductive == StoreSpec => []StoreInv
BY StoreInitInv, StoreStep, PTL DEF StoreSpec

LEMMA StoreRight ==
    StoreInv => /\ StoreTypeOK /\ PublishedWhole /\ NothingLost
                /\ NamesKeepTheirImage /\ NoSlotWasted /\ PixelsFreed
<1> SUFFICES ASSUME StoreInv
             PROVE  /\ StoreTypeOK /\ PublishedWhole /\ NothingLost
                    /\ NamesKeepTheirImage /\ NoSlotWasted /\ PixelsFreed
    OBVIOUS
<1>1. NothingLost
    <2> SUFFICES ASSUME upload # <<>>, NEW i \in All(upload)
                 PROVE  upload.levels[i].data # "lost"
        BY DEF NothingLost
    <2>1. Uploading
        BY DEF StoreInv, InTheMaking
    <2>2. PICK s \in Extents : \E k \in 1..Depth(request, s) :
                                   upload = Picture(loadPc, s, Depth(request, s), k)
        BY <2>1 DEF Uploading
    <2>3. \A k, l : LevelAt(loadPc, k, l).data # "lost"
        BY DEF LevelAt
    <2>4. Depth(request, s) \in Nat
        BY DepthIsNumber
    <2> QED BY <2>2, <2>3, <2>4, PictureFacts
<1>2. PixelsFreed
    BY DEF PixelsFreed, StoreInv, InTheMaking
<1>3. NamesKeepTheirImage
    <2> SUFFICES ASSUME NEW k \in DOMAIN indices
                 PROVE  LET slot == bound[Array(k[1])][indices[k] + 1]
                        IN  Key(slot.job) = k /\ slot.job.files = asked[k]
        BY DEF NamesKeepTheirImage
    <2>1. /\ bound = arrays /\ arrays \in [Bins -> Seq(Filled)]
          /\ indices[k] \in 0..Len(arrays[Array(k[1])]) - 1
          /\ Key(arrays[Array(k[1])][indices[k] + 1].job) = k
        BY DEF StoreInv, Tables
    <2>2. Array(k[1]) \in Bins
        BY DEF Array, Bins
    <2>3. indices[k] + 1 \in DOMAIN arrays[Array(k[1])]
        BY <2>1, <2>2
    <2>4. arrays[Array(k[1])][indices[k] + 1].job.files
              = asked[Key(arrays[Array(k[1])][indices[k] + 1].job)]
        BY <2>2, <2>3 DEF StoreInv, Tables
    <2> QED BY <2>1, <2>4
<1>4. NoSlotWasted
    <2> SUFFICES ASSUME NEW kind \in DOMAIN bound, NEW a \in DOMAIN bound[kind],
                        NEW b \in DOMAIN bound[kind],
                        Key(bound[kind][a].job) = Key(bound[kind][b].job)
                 PROVE  a = b
        BY DEF NoSlotWasted
    <2>1. bound = arrays /\ arrays \in [Bins -> Seq(Filled)] /\ kind \in Bins
        BY DEF StoreInv, Tables
    <2>2. /\ indices[Key(arrays[kind][a].job)] = a - 1
          /\ indices[Key(arrays[kind][b].job)] = b - 1
        BY <2>1 DEF StoreInv, Tables
    <2>3. a \in Nat /\ b \in Nat
        BY <2>1
    <2> QED BY <2>1, <2>2, <2>3
<1>5. PublishedWhole
    <2> SUFFICES ASSUME NEW kind \in DOMAIN bound, NEW a \in DOMAIN bound[kind]
                 PROVE  /\ \A i \in All(bound[kind][a].image) :
                              bound[kind][a].image.levels[i] = [layout |-> "read", data |-> "whole"]
                        /\ bound[kind][a].job.mips =>
                              Extent(bound[kind][a].image.size,
                                     Len(bound[kind][a].image.levels) - 1) = <<1, 1>>
        BY DEF PublishedWhole, ToSet
    <2> DEFINE img == bound[kind][a].image
               j == bound[kind][a].job
               s == img.size
    <2>1. bound = arrays /\ arrays \in [Bins -> Seq(Filled)] /\ kind \in Bins
        BY DEF StoreInv, Tables
    <2>2. img = Picture("made", s, Depth(j, s), 1)
        BY <2>1 DEF StoreInv, Tables
    <2>3. s \in Extents
        <3>1. bound[kind][a] \in Filled
            BY <2>1
        <3> QED BY <3>1 DEF Filled, ImageTypes
    <2>4. Depth(j, s) \in Nat
        BY <2>3, DepthIsNumber
    <2> HIDE DEF img, j, s
    <2>5. /\ All(img) = 1..Depth(j, s) /\ Len(img.levels) = Depth(j, s)
          /\ \A i \in 1..Depth(j, s) : img.levels[i] = LevelAt("made", 1, i)
        BY <2>2, <2>4, PictureFacts
    <2>6. \A i : LevelAt("made", 1, i) = [layout |-> "read", data |-> "whole"]
        BY DEF LevelAt
    <2>7. j.mips => Extent(s, Depth(j, s) - 1) = <<1, 1>>
        BY <2>3, LevelsEnough DEF Depth
    <2> QED BY <2>5, <2>6, <2>7 DEF img, j, s
<1>6. StoreTypeOK
    <2>1. loadPc = "idle" <=> request = <<>>
        BY RequestFacts DEF StoreInv, InTheMaking
    <2>2. ASSUME loadPc = "mips"
          PROVE  mip.i \in 1..Len(upload.levels) /\ mip.extent = Extent(upload.size, mip.i - 1)
        <3>1. PICK s \in Extents : \E k \in 1..Depth(request, s) :
                /\ upload = Picture("mips", s, Depth(request, s), k)
                /\ mip = [i |-> k, extent |-> Extent(s, k - 1)]
            BY <2>2 DEF StoreInv, InTheMaking, Made, Uploading
        <3>2. Depth(request, s) \in Nat
            BY DepthIsNumber
        <3>3. PICK k \in 1..Depth(request, s) :
                /\ upload = Picture("mips", s, Depth(request, s), k)
                /\ mip = [i |-> k, extent |-> Extent(s, k - 1)]
            BY <3>1
        <3>4. upload.size = s /\ Len(upload.levels) = Depth(request, s)
            BY <3>2, <3>3, PictureFacts
        <3>5. mip.i = k /\ mip.extent = Extent(s, k - 1)
            BY <3>3
        <3> QED BY <3>3, <3>4, <3>5
    <2>3. /\ requests \in 0..RequestBound
          /\ loadPc \in {"idle", "decode", "staging", "undefined", "dst", "copied", "mips", "made",
                         "failed"}
        BY DEF StoreInv, InTheMaking
    <2>4. \A k \in DOMAIN indices : indices[k] \in 0..Len(arrays[Array(k[1])]) - 1
        BY DEF StoreInv, Tables
    <2> QED BY <2>1, <2>2, <2>3, <2>4 DEF StoreTypeOK
<1> QED BY <1>1, <1>2, <1>3, <1>4, <1>5, <1>6

LEMMA SlotsKept ==
    ASSUME StoreInv, [StoreNext]_storeVars
    PROVE  [\A kind \in DOMAIN bound : IsPrefix(bound[kind], bound'[kind])]_bound
<1>1. CASE UNCHANGED bound
    BY <1>1
<1>2. CASE bound' # bound
    <2>1. Publish
        BY <1>2 DEF StoreNext, storeVars, held, Request, Decode, Stage, ToTransferDst,
                    CopyBufferToImage, ToShaderRead, MipLevel, MipsEnd
    <2>2. request \in Requests /\ Uploading /\ loadPc = "made"
        BY <2>1 DEF Publish, StoreInv, InTheMaking, Made
    <2>3. bound \in [Bins -> Seq(Filled)] /\ bound = arrays /\ bound' \in [Bins -> Seq(Filled)]
        BY <2>1, PublishStep DEF StoreInv, Tables
    <2>4. PICK bin, slot : bound' = [bound EXCEPT ![bin] = Append(bound[bin], slot)]
        BY <2>1, <2>3 DEF Publish, PutLast
    <2>5. ASSUME NEW kind \in Bins PROVE IsPrefix(bound[kind], bound'[kind])
        <3>1. CASE bound'[kind] = bound[kind]
            BY <2>3, <3>1 DEF IsPrefix
        <3>2. CASE bound'[kind] # bound[kind]
            <4>1. bound'[kind] = Append(bound[kind], slot) /\ bound[kind] \in Seq(Filled)
                BY <2>3, <2>4, <3>2
            <4>2. /\ Len(bound[kind]) \in Nat /\ Len(bound'[kind]) = Len(bound[kind]) + 1
                  /\ \A i \in 1..Len(bound[kind]) : bound'[kind][i] = bound[kind][i]
                BY <4>1
            <4>3. SubSeq(bound[kind], 1, Len(bound[kind])) = SubSeq(bound'[kind], 1, Len(bound[kind]))
                <5>1. \A q \in Seq(Filled), n \in Nat : n <= Len(q) =>
                          SubSeq(q, 1, n) = [i \in 1..n |-> q[i]]
                    OBVIOUS
                <5>2. /\ SubSeq(bound[kind], 1, Len(bound[kind]))
                             = [i \in 1..Len(bound[kind]) |-> bound[kind][i]]
                      /\ SubSeq(bound'[kind], 1, Len(bound[kind]))
                             = [i \in 1..Len(bound[kind]) |-> bound'[kind][i]]
                    BY <2>3, <4>1, <4>2, <5>1
                <5> QED BY <4>2, <5>2
            <4> QED BY <4>2, <4>3 DEF IsPrefix
        <3> QED BY <3>1, <3>2
    <2> QED BY <2>3, <2>5
<1> QED BY <1>1, <1>2

\* For any images, names and order of requests: what a shader can sample is
\* whole and readable at every level, an image that has mipmaps goes down to a
\* single pixel, no command on the way finds a level in another layout or of
\* another size, a name keeps the image it was first loaded from and no image
\* leaves its slot, and a load that fails leaks no pixels (texture.cpp 22-102,
\* cubemap.cpp 22-76, device.cpp 717-877, bindless_manager.cpp 20-54).
THEOREM TexturesAlwaysWhole == StoreSpec => TexturesWhole
<1>1. StoreInv /\ [StoreNext]_storeVars
          => [\A kind \in DOMAIN bound : IsPrefix(bound[kind], bound'[kind])]_bound
    BY SlotsKept
<1> QED BY <1>1, StoreInductive, StoreRight, PTL DEF TexturesWhole, SlotsStay, StoreSpec

-----------------------------------------------------------------------------
(* FrameRecording: the pipelines.                                          *)

Pipe(pass, sets, bytes, stride, enabled, compare, colours, bias) ==
    [pass |-> pass, sets |-> sets, size |-> bytes, stride |-> stride, enabled |-> enabled,
     compare |-> compare, colours |-> colours, bias |-> bias]

LEMMA DepthTestSet ==
    ASSUME NEW pass, NEW sets, NEW bytes, NEW stride, NEW enabled, NEW compare, NEW colours, NEW bias
    PROVE  EnableDepthTest(Pipe(pass, sets, bytes, stride, enabled, compare, colours, bias))
             = Pipe(pass, sets, bytes, stride, enabled \cup {"test", "write"}, "less", colours, bias)
<1> DEFINE b == Pipe(pass, sets, bytes, stride, enabled, compare, colours, bias)
           c == [b EXCEPT !.enabled = @ \cup {"test", "write"}]
<1>1. b.enabled = enabled /\ DOMAIN b = {"pass", "sets", "size", "stride", "enabled", "compare", "colours", "bias"}
    BY DEF Pipe
<1>2. c = Pipe(pass, sets, bytes, stride, enabled \cup {"test", "write"}, compare, colours, bias)
    BY DEF Pipe
<1>3. EnableDepthTest(b) = [c EXCEPT !.compare = "less"]
    BY <1>1 DEF EnableDepthTest
<1> HIDE DEF c
<1>4. [c EXCEPT !.compare = "less"]
        = Pipe(pass, sets, bytes, stride, enabled \cup {"test", "write"}, "less", colours, bias)
    BY <1>2 DEF Pipe
<1> QED BY <1>3, <1>4

LEMMA DepthWriteUnset ==
    ASSUME NEW pass, NEW sets, NEW bytes, NEW stride, NEW enabled, NEW compare, NEW colours, NEW bias
    PROVE  DisableDepthWrite(Pipe(pass, sets, bytes, stride, enabled, compare, colours, bias))
             = Pipe(pass, sets, bytes, stride, enabled \ {"write"}, compare, colours, bias)
BY DEF Pipe, DisableDepthWrite

LEMMA CompareOpSet ==
    ASSUME NEW pass, NEW sets, NEW bytes, NEW stride, NEW enabled, NEW compare, NEW colours, NEW bias, NEW op
    PROVE  SetDepthCompareOp(Pipe(pass, sets, bytes, stride, enabled, compare, colours, bias), op)
             = Pipe(pass, sets, bytes, stride, enabled, op, colours, bias)
BY DEF Pipe, SetDepthCompareOp

LEMMA BiasSet ==
    ASSUME NEW pass, NEW sets, NEW bytes, NEW stride, NEW enabled, NEW compare, NEW colours, NEW bias, NEW n
    PROVE  SetDepthBias(Pipe(pass, sets, bytes, stride, enabled, compare, colours, bias), n)
             = Pipe(pass, sets, bytes, stride, enabled, compare, colours, n)
BY DEF Pipe, SetDepthBias

LEMMA BlendingSet ==
    ASSUME NEW pass, NEW sets, NEW bytes, NEW stride, NEW enabled, NEW compare, NEW colours, NEW bias
    PROVE  EnableAlphaBlending(Pipe(pass, sets, bytes, stride, enabled, compare, colours, bias))
             = Pipe(pass, sets, bytes, stride, enabled \cup {"blend"}, compare, colours, bias)
BY DEF Pipe, EnableAlphaBlending

LEMMA ColoursUnset ==
    ASSUME NEW pass, NEW sets, NEW bytes, NEW stride, NEW enabled, NEW compare, NEW colours, NEW bias
    PROVE  DisableColorAttachments(Pipe(pass, sets, bytes, stride, enabled, compare, colours, bias))
             = Pipe(pass, sets, bytes, stride, enabled, compare, 0, bias)
BY DEF Pipe, DisableColorAttachments

LEMMA Built ==
    ASSUME NEW pass, NEW sets, NEW bytes, NEW stride
    PROVE  Builder(pass, sets, bytes, stride) = Pipe(pass, sets, bytes, stride, {}, "always", 1, 0)
BY DEF Builder, Pipe

\* What is drawn in front of or behind others without hiding them.
LEMMA TestOnly ==
    ASSUME NEW pass, NEW sets, NEW bytes, NEW stride
    PROVE  DisableDepthWrite(EnableDepthTest(Builder(pass, sets, bytes, stride)))
             = Pipe(pass, sets, bytes, stride, {"test"}, "less", 1, 0)
<1> DEFINE S == {} \cup {"test", "write"}
<1>1. EnableDepthTest(Builder(pass, sets, bytes, stride)) = Pipe(pass, sets, bytes, stride, S, "less", 1, 0)
    BY Built, DepthTestSet
<1>2. S \ {"write"} = {"test"}
    OBVIOUS
<1> HIDE DEF S
<1> QED BY <1>1, <1>2, DepthWriteUnset

LEMMA Pipelines ==
    /\ Skybox = Pipe("main", <<"bindless">>, 80, 0, {"test"}, "less_or_equal", 1, 0)
    /\ ModelShadow = Pipe("shadow", <<>>, 64, 64, {"test", "write"}, "less", 0, 1)
    /\ ModelOpaque = Pipe("main", <<"bindless", "shadow">>, 80, 120, {"test", "write"}, "less", 1, 0)
    /\ ModelTransparent = Pipe("main", <<"bindless", "shadow">>, 80, 120, {"test", "blend"}, "less", 1, 0)
    /\ OutlineOpaque = Pipe("main", <<"bindless">>, 80, 120, {"test", "write"}, "less_or_equal", 1, -1)
    /\ OutlineTransparent = Pipe("main", <<"bindless">>, 80, 120, {"test", "blend"}, "less_or_equal", 1, -1)
    /\ TextPipeline = Pipe("main", <<"bindless">>, 80, 40, {"blend"}, "always", 1, 0)
    /\ BillboardText = Pipe("main", <<"bindless">>, 144, 44, {"test", "blend"}, "less", 1, 0)
    /\ Imgui = Pipe("main", <<"bindless">>, 64, 0, {"blend"}, "always", 1, 0)
<1> USE Built
<1>0. /\ {} \cup {"test", "write"} = {"test", "write"} /\ {"test", "write"} \ {"write"} = {"test"}
      /\ {"test"} \cup {"blend"} = {"test", "blend"} /\ {} \cup {"blend"} = {"blend"}
    OBVIOUS
<1>1. Skybox = Pipe("main", <<"bindless">>, 80, 0, {"test"}, "less_or_equal", 1, 0)
    BY <1>0, TestOnly, CompareOpSet DEF Skybox
<1>2. ModelShadow = Pipe("shadow", <<>>, 64, 64, {"test", "write"}, "less", 0, 1)
    BY <1>0, ColoursUnset, DepthTestSet, BiasSet DEF ModelShadow, ShadowInstance
<1>3. ModelOpaque = Pipe("main", <<"bindless", "shadow">>, 80, 120, {"test", "write"}, "less", 1, 0)
    BY <1>0, DepthTestSet DEF ModelOpaque, ModelInstance
<1>4. ModelTransparent = Pipe("main", <<"bindless", "shadow">>, 80, 120, {"test", "blend"}, "less", 1, 0)
    BY <1>0, TestOnly, BlendingSet DEF ModelTransparent, ModelInstance
<1>5. OutlineOpaque = Pipe("main", <<"bindless">>, 80, 120, {"test", "write"}, "less_or_equal", 1, -1)
    BY <1>0, DepthTestSet, BiasSet, CompareOpSet DEF OutlineOpaque, ModelInstance
<1>6. OutlineTransparent = Pipe("main", <<"bindless">>, 80, 120, {"test", "blend"}, "less_or_equal", 1, -1)
    BY <1>0, TestOnly, BiasSet, CompareOpSet, BlendingSet DEF OutlineTransparent, ModelInstance
<1>7. TextPipeline = Pipe("main", <<"bindless">>, 80, 40, {"blend"}, "always", 1, 0)
    BY <1>0, BlendingSet DEF TextPipeline, TextInstance
<1>8. BillboardText = Pipe("main", <<"bindless">>, 144, 44, {"test", "blend"}, "less", 1, 0)
    BY <1>0, TestOnly, BlendingSet DEF BillboardText, BillboardInstance
<1>9. Imgui = Pipe("main", <<"bindless">>, 64, 0, {"blend"}, "always", 1, 0)
    BY <1>0, BlendingSet DEF Imgui
<1> QED BY <1>1, <1>2, <1>3, <1>4, <1>5, <1>6, <1>7, <1>8, <1>9

-----------------------------------------------------------------------------
(* FrameRecording: one draw, instance by instance.                         *)

\* The function Shaded defines.
Shadings(p, px, things, k, f) ==
    f = [n \in 0..k |-> IF n = 0 THEN px ELSE Shade(p, f[n - 1], things[n])]

LEMMA ShadedFrom ==
    ASSUME NEW p, NEW px, NEW S, NEW things \in Seq(S)
    PROVE  \E after : /\ after[0] = px /\ Shaded(p, px, things) = after[Len(things)]
                      /\ \A n \in 1..Len(things) : after[n] = Shade(p, after[n - 1], things[n])
<1> DEFINE Solves(k, f) == Shadings(p, px, things, k, f)
           T == {k \in Nat : \E f : Solves(k, f)}
           m == Len(things)
<1>0. m \in Nat
    OBVIOUS
<1>1. 0 \in T
    <2> DEFINE f == [n \in 0..0 |-> px]
    <2>1. f = [n \in 0..0 |-> IF n = 0 THEN px ELSE Shade(p, f[n - 1], things[n])]
        OBVIOUS
    <2>2. Solves(0, f)
        BY <2>1 DEF Shadings
    <2> QED BY <2>2
<1>2. ASSUME NEW k \in Nat, k \in T PROVE k + 1 \in T
    <2>1. PICK f : Solves(k, f)
        BY <1>2
    <2> DEFINE g == [n \in 0..(k + 1) |-> IF n = k + 1 THEN Shade(p, f[k], things[k + 1]) ELSE f[n]]
    <2>2. ASSUME NEW n \in 0..(k + 1)
          PROVE  g[n] = IF n = 0 THEN px ELSE Shade(p, g[n - 1], things[n])
        <3>1. \A j \in 0..k : f[j] = IF j = 0 THEN px ELSE Shade(p, f[j - 1], things[j])
            BY <2>1 DEF Shadings
        <3>2. CASE n = k + 1
            <4>1. n # 0 /\ n - 1 = k /\ k \in 0..(k + 1) /\ k # k + 1
                BY <3>2
            <4> QED BY <3>2, <4>1
        <3>3. CASE n # k + 1
            <4>1. n \in 0..k /\ (n # 0 => n - 1 \in 0..(k + 1) /\ n - 1 # k + 1)
                BY <3>3
            <4> QED BY <3>1, <3>3, <4>1
        <3> QED BY <3>2, <3>3
    <2>3. Solves(k + 1, g)
        BY <2>2 DEF Shadings
    <2> QED BY <2>3
<1>3. m \in T
    <2> HIDE DEF T, m
    <2> QED BY <1>0, <1>1, <1>2, FromZeroOn
<1> DEFINE after == CHOOSE f : Solves(m, f)
<1>4. Solves(m, after)
    BY <1>3, Zenon
<1>5. Shaded(p, px, things) = after[m]
    BY Zenon DEF Shaded, Shadings
<1> HIDE DEF after
<1>6. \A n \in 0..m : after[n] = IF n = 0 THEN px ELSE Shade(p, after[n - 1], things[n])
    BY <1>4 DEF Shadings
<1>7. after[0] = px /\ \A n \in 1..m : after[n] = Shade(p, after[n - 1], things[n])
    BY <1>0, <1>6
<1> QED BY <1>5, <1>7

\* What holds before the first instance, and is kept by each, holds after all.
LEMMA ShadedKeeps ==
    ASSUME NEW p, NEW px, NEW S, NEW things \in Seq(S), NEW I,
           px \in I[0],
           \A n \in 1..Len(things) : \A x \in I[n - 1] : Shade(p, x, things[n]) \in I[n]
    PROVE  Shaded(p, px, things) \in I[Len(things)]
<1>1. PICK after : /\ after[0] = px /\ Shaded(p, px, things) = after[Len(things)]
                   /\ \A n \in 1..Len(things) : after[n] = Shade(p, after[n - 1], things[n])
    BY ShadedFrom
<1> DEFINE T == {n \in Nat : n <= Len(things) => after[n] \in I[n]}
<1>2. Len(things) \in Nat
    OBVIOUS
<1>3. 0 \in T
    BY <1>1
<1>4. ASSUME NEW k \in Nat, k \in T PROVE k + 1 \in T
    <2> SUFFICES ASSUME k + 1 <= Len(things) PROVE after[k + 1] \in I[k + 1]
        OBVIOUS
    <2>1. k + 1 \in 1..Len(things) /\ (k + 1) - 1 = k /\ k <= Len(things)
        BY <1>2
    <2>2. after[k] \in I[k]
        BY <1>4, <2>1
    <2>3. after[k + 1] = Shade(p, after[k], things[k + 1])
        BY <1>1, <2>1
    <2> QED BY <2>1, <2>2, <2>3
<1> HIDE DEF T
<1>5. Len(things) \in T
    BY <1>2, <1>3, <1>4, FromZeroOn
<1> QED BY <1>1, <1>2, <1>5 DEF T

LEMMA ShadedNone ==
    ASSUME NEW p, NEW px
    PROVE  Shaded(p, px, <<>>) = px
<1>1. ASSUME NEW S, NEW none \in Seq(S), Len(none) = 0
      PROVE  Shaded(p, px, none) = px
    <2>1. PICK after : /\ after[0] = px /\ Shaded(p, px, none) = after[Len(none)]
                       /\ \A n \in 1..Len(none) : after[n] = Shade(p, after[n - 1], none[n])
        BY ShadedFrom
    <2> QED BY <1>1, <2>1
<1>2. <<>> \in Seq({px}) /\ Len(<<>>) = 0
    OBVIOUS
<1> QED BY <1>1, <1>2

LEMMA ShadedOne ==
    ASSUME NEW p, NEW px, NEW t
    PROVE  Shaded(p, px, <<t>>) = Shade(p, px, t)
<1> DEFINE one == <<t>>
<1>1. one \in Seq({t}) /\ Len(one) = 1 /\ one[1] = t /\ 1 \in 1..1 /\ 1 - 1 = 0
    OBVIOUS
<1> HIDE DEF one
<1>2. PICK after : /\ after[0] = px /\ Shaded(p, px, one) = after[Len(one)]
                   /\ \A n \in 1..Len(one) : after[n] = Shade(p, after[n - 1], one[n])
    BY <1>1, ShadedFrom
<1>3. Shaded(p, px, one) = Shade(p, px, t)
    BY <1>1, <1>2
<1> QED BY <1>3 DEF one

-----------------------------------------------------------------------------
(* FrameRecording: the pixel.                                              *)

Anything == [what : BucketNames \cup {"skybox", "imgui"}, z : 0..ClearDepth, i : Nat]
Pixels == [depth : 1..ClearDepth, seen : Seq(Anything)]

\* The things of a draw, up to the n-th, at the depths a bias gives them.
Laid(things, bias, n) == {[z |-> things[i].z + bias, t |-> things[i]] : i \in 1..n}

\* The picture of solid surfaces: the nearest, or nothing.
Solidly(x, S) ==
    IF S = {} THEN x.depth = ClearDepth /\ x.seen = <<>>
    ELSE \E s \in S : x.depth = s.z /\ x.seen = <<s.t>> /\ \A o \in S : s.z <= o.z

LEMMA ShadeIs ==
    ASSUME NEW p, NEW x, NEW t
    PROVE  Shade(p, x, t) =
             IF Passes(p, t.z + p.bias, x.depth)
             THEN [depth |-> IF {"test", "write"} \subseteq p.enabled THEN t.z + p.bias ELSE x.depth,
                   seen |-> IF p.colours = 0 THEN x.seen
                            ELSE IF "blend" \in p.enabled THEN Append(x.seen, t) ELSE <<t>>]
             ELSE x
BY Zenon DEF Shade

LEMMA ShadeSolid ==
    ASSUME NEW p, p.enabled = {"test", "write"}, p.colours = 1, NEW x, NEW t
    PROVE  Shade(p, x, t) = IF Passes(p, t.z + p.bias, x.depth)
                            THEN [depth |-> t.z + p.bias, seen |-> <<t>>] ELSE x
<1>1. {"test", "write"} \subseteq p.enabled /\ "blend" \notin p.enabled /\ p.colours # 0
    OBVIOUS
<1> QED BY <1>1, ShadeIs, Zenon

LEMMA ShadeBlend ==
    ASSUME NEW p, "write" \notin p.enabled, "blend" \in p.enabled, p.colours = 1, NEW x, NEW t
    PROVE  Shade(p, x, t) = IF Passes(p, t.z + p.bias, x.depth)
                            THEN [depth |-> x.depth, seen |-> Append(x.seen, t)] ELSE x
<1>1. ~({"test", "write"} \subseteq p.enabled) /\ p.colours # 0
    OBVIOUS
<1> QED BY <1>1, ShadeIs, Zenon

LEMMA ShadeDepth ==
    ASSUME NEW p, p.enabled = {"test", "write"}, p.colours = 0, NEW x, NEW t
    PROVE  Shade(p, x, t) = IF Passes(p, t.z + p.bias, x.depth)
                            THEN [depth |-> t.z + p.bias, seen |-> x.seen] ELSE x
<1>1. {"test", "write"} \subseteq p.enabled
    OBVIOUS
<1> QED BY <1>1, ShadeIs, Zenon

LEMMA SolidDraw ==
    ASSUME NEW p, p.enabled = {"test", "write"}, p.compare \in {"less", "less_or_equal"},
           p.colours = 1, p.bias \in Int,
           NEW things \in Seq(Anything),
           \A i \in 1..Len(things) : things[i].z + p.bias \in 1..(ClearDepth - 1),
           NEW S, \A s \in S : s.z \in 1..(ClearDepth - 1), NEW px \in Pixels, Solidly(px, S)
    PROVE  /\ Shaded(p, px, things) \in Pixels
           /\ Solidly(Shaded(p, px, things), S \cup Laid(things, p.bias, Len(things)))
<1> DEFINE I == [n \in 0..Len(things) |-> {x \in Pixels : Solidly(x, S \cup Laid(things, p.bias, n))}]
<1>0. Len(things) \in Nat /\ ClearDepth \in Nat
    BY DepthsAssumption
<1>1. px \in I[0]
    <2>1. 1..0 = {}
        OBVIOUS
    <2>2. Laid(things, p.bias, 0) = {}
        BY <2>1 DEF Laid
    <2>3. S \cup Laid(things, p.bias, 0) = S
        BY <2>2
    <2>4. px \in {x \in Pixels : Solidly(x, S \cup Laid(things, p.bias, 0))}
        BY <2>3
    <2> QED BY <1>0, <2>4
<1>2. ASSUME NEW n \in 1..Len(things), NEW x \in I[n - 1]
      PROVE  Shade(p, x, things[n]) \in I[n]
    <2> DEFINE A == S \cup Laid(things, p.bias, n - 1)
               t == things[n]
               e == [z |-> t.z + p.bias, t |-> t]
               B == S \cup Laid(things, p.bias, n)
    <2>0. n \in Nat /\ n - 1 \in 0..Len(things) /\ n \in 0..Len(things) /\ n \in 1..Len(things)
        BY <1>0
    <2>1. x \in Pixels /\ Solidly(x, A)
        BY <2>0
    <2>2. B = A \cup {e}
        <3>1. 1..n = 1..(n - 1) \cup {n}
            BY <2>0
        <3> QED BY <3>1 DEF Laid
    <2>3. e.z \in 1..(ClearDepth - 1) /\ e.z = t.z + p.bias /\ e.t = t /\ t \in Anything
        BY <2>0
    <2>4. \A o \in A : o.z \in 1..(ClearDepth - 1)
        <3>1. \A i \in 1..(n - 1) : i \in 1..Len(things)
            BY <2>0
        <3> QED BY <3>1 DEF Laid
    <2>5. x.depth \in 1..ClearDepth /\ x.seen \in Seq(Anything)
        BY <2>1 DEF Pixels
    <2> DEFINE y == Shade(p, x, t)
    <2>6. y = IF e.z < x.depth \/ (p.compare = "less_or_equal" /\ e.z <= x.depth)
              THEN [depth |-> e.z, seen |-> <<t>>] ELSE x
        <3>1. Passes(p, e.z, x.depth) <=> e.z < x.depth \/ (p.compare = "less_or_equal" /\ e.z <= x.depth)
            BY <2>3, <2>5 DEF Passes
        <3>2. y = IF Passes(p, e.z, x.depth) THEN [depth |-> e.z, seen |-> <<t>>] ELSE x
            BY <2>3, ShadeSolid
        <3> HIDE DEF y, e, t
        <3> QED BY <3>1, <3>2
    <2>7. y \in Pixels
        <3>1. <<t>> \in Seq(Anything)
            BY <2>3
        <3>2. e.z \in 1..ClearDepth
            BY <1>0, <2>3
        <3> QED BY <2>1, <2>6, <3>1, <3>2 DEF Pixels
    <2> HIDE DEF e, A, B, y, t
    <2>8. Solidly(y, B)
        <3>1. e \in B /\ B # {}
            BY <2>2
        <3>2. CASE A = {}
            <4>1. x.depth = ClearDepth
                BY <2>1, <3>2 DEF Solidly
            <4>2. y = [depth |-> e.z, seen |-> <<t>>]
                BY <1>0, <2>3, <2>6, <4>1
            <4>3. B = {e}
                BY <2>2, <3>2
            <4> QED BY <2>3, <3>1, <4>2, <4>3 DEF Solidly
        <3>3. CASE A # {}
            <4>1. PICK s \in A : x.depth = s.z /\ x.seen = <<s.t>> /\ \A o \in A : s.z <= o.z
                BY <2>1, <3>3 DEF Solidly
            <4>2. CASE e.z < x.depth \/ (p.compare = "less_or_equal" /\ e.z <= x.depth)
                <5>1. y = [depth |-> e.z, seen |-> <<t>>] /\ e.z <= s.z
                    BY <2>3, <2>4, <2>6, <4>1, <4>2
                <5>2. \A o \in B : e.z <= o.z
                    BY <2>2, <2>3, <2>4, <4>1, <5>1
                <5> QED BY <2>3, <3>1, <5>1, <5>2 DEF Solidly
            <4>3. CASE ~(e.z < x.depth \/ (p.compare = "less_or_equal" /\ e.z <= x.depth))
                <5>1. y = x /\ s.z <= e.z /\ s \in B
                    BY <2>2, <2>3, <2>4, <2>6, <4>1, <4>3
                <5>2. \A o \in B : s.z <= o.z
                    BY <2>2, <4>1, <5>1
                <5> QED BY <3>1, <4>1, <5>1, <5>2 DEF Solidly
            <4> QED BY <4>2, <4>3
        <3> QED BY <3>2, <3>3
    <2> QED BY <2>0, <2>7, <2>8 DEF y, B, t
<1> HIDE DEF I
<1>3. Shaded(p, px, things) \in I[Len(things)]
    BY <1>1, <1>2, ShadedKeeps
<1>4. Len(things) \in 0..Len(things)
    BY <1>0
<1> QED BY <1>3, <1>4 DEF I

\* A blended draw leaves the depth and adds what passes.
Over(x) == {x.seen[i] : i \in 2..Len(x.seen)}
Passing(p, things, depth, n) == {things[i] : i \in {j \in 1..n : Passes(p, things[j].z + p.bias, depth)}}

LEMMA BlendDraw ==
    ASSUME NEW p, "write" \notin p.enabled, "blend" \in p.enabled, p.colours = 1,
           NEW things \in Seq(Anything), NEW px \in Pixels, px.seen # <<>>,
           NEW Q \in SUBSET Seq(Anything), px.seen \in Q,
           \A s \in Q : \A i \in 1..Len(things) : Append(s, things[i]) \in Q
    PROVE  LET x == Shaded(p, px, things) IN
           /\ x \in Pixels /\ x.depth = px.depth /\ x.seen # <<>> /\ x.seen[1] = px.seen[1]
           /\ x.seen \in Q
           /\ Over(x) = Over(px) \cup Passing(p, things, px.depth, Len(things))
<1> DEFINE BaseKept(x, n) == /\ x.depth = px.depth /\ x.seen # <<>> /\ x.seen[1] = px.seen[1]
                         /\ x.seen \in Q
                         /\ Over(x) = Over(px) \cup Passing(p, things, px.depth, n)
           I == [n \in 0..Len(things) |-> {x \in Pixels : BaseKept(x, n)}]
<1>0. Len(things) \in Nat
    OBVIOUS
<1>1. px \in I[0]
    <2>1. Passing(p, things, px.depth, 0) = {}
        BY DEF Passing
    <2> QED BY <1>0, <2>1
<1>2. ASSUME NEW n \in 1..Len(things), NEW x \in I[n - 1]
      PROVE  Shade(p, x, things[n]) \in I[n]
    <2> DEFINE t == things[n]
               y == Shade(p, x, t)
    <2>0. n \in Nat /\ n - 1 \in 0..Len(things) /\ n \in 0..Len(things)
        BY <1>0
    <2>1. x \in Pixels /\ BaseKept(x, n - 1) /\ t \in Anything
        BY <2>0
    <2>2. y = IF Passes(p, t.z + p.bias, px.depth)
              THEN [depth |-> px.depth, seen |-> Append(x.seen, t)] ELSE x
        BY <2>1, ShadeBlend
    <2>3. Passing(p, things, px.depth, n)
            = Passing(p, things, px.depth, n - 1)
                \cup IF Passes(p, t.z + p.bias, px.depth) THEN {t} ELSE {}
        <3>1. 1..n = 1..(n - 1) \cup {n}
            BY <2>0
        <3> QED BY <3>1 DEF Passing
    <2>4. CASE ~Passes(p, t.z + p.bias, px.depth)
        BY <2>0, <2>1, <2>2, <2>3, <2>4
    <2>5. CASE Passes(p, t.z + p.bias, px.depth)
        <3> DEFINE s == x.seen
        <3>1. s \in Seq(Anything) /\ s # <<>> /\ Len(s) \in Nat /\ Len(s) >= 1
            BY <2>1 DEF Pixels
        <3>2. /\ Append(s, t) \in Seq(Anything) /\ Len(Append(s, t)) = Len(s) + 1
              /\ Append(s, t)[Len(s) + 1] = t /\ \A i \in 1..Len(s) : Append(s, t)[i] = s[i]
            BY <2>1, <3>1, AppendProperties
        <3>3. y = [depth |-> px.depth, seen |-> Append(s, t)]
            BY <2>2, <2>5
        <3>4. Append(s, t) \in Q
            BY <2>1
        <3> HIDE DEF s
        <3>5. Over(y) = {s[i] : i \in 2..Len(s)} \cup {t}
            <4> DEFINE m == Len(s)
            <4>0. m \in Nat /\ m >= 1
                BY <3>1
            <4> HIDE DEF m
            <4>1. 2..(m + 1) = 2..m \cup {m + 1}
                BY SMTT(30), <4>0
            <4>2. \A i \in 2..Len(s) : i \in 1..Len(s)
                BY <3>1
            <4>3. y.seen = Append(s, t)
                BY <3>3
            <4>4. Len(y.seen) = m + 1
                BY <3>2, <4>3 DEF m
            <4>5. Over(y) = {y.seen[i] : i \in 2..m} \cup {y.seen[m + 1]}
                BY <4>1, <4>4 DEF Over
            <4>6. y.seen[m + 1] = t /\ \A i \in 2..m : y.seen[i] = s[i]
                BY <3>2, <4>2, <4>3 DEF m
            <4> HIDE DEF y, t
            <4>7. {y.seen[i] : i \in 2..m} = {s[i] : i \in 2..m}
                BY ZenonT(40), <4>6
            <4> QED BY <4>5, <4>6, <4>7 DEF m
        <3>6. y \in Pixels
            <4>1. px.depth \in 1..ClearDepth
                BY DEF Pixels
            <4> QED BY <3>2, <3>3, <4>1 DEF Pixels
        <3>7. y.seen # <<>> /\ y.seen[1] = s[1] /\ y.depth = px.depth
            <4>1. Append(s, t) # <<>>
                BY SMTT(30), <3>1, <3>2
            <4>2. 1 \in 1..Len(s)
                BY <3>1
            <4>3. Append(s, t)[1] = s[1]
                BY <3>2, <4>2
            <4> HIDE DEF y
            <4> QED BY <3>3, <4>1, <4>3
        <3>8. Over(y) = Over(px) \cup Passing(p, things, px.depth, n)
            <4>1. Over(x) = {s[i] : i \in 2..Len(s)}
                BY DEF Over, s
            <4> HIDE DEF y, t
            <4> QED BY <2>1, <2>3, <2>5, <3>5, <4>1
        <3>9. BaseKept(y, n)
            <4>1. y.seen = Append(s, t) /\ x.seen[1] = px.seen[1]
                BY <2>1, <3>3
            <4> HIDE DEF y
            <4> QED BY <3>4, <3>7, <3>8, <4>1 DEF s
        <3> HIDE DEF BaseKept, y
        <3> QED BY <2>0, <3>6, <3>9 DEF y
    <2> QED BY <2>4, <2>5
<1> HIDE DEF I
<1>3. Shaded(p, px, things) \in I[Len(things)]
    BY <1>1, <1>2, ShadedKeeps
<1>4. Len(things) \in 0..Len(things)
    BY <1>0
<1> QED BY <1>3, <1>4 DEF I

\* The shadow pass leaves a depth, nothing more is asked of it.
LEMMA DepthDraw ==
    ASSUME NEW p, p.enabled = {"test", "write"}, p.colours = 0, p.bias \in Int, NEW things \in Seq(Anything), NEW px \in Pixels,
           \A i \in 1..Len(things) : things[i].z + p.bias \in 1..ClearDepth
    PROVE  Shaded(p, px, things) \in Pixels
<1> DEFINE I == [n \in 0..Len(things) |-> Pixels]
<1>1. px \in I[0]
    OBVIOUS
<1>2. ASSUME NEW n \in 1..Len(things), NEW x \in I[n - 1]
      PROVE  Shade(p, x, things[n]) \in I[n]
    <2>1. x \in Pixels
        OBVIOUS
    <2>2. \/ Shade(p, x, things[n]) = x
          \/ Shade(p, x, things[n]) = [depth |-> things[n].z + p.bias, seen |-> x.seen]
        BY ShadeDepth, Zenon
    <2>3. things[n].z + p.bias \in 1..ClearDepth /\ x.seen \in Seq(Anything) /\ n \in 0..Len(things)
        BY <2>1 DEF Pixels
    <2>4. [depth |-> things[n].z + p.bias, seen |-> x.seen] \in Pixels
        BY <2>3 DEF Pixels
    <2>5. Shade(p, x, things[n]) \in Pixels
        BY <2>1, <2>2, <2>4, Zenon
    <2> QED BY <2>3, <2>5
<1> HIDE DEF I
<1>3. Shaded(p, px, things) \in I[Len(things)]
    BY <1>1, <1>2, ShadedKeeps
<1>4. Len(things) \in 0..Len(things)
    OBVIOUS
<1> QED BY <1>3, <1>4 DEF I

-------------------------------------------------------------------------
(* FrameRecording: the command buffer.                                     *)

IsBuffer(g) ==
    g = [pass |-> g.pass, pipe |-> g.pipe, sets |-> g.sets, push |-> g.push, scissor |-> g.scissor,
         pixel |-> g.pixel, draws |-> g.draws, shadows |-> g.shadows]

\* A pass changes the bindings and leaves the rest as it was.
Same(g, h) ==
    /\ h.pass = g.pass /\ h.scissor = g.scissor /\ h.pixel = g.pixel
    /\ h.draws = g.draws /\ h.shadows = g.shadows

LEMMA BindPipelineOn ==
    ASSUME NEW g, IsBuffer(g), NEW p
    PROVE  LET h == BindPipeline(g, p) IN
           IsBuffer(h) /\ Same(g, h) /\ h.pipe = p /\ h.sets = g.sets /\ h.push = g.push
BY DEF IsBuffer, Same, BindPipeline

LEMMA PushConstantOn ==
    ASSUME NEW g, IsBuffer(g), NEW p, NEW bytes
    PROVE  LET h == PushConstant(g, p, bytes) IN
           /\ IsBuffer(h) /\ Same(g, h) /\ h.pipe = g.pipe /\ h.sets = g.sets
           /\ h.push = [size |-> bytes, layout |-> Layout(p)]
BY DEF IsBuffer, Same, PushConstant

LEMMA BindSetOn ==
    ASSUME NEW g, IsBuffer(g), NEW p, NEW n, NEW filling, DOMAIN g.sets = 1..2
    PROVE  LET h == BindSet(g, p, n, filling) IN
           /\ IsBuffer(h) /\ Same(g, h) /\ h.pipe = g.pipe /\ h.push = g.push
           /\ DOMAIN h.sets = 1..2
           /\ \A k \in 1..2 :
                /\ k = n => h.sets[k] = [content |-> filling, layout |-> Layout(p)]
                /\ k # n /\ Compatible(g.sets[k].layout, Layout(p), IF k < n THEN k ELSE n)
                     => h.sets[k] = g.sets[k]
<1> DEFINE S == [k \in DOMAIN g.sets |->
                  IF k = n THEN [content |-> filling, layout |-> Layout(p)]
                  ELSE IF Compatible(g.sets[k].layout, Layout(p), IF k < n THEN k ELSE n)
                       THEN g.sets[k] ELSE NoSet]
           h == BindSet(g, p, n, filling)
<1>1. h = [g EXCEPT !.sets = S]
    BY Zenon DEF BindSet
<1> HIDE DEF h
<1>2. DOMAIN S = 1..2
    OBVIOUS
<1>3. \A k \in 1..2 :
        /\ k = n => S[k] = [content |-> filling, layout |-> Layout(p)]
        /\ k # n /\ Compatible(g.sets[k].layout, Layout(p), IF k < n THEN k ELSE n)
             => S[k] = g.sets[k]
    OBVIOUS
<1> HIDE DEF S
<1>4. IsBuffer(h) /\ Same(g, h) /\ h.pipe = g.pipe /\ h.push = g.push /\ h.sets = S
    BY <1>1 DEF IsBuffer, Same
<1> QED BY <1>2, <1>3, <1>4, Zenon DEF h

\* h is g after a draw.
Drew(g, h, things, stride) ==
    /\ IsBuffer(h) /\ h.pass = g.pass /\ h.pipe = g.pipe /\ h.sets = g.sets
    /\ h.push = g.push /\ h.scissor = g.scissor
    /\ h.pixel = Shaded(g.pipe, g.pixel, things)
    /\ h.draws = g.draws \cup {Relied(g, stride, Len(things))}
    /\ h.shadows = IF g.pass # "shadow" THEN g.shadows
                   ELSE [g.shadows EXCEPT ![frameIndex].casters = things]

LEMMA DrawInstancesOn ==
    ASSUME NEW g, IsBuffer(g), NEW things, NEW stride
    PROVE  Drew(g, DrawInstances(g, things, stride), things, stride)
<1> DEFINE h == DrawInstances(g, things, stride)
           D == g.draws \cup {Relied(g, stride, Len(things))}
           X == Shaded(g.pipe, g.pixel, things)
           S == IF g.pass # "shadow" THEN g.shadows
                ELSE [g.shadows EXCEPT ![frameIndex].casters = things]
<1>1. h = [[[g EXCEPT !.draws = D] EXCEPT !.pixel = X] EXCEPT !.shadows = S]
    <2>1. /\ "draws" \in DOMAIN g /\ "pixel" \in DOMAIN g /\ "shadows" \in DOMAIN g
        BY DEF IsBuffer
    <2> QED BY DEF IsBuffer, DrawInstances
<1> HIDE DEF D, X, S, h
<1>2. /\ IsBuffer(h) /\ h.pass = g.pass /\ h.pipe = g.pipe /\ h.sets = g.sets
      /\ h.push = g.push /\ h.scissor = g.scissor /\ h.pixel = X /\ h.draws = D /\ h.shadows = S
    BY <1>1 DEF IsBuffer
<1> QED BY <1>2 DEF D, X, S, h, Drew

\* What a draw under a pipeline of the picture finds.
Ready(g, p) ==
    /\ IsBuffer(g) /\ DOMAIN g.sets = 1..2 /\ g.pipe = p
    /\ g.sets[1].content.kind = "bindless" /\ g.sets[1].layout = Layout(p)
    /\ g.push = [size |-> p.size, layout |-> Layout(p)]

LEMMA BindlessBound ==
    ASSUME NEW g, IsBuffer(g), DOMAIN g.sets = 1..2, NEW p
    PROVE  LET h == BindBindless(BindPipeline(g, p), p) IN
           /\ IsBuffer(h) /\ Same(g, h) /\ DOMAIN h.sets = 1..2 /\ h.pipe = p
           /\ h.sets[1].content.kind = "bindless" /\ h.sets[1].layout = Layout(p)
<1> DEFINE b == BindPipeline(g, p)
           c == [kind |-> "bindless", slot |-> 0]
           h == BindSet(b, p, 1, c)
<1>1. IsBuffer(b) /\ Same(g, b) /\ b.pipe = p /\ DOMAIN b.sets = 1..2
    BY BindPipelineOn
<1>2. c.kind = "bindless"
    OBVIOUS
<1> HIDE DEF b, c
<1>3. /\ IsBuffer(h) /\ Same(b, h) /\ h.pipe = p /\ DOMAIN h.sets = 1..2
      /\ h.sets[1] = [content |-> c, layout |-> Layout(p)]
    <2>1. 1 \in 1..2
        OBVIOUS
    <2> QED BY <1>1, <2>1, BindSetOn
<1>4. BindBindless(BindPipeline(g, p), p) = h
    BY DEF BindBindless, b, c
<1> HIDE DEF h
<1>5. Same(g, h) /\ h.sets[1].content.kind = "bindless" /\ h.sets[1].layout = Layout(p)
    BY <1>1, <1>2, <1>3 DEF Same
<1> QED BY <1>3, <1>4, <1>5

LEMMA WithReady ==
    ASSUME NEW g, IsBuffer(g), DOMAIN g.sets = 1..2, NEW p, NEW bytes, bytes = p.size
    PROVE  Ready(With(g, p, bytes), p) /\ Same(g, With(g, p, bytes))
<1> DEFINE b == BindBindless(BindPipeline(g, p), p)
           h == PushConstant(b, p, bytes)
<1>1. /\ IsBuffer(b) /\ Same(g, b) /\ DOMAIN b.sets = 1..2 /\ b.pipe = p
      /\ b.sets[1].content.kind = "bindless" /\ b.sets[1].layout = Layout(p)
    BY BindlessBound
<1>2. With(g, p, bytes) = h
    BY Zenon DEF With
<1> HIDE DEF b
<1>3. /\ IsBuffer(h) /\ Same(b, h) /\ h.pipe = b.pipe /\ h.sets = b.sets
      /\ h.push = [size |-> bytes, layout |-> Layout(p)]
    BY <1>1, PushConstantOn
<1> HIDE DEF h
<1>4. Same(g, h)
    BY <1>1, <1>3 DEF Same
<1>5. Ready(h, p)
    BY <1>1, <1>3 DEF Ready
<1> QED BY <1>2, <1>4, <1>5

\* The shadow map's set is bound next to the bindless one, whose layout is the
\* same.
LEMMA ShadowBound ==
    ASSUME NEW g, NEW p, Ready(g, p), p.sets = <<"bindless", "shadow">>
    PROVE  LET h == BindShadow(g, p) IN
           /\ Ready(h, p) /\ Same(g, h)
           /\ h.sets[2] = [content |-> [kind |-> "shadow", slot |-> frameIndex], layout |-> Layout(p)]
<1> DEFINE c == [kind |-> "shadow", slot |-> frameIndex]
           h == BindSet(g, p, 2, c)
           l == Layout(p)
<1>1. BindShadow(g, p) = h
    BY DEF BindShadow
<1>2. 1 \in 1..2 /\ 2 \in 1..2 /\ 1 < 2 /\ 1 # 2
    OBVIOUS
<1>3. l.size = l.size /\ Len(l.sets) >= 1
    BY DEF Layout
<1>4. Compatible(g.sets[1].layout, l, 1)
    BY <1>3 DEF Compatible, Ready
<1> HIDE DEF c, l
<1>5. /\ IsBuffer(h) /\ Same(g, h) /\ h.pipe = g.pipe /\ h.push = g.push /\ DOMAIN h.sets = 1..2
      /\ h.sets[2] = [content |-> c, layout |-> l] /\ h.sets[1] = g.sets[1]
    <2>1. IsBuffer(g) /\ DOMAIN g.sets = 1..2
        BY DEF Ready
    <2>2. /\ IsBuffer(h) /\ Same(g, h) /\ h.pipe = g.pipe /\ h.push = g.push
          /\ DOMAIN h.sets = 1..2
          /\ \A k \in 1..2 :
               /\ k = 2 => h.sets[k] = [content |-> c, layout |-> Layout(p)]
               /\ k # 2 /\ Compatible(g.sets[k].layout, Layout(p), IF k < 2 THEN k ELSE 2)
                    => h.sets[k] = g.sets[k]
        BY <2>1, BindSetOn
    <2> HIDE DEF h
    <2> QED BY <1>2, <1>4, <2>2 DEF l
<1> HIDE DEF h
<1>6. Ready(h, p)
    BY <1>5 DEF Ready
<1> QED BY <1>1, <1>5, <1>6 DEF c, l

-----------------------------------------------------------------------------
(* FrameRecording: what a draw relies on.                                  *)

DrawFits(d) ==
    /\ d.pass = d.pipe.pass
    /\ \A n \in 1 .. Len(d.pipe.sets) :
         /\ d.sets[n].content.kind = d.pipe.sets[n]
         /\ Compatible(d.sets[n].layout, Layout(d.pipe), n)
    /\ d.push.size = d.pipe.size
    /\ d.push.layout.size = d.pipe.size
    /\ d.pipe # Imgui => d.scissor = IF d.pass = "shadow" THEN "shadow" ELSE "frame"
    /\ \/ d.stride = d.pipe.stride
       \/ d.count <= 1
       \/ d.pipe \in {OutlineOpaque, OutlineTransparent}
    /\ Len(d.pipe.sets) = 2 =>
         d.shadows[d.sets[2].content.slot]
             = [layout |-> "read_only", light |-> begun, casters |-> scene.opaque]

\* In the pass of the picture, after the shadow pass.
InPicture(g) ==
    /\ g.pass = "main" /\ g.scissor = "frame"
    /\ g.shadows[frameIndex] = [layout |-> "read_only", light |-> begun, casters |-> scene.opaque]

LEMMA ReadyFits ==
    ASSUME NEW g, NEW p, Ready(g, p), g.pass = "main", p.pass = "main", NEW stride, NEW n,
           g.scissor = "frame" \/ p = Imgui,
           stride = p.stride \/ p \in {OutlineOpaque, OutlineTransparent},
           \/ p.sets = <<"bindless">>
           \/ /\ p.sets = <<"bindless", "shadow">> /\ InPicture(g)
              /\ g.sets[2] = [content |-> [kind |-> "shadow", slot |-> frameIndex],
                              layout |-> Layout(p)]
    PROVE  DrawFits(Relied(g, stride, n))
<1> DEFINE d == Relied(g, stride, n)
<1>1. /\ d.pipe = p /\ d.pass = "main" /\ d.sets = g.sets /\ d.scissor = g.scissor
      /\ d.push = [size |-> p.size, layout |-> Layout(p)]
      /\ d.stride = stride /\ d.shadows = g.shadows
    BY DEF Relied, Ready
<1> HIDE DEF d
<1>2. d.push.size = p.size /\ d.push.layout.size = p.size
    BY <1>1 DEF Layout
<1>3. Layout(p).sets = p.sets /\ Layout(p).size = p.size
    BY DEF Layout
<1>4. g.sets[1].content.kind = "bindless" /\ g.sets[1].layout = Layout(p)
    BY DEF Ready
<1>5. /\ \A k \in 1..Len(p.sets) :
           d.sets[k].content.kind = p.sets[k] /\ Compatible(d.sets[k].layout, Layout(p), k)
      /\ Len(p.sets) = 2 => d.shadows[d.sets[2].content.slot]
             = [layout |-> "read_only", light |-> begun, casters |-> scene.opaque]
    <2>1. CASE p.sets = <<"bindless">>
        <3>1. Len(p.sets) = 1 /\ p.sets[1] = "bindless" /\ 1..1 = {1} /\ 1 # 2
            BY <2>1
        <3>2. Compatible(Layout(p), Layout(p), 1)
            BY <1>3, <3>1 DEF Compatible
        <3> QED BY <1>1, <1>4, <3>1, <3>2
    <2>2. CASE /\ p.sets = <<"bindless", "shadow">> /\ InPicture(g)
               /\ g.sets[2] = [content |-> [kind |-> "shadow", slot |-> frameIndex],
                               layout |-> Layout(p)]
        <3>1. /\ Len(p.sets) = 2 /\ p.sets[1] = "bindless" /\ p.sets[2] = "shadow"
              /\ 1..2 = {1, 2}
            BY <2>2
        <3>2. Compatible(Layout(p), Layout(p), 1) /\ Compatible(Layout(p), Layout(p), 2)
            BY <1>3, <3>1 DEF Compatible
        <3>3. /\ g.sets[2].content.kind = "shadow" /\ g.sets[2].content.slot = frameIndex
              /\ g.sets[2].layout = Layout(p)
            BY <2>2
        <3>4. d.shadows[d.sets[2].content.slot]
                = [layout |-> "read_only", light |-> begun, casters |-> scene.opaque]
            BY <1>1, <2>2, <3>3 DEF InPicture
        <3> QED BY <1>1, <1>4, <3>1, <3>2, <3>3, <3>4
    <2> QED BY <2>1, <2>2
<1>6. DrawFits(d)
    BY <1>1, <1>2, <1>5 DEF DrawFits
<1> QED BY <1>6 DEF d

-----------------------------------------------------------------------------
(* FrameRecording: the passes of the picture.                              *)

Sky == [what |-> "skybox", z |-> ClearDepth, i |-> 1]
Widget == [what |-> "imgui", z |-> 0, i |-> 1]

\* h is g after pipeline p drew the things.
Painted(g, h, p, things) ==
    /\ IsBuffer(h) /\ DOMAIN h.sets = 1..2 /\ h.pass = g.pass /\ h.shadows = g.shadows
    /\ h.pixel = Shaded(p, g.pixel, things)
    /\ \A d \in h.draws : d \in g.draws \/ DrawFits(d)

LEMMA ReadyPaints ==
    ASSUME NEW g, NEW p, Ready(g, p), g.pass = "main", p.pass = "main", NEW stride, NEW things,
           g.scissor = "frame" \/ p = Imgui,
           stride = p.stride \/ p \in {OutlineOpaque, OutlineTransparent},
           \/ p.sets = <<"bindless">>
           \/ /\ p.sets = <<"bindless", "shadow">> /\ InPicture(g)
              /\ g.sets[2] = [content |-> [kind |-> "shadow", slot |-> frameIndex],
                              layout |-> Layout(p)]
    PROVE  LET h == DrawInstances(g, things, stride) IN
           Painted(g, h, p, things) /\ h.scissor = g.scissor
<1> DEFINE h == DrawInstances(g, things, stride)
           r == Relied(g, stride, Len(things))
<1>1. DrawFits(r)
    BY ReadyFits
<1>2. IsBuffer(g) /\ g.pipe = p /\ DOMAIN g.sets = 1..2
    BY DEF Ready
<1>3. Drew(g, h, things, stride)
    BY <1>2, DrawInstancesOn
<1> HIDE DEF h
<1>4. h.draws = g.draws \cup {r} /\ h.shadows = g.shadows
    BY <1>3 DEF Drew
<1> HIDE DEF r
<1>5. Painted(g, h, p, things) /\ h.scissor = g.scissor
    BY <1>1, <1>2, <1>3, <1>4 DEF Painted, Drew
<1> QED BY <1>5 DEF h

LEMMA PlainPaints ==
    ASSUME NEW g, NEW p, Ready(g, p), g.pass = "main", p.pass = "main", NEW stride, NEW things,
           p.sets = <<"bindless">>, g.scissor = "frame",
           stride = p.stride \/ p \in {OutlineOpaque, OutlineTransparent}
    PROVE  LET h == DrawInstances(g, things, stride) IN
           Painted(g, h, p, things) /\ h.scissor = g.scissor
BY ReadyPaints, Zenon

LEMMA NonePaints ==
    ASSUME NEW g, NEW h, NEW p, IsBuffer(h), DOMAIN h.sets = 1..2, Same(g, h)
    PROVE  Painted(g, h, p, <<>>) /\ h.scissor = g.scissor
<1>1. Shaded(p, g.pixel, <<>>) = g.pixel
    BY ShadedNone
<1> QED BY <1>1 DEF Painted, Same

LEMMA SamePaints ==
    ASSUME NEW f, NEW g, NEW h, NEW p, NEW things, Same(f, g), Painted(g, h, p, things)
    PROVE  Painted(f, h, p, things)
BY DEF Same, Painted

LEMMA OpaquePaints ==
    ASSUME NEW g, IsBuffer(g), DOMAIN g.sets = 1..2, InPicture(g)
    PROVE  LET h == RenderModelsOpaque(g) IN
           Painted(g, h, ModelOpaque, scene.opaque) /\ h.scissor = g.scissor
<1> DEFINE w == With(g, ModelOpaque, 80)
           b == BindShadow(w, ModelOpaque)
           d == DrawInstances(b, scene.opaque, ModelInstance)
           h == RenderModelsOpaque(g)
<1>1. /\ ModelOpaque.pass = "main" /\ ModelOpaque.sets = <<"bindless", "shadow">>
      /\ ModelOpaque.size = 80 /\ ModelOpaque.stride = ModelInstance
    BY Pipelines DEF Pipe, ModelInstance
<1>2. Ready(w, ModelOpaque) /\ Same(g, w)
    BY <1>1, WithReady
<1>3. /\ Ready(b, ModelOpaque) /\ Same(w, b)
      /\ b.sets[2] = [content |-> [kind |-> "shadow", slot |-> frameIndex],
                      layout |-> Layout(ModelOpaque)]
    <2> HIDE DEF w
    <2> QED BY <1>1, <1>2, ShadowBound
<1>4. h = IF scene.opaque = <<>> THEN b ELSE d
    BY Zenon DEF RenderModelsOpaque, DrawBucket
<1> HIDE DEF w, b, h
<1>5. Same(g, b) /\ IsBuffer(b) /\ DOMAIN b.sets = 1..2 /\ InPicture(b) /\ b.pass = "main" /\ b.scissor = "frame"
    BY <1>2, <1>3 DEF Same, InPicture, Ready
<1>6. Painted(b, d, ModelOpaque, scene.opaque) /\ d.scissor = b.scissor
    BY <1>1, <1>3, <1>5, ReadyPaints
<1>7. Painted(g, d, ModelOpaque, scene.opaque) /\ d.scissor = g.scissor
    BY <1>5, <1>6, SamePaints DEF Same
<1>8. Painted(g, b, ModelOpaque, <<>>) /\ b.scissor = g.scissor
    BY <1>5, NonePaints
<1> HIDE DEF d
<1>9. Painted(g, h, ModelOpaque, scene.opaque) /\ h.scissor = g.scissor
    BY <1>4, <1>7, <1>8
<1> QED BY <1>9 DEF h

LEMMA OutlinesPaint ==
    ASSUME NEW g, IsBuffer(g), DOMAIN g.sets = 1..2, InPicture(g)
    PROVE  LET h == RenderModelOutlinesOpaque(g) IN
           Painted(g, h, OutlineOpaque, scene.outline) /\ h.scissor = g.scissor
<1> DEFINE w == With(g, OutlineOpaque, 80)
           d == DrawInstances(w, scene.outline, OutlineInstance)
           h == RenderModelOutlinesOpaque(g)
<1>1. /\ OutlineOpaque.pass = "main" /\ OutlineOpaque.sets = <<"bindless">>
      /\ OutlineOpaque.size = 80
    BY Pipelines DEF Pipe
<1>2. Ready(w, OutlineOpaque) /\ Same(g, w)
    BY <1>1, WithReady
<1>3. h = IF scene.outline = <<>> THEN w ELSE d
    BY Zenon DEF RenderModelOutlinesOpaque, DrawBucket
<1> HIDE DEF w, h
<1>4. IsBuffer(w) /\ DOMAIN w.sets = 1..2 /\ w.pass = "main" /\ w.scissor = "frame"
    BY <1>2 DEF Same, InPicture, Ready
<1>5. Painted(w, d, OutlineOpaque, scene.outline) /\ d.scissor = w.scissor
    BY <1>1, <1>2, <1>4, PlainPaints
<1>6. Painted(g, d, OutlineOpaque, scene.outline) /\ d.scissor = g.scissor
    BY <1>2, <1>5, SamePaints DEF Same
<1>7. Painted(g, w, OutlineOpaque, <<>>) /\ w.scissor = g.scissor
    BY <1>2, <1>4, NonePaints
<1> HIDE DEF d
<1>8. Painted(g, h, OutlineOpaque, scene.outline) /\ h.scissor = g.scissor
    BY <1>3, <1>6, <1>7
<1> QED BY <1>8 DEF h

LEMMA SkyboxPaints ==
    ASSUME NEW g, IsBuffer(g), DOMAIN g.sets = 1..2, InPicture(g)
    PROVE  LET h == RenderSkybox(g) IN
           Painted(g, h, Skybox, <<Sky>>) /\ h.scissor = g.scissor
<1> DEFINE w == With(g, Skybox, 80)
           d == DrawInstances(w, <<Sky>>, 0)
           h == RenderSkybox(g)
<1>1. /\ Skybox.pass = "main" /\ Skybox.sets = <<"bindless">>
      /\ Skybox.size = 80 /\ Skybox.stride = 0
    BY Pipelines DEF Pipe
<1>2. Ready(w, Skybox) /\ Same(g, w)
    BY <1>1, WithReady
<1>3. h = d
    BY Zenon DEF RenderSkybox, Sky
<1> HIDE DEF w, h
<1>4. IsBuffer(w) /\ DOMAIN w.sets = 1..2 /\ w.pass = "main" /\ w.scissor = "frame"
    BY <1>2 DEF Same, InPicture, Ready
<1>5. Painted(w, d, Skybox, <<Sky>>) /\ d.scissor = w.scissor
    BY <1>1, <1>2, <1>4, PlainPaints
<1>6. Painted(g, d, Skybox, <<Sky>>) /\ d.scissor = g.scissor
    BY <1>2, <1>5, SamePaints DEF Same
<1> HIDE DEF d
<1>8. Painted(g, h, Skybox, <<Sky>>) /\ h.scissor = g.scissor
    BY <1>3, <1>6
<1> QED BY <1>8 DEF h

LEMMA TransparentPaints ==
    ASSUME NEW g, IsBuffer(g), DOMAIN g.sets = 1..2, InPicture(g)
    PROVE  LET h == RenderModelsTransparent(g) IN
           Painted(g, h, ModelTransparent, scene.transparent) /\ h.scissor = g.scissor
<1> DEFINE w == With(g, ModelTransparent, 80)
           b == BindShadow(w, ModelTransparent)
           d == DrawInstances(b, scene.transparent, ModelInstance)
           h == RenderModelsTransparent(g)
<1>1. /\ ModelTransparent.pass = "main" /\ ModelTransparent.sets = <<"bindless", "shadow">>
      /\ ModelTransparent.size = 80 /\ ModelTransparent.stride = ModelInstance
    BY Pipelines DEF Pipe, ModelInstance
<1>2. Ready(w, ModelTransparent) /\ Same(g, w)
    BY <1>1, WithReady
<1>3. /\ Ready(b, ModelTransparent) /\ Same(w, b)
      /\ b.sets[2] = [content |-> [kind |-> "shadow", slot |-> frameIndex],
                      layout |-> Layout(ModelTransparent)]
    <2> HIDE DEF w
    <2> QED BY <1>1, <1>2, ShadowBound
<1>4. h = IF scene.transparent = <<>> THEN b ELSE d
    BY Zenon DEF RenderModelsTransparent, DrawBucket
<1> HIDE DEF w, b, h
<1>5. Same(g, b) /\ IsBuffer(b) /\ DOMAIN b.sets = 1..2 /\ InPicture(b) /\ b.pass = "main" /\ b.scissor = "frame"
    BY <1>2, <1>3 DEF Same, InPicture, Ready
<1>6. Painted(b, d, ModelTransparent, scene.transparent) /\ d.scissor = b.scissor
    BY <1>1, <1>3, <1>5, ReadyPaints
<1>7. Painted(g, d, ModelTransparent, scene.transparent) /\ d.scissor = g.scissor
    BY <1>5, <1>6, SamePaints DEF Same
<1>8. Painted(g, b, ModelTransparent, <<>>) /\ b.scissor = g.scissor
    BY <1>5, NonePaints
<1> HIDE DEF d
<1>9. Painted(g, h, ModelTransparent, scene.transparent) /\ h.scissor = g.scissor
    BY <1>4, <1>7, <1>8
<1> QED BY <1>9 DEF h

LEMMA ClearOutlinesPaint ==
    ASSUME NEW g, IsBuffer(g), DOMAIN g.sets = 1..2, InPicture(g)
    PROVE  LET h == RenderModelOutlinesTransparent(g) IN
           Painted(g, h, OutlineTransparent, scene.outlineTransparent) /\ h.scissor = g.scissor
<1> DEFINE w == With(g, OutlineTransparent, 80)
           d == DrawInstances(w, scene.outlineTransparent, OutlineInstance)
           h == RenderModelOutlinesTransparent(g)
<1>1. /\ OutlineTransparent.pass = "main" /\ OutlineTransparent.sets = <<"bindless">>
      /\ OutlineTransparent.size = 80
    BY Pipelines DEF Pipe
<1>2. Ready(w, OutlineTransparent) /\ Same(g, w)
    BY <1>1, WithReady
<1>3. h = IF scene.outlineTransparent = <<>> THEN w ELSE d
    BY Zenon DEF RenderModelOutlinesTransparent, DrawBucket
<1> HIDE DEF w, h
<1>4. IsBuffer(w) /\ DOMAIN w.sets = 1..2 /\ w.pass = "main" /\ w.scissor = "frame"
    BY <1>2 DEF Same, InPicture, Ready
<1>5. Painted(w, d, OutlineTransparent, scene.outlineTransparent) /\ d.scissor = w.scissor
    BY <1>1, <1>2, <1>4, PlainPaints
<1>6. Painted(g, d, OutlineTransparent, scene.outlineTransparent) /\ d.scissor = g.scissor
    BY <1>2, <1>5, SamePaints DEF Same
<1>7. Painted(g, w, OutlineTransparent, <<>>) /\ w.scissor = g.scissor
    BY <1>2, <1>4, NonePaints
<1> HIDE DEF d
<1>8. Painted(g, h, OutlineTransparent, scene.outlineTransparent) /\ h.scissor = g.scissor
    BY <1>3, <1>6, <1>7
<1> QED BY <1>8 DEF h

LEMMA BillboardsPaint ==
    ASSUME NEW g, IsBuffer(g), DOMAIN g.sets = 1..2, InPicture(g)
    PROVE  LET h == RenderBillboardTexts(g) IN
           Painted(g, h, BillboardText, scene.billboard) /\ h.scissor = g.scissor
<1> DEFINE b == BindBindless(BindPipeline(g, BillboardText), BillboardText)
           w == With(g, BillboardText, 144)
           d == DrawInstances(w, scene.billboard, BillboardInstance)
           h == RenderBillboardTexts(g)
<1>1. /\ BillboardText.pass = "main" /\ BillboardText.sets = <<"bindless">>
      /\ BillboardText.size = 144 /\ BillboardText.stride = BillboardInstance
    BY Pipelines DEF Pipe, BillboardInstance
<1>2. Ready(w, BillboardText) /\ Same(g, w)
    BY <1>1, WithReady
<1>3. h = IF scene.billboard = <<>> THEN b ELSE d
    BY Zenon DEF RenderBillboardTexts, With
<1>4. IsBuffer(b) /\ Same(g, b) /\ DOMAIN b.sets = 1..2
    BY BindlessBound
<1> HIDE DEF b, w, h
<1>5. w.pass = "main" /\ w.scissor = "frame"
    BY <1>2 DEF Same, InPicture
<1>6. Painted(w, d, BillboardText, scene.billboard) /\ d.scissor = w.scissor
    BY <1>1, <1>2, <1>5, PlainPaints
<1>7. Painted(g, d, BillboardText, scene.billboard) /\ d.scissor = g.scissor
    BY <1>2, <1>6, SamePaints DEF Same
<1>8. Painted(g, b, BillboardText, <<>>) /\ b.scissor = g.scissor
    BY <1>4, NonePaints
<1> HIDE DEF d
<1>9. Painted(g, h, BillboardText, scene.billboard) /\ h.scissor = g.scissor
    BY <1>3, <1>7, <1>8
<1> QED BY <1>9 DEF h

LEMMA TextsPaint ==
    ASSUME NEW g, IsBuffer(g), DOMAIN g.sets = 1..2, InPicture(g)
    PROVE  LET h == RenderTexts(g) IN
           Painted(g, h, TextPipeline, scene.text) /\ h.scissor = g.scissor
<1> DEFINE b == BindBindless(BindPipeline(g, TextPipeline), TextPipeline)
           w == With(g, TextPipeline, 80)
           d == DrawInstances(w, scene.text, TextInstance)
           h == RenderTexts(g)
<1>1. /\ TextPipeline.pass = "main" /\ TextPipeline.sets = <<"bindless">>
      /\ TextPipeline.size = 80 /\ TextPipeline.stride = TextInstance
    BY Pipelines DEF Pipe, TextInstance
<1>2. Ready(w, TextPipeline) /\ Same(g, w)
    BY <1>1, WithReady
<1>3. h = IF scene.text = <<>> THEN b ELSE d
    BY Zenon DEF RenderTexts, With
<1>4. IsBuffer(b) /\ Same(g, b) /\ DOMAIN b.sets = 1..2
    BY BindlessBound
<1> HIDE DEF b, w, h
<1>5. w.pass = "main" /\ w.scissor = "frame"
    BY <1>2 DEF Same, InPicture
<1>6. Painted(w, d, TextPipeline, scene.text) /\ d.scissor = w.scissor
    BY <1>1, <1>2, <1>5, PlainPaints
<1>7. Painted(g, d, TextPipeline, scene.text) /\ d.scissor = g.scissor
    BY <1>2, <1>6, SamePaints DEF Same
<1>8. Painted(g, b, TextPipeline, <<>>) /\ b.scissor = g.scissor
    BY <1>4, NonePaints
<1> HIDE DEF d
<1>9. Painted(g, h, TextPipeline, scene.text) /\ h.scissor = g.scissor
    BY <1>3, <1>7, <1>8
<1> QED BY <1>9 DEF h

LEMMA ImguiPaints ==
    ASSUME NEW g, IsBuffer(g), DOMAIN g.sets = 1..2, InPicture(g)
    PROVE  LET h == RenderImguiPass(g) IN
           Painted(g, h, Imgui, <<Widget>>) /\ h.scissor = "widget"
<1> DEFINE v == With(g, Imgui, 64)
           w == [v EXCEPT !.scissor = "widget"]
           d == DrawInstances(w, <<Widget>>, 0)
           h == RenderImguiPass(g)
<1>1. Imgui.pass = "main" /\ Imgui.sets = <<"bindless">> /\ Imgui.size = 64 /\ Imgui.stride = 0
    BY Pipelines DEF Pipe
<1>2. Ready(v, Imgui) /\ Same(g, v)
    BY <1>1, WithReady
<1>3. h = d
    BY Zenon DEF RenderImguiPass, Widget
<1> HIDE DEF v
<1>4. /\ IsBuffer(w) /\ w.pass = v.pass /\ w.pipe = v.pipe /\ w.sets = v.sets /\ w.push = v.push
      /\ w.pixel = v.pixel /\ w.draws = v.draws /\ w.shadows = v.shadows /\ w.scissor = "widget"
    BY <1>2 DEF Ready, IsBuffer
<1> HIDE DEF w, h
<1>5. Ready(w, Imgui) /\ w.pass = "main"
    BY <1>2, <1>4 DEF Ready, Same, InPicture
<1>6. Painted(w, d, Imgui, <<Widget>>) /\ d.scissor = w.scissor
    <2>1. (w.scissor = "frame" \/ Imgui = Imgui) /\ 0 = Imgui.stride
        BY <1>1
    <2> DEFINE p == Imgui
    <2>2. Ready(w, p) /\ p.pass = "main" /\ p.sets = <<"bindless">>
        BY <1>1, <1>5
    <2> HIDE DEF p
    <2>3. Painted(w, d, p, <<Widget>>) /\ d.scissor = w.scissor
        BY ZenonT(40), <1>5, <2>1, <2>2, ReadyPaints DEF p
    <2> QED BY <2>3 DEF p
<1> HIDE DEF d
<1>7. Painted(g, d, Imgui, <<Widget>>) /\ d.scissor = "widget"
    BY <1>2, <1>4, <1>6 DEF Painted, Same
<1> QED BY <1>3, <1>7 DEF h

-----------------------------------------------------------------------------
(* FrameRecording: the shadow pass.                                        *)

Maps(n) == [layout : {"attachment", "read_only"}, light : 0..n, casters : Seq(Anything)]
ShadowMaps(n) == [MapSlots -> Maps(n)]

Relit(r, n) == [r EXCEPT !.light = n]

LEMMA RelitIs ==
    ASSUME NEW n \in Nat, NEW r \in Maps(n)
    PROVE  /\ Relit(r, n) \in Maps(n) /\ Relit(r, n).light = n
           /\ Relit(r, n).layout = r.layout /\ Relit(r, n).casters = r.casters
<1> DEFINE s == [layout |-> r.layout, light |-> n, casters |-> r.casters]
<1>1. /\ r = [layout |-> r.layout, light |-> r.light, casters |-> r.casters]
      /\ r.layout \in {"attachment", "read_only"} /\ r.light \in 0..n
      /\ r.casters \in Seq(Anything)
    BY DEF Maps
<1>2. /\ s.light = n /\ s.layout = r.layout /\ s.casters = r.casters
      /\ s \in Maps(n)
    BY <1>1 DEF Maps
<1>3. Relit(r, n) = s
    BY <1>1 DEF Relit
<1> QED BY <1>2, <1>3

InLayout(r, l) == [r EXCEPT !.layout = l]

LEMMA InLayoutIs ==
    ASSUME NEW n \in Nat, NEW r \in Maps(n), NEW l \in {"attachment", "read_only"}
    PROVE  /\ InLayout(r, l) \in Maps(n) /\ InLayout(r, l).layout = l
           /\ InLayout(r, l).light = r.light /\ InLayout(r, l).casters = r.casters
<1> DEFINE s == [layout |-> l, light |-> r.light, casters |-> r.casters]
<1>1. /\ r = [layout |-> r.layout, light |-> r.light, casters |-> r.casters]
      /\ r.layout \in {"attachment", "read_only"} /\ r.light \in 0..n
      /\ r.casters \in Seq(Anything)
    BY DEF Maps
<1>2. /\ s.layout = l /\ s.light = r.light /\ s.casters = r.casters
      /\ s \in Maps(n)
    BY <1>1 DEF Maps
<1>3. InLayout(r, l) = s
    BY <1>1 DEF InLayout
<1> QED BY <1>2, <1>3

Cast(r, c) == [r EXCEPT !.casters = c]

LEMMA CastIs ==
    ASSUME NEW n \in Nat, NEW r \in Maps(n), NEW c \in Seq(Anything)
    PROVE  /\ Cast(r, c) \in Maps(n) /\ Cast(r, c).casters = c
           /\ Cast(r, c).layout = r.layout /\ Cast(r, c).light = r.light
<1> DEFINE s == [layout |-> r.layout, light |-> r.light, casters |-> c]
<1>1. /\ r = [layout |-> r.layout, light |-> r.light, casters |-> r.casters]
      /\ r.layout \in {"attachment", "read_only"} /\ r.light \in 0..n
      /\ r.casters \in Seq(Anything)
    BY DEF Maps
<1>2. /\ s.casters = c /\ s.layout = r.layout /\ s.light = r.light
      /\ s \in Maps(n)
    BY <1>1 DEF Maps
<1>3. Cast(r, c) = s
    BY <1>1 DEF Cast
<1> QED BY <1>2, <1>3

LEMMA ShadowBegun ==
    ASSUME NEW g, IsBuffer(g), begun \in Nat, frameIndex \in MapSlots, g.shadows \in ShadowMaps(begun)
    PROVE  LET h == BeginShadow(UpdateShadow(g)) IN
           /\ IsBuffer(h) /\ h.pass = "shadow" /\ h.scissor = "shadow" /\ h.pixel = ClearedPixel
           /\ h.sets = g.sets /\ h.draws = g.draws /\ h.shadows \in ShadowMaps(begun)
           /\ h.shadows[frameIndex].light = begun /\ h.shadows[frameIndex].casters = <<>>
<1> DEFINE f == frameIndex
           r == g.shadows[f]
           r1 == Relit(r, begun)
           r2 == InLayout(r1, "attachment")
           r3 == Cast(r2, <<>>)
           m == [g.shadows EXCEPT ![f] = r1]
           n == [m EXCEPT ![f] = r2]
           s == [n EXCEPT ![f] = r3]
           u == UpdateShadow(g)
           h == BeginShadow(u)
<1>0. r1 \in Maps(begun) /\ r1.light = begun
    <2>1. r \in Maps(begun)
        BY DEF ShadowMaps
    <2> HIDE DEF r
    <2> QED BY <2>1, RelitIs
<1>1. m \in ShadowMaps(begun) /\ m[f] = r1
    <2> HIDE DEF r1
    <2> QED BY <1>0 DEF ShadowMaps
<1> HIDE DEF r1
<1>2. r2 \in Maps(begun) /\ r2.light = begun
    <2>1. "attachment" \in {"attachment", "read_only"}
        OBVIOUS
    <2> QED BY <1>0, <2>1, InLayoutIs
<1>12. n \in ShadowMaps(begun) /\ n[f] = r2
    <2> HIDE DEF r2, m
    <2> QED BY <1>1, <1>2 DEF ShadowMaps
<1> HIDE DEF r2
<1>3. r3 \in Maps(begun) /\ r3.light = begun /\ r3.casters = <<>>
    <2>1. <<>> \in Seq(Anything)
        OBVIOUS
    <2> QED BY <1>2, <2>1, CastIs
<1>13. s \in ShadowMaps(begun) /\ s[f] = r3
    <2> HIDE DEF r3, n
    <2> QED BY <1>12, <1>3 DEF ShadowMaps
<1>4. u = [g EXCEPT !.shadows = m]
    BY DEF UpdateShadow, IsBuffer, r1, Relit
<1> HIDE DEF m
<1> HIDE DEF u
<1>5. IsBuffer(u) /\ u.sets = g.sets /\ u.draws = g.draws /\ u.shadows = m
    BY <1>4 DEF IsBuffer
<1> DEFINE v == [[[u EXCEPT !.pass = "shadow"] EXCEPT !.scissor = "shadow"] EXCEPT !.pixel = ClearedPixel]
           w == [v EXCEPT !.shadows[f].layout = "attachment"]
           x == [w EXCEPT !.shadows[f].casters = <<>>]
<1>14. v = [[[u EXCEPT !.pass = "shadow"] EXCEPT !.scissor = "shadow"] EXCEPT !.pixel = ClearedPixel]
    OBVIOUS
<1>6. h = x
    BY DEF BeginShadow
<1> HIDE DEF v, h
<1>7. /\ IsBuffer(v) /\ v.pass = "shadow" /\ v.scissor = "shadow" /\ v.pixel = ClearedPixel
      /\ v.sets = u.sets /\ v.draws = u.draws /\ v.shadows = m
    BY <1>5, <1>14 DEF IsBuffer
<1>8. w = [v EXCEPT !.shadows = n]
    BY <1>1, <1>7 DEF IsBuffer, r2, InLayout
<1> HIDE DEF n
<1> HIDE DEF w
<1>9. /\ IsBuffer(w) /\ w.pass = "shadow" /\ w.scissor = "shadow" /\ w.pixel = ClearedPixel
      /\ w.sets = u.sets /\ w.draws = u.draws /\ w.shadows = n
    BY <1>7, <1>8 DEF IsBuffer
<1>10. x = [w EXCEPT !.shadows = s]
    BY <1>12, <1>9 DEF IsBuffer, r3, Cast
<1> HIDE DEF s, x
<1>11. /\ IsBuffer(x) /\ x.pass = "shadow" /\ x.scissor = "shadow" /\ x.pixel = ClearedPixel
       /\ x.sets = u.sets /\ x.draws = u.draws /\ x.shadows = s
    BY <1>9, <1>10 DEF IsBuffer
<1> QED BY <1>3, <1>13, <1>5, <1>6, <1>11 DEF h, u

-----------------------------------------------------------------------------
(* FrameRecording: the scenes.                                             *)

BucketHolds(things, what, zs) ==
    /\ things \in Seq(Anything)
    /\ \A i \in 1..Len(things) : things[i].what = what /\ things[i].z \in zs

Surfaces == 2..(ClearDepth - 1)

\* What the passes may draw: surfaces between the camera and the sky.
SceneFilled(s) ==
    /\ BucketHolds(s.opaque, "opaque", Surfaces) /\ BucketHolds(s.outline, "outline", Surfaces)
    /\ BucketHolds(s.transparent, "transparent", Surfaces)
    /\ BucketHolds(s.outlineTransparent, "outlineTransparent", Surfaces)
    /\ BucketHolds(s.billboard, "billboard", Surfaces) /\ BucketHolds(s.text, "text", {0})

LEMMA BucketFilled ==
    ASSUME NEW what \in BucketNames, NEW zs \in SUBSET (0..ClearDepth), NEW things \in Bucket(what, zs)
    PROVE  BucketHolds(things, what, zs)
<1>1. PICK f \in BoundedSeq(zs, Room[what]) :
        things = [i \in DOMAIN f |-> [what |-> what, z |-> f[i], i |-> i]]
    BY DEF Bucket
<1>2. PICK n \in Nat : f \in [1..n -> zs]
    <2>1. Room[what] \in Nat
        BY DepthsAssumption
    <2>2. PICK n \in 0..Room[what] : f \in [1..n -> zs]
        BY <1>1 DEF BoundedSeq, SeqOf
    <2> QED BY <2>1, <2>2
<1>3. things = [i \in 1..n |-> [what |-> what, z |-> f[i], i |-> i]]
    BY <1>1, <1>2
<1>4. \A i \in 1..n : [what |-> what, z |-> f[i], i |-> i] \in Anything
    <2>1. \A i \in 1..n : f[i] \in zs /\ i \in Nat
        BY <1>2
    <2>2. \A i \in 1..n : f[i] \in 0..ClearDepth
        BY <2>1
    <2> QED BY <2>1, <2>2 DEF Anything
<1>5. things \in Seq(Anything) /\ Len(things) = n
    BY <1>3, <1>4
<1>6. \A i \in 1..n : things[i].what = what /\ things[i].z \in zs
    BY <1>2, <1>3
<1> QED BY <1>5, <1>6 DEF BucketHolds

LEMMA ScenesFilled ==
    ASSUME NEW s \in Scenes
    PROVE  SceneFilled(s)
<1>1. ClearDepth \in Nat /\ Depths \subseteq Surfaces
    BY DepthsAssumption DEF Surfaces
<1>2. Surfaces \subseteq 0..ClearDepth /\ {0} \subseteq 0..ClearDepth /\ Depths \subseteq 0..ClearDepth
    BY <1>1 DEF Surfaces
<1>3. /\ s.opaque \in Bucket("opaque", Depths) /\ s.outline \in Bucket("outline", Depths)
      /\ s.transparent \in Bucket("transparent", Depths)
      /\ s.outlineTransparent \in Bucket("outlineTransparent", Depths)
      /\ s.billboard \in Bucket("billboard", Depths) /\ s.text \in Bucket("text", {0})
    BY DEF Scenes
<1>4. /\ BucketHolds(s.opaque, "opaque", Depths) /\ BucketHolds(s.outline, "outline", Depths)
      /\ BucketHolds(s.transparent, "transparent", Depths)
      /\ BucketHolds(s.outlineTransparent, "outlineTransparent", Depths)
      /\ BucketHolds(s.billboard, "billboard", Depths) /\ BucketHolds(s.text, "text", {0})
    <2>1. /\ "opaque" \in BucketNames /\ "outline" \in BucketNames /\ "transparent" \in BucketNames
          /\ "outlineTransparent" \in BucketNames /\ "billboard" \in BucketNames
          /\ "text" \in BucketNames
        BY DEF BucketNames
    <2>2. Depths \in SUBSET (0..ClearDepth) /\ {0} \in SUBSET (0..ClearDepth)
        BY <1>2
    <2> QED BY <1>3, <2>1, <2>2, BucketFilled
<1>5. ASSUME NEW t, NEW w, BucketHolds(t, w, Depths) PROVE BucketHolds(t, w, Surfaces)
    BY <1>1, <1>5 DEF BucketHolds
<1> QED BY <1>4, <1>5 DEF SceneFilled

-----------------------------------------------------------------------------
(* FrameRecording: the shadow pass, drawn.                                 *)

LEMMA ShadowPass ==
    ASSUME NEW g, IsBuffer(g), DOMAIN g.sets = 1..2, g.draws = {}, begun \in Nat,
           frameIndex \in MapSlots, g.shadows \in ShadowMaps(begun),
           BucketHolds(scene.opaque, "opaque", Surfaces)
    PROVE  LET h == RenderShadowPass(g) IN
           /\ IsBuffer(h) /\ DOMAIN h.sets = 1..2 /\ h.pass = "none" /\ h.scissor = "shadow"
           /\ h.pixel \in Pixels /\ h.shadows \in ShadowMaps(begun)
           /\ h.shadows[frameIndex]
                = [layout |-> "read_only", light |-> begun, casters |-> scene.opaque]
           /\ \A d \in h.draws : DrawFits(d)
<1> DEFINE f == frameIndex
           p == ModelShadow
           cs == scene.opaque
           b == BeginShadow(UpdateShadow(g))
           j == BindPipeline(b, p)
           k == PushConstant(j, p, 64)
           d == DrawInstances(k, cs, ShadowInstance)
           e == IF cs = <<>> THEN k ELSE d
           h == EndShadow(e)
<1>0. RenderShadowPass(g) = h
    BY Zenon DEF RenderShadowPass, DrawBucket
<1>1. /\ IsBuffer(b) /\ b.pass = "shadow" /\ b.scissor = "shadow" /\ b.pixel = ClearedPixel
      /\ b.sets = g.sets /\ b.draws = g.draws /\ b.shadows \in ShadowMaps(begun)
      /\ b.shadows[frameIndex].light = begun /\ b.shadows[frameIndex].casters = <<>>
    BY ShadowBegun
<1> HIDE DEF b
<1>2. IsBuffer(j) /\ Same(b, j) /\ j.pipe = p /\ j.sets = b.sets
    <2> HIDE DEF p
    <2> QED BY <1>1, BindPipelineOn
<1> HIDE DEF j
<1>3. IsBuffer(k) /\ Same(j, k) /\ k.pipe = p /\ k.sets = b.sets /\ k.push = [size |-> 64, layout |-> Layout(p)]
    <2> HIDE DEF p
    <2> QED BY <1>2, PushConstantOn
<1> HIDE DEF k
<1>4. /\ k.pass = "shadow" /\ k.scissor = "shadow" /\ k.pixel = ClearedPixel /\ k.sets = g.sets
      /\ k.draws = {} /\ k.shadows = b.shadows
    BY <1>1, <1>2, <1>3 DEF Same
<1>5. Drew(k, d, cs, ShadowInstance)
    BY <1>3, DrawInstancesOn
<1>6. /\ p.pass = "shadow" /\ p.sets = <<>> /\ p.size = 64 /\ p.stride = 64 /\ p.enabled = {"test", "write"}
      /\ p.colours = 0 /\ p.bias = 1
    BY Pipelines DEF Pipe
<1> HIDE DEF d, p
<1>7. DrawFits(Relied(k, ShadowInstance, Len(cs)))
    <2> DEFINE r == Relied(k, ShadowInstance, Len(cs))
    <2>1. /\ r.pipe = p /\ r.pass = "shadow" /\ r.scissor = "shadow" /\ r.stride = 64
          /\ r.push = [size |-> 64, layout |-> Layout(p)]
        BY <1>3, <1>4 DEF Relied, ShadowInstance
    <2> HIDE DEF r
    <2>2. r.push.size = 64 /\ r.push.layout.size = 64
        BY <1>6, <2>1 DEF Layout
    <2>3. Len(p.sets) = 0 /\ 1..0 = {} /\ 0 # 2
        BY <1>6
    <2>4. DrawFits(r)
        BY <1>6, <2>1, <2>2, <2>3 DEF DrawFits
    <2> QED BY <2>4 DEF r
<1>8. Shaded(p, ClearedPixel, cs) \in Pixels /\ ClearedPixel \in Pixels
    <2>1. ClearDepth \in Nat \ {0}
        BY DepthsAssumption
    <2>2. ClearedPixel \in Pixels
        BY <2>1 DEF ClearedPixel, Pixels
    <2>3. cs \in Seq(Anything) /\ \A i \in 1..Len(cs) : cs[i].z + p.bias \in 1..ClearDepth
        BY <1>6, <2>1 DEF BucketHolds, Surfaces
    <2> HIDE DEF cs
    <2> QED BY <1>6, <2>2, <2>3, DepthDraw
<1>9. [k.shadows EXCEPT ![f].casters = cs] = [k.shadows EXCEPT ![f] = Cast(k.shadows[f], cs)]
    BY DEF Cast
<1>10. /\ IsBuffer(e) /\ DOMAIN e.sets = 1..2 /\ e.scissor = "shadow" /\ e.pixel \in Pixels
       /\ e.shadows \in ShadowMaps(begun) /\ e.shadows[f].light = begun /\ e.shadows[f].casters = cs
       /\ \A x \in e.draws : DrawFits(x)
    <2>1. CASE cs = <<>>
        <3>1. e = k
            BY <2>1
        <3> HIDE DEF e
        <3> QED BY <1>1, <1>3, <1>4, <1>8, <2>1, <3>1
    <2>2. CASE cs # <<>>
        <3>1. e = d
            BY <2>2
        <3> HIDE DEF e
        <3> DEFINE r == k.shadows[f]
        <3>2. r \in Maps(begun) /\ cs \in Seq(Anything) /\ k.shadows \in ShadowMaps(begun) /\ r.light = begun
            BY <1>1, <1>4 DEF ShadowMaps, BucketHolds
        <3>3. Cast(r, cs) \in Maps(begun) /\ Cast(r, cs).casters = cs /\ Cast(r, cs).light = r.light
            <4> HIDE DEF r
            <4> QED BY <3>2, CastIs
        <3>4. d.shadows = [k.shadows EXCEPT ![f] = Cast(r, cs)]
            BY <1>4, <1>5, <1>9 DEF Drew
        <3> DEFINE c == Cast(r, cs)
        <3> HIDE DEF c
        <3>5. d.shadows = [k.shadows EXCEPT ![f] = c] /\ c \in Maps(begun) /\ c.casters = cs /\ c.light = begun
            BY <3>2, <3>3, <3>4 DEF c
        <3> HIDE DEF r
        <3>6. d.shadows \in ShadowMaps(begun) /\ d.shadows[f] = c
            BY <3>2, <3>5 DEF ShadowMaps
        <3>7. \A x \in d.draws : DrawFits(x)
            BY <1>4, <1>5, <1>7 DEF Drew
        <3>8. IsBuffer(d) /\ DOMAIN d.sets = 1..2 /\ d.scissor = "shadow" /\ d.pixel \in Pixels
            BY <1>3, <1>4, <1>5, <1>8 DEF Drew
        <3> QED BY <3>1, <3>5, <3>6, <3>7, <3>8
    <2> QED BY <2>1, <2>2
<1> HIDE DEF e
<1> DEFINE c == InLayout(e.shadows[f], "read_only")
           s == [e.shadows EXCEPT ![f] = c]
<1>11. c \in Maps(begun) /\ c.layout = "read_only" /\ c.light = begun /\ c.casters = cs
    <2> DEFINE r == e.shadows[f]
    <2>1. r \in Maps(begun) /\ "read_only" \in {"attachment", "read_only"} /\ r.light = begun /\ r.casters = cs
        BY <1>10 DEF ShadowMaps
    <2> HIDE DEF r
    <2>2. /\ InLayout(r, "read_only") \in Maps(begun) /\ InLayout(r, "read_only").layout = "read_only"
          /\ InLayout(r, "read_only").light = r.light /\ InLayout(r, "read_only").casters = r.casters
        BY <2>1, InLayoutIs
    <2> QED BY <2>1, <2>2 DEF r
<1>12. h = [[e EXCEPT !.pass = "none"] EXCEPT !.shadows = s]
    BY <1>10 DEF EndShadow, IsBuffer, InLayout
<1>13. c = [layout |-> "read_only", light |-> begun, casters |-> cs]
    BY <1>11 DEF Maps
<1> HIDE DEF c
<1>14. s \in ShadowMaps(begun) /\ s[f] = c
    BY <1>10, <1>11 DEF ShadowMaps
<1> HIDE DEF s, h
<1>15. /\ IsBuffer(h) /\ h.sets = e.sets /\ h.pass = "none" /\ h.scissor = e.scissor /\ h.pixel = e.pixel
       /\ h.draws = e.draws /\ h.shadows = s
    BY <1>10, <1>12 DEF IsBuffer
<1>16. /\ IsBuffer(h) /\ DOMAIN h.sets = 1..2 /\ h.pass = "none" /\ h.scissor = "shadow"
       /\ h.pixel \in Pixels /\ h.shadows \in ShadowMaps(begun)
       /\ h.shadows[frameIndex]
            = [layout |-> "read_only", light |-> begun, casters |-> scene.opaque]
       /\ \A x \in h.draws : DrawFits(x)
    BY <1>10, <1>13, <1>14, <1>15
<1> QED BY <1>0, <1>16

-----------------------------------------------------------------------------
(* FrameRecording: the picture, pass by pass.                              *)

\* What the nearest solid surface, or the sky, leaves in the pixel.
Based(x) ==
    /\ x.seen # <<>>
    /\ Solid = {} => x.depth = ClearDepth /\ x.seen[1] = Sky
    /\ Solid # {} => \E s \in Solid : /\ x.depth = s.z /\ x.seen[1] = s.t
                                      /\ \A o \in Solid : s.z <= o.z

Quiet(seen) == \A i \in 1..Len(seen) : seen[i].what # "text"
TextLast(seen) ==
    \A i, j \in 1..Len(seen) : seen[i].what = "text" /\ j > i => seen[j].what \in {"text", "imgui"}

LEMMA LaidIs ==
    ASSUME NEW things, NEW what, BucketHolds(things, what, Surfaces)
    PROVE  Laid(things, 0, Len(things)) = Of(things) /\ Laid(things, -1, Len(things)) = Biased(things)
<1>1. DOMAIN things = 1..Len(things) /\ \A i \in 1..Len(things) : things[i].z \in Int
    BY DEF BucketHolds, Surfaces
<1>2. \A i \in 1..Len(things) : things[i].z + 0 = things[i].z /\ things[i].z + (-1) = things[i].z - 1
    BY <1>1
<1>3. Laid(things, 0, Len(things)) = Of(things)
    BY <1>1, <1>2 DEF Laid, Of
<1>4. Laid(things, -1, Len(things)) = Biased(things)
    BY <1>1, <1>2 DEF Laid, Biased
<1> QED BY <1>3, <1>4

LEMMA SolidSurfaces ==
    ASSUME SceneFilled(scene)
    PROVE  /\ \A s \in Of(scene.opaque) : s.z \in 1..(ClearDepth - 1) /\ s.t \in Anything /\ s.t.what # "text"
           /\ \A s \in Solid : s.z \in 1..(ClearDepth - 1) /\ s.t \in Anything /\ s.t.what # "text"
<1>0. ClearDepth \in Nat
    BY DepthsAssumption
<1>1. ASSUME NEW s \in Of(scene.opaque)
      PROVE  s.z \in 1..(ClearDepth - 1) /\ s.t \in Anything /\ s.t.what # "text"
    <2>1. PICK i \in DOMAIN scene.opaque : s = [z |-> scene.opaque[i].z, t |-> scene.opaque[i]]
        BY DEF Of
    <2>2. i \in 1..Len(scene.opaque) /\ scene.opaque[i] \in Anything
        BY <2>1 DEF SceneFilled, BucketHolds
    <2>3. scene.opaque[i].what = "opaque" /\ scene.opaque[i].z \in Surfaces
        BY <2>2 DEF SceneFilled, BucketHolds
    <2> QED BY <1>0, <2>1, <2>2, <2>3 DEF Surfaces
<1>2. ASSUME NEW s \in Biased(scene.outline)
      PROVE  s.z \in 1..(ClearDepth - 1) /\ s.t \in Anything /\ s.t.what # "text"
    <2>1. PICK i \in DOMAIN scene.outline : s = [z |-> scene.outline[i].z - 1, t |-> scene.outline[i]]
        BY DEF Biased
    <2>2. i \in 1..Len(scene.outline) /\ scene.outline[i] \in Anything
        BY <2>1 DEF SceneFilled, BucketHolds
    <2>3. scene.outline[i].what = "outline" /\ scene.outline[i].z \in Surfaces
        BY <2>2 DEF SceneFilled, BucketHolds
    <2> QED BY <1>0, <2>1, <2>2, <2>3 DEF Surfaces
<1> QED BY <1>1, <1>2 DEF Solid

LEMMA OpaqueShaded ==
    ASSUME SceneFilled(scene)
    PROVE  LET x == Shaded(ModelOpaque, ClearedPixel, scene.opaque) IN
           x \in Pixels /\ Solidly(x, Of(scene.opaque))
<1> DEFINE p == ModelOpaque
           cs == scene.opaque
           S == {}
<1>1. p.enabled = {"test", "write"} /\ p.compare \in {"less", "less_or_equal"} /\ p.colours = 1 /\ p.bias = 0
    BY Pipelines DEF Pipe
<1>2. ClearedPixel \in Pixels /\ Solidly(ClearedPixel, S)
    BY DepthsAssumption DEF ClearedPixel, Pixels, Solidly
<1>3. cs \in Seq(Anything) /\ \A i \in 1..Len(cs) : cs[i].z + 0 \in 1..(ClearDepth - 1)
    BY DepthsAssumption DEF SceneFilled, BucketHolds, Surfaces
<1>4. S \cup Laid(cs, 0, Len(cs)) = Of(cs)
    BY LaidIs DEF SceneFilled
<1> HIDE DEF p, cs, S
<1>5. /\ Shaded(p, ClearedPixel, cs) \in Pixels
      /\ Solidly(Shaded(p, ClearedPixel, cs), S \cup Laid(cs, p.bias, Len(cs)))
    <2>1. \A s \in S : s.z \in 1..(ClearDepth - 1)
        BY DEF S
    <2>2. \A i \in 1..Len(cs) : cs[i].z + p.bias \in 1..(ClearDepth - 1)
        BY <1>1, <1>3
    <2>3. p.bias \in Int
        BY <1>1
    <2> QED BY <1>1, <1>2, <1>3, <2>1, <2>2, <2>3, SolidDraw
<1>6. Shaded(p, ClearedPixel, cs) \in Pixels /\ Solidly(Shaded(p, ClearedPixel, cs), Of(cs))
    BY <1>1, <1>4, <1>5
<1> QED BY <1>6 DEF p, cs

LEMMA OutlinesShaded ==
    ASSUME SceneFilled(scene), NEW x \in Pixels, Solidly(x, Of(scene.opaque))
    PROVE  LET y == Shaded(OutlineOpaque, x, scene.outline) IN y \in Pixels /\ Solidly(y, Solid)
<1> DEFINE p == OutlineOpaque
           cs == scene.outline
           S == Of(scene.opaque)
<1>1. p.enabled = {"test", "write"} /\ p.compare \in {"less", "less_or_equal"} /\ p.colours = 1 /\ p.bias = -1
    BY Pipelines DEF Pipe
<1>2. cs \in Seq(Anything) /\ \A i \in 1..Len(cs) : cs[i].z + (-1) \in 1..(ClearDepth - 1)
    <2>1. cs \in Seq(Anything) /\ \A i \in 1..Len(cs) : cs[i].z \in 2..(ClearDepth - 1)
        BY DEF SceneFilled, BucketHolds, Surfaces
    <2>2. ClearDepth \in Int
        BY DepthsAssumption
    <2>3. \A z \in 2..(ClearDepth - 1) : z + (-1) \in 1..(ClearDepth - 1)
        BY <2>2
    <2> QED BY <2>1, <2>3
<1>3. S \cup Laid(cs, -1, Len(cs)) = Solid
    BY LaidIs DEF SceneFilled, Solid
<1>4. \A s \in S : s.z \in 1..(ClearDepth - 1)
    BY SolidSurfaces
<1> HIDE DEF p, cs, S
<1>5. Shaded(p, x, cs) \in Pixels /\ Solidly(Shaded(p, x, cs), S \cup Laid(cs, p.bias, Len(cs)))
    <2>1. \A i \in 1..Len(cs) : cs[i].z + p.bias \in 1..(ClearDepth - 1)
        BY <1>1, <1>2
    <2>2. Solidly(x, S) /\ p.bias \in Int
        BY <1>1 DEF S
    <2> QED BY <1>1, <1>2, <1>4, <2>1, <2>2, SolidDraw
<1>6. Shaded(p, x, cs) \in Pixels /\ Solidly(Shaded(p, x, cs), Solid)
    BY <1>1, <1>3, <1>5
<1> QED BY <1>6 DEF p, cs

LEMMA SkyShaded ==
    ASSUME SceneFilled(scene), NEW x \in Pixels, Solidly(x, Solid)
    PROVE  LET y == Shaded(Skybox, x, <<Sky>>) IN
           y \in Pixels /\ Based(y) /\ Over(y) = {} /\ Quiet(y.seen)
<1> DEFINE p == Skybox
           y == Shaded(p, x, <<Sky>>)
<1>0. ClearDepth \in Nat \ {0} /\ x.depth \in 1..ClearDepth /\ x.seen \in Seq(Anything)
    BY DepthsAssumption DEF Pixels
<1>1. p.enabled = {"test"} /\ p.compare = "less_or_equal" /\ p.colours = 1 /\ p.bias = 0
    BY Pipelines DEF Pipe
<1>2. Sky.z + p.bias = ClearDepth /\ Sky.what = "skybox" /\ Sky \in Anything
    BY <1>0, <1>1 DEF Sky, Anything
<1>3. y = IF ClearDepth <= x.depth THEN [depth |-> x.depth, seen |-> <<Sky>>] ELSE x
    <2>1. y = Shade(p, x, Sky)
        BY ShadedOne
    <2>2. Passes(p, ClearDepth, x.depth) <=> ClearDepth <= x.depth
        BY <1>1 DEF Passes
    <2>3. ~({"test", "write"} \subseteq p.enabled) /\ "blend" \notin p.enabled /\ p.colours # 0
        BY <1>1
    <2>4. Shade(p, x, Sky) = IF Passes(p, Sky.z + p.bias, x.depth)
                             THEN [depth |-> x.depth, seen |-> <<Sky>>] ELSE x
        BY <2>3, ShadeIs, Zenon
    <2> HIDE DEF p, y
    <2> QED BY <1>2, <2>1, <2>2, <2>4
<1> HIDE DEF p, y
<1>4. CASE Solid = {}
    <2>1. x.depth = ClearDepth
        BY <1>4 DEF Solidly
    <2>2. y = [depth |-> ClearDepth, seen |-> <<Sky>>]
        BY <1>0, <1>3, <2>1
    <2>3. y.depth = ClearDepth /\ y.seen = <<Sky>>
        BY <2>2
    <2>4. y \in Pixels
        BY <1>0, <1>2, <2>2 DEF Pixels
    <2>5. Based(y) /\ Over(y) = {} /\ Quiet(y.seen)
        <3>1. Len(<<Sky>>) = 1 /\ <<Sky>>[1] = Sky /\ <<Sky>> # <<>> /\ 2..1 = {}
            OBVIOUS
        <3>2. Based(y)
            BY <1>4, <2>3, <3>1 DEF Based
        <3>3. Over(y) = {}
            BY <2>3, <3>1 DEF Over
        <3>4. Quiet(y.seen)
            BY <1>2, <2>3, <3>1 DEF Quiet
        <3> QED BY <3>2, <3>3, <3>4
    <2> QED BY <2>4, <2>5 DEF y, p
<1>5. CASE Solid # {}
    <2>1. PICK s \in Solid : x.depth = s.z /\ x.seen = <<s.t>> /\ \A o \in Solid : s.z <= o.z
        BY <1>5 DEF Solidly
    <2>2. s.z \in 1..(ClearDepth - 1) /\ s.t.what # "text"
        BY SolidSurfaces
    <2>3. y = x
        BY <1>0, <1>3, <2>1, <2>2
    <2>4. Len(<<s.t>>) = 1 /\ <<s.t>>[1] = s.t /\ <<s.t>> # <<>> /\ 2..1 = {}
        OBVIOUS
    <2>5. Based(y)
        BY <1>5, <2>1, <2>3, <2>4 DEF Based
    <2>6. Over(y) = {}
        BY <2>1, <2>3, <2>4 DEF Over
    <2>7. Quiet(y.seen)
        BY <2>1, <2>2, <2>3, <2>4 DEF Quiet
    <2> QED BY <2>3, <2>5, <2>6, <2>7 DEF y, p
<1> QED BY <1>4, <1>5

\* A pass of what is blended, before the texts.
LEMMA QuietBlend ==
    ASSUME NEW p, "write" \notin p.enabled, "blend" \in p.enabled, p.colours = 1,
           NEW things, NEW what, NEW zs, BucketHolds(things, what, zs), what # "text",
           NEW x \in Pixels, Based(x), Quiet(x.seen)
    PROVE  LET y == Shaded(p, x, things) IN
           /\ y \in Pixels /\ y.depth = x.depth /\ Based(y) /\ Quiet(y.seen)
           /\ Over(y) = Over(x) \cup Passing(p, things, x.depth, Len(things))
<1> DEFINE Q == {s \in Seq(Anything) : Quiet(s)}
           y == Shaded(p, x, things)
<1>1. things \in Seq(Anything) /\ \A i \in 1..Len(things) : things[i].what # "text" /\ things[i] \in Anything
    BY DEF BucketHolds
<1>2. x.seen \in Q /\ x.seen # <<>>
    BY DEF Pixels, Based
<1>3. ASSUME NEW s \in Q, NEW i \in 1..Len(things) PROVE Append(s, things[i]) \in Q
    <2> DEFINE t == things[i]
    <2>1. t.what # "text" /\ t \in Anything /\ s \in Seq(Anything) /\ Quiet(s)
        BY <1>1
    <2> HIDE DEF t
    <2>2. /\ Append(s, t) \in Seq(Anything) /\ Len(Append(s, t)) = Len(s) + 1
          /\ Append(s, t)[Len(s) + 1] = t /\ \A j \in 1..Len(s) : Append(s, t)[j] = s[j]
        BY <2>1, AppendProperties
    <2>3. Len(s) \in Nat /\ \A j \in 1..(Len(s) + 1) : j \in 1..Len(s) \/ j = Len(s) + 1
        BY <2>1
    <2>4. Quiet(Append(s, t))
        BY <2>1, <2>2, <2>3 DEF Quiet
    <2> QED BY <2>2, <2>4 DEF t
<1> HIDE DEF Q, y
<1>4. /\ y \in Pixels /\ y.depth = x.depth /\ y.seen # <<>> /\ y.seen[1] = x.seen[1]
      /\ y.seen \in Q
      /\ Over(y) = Over(x) \cup Passing(p, things, x.depth, Len(things))
    <2>1. Q \in SUBSET Seq(Anything)
        BY DEF Q
    <2>2. \A s \in Q : \A i \in 1..Len(things) : Append(s, things[i]) \in Q
        BY <1>3
    <2>3. things \in Seq(Anything)
        BY <1>1
    <2> QED BY <1>2, <2>1, <2>2, <2>3, BlendDraw DEF y
<1>5. Based(y)
    BY <1>4 DEF Based
<1> QED BY <1>4, <1>5 DEF Q, y

LEMMA TextBlend ==
    ASSUME NEW p, "write" \notin p.enabled, "blend" \in p.enabled, p.colours = 1,
           NEW things \in Seq(Anything),
           \A i \in 1..Len(things) : things[i].what \in {"text", "imgui"},
           NEW x \in Pixels, Based(x), TextLast(x.seen)
    PROVE  LET y == Shaded(p, x, things) IN
           /\ y \in Pixels /\ y.depth = x.depth /\ Based(y) /\ TextLast(y.seen)
           /\ Over(y) = Over(x) \cup Passing(p, things, x.depth, Len(things))
<1> DEFINE Q == {s \in Seq(Anything) : TextLast(s)}
           y == Shaded(p, x, things)
<1>1. \A i \in 1..Len(things) : things[i] \in Anything
    OBVIOUS
<1>2. x.seen \in Q /\ x.seen # <<>>
    BY DEF Pixels, Based
<1>3. ASSUME NEW s \in Q, NEW i \in 1..Len(things) PROVE Append(s, things[i]) \in Q
    <2> DEFINE t == things[i]
    <2>1. t.what \in {"text", "imgui"} /\ t \in Anything /\ s \in Seq(Anything) /\ TextLast(s)
        BY <1>1
    <2> HIDE DEF t
    <2>2. /\ Append(s, t) \in Seq(Anything) /\ Len(Append(s, t)) = Len(s) + 1
          /\ Append(s, t)[Len(s) + 1] = t /\ \A j \in 1..Len(s) : Append(s, t)[j] = s[j]
        BY <2>1, AppendProperties
    <2>3. Len(s) \in Nat /\ \A j \in 1..(Len(s) + 1) : j \in 1..Len(s) \/ j = Len(s) + 1
        BY <2>1
    <2>4. ASSUME NEW a \in 1..(Len(s) + 1), NEW b \in 1..(Len(s) + 1),
                 Append(s, t)[a].what = "text", b > a
          PROVE  Append(s, t)[b].what \in {"text", "imgui"}
        <3>1. a \in 1..Len(s)
            BY <2>3, <2>4
        <3>2. CASE b = Len(s) + 1
            BY <2>1, <2>2, <3>2
        <3>3. CASE b \in 1..Len(s)
            BY <2>1, <2>2, <2>4, <3>1, <3>3 DEF TextLast
        <3> QED BY <2>3, <3>2, <3>3
    <2>5. TextLast(Append(s, t))
        BY <2>2, <2>4 DEF TextLast
    <2> QED BY <2>2, <2>5 DEF t
<1> HIDE DEF Q, y
<1>4. /\ y \in Pixels /\ y.depth = x.depth /\ y.seen # <<>> /\ y.seen[1] = x.seen[1]
      /\ y.seen \in Q
      /\ Over(y) = Over(x) \cup Passing(p, things, x.depth, Len(things))
    <2>1. Q \in SUBSET Seq(Anything)
        BY DEF Q
    <2> QED BY <1>1, <1>2, <1>3, <2>1, BlendDraw DEF y
<1>5. Based(y)
    BY <1>4 DEF Based
<1> QED BY <1>4, <1>5 DEF Q, y

LEMMA WidgetShaded ==
    ASSUME NEW x \in Pixels, Based(x), TextLast(x.seen)
    PROVE  LET y == Shaded(Imgui, x, <<Widget>>) IN
           /\ y \in Pixels /\ y.depth = x.depth /\ Based(y) /\ TextLast(y.seen)
           /\ Over(y) = Over(x) \cup {Widget} /\ Last(y.seen).what = "imgui"
<1> DEFINE p == Imgui
           y == Shaded(p, x, <<Widget>>)
<1>1. p.enabled = {"blend"} /\ p.colours = 1
    BY Pipelines DEF Pipe
<1>2. /\ <<Widget>> \in Seq(Anything) /\ Len(<<Widget>>) = 1 /\ <<Widget>>[1] = Widget
      /\ Widget.what = "imgui" /\ Widget \in Anything /\ 1..1 = {1}
    BY DepthsAssumption DEF Widget, Anything
<1>3. \A d, z : Passes(p, z, d)
    BY <1>1 DEF Passes
<1>4. /\ y \in Pixels /\ y.depth = x.depth /\ Based(y) /\ TextLast(y.seen)
      /\ Over(y) = Over(x) \cup Passing(p, <<Widget>>, x.depth, 1)
    <2> DEFINE ws == <<Widget>>
    <2>1. ws \in Seq(Anything) /\ \A i \in 1..Len(ws) : ws[i].what \in {"text", "imgui"}
        BY <1>2
    <2>2. "write" \notin p.enabled /\ "blend" \in p.enabled
        BY <1>1
    <2>3. Len(ws) = 1
        BY <1>2
    <2> HIDE DEF p, ws
    <2> DEFINE z == Shaded(p, x, ws)
    <2>4. /\ z \in Pixels /\ z.depth = x.depth /\ Based(z) /\ TextLast(z.seen)
          /\ Over(z) = Over(x) \cup Passing(p, ws, x.depth, Len(ws))
        BY <1>1, <2>1, <2>2, TextBlend
    <2> HIDE DEF z, y
    <2>5. z = y
        BY DEF z, y, ws
    <2> QED BY <2>3, <2>4, <2>5 DEF ws
<1>5. Passing(p, <<Widget>>, x.depth, 1) = {Widget}
    BY <1>2, <1>3 DEF Passing
<1>6. Last(y.seen).what = "imgui"
    <2>1. y = [depth |-> x.depth, seen |-> Append(x.seen, Widget)]
        <3>1. y = Shade(p, x, Widget)
            BY ShadedOne
        <3>2. "write" \notin p.enabled /\ "blend" \in p.enabled
            BY <1>1
        <3> QED BY <1>1, <1>3, <3>1, <3>2, ShadeBlend
    <2>2. x.seen \in Seq(Anything)
        BY DEF Pixels
    <2>3. Len(Append(x.seen, Widget)) = Len(x.seen) + 1 /\ Append(x.seen, Widget)[Len(x.seen) + 1] = Widget
        BY <1>2, <2>2, AppendProperties
    <2> HIDE DEF y
    <2> QED BY <1>2, <2>1, <2>3 DEF Last
<1> QED BY <1>4, <1>5, <1>6

-----------------------------------------------------------------------------
(* FrameRecording: the invariant.                                          *)

\* What the j-th call blends over a pixel of depth d.
Layer(j, d) ==
    IF j = 6 THEN Passing(ModelTransparent, scene.transparent, d, Len(scene.transparent))
    ELSE IF j = 7 THEN Passing(OutlineTransparent, scene.outlineTransparent, d,
                               Len(scene.outlineTransparent))
    ELSE IF j = 8 THEN Passing(BillboardText, scene.billboard, d, Len(scene.billboard))
    ELSE IF j = 9 THEN Passing(TextPipeline, scene.text, d, Len(scene.text))
    ELSE IF j = 10 THEN {Widget} ELSE {}
Layers(k, d) == UNION {Layer(j, d) : j \in 6..k}

ThisMap(g) ==
    g.shadows[frameIndex] = [layout |-> "read_only", light |-> begun, casters |-> scene.opaque]

BufferRight ==
    /\ begun \in 0..MaxFrames /\ frameIndex \in MapSlots /\ step \in 0..11
    /\ step < 11 => begun > 0
    /\ SceneFilled(scene)
    /\ IsBuffer(drawn) /\ DOMAIN drawn.sets = 1..2
    /\ drawn.pass \in {"none", "shadow", "main"}
    /\ drawn.scissor \in {"none", "shadow", "frame", "widget"}
    /\ drawn.shadows \in ShadowMaps(begun)
    /\ \A d \in drawn.draws : DrawFits(d)
    /\ step = 0 => drawn.draws = {}
    /\ step >= 1 /\ begun > 0 => ThisMap(drawn)
    /\ step \in 2..10 => drawn.pass = "main"
    /\ step \in 2..9 => drawn.scissor = "frame"

PictureRight ==
    /\ drawn.pixel \in Pixels
    /\ step = 2 => drawn.pixel = ClearedPixel
    /\ step = 3 => Solidly(drawn.pixel, Of(scene.opaque))
    /\ step = 4 => Solidly(drawn.pixel, Solid)
    /\ step >= 5 /\ begun > 0 =>
         Based(drawn.pixel) /\ Over(drawn.pixel) = Layers(step, drawn.pixel.depth)
    /\ step \in 5..8 => Quiet(drawn.pixel.seen)
    /\ step >= 9 /\ begun > 0 => TextLast(drawn.pixel.seen)
    /\ step >= 10 /\ begun > 0 => Last(drawn.pixel.seen).what = "imgui"

RecordingRight == BufferRight /\ PictureRight

LEMMA CallsAre ==
    /\ Len(Calls) = 11
    /\ \A i \in 1..11 :
         /\ Calls[i] = "shadow" => i = 1
         /\ Calls[i] = "begin" => i = 2
         /\ Calls[i] = "opaque" => i = 3
         /\ Calls[i] = "outlines" => i = 4
         /\ Calls[i] = "skybox" => i = 5
         /\ Calls[i] = "transparent" => i = 6
         /\ Calls[i] = "outlinesTransparent" => i = 7
         /\ Calls[i] = "billboards" => i = 8
         /\ Calls[i] = "texts" => i = 9
         /\ Calls[i] = "imgui" => i = 10
         /\ Calls[i] = "end" => i = 11
<1>1. \A i \in 1..11 : i = 1 \/ i = 2 \/ i = 3 \/ i = 4 \/ i = 5 \/ i = 6 \/ i = 7 \/ i = 8 \/ i = 9
                         \/ i = 10 \/ i = 11
    OBVIOUS
<1> QED BY <1>1 DEF Calls

LEMMA CallIs ==
    ASSUME NEW c, NEW h, step \in 0..11, Call(c, h)
    PROVE  /\ drawn' = h /\ step' = step + 1 /\ begun' = begun /\ frameIndex' = frameIndex
           /\ scene' = scene /\ step + 1 \in 1..11 /\ Calls[step + 1] = c
BY CallsAre DEF Call

LEMMA SameFrame ==
    ASSUME begun' = begun, frameIndex' = frameIndex, scene' = scene
    PROVE  /\ \A d : DrawFits(d)' <=> DrawFits(d)
           /\ \A g : ThisMap(g)' <=> ThisMap(g)
           /\ Solid' = Solid
           /\ \A x : Based(x)' <=> Based(x)
           /\ \A k, d : Layers(k, d)' = Layers(k, d)
<1>1. \A d : DrawFits(d)' <=> DrawFits(d)
    BY DEF DrawFits
<1>2. \A g : ThisMap(g)' <=> ThisMap(g)
    BY DEF ThisMap
<1>3. Solid' = Solid
    BY DEF Solid
<1>4. \A x : Based(x)' <=> Based(x)
    BY <1>3 DEF Based
<1>5. \A k, d : Layers(k, d)' = Layers(k, d)
    BY DEF Layers, Layer
<1> QED BY <1>1, <1>2, <1>3, <1>4, <1>5

\* A pass of the picture keeps the buffer right.
LEMMA PassKeepsBuffer ==
    ASSUME BufferRight, NEW c, NEW h, Call(c, h), NEW p, NEW things, step \in 2..9,
           Painted(drawn, h, p, things),
           h.scissor = drawn.scissor \/ (step = 9 /\ h.scissor = "widget")
    PROVE  BufferRight'
<1>1. /\ drawn' = h /\ step' = step + 1 /\ begun' = begun /\ frameIndex' = frameIndex
      /\ scene' = scene
    BY CallIs DEF BufferRight
<1>2. /\ \A d : DrawFits(d)' <=> DrawFits(d)
      /\ \A g : ThisMap(g)' <=> ThisMap(g)
    BY <1>1, SameFrame
<1>3. /\ IsBuffer(h) /\ DOMAIN h.sets = 1..2 /\ h.pass = "main" /\ h.shadows = drawn.shadows
      /\ \A d \in h.draws : DrawFits(d)
    BY DEF Painted, BufferRight
<1>4. drawn.scissor = "frame" /\ ThisMap(drawn)
    BY DEF BufferRight
<1>5. ThisMap(h)
    BY <1>3, <1>4 DEF ThisMap
<1>6. \A d \in drawn'.draws : DrawFits(d)'
    BY <1>1, <1>2, <1>3
<1>7. ThisMap(drawn)'
    BY <1>1, <1>5 DEF ThisMap
<1>8. /\ (begun \in 0..MaxFrames /\ frameIndex \in MapSlots /\ step \in 0..11)'
      /\ (step < 11 => begun > 0)' /\ SceneFilled(scene)'
    BY <1>1 DEF BufferRight
<1>9. /\ (IsBuffer(drawn) /\ DOMAIN drawn.sets = 1..2)'
      /\ (drawn.pass = "main")' /\ (drawn.scissor \in {"frame", "widget"})'
      /\ (step < 10 => drawn.scissor = "frame")'
      /\ (drawn.shadows \in ShadowMaps(begun))' /\ (step # 0)'
    BY <1>1, <1>3, <1>4 DEF BufferRight
<1> QED BY <1>6, <1>7, <1>8, <1>9 DEF BufferRight

LEMMA PictureHolds ==
    ASSUME BufferRight, step \in 2..9
    PROVE  IsBuffer(drawn) /\ DOMAIN drawn.sets = 1..2 /\ InPicture(drawn) /\ SceneFilled(scene)
BY DEF BufferRight, InPicture, ThisMap

LEMMA LayersGrow ==
    ASSUME NEW k \in 5..11, NEW d
    PROVE  Layers(5, d) = {} /\ Layers(k + 1, d) = Layers(k, d) \cup Layer(k + 1, d)
<1>1. 6..5 = {} /\ 6..(k + 1) = 6..k \cup {k + 1}
    OBVIOUS
<1> QED BY <1>1 DEF Layers

\* A pass that blends, after the skybox and before the texts.
LEMMA QuietStep ==
    ASSUME RecordingRight, NEW c, NEW h, Call(c, h), NEW p, NEW things, NEW what, NEW zs,
           step \in 5..7, Painted(drawn, h, p, things),
           "write" \notin p.enabled, "blend" \in p.enabled, p.colours = 1,
           BucketHolds(things, what, zs), what # "text",
           \A d : Layer(step + 1, d) = Passing(p, things, d, Len(things))
    PROVE  PictureRight'
<1>1. /\ drawn' = h /\ step' = step + 1 /\ begun' = begun /\ frameIndex' = frameIndex
      /\ scene' = scene
    BY CallIs DEF RecordingRight, BufferRight
<1> DEFINE x == drawn.pixel
           y == h.pixel
<1>3. /\ x \in Pixels /\ Based(x) /\ Quiet(x.seen) /\ Over(x) = Layers(step, x.depth)
    BY DEF RecordingRight, BufferRight, PictureRight
<1>4. y = Shaded(p, x, things)
    BY DEF Painted
<1> HIDE DEF x, y
<1>5. /\ y \in Pixels /\ y.depth = x.depth /\ Based(y) /\ Quiet(y.seen)
      /\ Over(y) = Over(x) \cup Passing(p, things, x.depth, Len(things))
    BY <1>3, <1>4, QuietBlend
<1>6. Over(y) = Layers(step + 1, y.depth)
    BY <1>3, <1>5, LayersGrow
<1>7. /\ (drawn.pixel)' = y /\ step' \in 6..8
    BY <1>1 DEF y
<1>8. Based(drawn.pixel)' /\ (Over(drawn.pixel) = Layers(step, drawn.pixel.depth))'
    <2>1. Layers(step, drawn.pixel.depth)' = Layers(step + 1, y.depth)
        BY <1>1, <1>7 DEF Layers, Layer
    <2>2. Over(drawn.pixel)' = Over(y)
        BY <1>7 DEF Over
    <2>3. Based(drawn.pixel)'
        BY <1>1, <1>5, <1>7 DEF Based, Solid
    <2> QED BY <1>6, <2>1, <2>2, <2>3
<1>9. Quiet(drawn.pixel.seen)' /\ (drawn.pixel \in Pixels)'
    BY <1>5, <1>7
<1> QED BY <1>7, <1>8, <1>9 DEF PictureRight

-----------------------------------------------------------------------------
(* FrameRecording: the calls.                                              *)

LEMMA ShadowCall ==
    ASSUME RecordingRight, Call("shadow", RenderShadowPass(drawn))
    PROVE  RecordingRight'
<1> DEFINE h == RenderShadowPass(drawn)
<1>1. /\ drawn' = h /\ step' = step + 1 /\ begun' = begun /\ frameIndex' = frameIndex
      /\ scene' = scene /\ step = 0
    BY CallIs, CallsAre DEF RecordingRight, BufferRight
<1>2. begun \in Nat /\ begun > 0 /\ drawn.draws = {}
    BY <1>1, DepthsAssumption DEF RecordingRight, BufferRight
<1>3. /\ IsBuffer(h) /\ DOMAIN h.sets = 1..2 /\ h.pass = "none" /\ h.scissor = "shadow"
      /\ h.pixel \in Pixels /\ h.shadows \in ShadowMaps(begun) /\ ThisMap(h)
      /\ \A d \in h.draws : DrawFits(d)
    BY <1>2, ShadowPass DEF RecordingRight, BufferRight, SceneFilled, ThisMap
<1> HIDE DEF h
<1>4. BufferRight'
    <2>1. \A d \in drawn'.draws : DrawFits(d)'
        BY <1>1, <1>3, SameFrame
    <2>2. ThisMap(drawn)'
        BY <1>1, <1>3 DEF ThisMap
    <2>3. /\ (begun \in 0..MaxFrames /\ frameIndex \in MapSlots /\ begun > 0)'
          /\ step' = 1 /\ SceneFilled(scene)'
        BY <1>1, <1>2 DEF RecordingRight, BufferRight
    <2>4. /\ (IsBuffer(drawn) /\ DOMAIN drawn.sets = 1..2)'
          /\ (drawn.pass = "none" /\ drawn.scissor = "shadow")'
          /\ (drawn.shadows \in ShadowMaps(begun))'
        BY <1>1, <1>3
    <2> QED BY <2>1, <2>2, <2>3, <2>4 DEF BufferRight
<1>5. PictureRight'
    BY <1>1, <1>3 DEF PictureRight
<1> QED BY <1>4, <1>5 DEF RecordingRight

LEMMA BeginCall ==
    ASSUME RecordingRight, Call("begin", BeginRenderPass(drawn))
    PROVE  RecordingRight'
<1> DEFINE h == BeginRenderPass(drawn)
<1>1. /\ drawn' = h /\ step' = step + 1 /\ begun' = begun /\ frameIndex' = frameIndex
      /\ scene' = scene /\ step = 1
    BY CallIs, CallsAre DEF RecordingRight, BufferRight
<1>2. /\ IsBuffer(drawn) /\ DOMAIN drawn.sets = 1..2 /\ drawn.shadows \in ShadowMaps(begun)
      /\ ThisMap(drawn) /\ \A d \in drawn.draws : DrawFits(d)
    BY <1>1 DEF RecordingRight, BufferRight
<1>3. /\ IsBuffer(h) /\ h.sets = drawn.sets /\ h.pass = "main" /\ h.scissor = "frame"
      /\ h.pixel = ClearedPixel /\ h.shadows = drawn.shadows /\ h.draws = drawn.draws
    <2> DEFINE v == [drawn EXCEPT !.pass = "main"]
               w == [v EXCEPT !.scissor = "frame"]
    <2>1. h = [w EXCEPT !.pixel = ClearedPixel]
        BY DEF BeginRenderPass
    <2> HIDE DEF h
    <2>2. /\ IsBuffer(v) /\ v.sets = drawn.sets /\ v.pass = "main" /\ v.shadows = drawn.shadows
          /\ v.draws = drawn.draws
        BY <1>2 DEF IsBuffer
    <2> HIDE DEF v
    <2>3. /\ IsBuffer(w) /\ w.sets = drawn.sets /\ w.pass = "main" /\ w.scissor = "frame"
          /\ w.shadows = drawn.shadows /\ w.draws = drawn.draws
        BY <2>2 DEF IsBuffer
    <2> HIDE DEF w
    <2> QED BY <2>1, <2>3 DEF IsBuffer
<1> HIDE DEF h
<1>4. BufferRight'
    <2>1. \A d \in drawn'.draws : DrawFits(d)'
        BY <1>1, <1>2, <1>3, SameFrame
    <2>2. ThisMap(drawn)'
        BY <1>1, <1>2, <1>3 DEF ThisMap
    <2>3. /\ (begun \in 0..MaxFrames /\ frameIndex \in MapSlots /\ begun > 0)'
          /\ step' = 2 /\ SceneFilled(scene)'
        BY <1>1 DEF RecordingRight, BufferRight
    <2>4. /\ (IsBuffer(drawn) /\ DOMAIN drawn.sets = 1..2)'
          /\ (drawn.pass = "main" /\ drawn.scissor = "frame")'
          /\ (drawn.shadows \in ShadowMaps(begun))'
        BY <1>1, <1>2, <1>3
    <2> QED BY <2>1, <2>2, <2>3, <2>4 DEF BufferRight
<1>5. ClearedPixel \in Pixels
    BY DepthsAssumption DEF ClearedPixel, Pixels
<1>6. PictureRight'
    BY <1>1, <1>3, <1>5 DEF PictureRight
<1> QED BY <1>4, <1>6 DEF RecordingRight

LEMMA OpaqueCall ==
    ASSUME RecordingRight, Call("opaque", RenderModelsOpaque(drawn))
    PROVE  RecordingRight'
<1> DEFINE h == RenderModelsOpaque(drawn)
<1>1. /\ drawn' = h /\ step' = step + 1 /\ begun' = begun /\ frameIndex' = frameIndex
      /\ scene' = scene /\ step = 2
    BY CallIs, CallsAre DEF RecordingRight, BufferRight
<1>2. IsBuffer(drawn) /\ DOMAIN drawn.sets = 1..2 /\ InPicture(drawn) /\ SceneFilled(scene)
    BY <1>1, PictureHolds DEF RecordingRight
<1>3. Painted(drawn, h, ModelOpaque, scene.opaque) /\ h.scissor = drawn.scissor
    BY <1>2, OpaquePaints
<1>4. BufferRight'
    <2> HIDE DEF h
    <2>1. step \in 2..9
        BY <1>1
    <2> QED BY <1>3, <2>1, PassKeepsBuffer DEF RecordingRight, h
<1> HIDE DEF h
<1>5. h.pixel = Shaded(ModelOpaque, drawn.pixel, scene.opaque)
    BY <1>3 DEF Painted
<1>6. h.pixel \in Pixels /\ Solidly(h.pixel, Of(scene.opaque))
    BY <1>1, <1>2, <1>5, OpaqueShaded DEF RecordingRight, PictureRight
<1>7. PictureRight'
    <2>1. (drawn.pixel \in Pixels)' /\ Solidly(drawn.pixel, Of(scene.opaque))' /\ step' = 3
        BY <1>1, <1>6
    <2> QED BY <2>1 DEF PictureRight
<1> QED BY <1>4, <1>7 DEF RecordingRight

LEMMA OutlinesCall ==
    ASSUME RecordingRight, Call("outlines", RenderModelOutlinesOpaque(drawn))
    PROVE  RecordingRight'
<1> DEFINE h == RenderModelOutlinesOpaque(drawn)
<1>1. /\ drawn' = h /\ step' = step + 1 /\ begun' = begun /\ frameIndex' = frameIndex
      /\ scene' = scene /\ step = 3
    BY CallIs, CallsAre DEF RecordingRight, BufferRight
<1>2. IsBuffer(drawn) /\ DOMAIN drawn.sets = 1..2 /\ InPicture(drawn) /\ SceneFilled(scene)
    BY <1>1, PictureHolds DEF RecordingRight
<1>3. Painted(drawn, h, OutlineOpaque, scene.outline) /\ h.scissor = drawn.scissor
    BY <1>2, OutlinesPaint
<1>4. BufferRight'
    <2> HIDE DEF h
    <2>1. step \in 2..9
        BY <1>1
    <2> QED BY <1>3, <2>1, PassKeepsBuffer DEF RecordingRight, h
<1> HIDE DEF h
<1>5. h.pixel = Shaded(OutlineOpaque, drawn.pixel, scene.outline)
    BY <1>3 DEF Painted
<1>6. h.pixel \in Pixels /\ Solidly(h.pixel, Solid)
    BY <1>1, <1>2, <1>5, OutlinesShaded DEF RecordingRight, PictureRight
<1>7. PictureRight'
    <2>1. (drawn.pixel \in Pixels)' /\ Solidly(drawn.pixel, Solid)' /\ step' = 4
        BY <1>1, <1>6 DEF Solid
    <2> QED BY <2>1 DEF PictureRight
<1> QED BY <1>4, <1>7 DEF RecordingRight

LEMMA SkyboxCall ==
    ASSUME RecordingRight, Call("skybox", RenderSkybox(drawn))
    PROVE  RecordingRight'
<1> DEFINE h == RenderSkybox(drawn)
<1>1. /\ drawn' = h /\ step' = step + 1 /\ begun' = begun /\ frameIndex' = frameIndex
      /\ scene' = scene /\ step = 4
    BY CallIs, CallsAre DEF RecordingRight, BufferRight
<1>2. IsBuffer(drawn) /\ DOMAIN drawn.sets = 1..2 /\ InPicture(drawn) /\ SceneFilled(scene)
    BY <1>1, PictureHolds DEF RecordingRight
<1>3. Painted(drawn, h, Skybox, <<Sky>>) /\ h.scissor = drawn.scissor
    BY <1>2, SkyboxPaints
<1>4. BufferRight'
    <2> HIDE DEF h
    <2>1. step \in 2..9
        BY <1>1
    <2> QED BY <1>3, <2>1, PassKeepsBuffer DEF RecordingRight, h
<1> HIDE DEF h
<1>5. h.pixel = Shaded(Skybox, drawn.pixel, <<Sky>>)
    BY <1>3 DEF Painted
<1>6. h.pixel \in Pixels /\ Based(h.pixel) /\ Over(h.pixel) = {} /\ Quiet(h.pixel.seen)
    BY <1>1, <1>2, <1>5, SkyShaded DEF RecordingRight, PictureRight
<1>7. PictureRight'
    <2>1. (drawn.pixel \in Pixels)' /\ Based(drawn.pixel)' /\ Quiet(drawn.pixel.seen)' /\ step' = 5
        BY <1>1, <1>6 DEF Based, Solid
    <2>2. Over(drawn.pixel)' = {} /\ Layers(step, drawn.pixel.depth)' = {}
        <3>1. Layers(5, h.pixel.depth) = {}
            <4>1. 5 \in 5..11
                OBVIOUS
            <4> QED BY <4>1, LayersGrow
        <3>2. Layers(step, drawn.pixel.depth)' = Layers(5, h.pixel.depth)
            BY <1>1 DEF Layers, Layer
        <3> QED BY <1>1, <1>6, <3>1, <3>2 DEF Over
    <2> QED BY <2>1, <2>2 DEF PictureRight
<1> QED BY <1>4, <1>7 DEF RecordingRight

LEMMA TransparentCall ==
    ASSUME RecordingRight, Call("transparent", RenderModelsTransparent(drawn))
    PROVE  RecordingRight'
<1> DEFINE h == RenderModelsTransparent(drawn)
           p == ModelTransparent
           cs == scene.transparent
<1>1. step = 5
    BY CallIs, CallsAre DEF RecordingRight, BufferRight
<1>2. IsBuffer(drawn) /\ DOMAIN drawn.sets = 1..2 /\ InPicture(drawn) /\ SceneFilled(scene)
    BY <1>1, PictureHolds DEF RecordingRight
<1>3. Painted(drawn, h, p, cs) /\ h.scissor = drawn.scissor
    BY <1>2, TransparentPaints
<1>4. "write" \notin p.enabled /\ "blend" \in p.enabled /\ p.colours = 1
    BY Pipelines DEF Pipe
<1>5. BucketHolds(cs, "transparent", Surfaces) /\ "transparent" # "text"
    BY <1>2 DEF SceneFilled
<1>6. \A d : Layer(step + 1, d) = Passing(p, cs, d, Len(cs))
    BY <1>1 DEF Layer
<1>7. step \in 2..9 /\ step \in 5..7
    BY <1>1
<1> HIDE DEF h, p, cs
<1>8. Call("transparent", h)
    BY DEF h
<1>9. BufferRight'
    BY <1>3, <1>7, <1>8, PassKeepsBuffer DEF RecordingRight
<1>10. PictureRight'
    BY <1>3, <1>4, <1>5, <1>6, <1>7, <1>8, QuietStep
<1> QED BY <1>9, <1>10 DEF RecordingRight

LEMMA ClearOutlinesCall ==
    ASSUME RecordingRight, Call("outlinesTransparent", RenderModelOutlinesTransparent(drawn))
    PROVE  RecordingRight'
<1> DEFINE h == RenderModelOutlinesTransparent(drawn)
           p == OutlineTransparent
           cs == scene.outlineTransparent
<1>1. step = 6
    BY CallIs, CallsAre DEF RecordingRight, BufferRight
<1>2. IsBuffer(drawn) /\ DOMAIN drawn.sets = 1..2 /\ InPicture(drawn) /\ SceneFilled(scene)
    BY <1>1, PictureHolds DEF RecordingRight
<1>3. Painted(drawn, h, p, cs) /\ h.scissor = drawn.scissor
    BY <1>2, ClearOutlinesPaint
<1>4. "write" \notin p.enabled /\ "blend" \in p.enabled /\ p.colours = 1
    BY Pipelines DEF Pipe
<1>5. BucketHolds(cs, "outlineTransparent", Surfaces) /\ "outlineTransparent" # "text"
    BY <1>2 DEF SceneFilled
<1>6. \A d : Layer(step + 1, d) = Passing(p, cs, d, Len(cs))
    BY <1>1 DEF Layer
<1>7. step \in 2..9 /\ step \in 5..7
    BY <1>1
<1> HIDE DEF h, p, cs
<1>8. Call("outlinesTransparent", h)
    BY DEF h
<1>9. BufferRight'
    BY <1>3, <1>7, <1>8, PassKeepsBuffer DEF RecordingRight
<1>10. PictureRight'
    BY <1>3, <1>4, <1>5, <1>6, <1>7, <1>8, QuietStep
<1> QED BY <1>9, <1>10 DEF RecordingRight

LEMMA BillboardsCall ==
    ASSUME RecordingRight, Call("billboards", RenderBillboardTexts(drawn))
    PROVE  RecordingRight'
<1> DEFINE h == RenderBillboardTexts(drawn)
           p == BillboardText
           cs == scene.billboard
<1>1. step = 7
    BY CallIs, CallsAre DEF RecordingRight, BufferRight
<1>2. IsBuffer(drawn) /\ DOMAIN drawn.sets = 1..2 /\ InPicture(drawn) /\ SceneFilled(scene)
    BY <1>1, PictureHolds DEF RecordingRight
<1>3. Painted(drawn, h, p, cs) /\ h.scissor = drawn.scissor
    BY <1>2, BillboardsPaint
<1>4. "write" \notin p.enabled /\ "blend" \in p.enabled /\ p.colours = 1
    BY Pipelines DEF Pipe
<1>5. BucketHolds(cs, "billboard", Surfaces) /\ "billboard" # "text"
    BY <1>2 DEF SceneFilled
<1>6. \A d : Layer(step + 1, d) = Passing(p, cs, d, Len(cs))
    BY <1>1 DEF Layer
<1>7. step \in 2..9 /\ step \in 5..7
    BY <1>1
<1> HIDE DEF h, p, cs
<1>8. Call("billboards", h)
    BY DEF h
<1>9. BufferRight'
    BY <1>3, <1>7, <1>8, PassKeepsBuffer DEF RecordingRight
<1>10. PictureRight'
    BY <1>3, <1>4, <1>5, <1>6, <1>7, <1>8, QuietStep
<1> QED BY <1>9, <1>10 DEF RecordingRight

LEMMA QuietTextLast ==
    ASSUME NEW seen, Quiet(seen)
    PROVE  TextLast(seen)
BY DEF Quiet, TextLast

LEMMA TextsCall ==
    ASSUME RecordingRight, Call("texts", RenderTexts(drawn))
    PROVE  RecordingRight'
<1> DEFINE h == RenderTexts(drawn)
           p == TextPipeline
           cs == scene.text
           x == drawn.pixel
           y == h.pixel
<1>1. /\ drawn' = h /\ step' = step + 1 /\ begun' = begun /\ frameIndex' = frameIndex
      /\ scene' = scene /\ step = 8 /\ begun > 0
    BY CallIs, CallsAre DEF RecordingRight, BufferRight
<1>2. IsBuffer(drawn) /\ DOMAIN drawn.sets = 1..2 /\ InPicture(drawn) /\ SceneFilled(scene)
    BY <1>1, PictureHolds DEF RecordingRight
<1>3. Painted(drawn, h, p, cs) /\ h.scissor = drawn.scissor
    BY <1>2, TextsPaint
<1>4. "write" \notin p.enabled /\ "blend" \in p.enabled /\ p.colours = 1
    BY Pipelines DEF Pipe
<1>5. cs \in Seq(Anything) /\ \A i \in 1..Len(cs) : cs[i].what \in {"text", "imgui"}
    BY <1>2 DEF SceneFilled, BucketHolds
<1>6. x \in Pixels /\ Based(x) /\ TextLast(x.seen) /\ Over(x) = Layers(8, x.depth)
    BY <1>1, QuietTextLast DEF RecordingRight, PictureRight
<1>7. \A d : Layers(9, d) = Layers(8, d) \cup Passing(p, cs, d, Len(cs))
    <2>1. \A d : Layer(9, d) = Passing(p, cs, d, Len(cs))
        BY DEF Layer
    <2>2. 8 \in 5..11 /\ 8 + 1 = 9
        OBVIOUS
    <2> QED BY <2>1, <2>2, LayersGrow
<1>8. y = Shaded(p, x, cs)
    BY <1>3 DEF Painted
<1>9. (drawn.pixel)' = y
    BY <1>1
<1> HIDE DEF h, p, cs, x, y
<1>10. BufferRight'
    <2>1. Call("texts", h) /\ step \in 2..9
        BY <1>1 DEF h
    <2> QED BY <1>3, <2>1, PassKeepsBuffer DEF RecordingRight
<1>11. /\ y \in Pixels /\ y.depth = x.depth /\ Based(y) /\ TextLast(y.seen)
       /\ Over(y) = Over(x) \cup Passing(p, cs, x.depth, Len(cs))
    BY <1>4, <1>5, <1>6, <1>8, TextBlend
<1>12. Over(y) = Layers(9, y.depth)
    BY <1>6, <1>7, <1>11
<1>13. PictureRight'
    <2>1. Layers(step, drawn.pixel.depth)' = Layers(9, y.depth)
        BY <1>1, <1>9 DEF Layers, Layer
    <2>2. Over(drawn.pixel)' = Over(y)
        BY <1>9 DEF Over
    <2>3. Based(drawn.pixel)' /\ TextLast(drawn.pixel.seen)' /\ (drawn.pixel \in Pixels)' /\ step' = 9
        BY <1>1, <1>9, <1>11 DEF Based, Solid
    <2> QED BY <1>12, <2>1, <2>2, <2>3 DEF PictureRight
<1> QED BY <1>10, <1>13 DEF RecordingRight

LEMMA ImguiCall ==
    ASSUME RecordingRight, Call("imgui", RenderImguiPass(drawn))
    PROVE  RecordingRight'
<1> DEFINE h == RenderImguiPass(drawn)
           p == Imgui
           cs == <<Widget>>
           x == drawn.pixel
           y == h.pixel
<1>1. /\ drawn' = h /\ step' = step + 1 /\ begun' = begun /\ frameIndex' = frameIndex
      /\ scene' = scene /\ step = 9 /\ begun > 0
    BY CallIs, CallsAre DEF RecordingRight, BufferRight
<1>2. IsBuffer(drawn) /\ DOMAIN drawn.sets = 1..2 /\ InPicture(drawn)
    BY <1>1, PictureHolds DEF RecordingRight
<1>3. Painted(drawn, h, p, cs) /\ h.scissor = "widget"
    BY <1>2, ImguiPaints
<1>4. x \in Pixels /\ Based(x) /\ TextLast(x.seen) /\ Over(x) = Layers(9, x.depth)
    BY <1>1 DEF RecordingRight, PictureRight
<1>5. \A d : Layers(10, d) = Layers(9, d) \cup {Widget}
    <2>1. \A d : Layer(10, d) = {Widget}
        BY DEF Layer
    <2>2. 9 \in 5..11 /\ 9 + 1 = 10
        OBVIOUS
    <2> QED BY <2>1, <2>2, LayersGrow
<1>6. y = Shaded(p, x, cs)
    BY <1>3 DEF Painted
<1>7. (drawn.pixel)' = y
    BY <1>1
<1>8. /\ y \in Pixels /\ y.depth = x.depth /\ Based(y) /\ TextLast(y.seen)
      /\ Over(y) = Over(x) \cup {Widget} /\ Last(y.seen).what = "imgui"
    <2> HIDE DEF x, y
    <2> QED BY <1>4, <1>6, WidgetShaded
<1> HIDE DEF h, p, cs, x, y
<1>9. BufferRight'
    <2>1. Call("imgui", h) /\ step \in 2..9
        BY <1>1 DEF h
    <2> QED BY <1>1, <1>3, <2>1, PassKeepsBuffer DEF RecordingRight
<1>10. Over(y) = Layers(10, y.depth)
    BY <1>4, <1>5, <1>8
<1>11. PictureRight'
    <2>1. Layers(step, drawn.pixel.depth)' = Layers(10, y.depth)
        BY <1>1, <1>7 DEF Layers, Layer
    <2>2. Over(drawn.pixel)' = Over(y)
        BY <1>7 DEF Over
    <2>3. /\ Based(drawn.pixel)' /\ TextLast(drawn.pixel.seen)' /\ (drawn.pixel \in Pixels)' /\ step' = 10
          /\ (Last(drawn.pixel.seen).what = "imgui")'
        BY <1>1, <1>7, <1>8 DEF Based, Solid
    <2> QED BY <1>10, <2>1, <2>2, <2>3 DEF PictureRight
<1> QED BY <1>9, <1>11 DEF RecordingRight

LEMMA EndCall ==
    ASSUME RecordingRight, Call("end", EndRenderPass(drawn))
    PROVE  RecordingRight'
<1> DEFINE h == EndRenderPass(drawn)
           x == drawn.pixel
<1>1. /\ drawn' = h /\ step' = step + 1 /\ begun' = begun /\ frameIndex' = frameIndex
      /\ scene' = scene /\ step = 10 /\ begun > 0
    BY CallIs, CallsAre DEF RecordingRight, BufferRight
<1>2. /\ IsBuffer(drawn) /\ DOMAIN drawn.sets = 1..2 /\ drawn.shadows \in ShadowMaps(begun)
      /\ ThisMap(drawn) /\ \A d \in drawn.draws : DrawFits(d)
    BY <1>1 DEF RecordingRight, BufferRight
<1>3. /\ IsBuffer(h) /\ h.sets = drawn.sets /\ h.pass = "none" /\ h.scissor = drawn.scissor
      /\ h.pixel = x /\ h.shadows = drawn.shadows /\ h.draws = drawn.draws
    BY <1>2 DEF EndRenderPass, IsBuffer
<1>4. /\ x \in Pixels /\ Based(x) /\ TextLast(x.seen) /\ Over(x) = Layers(10, x.depth)
      /\ Last(x.seen).what = "imgui"
    BY <1>1 DEF RecordingRight, PictureRight
<1>5. \A d : Layers(11, d) = Layers(10, d)
    <2>1. \A d : Layer(11, d) = {}
        BY DEF Layer
    <2>2. 10 \in 5..11 /\ 10 + 1 = 11
        OBVIOUS
    <2>3. \A d : Layers(10 + 1, d) = Layers(10, d) \cup Layer(10 + 1, d)
        BY <2>2, LayersGrow
    <2> QED BY <2>1, <2>2, <2>3
<1>6. (drawn.pixel)' = x
    BY <1>1, <1>3
<1> HIDE DEF h, x
<1>7. BufferRight'
    <2>1. \A d \in drawn'.draws : DrawFits(d)'
        BY <1>1, <1>2, <1>3, SameFrame
    <2>2. ThisMap(drawn)'
        BY <1>1, <1>2, <1>3 DEF ThisMap
    <2>3. /\ (begun \in 0..MaxFrames /\ frameIndex \in MapSlots)'
          /\ step' = 11 /\ SceneFilled(scene)'
        BY <1>1 DEF RecordingRight, BufferRight
    <2>4. /\ (IsBuffer(drawn) /\ DOMAIN drawn.sets = 1..2)'
          /\ (drawn.pass = "none" /\ drawn.scissor \in {"none", "shadow", "frame", "widget"})'
          /\ (drawn.shadows \in ShadowMaps(begun))'
        BY <1>1, <1>2, <1>3 DEF RecordingRight, BufferRight
    <2> QED BY <2>1, <2>2, <2>3, <2>4 DEF BufferRight
<1>8. PictureRight'
    <2>1. Layers(step, drawn.pixel.depth)' = Layers(11, x.depth)
        BY <1>1, <1>6 DEF Layers, Layer
    <2>2. Over(drawn.pixel)' = Over(x)
        BY <1>6 DEF Over
    <2>3. /\ Based(drawn.pixel)' /\ TextLast(drawn.pixel.seen)' /\ (drawn.pixel \in Pixels)' /\ step' = 11
          /\ (Last(drawn.pixel.seen).what = "imgui")'
        BY <1>1, <1>4, <1>6 DEF Based, Solid
    <2> QED BY <1>4, <1>5, <2>1, <2>2, <2>3 DEF PictureRight
<1> QED BY <1>7, <1>8 DEF RecordingRight

-----------------------------------------------------------------------------
(* FrameRecording: the invariant holds.                                    *)

LEMMA RecorderIs ==
    /\ IsBuffer(Recorder) /\ DOMAIN Recorder.sets = 1..2 /\ Recorder.pass = "none"
    /\ Recorder.scissor = "none" /\ Recorder.pixel = ClearedPixel /\ Recorder.draws = {}
    /\ Recorder.shadows = [s \in MapSlots |-> [layout |-> "read_only", light |-> 0, casters |-> <<>>]]
BY DEF IsBuffer, Recorder

LEMMA RecordingStarts ==
    ASSUME RecordingInit
    PROVE  RecordingRight
<1>1. begun = 0 /\ frameIndex = 0 /\ step = 11 /\ scene = NoScene /\ drawn = Recorder
    BY CallsAre DEF RecordingInit
<1>2. SceneFilled(NoScene)
    BY DEF NoScene, SceneFilled, BucketHolds
<1>3. Recorder.shadows \in ShadowMaps(0)
    <2>1. [layout |-> "read_only", light |-> 0, casters |-> <<>>] \in Maps(0)
        BY DEF Maps
    <2> QED BY <2>1, RecorderIs DEF ShadowMaps
<1>4. ClearedPixel \in Pixels /\ MaxFrames \in Nat
    BY DepthsAssumption DEF ClearedPixel, Pixels
<1>5. BufferRight
    BY <1>1, <1>2, <1>3, <1>4, RecorderIs DEF BufferRight, MapSlots
<1>6. PictureRight
    BY <1>1, <1>4, RecorderIs DEF PictureRight
<1> QED BY <1>5, <1>6 DEF RecordingRight

LEMMA FrameBegins ==
    ASSUME RecordingRight, BeginFrame
    PROVE  RecordingRight'
<1> DEFINE r == Recorder
           m == drawn.shadows
<1>1. /\ begun' = begun + 1 /\ begun < MaxFrames /\ scene' \in Scenes /\ step' = 0
      /\ frameIndex' = IF begun = 0 THEN 0 ELSE NextIndex
      /\ drawn' = [r EXCEPT !.shadows = m]
    BY DEF BeginFrame
<1>2. MaxFrames \in Nat /\ begun \in Nat /\ frameIndex \in {0, 1}
    BY DepthsAssumption DEF RecordingRight, BufferRight, MapSlots
<1>3. begun' \in 0..MaxFrames /\ begun' > 0 /\ frameIndex' \in MapSlots
    BY <1>1, <1>2 DEF NextIndex, MapSlots
<1>4. m \in ShadowMaps(begun + 1)
    <2>1. m \in ShadowMaps(begun)
        BY DEF RecordingRight, BufferRight
    <2>2. 0..begun \subseteq 0..(begun + 1)
        BY <1>2
    <2>3. Maps(begun) \subseteq Maps(begun + 1)
        BY <2>2 DEF Maps
    <2> HIDE DEF m
    <2> QED BY <2>1, <2>3 DEF ShadowMaps
<1>5. /\ IsBuffer(r) /\ DOMAIN r.sets = 1..2 /\ r.pass = "none" /\ r.scissor = "none"
      /\ r.pixel = ClearedPixel /\ r.draws = {}
    BY RecorderIs
<1> HIDE DEF r, m
<1> DEFINE h == [r EXCEPT !.shadows = m]
<1>6. /\ IsBuffer(h) /\ DOMAIN h.sets = 1..2 /\ h.pass = "none" /\ h.scissor = "none"
      /\ h.pixel = ClearedPixel /\ h.draws = {} /\ h.shadows = m
    BY <1>5 DEF IsBuffer
<1>7. drawn' = h
    BY <1>1
<1> HIDE DEF h
<1>8. SceneFilled(scene')
    BY <1>1, ScenesFilled
<1>9. ClearedPixel \in Pixels
    BY DepthsAssumption DEF ClearedPixel, Pixels
<1>10. BufferRight'
    <2>1. /\ (IsBuffer(drawn) /\ DOMAIN drawn.sets = 1..2)'
          /\ (drawn.pass = "none" /\ drawn.scissor = "none" /\ drawn.draws = {})'
        BY <1>6, <1>7
    <2>2. (drawn.shadows \in ShadowMaps(begun))'
        BY <1>1, <1>4, <1>6, <1>7
    <2>3. SceneFilled(scene)'
        BY <1>8
    <2> QED BY <1>1, <1>3, <2>1, <2>2, <2>3 DEF BufferRight
<1>11. PictureRight'
    <2>1. (drawn.pixel \in Pixels)' /\ step' = 0
        BY <1>1, <1>6, <1>7, <1>9
    <2> QED BY <2>1 DEF PictureRight
<1> QED BY <1>10, <1>11 DEF RecordingRight

LEMMA RecordingStays ==
    ASSUME RecordingRight, [RecordingNext]_recordingVars
    PROVE  RecordingRight'
<1>1. CASE BeginFrame
    BY <1>1, FrameBegins
<1>2. CASE Call("shadow", RenderShadowPass(drawn))
    BY <1>2, ShadowCall
<1>3. CASE Call("begin", BeginRenderPass(drawn))
    BY <1>3, BeginCall
<1>4. CASE Call("opaque", RenderModelsOpaque(drawn))
    BY <1>4, OpaqueCall
<1>5. CASE Call("outlines", RenderModelOutlinesOpaque(drawn))
    BY <1>5, OutlinesCall
<1>6. CASE Call("skybox", RenderSkybox(drawn))
    BY <1>6, SkyboxCall
<1>7. CASE Call("transparent", RenderModelsTransparent(drawn))
    BY <1>7, TransparentCall
<1>8. CASE Call("outlinesTransparent", RenderModelOutlinesTransparent(drawn))
    BY <1>8, ClearOutlinesCall
<1>9. CASE Call("billboards", RenderBillboardTexts(drawn))
    BY <1>9, BillboardsCall
<1>10. CASE Call("texts", RenderTexts(drawn))
    BY <1>10, TextsCall
<1>11. CASE Call("imgui", RenderImguiPass(drawn))
    BY <1>11, ImguiCall
<1>12. CASE Call("end", EndRenderPass(drawn))
    BY <1>12, EndCall
<1>13. CASE UNCHANGED recordingVars
    <2>1. /\ drawn' = drawn /\ step' = step /\ begun' = begun /\ frameIndex' = frameIndex
          /\ scene' = scene
        BY <1>13 DEF recordingVars
    <2>2. BufferRight'
        BY <2>1 DEF RecordingRight, BufferRight, DrawFits, ThisMap
    <2>3. Over(drawn.pixel)' = Over(drawn.pixel)
        BY <2>1 DEF Over
    <2>4. Layers(step, drawn.pixel.depth)' = Layers(step, drawn.pixel.depth)
        BY <2>1 DEF Layers, Layer
    <2>5. (Based(drawn.pixel)' <=> Based(drawn.pixel)) /\ Solid' = Solid
        BY <2>1 DEF Based, Solid
    <2>6. PictureRight'
        BY <2>1, <2>3, <2>4, <2>5 DEF RecordingRight, PictureRight
    <2> QED BY <2>2, <2>6 DEF RecordingRight
<1> QED BY <1>1, <1>2, <1>3, <1>4, <1>5, <1>6, <1>7, <1>8, <1>9, <1>10, <1>11, <1>12, <1>13 DEF RecordingNext

\* The nearest surface decides what is in front of it.
LEMMA InFront ==
    ASSUME SceneFilled(scene), NEW x, Based(x), NEW z \in 0..ClearDepth
    PROVE  /\ z < ClearDepth => (z < x.depth <=> \A o \in Solid : z < o.z)
           /\ z <= x.depth <=> \A o \in Solid : z <= o.z
<1>0. ClearDepth \in Nat
    BY DepthsAssumption
<1>1. CASE Solid = {}
    BY <1>0, <1>1 DEF Based
<1>2. CASE Solid # {}
    <2>1. PICK s \in Solid : x.depth = s.z /\ \A o \in Solid : s.z <= o.z
        BY <1>2 DEF Based
    <2>2. \A o \in Solid : o.z \in Int
        BY <1>0, SolidSurfaces
    <2>3. s.z \in Int /\ z \in Int
        BY <1>0, <2>2
    <2> QED BY <2>1, <2>2, <2>3
<1> QED BY <1>1, <1>2

LEMMA StrictlyPassing ==
    ASSUME SceneFilled(scene), NEW x, Based(x), NEW p, p.enabled = {"test", "blend"}, p.compare = "less",
           p.bias = 0, NEW things, NEW what, BucketHolds(things, what, Surfaces)
    PROVE  Passing(p, things, x.depth, Len(things))
             = {s.t : s \in {b \in Of(things) : \A o \in Solid : b.z < o.z}}
<1>0. ClearDepth \in Nat
    BY DepthsAssumption
<1>1. \A i \in 1..Len(things) : things[i].z \in 0..ClearDepth /\ things[i].z < ClearDepth
    BY <1>0 DEF BucketHolds, Surfaces
<1>2. ASSUME NEW i \in 1..Len(things)
      PROVE  Passes(p, things[i].z + p.bias, x.depth) <=> \A o \in Solid : things[i].z < o.z
    <2> DEFINE z == things[i].z
    <2>1. z \in 0..ClearDepth /\ z < ClearDepth
        BY <1>1
    <2> HIDE DEF z
    <2>2. z + p.bias = z
        BY <1>0, <2>1
    <2>3. Passes(p, z + p.bias, x.depth) <=> z < x.depth
        BY <2>2 DEF Passes
    <2>4. z < x.depth <=> \A o \in Solid : z < o.z
        BY <2>1, InFront
    <2> QED BY <2>3, <2>4 DEF z
<1>3. DOMAIN things = 1..Len(things)
    BY DEF BucketHolds
<1>4. ASSUME NEW t
      PROVE  t \in Passing(p, things, x.depth, Len(things))
               <=> t \in {s.t : s \in {b \in Of(things) : \A o \in Solid : b.z < o.z}}
    <2>1. ASSUME t \in Passing(p, things, x.depth, Len(things))
          PROVE  t \in {s.t : s \in {b \in Of(things) : \A o \in Solid : b.z < o.z}}
        <3>1. PICK i \in 1..Len(things) : t = things[i] /\ Passes(p, things[i].z + p.bias, x.depth)
            BY <2>1 DEF Passing
        <3> DEFINE b == [z |-> things[i].z, t |-> things[i]]
        <3>2. b \in Of(things) /\ b.z = things[i].z /\ b.t = t
            BY <1>3, <3>1 DEF Of
        <3> HIDE DEF b
        <3>3. \A o \in Solid : b.z < o.z
            BY <1>2, <3>1, <3>2
        <3> QED BY <3>2, <3>3
    <2>2. ASSUME t \in {s.t : s \in {b \in Of(things) : \A o \in Solid : b.z < o.z}}
          PROVE  t \in Passing(p, things, x.depth, Len(things))
        <3>1. PICK b \in Of(things) : t = b.t /\ \A o \in Solid : b.z < o.z
            BY <2>2
        <3>2. PICK i \in 1..Len(things) : b = [z |-> things[i].z, t |-> things[i]]
            BY <1>3, <3>1 DEF Of
        <3>3. b.z = things[i].z /\ t = things[i]
            BY <3>1, <3>2
        <3>4. Passes(p, things[i].z + p.bias, x.depth)
            BY <1>2, <3>1, <3>3
        <3> QED BY <3>3, <3>4 DEF Passing
    <2> QED BY <2>1, <2>2
<1> QED BY <1>4, Zenon

LEMMA BiasedPassing ==
    ASSUME SceneFilled(scene), NEW x, Based(x), NEW p, p.enabled = {"test", "blend"},
           p.compare = "less_or_equal", p.bias = -1, NEW things, NEW what, BucketHolds(things, what, Surfaces)
    PROVE  Passing(p, things, x.depth, Len(things))
             = {s.t : s \in {b \in Biased(things) : \A o \in Solid : b.z <= o.z}}
<1>0. ClearDepth \in Nat
    BY DepthsAssumption
<1>1. \A i \in 1..Len(things) : things[i].z \in 1..ClearDepth
    BY <1>0 DEF BucketHolds, Surfaces
<1>2. ASSUME NEW i \in 1..Len(things)
      PROVE  Passes(p, things[i].z + p.bias, x.depth) <=> \A o \in Solid : things[i].z - 1 <= o.z
    <2> DEFINE z == things[i].z - 1
    <2>1. z \in 0..ClearDepth /\ things[i].z + p.bias = z
        BY <1>0, <1>1
    <2> HIDE DEF z
    <2>2. Passes(p, z, x.depth) <=> z <= x.depth
        BY DEF Passes
    <2>3. z <= x.depth <=> \A o \in Solid : z <= o.z
        BY <2>1, InFront
    <2> QED BY <2>1, <2>2, <2>3 DEF z
<1>3. DOMAIN things = 1..Len(things)
    BY DEF BucketHolds
<1>4. ASSUME NEW t
      PROVE  t \in Passing(p, things, x.depth, Len(things))
               <=> t \in {s.t : s \in {b \in Biased(things) : \A o \in Solid : b.z <= o.z}}
    <2>1. ASSUME t \in Passing(p, things, x.depth, Len(things))
          PROVE  t \in {s.t : s \in {b \in Biased(things) : \A o \in Solid : b.z <= o.z}}
        <3>1. PICK i \in 1..Len(things) : t = things[i] /\ Passes(p, things[i].z + p.bias, x.depth)
            BY <2>1 DEF Passing
        <3> DEFINE b == [z |-> things[i].z - 1, t |-> things[i]]
        <3>2. b \in Biased(things) /\ b.z = things[i].z - 1 /\ b.t = t
            BY <1>3, <3>1 DEF Biased
        <3> HIDE DEF b
        <3>3. \A o \in Solid : b.z <= o.z
            BY <1>2, <3>1, <3>2
        <3> QED BY <3>2, <3>3
    <2>2. ASSUME t \in {s.t : s \in {b \in Biased(things) : \A o \in Solid : b.z <= o.z}}
          PROVE  t \in Passing(p, things, x.depth, Len(things))
        <3>1. PICK b \in Biased(things) : t = b.t /\ \A o \in Solid : b.z <= o.z
            BY <2>2
        <3>2. PICK i \in 1..Len(things) : b = [z |-> things[i].z - 1, t |-> things[i]]
            BY <1>3, <3>1 DEF Biased
        <3>3. b.z = things[i].z - 1 /\ t = things[i]
            BY <3>1, <3>2
        <3>4. Passes(p, things[i].z + p.bias, x.depth)
            BY <1>2, <3>1, <3>3
        <3> QED BY <3>3, <3>4 DEF Passing
    <2> QED BY <2>1, <2>2
<1> QED BY <1>4, Zenon

LEMMA TextsPassing ==
    ASSUME NEW d
    PROVE  Passing(TextPipeline, scene.text, d, Len(scene.text))
             = {scene.text[i] : i \in 1..Len(scene.text)}
<1>1. \A z : Passes(TextPipeline, z, d)
    BY Pipelines DEF Pipe, Passes
<1> QED BY <1>1 DEF Passing

LEMMA AllLayers ==
    ASSUME SceneFilled(scene), NEW x, Based(x)
    PROVE  Layers(11, x.depth) =
             {s.t : s \in {b \in Of(scene.transparent) : \A o \in Solid : b.z < o.z}}
             \cup {s.t : s \in {b \in Biased(scene.outlineTransparent) : \A o \in Solid : b.z <= o.z}}
             \cup {s.t : s \in {b \in Of(scene.billboard) : \A o \in Solid : b.z < o.z}}
             \cup {scene.text[i] : i \in 1..Len(scene.text)} \cup {Widget}
<1> DEFINE d == x.depth
           A == {s.t : s \in {b \in Of(scene.transparent) : \A o \in Solid : b.z < o.z}}
           B == {s.t : s \in {b \in Biased(scene.outlineTransparent) : \A o \in Solid : b.z <= o.z}}
           C == {s.t : s \in {b \in Of(scene.billboard) : \A o \in Solid : b.z < o.z}}
           D == {scene.text[i] : i \in 1..Len(scene.text)}
<1>1. Layer(6, d) = A
    <2>1. ModelTransparent.enabled = {"test", "blend"} /\ ModelTransparent.compare = "less"
          /\ ModelTransparent.bias = 0
        BY Pipelines DEF Pipe
    <2>2. BucketHolds(scene.transparent, "transparent", Surfaces)
        BY DEF SceneFilled
    <2>3. Passing(ModelTransparent, scene.transparent, x.depth, Len(scene.transparent)) = A
        BY ZenonT(40), <2>1, <2>2, StrictlyPassing
    <2> QED BY <2>3 DEF Layer
<1>2. Layer(7, d) = B
    <2>1. OutlineTransparent.enabled = {"test", "blend"} /\ OutlineTransparent.compare = "less_or_equal"
          /\ OutlineTransparent.bias = -1
        BY Pipelines DEF Pipe
    <2>2. BucketHolds(scene.outlineTransparent, "outlineTransparent", Surfaces)
        BY DEF SceneFilled
    <2>3. Passing(OutlineTransparent, scene.outlineTransparent, x.depth, Len(scene.outlineTransparent)) = B
        BY ZenonT(40), <2>1, <2>2, BiasedPassing
    <2> QED BY <2>3 DEF Layer
<1>3. Layer(8, d) = C
    <2>1. BillboardText.enabled = {"test", "blend"} /\ BillboardText.compare = "less"
          /\ BillboardText.bias = 0
        BY Pipelines DEF Pipe
    <2>2. BucketHolds(scene.billboard, "billboard", Surfaces)
        BY DEF SceneFilled
    <2>3. Passing(BillboardText, scene.billboard, x.depth, Len(scene.billboard)) = C
        BY ZenonT(40), <2>1, <2>2, StrictlyPassing
    <2> QED BY <2>3 DEF Layer
<1>4. Layer(9, d) = D /\ Layer(10, d) = {Widget} /\ Layer(11, d) = {}
    BY TextsPassing DEF Layer
<1> HIDE DEF A, B, C, D, d
<1>5. /\ Layers(5, d) = {} /\ Layers(6, d) = Layers(5, d) \cup Layer(6, d)
      /\ Layers(7, d) = Layers(6, d) \cup Layer(7, d) /\ Layers(8, d) = Layers(7, d) \cup Layer(8, d)
      /\ Layers(9, d) = Layers(8, d) \cup Layer(9, d) /\ Layers(10, d) = Layers(9, d) \cup Layer(10, d)
      /\ Layers(11, d) = Layers(10, d) \cup Layer(11, d)
    <2>1. \A k \in 5..11 : Layers(k + 1, d) = Layers(k, d) \cup Layer(k + 1, d)
        BY LayersGrow
    <2>2. /\ 5 \in 5..11 /\ 6 \in 5..11 /\ 7 \in 5..11 /\ 8 \in 5..11 /\ 9 \in 5..11 /\ 10 \in 5..11
          /\ 5 + 1 = 6 /\ 6 + 1 = 7 /\ 7 + 1 = 8 /\ 8 + 1 = 9 /\ 9 + 1 = 10 /\ 10 + 1 = 11
        OBVIOUS
    <2>3. Layers(5, d) = {}
        BY <2>2, LayersGrow
    <2> QED BY <2>1, <2>2, <2>3
<1>6. Layers(11, d) = A \cup B \cup C \cup D \cup {Widget}
    BY <1>1, <1>2, <1>3, <1>4, <1>5
<1> QED BY <1>6 DEF A, B, C, D, d

LEMMA DrawsAreFit ==
    ASSUME RecordingRight
    PROVE  DrawsFit /\ WholeFrameDrawn /\ InstancesReadInPlace /\ ShadowOfThisFrame
<1>1. \A d \in drawn.draws : DrawFits(d)
    BY DEF RecordingRight, BufferRight
<1>2. DrawsFit
    BY <1>1 DEF DrawsFit, DrawFits
<1>3. WholeFrameDrawn
    BY <1>1 DEF WholeFrameDrawn, DrawFits
<1>4. InstancesReadInPlace
    BY <1>1 DEF InstancesReadInPlace, DrawFits
<1>5. ShadowOfThisFrame
    BY <1>1 DEF ShadowOfThisFrame, DrawFits
<1> QED BY <1>2, <1>3, <1>4, <1>5

LEMMA RecordingTyped ==
    ASSUME RecordingRight
    PROVE  RecordingTypeOK
<1>1. \A s \in MapSlots : /\ drawn.shadows[s].layout \in {"attachment", "read_only"}
                          /\ drawn.shadows[s].light \in 0..begun
    <2>1. drawn.shadows \in ShadowMaps(begun) /\ begun \in Nat
        BY DepthsAssumption DEF RecordingRight, BufferRight
    <2> QED BY <2>1 DEF ShadowMaps, Maps
<1>2. drawn.pixel.depth \in 1..ClearDepth
    BY DEF RecordingRight, PictureRight, Pixels
<1> QED BY <1>1, <1>2, CallsAre DEF RecordingTypeOK, RecordingRight, BufferRight

LEMMA PictureShows ==
    ASSUME RecordingRight
    PROVE  NearestShows /\ BlendedAllSeen /\ InterfaceOnTop
<1> DEFINE x == drawn.pixel
           seen == drawn.pixel.seen
<1>1. SUFFICES ASSUME Done PROVE NearestShows /\ BlendedAllSeen /\ InterfaceOnTop
    BY DEF NearestShows, BlendedAllSeen, InterfaceOnTop
<1>2. step = 11 /\ begun > 0 /\ SceneFilled(scene)
    BY <1>1, CallsAre DEF Done, RecordingRight, BufferRight
<1>3. /\ Based(x) /\ Over(x) = Layers(11, x.depth) /\ TextLast(x.seen) /\ Last(x.seen).what = "imgui"
      /\ x.seen \in Seq(Anything)
    BY <1>2 DEF RecordingRight, PictureRight, Pixels
<1>4. NearestShows
    <2>1. CASE Solid = {}
        BY <1>3, <2>1 DEF NearestShows, Based, Sky
    <2>2. CASE Solid # {}
        <3>1. PICK s \in Solid : x.seen[1] = s.t /\ \A o \in Solid : s.z <= o.z
            BY <1>3, <2>2 DEF Based
        <3>2. \A o \in Solid : o.z \in Int
            BY <1>2, SolidSurfaces, DepthsAssumption
        <3>3. Nearer(s.z) = {}
            BY <3>1, <3>2 DEF Nearer
        <3> QED BY <2>2, <3>1, <3>3 DEF NearestShows
    <2> QED BY <2>1, <2>2
<1>5. BlendedAllSeen
    <2> DEFINE A == Of(scene.transparent)
               B == Of(scene.billboard)
               F(b) == \A o \in Solid : b.z < o.z
               C == {s.t : s \in {b \in Biased(scene.outlineTransparent) : \A o \in Solid : b.z <= o.z}}
               D == {scene.text[i] : i \in 1..Len(scene.text)}
    <2>1. Layers(11, x.depth) = {s.t : s \in {b \in A : F(b)}} \cup C
                                  \cup {s.t : s \in {b \in B : F(b)}} \cup D \cup {Widget}
        BY <1>2, <1>3, AllLayers
    <2>2. {s.t : s \in {b \in A \cup B : F(b)}}
            = {s.t : s \in {b \in A : F(b)}} \cup {s.t : s \in {b \in B : F(b)}}
        <3> HIDE DEF A, B, F
        <3> QED OBVIOUS
    <2>3. D = {scene.text[i] : i \in DOMAIN scene.text}
        <3>1. scene.text \in Seq(Anything)
            BY <1>2 DEF SceneFilled, BucketHolds
        <3>2. DOMAIN scene.text = 1..Len(scene.text)
            BY <3>1
        <3> QED BY <3>2
    <2>4. {seen[i] : i \in 2..Len(seen)} = {s.t : s \in {b \in A \cup B : F(b)}} \cup C \cup D \cup {Widget}
        <3>1. {seen[i] : i \in 2..Len(seen)} = Layers(11, x.depth)
            BY <1>3 DEF Over
        <3> HIDE DEF A, B, C, D, F
        <3> QED BY <2>1, <2>2, <3>1
    <2> QED BY <2>3, <2>4 DEF BlendedAllSeen, Widget
<1>6. InterfaceOnTop
    <2>1. DOMAIN seen = 1..Len(seen)
        BY <1>3
    <2> QED BY <1>3, <2>1 DEF InterfaceOnTop, TextLast
<1> QED BY <1>4, <1>5, <1>6

\* Whatever is in the buckets, and however many frames were recorded before,
\* every draw finds what it was made for and the picture shows the scene
\* (pipeline_manager.cpp, shadow_map.cpp, GameClient::run).
THEOREM FramesAlwaysShowScene == RecordingSpec => []FrameShowsScene
<1>1. RecordingInit => RecordingRight
    BY RecordingStarts
<1>2. RecordingRight /\ [RecordingNext]_recordingVars => RecordingRight'
    BY RecordingStays
<1>3. RecordingRight => FrameShowsScene
    BY DrawsAreFit, RecordingTyped, PictureShows DEF FrameShowsScene
<1> QED BY <1>1, <1>2, <1>3, PTL DEF RecordingSpec

-----------------------------------------------------------------------------
(* Letters of texts.                                                       *)

\* What a loop of n turns goes through.
Runs(f, n, start, do) == f[0] = start /\ \A i \in 1..n : f[i] = do[i][f[i - 1]]

\* Whatever a turn does within a set can be done n times.
LEMMA Iterates ==
    ASSUME NEW n \in Nat, NEW S, NEW start \in S, NEW do \in [1..n -> [S -> S]]
    PROVE  \E f \in [0..n -> S] : Runs(f, n, start, do)
<1> DEFINE Solves(f, k) == f[0] = start /\ \A i \in 1..k : f[i] = do[i][f[i - 1]]
           T == {k \in Nat : k <= n => \E f \in [0..k -> S] : Solves(f, k)}
<1>1. 0 \in T
    <2> DEFINE f == [i \in 0..0 |-> start]
    <2>1. f \in [0..0 -> S] /\ f[0] = start /\ 1..0 = {}
        OBVIOUS
    <2>2. \E g \in [0..0 -> S] : Solves(g, 0)
        BY <2>1
    <2> QED BY <2>2
<1>2. ASSUME NEW k \in Nat, k \in T PROVE k + 1 \in T
    <2> SUFFICES ASSUME k + 1 <= n PROVE \E f \in [0..(k + 1) -> S] : Solves(f, k + 1)
        OBVIOUS
    <2>1. PICK f \in [0..k -> S] : Solves(f, k)
        BY <1>2
    <2> DEFINE v == do[k + 1][f[k]]
               g == [i \in 0..(k + 1) |-> IF i = k + 1 THEN v ELSE f[i]]
    <2>2. v \in S
        <3>1. f[k] \in S /\ k + 1 \in 1..n
            OBVIOUS
        <3> QED BY <3>1
    <2>3. g \in [0..(k + 1) -> S]
        <3> HIDE DEF v
        <3> QED BY <2>2
    <2>4. g[0] = start
        BY <2>1
    <2>5. ASSUME NEW i \in 1..(k + 1) PROVE g[i] = do[i][g[i - 1]]
        <3>1. CASE i = k + 1
            <4>1. i \in 0..(k + 1) /\ i - 1 = k /\ k \in 0..(k + 1) /\ k # k + 1
                BY <3>1
            <4>2. g[i] = v /\ g[i - 1] = f[k]
                BY <3>1, <4>1
            <4> HIDE DEF g
            <4> QED BY <3>1, <4>2
        <3>2. CASE i # k + 1
            <4>1. i \in 1..k /\ i \in 0..(k + 1) /\ i - 1 \in 0..(k + 1) /\ i - 1 # k + 1
                BY <3>2
            <4>2. g[i] = f[i] /\ g[i - 1] = f[i - 1]
                BY <3>2, <4>1
            <4>3. f[i] = do[i][f[i - 1]]
                BY <2>1, <4>1
            <4> HIDE DEF g
            <4> QED BY <4>2, <4>3
        <3> QED BY <3>1, <3>2
    <2> HIDE DEF g
    <2> QED BY <2>3, <2>4, <2>5
<1> HIDE DEF T
<1>3. n \in T
    BY <1>1, <1>2, FromZeroOn
<1> QED BY <1>3 DEF T, Runs

LEMMA IteratesWithin ==
    ASSUME NEW n \in Nat, NEW S, NEW g, g[0] \in S,
           \A i \in 1..n : g[i - 1] \in S => g[i] \in S
    PROVE  \A i \in 0..n : g[i] \in S
<1> DEFINE T == {k \in Nat : k <= n => g[k] \in S}
<1>1. 0 \in T
    OBVIOUS
<1>2. ASSUME NEW k \in Nat, k \in T PROVE k + 1 \in T
    <2> SUFFICES ASSUME k + 1 <= n PROVE g[k + 1] \in S
        OBVIOUS
    <2>1. k + 1 \in 1..n /\ (k + 1) - 1 = k /\ g[k] \in S
        BY <1>2
    <2> QED BY <2>1
<1> HIDE DEF T
<1>3. \A k \in Nat : k \in T
    BY <1>1, <1>2, FromZeroOn
<1> QED BY <1>3 DEF T

\* What loadFont makes of a character.
FontOK == \A c \in DOMAIN characters : characters[c].advance \in Nat

LEMMA AdvancesAre == ASSUME FontOK, NEW c PROVE AdvanceOf(c) \in Nat
BY DEF FontOK, AdvanceOf

Widening(text, f) == f = [i \in 0..Len(text) |-> IF i = 0 THEN 0 ELSE f[i - 1] + AdvanceOf(text[i])]

LEMMA WidthSums ==
    ASSUME FontOK, NEW text \in Seq(Nat)
    PROVE  \E w \in [0..Len(text) -> Nat] :
              /\ w[0] = 0 /\ TotalWidth(text) = w[Len(text)]
              /\ \A i \in 1..Len(text) : w[i] = w[i - 1] + AdvanceOf(text[i])
<1> DEFINE n == Len(text)
           do == [i \in 1..n |-> [x \in Nat |-> x + AdvanceOf(text[i])]]
           none == 0
           S == Nat
<1>1. n \in Nat /\ none \in S
    OBVIOUS
<1>2. do \in [1..n -> [S -> S]]
    BY AdvancesAre
<1>3. \A i \in 1..n, y \in Nat : do[i][y] = y + AdvanceOf(text[i])
    OBVIOUS
<1> HIDE DEF n, do, none, S
<1>4. PICK f \in [0..n -> S] : Runs(f, n, none, do)
    BY <1>1, <1>2, Iterates
<1>5. \A i \in 1..n : i - 1 \in 0..n
    BY <1>1
<1>6. \A i \in 1..n : f[i] = f[i - 1] + AdvanceOf(text[i])
    BY <1>3, <1>4, <1>5 DEF S, Runs
<1>7. f = [i \in 0..n |-> IF i = 0 THEN 0 ELSE f[i - 1] + AdvanceOf(text[i])]
    <2>1. \A i \in 0..n : i # 0 => i \in 1..n
        BY <1>1
    <2>2. \A i \in 0..n : f[i] = IF i = 0 THEN 0 ELSE f[i - 1] + AdvanceOf(text[i])
        BY <1>4, <1>6, <2>1 DEF none, Runs
    <2> QED BY <2>2
<1> DEFINE w == CHOOSE g : Widening(text, g)
<1>8. Widening(text, w)
    <2>1. Widening(text, f)
        BY <1>7 DEF Widening, n
    <2> QED BY <2>1, Zenon
<1>9. TotalWidth(text) = w[n]
    BY Zenon DEF TotalWidth, Widening, n
<1> HIDE DEF w
<1>10. /\ DOMAIN w = 0..n /\ w[0] = 0
       /\ \A i \in 1..n : w[i] = w[i - 1] + AdvanceOf(text[i])
    BY SMTT(30), <1>1, <1>8 DEF Widening, n
<1>11. \A i \in 1..n : w[i - 1] \in Nat => w[i] \in Nat
    BY <1>10, AdvancesAre
<1>12. w[0] \in Nat
    BY <1>10
<1>13. \A k \in 0..n : w[k] \in Nat
    BY <1>1, <1>11, <1>12, IteratesWithin
<1>14. w \in [0..n -> Nat]
    <2>1. w = [k \in 0..n |-> w[k]]
        BY <1>8 DEF Widening, n
    <2> QED BY <1>13, <2>1
<1> QED BY <1>9, <1>10, <1>14 DEF n

Quads == [text : Nat, at : Nat, char : Nat, x : Int, line : Nat]
Pens == [x : Int, line : Nat, out : Seq(Quads)]

\* What a turn does, each of its three ways.
Turned(t, i, c, pen, q) ==
    /\ q \in Pens
    /\ c = Newline => q.x = 0 /\ q.line = pen.line + 1 /\ q.out = pen.out
    /\ c # Newline => q.line = pen.line /\ q.x = pen.x + 2 * AdvanceOf(c)
    /\ c # Newline /\ ~Drawable(c) => q.out = pen.out
    /\ Drawable(c) => /\ Letter(t, i, c, pen) \in Quads
                      /\ q.out = Append(pen.out, Letter(t, i, c, pen))

LEMMA TypedIs ==
    ASSUME FontOK, NEW pen \in Pens, NEW t \in Nat, NEW i \in Nat, NEW c \in Nat
    PROVE  Turned(t, i, c, pen, Typed(t, i, c, pen))
<1>1. /\ pen.x \in Int /\ pen.line \in Nat /\ pen.out \in Seq(Quads)
      /\ pen = [x |-> pen.x, line |-> pen.line, out |-> pen.out]
    BY DEF Pens
<1>2. AdvanceOf(c) \in Nat
    BY AdvancesAre
<1>3. CASE c = Newline
    BY <1>1, <1>3 DEF Typed, Pens, Drawable, Turned
<1>4. CASE c # Newline /\ ~Drawable(c)
    <2>1. AdvanceOf(c) = 0
        BY <1>4 DEF Drawable, AdvanceOf
    <2> QED BY <1>1, <1>4, <2>1 DEF Typed, Turned
<1>5. CASE Drawable(c)
    <2> DEFINE l == Letter(t, i, c, pen)
    <2>1. l \in Quads
        BY <1>1 DEF Letter, Quads
    <2> HIDE DEF l
    <2>2. Append(pen.out, l) \in Seq(Quads)
        BY <1>1, <2>1
    <2>3. Typed(t, i, c, pen) = [x |-> pen.x + 2 * AdvanceOf(c), line |-> pen.line,
                                 out |-> Append(pen.out, l)]
        BY <1>5 DEF Typed, l, Drawable
    <2>4. Typed(t, i, c, pen) \in Pens
        BY <1>1, <1>2, <2>2, <2>3 DEF Pens
    <2>5. c # Newline
        BY <1>5 DEF Drawable
    <2> QED BY <1>5, <2>1, <2>3, <2>4, <2>5 DEF l, Turned
<1> QED BY <1>3, <1>4, <1>5

LEMMA TypedIn ==
    ASSUME FontOK, NEW pen \in Pens, NEW t \in Nat, NEW i \in Nat, NEW c \in Nat
    PROVE  Typed(t, i, c, pen) \in Pens
BY TypedIs DEF Turned

LEMMA WidthIs ==
    ASSUME FontOK, NEW text \in Seq(Nat)
    PROVE  TotalWidth(text) \in Nat
<1>1. PICK w \in [0..Len(text) -> Nat] :
              /\ w[0] = 0 /\ TotalWidth(text) = w[Len(text)]
              /\ \A i \in 1..Len(text) : w[i] = w[i - 1] + AdvanceOf(text[i])
    BY WidthSums
<1>2. Len(text) \in 0..Len(text)
    OBVIOUS
<1> QED BY <1>1, <1>2

LaysOut(t, text, start, f) ==
    f = [i \in 0..Len(text) |-> IF i = 0 THEN start ELSE Typed(t, i, text[i], f[i - 1])]

LaidThrough(t, text, before, pen) ==
    /\ pen[0] = [x |-> -TotalWidth(text), line |-> 0, out |-> before]
    /\ LaidOut(t, text, before) = pen[Len(text)].out
    /\ \A i \in 1..Len(text) : pen[i] = Typed(t, i, text[i], pen[i - 1])

LEMMA LaidSteps ==
    ASSUME FontOK, NEW t \in Nat, NEW text \in Seq(Nat), NEW before \in Seq(Quads)
    PROVE  \E pen \in [0..Len(text) -> Pens] : LaidThrough(t, text, before, pen)
<1> DEFINE n == Len(text)
           start == [x |-> -TotalWidth(text), line |-> 0, out |-> before]
           do == [i \in 1..n |-> [x \in Pens |-> Typed(t, i, text[i], x)]]
<1>1. n \in Nat /\ start \in Pens /\ \A i \in 1..n : text[i] \in Nat
    <2>1. TotalWidth(text) \in Nat
        BY WidthIs
    <2> QED BY <2>1 DEF Pens
<1>2. do \in [1..n -> [Pens -> Pens]]
    <2>1. \A i \in 1..n, x \in Pens : Typed(t, i, text[i], x) \in Pens
        <3>1. \A i \in 1..n : i \in Nat
            BY <1>1
        <3> QED BY <1>1, <3>1, TypedIn
    <2> HIDE DEF n
    <2> QED BY <2>1
<1>3. \A i \in 1..n, y \in Pens : do[i][y] = Typed(t, i, text[i], y)
    OBVIOUS
<1> HIDE DEF n, do, start
<1>4. PICK f \in [0..n -> Pens] : Runs(f, n, start, do)
    BY <1>1, <1>2, Iterates
<1>5. \A i \in 1..n : i - 1 \in 0..n
    BY <1>1
<1>6. \A i \in 1..n : f[i] = Typed(t, i, text[i], f[i - 1])
    BY <1>3, <1>4, <1>5 DEF Runs
<1>7. LaysOut(t, text, start, f)
    <2>1. \A i \in 0..n : i # 0 => i \in 1..n
        BY <1>1
    <2>2. \A i \in 0..n : f[i] = IF i = 0 THEN start ELSE Typed(t, i, text[i], f[i - 1])
        BY <1>4, <1>6, <2>1 DEF Runs
    <2>3. f = [i \in 0..n |-> f[i]]
        OBVIOUS
    <2> QED BY <2>2, <2>3 DEF LaysOut, n
<1> DEFINE w == CHOOSE g : LaysOut(t, text, start, g)
<1>8. LaysOut(t, text, start, w)
    BY <1>7, Zenon
<1>9. LaidOut(t, text, before) = w[n].out
    BY Zenon DEF LaidOut, LaysOut, n, start
<1> HIDE DEF w
<1>10. /\ w = [i \in 0..n |-> w[i]] /\ w[0] = start
       /\ \A i \in 1..n : w[i] = Typed(t, i, text[i], w[i - 1])
    <2>1. \A i \in 0..n : w[i] = IF i = 0 THEN start ELSE Typed(t, i, text[i], w[i - 1])
        BY <1>8, Zenon DEF LaysOut, n
    <2>2. w = [i \in 0..n |-> w[i]]
        BY <1>8 DEF LaysOut, n
    <2>3. \A i \in 1..n : i \in 0..n /\ i # 0
        BY <1>1
    <2>4. 0 \in 0..n
        BY <1>1
    <2> QED BY <2>1, <2>2, <2>3, <2>4
<1>11. ASSUME NEW i \in 1..n, w[i - 1] \in Pens PROVE w[i] \in Pens
    <2>1. w[i] = Typed(t, i, text[i], w[i - 1])
        BY <1>10
    <2>2. text[i] \in Nat /\ i \in Nat
        BY <1>1
    <2> QED BY <1>11, <2>1, <2>2, TypedIn
<1>12. w[0] \in Pens
    BY <1>1, <1>10
<1>13. \A k \in 0..n : w[k] \in Pens
    BY <1>1, <1>11, <1>12, IteratesWithin
<1>14. w \in [0..n -> Pens]
    BY <1>10, <1>13
<1> QED BY <1>9, <1>10, <1>14 DEF n, start, LaidThrough

LaysAll(wording, f) ==
    f = [t \in 0..Len(wording) |-> IF t = 0 THEN <<>> ELSE LaidOut(t, wording[t], f[t - 1])]

LEMMA LaidOutIs ==
    ASSUME FontOK, NEW t \in Nat, NEW text \in Seq(Nat), NEW before \in Seq(Quads)
    PROVE  LaidOut(t, text, before) \in Seq(Quads)
<1>1. PICK pen \in [0..Len(text) -> Pens] : LaidThrough(t, text, before, pen)
    BY LaidSteps
<1>2. pen[Len(text)] \in Pens
    OBVIOUS
<1> QED BY <1>1, <1>2 DEF Pens, LaidThrough

AllThrough(wording, upTo) ==
    /\ upTo[0] = <<>> /\ AllLaidOut(wording) = upTo[Len(wording)]
    /\ \A t \in 1..Len(wording) : upTo[t] = LaidOut(t, wording[t], upTo[t - 1])

LEMMA AllLaidSteps ==
    ASSUME FontOK, NEW wording \in Seq(Seq(Nat))
    PROVE  \E upTo \in [0..Len(wording) -> Seq(Quads)] : AllThrough(wording, upTo)
<1> DEFINE n == Len(wording)
           start == <<>>
           S == Seq(Quads)
           do == [t \in 1..n |-> [x \in S |-> LaidOut(t, wording[t], x)]]
<1>1. n \in Nat /\ start \in S /\ \A t \in 1..n : wording[t] \in Seq(Nat)
    OBVIOUS
<1>2. do \in [1..n -> [S -> S]]
    BY <1>1, LaidOutIs
<1>3. \A t \in 1..n, y \in S : do[t][y] = LaidOut(t, wording[t], y)
    OBVIOUS
<1> HIDE DEF n, do, start, S
<1>4. PICK f \in [0..n -> S] : Runs(f, n, start, do)
    BY <1>1, <1>2, Iterates
<1>5. \A t \in 1..n : t - 1 \in 0..n
    BY <1>1
<1>6. \A t \in 1..n : f[t] = LaidOut(t, wording[t], f[t - 1])
    BY <1>3, <1>4, <1>5 DEF Runs
<1>7. LaysAll(wording, f)
    <2>1. \A t \in 0..n : t # 0 => t \in 1..n
        BY <1>1
    <2>2. \A t \in 0..n : f[t] = IF t = 0 THEN <<>> ELSE LaidOut(t, wording[t], f[t - 1])
        BY <1>4, <1>6, <2>1 DEF Runs, start
    <2>3. f = [t \in 0..n |-> f[t]]
        OBVIOUS
    <2> QED BY <2>2, <2>3 DEF LaysAll, n
<1> DEFINE w == CHOOSE g : LaysAll(wording, g)
<1>8. LaysAll(wording, w)
    BY <1>7, Zenon
<1>9. AllLaidOut(wording) = w[n]
    BY Zenon DEF AllLaidOut, LaysAll, n
<1> HIDE DEF w
<1>10. /\ w = [t \in 0..n |-> w[t]] /\ w[0] = <<>>
       /\ \A t \in 1..n : w[t] = LaidOut(t, wording[t], w[t - 1])
    BY SMTT(30), <1>1, <1>8 DEF LaysAll, n
<1>11. ASSUME NEW t \in 1..n, w[t - 1] \in S PROVE w[t] \in S
    <2>1. w[t] = LaidOut(t, wording[t], w[t - 1])
        BY <1>10
    <2>2. wording[t] \in Seq(Nat) /\ t \in Nat
        BY <1>1
    <2> QED BY <1>11, <2>1, <2>2, LaidOutIs DEF S
<1>12. w[0] \in S
    BY <1>1, <1>10 DEF start
<1>13. \A k \in 0..n : w[k] \in S
    BY <1>1, <1>11, <1>12, IteratesWithin
<1>14. w \in [0..n -> S]
    BY <1>10, <1>13
<1> QED BY <1>9, <1>10, <1>14 DEF n, S, AllThrough

\* What is known in the loop over text t after i characters, behind m quads.
Kept(before, q) ==
    Len(before) <= Len(q) /\ \A k \in 1..Len(before) : q[k] = before[k]
OfText(t, text, m, i, q) ==
    \A k \in (m + 1)..Len(q) :
        /\ q[k].text = t /\ q[k].at \in 1..i
        /\ q[k].char = text[q[k].at] /\ Drawable(q[k].char)
InTurn(m, q) == \A k \in (m + 1)..(Len(q) - 1) : q[k].at < q[k + 1].at
Spaced(m, q) ==
    \A k \in (m + 1)..(Len(q) - 1) :
        q[k].line = q[k + 1].line => q[k + 1].x = q[k].x + 2 * AdvanceOf(q[k].char)
Broken(m, q) ==
    \A k \in (m + 1)..Len(q) :
        q[k].line > (IF k = m + 1 THEN 0 ELSE q[k - 1].line) => q[k].x = 0
Stands(m, pen) ==
    /\ Len(pen.out) = m => (pen.line > 0 => pen.x = 0)
    /\ Len(pen.out) # m =>
         LET z == pen.out[Len(pen.out)]
         IN  /\ z.line <= pen.line
             /\ z.line = pen.line => pen.x = z.x + 2 * AdvanceOf(z.char)
             /\ z.line # pen.line => pen.x = 0
Straight(text, w, m, i, pen) ==
    (\A j \in 1..i : text[j] # Newline) =>
        /\ pen.line = 0 /\ pen.x = 2 * w[i] - w[Len(text)]
        /\ Len(pen.out) = m => w[i] = 0
        /\ Len(pen.out) # m => pen.out[m + 1].x = -w[Len(text)]
NoneMissed(text, m, i, q) ==
    \A j \in 1..i : Drawable(text[j]) => \E k \in (m + 1)..Len(q) : q[k].at = j

TurnsRight(t, text, before, w, i, pen) ==
    LET m == Len(before) IN
    /\ Kept(before, pen.out) /\ OfText(t, text, m, i, pen.out) /\ InTurn(m, pen.out)
    /\ Spaced(m, pen.out) /\ Broken(m, pen.out) /\ Stands(m, pen)
    /\ Straight(text, w, m, i, pen) /\ NoneMissed(text, m, i, pen.out)

Widens(text, w) ==
    /\ w \in [0..Len(text) -> Nat] /\ w[0] = 0
    /\ \A i \in 1..Len(text) : w[i] = w[i - 1] + AdvanceOf(text[i])

LEMMA TurnFirst ==
    ASSUME FontOK, NEW t \in Nat, NEW text \in Seq(Nat), NEW before \in Seq(Quads), NEW w,
           Widens(text, w)
    PROVE  TurnsRight(t, text, before, w, 0, [x |-> -w[Len(text)], line |-> 0, out |-> before])
<1> DEFINE pen == [x |-> -w[Len(text)], line |-> 0, out |-> before]
           m == Len(before)
<1>1. pen.x = -w[Len(text)] /\ pen.line = 0 /\ pen.out = before
    OBVIOUS
<1>2. m \in Nat /\ Len(text) \in Nat /\ w[Len(text)] \in Nat /\ w[0] = 0
    <2>1. Len(text) \in 0..Len(text)
        OBVIOUS
    <2> QED BY <2>1 DEF Widens
<1> HIDE DEF pen
<1>3. Kept(before, pen.out) /\ OfText(t, text, m, 0, pen.out) /\ InTurn(m, pen.out)
    BY <1>1, <1>2 DEF Kept, OfText, InTurn
<1>4. Spaced(m, pen.out) /\ Broken(m, pen.out) /\ Stands(m, pen)
    BY <1>1, <1>2 DEF Spaced, Broken, Stands
<1>5. Straight(text, w, m, 0, pen) /\ NoneMissed(text, m, 0, pen.out)
    BY <1>1, <1>2 DEF Straight, NoneMissed
<1> QED BY <1>3, <1>4, <1>5 DEF TurnsRight, pen

LEMMA TurnNext ==
    ASSUME FontOK, NEW t \in Nat, NEW text \in Seq(Nat), NEW before \in Seq(Quads), NEW w,
           Widens(text, w), NEW i \in 1..Len(text), NEW pen \in Pens,
           TurnsRight(t, text, before, w, i - 1, pen)
    PROVE  TurnsRight(t, text, before, w, i, Typed(t, i, text[i], pen))
<1> DEFINE m == Len(before)
           c == text[i]
           q == Typed(t, i, c, pen)
           n == Len(pen.out)
           l == Letter(t, i, c, pen)
<1>1. /\ m \in Nat /\ n \in Nat /\ i \in Nat /\ c \in Nat /\ i - 1 \in 0..Len(text)
      /\ w[Len(text)] \in Nat /\ w[i] \in Nat /\ w[i - 1] \in Nat
      /\ w[i] = w[i - 1] + AdvanceOf(c) /\ AdvanceOf(c) \in Nat
    <2>1. m \in Nat /\ n \in Nat /\ i \in Nat /\ c \in Nat
        BY DEF Pens
    <2>2. i - 1 \in 0..Len(text) /\ Len(text) \in 0..Len(text) /\ i \in 0..Len(text)
        OBVIOUS
    <2>3. w[Len(text)] \in Nat /\ w[i] \in Nat /\ w[i - 1] \in Nat
        BY <2>2 DEF Widens
    <2>4. w[i] = w[i - 1] + AdvanceOf(c)
        BY DEF Widens
    <2>5. AdvanceOf(c) \in Nat
        BY AdvancesAre
    <2> QED BY <2>1, <2>2, <2>3, <2>4, <2>5
<1>2. /\ pen.x \in Int /\ pen.line \in Nat /\ pen.out \in Seq(Quads)
      /\ \A k \in 1..n : pen.out[k] \in Quads
    BY DEF Pens
<1>3. /\ q \in Pens
      /\ c = Newline => q.x = 0 /\ q.line = pen.line + 1 /\ q.out = pen.out
      /\ c # Newline => q.line = pen.line /\ q.x = pen.x + 2 * AdvanceOf(c)
      /\ c # Newline /\ ~Drawable(c) => q.out = pen.out
      /\ Drawable(c) => l \in Quads /\ q.out = Append(pen.out, l)
    <2>1. i \in Nat /\ c \in Nat
        BY <1>1
    <2>2. Turned(t, i, c, pen, q)
        BY <2>1, TypedIs
    <2> QED BY <2>2 DEF Turned, l
<1>4. /\ l.text = t /\ l.at = i /\ l.char = c /\ l.x = pen.x /\ l.line = pen.line
    BY DEF Letter
<1>5. /\ Kept(before, pen.out) /\ OfText(t, text, m, i - 1, pen.out) /\ InTurn(m, pen.out)
      /\ Spaced(m, pen.out) /\ Broken(m, pen.out) /\ Stands(m, pen)
      /\ Straight(text, w, m, i - 1, pen) /\ NoneMissed(text, m, i - 1, pen.out)
    BY DEF TurnsRight
<1>6. m <= n
    BY <1>5 DEF Kept
<1>7. \A j \in 1..i : j = i \/ j \in 1..(i - 1)
    BY <1>1
<1>8. Drawable(c) => c # Newline
    BY DEF Drawable
<1>11. /\ n = m => (pen.line > 0 => pen.x = 0)
       /\ n # m => /\ pen.out[n].line <= pen.line
                   /\ pen.out[n].line = pen.line => pen.x = pen.out[n].x + 2 * AdvanceOf(pen.out[n].char)
                   /\ pen.out[n].line # pen.line => pen.x = 0
    BY <1>5 DEF Stands
<1> HIDE DEF q, n, l, c, m
<1>12. n # m => n \in 1..n /\ n \in (m + 1)..n /\ pen.out[n].line \in Nat /\ pen.out[n].x \in Int
    <2>1. n # m => n \in 1..n /\ n \in (m + 1)..n
        BY <1>1, <1>6
    <2>2. \A z \in Quads : z.line \in Nat /\ z.x \in Int
        BY DEF Quads
    <2> QED BY <1>2, <2>1, <2>2
<1>13. w[i] = w[i - 1] + AdvanceOf(c) /\ AdvanceOf(c) \in Nat
    BY <1>1
<1>9. CASE ~Drawable(c)
    <2>1. q.out = pen.out
        BY <1>3, <1>9
    <2>2. OfText(t, text, m, i, q.out)
        <3>1. \A a \in 1..(i - 1) : a \in 1..i
            BY <1>1
        <3> QED BY <1>5, <2>1, <3>1 DEF OfText
    <2>3. NoneMissed(text, m, i, q.out)
        BY <1>5, <1>7, <1>9, <2>1 DEF NoneMissed, c
    <2>4. Stands(m, q)
        <3>1. CASE c = Newline
            <4>1. n # m => pen.out[n].line \in Nat /\ pen.out[n].line <= pen.line
                BY <1>11, <1>12
            <4>2. q.x = 0 /\ q.line = pen.line + 1
                BY <1>3, <3>1
            <4>3. n # m => pen.out[n].line <= q.line /\ pen.out[n].line # q.line
                BY SMTT(30), <1>2, <4>1, <4>2
            <4> QED BY <2>1, <4>2, <4>3 DEF Stands, n
        <3>2. CASE c # Newline
            <4>1. AdvanceOf(c) = 0
                BY <1>9, <3>2 DEF Drawable, AdvanceOf
            <4>2. q.x = pen.x /\ q.line = pen.line
                BY <1>2, <1>3, <3>2, <4>1
            <4> QED BY <1>5, <2>1, <4>2 DEF Stands
        <3> QED BY <3>1, <3>2
    <2>5. Straight(text, w, m, i, q)
        <3> SUFFICES ASSUME \A j \in 1..i : text[j] # Newline
                     PROVE  /\ q.line = 0 /\ q.x = 2 * w[i] - w[Len(text)]
                            /\ Len(q.out) = m => w[i] = 0
                            /\ Len(q.out) # m => q.out[m + 1].x = -w[Len(text)]
            BY DEF Straight
        <3>1. c # Newline /\ \A j \in 1..(i - 1) : text[j] # Newline
            BY <1>1 DEF c
        <3>2. AdvanceOf(c) = 0
            BY <1>9, <3>1 DEF Drawable, AdvanceOf
        <3>3. q.x = pen.x /\ q.line = pen.line /\ w[i] = w[i - 1]
            BY <1>1, <1>2, <1>3, <3>1, <3>2
        <3> QED BY <1>5, <2>1, <3>1, <3>3 DEF Straight
    <2> QED BY <1>5, <2>1, <2>2, <2>3, <2>4, <2>5 DEF TurnsRight, q, c, m
<1>10. CASE Drawable(c)
    <2>1. /\ q.out = Append(pen.out, l) /\ c # Newline /\ l \in Quads
          /\ q.line = pen.line /\ q.x = pen.x + 2 * AdvanceOf(c)
        BY <1>3, <1>8, <1>10
    <2>2. /\ Len(q.out) = n + 1 /\ q.out[n + 1] = l
          /\ \A k \in 1..n : q.out[k] = pen.out[k]
        BY <1>2, <2>1 DEF n
    <2>3. Kept(before, q.out)
        <3>1. m <= n + 1 /\ \A k \in 1..m : k \in 1..n
            BY <1>1, <1>6
        <3>2. \A k \in 1..m : pen.out[k] = before[k]
            BY <1>5 DEF Kept, m
        <3>3. \A k \in 1..m : q.out[k] = before[k]
            BY <2>2, <3>1, <3>2
        <3> QED BY <2>2, <3>1, <3>3 DEF Kept, m
    <2>4. \A k \in (m + 1)..(n + 1) : k = n + 1 \/ (k \in (m + 1)..n /\ k \in 1..n)
        BY <1>1
    <2>5. OfText(t, text, m, i, q.out)
        <3> SUFFICES ASSUME NEW k \in (m + 1)..(n + 1)
                     PROVE  /\ q.out[k].text = t /\ q.out[k].at \in 1..i
                            /\ q.out[k].char = text[q.out[k].at] /\ Drawable(q.out[k].char)
            BY <2>2 DEF OfText
        <3>1. CASE k = n + 1
            <4>1. i \in 1..i /\ c = text[i]
                BY <1>1 DEF c
            <4>2. q.out[k] = l
                BY <2>2, <3>1
            <4> QED BY <1>4, <1>10, <4>1, <4>2
        <3>2. CASE k \in (m + 1)..n /\ k \in 1..n
            <4>1. q.out[k] = pen.out[k]
                BY <2>2, <3>2
            <4>2. /\ pen.out[k].text = t /\ pen.out[k].at \in 1..(i - 1)
                  /\ pen.out[k].char = text[pen.out[k].at] /\ Drawable(pen.out[k].char)
                BY <1>5, <3>2 DEF OfText, n
            <4>3. \A a \in 1..(i - 1) : a \in 1..i
                BY <1>1
            <4> QED BY <4>1, <4>2, <4>3
        <3> QED BY <2>4, <3>1, <3>2
    <2>6. \A k \in (m + 1)..n : k = n \/ (k \in (m + 1)..(n - 1) /\ k + 1 \in 1..n)
        BY <1>1
    <2>7. \A k \in (m + 1)..n : k \in 1..n
        BY <1>1
    <2>8. Len(q.out) - 1 = n
        BY <1>1, <2>2
    <2>9. n # m => n \in (m + 1)..n
        BY <1>1, <1>6
    <2>10. InTurn(m, q.out)
        <3> SUFFICES ASSUME NEW k \in (m + 1)..n PROVE q.out[k].at < q.out[k + 1].at
            BY <2>8 DEF InTurn
        <3>1. CASE k = n
            <4>1. pen.out[n].at \in 1..(i - 1)
                BY <1>5, <3>1 DEF OfText, n
            <4>2. q.out[n] = pen.out[n] /\ q.out[n + 1].at = i
                BY <1>4, <2>2, <2>7, <3>1
            <4>3. \A a \in 1..(i - 1) : a < i
                BY <1>1
            <4> QED BY <3>1, <4>1, <4>2, <4>3
        <3>2. CASE k \in (m + 1)..(n - 1) /\ k + 1 \in 1..n
            BY <1>5, <2>2, <2>7, <3>2 DEF InTurn, n
        <3> QED BY <2>6, <3>1, <3>2
    <2>11. Spaced(m, q.out)
        <3> SUFFICES ASSUME NEW k \in (m + 1)..n, q.out[k].line = q.out[k + 1].line
                     PROVE  q.out[k + 1].x = q.out[k].x + 2 * AdvanceOf(q.out[k].char)
            BY <2>8 DEF Spaced
        <3>1. CASE k = n
            <4>1. q.out[n] = pen.out[n] /\ q.out[n + 1].x = pen.x /\ q.out[n + 1].line = pen.line
                BY <1>4, <2>2, <2>7, <3>1
            <4>2. n # m
                BY <1>1, <3>1
            <4> QED BY <1>5, <3>1, <4>1, <4>2 DEF Stands, n
        <3>2. CASE k \in (m + 1)..(n - 1) /\ k + 1 \in 1..n
            BY <1>5, <2>2, <2>7, <3>2 DEF Spaced, n
        <3> QED BY <2>6, <3>1, <3>2
    <2>12. Broken(m, q.out)
        <3> SUFFICES ASSUME NEW k \in (m + 1)..(n + 1),
                            q.out[k].line > (IF k = m + 1 THEN 0 ELSE q.out[k - 1].line)
                     PROVE  q.out[k].x = 0
            BY <2>2 DEF Broken
        <3>1. CASE k = n + 1
            <4>1. q.out[k].x = pen.x /\ q.out[k].line = pen.line
                BY <1>4, <2>2, <3>1
            <4>2. CASE n = m
                BY <1>5, <3>1, <4>1, <4>2 DEF Stands, n
            <4>3. CASE n # m
                <5>1. k # m + 1 /\ k - 1 = n /\ q.out[n] = pen.out[n]
                    <6>1. k # m + 1 /\ k - 1 = n
                        BY <1>1, <3>1, <4>3
                    <6> QED BY <1>12, <2>2, <4>3, <6>1
                <5>2. pen.out[n].line < pen.line /\ pen.out[n].line \in Nat
                    BY <1>2, <2>7, <2>9, <4>1, <4>3, <5>1 DEF Quads
                <5>3. pen.out[n].line # pen.line
                    BY <1>2, <5>2
                <5>4. pen.x = 0
                    BY <1>11, <4>3, <5>3
                <5> QED BY <4>1, <5>4
            <4> QED BY <4>2, <4>3
        <3>2. CASE k \in (m + 1)..n /\ k \in 1..n
            <4>1. q.out[k] = pen.out[k] /\ (k # m + 1 => k - 1 \in 1..n /\ q.out[k - 1] = pen.out[k - 1])
                <5>1. k # m + 1 => k - 1 \in 1..n
                    BY <1>1, <3>2
                <5> QED BY <2>2, <3>2, <5>1
            <4> QED BY <1>5, <3>2, <4>1 DEF Broken, n
        <3> QED BY <2>4, <3>1, <3>2
    <2>13. Stands(m, q)
        <3>1. n + 1 # m
            BY <1>1, <1>6
        <3>2. q.out[n + 1].line = q.line /\ q.x = q.out[n + 1].x + 2 * AdvanceOf(q.out[n + 1].char)
            BY <1>4, <2>1, <2>2
        <3>3. q.line <= q.line
            BY <1>2, <2>1
        <3> QED BY <2>2, <3>1, <3>2, <3>3 DEF Stands
    <2>14. Straight(text, w, m, i, q)
        <3> SUFFICES ASSUME \A j \in 1..i : text[j] # Newline
                     PROVE  /\ q.line = 0 /\ q.x = 2 * w[i] - w[Len(text)]
                            /\ q.out[m + 1].x = -w[Len(text)]
            BY <1>1, <1>6, <2>2 DEF Straight
        <3>1. \A j \in 1..(i - 1) : text[j] # Newline
            BY <1>1
        <3>2. pen.line = 0 /\ pen.x = 2 * w[i - 1] - w[Len(text)]
            BY <1>5, <3>1 DEF Straight
        <3>3. q.line = 0 /\ q.x = 2 * w[i] - w[Len(text)]
            <4>1. w[Len(text)] \in Nat /\ w[i - 1] \in Nat
                BY <1>1
            <4> DEFINE W == w[Len(text)]
                       u == w[i - 1]
                       v == w[i]
                       a == AdvanceOf(c)
            <4>2. q.line = 0 /\ q.x = (2 * u - W) + 2 * a /\ v = u + a
                BY <1>13, <2>1, <3>2
            <4>3. W \in Nat /\ u \in Nat /\ a \in Nat
                BY <1>13, <4>1
            <4> HIDE DEF W, u, v, a
            <4>4. q.x = 2 * v - W
                BY <4>2, <4>3
            <4> QED BY <4>2, <4>4 DEF W, v
        <3>4. CASE n = m
            <4>1. w[i - 1] = 0
                BY <1>5, <3>1, <3>4 DEF Straight, n
            <4>2. pen.x = -w[Len(text)]
                BY <1>1, <3>2, <4>1
            <4> QED BY <1>4, <2>2, <3>3, <3>4, <4>2
        <3>5. CASE n # m
            <4>1. m + 1 \in 1..n
                BY <1>1, <1>6, <3>5
            <4>2. pen.out[m + 1].x = -w[Len(text)]
                BY <1>5, <3>1, <3>5 DEF Straight, n
            <4> QED BY <2>2, <3>3, <4>1, <4>2
        <3> QED BY <3>4, <3>5
    <2>15. NoneMissed(text, m, i, q.out)
        <3> SUFFICES ASSUME NEW j \in 1..i, Drawable(text[j])
                     PROVE  \E k \in (m + 1)..(n + 1) : q.out[k].at = j
            BY <2>2 DEF NoneMissed
        <3>1. CASE j = i
            <4>1. n + 1 \in (m + 1)..(n + 1) /\ q.out[n + 1].at = i
                BY <1>1, <1>4, <1>6, <2>2
            <4> QED BY <3>1, <4>1
        <3>2. CASE j \in 1..(i - 1)
            <4>1. PICK k \in (m + 1)..n : pen.out[k].at = j
                BY <1>5, <3>2 DEF NoneMissed, n
            <4>2. k \in (m + 1)..(n + 1)
                BY <1>1
            <4>3. q.out[k] = pen.out[k]
                BY <2>2, <2>7
            <4> QED BY <4>1, <4>2, <4>3
        <3> QED BY <1>7, <3>1, <3>2
    <2> QED BY <2>3, <2>5, <2>10, <2>11, <2>12, <2>13, <2>14, <2>15 DEF TurnsRight, q, c, m
<1> QED BY <1>9, <1>10

\* What the loop over one text has done.
Centred(text, m, q) ==
    (\A j \in 1..Len(text) : text[j] # Newline) /\ Len(q) # m =>
        q[Len(q)].x + 2 * AdvanceOf(q[Len(q)].char) = -q[m + 1].x
LaidRight(t, text, before, q) ==
    LET m == Len(before) IN
    /\ q \in Seq(Quads)
    /\ Kept(before, q) /\ OfText(t, text, m, Len(text), q) /\ InTurn(m, q)
    /\ Spaced(m, q) /\ Broken(m, q) /\ Centred(text, m, q)
    /\ NoneMissed(text, m, Len(text), q)

LEMMA TextLaid ==
    ASSUME FontOK, NEW t \in Nat, NEW text \in Seq(Nat), NEW before \in Seq(Quads)
    PROVE  LaidRight(t, text, before, LaidOut(t, text, before))
<1> DEFINE n == Len(text)
           m == Len(before)
           q == LaidOut(t, text, before)
<1>1. PICK w \in [0..n -> Nat] :
              /\ w[0] = 0 /\ TotalWidth(text) = w[n]
              /\ \A i \in 1..n : w[i] = w[i - 1] + AdvanceOf(text[i])
    BY WidthSums
<1>2. Widens(text, w)
    BY <1>1 DEF Widens
<1>3. PICK pen \in [0..n -> Pens] : LaidThrough(t, text, before, pen)
    BY LaidSteps
<1> DEFINE T == {k \in Nat : k <= n => TurnsRight(t, text, before, w, k, pen[k])}
<1>4. 0 \in T
    <2>1. pen[0] = [x |-> -w[n], line |-> 0, out |-> before]
        BY <1>1, <1>3 DEF LaidThrough
    <2>2. TurnsRight(t, text, before, w, 0, pen[0])
        BY <1>2, <2>1, TurnFirst
    <2> QED BY <2>2
<1>5. ASSUME NEW k \in Nat, k \in T PROVE k + 1 \in T
    <2> SUFFICES ASSUME k + 1 <= n PROVE TurnsRight(t, text, before, w, k + 1, pen[k + 1])
        OBVIOUS
    <2>1. n \in Nat /\ k + 1 \in 1..n /\ (k + 1) - 1 = k /\ k \in 0..n
        OBVIOUS
    <2>2. pen[k] \in Pens /\ pen[k + 1] = Typed(t, k + 1, text[k + 1], pen[k])
        BY <1>3, <2>1 DEF LaidThrough
    <2>3. TurnsRight(t, text, before, w, k, pen[k])
        BY <1>5, <2>1
    <2> DEFINE i == k + 1
    <2>4. i \in 1..n /\ TurnsRight(t, text, before, w, i - 1, pen[k])
        BY <2>1, <2>3
    <2> HIDE DEF i
    <2>5. TurnsRight(t, text, before, w, i, Typed(t, i, text[i], pen[k]))
        BY <1>2, <2>2, <2>4, TurnNext
    <2> QED BY <2>2, <2>5 DEF i
<1> HIDE DEF T
<1>6. \A k \in Nat : k \in T
    BY <1>4, <1>5, FromZeroOn
<1>7. n \in Nat /\ n \in 0..n /\ n <= n /\ m \in Nat
    OBVIOUS
<1>8. TurnsRight(t, text, before, w, n, pen[n]) /\ pen[n] \in Pens /\ pen[n].out = q
    BY <1>3, <1>6, <1>7 DEF T, LaidThrough
<1> HIDE DEF n, q, m
<1>9. q \in Seq(Quads)
    BY <1>8 DEF Pens
<1>10. Centred(text, m, q)
    <2> SUFFICES ASSUME \A j \in 1..n : text[j] # Newline, Len(q) # m
                 PROVE  q[Len(q)].x + 2 * AdvanceOf(q[Len(q)].char) = -q[m + 1].x
        BY DEF Centred, n
    <2>1. /\ pen[n].line = 0 /\ pen[n].x = 2 * w[n] - w[n]
          /\ q[m + 1].x = -w[n]
        BY <1>8 DEF TurnsRight, Straight, n, m
    <2>2. /\ q[Len(q)].line <= 0
          /\ q[Len(q)].line = 0 => pen[n].x = q[Len(q)].x + 2 * AdvanceOf(q[Len(q)].char)
        BY <1>8, <2>1 DEF TurnsRight, Stands, m
    <2>3. q[Len(q)].line = 0
        <3>1. m <= Len(q) /\ Len(q) \in Nat
            BY <1>8, <1>9 DEF TurnsRight, Kept, m
        <3>2. Len(q) \in 1..Len(q)
            BY <1>7, <3>1
        <3>3. q[Len(q)] \in Quads
            BY <1>9, <3>2
        <3>4. q[Len(q)].line \in Nat
            BY <3>3 DEF Quads
        <3> QED BY <2>2, <3>4
    <2>4. w[n] \in Nat
        BY <1>1, <1>7
    <2> QED BY <2>1, <2>2, <2>3, <2>4
<1> QED BY <1>8, <1>9, <1>10 DEF TurnsRight, LaidRight, n, m, q

\* What is known of the quads of the texts up to t.
AllOf(wording, t, q) ==
    \A k \in 1..Len(q) :
        /\ q[k].text \in 1..t /\ q[k].at \in 1..Len(wording[q[k].text])
        /\ q[k].char = wording[q[k].text][q[k].at] /\ Drawable(q[k].char)
AllInTurn(q) ==
    \A k \in 1..(Len(q) - 1) :
        q[k].text < q[k + 1].text \/ (q[k].text = q[k + 1].text /\ q[k].at < q[k + 1].at)
AllComplete(wording, t, q) ==
    \A s \in 1..t : \A i \in 1..Len(wording[s]) : Drawable(wording[s][i]) =>
        \E k \in 1..Len(q) : q[k].text = s /\ q[k].at = i
AllSpaced(q) ==
    \A k \in 1..(Len(q) - 1) :
        q[k].text = q[k + 1].text /\ q[k].line = q[k + 1].line =>
            q[k + 1].x = q[k].x + 2 * AdvanceOf(q[k].char)
Begins(k, q) == k = 1 \/ q[k - 1].text # q[k].text
Finishes(k, q) == k = Len(q) \/ q[k + 1].text # q[k].text
AllBroken(q) ==
    \A k \in 1..Len(q) :
        q[k].line > (IF Begins(k, q) THEN 0 ELSE q[k - 1].line) => q[k].x = 0
AllCentred(wording, q) ==
    \A j, k \in 1..Len(q) :
        /\ Begins(j, q) /\ Finishes(k, q) /\ q[j].text = q[k].text
        /\ \A i \in 1..Len(wording[q[j].text]) : wording[q[j].text][i] # Newline
        => q[k].x + 2 * AdvanceOf(q[k].char) = -q[j].x

AllRight(wording, t, q) ==
    /\ q \in Seq(Quads)
    /\ AllOf(wording, t, q) /\ AllInTurn(q) /\ AllComplete(wording, t, q)
    /\ AllSpaced(q) /\ AllBroken(q) /\ AllCentred(wording, q)

LEMMA OneMoreText ==
    ASSUME NEW wording \in Seq(Seq(Nat)), NEW t \in 1..Len(wording),
           NEW before, AllRight(wording, t - 1, before),
           NEW q, LaidRight(t, wording[t], before, q)
    PROVE  AllRight(wording, t, q)
<1> DEFINE m == Len(before)
           n == Len(q)
           text == wording[t]
<1>1. before \in Seq(Quads) /\ q \in Seq(Quads) /\ m \in Nat /\ n \in Nat /\ m <= n
    BY DEF AllRight, LaidRight, Kept
<1>2. t \in Nat /\ t - 1 \in Nat
    OBVIOUS
<1>3. \A k \in 1..m : k \in 1..n /\ q[k] = before[k]
    <2>1. \A k \in 1..m : k \in 1..n
        BY <1>1
    <2> QED BY <2>1 DEF LaidRight, Kept
<1>4. \A k \in 1..m : /\ q[k].text \in 1..(t - 1) /\ q[k].at \in 1..Len(wording[q[k].text])
                      /\ q[k].char = wording[q[k].text][q[k].at] /\ Drawable(q[k].char)
    BY <1>3 DEF AllRight, AllOf
<1>5. \A k \in (m + 1)..n : /\ q[k].text = t /\ q[k].at \in 1..Len(text)
                            /\ q[k].char = text[q[k].at] /\ Drawable(q[k].char)
    BY DEF LaidRight, OfText
<1> HIDE DEF m, n
<1>6. \A k \in 1..n : k \in 1..m \/ k \in (m + 1)..n
    BY <1>1
<1>7. \A k \in (m + 1)..n : k \in 1..n
    BY <1>1
<1>8. \A s \in 1..(t - 1) : s \in 1..t /\ s < t /\ s # t
    BY <1>2
<1>9. \A k \in 1..m : q[k].text # t /\ q[k].text < t
    BY <1>4, <1>8
<1>10. AllOf(wording, t, q)
    <2>1. t \in 1..t
        BY <1>2
    <2> QED BY <1>4, <1>5, <1>6, <1>8, <2>1 DEF AllOf, n
<1>11. \A k \in 1..(n - 1) : \/ k \in 1..(m - 1) /\ k \in 1..m /\ k + 1 \in 1..m
                             \/ k = m /\ k \in 1..m /\ k + 1 \in (m + 1)..n
                             \/ k \in (m + 1)..(n - 1) /\ k \in (m + 1)..n /\ k + 1 \in (m + 1)..n
    BY <1>1
<1>12. AllInTurn(q)
    <2> SUFFICES ASSUME NEW k \in 1..(n - 1)
                 PROVE  \/ q[k].text < q[k + 1].text
                        \/ q[k].text = q[k + 1].text /\ q[k].at < q[k + 1].at
        BY DEF AllInTurn, n
    <2>1. CASE k \in 1..(m - 1) /\ k \in 1..m /\ k + 1 \in 1..m
        <3>1. q[k] = before[k] /\ q[k + 1] = before[k + 1]
            BY <1>3, <2>1
        <3> QED BY <2>1, <3>1 DEF AllRight, AllInTurn, m
    <2>2. CASE k = m /\ k \in 1..m /\ k + 1 \in (m + 1)..n
        BY <1>5, <1>9, <2>2
    <2>3. CASE k \in (m + 1)..(n - 1) /\ k \in (m + 1)..n /\ k + 1 \in (m + 1)..n
        BY <1>5, <2>3 DEF LaidRight, InTurn, m, n
    <2> QED BY <1>11, <2>1, <2>2, <2>3
<1>13. AllComplete(wording, t, q)
    <2> SUFFICES ASSUME NEW s \in 1..t, NEW i \in 1..Len(wording[s]), Drawable(wording[s][i])
                 PROVE  \E k \in 1..n : q[k].text = s /\ q[k].at = i
        BY DEF AllComplete, n
    <2>1. CASE s = t
        <3>1. PICK k \in (m + 1)..n : q[k].at = i
            BY <2>1 DEF LaidRight, NoneMissed, m, n
        <3> QED BY <1>5, <1>7, <2>1, <3>1
    <2>2. CASE s \in 1..(t - 1)
        <3>1. PICK k \in 1..m : before[k].text = s /\ before[k].at = i
            BY <2>2 DEF AllRight, AllComplete, m
        <3> QED BY <1>3, <3>1
    <2> QED BY SMTT(30), <1>2, <2>1, <2>2
<1>14. AllSpaced(q)
    <2> SUFFICES ASSUME NEW k \in 1..(n - 1),
                        q[k].text = q[k + 1].text, q[k].line = q[k + 1].line
                 PROVE  q[k + 1].x = q[k].x + 2 * AdvanceOf(q[k].char)
        BY DEF AllSpaced, n
    <2>1. CASE k \in 1..(m - 1) /\ k \in 1..m /\ k + 1 \in 1..m
        <3>1. q[k] = before[k] /\ q[k + 1] = before[k + 1]
            BY <1>3, <2>1
        <3> QED BY <2>1, <3>1 DEF AllRight, AllSpaced, m
    <2>2. CASE k = m /\ k \in 1..m /\ k + 1 \in (m + 1)..n
        BY <1>5, <1>9, <2>2
    <2>3. CASE k \in (m + 1)..(n - 1) /\ k \in (m + 1)..n /\ k + 1 \in (m + 1)..n
        BY <2>3 DEF LaidRight, Spaced, m, n
    <2> QED BY <1>11, <2>1, <2>2, <2>3
<1>15. \A k \in 1..n : \/ k = 1 \/ k - 1 \in 1..(n - 1)
    BY <1>1
<1>16. \A k \in 1..m : Begins(k, q) <=> Begins(k, before)
    <2> TAKE k \in 1..m
    <2>1. k = 1 \/ k - 1 \in 1..m
        BY <1>1
    <2> QED BY <1>3, <2>1 DEF Begins
<1>17. \A k \in (m + 1)..n : Begins(k, q) <=> k = m + 1
    <2> TAKE k \in (m + 1)..n
    <2>1. CASE k = m + 1
        <3>1. CASE m = 0
            <4>1. k = 1
                BY <2>1, <3>1
            <4> QED BY <2>1, <4>1 DEF Begins
        <3>2. CASE m # 0
            <4>1. k - 1 = m /\ m \in 1..m
                BY <1>1, <2>1, <3>2
            <4> QED BY <1>5, <1>9, <2>1, <4>1 DEF Begins
        <3> QED BY <3>1, <3>2
    <2>2. CASE k # m + 1
        <3>1. k # 1 /\ k - 1 \in (m + 1)..n
            BY <1>1, <2>2
        <3> QED BY <1>5, <2>2, <3>1 DEF Begins
    <2> QED BY <2>1, <2>2
<1>18. AllBroken(q)
    <2> SUFFICES ASSUME NEW k \in 1..n,
                        q[k].line > (IF Begins(k, q) THEN 0 ELSE q[k - 1].line)
                 PROVE  q[k].x = 0
        BY DEF AllBroken, n
    <2>1. CASE k \in 1..m
        <3>1. k = 1 \/ k - 1 \in 1..m
            BY <1>1, <2>1
        <3>2. ~Begins(k, q) => q[k - 1] = before[k - 1]
            BY <1>3, <3>1 DEF Begins
        <3>3. q[k] = before[k] /\ (Begins(k, q) <=> Begins(k, before))
            BY <1>3, <1>16, <2>1
        <3> QED BY <2>1, <3>2, <3>3 DEF AllRight, AllBroken, m
    <2>2. CASE k \in (m + 1)..n
        <3>1. Begins(k, q) <=> k = m + 1
            BY <1>17, <2>2
        <3> QED BY <2>2, <3>1 DEF LaidRight, Broken, m, n
    <2> QED BY <1>6, <2>1, <2>2
<1>19. AllCentred(wording, q)
    <2> SUFFICES ASSUME NEW j \in 1..n, NEW k \in 1..n,
                        Begins(j, q), Finishes(k, q), q[j].text = q[k].text,
                        \A i \in 1..Len(wording[q[j].text]) : wording[q[j].text][i] # Newline
                 PROVE  q[k].x + 2 * AdvanceOf(q[k].char) = -q[j].x
        BY DEF AllCentred, n
    <2>1. CASE j \in 1..m /\ k \in 1..m
        <3>1. q[j] = before[j] /\ q[k] = before[k] /\ Begins(j, before)
            BY <1>3, <1>16, <2>1
        <3>2. Finishes(k, before)
            <4>1. k = m \/ k + 1 \in 1..m
                BY <1>1, <2>1
            <4>2. CASE k + 1 \in 1..m
                <5>1. k # n
                    BY <1>1, <4>2
                <5> QED BY <1>3, <2>1, <4>2, <5>1 DEF Finishes, n
            <4> QED BY <4>1, <4>2 DEF Finishes, m
        <3> QED BY <2>1, <3>1, <3>2 DEF AllRight, AllCentred, m
    <2>2. CASE j \in (m + 1)..n /\ k \in (m + 1)..n
        <3>1. j = m + 1
            BY <1>17, <2>2
        <3>2. k = n
            <4>1. k = n \/ k + 1 \in (m + 1)..n
                BY <1>1, <2>2
            <4> QED BY <1>5, <2>2, <4>1 DEF Finishes, n
        <3>3. n # m /\ q[j].text = t
            <4>1. n # m
                BY <1>1, <2>2
            <4> QED BY <1>5, <2>2, <4>1
        <3> QED BY <3>1, <3>2, <3>3 DEF LaidRight, Centred, m, n
    <2>3. CASE (j \in 1..m /\ k \in (m + 1)..n) \/ (j \in (m + 1)..n /\ k \in 1..m)
        BY <1>5, <1>9, <2>3
    <2> QED BY <1>6, <2>1, <2>2, <2>3
<1> QED BY <1>1, <1>10, <1>12, <1>13, <1>14, <1>18, <1>19 DEF AllRight

LEMMA AllTextsLaid ==
    ASSUME FontOK, NEW wording \in Seq(Seq(Nat))
    PROVE  AllRight(wording, Len(wording), AllLaidOut(wording))
<1> DEFINE n == Len(wording)
<1>1. PICK upTo \in [0..n -> Seq(Quads)] : AllThrough(wording, upTo)
    BY AllLaidSteps
<1> DEFINE T == {t \in Nat : t <= n => AllRight(wording, t, upTo[t])}
<1>2. 0 \in T
    <2>1. upTo[0] = <<>>
        BY <1>1 DEF AllThrough
    <2> DEFINE e == upTo[0]
    <2>2. e \in Seq(Quads) /\ Len(e) = 0
        BY <2>1
    <2> HIDE DEF e
    <2>3. \A k \in 1..Len(e) : FALSE
        BY <2>2
    <2>4. \A k \in 1..(Len(e) - 1) : FALSE
        BY <2>2
    <2>5. AllOf(wording, 0, e) /\ AllInTurn(e) /\ AllComplete(wording, 0, e)
        BY <2>3, <2>4 DEF AllOf, AllInTurn, AllComplete
    <2>6. AllSpaced(e) /\ AllBroken(e) /\ AllCentred(wording, e)
        BY <2>3, <2>4 DEF AllSpaced, AllBroken, AllCentred
    <2> QED BY <2>2, <2>5, <2>6 DEF AllRight, e
<1>3. ASSUME NEW k \in Nat, k \in T PROVE k + 1 \in T
    <2> SUFFICES ASSUME k + 1 <= n PROVE AllRight(wording, k + 1, upTo[k + 1])
        OBVIOUS
    <2> DEFINE t == k + 1
    <2>1. t \in 1..Len(wording) /\ t - 1 = k /\ k \in 0..n /\ t \in Nat
        OBVIOUS
    <2>2. upTo[t] = LaidOut(t, wording[t], upTo[k])
        BY <1>1, <2>1 DEF AllThrough
    <2>3. upTo[k] \in Seq(Quads) /\ wording[t] \in Seq(Nat)
        <3>1. upTo[k] \in Seq(Quads)
            BY <1>1, <2>1
        <3>2. \A s \in 1..Len(wording) : wording[s] \in Seq(Nat)
            OBVIOUS
        <3> HIDE DEF t
        <3> QED BY <2>1, <3>1, <3>2
    <2>4. AllRight(wording, t - 1, upTo[k])
        BY <1>3, <2>1
    <2> HIDE DEF t
    <2>5. LaidRight(t, wording[t], upTo[k], LaidOut(t, wording[t], upTo[k]))
        BY <2>1, <2>3, TextLaid
    <2>6. AllRight(wording, t, LaidOut(t, wording[t], upTo[k]))
        BY <2>1, <2>4, <2>5, OneMoreText
    <2> QED BY <2>2, <2>6 DEF t
<1> HIDE DEF T
<1>4. \A t \in Nat : t \in T
    BY <1>2, <1>3, FromZeroOn
<1>5. n \in Nat /\ n <= n
    OBVIOUS
<1> QED BY <1>1, <1>4, <1>5 DEF T, AllThrough

\* The instance buffer has the first of them.
LEMMA CapIs ==
    ASSUME NEW q \in Seq(Quads)
    PROVE  /\ Capped(q) \in Seq(Quads) /\ Len(Capped(q)) <= MaxLetters
           /\ Len(Capped(q)) <= Len(q)
           /\ \A k \in 1..Len(Capped(q)) : Capped(q)[k] = q[k]
           /\ Len(Capped(q)) < MaxLetters => Capped(q) = q
<1>1. MaxLetters \in Nat /\ Len(q) \in Nat
    BY AtlasAssumption
<1>2. CASE Len(q) > MaxLetters
    <2>1. Capped(q) = SubSeq(q, 1, MaxLetters)
        BY <1>2 DEF Capped
    <2>2. /\ SubSeq(q, 1, MaxLetters) \in Seq(Quads)
          /\ Len(SubSeq(q, 1, MaxLetters)) = MaxLetters
          /\ \A k \in 1..MaxLetters : SubSeq(q, 1, MaxLetters)[k] = q[k]
        BY <1>1, <1>2
    <2> QED BY <1>1, <1>2, <2>1, <2>2
<1>3. CASE ~(Len(q) > MaxLetters)
    <2>1. Capped(q) = q
        BY <1>3 DEF Capped
    <2> QED BY <1>1, <1>3, <2>1
<1> QED BY <1>2, <1>3

LaidAsGiven == \E q : AllRight(texts, Len(texts), q) /\ letters = Capped(q)

LEMMA LaidTexts ==
    ASSUME texts \in Seq(Seq(Nat)), LaidAsGiven
    PROVE  LettersOfTexts /\ EveryLetterDrawn /\ LettersFollow /\ LinesStart /\ TextsCentred
<1>1. PICK q : AllRight(texts, Len(texts), q) /\ letters = Capped(q)
    BY DEF LaidAsGiven
<1> DEFINE n == Len(letters)
<1>2. /\ letters \in Seq(Quads) /\ n <= Len(q) /\ \A k \in 1..n : letters[k] = q[k]
      /\ n < MaxLetters => letters = q
    BY <1>1, CapIs DEF AllRight
<1>3. n \in Nat /\ Len(q) \in Nat /\ DOMAIN letters = 1..n /\ DOMAIN texts = 1..Len(texts)
    BY <1>1, <1>2 DEF AllRight
<1>4. \A t \in 1..Len(texts) : DOMAIN texts[t] = 1..Len(texts[t])
    OBVIOUS
<1> HIDE DEF n
<1>5. \A k \in 1..n : k \in 1..Len(q)
    BY <1>2, <1>3
<1>6. \A k \in 1..(n - 1) : k \in 1..n /\ k + 1 \in 1..n /\ k \in 1..(Len(q) - 1)
    BY <1>2, <1>3
<1>7. LettersOfTexts
    <2>1. ASSUME NEW k \in 1..n
          PROVE  /\ letters[k].text \in DOMAIN texts /\ letters[k].at \in DOMAIN texts[letters[k].text]
                 /\ letters[k].char = texts[letters[k].text][letters[k].at]
                 /\ Drawable(letters[k].char)
        BY <1>1, <1>2, <1>3, <1>4, <1>5 DEF AllRight, AllOf
    <2>2. ASSUME NEW k \in 1..(n - 1)
          PROVE  \/ letters[k].text < letters[k + 1].text
                 \/ letters[k].text = letters[k + 1].text /\ letters[k].at < letters[k + 1].at
        BY <1>1, <1>2, <1>6 DEF AllRight, AllInTurn
    <2> QED BY <1>3, <2>1, <2>2 DEF LettersOfTexts, n
<1>8. EveryLetterDrawn
    <2> SUFFICES ASSUME n < MaxLetters, NEW t \in DOMAIN texts, NEW i \in DOMAIN texts[t],
                        Drawable(texts[t][i])
                 PROVE  \E k \in DOMAIN letters : letters[k].text = t /\ letters[k].at = i
        BY DEF EveryLetterDrawn, n
    <2>1. t \in 1..Len(texts) /\ i \in 1..Len(texts[t])
        BY <1>3, <1>4
    <2>2. letters = q
        BY <1>2
    <2>3. \E k \in 1..Len(q) : q[k].text = t /\ q[k].at = i
        BY <1>1, <2>1 DEF AllRight, AllComplete
    <2> QED BY <1>3, <2>2, <2>3 DEF n
<1>9. LettersFollow
    <2> SUFFICES ASSUME NEW k \in 1..(n - 1), letters[k].text = letters[k + 1].text,
                        letters[k].line = letters[k + 1].line
                 PROVE  letters[k + 1].x = letters[k].x + 2 * AdvanceOf(letters[k].char)
        BY DEF LettersFollow, n
    <2> QED BY <1>1, <1>2, <1>6 DEF AllRight, AllSpaced
<1>10. LinesStart
    <2> SUFFICES ASSUME NEW k \in 1..n,
                        letters[k].line > (IF StartsText(k) THEN 0 ELSE letters[k - 1].line)
                 PROVE  letters[k].x = 0
        BY <1>3 DEF LinesStart
    <2>1. k = 1 \/ k - 1 \in 1..n
        BY <1>3
    <2>2. letters[k] = q[k] /\ (k # 1 => letters[k - 1] = q[k - 1])
        BY <1>2, <2>1
    <2>3. (StartsText(k) <=> Begins(k, q)) /\ (~Begins(k, q) => k # 1)
        BY <2>2 DEF StartsText, Begins
    <2> QED BY <1>1, <1>5, <2>2, <2>3 DEF AllRight, AllBroken
<1>11. TextsCentred
    <2> SUFFICES ASSUME n < MaxLetters, NEW j \in 1..n, NEW k \in 1..n,
                        StartsText(j), EndsText(k), letters[j].text = letters[k].text,
                        \A i \in DOMAIN texts[letters[j].text] : texts[letters[j].text][i] # Newline
                 PROVE  letters[k].x + 2 * AdvanceOf(letters[k].char) = -letters[j].x
        BY <1>3 DEF TextsCentred, n
    <2>1. letters = q
        BY <1>2
    <2>2. Begins(j, q) /\ Finishes(k, q)
        BY <2>1 DEF StartsText, EndsText, Begins, Finishes
    <2>3. j \in 1..Len(q) /\ k \in 1..Len(q)
        BY <1>5
    <2>4. q[j].text \in 1..Len(texts)
        BY <1>1, <2>3 DEF AllRight, AllOf
    <2>5. \A i \in 1..Len(texts[q[j].text]) : texts[q[j].text][i] # Newline
        BY <1>4, <2>1, <2>4
    <2> QED BY <1>1, <2>1, <2>2, <2>3, <2>5 DEF AllRight, AllCentred
<1> QED BY <1>7, <1>8, <1>9, <1>10, <1>11

\* Nothing is drawn before the font is loaded, and then its glyphs stay.
LaidInv ==
    /\ AtlasTypeOK /\ texts \in Seq(Seq(Nat)) /\ LaidAsGiven
    /\ code > Count \/ (letters = <<>> /\ texts = <<>>)

LEMMA NothingLaid == texts = <<>> /\ letters = <<>> => texts \in Seq(Seq(Nat)) /\ LaidAsGiven
<1> SUFFICES ASSUME texts = <<>>, letters = <<>> PROVE texts \in Seq(Seq(Nat)) /\ LaidAsGiven
    OBVIOUS
<1> DEFINE e == texts
<1>1. e \in Seq(Quads) /\ Len(e) = 0 /\ texts \in Seq(Seq(Nat))
    OBVIOUS
<1>2. MaxLetters \in Nat
    BY AtlasAssumption
<1>3. letters = Capped(e)
    BY <1>1, <1>2 DEF Capped
<1>4. Len(texts) = 0
    BY <1>1
<1> HIDE DEF e
<1>5. \A k \in 1..Len(e) : FALSE
    BY <1>1
<1>6. \A k \in 1..(Len(e) - 1) : FALSE
    BY <1>1
<1>7. \A k \in 1..Len(texts) : FALSE
    BY <1>4
<1>8. AllOf(texts, Len(texts), e) /\ AllInTurn(e) /\ AllComplete(texts, Len(texts), e)
    BY <1>5, <1>6, <1>7 DEF AllOf, AllInTurn, AllComplete
<1>9. AllSpaced(e) /\ AllBroken(e) /\ AllCentred(texts, e)
    BY <1>5, <1>6 DEF AllSpaced, AllBroken, AllCentred
<1>10. AllRight(texts, Len(texts), e)
    BY <1>1, <1>8, <1>9 DEF AllRight
<1> QED BY <1>1, <1>3, <1>10 DEF LaidAsGiven

LEMMA LaidStays ==
    ASSUME LaidAsGiven, UNCHANGED <<characters, texts, letters>>
    PROVE  LaidAsGiven'
<1>1. PICK q : AllRight(texts, Len(texts), q) /\ letters = Capped(q)
    BY DEF LaidAsGiven
<1>2. /\ \A c : Drawable(c)' <=> Drawable(c)
      /\ \A c : AdvanceOf(c)' = AdvanceOf(c)
    BY DEF Drawable, AdvanceOf
<1>3. texts' = texts /\ letters' = letters
    OBVIOUS
<1>4. AllOf(texts, Len(texts), q)' /\ AllComplete(texts, Len(texts), q)'
    BY <1>1, <1>2, <1>3 DEF AllRight, AllOf, AllComplete
<1>5. AllInTurn(q)' /\ AllBroken(q)'
    BY <1>1, <1>2, <1>3 DEF AllRight, AllInTurn, AllBroken, Begins
<1>6. AllSpaced(q)'
    BY <1>1, <1>2 DEF AllRight, AllSpaced
<1>7. AllCentred(texts, q)'
    BY <1>1, <1>2, <1>3 DEF AllRight, AllCentred, Begins, Finishes
<1> QED BY <1>1, <1>3, <1>4, <1>5, <1>6, <1>7 DEF AllRight, LaidAsGiven

LEMMA LoadTypes ==
    ASSUME AtlasTypeOK, code <= Count, letters = <<>>, NEW w \in Widths, NEW r \in Rows,
           NEW a \in Advances, LoadGlyph(w, r, a)
    PROVE  AtlasTypeOK'
<1> DEFINE wraps == Wraps(currentX, w)
           x == IF wraps THEN 0 ELSE currentX
           y == IF wraps THEN currentY + rowHeight ELSE currentY
           glyph == [left |-> x, top |-> y, width |-> w, rows |-> r, advance |-> a]
           old == DOMAIN characters
<1>1. /\ w \in Nat /\ 1 <= w /\ w < AtlasWidth /\ r \in Nat /\ AtlasWidth \in Nat /\ Count \in Nat
    BY AtlasAssumption
<1>2. /\ code' = code + 1 /\ currentX' = x + w + 1 /\ currentY' = y
      /\ rowHeight' = Heightened(IF wraps THEN 0 ELSE rowHeight, r)
      /\ DOMAIN characters' = old \cup {code} /\ letters' = letters
      /\ characters'[code] = glyph
      /\ \A c \in old : c # code => characters'[c] = characters[c]
    BY DEF LoadGlyph
<1>3. code \in Nat /\ 1 <= code /\ currentX \in Nat /\ currentY \in Nat /\ rowHeight \in Nat
    BY <1>1 DEF AtlasTypeOK
<1>4. x \in Nat /\ y \in Nat /\ x + w < AtlasWidth
    BY <1>1, <1>3 DEF Wraps
<1>5. rowHeight' \in Nat
    BY <1>1, <1>2, <1>3 DEF Heightened, Larger
<1>6. glyph \in Glyph
    <2> HIDE DEF x, y
    <2>1. x \in 0..(AtlasWidth - 1)
        BY <1>1, <1>4
    <2> QED BY <1>4, <2>1 DEF Glyph
<1> HIDE DEF x, y, glyph, wraps
<1>7. code' \in 1..(Count + 1) /\ currentX' \in 0..AtlasWidth /\ currentY' \in Nat
    BY <1>1, <1>2, <1>3, <1>4
<1>8. DOMAIN characters' \subseteq 1..(code' - 1)
    <2>1. \A c \in 1..(code - 1) : c \in 1..code
        BY <1>3
    <2>2. code' - 1 = code /\ code \in 1..code
        BY <1>2, <1>3
    <2> QED BY <1>2, <2>1, <2>2 DEF AtlasTypeOK
<1>9. \A c \in DOMAIN characters' : characters'[c] \in Glyph
    BY <1>2, <1>6 DEF AtlasTypeOK
<1>10. Glyph' = Glyph
    BY DEF Glyph
<1> QED BY <1>2, <1>5, <1>7, <1>8, <1>9, <1>10 DEF AtlasTypeOK

LEMMA LaidKept ==
    ASSUME LaidInv, [AtlasNext]_atlasVars
    PROVE  LaidInv'
<1>1. MaxLetters \in Nat /\ Count \in Nat /\ Contents \subseteq Seq(Seq(Nat))
    BY AtlasAssumption
<1>2. CASE SkipGlyph
    <2>1. code <= Count /\ code' = code + 1 /\ UNCHANGED <<currentX, currentY, rowHeight, characters, texts, letters>>
        BY <1>2 DEF SkipGlyph
    <2>2. code \in 1..(Count + 1) /\ code \in Nat
        BY <1>1 DEF LaidInv, AtlasTypeOK
    <2>3. letters = <<>> /\ texts = <<>>
        BY <1>1, <2>1, <2>2 DEF LaidInv
    <2>4. \A c \in 1..(code - 1) : c \in 1..(code' - 1)
        BY <2>1, <2>2
    <2>5. AtlasTypeOK'
        <3>1. code' \in 1..(Count + 1)
            BY <1>1, <2>1, <2>2
        <3> QED BY <2>1, <2>4, <3>1 DEF LaidInv, AtlasTypeOK, Glyph
    <2>6. LaidAsGiven'
        BY <2>1, LaidStays DEF LaidInv
    <2> QED BY <2>1, <2>3, <2>5, <2>6 DEF LaidInv
<1>3. CASE \E w \in Widths, r \in Rows, a \in Advances : LoadGlyph(w, r, a)
    <2>1. PICK w \in Widths, r \in Rows, a \in Advances : LoadGlyph(w, r, a)
        BY <1>3
    <2>2. code <= Count /\ UNCHANGED <<texts, letters>>
        BY <2>1 DEF LoadGlyph
    <2>3. letters = <<>> /\ texts = <<>>
        <3>1. code \in 1..(Count + 1)
            BY DEF LaidInv, AtlasTypeOK
        <3> QED BY <1>1, <2>2, <3>1 DEF LaidInv
    <2>4. AtlasTypeOK'
        BY <2>1, <2>2, <2>3, LoadTypes DEF LaidInv
    <2>5. (texts = <<>> /\ letters = <<>> => texts \in Seq(Seq(Nat)) /\ LaidAsGiven)'
        BY NothingLaid, PTL
    <2> QED BY <2>2, <2>3, <2>4, <2>5 DEF LaidInv
<1>4. CASE \E wording \in Contents : Draw(wording)
    <2>1. PICK wording \in Contents : Draw(wording)
        BY <1>4
    <2>2. /\ code > Count /\ texts' = wording /\ letters' = Capped(AllLaidOut(wording))
          /\ UNCHANGED <<code, currentX, currentY, rowHeight, characters>>
        BY <2>1 DEF Draw
    <2>3. wording \in Seq(Seq(Nat))
        BY <1>1
    <2>4. FontOK
        BY AtlasAssumption DEF FontOK, LaidInv, AtlasTypeOK, Glyph
    <2>9. PICK q : q = AllLaidOut(wording)
        OBVIOUS
    <2>5. AllRight(wording, Len(wording), q)
        BY <2>3, <2>4, <2>9, AllTextsLaid
    <2>6. Len(Capped(q)) <= MaxLetters
        BY <2>5, CapIs DEF AllRight
    <2>7. AtlasTypeOK'
        BY <2>2, <2>6, <2>9 DEF LaidInv, AtlasTypeOK, Glyph
    <2>8. LaidAsGiven'
        <3>1. /\ \A c : Drawable(c)' <=> Drawable(c)
              /\ \A c : AdvanceOf(c)' = AdvanceOf(c)
            BY <2>2 DEF Drawable, AdvanceOf
        <3>2. AllOf(texts, Len(texts), q)' /\ AllComplete(texts, Len(texts), q)'
            BY <2>2, <2>5, <3>1 DEF AllRight, AllOf, AllComplete
        <3>3. AllInTurn(q)' /\ AllBroken(q)' /\ AllSpaced(q)'
            BY <2>5, <3>1 DEF AllRight, AllInTurn, AllBroken, Begins, AllSpaced
        <3>4. AllCentred(texts, q)'
            BY <2>2, <2>5, <3>1 DEF AllRight, AllCentred, Begins, Finishes
        <3>5. letters' = Capped(q)
            BY <2>2, <2>9 DEF Capped
        <3> QED BY <2>5, <3>2, <3>3, <3>4, <3>5 DEF AllRight, LaidAsGiven
    <2> QED BY <2>2, <2>3, <2>7, <2>8 DEF LaidInv
<1>5. CASE UNCHANGED atlasVars
    <2>1. UNCHANGED <<characters, texts, letters>>
        BY <1>5 DEF atlasVars
    <2>2. LaidAsGiven'
        BY <2>1, LaidStays DEF LaidInv
    <2>3. AtlasTypeOK'
        BY <1>5 DEF LaidInv, AtlasTypeOK, Glyph, atlasVars
    <2> QED BY <1>5, <2>2, <2>3 DEF LaidInv, atlasVars
<1> QED BY <1>2, <1>3, <1>4, <1>5 DEF AtlasNext, LoadFont

\* Every draw of a text (ui/text.cpp 165-232) writes the characters the font has in
\* their turn, each as far behind the one before as its advance says, centred unless
\* a line breaks, and never more than the instance buffer holds.
THEOREM TextsAlwaysLaidOut == AtlasSpec => []TextLaidOut
<1>1. AtlasInit => LaidInv
    <2> SUFFICES ASSUME AtlasInit PROVE LaidInv
        OBVIOUS
    <2>1. texts = <<>> /\ letters = <<>>
        BY DEF AtlasInit
    <2>2. texts \in Seq(Seq(Nat)) /\ LaidAsGiven
        BY <2>1, NothingLaid
    <2>3. AtlasTypeOK
        BY AtlasAssumption DEF AtlasInit, AtlasTypeOK
    <2> QED BY <2>1, <2>2, <2>3 DEF LaidInv
<1>2. LaidInv /\ [AtlasNext]_atlasVars => LaidInv'
    BY LaidKept
<1>3. LaidInv => TextLaidOut
    BY LaidTexts DEF LaidInv, TextLaidOut
<1> QED BY <1>1, <1>2, <1>3, PTL DEF AtlasSpec
=============================================================================
