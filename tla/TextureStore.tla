---- MODULE TextureStore ----
(***************************************************************************)
(* How the client's images reach its shaders: Texture and Cubemap (decode, *)
(* stage, copy, mipmaps), the image commands of Device they are made with, *)
(* the bindless arrays and the names of TextureManager and of the fonts.   *)
(*                                                                         *)
(* A level of an image has a layout and content: "none" before it is       *)
(* written, "whole", or "lost" when a command found the image in another   *)
(* layout or read what was not there.  Every command buffer is submitted   *)
(* and waited for before the next (endSingleTimeCommands), so commands     *)
(* happen one after the other.  An error ends the start of the client.     *)
(***************************************************************************)
EXTENDS Naturals, Sequences, FiniteSets, SequencesExt, Functions

CONSTANTS
    Names,        \* names under which images are loaded
    ImageFiles,   \* image files
    Size,         \* ImageFiles -> <<width, height>>, or <<>> if it cannot be read
    CubeFaces,    \* faces of a cubemap
    AtlasSize,    \* size of a font's atlas
    Capacity,     \* descriptors in the bindless arrays, by kind of image
    RequestBound  \* bound on the images requested

\* A decoder gives no image without pixels.
Extents == (Nat \ {0}) \X (Nat \ {0})

ASSUME StoreAssumption ==
    /\ CubeFaces \in Nat \ {0} /\ RequestBound \in Nat
    /\ \A f \in ImageFiles : Size[f] = <<>> \/ Size[f] \in Extents
    /\ AtlasSize \in Extents
    /\ RequestBound <= Capacity["texture"] /\ RequestBound <= Capacity["cubemap"]

VARIABLES
    loadPc,     \* where the load stands; "idle" between two
    requests,   \* requests so far
    request,    \* the request being served, <<>> between two
    pixels,     \* decoded files not yet freed (sizes, in order)
    upload,     \* the image being made: its size and its levels
    mip,        \* loop variables of generateMipmaps
    arrays,     \* the images in the bindless manager, by kind
    bound,      \* what the descriptor set holds, by kind
    indices,    \* the managers' maps: <<kind, name>> -> index
    asked       \* history: the files of the first load of each key

storeVars == <<loadPc, requests, request, pixels, upload, mip, arrays, bound, indices,
               asked>>
held == <<arrays, bound, indices, asked>>

Key(j) == <<j.kind, j.name>>
Array(kind) == IF kind = "cubemap" THEN "cubemap" ELSE "texture"

----
(* Image commands. *)

MaxOf(a, b) == IF a > b THEN a ELSE b

\* n >> k.
Shifted(n, k) ==
    LET f[i \in 0..k] == IF i = 0 THEN n ELSE f[i - 1] \div 2
    IN  f[k]

\* floor(log2(max)) + 1: the place of the highest bit.
MipLevels(s) ==
    LET most == MaxOf(s[1], s[2])
    IN  CHOOSE n \in 1..most : Shifted(most, n - 1) = 1

\* The extent of level k of an image, as the device defines it.
Extent(s, k) == <<MaxOf(1, Shifted(s[1], k)), MaxOf(1, Shifted(s[2], k))>>

NewImage(s, n) ==
    [size |-> s, levels |-> [i \in 1..n |-> [layout |-> "undefined", data |-> "none"]]]

\* A barrier whose old layout is not the image's loses the content.
Transitioned(level, from, to) ==
    [layout |-> to, data |-> IF level.layout = from \/ level.data = "none"
                             THEN level.data ELSE "lost"]

Barrier(img, levels, from, to) ==
    [img EXCEPT !.levels = [i \in DOMAIN @ |-> IF i \in levels THEN Transitioned(@[i], from, to)
                                               ELSE @[i]]]

All(img) == DOMAIN img.levels

Written(img, i, data) == [img EXCEPT !.levels[i].data = data]

\* copyBufferToImage writes the first level.
Copied(img) == Written(img, 1, IF img.levels[1].layout = "dst" THEN "whole" ELSE "lost")

Half(n) == IF n > 1 THEN n \div 2 ELSE n
Halved(s) == <<Half(s[1]), Half(s[2])>>

\* vkCmdBlitImage from level i (of extent "from", in the loop's variables) to
\* the next one.
Blit(img, i, from) ==
    LET whole == /\ img.levels[i].layout = "src" /\ img.levels[i].data = "whole"
                 /\ img.levels[i + 1].layout = "dst"
                 /\ from = Extent(img.size, i - 1) /\ Halved(from) = Extent(img.size, i)
    IN  Written(img, i + 1, IF whole THEN "whole" ELSE "lost")

----

PutLast(slots, s) == Append(slots, s)

StoreInit ==
    /\ loadPc = "idle" /\ requests = 0 /\ request = <<>> /\ pixels = <<>>
    /\ upload = <<>> /\ mip = <<>>
    /\ arrays = [texture |-> <<>>, cubemap |-> <<>>]
    /\ bound = [texture |-> <<>>, cubemap |-> <<>>]
    /\ indices = <<>> /\ asked = <<>>

\* Fonts of the interface and of the billboards are kept apart.
Fonts == {"label", "billboard"}

Requests ==
    {[kind |-> "texture", name |-> n, files |-> <<f>>, mips |-> b] :
        n \in Names, f \in ImageFiles, b \in BOOLEAN}
    \cup {[kind |-> "cubemap", name |-> n, files |-> fs, mips |-> FALSE] :
        n \in Names, fs \in [1..CubeFaces -> ImageFiles]}
    \cup {[kind |-> k, name |-> n, files |-> <<>>, mips |-> FALSE] :
        k \in Fonts, n \in Names}

Known(j) == Key(j) \in DOMAIN indices

\* loadTexture, loadCubemap, loadText: a known name returns its index.
Request(j) ==
    /\ loadPc = "idle" /\ requests < RequestBound /\ requests' = requests + 1
    /\ IF Known(j) THEN UNCHANGED <<loadPc, request, upload, asked>>
       ELSE /\ asked' = IF Key(j) \in DOMAIN asked THEN asked
                        ELSE [k \in DOMAIN asked \cup {Key(j)} |->
                                 IF k = Key(j) THEN j.files ELSE asked[k]]
            /\ request' = j
            /\ IF j.kind \in Fonts THEN loadPc' = "undefined" /\ upload' = NewImage(AtlasSize, 1)
               ELSE loadPc' = "decode" /\ UNCHANGED upload
    /\ UNCHANGED <<pixels, mip, arrays, bound, indices>>

\* What is left of the decoded faces when the loop throws.
Freed(ps) == <<>>

\* stbi_load of the next file.
Decode ==
    /\ loadPc = "decode"
    /\ LET size == Size[request.files[Len(pixels) + 1]]
           now  == Append(pixels, size)
       IN  IF size = <<>> THEN loadPc' = "failed" /\ pixels' = <<>> /\ UNCHANGED upload
           ELSE IF size # now[1] THEN loadPc' = "failed" /\ pixels' = Freed(now) /\ UNCHANGED upload
           ELSE /\ pixels' = now
                /\ IF Len(now) < Len(request.files) THEN UNCHANGED <<loadPc, upload>>
                   ELSE /\ loadPc' = "staging"
                        /\ upload' = NewImage(size, IF request.mips THEN MipLevels(size) ELSE 1)
    /\ UNCHANGED <<requests, request, mip, held>>

\* The pixels go to a staging buffer and are freed.
Stage ==
    /\ loadPc = "staging" /\ loadPc' = "undefined" /\ pixels' = <<>>
    /\ UNCHANGED <<requests, request, upload, mip, held>>

ToTransferDst ==
    /\ loadPc = "undefined" /\ loadPc' = "dst"
    /\ upload' = Barrier(upload, All(upload), "undefined", "dst")
    /\ UNCHANGED <<requests, request, pixels, mip, held>>

CopyBufferToImage ==
    /\ loadPc = "dst" /\ upload' = Copied(upload)
    /\ IF request.mips THEN loadPc' = "mips" /\ mip' = [i |-> 1, extent |-> upload.size]
       ELSE loadPc' = "copied" /\ UNCHANGED mip
    /\ UNCHANGED <<requests, request, pixels, held>>

ToShaderRead ==
    /\ loadPc = "copied" /\ loadPc' = "made"
    /\ upload' = Barrier(upload, All(upload), "dst", "read")
    /\ UNCHANGED <<requests, request, pixels, mip, held>>

\* One turn of generateMipmaps.
MipLevel ==
    /\ loadPc = "mips" /\ mip.i < Len(upload.levels)
    /\ upload' = Barrier(Blit(Barrier(upload, {mip.i}, "dst", "src"), mip.i, mip.extent),
                        {mip.i}, "src", "read")
    /\ mip' = [i |-> mip.i + 1, extent |-> Halved(mip.extent)]
    /\ UNCHANGED <<loadPc, requests, request, pixels, held>>

\* Defect: the last level is left as the transfer's target.
MipsEndAsTheyAre ==
    /\ loadPc = "mips" /\ mip.i = Len(upload.levels) /\ loadPc' = "made" /\ mip' = <<>>
    /\ UNCHANGED <<requests, request, pixels, upload, held>>

MipsEnd ==
    /\ loadPc = "mips" /\ mip.i = Len(upload.levels) /\ loadPc' = "made" /\ mip' = <<>>
    /\ upload' = Barrier(upload, {Len(upload.levels)}, "dst", "read")
    /\ UNCHANGED <<requests, request, pixels, held>>

\* addTexture, addCubemap: the next index; the whole array is written again.
Publish ==
    /\ loadPc = "made" /\ loadPc' = "idle"
    /\ LET kind == Array(request.kind)
           now  == PutLast(arrays[kind], [image |-> upload, job |-> request])
       IN  /\ arrays' = [arrays EXCEPT ![kind] = now]
           /\ bound' = [bound EXCEPT ![kind] = now]
           /\ indices' = [k \in DOMAIN indices \cup {Key(request)} |->
                             IF k = Key(request) THEN Len(arrays[kind]) ELSE indices[k]]
    /\ request' = <<>> /\ upload' = <<>>
    /\ UNCHANGED <<requests, pixels, mip, asked>>

StoreNext ==
    \/ \E j \in Requests : Request(j)
    \/ Decode \/ Stage \/ ToTransferDst \/ CopyBufferToImage \/ ToShaderRead
    \/ MipLevel \/ MipsEnd \/ Publish

StoreSpec == StoreInit /\ [][StoreNext]_storeVars

----
\* Types and ranges: the loop of generateMipmaps stays on the image's levels,
\* and no more indices are given than images are held.
StoreTypeOK ==
    /\ loadPc \in {"idle", "decode", "staging", "undefined", "dst", "copied", "mips", "made", "failed"}
    /\ requests \in 0..RequestBound
    /\ (loadPc = "idle") <=> (request = <<>>)
    /\ loadPc = "mips" => /\ mip.i \in 1..Len(upload.levels)
                      /\ mip.extent = Extent(upload.size, mip.i - 1)
    /\ \A k \in DOMAIN indices : indices[k] \in 0..Len(arrays[Array(k[1])]) - 1

\* Texture and Device: whatever the shaders can reach is readable and whole
\* at every level, and a mipmapped image goes down to a single pixel.
PublishedWhole ==
    \A kind \in DOMAIN bound : \A s \in ToSet(bound[kind]) :
       /\ \A i \in All(s.image) : s.image.levels[i] = [layout |-> "read", data |-> "whole"]
       /\ s.job.mips => Extent(s.image.size, Len(s.image.levels) - 1) = <<1, 1>>

\* Copies and blits: while an image is made, no level is ever lost, whatever
\* its proportions.
NothingLost == upload # <<>> => \A i \in All(upload) : upload.levels[i].data # "lost"

\* The managers: a name leads, by its index, to the image of the files it was
\* first loaded from, however often names are asked for again.
NamesKeepTheirImage ==
    \A k \in DOMAIN indices :
       LET slot == bound[Array(k[1])][indices[k] + 1]
       IN  Key(slot.job) = k /\ slot.job.files = asked[k]

\* An image that is in a slot stays there: what was recorded in a bucket as
\* an index still means the same texture later.
SlotsStay ==
    [][\A kind \in DOMAIN bound : IsPrefix(bound[kind], bound'[kind])]_bound

\* No name is loaded twice: each slot has one key.
NoSlotWasted ==
    \A kind \in DOMAIN bound : \A a, b \in DOMAIN bound[kind] :
       Key(bound[kind][a].job) = Key(bound[kind][b].job) => a = b

\* Decoded pixels are freed however a load ends.
PixelsFreed == loadPc \in {"idle", "failed"} => pixels = <<>>

\* What a shader can sample has every mip level filled and readable, and a
\* name keeps the image and the slot it was first loaded into; a load that
\* fails leaks no pixels (texture.cpp, bindless_manager.cpp).
TexturesWhole ==
    /\ [](/\ StoreTypeOK /\ PublishedWhole /\ NothingLost
         /\ NamesKeepTheirImage /\ NoSlotWasted /\ PixelsFreed)
    /\ SlotsStay
====
