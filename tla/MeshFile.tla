------------------------------ MODULE MeshFile ------------------------------
(***************************************************************************)
(* How a mesh becomes a Model, a ModelOutline and a ModelShadow: the       *)
(* embedded binary meshes ("MSHB") read by three copies of one loader, the *)
(* model files read through Assimp, and the ModelManager that keeps what   *)
(* was loaded first under a name.                                          *)
(*                                                                         *)
(* A binary is a sequence of words: magic, version, number of meshes, then *)
(* for each mesh its counts, its stride, its vertices and its indices.  A  *)
(* vertex has VertexWords words, the first of them its position: the       *)
(* shadow keeps that one only and accepts any stride that holds it.  Words *)
(* are small numbers; the words of vertices are told apart by their value. *)
(***************************************************************************)
EXTENDS Integers, Sequences, SequencesExt, FiniteSets

CONSTANTS
    Meshes,     \* meshes a file may hold: [positions, indices, stride]
    Claims,     \* numbers of meshes a header may claim
    Cuts,       \* words a damaged file may miss at its end
    MaxMeshes,  \* bound: meshes in a file
    MaxLoads    \* bound: loads asked of the manager

Kinds == {"model", "outline", "shadow"}
VertexWords == 3    \* position, normal, uv
Magic == 7
Other == 8          \* any other first word

MeshFileAssumption ==
    /\ \A m \in Meshes : m.stride \in Nat \ {0}
    /\ Claims \subseteq Nat /\ Cuts \subseteq Nat
    /\ MaxMeshes \in Nat /\ MaxLoads \in Nat

VARIABLES
    file,       \* the file the loads are asked to read
    store,      \* ModelManager: m_models, m_modelOutlines, m_shadowModels
    job,        \* the load in progress
    loads       \* loads begun

vars == <<file, store, job, loads>>
-----------------------------------------------------------------------------
(* Files: what an exporter wrote, possibly damaged.                        *)

Min2(a, b) == IF a < b THEN a ELSE b

\* The words of a vertex at position p, for a stride of n words.
VertexAt(p, n) == [i \in 1 .. n |-> IF i = 1 THEN p ELSE 0]

MeshWords(m) ==
    <<Len(m.positions), Len(m.indices), m.stride>>
        \o FlattenSeq([i \in DOMAIN m.positions |->
                          VertexAt(m.positions[i], m.stride)])
        \o m.indices

Words(f) ==
    LET whole == <<f.magic, 1, f.claim>>
                    \o FlattenSeq([i \in DOMAIN f.meshes |->
                                      MeshWords(f.meshes[i])])
    IN SubSeq(whole, 1, Len(whole) - Min2(f.cut, Len(whole)))

Files ==
    [meshes : BoundedSeq(Meshes, MaxMeshes), claim : Claims, cut : Cuts,
     magic : {Magic}]
        \cup [meshes : {<<m>> : m \in Meshes}, claim : {1}, cut : {0},
              magic : {Other}]
-----------------------------------------------------------------------------
(* Builder::loadModel of the embedded meshes.                              *)

Idle == [status |-> "idle", kind |-> "model", raw |-> TRUE, offset |-> 0,
         left |-> 0, vertices |-> <<>>, indices |-> <<>>, halves |-> <<>>]

Reading(status) == job.status = status

HeaderFits == Len(Words(file)) >= 3

Fail == job' = [job EXCEPT !.status = "failed"]

ReadHeader ==
    /\ Reading("header") /\ job.raw
    /\ IF HeaderFits /\ Words(file)[1] = Magic
       THEN job' = [job EXCEPT !.status = "mesh", !.offset = 3,
                               !.left = Words(file)[3],
                               !.vertices = <<>>, !.indices = <<>>]
       ELSE Fail
    /\ UNCHANGED <<file, store, loads>>

(* What a loader asks of the stride, the words it takes for the bounds     *)
(* check and the words it copies of each vertex.                           *)
StrideAccepted(kind, stride) ==
    IF kind = "shadow" THEN stride >= 1 ELSE stride = VertexWords

Stride(kind, stride) == IF kind = "shadow" THEN stride ELSE VertexWords

\* Defect: the indices are kept as they are in the file.
RebasedNever(indices, base) == indices

Rebased(indices, base) == [i \in DOMAIN indices |-> indices[i] + base]

BodyFits(at, vertexWords, indexWords) ==
    at + vertexWords + indexWords <= Len(Words(file))

\* memcpy from the span; past its end lies whatever the program put there.
At(w, i) == IF i <= Len(w) THEN w[i] ELSE 0

(* One turn of the loop over the meshes.                                   *)
ReadMesh(kind) ==
    LET w == Words(file)
        at == job.offset + 3
        count == w[job.offset + 1]
        stride == Stride(kind, w[job.offset + 3])
        body == at + count * stride
        indices == [i \in 1 .. w[job.offset + 2] |-> At(w, body + i)]
        positions == [i \in 1 .. count |-> At(w, at + (i - 1) * stride + 1)]
    IN IF at > Len(w) THEN Fail
       ELSE IF ~StrideAccepted(kind, w[job.offset + 3]) THEN Fail
       ELSE IF ~BodyFits(at, count * stride, w[job.offset + 2]) THEN Fail
       ELSE job' = [job EXCEPT
                !.offset = body + Len(indices), !.left = @ - 1,
                !.vertices = @ \o positions,
                !.indices = @ \o Rebased(indices, Len(job.vertices))]

Turn(kind) ==
    /\ Reading("mesh") /\ job.kind = kind /\ job.left > 0
    /\ ReadMesh(kind)
    /\ UNCHANGED <<file, store, loads>>

ReadModelMesh == Turn("model")
ReadOutlineMesh == Turn("outline")
ReadShadowMesh == Turn("shadow")

Parsed ==
    /\ Reading("mesh") /\ job.left = 0
    /\ job' = [job EXCEPT !.status = "upload"]
    /\ UNCHANGED <<file, store, loads>>
-----------------------------------------------------------------------------
(* Builder::loadModel of a model file: Assimp's scene, or an incomplete    *)
(* one.  Only models and shadows are read from files.                      *)
Scene == IF file.cut > 0 THEN <<>> ELSE file.meshes

Import(kind) ==
    /\ Reading("header") /\ ~job.raw /\ job.kind = kind
    /\ IF Scene = <<>> THEN Fail
       ELSE LET base(i) == FoldSeq(LAMBDA m, n : n + Len(m.positions), 0,
                                   SubSeq(Scene, 1, i - 1))
            IN job' = [job EXCEPT !.status = "upload",
                 !.vertices = FlattenSeq([i \in DOMAIN Scene |->
                                             Scene[i].positions]),
                 !.indices = FlattenSeq([i \in DOMAIN Scene |->
                                Rebased(Scene[i].indices, base(i))])]
    /\ UNCHANGED <<file, store, loads>>

ImportModel == Import("model")
ImportShadow == Import("shadow")
-----------------------------------------------------------------------------
(* The buffers: no vertices make a buffer of no bytes, which the allocator *)
(* refuses; no indices make a model drawn without them.                    *)
Built == [vertices |-> job.vertices, indices |-> job.indices,
          hasIndexBuffer |-> job.indices # <<>>]

\* A model and an outline are loaded twice, for the opaque and the
\* transparent bucket.
Halves(kind) == IF kind = "shadow" THEN 1 ELSE 2

Absent(kind) == store[kind] = <<>>

Upload ==
    /\ Reading("upload")
    /\ IF job.vertices = <<>> THEN Fail /\ store' = store
       ELSE LET halves == Append(job.halves, Built)
            IN IF Len(halves) < Halves(job.kind)
               THEN /\ job' = [job EXCEPT !.status = "header",
                                          !.halves = halves, !.offset = 0]
                    /\ store' = store
               ELSE /\ store' = [store EXCEPT ![job.kind] = halves]
                    /\ job' = Idle
    /\ UNCHANGED <<file, loads>>

(* ModelManager::loadModel, loadModelOutline, loadModelShadow.             *)
Load(kind, raw) ==
    /\ Reading("idle") /\ loads < MaxLoads
    /\ raw \/ kind # "outline"
    /\ loads' = loads + 1
    /\ job' = IF Absent(kind)
              THEN [Idle EXCEPT !.status = "header", !.kind = kind, !.raw = raw]
              ELSE job
    /\ UNCHANGED <<file, store>>

Init ==
    /\ file \in Files
    /\ store = [k \in Kinds |-> <<>>] /\ job = Idle /\ loads = 0

Next ==
    \/ \E kind \in Kinds, raw \in BOOLEAN : Load(kind, raw)
    \/ ReadHeader
    \/ ReadModelMesh \/ ReadOutlineMesh \/ ReadShadowMesh \/ Parsed
    \/ ImportModel \/ ImportShadow
    \/ Upload

Spec == Init /\ [][Next]_vars
-----------------------------------------------------------------------------
(* The type invariant; the offset never passes the end of the file.        *)
TypeOK ==
    /\ file \in Files /\ loads \in 0 .. MaxLoads
    /\ job.status \in {"idle", "header", "mesh", "upload", "failed"}
    /\ job.kind \in Kinds /\ job.raw \in BOOLEAN
    /\ job.offset \in 0 .. Len(Words(file))
    /\ job.left \in Nat /\ Len(job.halves) <= 1
    /\ \A k \in Kinds : Len(store[k]) \in {0, Halves(k)}

(* What a file means: the meshes its header claims, one after another,     *)
(* each index counted from the first vertex of its own mesh.               *)
Claimed(raw) == IF raw THEN SubSeq(file.meshes, 1, file.claim) ELSE file.meshes
Meaning(raw) ==
    LET ms == Claimed(raw)
        before(i) == FoldSeq(LAMBDA m, n : n + Len(m.positions), 0,
                             SubSeq(ms, 1, i - 1))
    IN [vertices |-> FlattenSeq([i \in DOMAIN ms |-> ms[i].positions]),
        indices |-> FlattenSeq([i \in DOMAIN ms |->
                        [j \in DOMAIN ms[i].indices |->
                            ms[i].indices[j] + before(i)]])]

\* The words a header and the meshes it claims take.
WordsClaimed ==
    3 + FoldSeq(LAMBDA m, n : n + Len(MeshWords(m)), 0, Claimed(TRUE))

Acceptable(kind) ==
    /\ file.magic = Magic /\ file.claim <= Len(file.meshes)
    /\ WordsClaimed <= Len(Words(file))
    /\ kind # "shadow" => \A i \in 1 .. file.claim :
                             file.meshes[i].stride = VertexWords

(* A binary that is whole is read for what it means, by each of the three  *)
(* loaders, and one that is cut short, claims more meshes than it has or   *)
(* has another magic or stride is refused.                                 *)
ReadsTheFile ==
    job.raw =>
        /\ Reading("upload") =>
             /\ Acceptable(job.kind)
             /\ job.vertices = Meaning(TRUE).vertices
             /\ job.indices = Meaning(TRUE).indices
        /\ Reading("failed") =>
             ~Acceptable(job.kind) \/ Meaning(TRUE).vertices = <<>>

(* The shadow that is cast is the shape that is drawn, and its outline is  *)
(* the same again: the three loaders and both halves agree on one file, or *)
(* differ only where one was loaded as a binary and one as a model file.   *)
OneShape ==
    \A k1, k2 \in Kinds :
        \A h1 \in DOMAIN store[k1], h2 \in DOMAIN store[k2] :
            \/ store[k1][h1] = store[k2][h2]
            \/ Meaning(TRUE) # Meaning(FALSE)

(* A load that fails leaves nothing behind under its name, and what a name *)
(* stands for is never replaced: instances drawn by it keep their shape.   *)
StoreOnlyGrows ==
    [][\A k \in Kinds : store[k] # <<>> => store'[k] = store[k]]_vars
=============================================================================
