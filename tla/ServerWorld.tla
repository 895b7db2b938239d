---- MODULE ServerWorld ----
(***************************************************************************)
(* The map of a running server: the parts of the workspace, their rigid    *)
(* bodies, the tables that find a body or a part by its network id, and    *)
(* the buffer new clients receive.  Two threads share all of it:           *)
(*                                                                         *)
(*  - the physics thread (GameServer::physicsLoop) steps the world,        *)
(*    destroys the parts that fell below the kill height, interpolates and *)
(*    broadcasts;                                                          *)
(*  - the main thread (GameServer::run) rebuilds the map buffer when the   *)
(*    tree has changed and handles the physics packets of clients.         *)
(*                                                                         *)
(* A step of a thread is what it does between two points where the other   *)
(* may run: a critical section of the world mutex, of m_bodiesMutex or of  *)
(* m_networkTargetsMutex, or one unguarded read.  The map is flat (no part *)
(* has children) and all of it is unanchored; rigs are in Humanoids.  A    *)
(* body is <<p, g>>, the g-th body made for part p, so that a pointer kept *)
(* after the body's deletion can be told from the body itself.             *)
(***************************************************************************)
EXTENDS Naturals, FiniteSets

CONSTANTS
    Part,    \* the parts of the map file
    MaxGen   \* bound: bodies ever made for one part

None == "none"

ASSUME PartAssumption == IsFiniteSet(Part) /\ Part # {} /\ None \notin Part
ASSUME MaxGenAssumption == MaxGen \in Nat \ {0}

NoBody == <<>>
Body == Part \X (1 .. MaxGen)

VARIABLES
    tree,       \* parts attached to the workspace
    dirty,      \* ServerReplicator::m_dirty
    netParts,   \* ServerReplicator::m_networkParts
    gameParts,  \* GameServer::m_networkParts
    mapData,    \* the server's copy of the buffer: its count and its parts
    handle,     \* Part::m_rigidBody
    made,       \* how many bodies each part has had
    live,       \* bodies allocated and not deleted
    world,      \* bodies the dynamics world simulates
    reg,        \* m_bodies, by the part whose network id is the key
    target,     \* keys of m_networkTargets
    kinematic,  \* bodies with CF_KINEMATIC_OBJECT
    pending,    \* bodies whose motion state asks for destruction
    fallen,     \* the physics thread's local list of fallen parts
    ph,         \* program counter of the physics thread, with the part it destroys
    mn,         \* the main thread: program counter, walk, buffer, pointer it holds
    raced,      \* history: bodies whose deletion the main thread's use of a pointer overlapped
    overlapped, \* history: the tree changed while the last rebuild walked it
    touched     \* bodies dereferenced in the last step

tables == <<netParts, gameParts, mapData>>
bodies == <<handle, made, live, world, reg, target, kinematic, pending>>
history == <<raced, overlapped, touched>>
vars == <<tree, dirty, tables, bodies, fallen, ph, mn, history>>

IdleMain == [at |-> "idle", todo |-> {}, count |-> 0, buffer |-> {}, part |-> None, body |-> NoBody]

BodyOf(p) == IF handle[p] = 0 THEN NoBody ELSE <<p, handle[p]>>

(***************************************************************************)
(* buildMap ran before either thread: every part has a network id, is      *)
(* registered under it and is in every table.                              *)
(***************************************************************************)
Init ==
    /\ tree = Part /\ netParts = Part /\ gameParts = Part
    /\ dirty = FALSE
    /\ mapData = [count |-> Cardinality(Part), parts |-> Part]
    /\ handle = [p \in Part |-> 1]
    /\ made = [p \in Part |-> 1]
    /\ live = Part \X {1} /\ world = Part \X {1}
    /\ reg = [p \in Part |-> <<p, 1>>]
    /\ target = {} /\ kinematic = {} /\ pending = {}
    /\ fallen = {}
    /\ ph = [at |-> "step", part |-> None]
    /\ mn = IdleMain
    /\ raced = {} /\ overlapped = FALSE /\ touched = {}

----------------------------------------------------------------------------
(* The physics thread: Physics::update *)

\* PartMotionState::setWorldTransform: one of the bodies moved may now be
\* below the kill height, and its motion state notes the destruction.
MayFall(moved) == {{}} \cup {{b} : b \in moved}

\* stepSimulation, under the world mutex.
Simulate ==
    /\ ph.at = "step"
    /\ \E down \in MayFall(world \ kinematic) : pending' = pending \cup down
    /\ ph' = [ph EXCEPT !.at = "collect"]
    /\ touched' = {}
    /\ UNCHANGED <<tree, dirty, tables, handle, made, live, world, reg, target, kinematic,
                   fallen, mn, raced, overlapped>>

\* The registered bodies whose motion state is pending.
Collected == {p \in Part : reg[p] # NoBody /\ reg[p] \in pending}

\* Under m_bodiesMutex; detach() clears the mark.
CollectFallen ==
    /\ ph.at = "collect"
    /\ fallen' = {reg[p][1] : p \in Collected}
    /\ pending' = pending \ {reg[p] : p \in Collected}
    /\ touched' = {reg[p] : p \in {q \in Part : reg[q] # NoBody}}
    /\ ph' = [ph EXCEPT !.at = "fallen"]
    /\ UNCHANGED <<tree, dirty, tables, handle, made, live, world, reg, target, kinematic, mn,
                   raced, overlapped>>

\* Defect: the entries of m_bodies are left behind.
KeepsRegistration(b) == reg
\* Physics::destroyRigidBody erases every entry that points to the body.
Unregistered(b) == [p \in Part |-> IF reg[p] = b THEN NoBody ELSE reg[p]]

\* Instance::destroy of a fallen part calls destroyRigidBody through the
\* workspace's destroy callback: out of the dynamics world, then, under
\* m_bodiesMutex, out of m_bodies.
BeginDestroy ==
    /\ ph.at = "fallen"
    /\ \E p \in fallen :
        /\ fallen' = fallen \ {p}
        /\ IF handle[p] = 0
           THEN /\ ph' = [at |-> "detach", part |-> p]
                /\ UNCHANGED <<world, reg, target>>
           ELSE /\ ph' = [at |-> "delete", part |-> p]
                /\ world' = world \ {BodyOf(p)}
                /\ reg' = Unregistered(BodyOf(p))
                /\ target' = target \ {q \in Part : reg[q] = BodyOf(p)}
    /\ touched' = {}
    /\ UNCHANGED <<tree, dirty, tables, handle, made, live, kinematic, pending, mn, raced,
                   overlapped>>

Cleared(p) == [handle EXCEPT ![p] = 0]

\* ... then m_rigidBody is cleared and the body deleted.
DeleteBody ==
    /\ ph.at = "delete"
    /\ LET b == BodyOf(ph.part) IN
        /\ live' = live \ {b}
        /\ kinematic' = kinematic \ {b}
        /\ pending' = pending \ {b}
        /\ raced' = IF mn.body = b THEN raced \cup {b} ELSE raced
    /\ handle' = Cleared(ph.part)
    /\ ph' = [ph EXCEPT !.at = "detach"]
    /\ touched' = {}
    /\ UNCHANGED <<tree, dirty, tables, made, world, reg, target, fallen, mn, overlapped>>

\* Defect: the change of the tree is not reported.
SilentDetach(p) ==
    /\ tree' = tree \ {p}
    /\ UNCHANGED dirty
\* setParent(nullptr) takes the part out of its parent's children;
\* childrenChanged reaches the replicator's callback, which marks the map dirty.
Detach(p) ==
    /\ tree' = tree \ {p}
    /\ dirty' = (dirty \/ p \in tree)

FinishDestroy ==
    /\ ph.at = "detach"
    /\ Detach(ph.part)
    /\ overlapped' = (overlapped \/ mn.at \in {"count", "walk", "bind", "rebind", "publish"})
    /\ ph' = [at |-> "fallen", part |-> None]
    /\ touched' = {}
    /\ UNCHANGED <<tables, bodies, fallen, mn, raced>>

\* stepNetworkInterpolation takes the world and targets mutexes, not m_bodiesMutex.
BeginInterpolate ==
    /\ ph.at = "fallen" /\ fallen = {}
    /\ ph' = [ph EXCEPT !.at = "interpolate"]
    /\ touched' = {}
    /\ UNCHANGED <<tree, dirty, tables, bodies, fallen, mn, raced, overlapped>>

\* It looks the body of every target up in m_bodies.  A kinematic body
\* follows its target, and may follow it below the kill height.
Interpolate ==
    /\ ph.at = "interpolate"
    /\ LET moved == {reg[p] : p \in {q \in target : reg[q] # NoBody}} IN
        /\ touched' = moved
        /\ \E down \in MayFall(moved \cap kinematic) : pending' = pending \cup down
    /\ ph' = [ph EXCEPT !.at = "broadcast"]
    /\ UNCHANGED <<tree, dirty, tables, handle, made, live, world, reg, target, kinematic, fallen,
                   mn, raced, overlapped>>

\* broadcastUnownedObjects walks GameServer::m_networkParts: a body some
\* client owns becomes kinematic with its own state as target, another one is
\* simulated and loses its target.
Broadcast ==
    /\ ph.at = "broadcast"
    /\ \E owned \in SUBSET gameParts :
        LET held == {p \in gameParts : handle[p] # 0}
            stop == {p \in held \cap owned : BodyOf(p) \notin kinematic}
            go == {p \in held \ owned : BodyOf(p) \in kinematic}
        IN  /\ kinematic' = (kinematic \cup {BodyOf(p) : p \in stop}) \ {BodyOf(p) : p \in go}
            /\ target' = (target \cup {q \in Part : \E p \in stop : reg[q] = BodyOf(p)})
                            \ {q \in Part : \E p \in go : reg[q] = BodyOf(p)}
            /\ touched' = {BodyOf(p) : p \in held}
    /\ ph' = [ph EXCEPT !.at = "step"]
    /\ UNCHANGED <<tree, dirty, tables, handle, made, live, world, reg, pending, fallen, mn,
                   raced, overlapped>>

\* The main thread enters a section of the world mutex only outside the
\* sections of the physics thread that take more than one step here.
WorldMutexFree == ph.at \notin {"delete", "interpolate"}

----------------------------------------------------------------------------
(* The main thread: ServerReplicator::rebuildMap *)

\* The map is up to date: on to the packets.
SkipRebuild ==
    /\ mn.at = "idle" /\ ~dirty
    /\ mn' = [mn EXCEPT !.at = "packets"]
    /\ touched' = {}
    /\ UNCHANGED <<tree, dirty, tables, bodies, fallen, ph, raced, overlapped>>

\* countSerializableInstances of the workspace.
CountInstances == Cardinality(tree)

\* The table is cleared and the first walk counts the objects.
BeginRebuild ==
    /\ mn.at = "idle" /\ dirty
    /\ netParts' = {}
    /\ mn' = [IdleMain EXCEPT !.at = "count", !.count = CountInstances]
    /\ overlapped' = FALSE
    /\ touched' = {}
    /\ UNCHANGED <<tree, dirty, gameParts, mapData, bodies, fallen, ph, raced>>

\* collectInstances works on the copy getChildren returns.
BeginWalk ==
    /\ mn.at = "count"
    /\ mn' = [mn EXCEPT !.at = "walk", !.todo = tree]
    /\ touched' = {}
    /\ UNCHANGED <<tree, dirty, tables, bodies, fallen, ph, raced, overlapped>>

\* A part of the copy: it gets a body when it has none, and is registered
\* anew otherwise.  rebindNetworkId reads the pointer before its lock.
VisitPart ==
    /\ mn.at = "walk"
    /\ \E p \in mn.todo :
        mn' = [mn EXCEPT !.at = IF handle[p] = 0 THEN "bind" ELSE "rebind", !.part = p,
                         !.todo = @ \ {p}, !.body = BodyOf(p)]
    /\ touched' = {}
    /\ UNCHANGED <<tree, dirty, tables, bodies, fallen, ph, raced, overlapped>>

\* The part is listed and written to the buffer.
WritePart(p) ==
    /\ netParts' = netParts \cup {p}
    /\ mn' = [mn EXCEPT !.at = "walk", !.buffer = @ \cup {p}, !.part = None, !.body = NoBody]
    /\ UNCHANGED <<gameParts, mapData>>

\* createRigidBodyPart holds the world mutex throughout.
CreateBody ==
    /\ mn.at = "bind" /\ WorldMutexFree
    /\ made[mn.part] < MaxGen   \* bound
    /\ LET p == mn.part
           b == <<p, made[p] + 1>>
       IN  /\ handle' = [handle EXCEPT ![p] = made[p] + 1]
           /\ made' = [made EXCEPT ![p] = @ + 1]
           /\ live' = live \cup {b}
           /\ world' = world \cup {b}
           /\ reg' = [reg EXCEPT ![p] = b]
           /\ touched' = {b}
           /\ WritePart(p)
    /\ UNCHANGED <<tree, dirty, target, kinematic, pending, fallen, ph, raced, overlapped>>

Rebound(p, b) == [Unregistered(b) EXCEPT ![p] = b]

\* rebindNetworkId under m_bodiesMutex alone: it does not wait for a
\* destroyRigidBody that holds the world mutex.
Rebind ==
    /\ mn.at = "rebind"
    /\ reg' = Rebound(mn.part, mn.body)
    /\ raced' = IF ph = [at |-> "delete", part |-> mn.part] THEN raced \cup {mn.body} ELSE raced
    /\ touched' = {}
    /\ WritePart(mn.part)
    /\ UNCHANGED <<tree, dirty, handle, made, live, world, target, kinematic, pending, fallen, ph,
                   overlapped>>

\* The dirty flag when the walk is over.
FlagAfterWalk == FALSE

\* The buffer is complete: the flag is cleared, GameServer copies the table
\* (syncNetworkParts) and hands the buffer to the server (setMapData).
EndWalk ==
    /\ mn.at = "walk" /\ mn.todo = {}
    /\ dirty' = FlagAfterWalk
    /\ mn' = [mn EXCEPT !.at = "publish"]
    /\ touched' = {}
    /\ UNCHANGED <<tree, tables, bodies, fallen, ph, raced, overlapped>>

Publish ==
    /\ mn.at = "publish"
    /\ gameParts' = netParts
    /\ mapData' = [count |-> mn.count, parts |-> mn.buffer]
    /\ mn' = [IdleMain EXCEPT !.at = "packets"]
    /\ touched' = {}
    /\ UNCHANGED <<tree, dirty, netParts, bodies, fallen, ph, raced, overlapped>>

(* The main thread: the physics packets of one Server::update, at most one here *)

NoPacket ==
    /\ mn.at = "packets"
    /\ mn' = IdleMain
    /\ touched' = {}
    /\ UNCHANGED <<tree, dirty, tables, bodies, fallen, ph, raced, overlapped>>

\* The callback finds the part in GameServer::m_networkParts and reads its body.
FindReported ==
    /\ mn.at = "packets"
    /\ \E p \in gameParts :
        /\ handle[p] # 0
        /\ mn' = [mn EXCEPT !.at = "mode", !.part = p, !.body = BodyOf(p)]
    /\ touched' = {}
    /\ UNCHANGED <<tree, dirty, tables, bodies, fallen, ph, raced, overlapped>>

\* setBodyNetworkMode(body, false), under the world mutex: the body becomes
\* kinematic, its own state its target.
MakeKinematic ==
    /\ mn.at = "mode" /\ WorldMutexFree
    /\ IF mn.body \in live \ kinematic
       THEN /\ kinematic' = kinematic \cup {mn.body}
            /\ target' = target \cup {q \in Part : reg[q] = mn.body}
       ELSE UNCHANGED <<kinematic, target>>
    /\ touched' = {mn.body}
    /\ mn' = [mn EXCEPT !.at = "apply"]
    /\ UNCHANGED <<tree, dirty, tables, handle, made, live, world, reg, pending, fallen, ph, raced,
                   overlapped>>

\* applyNetworkState, under the targets mutex.
ApplyState ==
    /\ mn.at = "apply"
    /\ target' = target \cup {mn.part}
    /\ mn' = IdleMain
    /\ touched' = {}
    /\ UNCHANGED <<tree, dirty, tables, handle, made, live, world, reg, kinematic, pending, fallen,
                   ph, raced, overlapped>>

----------------------------------------------------------------------------
PhysicsStep ==
    \/ Simulate \/ CollectFallen \/ BeginDestroy \/ DeleteBody \/ FinishDestroy
    \/ BeginInterpolate \/ Interpolate \/ Broadcast
MainStep ==
    \/ SkipRebuild \/ BeginRebuild \/ BeginWalk \/ VisitPart \/ CreateBody \/ Rebind \/ EndWalk
    \/ Publish \/ NoPacket \/ FindReported \/ MakeKinematic \/ ApplyState

Next == PhysicsStep \/ MainStep

Spec == Init /\ [][Next]_vars

----------------------------------------------------------------------------
(* Types of the variables.  A rebuild runs only after a part is gone, so   *)
(* it never counts all of them.                                            *)
TypeOK ==
    /\ tree \subseteq Part /\ netParts \subseteq Part /\ gameParts \subseteq Part
    /\ dirty \in BOOLEAN /\ overlapped \in BOOLEAN
    /\ mapData \in [count : 0 .. Cardinality(Part), parts : SUBSET Part]
    /\ handle \in [Part -> 0 .. MaxGen]
    /\ made \in [Part -> 0 .. MaxGen]
    /\ live \subseteq Body /\ world \subseteq Body /\ kinematic \subseteq Body
    /\ pending \subseteq Body /\ raced \subseteq Body /\ touched \subseteq Body
    /\ reg \in [Part -> Body \cup {NoBody}]
    /\ target \subseteq Part /\ fallen \subseteq Part
    /\ ph \in [at : {"step", "collect", "fallen", "delete", "detach", "interpolate", "broadcast"},
               part : Part \cup {None}]
    /\ mn \in [at : {"idle", "count", "walk", "bind", "rebind", "publish", "packets", "mode",
                     "apply"},
               todo : SUBSET Part, count : 0 .. (Cardinality(Part) - 1), buffer : SUBSET Part,
               part : Part \cup {None}, body : Body \cup {NoBody}]

(* A deleted body is dereferenced, by whichever thread, only when it was   *)
(* deleted while the main thread held an unguarded pointer to it: the read *)
(* of m_rigidBody outside the locks, in rebindNetworkId and in the packet  *)
(* callback, is the one way to a use after free (physics.cpp:347-362,      *)
(* game_server.cpp:85-89).                                                 *)
FreedTouchedOnlyByRace == touched \subseteq live \cup raced

(* m_bodies points to bodies that exist or that a rebind raced; and a part *)
(* in the tree whose body exists is found there (physics.cpp:371-391).     *)
RegistryMatchesBodies ==
    /\ \A p \in Part : reg[p] # NoBody => reg[p] \in live \cup raced
    /\ \A p \in tree : handle[p] # 0 /\ ph.part # p => reg[p] = BodyOf(p)

(* When no rebuild runs and none is due, the buffer new clients receive    *)
(* holds the parts of the tree, and announces as many as it holds, unless  *)
(* a part was destroyed while the last rebuild walked the tree and the     *)
(* flag was cleared after the walk (server_replicator.cpp:90).             *)
ServedMapCurrent ==
    mn.at \notin {"count", "walk", "bind", "rebind", "publish"} /\ ~dirty /\ ~overlapped
        => mapData = [count |-> Cardinality(tree), parts |-> tree]

(* A part outside the tree has a body only when the walk of a rebuild that *)
(* overlapped its destruction made it one: destroyed parts do not go on    *)
(* colliding otherwise (server_replicator.cpp:113-117).                    *)
NoBodyWithoutPart ==
    \A p \in Part \ tree : handle[p] # 0 => made[p] > 1

(* The pointers to bodies that the code keeps are good: a deleted body is  *)
(* dereferenced only when it was deleted while the main thread held an     *)
(* unguarded pointer to it, and the registry names bodies that exist.      *)
NoDanglingBodies ==
    TypeOK /\ FreedTouchedOnlyByRace /\ RegistryMatchesBodies /\ NoBodyWithoutPart
====
