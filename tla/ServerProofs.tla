----------------------------- MODULE ServerProofs -----------------------------
(***************************************************************************)
(* What the three models of a server promise, whatever its size.           *)
(*                                                                         *)
(* ServerWorld, for any set of parts and any number of bodies made for     *)
(* them: the pointers to bodies are good but for the race of the main      *)
(* thread's unguarded reads, and the map served to newcomers is the tree's *)
(* unless a destruction overlapped its making.  Its inductive invariant is *)
(* IInv.                                                                   *)
(*                                                                         *)
(* TcpFrames, for any clients, frames and room: frames never mix on a      *)
(* client's socket unless its own thread kicks it.  The inductive          *)
(* invariant FramesInv has two halves.  Books: who writes what under which *)
(* lock - a broadcast has the mutex and reaches registered clients, the    *)
(* handshake has a client that nobody else knows yet.  So at most one      *)
(* thread is amid a frame to a client that is not kicked (OneAtATime).     *)
(* Streams: for a client that still reads, what is in its pipe goes on     *)
(* where readFramed stands, each unit is the one its predecessor           *)
(* announces, and the thread that is amid a frame is about to write the    *)
(* unit that comes next.                                                   *)
(*                                                                         *)
(* LockOrder, for any threads of the kinds it knows: no group of them      *)
(* waits for one another, and physics never waits for a peer.  Mutexes     *)
(* have ranks; what is left of an operation keeps their order to its end   *)
(* (Orderly).  A part of an operation may stand before whatever may follow *)
(* it (Fits), so that each operation is dealt with as it is put together.  *)
(***************************************************************************)
EXTENDS ServerWorld, TcpFrames, LockOrder, FiniteSetTheorems, SequenceTheorems, TLAPS

-----------------------------------------------------------------------------
(* The bodies and the map.                                                 *)

(* The physics thread names a part only while it destroys it; the part has *)
(* a body until that body is deleted.                                      *)
DestroyedPart ==
    /\ (ph.part \in Part) <=> (ph.at \in {"delete", "detach"})
    /\ ph.at = "delete" => handle[ph.part] # 0

(* The main thread's pointer is to a body of the part it works on, taken   *)
(* from the part's handle, which has since been cleared at most.           *)
HeldPointer ==
    /\ (mn.body # NoBody) <=> (mn.at \in {"rebind", "mode", "apply"})
    /\ (mn.part \in Part) <=> (mn.at \in {"bind", "rebind", "mode", "apply"})
    /\ mn.body # NoBody =>
         /\ mn.body[1] = mn.part
         /\ handle[mn.part] \in {0, mn.body[2]}
         /\ mn.body \in live \cup raced

(* A part's handle is the last body made for it, which exists. *)
HandlesLive ==
    /\ \A p \in Part : handle[p] # 0 => BodyOf(p) \in live
    /\ \A p \in Part : made[p] >= 1

(* While a body is being deleted only a raced rebind can have put it back  *)
(* into the registry.                                                      *)
DeletedUnregistered ==
    ph.at = "delete" =>
        \A p \in Part : reg[p] = BodyOf(ph.part) => BodyOf(ph.part) \in raced

(* A part that has left the tree, or is about to, has no body but one that *)
(* a rebuild made for it.                                                  *)
BodiesOfDetached ==
    \A p \in Part : (p \notin tree \/ (ph.at = "detach" /\ ph.part = p)) /\ handle[p] # 0
        => made[p] > 1

PointerInv ==
    /\ DestroyedPart /\ HeldPointer /\ HandlesLive /\ DeletedUnregistered
    /\ BodiesOfDetached /\ RegistryMatchesBodies

(* The map is marked dirty only when a part has left the tree. *)
DirtyAfterLoss == (dirty \/ mn.at \in {"count", "walk", "bind", "rebind"}) => tree # Part

(* A rebuild that no destruction overlapped has counted the tree, and what *)
(* it has written and still has to visit are the parts of the tree.        *)
RebuildExact ==
    ~overlapped =>
        /\ mn.at \in {"count", "walk", "bind", "rebind", "publish"} => mn.count = Cardinality(tree)
        /\ mn.at = "count" => mn.buffer = {}
        /\ mn.at = "walk" => mn.todo \cup mn.buffer = tree
        /\ mn.at \in {"bind", "rebind"} => mn.todo \cup mn.buffer \cup {mn.part} = tree
        /\ mn.at = "publish" => mn.buffer = tree

IInv ==
    /\ TypeOK /\ PointerInv /\ DirtyAfterLoss /\ FreedTouchedOnlyByRace /\ NoBodyWithoutPart
    /\ RebuildExact /\ ServedMapCurrent

-----------------------------------------------------------------------------
(* How many parts there are, and how many a rebuild can count. *)
LEMMA PartCounts ==
    /\ Cardinality(Part) \in Nat \ {0}
    /\ \A S \in SUBSET Part :
         /\ Cardinality(S) \in 0 .. Cardinality(Part)
         /\ S # Part => Cardinality(S) \in 0 .. (Cardinality(Part) - 1)
<1>1. IsFiniteSet(Part) /\ Part # {}
  BY PartAssumption
<1>2. Cardinality(Part) \in Nat \ {0}
  BY <1>1, FS_CardinalityType, FS_EmptySet
<1>3. ASSUME NEW S \in SUBSET Part
      PROVE  /\ Cardinality(S) \in 0 .. Cardinality(Part)
             /\ S # Part => Cardinality(S) \in 0 .. (Cardinality(Part) - 1)
  <2>1. IsFiniteSet(S) /\ Cardinality(S) \in Nat
    BY <1>1, FS_Subset, FS_CardinalityType
  <2>2. Cardinality(S) <= Cardinality(Part)
    BY <1>1, FS_Subset
  <2>3. S # Part => Cardinality(S) # Cardinality(Part)
    BY <1>1, FS_Subset
  <2>. QED
    BY <1>2, <2>1, <2>2, <2>3
<1>. QED
  BY <1>2, <1>3

(* A handle names a body of the part, or none. *)
LEMMA BodyOfType ==
    ASSUME TypeOK, NEW p \in Part
    PROVE  IF handle[p] = 0 THEN BodyOf(p) = NoBody
           ELSE BodyOf(p) \in Body /\ BodyOf(p) = <<p, handle[p]>> /\ BodyOf(p)[1] = p
                /\ BodyOf(p)[2] = handle[p]
<1>1. handle[p] \in 0 .. MaxGen
  BY DEF TypeOK
<1>. QED
  BY <1>1, MaxGenAssumption DEF BodyOf, Body

(* No body is the null pointer. *)
LEMMA NoBodyIsNone == NoBody \notin Body
<1>1. \A p, g : <<p, g>> # <<>>
  OBVIOUS
<1>. QED
  BY <1>1 DEF NoBody, Body

(* The main thread rests in a state of its type. *)
MainStates ==
    [at : {"idle", "count", "walk", "bind", "rebind", "publish", "packets", "mode", "apply"},
     todo : SUBSET Part, count : 0 .. (Cardinality(Part) - 1), buffer : SUBSET Part,
     part : Part \cup {None}, body : Body \cup {NoBody}]

LEMMA IdleType == IdleMain \in MainStates
  BY PartCounts DEF IdleMain, MainStates

(* Every step preserves the types. *)
LEMMA TypeStep == TypeOK /\ DestroyedPart /\ HeldPointer /\ DirtyAfterLoss /\ [Next]_vars => TypeOK'
<1> SUFFICES ASSUME TypeOK, DestroyedPart, HeldPointer, DirtyAfterLoss, [Next]_vars PROVE TypeOK'
  OBVIOUS
<1> USE PartAssumption, MaxGenAssumption
<1>1. CASE Simulate
  BY <1>1 DEF TypeOK, Simulate, MayFall, tables, bodies
<1>2. CASE CollectFallen
  <2>1. {reg[p] : p \in {q \in Part : reg[q] # NoBody}} \subseteq Body
    BY DEF TypeOK
  <2>2. fallen' \subseteq Part
    BY <1>2, <2>1 DEF CollectFallen, Collected, Body
  <2>3. pending' \subseteq Body /\ touched' \subseteq Body
    BY <1>2, <2>1 DEF TypeOK, CollectFallen
  <2>. QED
    BY <1>2, <2>2, <2>3 DEF TypeOK, CollectFallen, tables, bodies
<1>3. CASE BeginDestroy
  BY <1>3 DEF TypeOK, BeginDestroy, Unregistered, tables, bodies
<1>4. CASE DeleteBody
  <2>1. ph.part \in Part /\ handle[ph.part] # 0
    BY <1>4 DEF DestroyedPart, DeleteBody
  <2>2. raced' \subseteq Body
    BY <1>4, <2>1, BodyOfType DEF TypeOK, DeleteBody
  <2>3. handle' = [handle EXCEPT ![ph.part] = 0]
    BY <1>4 DEF DeleteBody, Cleared
  <2>4. handle' \in [Part -> 0 .. MaxGen]
    BY <2>1, <2>3 DEF TypeOK
  <2>. QED
    BY <1>4, <2>2, <2>4 DEF TypeOK, DeleteBody, tables, bodies
<1>5. CASE FinishDestroy
  BY <1>5 DEF TypeOK, FinishDestroy, Detach, tables, bodies
<1>6. CASE BeginInterpolate
  BY <1>6 DEF TypeOK, BeginInterpolate, tables, bodies
<1>7. CASE Interpolate
  BY <1>7 DEF TypeOK, Interpolate, MayFall, tables, bodies
<1>8. CASE Broadcast
  <2>1. \A p \in gameParts : handle[p] # 0 => BodyOf(p) \in Body
    BY BodyOfType DEF TypeOK
  <2>2. touched' \subseteq Body /\ kinematic' \subseteq Body /\ target' \subseteq Part
    BY <1>8, <2>1 DEF TypeOK, Broadcast
  <2>. QED
    BY <1>8, <2>2 DEF TypeOK, Broadcast, tables, bodies
<1>9. CASE SkipRebuild
  BY <1>9 DEF TypeOK, SkipRebuild, tables, bodies
<1>10. CASE BeginRebuild
  <2>1. Cardinality(tree) \in 0 .. (Cardinality(Part) - 1)
    BY <1>10, PartCounts DEF TypeOK, DirtyAfterLoss, BeginRebuild
  <2>2. mn' \in MainStates
    BY <1>10, <2>1, IdleType DEF BeginRebuild, CountInstances, MainStates
  <2>. QED
    BY <1>10, <2>2 DEF TypeOK, BeginRebuild, MainStates, tables, bodies
<1>11. CASE BeginWalk
  BY <1>11 DEF TypeOK, BeginWalk, tables, bodies
<1>12. CASE VisitPart
  <2>1. PICK p \in mn.todo : mn' = [mn EXCEPT !.at = IF handle[p] = 0 THEN "bind" ELSE "rebind",
                                      !.part = p, !.todo = @ \ {p}, !.body = BodyOf(p)]
    BY <1>12 DEF VisitPart
  <2>2. p \in Part
    BY <2>1 DEF TypeOK
  <2>3. mn \in MainStates
    BY DEF TypeOK, MainStates
  <2>4. BodyOf(p) \in Body \cup {NoBody}
    BY <2>2, BodyOfType
  <2>5. mn' \in MainStates
    BY <2>1, <2>2, <2>3, <2>4 DEF MainStates
  <2>. QED
    BY <1>12, <2>5 DEF TypeOK, VisitPart, MainStates, tables, bodies
<1>13. CASE CreateBody
  <2>1. mn.part \in Part
    BY <1>13 DEF HeldPointer, CreateBody
  <2>2. made[mn.part] + 1 \in 1 .. MaxGen
    BY <1>13, <2>1 DEF TypeOK, CreateBody
  <2>3. <<mn.part, made[mn.part] + 1>> \in Body
    BY <2>1, <2>2 DEF Body
  <2>4. /\ handle' \in [Part -> 0 .. MaxGen] /\ made' \in [Part -> 0 .. MaxGen]
        /\ live' \subseteq Body /\ world' \subseteq Body /\ touched' \subseteq Body
        /\ reg' \in [Part -> Body \cup {NoBody}]
    BY <1>13, <2>1, <2>2, <2>3 DEF TypeOK, CreateBody
  <2>5. /\ netParts' \subseteq Part /\ mn' \in MainStates
        /\ gameParts' = gameParts /\ mapData' = mapData
    BY <1>13, <2>1 DEF TypeOK, CreateBody, WritePart, MainStates
  <2>. QED
    BY <1>13, <2>4, <2>5 DEF TypeOK, CreateBody, MainStates
<1>14. CASE Rebind
  <2>1. mn.part \in Part /\ mn.body \in Body
    BY <1>14 DEF TypeOK, HeldPointer, Rebind
  <2>2. reg' \in [Part -> Body \cup {NoBody}]
    BY <1>14, <2>1 DEF TypeOK, Rebind, Rebound, Unregistered
  <2>3. raced' \subseteq Body
    BY <1>14, <2>1 DEF TypeOK, Rebind
  <2>4. /\ netParts' \subseteq Part /\ mn' \in MainStates
        /\ gameParts' = gameParts /\ mapData' = mapData
    BY <1>14, <2>1 DEF TypeOK, Rebind, WritePart, MainStates
  <2>. QED
    BY <1>14, <2>2, <2>3, <2>4 DEF TypeOK, Rebind, MainStates
<1>15. CASE EndWalk
  BY <1>15 DEF TypeOK, EndWalk, FlagAfterWalk, tables, bodies
<1>16. CASE Publish
  <2>1. mn' \in MainStates
    BY <1>16, IdleType DEF Publish, MainStates
  <2>2. mapData' \in [count : 0 .. Cardinality(Part), parts : SUBSET Part]
    BY <1>16, PartCounts DEF TypeOK, Publish
  <2>. QED
    BY <1>16, <2>1, <2>2 DEF TypeOK, Publish, MainStates, bodies
<1>17. CASE NoPacket
  BY <1>17, IdleType DEF TypeOK, NoPacket, MainStates, tables, bodies
<1>18. CASE FindReported
  <2>1. PICK p \in gameParts : mn' = [mn EXCEPT !.at = "mode", !.part = p, !.body = BodyOf(p)]
    BY <1>18 DEF FindReported
  <2>2. p \in Part
    BY <2>1 DEF TypeOK
  <2>3. mn \in MainStates
    BY DEF TypeOK, MainStates
  <2>4. BodyOf(p) \in Body \cup {NoBody}
    BY <2>2, BodyOfType
  <2>5. mn' \in MainStates
    BY <2>1, <2>2, <2>3, <2>4 DEF MainStates
  <2>. QED
    BY <1>18, <2>5 DEF TypeOK, FindReported, MainStates, tables, bodies
<1>19. CASE MakeKinematic
  <2>1. mn.body \in Body
    BY <1>19 DEF TypeOK, HeldPointer, MakeKinematic
  <2>. QED
    BY <1>19, <2>1 DEF TypeOK, MakeKinematic, tables, bodies
<1>20. CASE ApplyState
  <2>1. mn.part \in Part
    BY <1>20 DEF HeldPointer, ApplyState
  <2>. QED
    BY <1>20, <2>1, IdleType DEF TypeOK, ApplyState, MainStates, tables, bodies
<1>21. CASE UNCHANGED vars
  BY <1>21 DEF TypeOK, vars, tables, bodies, history
<1>. QED
  BY <1>1, <1>2, <1>3, <1>4, <1>5, <1>6, <1>7, <1>8, <1>9, <1>10, <1>11, <1>12, <1>13, <1>14,
     <1>15, <1>16, <1>17, <1>18, <1>19, <1>20, <1>21 DEF Next, PhysicsStep, MainStep

(* The physics thread goes on to name the part it destroys, with its body. *)
LEMMA DestroyedStep == TypeOK /\ DestroyedPart /\ [Next]_vars => DestroyedPart'
<1> SUFFICES ASSUME TypeOK, DestroyedPart, [Next]_vars PROVE DestroyedPart'
  OBVIOUS
<1> USE PartAssumption, MaxGenAssumption
<1>1. CASE Simulate
  BY <1>1 DEF TypeOK, DestroyedPart, Simulate, MayFall, tables, bodies
<1>2. CASE CollectFallen
  BY <1>2 DEF TypeOK, DestroyedPart, CollectFallen, Collected, tables, bodies
<1>3. CASE BeginDestroy
  BY <1>3 DEF TypeOK, DestroyedPart, BeginDestroy, Unregistered, tables, bodies
<1>4. CASE DeleteBody
  BY <1>4 DEF TypeOK, DestroyedPart, DeleteBody, Cleared, tables, bodies
<1>5. CASE FinishDestroy
  BY <1>5 DEF TypeOK, DestroyedPart, FinishDestroy, Detach, tables, bodies
<1>6. CASE BeginInterpolate
  BY <1>6 DEF TypeOK, DestroyedPart, BeginInterpolate, tables, bodies
<1>7. CASE Interpolate
  BY <1>7 DEF TypeOK, DestroyedPart, Interpolate, MayFall, tables, bodies
<1>8. CASE Broadcast
  BY <1>8 DEF TypeOK, DestroyedPart, Broadcast, tables, bodies
<1>9. CASE SkipRebuild
  BY <1>9 DEF TypeOK, DestroyedPart, SkipRebuild, tables, bodies
<1>10. CASE BeginRebuild
  BY <1>10 DEF TypeOK, DestroyedPart, BeginRebuild, IdleMain, CountInstances, tables, bodies
<1>11. CASE BeginWalk
  BY <1>11 DEF TypeOK, DestroyedPart, BeginWalk, tables, bodies
<1>12. CASE VisitPart
  BY <1>12 DEF TypeOK, DestroyedPart, VisitPart, tables, bodies
<1>13. CASE CreateBody
  BY <1>13 DEF TypeOK, DestroyedPart, CreateBody, WritePart, WorldMutexFree, tables, bodies
<1>14. CASE Rebind
  BY <1>14 DEF TypeOK, DestroyedPart, Rebind, WritePart, Rebound, Unregistered, tables, bodies
<1>15. CASE EndWalk
  BY <1>15 DEF TypeOK, DestroyedPart, EndWalk, FlagAfterWalk, tables, bodies
<1>16. CASE Publish
  BY <1>16 DEF TypeOK, DestroyedPart, Publish, IdleMain, tables, bodies
<1>17. CASE NoPacket
  BY <1>17 DEF TypeOK, DestroyedPart, NoPacket, IdleMain, tables, bodies
<1>18. CASE FindReported
  BY <1>18 DEF TypeOK, DestroyedPart, FindReported, tables, bodies
<1>19. CASE MakeKinematic
  BY <1>19 DEF TypeOK, DestroyedPart, MakeKinematic, WorldMutexFree, tables, bodies
<1>20. CASE ApplyState
  BY <1>20 DEF TypeOK, DestroyedPart, ApplyState, IdleMain, tables, bodies
<1>21. CASE UNCHANGED vars
  BY <1>21 DEF TypeOK, DestroyedPart, vars, tables, bodies, history
<1>. QED
  BY <1>1, <1>2, <1>3, <1>4, <1>5, <1>6, <1>7, <1>8, <1>9, <1>10, <1>11, <1>12, <1>13, <1>14,
     <1>15, <1>16, <1>17, <1>18, <1>19, <1>20, <1>21 DEF Next, PhysicsStep, MainStep

(* The main thread's pointer stays one to a body of its part. *)
LEMMA HeldStep ==
    TypeOK /\ DestroyedPart /\ HeldPointer /\ HandlesLive /\ [Next]_vars
        => HeldPointer'
<1> SUFFICES ASSUME TypeOK, DestroyedPart, HeldPointer, HandlesLive, [Next]_vars PROVE HeldPointer'
  OBVIOUS
<1> USE PartAssumption, MaxGenAssumption
<1>1. CASE Simulate
  BY <1>1 DEF TypeOK, DestroyedPart, HeldPointer, HandlesLive, BodyOf, Simulate, MayFall,
     tables, bodies
<1>2. CASE CollectFallen
  BY <1>2 DEF TypeOK, DestroyedPart, HeldPointer, HandlesLive, BodyOf, CollectFallen, Collected,
     tables, bodies
<1>3. CASE BeginDestroy
  BY <1>3 DEF TypeOK, DestroyedPart, HeldPointer, HandlesLive, BodyOf, BeginDestroy,
     Unregistered, tables, bodies
<1>4. CASE DeleteBody
  BY <1>4 DEF TypeOK, DestroyedPart, HeldPointer, HandlesLive, BodyOf, DeleteBody, Cleared,
     tables, bodies
<1>5. CASE FinishDestroy
  BY <1>5 DEF TypeOK, DestroyedPart, HeldPointer, HandlesLive, BodyOf, FinishDestroy, Detach,
     tables, bodies
<1>6. CASE BeginInterpolate
  BY <1>6 DEF TypeOK, DestroyedPart, HeldPointer, HandlesLive, BodyOf, BeginInterpolate, tables,
     bodies
<1>7. CASE Interpolate
  BY <1>7 DEF TypeOK, DestroyedPart, HeldPointer, HandlesLive, BodyOf, Interpolate, MayFall,
     tables, bodies
<1>8. CASE Broadcast
  BY <1>8 DEF TypeOK, DestroyedPart, HeldPointer, HandlesLive, BodyOf, Broadcast, tables, bodies
<1>9. CASE SkipRebuild
  BY <1>9 DEF TypeOK, DestroyedPart, HeldPointer, HandlesLive, BodyOf, SkipRebuild, tables, bodies
<1>10. CASE BeginRebuild
  BY <1>10 DEF TypeOK, DestroyedPart, HeldPointer, HandlesLive, BodyOf, BeginRebuild, IdleMain,
     CountInstances, tables, bodies
<1>11. CASE BeginWalk
  BY <1>11 DEF TypeOK, DestroyedPart, HeldPointer, HandlesLive, BodyOf, BeginWalk, tables, bodies
<1>12. CASE VisitPart
  <2>1. PICK p \in mn.todo : mn'.part = p /\ mn'.body = BodyOf(p)
           /\ mn'.at = IF handle[p] = 0 THEN "bind" ELSE "rebind"
    BY <1>12 DEF TypeOK, VisitPart
  <2>2. p \in Part
    BY <2>1 DEF TypeOK
  <2>3. UNCHANGED <<handle, live, raced>>
    BY <1>12 DEF VisitPart, bodies
  <2>4. BodyOf(p) # NoBody <=> handle[p] # 0
    BY <2>2, BodyOfType, NoBodyIsNone
  <2>5. BodyOf(p) # NoBody => BodyOf(p)[1] = p /\ handle[p] = BodyOf(p)[2] /\ BodyOf(p) \in live
    BY <2>2, <2>4, BodyOfType DEF HandlesLive
  <2>. QED
    BY <1>12, <2>1, <2>2, <2>3, <2>4, <2>5 DEF HeldPointer
<1>13. CASE CreateBody
  BY <1>13 DEF TypeOK, DestroyedPart, HeldPointer, HandlesLive, BodyOf, CreateBody, WritePart,
     WorldMutexFree, tables, bodies
<1>14. CASE Rebind
  BY <1>14 DEF TypeOK, DestroyedPart, HeldPointer, HandlesLive, BodyOf, Rebind, WritePart,
     Rebound, Unregistered, tables, bodies
<1>15. CASE EndWalk
  BY <1>15 DEF TypeOK, DestroyedPart, HeldPointer, HandlesLive, BodyOf, EndWalk, FlagAfterWalk,
     tables, bodies
<1>16. CASE Publish
  BY <1>16 DEF TypeOK, DestroyedPart, HeldPointer, HandlesLive, BodyOf, Publish, IdleMain,
     tables, bodies
<1>17. CASE NoPacket
  BY <1>17 DEF TypeOK, DestroyedPart, HeldPointer, HandlesLive, BodyOf, NoPacket, IdleMain,
     tables, bodies
<1>18. CASE FindReported
  <2>1. PICK p \in gameParts : mn'.part = p /\ mn'.body = BodyOf(p) /\ mn'.at = "mode"
           /\ handle[p] # 0
    BY <1>18 DEF TypeOK, FindReported
  <2>2. p \in Part
    BY <2>1 DEF TypeOK
  <2>3. UNCHANGED <<handle, live, raced>>
    BY <1>18 DEF FindReported, bodies
  <2>4. BodyOf(p) # NoBody <=> handle[p] # 0
    BY <2>2, BodyOfType, NoBodyIsNone
  <2>5. BodyOf(p) # NoBody => BodyOf(p)[1] = p /\ handle[p] = BodyOf(p)[2] /\ BodyOf(p) \in live
    BY <2>2, <2>4, BodyOfType DEF HandlesLive
  <2>. QED
    BY <1>18, <2>1, <2>2, <2>3, <2>4, <2>5 DEF HeldPointer
<1>19. CASE MakeKinematic
  BY <1>19 DEF TypeOK, DestroyedPart, HeldPointer, HandlesLive, BodyOf, MakeKinematic,
     WorldMutexFree, tables, bodies
<1>20. CASE ApplyState
  BY <1>20 DEF TypeOK, DestroyedPart, HeldPointer, HandlesLive, BodyOf, ApplyState, IdleMain,
     tables, bodies
<1>21. CASE UNCHANGED vars
  BY <1>21 DEF TypeOK, DestroyedPart, HeldPointer, HandlesLive, BodyOf, vars, tables, bodies,
     history
<1>. QED
  BY <1>1, <1>2, <1>3, <1>4, <1>5, <1>6, <1>7, <1>8, <1>9, <1>10, <1>11, <1>12, <1>13, <1>14,
     <1>15, <1>16, <1>17, <1>18, <1>19, <1>20, <1>21 DEF Next, PhysicsStep, MainStep

(* Handles stay those of existing bodies. *)
LEMMA HandlesStep ==
    TypeOK /\ DestroyedPart /\ HeldPointer /\ HandlesLive /\ [Next]_vars
        => HandlesLive'
<1> SUFFICES ASSUME TypeOK, DestroyedPart, HeldPointer, HandlesLive, [Next]_vars PROVE HandlesLive'
  OBVIOUS
<1> USE PartAssumption, MaxGenAssumption
<1>1. CASE Simulate
  BY <1>1 DEF TypeOK, DestroyedPart, HeldPointer, HandlesLive, BodyOf, Simulate, MayFall,
     tables, bodies
<1>2. CASE CollectFallen
  BY <1>2 DEF TypeOK, DestroyedPart, HeldPointer, HandlesLive, BodyOf, CollectFallen, Collected,
     tables, bodies
<1>3. CASE BeginDestroy
  BY <1>3 DEF TypeOK, DestroyedPart, HeldPointer, HandlesLive, BodyOf, BeginDestroy,
     Unregistered, tables, bodies
<1>4. CASE DeleteBody
  BY <1>4 DEF TypeOK, DestroyedPart, HeldPointer, HandlesLive, BodyOf, DeleteBody, Cleared,
     tables, bodies
<1>5. CASE FinishDestroy
  BY <1>5 DEF TypeOK, DestroyedPart, HeldPointer, HandlesLive, BodyOf, FinishDestroy, Detach,
     tables, bodies
<1>6. CASE BeginInterpolate
  BY <1>6 DEF TypeOK, DestroyedPart, HeldPointer, HandlesLive, BodyOf, BeginInterpolate, tables,
     bodies
<1>7. CASE Interpolate
  BY <1>7 DEF TypeOK, DestroyedPart, HeldPointer, HandlesLive, BodyOf, Interpolate, MayFall,
     tables, bodies
<1>8. CASE Broadcast
  BY <1>8 DEF TypeOK, DestroyedPart, HeldPointer, HandlesLive, BodyOf, Broadcast, tables, bodies
<1>9. CASE SkipRebuild
  BY <1>9 DEF TypeOK, DestroyedPart, HeldPointer, HandlesLive, BodyOf, SkipRebuild, tables, bodies
<1>10. CASE BeginRebuild
  BY <1>10 DEF TypeOK, DestroyedPart, HeldPointer, HandlesLive, BodyOf, BeginRebuild, IdleMain,
     CountInstances, tables, bodies
<1>11. CASE BeginWalk
  BY <1>11 DEF TypeOK, DestroyedPart, HeldPointer, HandlesLive, BodyOf, BeginWalk, tables, bodies
<1>12. CASE VisitPart
  BY <1>12 DEF TypeOK, DestroyedPart, HeldPointer, HandlesLive, BodyOf, VisitPart, tables, bodies
<1>13. CASE CreateBody
  BY <1>13 DEF TypeOK, DestroyedPart, HeldPointer, HandlesLive, BodyOf, CreateBody, WritePart,
     WorldMutexFree, tables, bodies
<1>14. CASE Rebind
  BY <1>14 DEF TypeOK, DestroyedPart, HeldPointer, HandlesLive, BodyOf, Rebind, WritePart,
     Rebound, Unregistered, tables, bodies
<1>15. CASE EndWalk
  BY <1>15 DEF TypeOK, DestroyedPart, HeldPointer, HandlesLive, BodyOf, EndWalk, FlagAfterWalk,
     tables, bodies
<1>16. CASE Publish
  BY <1>16 DEF TypeOK, DestroyedPart, HeldPointer, HandlesLive, BodyOf, Publish, IdleMain,
     tables, bodies
<1>17. CASE NoPacket
  BY <1>17 DEF TypeOK, DestroyedPart, HeldPointer, HandlesLive, BodyOf, NoPacket, IdleMain,
     tables, bodies
<1>18. CASE FindReported
  BY <1>18 DEF TypeOK, DestroyedPart, HeldPointer, HandlesLive, BodyOf, FindReported, tables, bodies
<1>19. CASE MakeKinematic
  BY <1>19 DEF TypeOK, DestroyedPart, HeldPointer, HandlesLive, BodyOf, MakeKinematic,
     WorldMutexFree, tables, bodies
<1>20. CASE ApplyState
  BY <1>20 DEF TypeOK, DestroyedPart, HeldPointer, HandlesLive, BodyOf, ApplyState, IdleMain,
     tables, bodies
<1>21. CASE UNCHANGED vars
  BY <1>21 DEF TypeOK, DestroyedPart, HeldPointer, HandlesLive, BodyOf, vars, tables, bodies,
     history
<1>. QED
  BY <1>1, <1>2, <1>3, <1>4, <1>5, <1>6, <1>7, <1>8, <1>9, <1>10, <1>11, <1>12, <1>13, <1>14,
     <1>15, <1>16, <1>17, <1>18, <1>19, <1>20, <1>21 DEF Next, PhysicsStep, MainStep

(* A body under deletion stays unregistered but for the race. *)
LEMMA UnregisteredStep ==
    TypeOK /\ DestroyedPart /\ HeldPointer /\ HandlesLive /\ DeletedUnregistered /\ [Next]_vars
        => DeletedUnregistered'
<1> SUFFICES ASSUME TypeOK, DestroyedPart, HeldPointer, HandlesLive, DeletedUnregistered,
                    [Next]_vars
             PROVE  DeletedUnregistered'
  OBVIOUS
<1> USE PartAssumption, MaxGenAssumption
<1>1. CASE Simulate
  BY <1>1 DEF TypeOK, DestroyedPart, HeldPointer, HandlesLive, DeletedUnregistered, BodyOf,
     Simulate, MayFall, tables, bodies
<1>2. CASE CollectFallen
  BY <1>2 DEF TypeOK, DestroyedPart, HeldPointer, HandlesLive, DeletedUnregistered, BodyOf,
     CollectFallen, Collected, tables, bodies
<1>3. CASE BeginDestroy
  <2>1. PICK p \in fallen : ph'.part = p /\ (handle[p] = 0 => ph'.at = "detach")
                        /\ (handle[p] # 0 => reg' = Unregistered(BodyOf(p)))
    BY <1>3 DEF TypeOK, BeginDestroy
  <2>2. p \in Part /\ handle' = handle
    BY <1>3, <2>1 DEF TypeOK, BeginDestroy
  <2>3. CASE handle[p] = 0
    BY <2>1, <2>3 DEF DeletedUnregistered
  <2>4. CASE handle[p] # 0
    <3>1. BodyOf(p)' = BodyOf(p) /\ BodyOf(p) # NoBody
      BY <2>2, <2>4, BodyOfType, NoBodyIsNone DEF BodyOf
    <3>2. \A q \in Part : reg'[q] # BodyOf(p)
      BY <2>1, <2>4, <3>1 DEF Unregistered
    <3>3. BodyOf(ph.part)' = BodyOf(p)
      BY <2>1, <2>2 DEF BodyOf
    <3>. QED
      BY <3>2, <3>3 DEF DeletedUnregistered
  <2>. QED
    BY <2>3, <2>4
<1>4. CASE DeleteBody
  BY <1>4 DEF TypeOK, DestroyedPart, HeldPointer, HandlesLive, DeletedUnregistered, BodyOf,
     DeleteBody, Cleared, tables, bodies
<1>5. CASE FinishDestroy
  BY <1>5 DEF TypeOK, DestroyedPart, HeldPointer, HandlesLive, DeletedUnregistered, BodyOf,
     FinishDestroy, Detach, tables, bodies
<1>6. CASE BeginInterpolate
  BY <1>6 DEF TypeOK, DestroyedPart, HeldPointer, HandlesLive, DeletedUnregistered, BodyOf,
     BeginInterpolate, tables, bodies
<1>7. CASE Interpolate
  BY <1>7 DEF TypeOK, DestroyedPart, HeldPointer, HandlesLive, DeletedUnregistered, BodyOf,
     Interpolate, MayFall, tables, bodies
<1>8. CASE Broadcast
  BY <1>8 DEF TypeOK, DestroyedPart, HeldPointer, HandlesLive, DeletedUnregistered, BodyOf,
     Broadcast, tables, bodies
<1>9. CASE SkipRebuild
  BY <1>9 DEF TypeOK, DestroyedPart, HeldPointer, HandlesLive, DeletedUnregistered, BodyOf,
     SkipRebuild, tables, bodies
<1>10. CASE BeginRebuild
  BY <1>10 DEF TypeOK, DestroyedPart, HeldPointer, HandlesLive, DeletedUnregistered, BodyOf,
     BeginRebuild, IdleMain, CountInstances, tables, bodies
<1>11. CASE BeginWalk
  BY <1>11 DEF TypeOK, DestroyedPart, HeldPointer, HandlesLive, DeletedUnregistered, BodyOf,
     BeginWalk, tables, bodies
<1>12. CASE VisitPart
  BY <1>12 DEF TypeOK, DestroyedPart, HeldPointer, HandlesLive, DeletedUnregistered, BodyOf,
     VisitPart, tables, bodies
<1>13. CASE CreateBody
  BY <1>13 DEF TypeOK, DestroyedPart, HeldPointer, HandlesLive, DeletedUnregistered, BodyOf,
     CreateBody, WritePart, WorldMutexFree, tables, bodies
<1>14. CASE Rebind
  <2>1. SUFFICES ASSUME ph'.at = "delete", NEW p \in Part, reg'[p] = BodyOf(ph.part)'
                  PROVE  BodyOf(ph.part)' \in raced'
    BY DEF DeletedUnregistered
  <2>2. /\ ph' = ph /\ handle' = handle
        /\ raced' = IF ph = [at |-> "delete", part |-> mn.part] THEN raced \cup {mn.body} ELSE raced
    BY <1>14 DEF Rebind
  <2>3. ph.part \in Part /\ ph.at = "delete" /\ handle[ph.part] # 0 /\ mn.part \in Part
        /\ mn.body # NoBody /\ mn.body[1] = mn.part
    BY <1>14, <2>1, <2>2 DEF DestroyedPart, HeldPointer, Rebind
  <2>4. BodyOf(ph.part)' = BodyOf(ph.part) /\ BodyOf(ph.part)[1] = ph.part
    BY <2>2, <2>3, BodyOfType DEF BodyOf
  <2>5. reg' = [[q \in Part |-> IF reg[q] = mn.body THEN NoBody ELSE reg[q]]
                     EXCEPT ![mn.part] = mn.body]
    BY <1>14 DEF Rebind, Rebound, Unregistered
  <2>6. BodyOf(ph.part) # NoBody
    BY <2>3, BodyOfType, NoBodyIsNone
  <2>7. CASE p = mn.part
    <3>1. mn.body = BodyOf(ph.part)
      BY <2>1, <2>3, <2>4, <2>5, <2>7
    <3>2. ph = [at |-> "delete", part |-> mn.part]
      BY <2>3, <2>4, <3>1 DEF TypeOK
    <3>. QED
      BY <2>2, <2>4, <3>1, <3>2
  <2>8. CASE p # mn.part
    <3>1. reg[p] = BodyOf(ph.part)
      BY <2>1, <2>4, <2>5, <2>6, <2>8
    <3>. QED
      BY <2>2, <2>3, <2>4, <3>1 DEF DeletedUnregistered
  <2>. QED
    BY <2>7, <2>8
<1>15. CASE EndWalk
  BY <1>15 DEF TypeOK, DestroyedPart, HeldPointer, HandlesLive, DeletedUnregistered, BodyOf,
     EndWalk, FlagAfterWalk, tables, bodies
<1>16. CASE Publish
  BY <1>16 DEF TypeOK, DestroyedPart, HeldPointer, HandlesLive, DeletedUnregistered, BodyOf,
     Publish, IdleMain, tables, bodies
<1>17. CASE NoPacket
  BY <1>17 DEF TypeOK, DestroyedPart, HeldPointer, HandlesLive, DeletedUnregistered, BodyOf,
     NoPacket, IdleMain, tables, bodies
<1>18. CASE FindReported
  BY <1>18 DEF TypeOK, DestroyedPart, HeldPointer, HandlesLive, DeletedUnregistered, BodyOf,
     FindReported, tables, bodies
<1>19. CASE MakeKinematic
  BY <1>19 DEF TypeOK, DestroyedPart, HeldPointer, HandlesLive, DeletedUnregistered, BodyOf,
     MakeKinematic, WorldMutexFree, tables, bodies
<1>20. CASE ApplyState
  BY <1>20 DEF TypeOK, DestroyedPart, HeldPointer, HandlesLive, DeletedUnregistered, BodyOf,
     ApplyState, IdleMain, tables, bodies
<1>21. CASE UNCHANGED vars
  BY <1>21 DEF TypeOK, DestroyedPart, HeldPointer, HandlesLive, DeletedUnregistered, BodyOf,
     vars, tables, bodies, history
<1>. QED
  BY <1>1, <1>2, <1>3, <1>4, <1>5, <1>6, <1>7, <1>8, <1>9, <1>10, <1>11, <1>12, <1>13, <1>14,
     <1>15, <1>16, <1>17, <1>18, <1>19, <1>20, <1>21 DEF Next, PhysicsStep, MainStep

(* Parts out of the tree stay without the bodies they had in it. *)
LEMMA DetachedStep ==
    TypeOK /\ DestroyedPart /\ HeldPointer /\ HandlesLive /\ BodiesOfDetached /\ [Next]_vars
        => BodiesOfDetached'
<1> SUFFICES ASSUME TypeOK, DestroyedPart, HeldPointer, HandlesLive, BodiesOfDetached, [Next]_vars
             PROVE  BodiesOfDetached'
  OBVIOUS
<1> USE PartAssumption, MaxGenAssumption
<1>1. CASE Simulate
  BY <1>1 DEF TypeOK, DestroyedPart, HeldPointer, HandlesLive, BodiesOfDetached, BodyOf,
     Simulate, MayFall, tables, bodies
<1>2. CASE CollectFallen
  BY <1>2 DEF TypeOK, DestroyedPart, HeldPointer, HandlesLive, BodiesOfDetached, BodyOf,
     CollectFallen, Collected, tables, bodies
<1>3. CASE BeginDestroy
  BY <1>3 DEF TypeOK, DestroyedPart, HeldPointer, HandlesLive, BodiesOfDetached, BodyOf,
     BeginDestroy, Unregistered, tables, bodies
<1>4. CASE DeleteBody
  BY <1>4 DEF TypeOK, DestroyedPart, HeldPointer, HandlesLive, BodiesOfDetached, BodyOf,
     DeleteBody, Cleared, tables, bodies
<1>5. CASE FinishDestroy
  BY <1>5 DEF TypeOK, DestroyedPart, HeldPointer, HandlesLive, BodiesOfDetached, BodyOf,
     FinishDestroy, Detach, tables, bodies
<1>6. CASE BeginInterpolate
  BY <1>6 DEF TypeOK, DestroyedPart, HeldPointer, HandlesLive, BodiesOfDetached, BodyOf,
     BeginInterpolate, tables, bodies
<1>7. CASE Interpolate
  BY <1>7 DEF TypeOK, DestroyedPart, HeldPointer, HandlesLive, BodiesOfDetached, BodyOf,
     Interpolate, MayFall, tables, bodies
<1>8. CASE Broadcast
  BY <1>8 DEF TypeOK, DestroyedPart, HeldPointer, HandlesLive, BodiesOfDetached, BodyOf,
     Broadcast, tables, bodies
<1>9. CASE SkipRebuild
  BY <1>9 DEF TypeOK, DestroyedPart, HeldPointer, HandlesLive, BodiesOfDetached, BodyOf,
     SkipRebuild, tables, bodies
<1>10. CASE BeginRebuild
  BY <1>10 DEF TypeOK, DestroyedPart, HeldPointer, HandlesLive, BodiesOfDetached, BodyOf,
     BeginRebuild, IdleMain, CountInstances, tables, bodies
<1>11. CASE BeginWalk
  BY <1>11 DEF TypeOK, DestroyedPart, HeldPointer, HandlesLive, BodiesOfDetached, BodyOf,
     BeginWalk, tables, bodies
<1>12. CASE VisitPart
  BY <1>12 DEF TypeOK, DestroyedPart, HeldPointer, HandlesLive, BodiesOfDetached, BodyOf,
     VisitPart, tables, bodies
<1>13. CASE CreateBody
  BY <1>13 DEF TypeOK, DestroyedPart, HeldPointer, HandlesLive, BodiesOfDetached, BodyOf,
     CreateBody, WritePart, WorldMutexFree, tables, bodies
<1>14. CASE Rebind
  BY <1>14 DEF TypeOK, DestroyedPart, HeldPointer, HandlesLive, BodiesOfDetached, BodyOf,
     Rebind, WritePart, Rebound, Unregistered, tables, bodies
<1>15. CASE EndWalk
  BY <1>15 DEF TypeOK, DestroyedPart, HeldPointer, HandlesLive, BodiesOfDetached, BodyOf,
     EndWalk, FlagAfterWalk, tables, bodies
<1>16. CASE Publish
  BY <1>16 DEF TypeOK, DestroyedPart, HeldPointer, HandlesLive, BodiesOfDetached, BodyOf,
     Publish, IdleMain, tables, bodies
<1>17. CASE NoPacket
  BY <1>17 DEF TypeOK, DestroyedPart, HeldPointer, HandlesLive, BodiesOfDetached, BodyOf,
     NoPacket, IdleMain, tables, bodies
<1>18. CASE FindReported
  BY <1>18 DEF TypeOK, DestroyedPart, HeldPointer, HandlesLive, BodiesOfDetached, BodyOf,
     FindReported, tables, bodies
<1>19. CASE MakeKinematic
  BY <1>19 DEF TypeOK, DestroyedPart, HeldPointer, HandlesLive, BodiesOfDetached, BodyOf,
     MakeKinematic, WorldMutexFree, tables, bodies
<1>20. CASE ApplyState
  BY <1>20 DEF TypeOK, DestroyedPart, HeldPointer, HandlesLive, BodiesOfDetached, BodyOf,
     ApplyState, IdleMain, tables, bodies
<1>21. CASE UNCHANGED vars
  BY <1>21 DEF TypeOK, DestroyedPart, HeldPointer, HandlesLive, BodiesOfDetached, BodyOf, vars,
     tables, bodies, history
<1>. QED
  BY <1>1, <1>2, <1>3, <1>4, <1>5, <1>6, <1>7, <1>8, <1>9, <1>10, <1>11, <1>12, <1>13, <1>14,
     <1>15, <1>16, <1>17, <1>18, <1>19, <1>20, <1>21 DEF Next, PhysicsStep, MainStep

(* The registry stays that of the bodies. *)
LEMMA RegistryStep == TypeOK /\ PointerInv /\ [Next]_vars => RegistryMatchesBodies'
<1> SUFFICES ASSUME TypeOK, PointerInv, [Next]_vars PROVE RegistryMatchesBodies'
  OBVIOUS
<1> USE PartAssumption, MaxGenAssumption
<1>1. CASE Simulate
  BY <1>1 DEF TypeOK, PointerInv, DestroyedPart, HeldPointer, HandlesLive, DeletedUnregistered,
     RegistryMatchesBodies, BodyOf, Simulate, MayFall, tables, bodies
<1>2. CASE CollectFallen
  BY <1>2 DEF TypeOK, PointerInv, DestroyedPart, HeldPointer, HandlesLive, DeletedUnregistered,
     RegistryMatchesBodies, BodyOf, CollectFallen, Collected, tables, bodies
<1>3. CASE BeginDestroy
  BY <1>3 DEF TypeOK, PointerInv, DestroyedPart, HeldPointer, HandlesLive, DeletedUnregistered,
     RegistryMatchesBodies, BodyOf, BeginDestroy, Unregistered, tables, bodies
<1>4. CASE DeleteBody
  BY <1>4 DEF TypeOK, PointerInv, DestroyedPart, HeldPointer, HandlesLive, DeletedUnregistered,
     RegistryMatchesBodies, BodyOf, DeleteBody, Cleared, tables, bodies
<1>5. CASE FinishDestroy
  BY <1>5 DEF TypeOK, PointerInv, DestroyedPart, HeldPointer, HandlesLive, DeletedUnregistered,
     RegistryMatchesBodies, BodyOf, FinishDestroy, Detach, tables, bodies
<1>6. CASE BeginInterpolate
  BY <1>6 DEF TypeOK, PointerInv, DestroyedPart, HeldPointer, HandlesLive, DeletedUnregistered,
     RegistryMatchesBodies, BodyOf, BeginInterpolate, tables, bodies
<1>7. CASE Interpolate
  BY <1>7 DEF TypeOK, PointerInv, DestroyedPart, HeldPointer, HandlesLive, DeletedUnregistered,
     RegistryMatchesBodies, BodyOf, Interpolate, MayFall, tables, bodies
<1>8. CASE Broadcast
  BY <1>8 DEF TypeOK, PointerInv, DestroyedPart, HeldPointer, HandlesLive, DeletedUnregistered,
     RegistryMatchesBodies, BodyOf, Broadcast, tables, bodies
<1>9. CASE SkipRebuild
  BY <1>9 DEF TypeOK, PointerInv, DestroyedPart, HeldPointer, HandlesLive, DeletedUnregistered,
     RegistryMatchesBodies, BodyOf, SkipRebuild, tables, bodies
<1>10. CASE BeginRebuild
  BY <1>10 DEF TypeOK, PointerInv, DestroyedPart, HeldPointer, HandlesLive, DeletedUnregistered,
     RegistryMatchesBodies, BodyOf, BeginRebuild, IdleMain, CountInstances, tables, bodies
<1>11. CASE BeginWalk
  BY <1>11 DEF TypeOK, PointerInv, DestroyedPart, HeldPointer, HandlesLive, DeletedUnregistered,
     RegistryMatchesBodies, BodyOf, BeginWalk, tables, bodies
<1>12. CASE VisitPart
  BY <1>12 DEF TypeOK, PointerInv, DestroyedPart, HeldPointer, HandlesLive, DeletedUnregistered,
     RegistryMatchesBodies, BodyOf, VisitPart, tables, bodies
<1>13. CASE CreateBody
  BY <1>13 DEF TypeOK, PointerInv, DestroyedPart, HeldPointer, HandlesLive, DeletedUnregistered,
     RegistryMatchesBodies, BodyOf, CreateBody, WritePart, WorldMutexFree, tables, bodies
<1>14. CASE Rebind
  <2>1. mn.part \in Part /\ mn.body \in Body /\ mn.body[1] = mn.part
        /\ handle[mn.part] \in {0, mn.body[2]} /\ mn.body \in live \cup raced
    BY <1>14 DEF TypeOK, PointerInv, HeldPointer, Rebind
  <2>2. UNCHANGED <<tree, handle, live, ph>> /\ raced \subseteq raced'
    BY <1>14 DEF Rebind
  <2>3. reg' = [[q \in Part |-> IF reg[q] = mn.body THEN NoBody ELSE reg[q]]
                     EXCEPT ![mn.part] = mn.body]
    BY <1>14 DEF Rebind, Rebound, Unregistered
  <2>4. \A p \in Part : reg'[p] = IF p = mn.part THEN mn.body
                                  ELSE IF reg[p] = mn.body THEN NoBody ELSE reg[p]
    BY <2>1, <2>3
  <2>5. \A p \in Part : reg'[p] # NoBody => reg'[p] \in live' \cup raced'
    BY <2>1, <2>2, <2>4 DEF PointerInv, RegistryMatchesBodies
  <2>6. ASSUME NEW p \in tree, handle[p] # 0, ph.part # p  PROVE reg'[p] = BodyOf(p)
    <3>1. p \in Part
      BY DEF TypeOK
    <3>2. BodyOf(p) = <<p, handle[p]>> /\ BodyOf(p)[1] = p
      BY <2>6, <3>1, BodyOfType
    <3>3. reg[p] = BodyOf(p)
      BY <2>6 DEF PointerInv, RegistryMatchesBodies
    <3>4. p = mn.part => mn.body = BodyOf(p)
      BY <2>1, <2>6, <3>2 DEF Body
    <3>5. p # mn.part => reg[p] # mn.body
      BY <2>1, <3>2, <3>3
    <3>. QED
      BY <2>4, <3>1, <3>3, <3>4, <3>5
  <2>7. \A p \in Part : BodyOf(p)' = BodyOf(p)
    BY <2>2 DEF BodyOf
  <2>. QED
    BY <2>2, <2>5, <2>6, <2>7 DEF TypeOK, RegistryMatchesBodies
<1>15. CASE EndWalk
  BY <1>15 DEF TypeOK, PointerInv, DestroyedPart, HeldPointer, HandlesLive, DeletedUnregistered,
     RegistryMatchesBodies, BodyOf, EndWalk, FlagAfterWalk, tables, bodies
<1>16. CASE Publish
  BY <1>16 DEF TypeOK, PointerInv, DestroyedPart, HeldPointer, HandlesLive, DeletedUnregistered,
     RegistryMatchesBodies, BodyOf, Publish, IdleMain, tables, bodies
<1>17. CASE NoPacket
  BY <1>17 DEF TypeOK, PointerInv, DestroyedPart, HeldPointer, HandlesLive, DeletedUnregistered,
     RegistryMatchesBodies, BodyOf, NoPacket, IdleMain, tables, bodies
<1>18. CASE FindReported
  BY <1>18 DEF TypeOK, PointerInv, DestroyedPart, HeldPointer, HandlesLive, DeletedUnregistered,
     RegistryMatchesBodies, BodyOf, FindReported, tables, bodies
<1>19. CASE MakeKinematic
  BY <1>19 DEF TypeOK, PointerInv, DestroyedPart, HeldPointer, HandlesLive, DeletedUnregistered,
     RegistryMatchesBodies, BodyOf, MakeKinematic, WorldMutexFree, tables, bodies
<1>20. CASE ApplyState
  BY <1>20 DEF TypeOK, PointerInv, DestroyedPart, HeldPointer, HandlesLive, DeletedUnregistered,
     RegistryMatchesBodies, BodyOf, ApplyState, IdleMain, tables, bodies
<1>21. CASE UNCHANGED vars
  BY <1>21 DEF TypeOK, PointerInv, DestroyedPart, HeldPointer, HandlesLive, DeletedUnregistered,
     RegistryMatchesBodies, BodyOf, vars, tables, bodies, history
<1>. QED
  BY <1>1, <1>2, <1>3, <1>4, <1>5, <1>6, <1>7, <1>8, <1>9, <1>10, <1>11, <1>12, <1>13, <1>14,
     <1>15, <1>16, <1>17, <1>18, <1>19, <1>20, <1>21 DEF Next, PhysicsStep, MainStep

(* No step dereferences a deleted body but for the race. *)
LEMMA TouchedStep ==
    TypeOK /\ PointerInv /\ FreedTouchedOnlyByRace /\ [Next]_vars
        => FreedTouchedOnlyByRace'
<1> SUFFICES ASSUME TypeOK, PointerInv, FreedTouchedOnlyByRace, [Next]_vars
             PROVE  FreedTouchedOnlyByRace'
  OBVIOUS
<1> USE PartAssumption, MaxGenAssumption
<1>1. CASE Simulate
  BY <1>1 DEF TypeOK, PointerInv, HeldPointer, HandlesLive, RegistryMatchesBodies,
     FreedTouchedOnlyByRace, BodyOf, Simulate, MayFall, tables, bodies
<1>2. CASE CollectFallen
  BY <1>2 DEF TypeOK, PointerInv, HeldPointer, HandlesLive, RegistryMatchesBodies,
     FreedTouchedOnlyByRace, BodyOf, CollectFallen, Collected, tables, bodies
<1>3. CASE BeginDestroy
  BY <1>3 DEF TypeOK, PointerInv, HeldPointer, HandlesLive, RegistryMatchesBodies,
     FreedTouchedOnlyByRace, BodyOf, BeginDestroy, Unregistered, tables, bodies
<1>4. CASE DeleteBody
  BY <1>4 DEF TypeOK, PointerInv, HeldPointer, HandlesLive, RegistryMatchesBodies,
     FreedTouchedOnlyByRace, BodyOf, DeleteBody, Cleared, tables, bodies
<1>5. CASE FinishDestroy
  BY <1>5 DEF TypeOK, PointerInv, HeldPointer, HandlesLive, RegistryMatchesBodies,
     FreedTouchedOnlyByRace, BodyOf, FinishDestroy, Detach, tables, bodies
<1>6. CASE BeginInterpolate
  BY <1>6 DEF TypeOK, PointerInv, HeldPointer, HandlesLive, RegistryMatchesBodies,
     FreedTouchedOnlyByRace, BodyOf, BeginInterpolate, tables, bodies
<1>7. CASE Interpolate
  BY <1>7 DEF TypeOK, PointerInv, HeldPointer, HandlesLive, RegistryMatchesBodies,
     FreedTouchedOnlyByRace, BodyOf, Interpolate, MayFall, tables, bodies
<1>8. CASE Broadcast
  BY <1>8 DEF TypeOK, PointerInv, HeldPointer, HandlesLive, RegistryMatchesBodies,
     FreedTouchedOnlyByRace, BodyOf, Broadcast, tables, bodies
<1>9. CASE SkipRebuild
  BY <1>9 DEF TypeOK, PointerInv, HeldPointer, HandlesLive, RegistryMatchesBodies,
     FreedTouchedOnlyByRace, BodyOf, SkipRebuild, tables, bodies
<1>10. CASE BeginRebuild
  BY <1>10 DEF TypeOK, PointerInv, HeldPointer, HandlesLive, RegistryMatchesBodies,
     FreedTouchedOnlyByRace, BodyOf, BeginRebuild, IdleMain, CountInstances, tables, bodies
<1>11. CASE BeginWalk
  BY <1>11 DEF TypeOK, PointerInv, HeldPointer, HandlesLive, RegistryMatchesBodies,
     FreedTouchedOnlyByRace, BodyOf, BeginWalk, tables, bodies
<1>12. CASE VisitPart
  BY <1>12 DEF TypeOK, PointerInv, HeldPointer, HandlesLive, RegistryMatchesBodies,
     FreedTouchedOnlyByRace, BodyOf, VisitPart, tables, bodies
<1>13. CASE CreateBody
  BY <1>13 DEF TypeOK, PointerInv, HeldPointer, HandlesLive, RegistryMatchesBodies,
     FreedTouchedOnlyByRace, BodyOf, CreateBody, WritePart, WorldMutexFree, tables, bodies
<1>14. CASE Rebind
  BY <1>14 DEF TypeOK, PointerInv, HeldPointer, HandlesLive, RegistryMatchesBodies,
     FreedTouchedOnlyByRace, BodyOf, Rebind, WritePart, Rebound, Unregistered, tables, bodies
<1>15. CASE EndWalk
  BY <1>15 DEF TypeOK, PointerInv, HeldPointer, HandlesLive, RegistryMatchesBodies,
     FreedTouchedOnlyByRace, BodyOf, EndWalk, FlagAfterWalk, tables, bodies
<1>16. CASE Publish
  BY <1>16 DEF TypeOK, PointerInv, HeldPointer, HandlesLive, RegistryMatchesBodies,
     FreedTouchedOnlyByRace, BodyOf, Publish, IdleMain, tables, bodies
<1>17. CASE NoPacket
  BY <1>17 DEF TypeOK, PointerInv, HeldPointer, HandlesLive, RegistryMatchesBodies,
     FreedTouchedOnlyByRace, BodyOf, NoPacket, IdleMain, tables, bodies
<1>18. CASE FindReported
  BY <1>18 DEF TypeOK, PointerInv, HeldPointer, HandlesLive, RegistryMatchesBodies,
     FreedTouchedOnlyByRace, BodyOf, FindReported, tables, bodies
<1>19. CASE MakeKinematic
  BY <1>19 DEF TypeOK, PointerInv, HeldPointer, HandlesLive, RegistryMatchesBodies,
     FreedTouchedOnlyByRace, BodyOf, MakeKinematic, WorldMutexFree, tables, bodies
<1>20. CASE ApplyState
  BY <1>20 DEF TypeOK, PointerInv, HeldPointer, HandlesLive, RegistryMatchesBodies,
     FreedTouchedOnlyByRace, BodyOf, ApplyState, IdleMain, tables, bodies
<1>21. CASE UNCHANGED vars
  BY <1>21 DEF FreedTouchedOnlyByRace, vars, bodies, history
<1>. QED
  BY <1>1, <1>2, <1>3, <1>4, <1>5, <1>6, <1>7, <1>8, <1>9, <1>10, <1>11, <1>12, <1>13, <1>14,
     <1>15, <1>16, <1>17, <1>18, <1>19, <1>20, <1>21 DEF Next, PhysicsStep, MainStep

(* Only the loss of a part makes the map dirty. *)
LEMMA DirtyStep == TypeOK /\ DestroyedPart /\ DirtyAfterLoss /\ [Next]_vars => DirtyAfterLoss'
<1> SUFFICES ASSUME TypeOK, DestroyedPart, DirtyAfterLoss, [Next]_vars PROVE DirtyAfterLoss'
  OBVIOUS
<1> USE PartAssumption, MaxGenAssumption
<1>1. CASE Simulate
  BY <1>1 DEF TypeOK, DestroyedPart, DirtyAfterLoss, Simulate, MayFall, tables, bodies
<1>2. CASE CollectFallen
  BY <1>2 DEF TypeOK, DestroyedPart, DirtyAfterLoss, CollectFallen, Collected, tables, bodies
<1>3. CASE BeginDestroy
  BY <1>3 DEF TypeOK, DestroyedPart, DirtyAfterLoss, BeginDestroy, Unregistered, tables, bodies
<1>4. CASE DeleteBody
  BY <1>4 DEF TypeOK, DestroyedPart, DirtyAfterLoss, DeleteBody, Cleared, tables, bodies
<1>5. CASE FinishDestroy
  BY <1>5 DEF TypeOK, DestroyedPart, DirtyAfterLoss, FinishDestroy, Detach, tables, bodies
<1>6. CASE BeginInterpolate
  BY <1>6 DEF TypeOK, DestroyedPart, DirtyAfterLoss, BeginInterpolate, tables, bodies
<1>7. CASE Interpolate
  BY <1>7 DEF TypeOK, DestroyedPart, DirtyAfterLoss, Interpolate, MayFall, tables, bodies
<1>8. CASE Broadcast
  BY <1>8 DEF TypeOK, DestroyedPart, DirtyAfterLoss, Broadcast, tables, bodies
<1>9. CASE SkipRebuild
  BY <1>9 DEF TypeOK, DestroyedPart, DirtyAfterLoss, SkipRebuild, tables, bodies
<1>10. CASE BeginRebuild
  BY <1>10 DEF TypeOK, DestroyedPart, DirtyAfterLoss, BeginRebuild, IdleMain, CountInstances,
     tables, bodies
<1>11. CASE BeginWalk
  BY <1>11 DEF TypeOK, DestroyedPart, DirtyAfterLoss, BeginWalk, tables, bodies
<1>12. CASE VisitPart
  BY <1>12 DEF TypeOK, DestroyedPart, DirtyAfterLoss, VisitPart, tables, bodies
<1>13. CASE CreateBody
  BY <1>13 DEF TypeOK, DestroyedPart, DirtyAfterLoss, CreateBody, WritePart, WorldMutexFree,
     tables, bodies
<1>14. CASE Rebind
  BY <1>14 DEF TypeOK, DestroyedPart, DirtyAfterLoss, Rebind, WritePart, Rebound, Unregistered,
     tables, bodies
<1>15. CASE EndWalk
  BY <1>15 DEF TypeOK, DestroyedPart, DirtyAfterLoss, EndWalk, FlagAfterWalk, tables, bodies
<1>16. CASE Publish
  BY <1>16 DEF TypeOK, DestroyedPart, DirtyAfterLoss, Publish, IdleMain, tables, bodies
<1>17. CASE NoPacket
  BY <1>17 DEF TypeOK, DestroyedPart, DirtyAfterLoss, NoPacket, IdleMain, tables, bodies
<1>18. CASE FindReported
  BY <1>18 DEF TypeOK, DestroyedPart, DirtyAfterLoss, FindReported, tables, bodies
<1>19. CASE MakeKinematic
  BY <1>19 DEF TypeOK, DestroyedPart, DirtyAfterLoss, MakeKinematic, WorldMutexFree, tables, bodies
<1>20. CASE ApplyState
  BY <1>20 DEF TypeOK, DestroyedPart, DirtyAfterLoss, ApplyState, IdleMain, tables, bodies
<1>21. CASE UNCHANGED vars
  BY <1>21 DEF TypeOK, DestroyedPart, DirtyAfterLoss, vars, tables, bodies, history
<1>. QED
  BY <1>1, <1>2, <1>3, <1>4, <1>5, <1>6, <1>7, <1>8, <1>9, <1>10, <1>11, <1>12, <1>13, <1>14,
     <1>15, <1>16, <1>17, <1>18, <1>19, <1>20, <1>21 DEF Next, PhysicsStep, MainStep

(* The books of a rebuild stay exact. *)
LEMMA RebuildStep == TypeOK /\ HeldPointer /\ RebuildExact /\ [Next]_vars => RebuildExact'
<1> SUFFICES ASSUME TypeOK, HeldPointer, RebuildExact, [Next]_vars PROVE RebuildExact'
  OBVIOUS
<1> USE PartAssumption, MaxGenAssumption
<1>1. CASE Simulate
  BY <1>1 DEF TypeOK, HeldPointer, RebuildExact, Simulate, MayFall, tables, bodies
<1>2. CASE CollectFallen
  BY <1>2 DEF TypeOK, HeldPointer, RebuildExact, CollectFallen, Collected, tables, bodies
<1>3. CASE BeginDestroy
  BY <1>3 DEF TypeOK, HeldPointer, RebuildExact, BeginDestroy, Unregistered, tables, bodies
<1>4. CASE DeleteBody
  BY <1>4 DEF TypeOK, HeldPointer, RebuildExact, DeleteBody, Cleared, tables, bodies
<1>5. CASE FinishDestroy
  BY <1>5 DEF TypeOK, HeldPointer, RebuildExact, FinishDestroy, Detach, tables, bodies
<1>6. CASE BeginInterpolate
  BY <1>6 DEF TypeOK, HeldPointer, RebuildExact, BeginInterpolate, tables, bodies
<1>7. CASE Interpolate
  BY <1>7 DEF TypeOK, HeldPointer, RebuildExact, Interpolate, MayFall, tables, bodies
<1>8. CASE Broadcast
  BY <1>8 DEF TypeOK, HeldPointer, RebuildExact, Broadcast, tables, bodies
<1>9. CASE SkipRebuild
  BY <1>9 DEF TypeOK, HeldPointer, RebuildExact, SkipRebuild, tables, bodies
<1>10. CASE BeginRebuild
  BY <1>10 DEF TypeOK, HeldPointer, RebuildExact, BeginRebuild, IdleMain, CountInstances,
     tables, bodies
<1>11. CASE BeginWalk
  BY <1>11 DEF TypeOK, HeldPointer, RebuildExact, BeginWalk, tables, bodies
<1>12. CASE VisitPart
  BY <1>12 DEF TypeOK, HeldPointer, RebuildExact, VisitPart, tables, bodies
<1>13. CASE CreateBody
  BY <1>13 DEF TypeOK, HeldPointer, RebuildExact, CreateBody, WritePart, WorldMutexFree, tables,
     bodies
<1>14. CASE Rebind
  BY <1>14 DEF TypeOK, HeldPointer, RebuildExact, Rebind, WritePart, Rebound, Unregistered,
     tables, bodies
<1>15. CASE EndWalk
  BY <1>15 DEF TypeOK, HeldPointer, RebuildExact, EndWalk, FlagAfterWalk, tables, bodies
<1>16. CASE Publish
  BY <1>16 DEF TypeOK, HeldPointer, RebuildExact, Publish, IdleMain, tables, bodies
<1>17. CASE NoPacket
  BY <1>17 DEF TypeOK, HeldPointer, RebuildExact, NoPacket, IdleMain, tables, bodies
<1>18. CASE FindReported
  BY <1>18 DEF TypeOK, HeldPointer, RebuildExact, FindReported, tables, bodies
<1>19. CASE MakeKinematic
  BY <1>19 DEF TypeOK, HeldPointer, RebuildExact, MakeKinematic, WorldMutexFree, tables, bodies
<1>20. CASE ApplyState
  BY <1>20 DEF TypeOK, HeldPointer, RebuildExact, ApplyState, IdleMain, tables, bodies
<1>21. CASE UNCHANGED vars
  BY <1>21 DEF TypeOK, HeldPointer, RebuildExact, vars, tables, bodies, history
<1>. QED
  BY <1>1, <1>2, <1>3, <1>4, <1>5, <1>6, <1>7, <1>8, <1>9, <1>10, <1>11, <1>12, <1>13, <1>14,
     <1>15, <1>16, <1>17, <1>18, <1>19, <1>20, <1>21 DEF Next, PhysicsStep, MainStep

(* The map served stays current. *)
LEMMA ServedStep ==
    TypeOK /\ RebuildExact /\ DestroyedPart /\ ServedMapCurrent /\ [Next]_vars
        => ServedMapCurrent'
<1> SUFFICES ASSUME TypeOK, RebuildExact, DestroyedPart, ServedMapCurrent, [Next]_vars
             PROVE  ServedMapCurrent'
  OBVIOUS
<1> USE PartAssumption, MaxGenAssumption
<1>1. CASE Simulate
  BY <1>1 DEF TypeOK, RebuildExact, DestroyedPart, ServedMapCurrent, Simulate, MayFall, tables,
     bodies
<1>2. CASE CollectFallen
  BY <1>2 DEF TypeOK, RebuildExact, DestroyedPart, ServedMapCurrent, CollectFallen, Collected,
     tables, bodies
<1>3. CASE BeginDestroy
  BY <1>3 DEF TypeOK, RebuildExact, DestroyedPart, ServedMapCurrent, BeginDestroy, Unregistered,
     tables, bodies
<1>4. CASE DeleteBody
  BY <1>4 DEF TypeOK, RebuildExact, DestroyedPart, ServedMapCurrent, DeleteBody, Cleared,
     tables, bodies
<1>5. CASE FinishDestroy
  <2>1. mn' = mn /\ mapData' = mapData /\ tree' = tree \ {ph.part}
        /\ dirty' = (dirty \/ ph.part \in tree)
        /\ overlapped' = (overlapped \/ mn.at \in {"count", "walk", "bind", "rebind", "publish"})
    BY <1>5 DEF FinishDestroy, Detach, tables
  <2>2. ph.part \notin tree => tree' = tree
    BY <2>1
  <2>. QED
    BY <2>1, <2>2 DEF TypeOK, ServedMapCurrent
<1>6. CASE BeginInterpolate
  BY <1>6 DEF TypeOK, RebuildExact, DestroyedPart, ServedMapCurrent, BeginInterpolate, tables,
     bodies
<1>7. CASE Interpolate
  BY <1>7 DEF TypeOK, RebuildExact, DestroyedPart, ServedMapCurrent, Interpolate, MayFall,
     tables, bodies
<1>8. CASE Broadcast
  BY <1>8 DEF TypeOK, RebuildExact, DestroyedPart, ServedMapCurrent, Broadcast, tables, bodies
<1>9. CASE SkipRebuild
  BY <1>9 DEF TypeOK, RebuildExact, DestroyedPart, ServedMapCurrent, SkipRebuild, tables, bodies
<1>10. CASE BeginRebuild
  BY <1>10 DEF TypeOK, RebuildExact, DestroyedPart, ServedMapCurrent, BeginRebuild, IdleMain,
     CountInstances, tables, bodies
<1>11. CASE BeginWalk
  BY <1>11 DEF TypeOK, RebuildExact, DestroyedPart, ServedMapCurrent, BeginWalk, tables, bodies
<1>12. CASE VisitPart
  BY <1>12 DEF TypeOK, RebuildExact, DestroyedPart, ServedMapCurrent, VisitPart, tables, bodies
<1>13. CASE CreateBody
  BY <1>13 DEF TypeOK, RebuildExact, DestroyedPart, ServedMapCurrent, CreateBody, WritePart,
     WorldMutexFree, tables, bodies
<1>14. CASE Rebind
  BY <1>14 DEF TypeOK, RebuildExact, DestroyedPart, ServedMapCurrent, Rebind, WritePart,
     Rebound, Unregistered, tables, bodies
<1>15. CASE EndWalk
  BY <1>15 DEF TypeOK, RebuildExact, DestroyedPart, ServedMapCurrent, EndWalk, FlagAfterWalk,
     tables, bodies
<1>16. CASE Publish
  BY <1>16 DEF TypeOK, RebuildExact, DestroyedPart, ServedMapCurrent, Publish, IdleMain, tables,
     bodies
<1>17. CASE NoPacket
  BY <1>17 DEF TypeOK, RebuildExact, DestroyedPart, ServedMapCurrent, NoPacket, IdleMain,
     tables, bodies
<1>18. CASE FindReported
  BY <1>18 DEF TypeOK, RebuildExact, DestroyedPart, ServedMapCurrent, FindReported, tables, bodies
<1>19. CASE MakeKinematic
  BY <1>19 DEF TypeOK, RebuildExact, DestroyedPart, ServedMapCurrent, MakeKinematic,
     WorldMutexFree, tables, bodies
<1>20. CASE ApplyState
  BY <1>20 DEF TypeOK, RebuildExact, DestroyedPart, ServedMapCurrent, ApplyState, IdleMain,
     tables, bodies
<1>21. CASE UNCHANGED vars
  BY <1>21 DEF TypeOK, RebuildExact, DestroyedPart, ServedMapCurrent, vars, tables, bodies, history
<1>. QED
  BY <1>1, <1>2, <1>3, <1>4, <1>5, <1>6, <1>7, <1>8, <1>9, <1>10, <1>11, <1>12, <1>13, <1>14,
     <1>15, <1>16, <1>17, <1>18, <1>19, <1>20, <1>21 DEF Next, PhysicsStep, MainStep

-----------------------------------------------------------------------------
(* The initial state. *)
LEMMA InitEstablishesIInv == Init => IInv
<1> SUFFICES ASSUME Init PROVE IInv
  OBVIOUS
<1> USE PartAssumption, MaxGenAssumption DEF Init
<1>1. \A p \in Part : <<p, 1>> \in Body
  BY DEF Body
<1>2. TypeOK
  <2>1. /\ live \subseteq Body /\ world \subseteq Body /\ kinematic \subseteq Body
        /\ pending \subseteq Body /\ raced \subseteq Body /\ touched \subseteq Body
        /\ reg \in [Part -> Body \cup {NoBody}]
    BY <1>1
  <2>2. mapData \in [count : 0 .. Cardinality(Part), parts : SUBSET Part]
    BY PartCounts
  <2>3. handle \in [Part -> 0 .. MaxGen] /\ made \in [Part -> 0 .. MaxGen]
    OBVIOUS
  <2>4. mn \in MainStates
    BY IdleType
  <2>. QED
    BY <2>1, <2>2, <2>3, <2>4 DEF TypeOK, MainStates
<1>3. \A p \in Part : BodyOf(p) = <<p, 1>>
  BY DEF BodyOf
<1>4. PointerInv
  BY <1>1, <1>3 DEF PointerInv, DestroyedPart, HeldPointer, HandlesLive, DeletedUnregistered,
     BodiesOfDetached, RegistryMatchesBodies, IdleMain
<1>5. DirtyAfterLoss /\ FreedTouchedOnlyByRace /\ NoBodyWithoutPart /\ RebuildExact
  BY DEF DirtyAfterLoss, FreedTouchedOnlyByRace, NoBodyWithoutPart, RebuildExact, IdleMain
<1>6. ServedMapCurrent
  BY DEF ServedMapCurrent
<1>. QED
  BY <1>2, <1>4, <1>5, <1>6 DEF IInv

(* Every step preserves the invariant. *)
LEMMA InvariantStep == IInv /\ [Next]_vars => IInv'
<1> SUFFICES ASSUME IInv, [Next]_vars PROVE IInv'
  OBVIOUS
<1>1. TypeOK'
  BY TypeStep DEF IInv, PointerInv
<1>2. DestroyedPart' /\ HeldPointer' /\ HandlesLive'
  BY DestroyedStep, HeldStep, HandlesStep DEF IInv, PointerInv
<1>3. DeletedUnregistered' /\ BodiesOfDetached' /\ RegistryMatchesBodies'
  BY UnregisteredStep, DetachedStep, RegistryStep DEF IInv, PointerInv
<1>4. FreedTouchedOnlyByRace' /\ DirtyAfterLoss' /\ RebuildExact' /\ ServedMapCurrent'
  BY TouchedStep, DirtyStep, RebuildStep, ServedStep DEF IInv, PointerInv
<1>5. NoBodyWithoutPart'
  BY <1>3 DEF BodiesOfDetached, NoBodyWithoutPart
<1>. QED
  BY <1>1, <1>2, <1>3, <1>4, <1>5 DEF IInv, PointerInv

LEMMA IInvAlways == Spec => []IInv
  BY InitEstablishesIInv, InvariantStep, PTL DEF Spec

(* Every pointer to a body that the code keeps is good: what is dereferenced *)
(* exists, but for the race of the main thread's unguarded reads, and the    *)
(* registry finds the bodies of the parts in the tree.                       *)
THEOREM NeverDangling == Spec => []NoDanglingBodies
<1>1. IInv => NoDanglingBodies
  BY DEF IInv, PointerInv, NoDanglingBodies
<1>. QED
  BY <1>1, IInvAlways, PTL

(* The map served to newcomers is the tree's when no change is pending,      *)
(* unless a destruction overlapped its making.                               *)
THEOREM AlwaysServedCurrent == Spec => []ServedMapCurrent
<1>1. IInv => ServedMapCurrent
  BY DEF IInv
<1>. QED
  BY <1>1, IInvAlways, PTL

-----------------------------------------------------------------------------
(* The frames on the sockets.                                              *)

(* What a thread's job, a unit and readFramed's place are made of. *)
Kind == Kinds \cup {"none"}
About == Clients \cup {Nobody, Main}
JobType == [kind : Kind, about : About, todo : SUBSET Clients,
            to : Clients \cup {Nobody}, part : Nat]
UnitType == [kind : Kind, about : About, part : Nat]
ReaderType == [left : 0..KickSize, kind : Kind \cup {"ended", "deaf"}, about : About]
FrameTypes ==
    /\ registered \subseteq Clients /\ served \subseteq Clients
    /\ mutex \in Threads \cup {Nobody}
    /\ job \in [Threads -> JobType]
    /\ pipe \in [Clients -> Seq(UnitType)]
    /\ \A c \in Clients : Len(pipe[c]) <= Room
    /\ closed \subseteq Clients /\ away \subseteq Clients
    /\ reader \in [Clients -> ReaderType]
    /\ kicked \subseteq Clients /\ garbled \subseteq Clients

(* Which thread writes what, and to whom. *)
OwnWork ==
    /\ job[Accept].kind \in {"none", "hello", "joined"}
    /\ job[Main].kind \in {"none", "kickAll"}
    /\ \A c \in Clients : job[c].kind \in {"none", "kick", "left"}
    /\ \A t \in Threads :
          /\ job[t].kind \notin Locking => job[t].todo = {}
          /\ job[t].kind = "none" => job[t].to = Nobody
    /\ \A c \in Clients : job[c].kind = "kick" => job[c].to = c /\ c \in kicked /\ c \in registered
    /\ job[Accept].kind = "hello" =>
          /\ job[Accept].about \in Clients /\ job[Accept].to = job[Accept].about
          /\ job[Accept].part <= Size("hello") => job[Accept].about \notin registered

(* A broadcast runs under the mutex and reaches registered clients. *)
UnderMutex ==
    \A t \in Threads : job[t].kind \in Locking /\ (job[t].to # Nobody \/ job[t].todo # {}) =>
        /\ mutex = t
        /\ job[t].todo \subseteq registered /\ job[t].to \in registered \cup {Nobody}

(* A newcomer is known to the accept thread alone. *)
Newcomers ==
    \A c \in Clients :
        /\ c \in registered => c \in served
        /\ c \notin served => job[c] = Resting /\ pipe[c] = <<>>
        /\ job[Accept].about = c => job[c] = Resting /\ c \in served
        /\ job[Accept].kind = "hello" /\ job[Accept].to = c /\ job[Accept].part <= Size("hello") =>
              \A i \in 1..Len(pipe[c]) : pipe[c][i].kind = "hello"

(* What is to come after a unit, as readFramed's place in a frame; whether a
   unit is what a place expects; and what comes after all that was written. *)
Rest(u) == [left |-> Size(u.kind) - u.part, kind |-> u.kind, about |-> u.about]
Opens(r, u) == IF r.left = 0 THEN u.part = 0
               ELSE u.kind = r.kind /\ u.about = r.about /\ u.part = Size(r.kind) + 1 - r.left
Expect(c) == IF pipe[c] = <<>> THEN reader[c] ELSE Rest(pipe[c][Len(pipe[c])])

(* Clients that still read and were not kicked: what is on its way to them are
   whole frames, the last of which some thread may be writing. *)
Live(c) == Listens(c) /\ c \notin away /\ c \notin kicked
Amid(t, c) == job[t].to = c /\ 0 < job[t].part /\ job[t].part <= Size(job[t].kind)
WholeFrames(c) ==
    /\ pipe[c] # <<>> => Opens(reader[c], pipe[c][1])
    /\ \A i \in 1 .. Len(pipe[c]) - 1 : Opens(Rest(pipe[c][i]), pipe[c][i + 1])
OneWriter(c) ==
    ~Broken(c) =>
        /\ \A t \in Threads : Amid(t, c) =>
              Expect(c) = [left |-> Size(job[t].kind) + 1 - job[t].part,
                           kind |-> job[t].kind, about |-> job[t].about]
        /\ (\A t \in Threads : ~Amid(t, c)) => Expect(c).left = 0
Streams == \A c \in Clients : Live(c) => WholeFrames(c) /\ OneWriter(c)

FramesInv == FrameTypes /\ OwnWork /\ UnderMutex /\ Newcomers /\ Streams /\ ReadsWhole

-----------------------------------------------------------------------------
(* Jobs. *)

LEMMA KindTypes ==
    /\ Locking \subseteq Kinds /\ Kinds \subseteq Kind
    /\ "none" \in Kind /\ "none" \notin Locking
  BY DEF Locking, Kinds, Kind

LEMMA SizeType == \A k : Size(k) \in Nat /\ Size(k) >= 1 /\ Size(k) <= KickSize
  BY FramesAssumption DEF Size

LEMMA RestingIs ==
    /\ Resting \in JobType /\ Resting.kind = "none" /\ Resting.to = Nobody /\ Resting.todo = {}
    /\ Resting.part = 0 /\ Resting.about = Nobody
  BY KindTypes DEF Resting, JobType, About

LEMMA JobIs ==
    ASSUME NEW k \in Kind, NEW a \in About
    PROVE  /\ Job(k, a) \in JobType /\ Job(k, a).kind = k /\ Job(k, a).about = a
           /\ Job(k, a).todo = {} /\ Job(k, a).to = Nobody /\ Job(k, a).part = 0
<1>1. Job(k, a) = [kind |-> k, about |-> a, todo |-> {}, to |-> Nobody, part |-> 0]
  <2>1. Resting = [kind |-> "none", about |-> Nobody, todo |-> {}, to |-> Nobody, part |-> 0]
    BY DEF Resting
  <2>. DEFINE r == Resting
  <2>2. DOMAIN r = {"kind", "about", "todo", "to", "part"}
    BY <2>1
  <2>3. [r EXCEPT !.kind = k, !.about = a]
           = [z \in DOMAIN r |-> IF z = "about" THEN a ELSE IF z = "kind" THEN k ELSE r[z]]
    OBVIOUS
  <2>4. Job(k, a) = [z \in {"kind", "about", "todo", "to", "part"} |->
                        IF z = "about" THEN a ELSE IF z = "kind" THEN k ELSE r[z]]
    BY <2>2, <2>3 DEF Job
  <2>5. r.todo = {} /\ r.to = Nobody /\ r.part = 0
    BY <2>1
  <2>. HIDE DEF r
  <2>. QED
    BY <2>4, <2>5
<1>. QED
  BY <1>1 DEF JobType

LEMMA UnlockedIs ==
    ASSUME NEW k \in Kind, NEW c \in Clients
    PROVE  /\ Unlocked(k, c) \in JobType /\ Unlocked(k, c).kind = k /\ Unlocked(k, c).about = c
           /\ Unlocked(k, c).todo = {} /\ Unlocked(k, c).to = c /\ Unlocked(k, c).part = 0
<1>1. Unlocked(k, c) = [kind |-> k, about |-> c, todo |-> {}, to |-> c, part |-> 0]
  <2>1. Job(k, c) = [kind |-> k, about |-> c, todo |-> {}, to |-> Nobody, part |-> 0]
    BY JobIs DEF JobType, About
  <2>2. \A r : r = [kind |-> k, about |-> c, todo |-> {}, to |-> Nobody, part |-> 0]
            => [r EXCEPT !.to = c] = [kind |-> k, about |-> c, todo |-> {}, to |-> c, part |-> 0]
    OBVIOUS
  <2>. QED
    BY <2>1, <2>2 DEF Unlocked
<1>. QED
  BY <1>1 DEF JobType, About

LEMMA AfterIs ==
    \A t : /\ After(t) \in JobType /\ After(t).kind = "none" /\ After(t).todo = {}
           /\ After(t).to = Nobody /\ After(t).part = 0 /\ After(t).about \in {Nobody, Main}
  BY RestingIs, JobIs, KindTypes DEF After, About

(* One thread's job changes. *)
LEMMA JobSet ==
    ASSUME job \in [Threads -> JobType], NEW t \in Threads, NEW j \in JobType,
           job' = [job EXCEPT ![t] = j]
    PROVE  /\ job' \in [Threads -> JobType] /\ job'[t] = j
           /\ \A u \in Threads \ {t} : job'[u] = job[u]
  OBVIOUS

LEMMA JobFields ==
    ASSUME job \in [Threads -> JobType], NEW t \in Threads
    PROVE  /\ job[t] \in JobType /\ job[t].kind \in Kind /\ job[t].about \in About
           /\ job[t].todo \in SUBSET Clients /\ job[t].to \in Clients \cup {Nobody}
           /\ job[t].part \in Nat
           /\ job[t] = [kind |-> job[t].kind, about |-> job[t].about, todo |-> job[t].todo,
                        to |-> job[t].to, part |-> job[t].part]
  BY DEF JobType

(* The three ways in which a broadcast changes its thread's job. *)
OnlyIn(f, g, t) ==
    /\ g \in [Threads -> JobType] /\ \A u \in Threads \ {t} : g[u] = f[u]
    /\ g[t].kind = f[t].kind /\ g[t].about = f[t].about

Started(f, t, S) == [f EXCEPT ![t] = [@ EXCEPT !.todo = S]]
Going(f, t, c) == [f EXCEPT ![t].to = c, ![t].todo = @ \ {c}, ![t].part = 0]
Counted(f, t) == [f EXCEPT ![t].part = @ + 1]
LetGo(f, t) == [f EXCEPT ![t].to = Nobody, ![t].part = 0]

LEMMA JobStarts ==
    ASSUME NEW f \in [Threads -> JobType], NEW t \in Threads, NEW S \in SUBSET Clients,
           f[t].to = Nobody, f[t].part = 0
    PROVE  /\ OnlyIn(f, Started(f, t, S), t) /\ Started(f, t, S)[t].todo = S
           /\ Started(f, t, S)[t].to = Nobody /\ Started(f, t, S)[t].part = 0
  BY DEF JobType, OnlyIn, Started

LEMMA JobGoesOn ==
    ASSUME NEW f \in [Threads -> JobType], NEW t \in Threads, NEW c \in Clients
    PROVE  /\ OnlyIn(f, Going(f, t, c), t) /\ Going(f, t, c)[t].todo = f[t].todo \ {c}
           /\ Going(f, t, c)[t].to = c /\ Going(f, t, c)[t].part = 0
  BY DEF JobType, OnlyIn, Going

LEMMA JobCounts ==
    ASSUME NEW f \in [Threads -> JobType], NEW t \in Threads
    PROVE  /\ OnlyIn(f, Counted(f, t), t) /\ Counted(f, t)[t].todo = f[t].todo
           /\ Counted(f, t)[t].to = f[t].to /\ Counted(f, t)[t].part = f[t].part + 1
  BY DEF JobType, OnlyIn, Counted

LEMMA JobLetsGo ==
    ASSUME NEW f \in [Threads -> JobType], NEW t \in Threads
    PROVE  /\ OnlyIn(f, LetGo(f, t), t) /\ LetGo(f, t)[t].todo = f[t].todo
           /\ LetGo(f, t)[t].to = Nobody /\ LetGo(f, t)[t].part = 0
  BY DEF JobType, OnlyIn, LetGo

Others(t) == \A u \in Threads \ {t} : job'[u] = job[u]
SameWork(t) == job'[t].kind = job[t].kind /\ job'[t].about = job[t].about

LEMMA TakesLock ==
    ASSUME FrameTypes, NEW t \in Threads, TakeLock(t)
    PROVE  /\ job[t].kind \in Locking /\ job[t].todo = {} /\ job[t].to = Nobody /\ mutex = Nobody
           /\ job' \in [Threads -> JobType] /\ Others(t)
           /\ \/ mutex' = mutex /\ job'[t] = After(t)
              \/ /\ mutex' = t /\ SameWork(t) /\ job'[t].todo = registered
                 /\ job'[t].to = Nobody /\ job'[t].part = 0
           /\ UNCHANGED <<registered, served, closed, pipe, clients, kicked>>
<1>1. CASE registered = {}
  <2>1. job' = [job EXCEPT ![t] = After(t)] /\ mutex' = mutex
    BY <1>1 DEF TakeLock
  <2>2. job' \in [Threads -> JobType] /\ job'[t] = After(t) /\ Others(t)
    BY <2>1, JobSet, AfterIs DEF Others, FrameTypes
  <2>. QED
    BY <2>1, <2>2 DEF TakeLock, Free
<1>2. CASE registered # {}
  <2>1. job' = [job EXCEPT ![t] = [@ EXCEPT !.todo = registered]] /\ mutex' = t
    BY <1>2 DEF TakeLock
  <2>2. /\ job \in [Threads -> JobType] /\ job[t].to = Nobody /\ job[t].part = 0
        /\ registered \in SUBSET Clients
    BY DEF TakeLock, FrameTypes
  <2>3. job' = Started(job, t, registered)
    BY <2>1 DEF Started
  <2>4. OnlyIn(job, job', t) /\ job'[t].todo = registered /\ job'[t].to = Nobody /\ job'[t].part = 0
    BY <2>2, <2>3, JobStarts
  <2>. QED
    BY <2>1, <2>4 DEF TakeLock, Free, Others, SameWork, OnlyIn
<1>. QED
  BY <1>1, <1>2

LEMMA GoesOn ==
    ASSUME FrameTypes, NEW t \in Threads, NextClient(t)
    PROVE  \E c \in job[t].todo :
              /\ job[t].to = Nobody /\ job' \in [Threads -> JobType] /\ Others(t) /\ SameWork(t)
              /\ job'[t].todo = job[t].todo \ {c} /\ job'[t].to = c /\ job'[t].part = 0
              /\ c \in Clients
              /\ UNCHANGED <<registered, mutex, served, closed, pipe, clients, kicked>>
<1>1. PICK c \in job[t].todo :
         /\ job[t].to = Nobody
         /\ job' = [job EXCEPT ![t].to = c, ![t].todo = @ \ {c}, ![t].part = 0]
         /\ UNCHANGED <<registered, mutex, served, closed, pipe, clients, kicked>>
  BY DEF NextClient
<1>2. c \in Clients /\ job \in [Threads -> JobType]
  BY JobFields DEF FrameTypes
<1>3. job' = Going(job, t, c)
  BY <1>1 DEF Going
<1>4. OnlyIn(job, job', t) /\ job'[t].todo = job[t].todo \ {c} /\ job'[t].to = c /\ job'[t].part = 0
  BY <1>2, <1>3, JobGoesOn
<1>. QED
  BY <1>1, <1>2, <1>4 DEF Others, SameWork, OnlyIn

LEMMA Writes ==
    ASSUME FrameTypes, NEW t \in Threads, WriteUnit(t)
    PROVE  /\ job[t].to \in Clients /\ job[t].part <= Size(job[t].kind) /\ ~Broken(job[t].to)
           /\ job' \in [Threads -> JobType] /\ Others(t) /\ SameWork(t)
           /\ job'[t].todo = job[t].todo /\ job'[t].to = job[t].to
           /\ job'[t].part = job[t].part + 1
           /\ Len(pipe[job[t].to]) < Room
           /\ pipe' = [pipe EXCEPT ![job[t].to] = Append(@, Unit(job[t]))]
           /\ Unit(job[t]) \in UnitType
           /\ UNCHANGED <<registered, mutex, served, closed, clients, kicked>>
<1>1. /\ job[t].to # Nobody /\ job[t].part <= Size(job[t].kind) /\ ~Broken(job[t].to)
      /\ Len(pipe[job[t].to]) < Room
      /\ pipe' = [pipe EXCEPT ![job[t].to] = Append(@, Unit(job[t]))]
      /\ job' = [job EXCEPT ![t].part = @ + 1]
      /\ UNCHANGED <<registered, mutex, served, closed, clients, kicked>>
  BY DEF WriteUnit
<1>2. Unit(job[t]) \in UnitType /\ job[t].to \in Clients /\ job \in [Threads -> JobType]
  BY <1>1, JobFields DEF JobType, FrameTypes, Unit, UnitType
<1>3. job' = Counted(job, t)
  BY <1>1 DEF Counted
<1>4. /\ OnlyIn(job, job', t) /\ job'[t].todo = job[t].todo /\ job'[t].to = job[t].to
      /\ job'[t].part = job[t].part + 1
  BY <1>2, <1>3, JobCounts
<1>. QED
  BY <1>1, <1>2, <1>4 DEF Others, SameWork, OnlyIn

LEMMA FrameIsOut ==
    ASSUME FrameTypes, NEW t \in Threads, FrameOut(t)
    PROVE  /\ job[t].kind \in Locking /\ job[t].to \in Clients
           /\ Broken(job[t].to) \/ job[t].part > Size(job[t].kind)
           /\ job' \in [Threads -> JobType] /\ Others(t)
           /\ closed \subseteq closed' /\ closed' \subseteq Clients
           /\ job'[t].to = Nobody
           /\ \/ mutex' = Nobody /\ job[t].todo = {} /\ job'[t] = After(t)
              \/ /\ mutex' = mutex /\ SameWork(t) /\ job'[t].todo = job[t].todo
                 /\ job'[t].part = 0
           /\ UNCHANGED <<registered, served, pipe, clients, kicked>>
<1>1. /\ job[t].kind \in Locking /\ job[t].to # Nobody
      /\ Broken(job[t].to) \/ job[t].part > Size(job[t].kind)
      /\ closed' = IF job[t].kind = "kickAll" THEN closed \cup {job[t].to} ELSE closed
      /\ UNCHANGED <<registered, served, pipe, clients, kicked>>
  BY DEF FrameOut, Written
<1>2. job[t].to \in Clients /\ closed \subseteq closed' /\ closed' \subseteq Clients
  BY <1>1, JobFields DEF FrameTypes
<1>3. CASE job[t].todo = {}
  <2>1. mutex' = Nobody /\ job' = [job EXCEPT ![t] = After(t)]
    BY <1>3 DEF FrameOut
  <2>2. job' \in [Threads -> JobType] /\ job'[t] = After(t) /\ Others(t)
    BY <2>1, JobSet, AfterIs DEF Others, FrameTypes
  <2>. QED
    BY <1>1, <1>2, <1>3, <2>1, <2>2, AfterIs
<1>4. CASE job[t].todo # {}
  <2>1. mutex' = mutex /\ job' = [job EXCEPT ![t].to = Nobody, ![t].part = 0]
    BY <1>4 DEF FrameOut
  <2>2. job' = LetGo(job, t)
    BY <2>1 DEF LetGo
  <2>3. OnlyIn(job, job', t) /\ job'[t].todo = job[t].todo /\ job'[t].to = Nobody
           /\ job'[t].part = 0
    BY <2>2, JobLetsGo DEF FrameTypes
  <2>. QED
    BY <1>1, <1>2, <2>1, <2>3 DEF SameWork, Others, OnlyIn
<1>. QED
  BY <1>3, <1>4

(* What the accept thread, the main thread and the clients' threads do. *)
LEMMA HandshakeBegins ==
    ASSUME FrameTypes, NEW c \in Clients, BeginHandshake(c)
    PROVE  /\ job[Accept] = Resting /\ c \notin served /\ served' = served \cup {c}
           /\ job' \in [Threads -> JobType] /\ Others(Accept)
           /\ job'[Accept].kind = "hello" /\ job'[Accept].about = c /\ job'[Accept].to = c
           /\ job'[Accept].todo = {} /\ job'[Accept].part = 0
           /\ UNCHANGED <<registered, mutex, closed, pipe, clients, kicked>>
<1>1. /\ job[Accept] = Resting /\ c \notin served /\ served' = served \cup {c}
      /\ job' = [job EXCEPT ![Accept] = Unlocked("hello", c)]
      /\ UNCHANGED <<registered, mutex, closed, pipe, clients, kicked>>
  BY DEF BeginHandshake, Idle
<1>2. /\ "hello" \in Kind /\ Accept \in Threads
      /\ job \in [Threads -> JobType]
  BY DEF Kind, Kinds, Threads, FrameTypes
<1>3. /\ Unlocked("hello", c) \in JobType /\ Unlocked("hello", c).kind = "hello"
      /\ Unlocked("hello", c).about = c /\ Unlocked("hello", c).to = c
      /\ Unlocked("hello", c).todo = {} /\ Unlocked("hello", c).part = 0
  BY <1>2, UnlockedIs
<1>. QED
  BY <1>1, <1>2, <1>3, JobSet DEF Others

LEMMA KickBegins ==
    ASSUME FrameTypes, NEW c \in Clients, BeginKick(c)
    PROVE  /\ job[c] = Resting /\ c \in registered /\ job[Accept].about # c
           /\ kicked' = kicked \cup {c}
           /\ job' \in [Threads -> JobType] /\ Others(c)
           /\ job'[c].kind = "kick" /\ job'[c].about = c /\ job'[c].to = c
           /\ job'[c].todo = {} /\ job'[c].part = 0
           /\ UNCHANGED <<registered, mutex, served, closed, pipe, clients>>
<1>1. /\ job[c] = Resting /\ c \in registered /\ job[Accept].about # c
      /\ kicked' = kicked \cup {c}
      /\ job' = [job EXCEPT ![c] = Unlocked("kick", c)]
      /\ UNCHANGED <<registered, mutex, served, closed, pipe, clients>>
  BY DEF BeginKick, Handled, Idle
<1>2. "kick" \in Kind /\ c \in Threads /\ job \in [Threads -> JobType]
  BY DEF Kind, Kinds, Threads, FrameTypes
<1>3. /\ Unlocked("kick", c) \in JobType /\ Unlocked("kick", c).kind = "kick"
      /\ Unlocked("kick", c).about = c /\ Unlocked("kick", c).to = c
      /\ Unlocked("kick", c).todo = {} /\ Unlocked("kick", c).part = 0
  BY <1>2, UnlockedIs
<1>. QED
  BY <1>1, <1>2, <1>3, JobSet DEF Others

LEMMA Announces ==
    ASSUME FrameTypes, NEW c \in Clients, Announce(c)
    PROVE  /\ job[Accept].kind = "hello" /\ job[Accept].about = c
           /\ Broken(c) \/ Broken(job[Accept].to) \/ job[Accept].part > Size("hello")
           /\ job' \in [Threads -> JobType] /\ Others(Accept)
           /\ \/ job'[Accept].kind = "joined" /\ job'[Accept].about = c
              \/ job'[Accept].kind = "none" /\ job'[Accept].about = Nobody
           /\ job'[Accept].to = Nobody /\ job'[Accept].todo = {} /\ job'[Accept].part = 0
           /\ closed \subseteq closed' /\ closed' \subseteq Clients
           /\ UNCHANGED <<registered, mutex, served, pipe, clients, kicked>>
<1>1. /\ "joined" \in Kind /\ Accept \in Threads /\ c \in About
      /\ job \in [Threads -> JobType] /\ closed \subseteq Clients
  BY DEF Kind, Kinds, Threads, FrameTypes, About
<1>2. CASE /\ job' = [job EXCEPT ![Accept] = Job("joined", c)] /\ closed' = closed
           /\ Written(Accept)
  <2>1. /\ Job("joined", c) \in JobType /\ Job("joined", c).kind = "joined"
        /\ Job("joined", c).about = c /\ Job("joined", c).to = Nobody
        /\ Job("joined", c).todo = {} /\ Job("joined", c).part = 0
    BY <1>1, JobIs
  <2>2. job' \in [Threads -> JobType] /\ job'[Accept] = Job("joined", c) /\ Others(Accept)
    BY <1>1, <1>2, <2>1, JobSet DEF Others
  <2>3. Broken(job[Accept].to) \/ job[Accept].part > Size("hello")
    BY <1>2 DEF Announce, Written
  <2>. QED
    BY <1>1, <1>2, <2>1, <2>2, <2>3 DEF Announce
<1>3. CASE /\ Broken(c)
           /\ job' = [job EXCEPT ![Accept] = Resting] /\ closed' = closed \cup {c}
  <2>1. job' \in [Threads -> JobType] /\ job'[Accept] = Resting /\ Others(Accept)
    BY <1>1, <1>3, RestingIs, JobSet DEF Others
  <2>. QED
    BY <1>1, <1>3, <2>1, RestingIs DEF Announce, Broken
<1>. QED
  BY <1>2, <1>3 DEF Announce

LEMMA HandlerIsClosing ==
    ASSUME FrameTypes, NEW c \in Clients, HandlerCloses(c)
    PROVE  /\ job[c].kind = "kick" \/ (job[c] = Resting /\ job[Accept].about # c)
           /\ closed' = closed \cup {c}
           /\ job' \in [Threads -> JobType] /\ Others(c)
           /\ job'[c].kind = "left" /\ job'[c].to = Nobody /\ job'[c].todo = {}
           /\ UNCHANGED <<registered, mutex, served, pipe, clients, kicked>>
<1>1. "left" \in Kind /\ c \in About /\ c \in Threads /\ job \in [Threads -> JobType]
  BY DEF Kind, Kinds, Threads, FrameTypes, About
<1>2. \A j \in JobType : /\ [j EXCEPT !.part = 9] \in JobType /\ [j EXCEPT !.part = 9].kind = j.kind
                         /\ [j EXCEPT !.part = 9].to = j.to /\ [j EXCEPT !.part = 9].todo = j.todo
  BY DEF JobType
<1>. DEFINE j == [Job("left", c) EXCEPT !.part = 9]
<1>3. j \in JobType /\ j.kind = "left" /\ j.to = Nobody /\ j.todo = {}
  <2>1. /\ Job("left", c) \in JobType /\ Job("left", c).kind = "left"
        /\ Job("left", c).to = Nobody /\ Job("left", c).todo = {}
    BY <1>1, JobIs
  <2>. QED
    BY <1>2, <2>1
<1>4. job' = [job EXCEPT ![c] = j]
  BY DEF HandlerCloses
<1>5. job' \in [Threads -> JobType] /\ job'[c] = j /\ Others(c)
  <2>. HIDE DEF j
  <2>. QED
    BY <1>1, <1>3, <1>4, JobSet DEF Others
<1>. HIDE DEF j
<1>. QED
  BY <1>3, <1>5 DEF HandlerCloses, Handled, Idle, ClosedAfter

LEMMA HandlerIsErasing ==
    ASSUME FrameTypes, NEW c \in Clients, HandlerErases(c)
    PROVE  /\ job[c].kind = "left" /\ mutex = Nobody /\ registered' = registered \ {c}
           /\ job' \in [Threads -> JobType] /\ Others(c)
           /\ job'[c].kind = "left" /\ job'[c].to = Nobody /\ job'[c].todo = {}
           /\ UNCHANGED <<mutex, served, closed, pipe, clients, kicked>>
<1>1. "left" \in Kind /\ c \in About /\ c \in Threads /\ job \in [Threads -> JobType]
  BY DEF Kind, Kinds, Threads, FrameTypes, About
<1>2. /\ Job("left", c) \in JobType /\ Job("left", c).kind = "left"
      /\ Job("left", c).to = Nobody /\ Job("left", c).todo = {}
  BY <1>1, JobIs
<1>3. job' = [job EXCEPT ![c] = Job("left", c)]
  BY DEF HandlerErases
<1>4. job' \in [Threads -> JobType] /\ job'[c] = Job("left", c) /\ Others(c)
  BY <1>1, <1>2, <1>3, JobSet DEF Others
<1>. QED
  BY <1>2, <1>4 DEF HandlerErases

LEMMA KickAllBegins ==
    ASSUME FrameTypes, BeginKickAll
    PROVE  /\ job[Main] = Resting
           /\ job' \in [Threads -> JobType] /\ Others(Main)
           /\ job'[Main].kind = "kickAll" /\ job'[Main].to = Nobody /\ job'[Main].todo = {}
           /\ UNCHANGED <<registered, mutex, served, closed, pipe, clients, kicked>>
<1>1. "kickAll" \in Kind /\ Main \in About /\ Main \in Threads /\ job \in [Threads -> JobType]
  BY DEF Kind, Kinds, Threads, FrameTypes, About
<1>2. /\ Job("kickAll", Main) \in JobType /\ Job("kickAll", Main).kind = "kickAll"
      /\ Job("kickAll", Main).to = Nobody /\ Job("kickAll", Main).todo = {}
  BY <1>1, JobIs
<1>3. job[Main] = Resting /\ job' = [job EXCEPT ![Main] = Job("kickAll", Main)]
  BY DEF BeginKickAll, Idle
<1>4. job' \in [Threads -> JobType] /\ job'[Main] = Job("kickAll", Main) /\ Others(Main)
  BY <1>1, <1>2, <1>3, JobSet DEF Others
<1>. QED
  BY <1>2, <1>3, <1>4 DEF BeginKickAll

-----------------------------------------------------------------------------
(* Who writes what, and under which lock. *)

Books == FrameTypes /\ OwnWork /\ UnderMutex /\ Newcomers

LEMMA ThreadNames ==
    /\ Accept \in Threads /\ Main \in Threads /\ Clients \subseteq Threads
    /\ Accept \notin Clients /\ Main \notin Clients /\ Accept # Main /\ Nobody \notin Threads
    /\ \A t \in Threads : t = Accept \/ t = Main \/ t \in Clients
  BY FramesAssumption DEF Threads

LEMMA Receivers ==
    ASSUME Books, NEW t \in Threads, job[t].to # Nobody
    PROVE  \/ job[t].to \in registered /\ job[t].kind \in Locking /\ mutex = t
           \/ /\ job[t].to \in served /\ t = Accept
              /\ job[t].kind = "hello" /\ job[t].about = job[t].to
           \/ job[t].to = t /\ t \in kicked /\ t \in registered /\ job[t].kind = "kick"
<1>1. job[t].kind # "none"
  BY DEF Books, OwnWork
<1>2. CASE job[t].kind \in Locking
  BY <1>2 DEF Books, UnderMutex
<1>3. CASE job[t].kind = "hello"
  <2>1. t = Accept
    BY <1>3, ThreadNames DEF Books, OwnWork
  <2>2. job[Accept].about \in Clients /\ job[Accept].to = job[Accept].about
    BY <1>3, <2>1 DEF Books, OwnWork
  <2>. QED
    BY <1>3, <2>1, <2>2 DEF Books, Newcomers
<1>4. CASE job[t].kind = "kick"
  BY <1>4, ThreadNames DEF Books, OwnWork
<1>. QED
  BY <1>1, <1>2, <1>3, <1>4, ThreadNames DEF Books, OwnWork, Locking

LEMMA ReceiversServed ==
    ASSUME Books, NEW t \in Threads, job[t].to # Nobody
    PROVE  job[t].to \in served
  BY Receivers, JobFields DEF Books, Newcomers, FrameTypes

LEMMA OneAtATime ==
    ASSUME Books, NEW t \in Threads, NEW u \in Threads, NEW c \in Clients, c \notin kicked,
           job[t].to = c, job[u].to = c,
           job[t].part <= Size(job[t].kind), job[u].part <= Size(job[u].kind)
    PROVE  t = u
<1>1. c # Nobody
  BY ThreadNames
<1>2. \A v \in {t, u} : (c \in registered /\ mutex = v) \/ (c \notin registered /\ v = Accept)
  <2>. SUFFICES ASSUME NEW v \in {t, u}
                PROVE  (c \in registered /\ mutex = v) \/ (c \notin registered /\ v = Accept)
    OBVIOUS
  <2>1. job[v].to = c /\ job[v].part <= Size(job[v].kind) /\ v \in Threads
    OBVIOUS
  <2>2. v = Accept /\ job[v].kind = "hello" /\ job[v].about = c => c \notin registered
    BY <2>1 DEF Books, OwnWork
  <2>. QED
    BY <1>1, <2>1, <2>2, Receivers
<1>. QED
  BY <1>2

(* A step in which the only job that changes is t's, and keeps its kind. *)
LEMMA LockTaken ==
    ASSUME Books, NEW t \in Threads, TakeLock(t)
    PROVE  FrameTypes' /\ OwnWork' /\ UnderMutex' /\ Newcomers'
<1>. DEFINE Effect ==
        /\ job[t].kind \in Locking /\ job[t].todo = {} /\ job[t].to = Nobody /\ mutex = Nobody
        /\ job' \in [Threads -> JobType] /\ Others(t)
        /\ \/ mutex' = mutex /\ job'[t] = After(t)
           \/ /\ mutex' = t /\ SameWork(t) /\ job'[t].todo = registered
              /\ job'[t].to = Nobody /\ job'[t].part = 0
        /\ UNCHANGED <<registered, served, closed, pipe, clients, kicked>>
<1>1. Effect
  BY TakesLock DEF Books
<1>2. FrameTypes'
  BY <1>1 DEF Books, FrameTypes, clients
<1>3. \A u \in Threads : job[u].kind \notin Locking \/ (job[u].to = Nobody /\ job[u].todo = {})
  BY <1>1, ThreadNames DEF Books, UnderMutex
<1>4. job'[t].kind \in {"none", job[t].kind} /\ job'[t].to = Nobody
      /\ (job'[t].kind \notin Locking => job'[t].todo = {})
  BY <1>1, AfterIs DEF SameWork
<1>5. job'[t].about \in {Nobody, Main, job[t].about}
  BY <1>1, AfterIs DEF SameWork
<1>6. OwnWork'
  BY <1>1, <1>4, <1>5, ThreadNames DEF Books, OwnWork, Others, Locking
<1>7. UnderMutex'
  BY <1>1, <1>3, <1>4, AfterIs, KindTypes DEF UnderMutex, Others
<1>8. Newcomers'
  <2>1. job[t] # Resting
    BY <1>1, RestingIs, KindTypes
  <2>2. \A c \in Clients : job[c] = Resting => job'[c] = Resting
    BY <1>1, <2>1, ThreadNames DEF Others
  <2>3. \A c \in Clients : job'[Accept].about = c => job[Accept].about = c
    BY <1>1, <1>5, ThreadNames DEF Others
  <2>4. job'[Accept].to # Nobody => job'[Accept] = job[Accept]
    BY <1>1, <1>4, ThreadNames DEF Others
  <2>. QED
    BY <1>1, <2>2, <2>3, <2>4, ThreadNames DEF Books, Newcomers
<1>. QED
  BY <1>2, <1>6, <1>7, <1>8

LEMMA ClientTaken ==
    ASSUME Books, NEW t \in Threads, NextClient(t)
    PROVE  FrameTypes' /\ OwnWork' /\ UnderMutex' /\ Newcomers'
<1>1. PICK c \in job[t].todo :
         /\ job[t].to = Nobody /\ job' \in [Threads -> JobType] /\ Others(t) /\ SameWork(t)
         /\ job'[t].todo = job[t].todo \ {c} /\ job'[t].to = c /\ job'[t].part = 0
         /\ c \in Clients
         /\ UNCHANGED <<registered, mutex, served, closed, pipe, clients, kicked>>
  BY GoesOn DEF Books
<1>2. FrameTypes'
  BY <1>1 DEF Books, FrameTypes, clients
<1>3. job[t].kind \in Locking /\ job[t].todo # {}
  BY <1>1 DEF Books, OwnWork
<1>4. c \in registered
  BY <1>1, <1>3 DEF Books, UnderMutex
<1>5. OwnWork'
  BY <1>1, <1>3, ThreadNames, KindTypes DEF Books, OwnWork, Others, SameWork, Locking
<1>6. UnderMutex'
  BY <1>1, <1>3, <1>4 DEF Books, UnderMutex, Others, SameWork
<1>7. Newcomers'
  <2>1. job[t] # Resting
    BY <1>3, RestingIs, KindTypes
  <2>2. \A d \in Clients : job[d] = Resting => job'[d] = Resting
    BY <1>1, <2>1, ThreadNames DEF Others
  <2>3. job'[Accept].about = job[Accept].about
    BY <1>1, ThreadNames DEF Others, SameWork
  <2>4. job'[Accept].kind = "hello" => job'[Accept] = job[Accept]
    BY <1>1, <1>3, ThreadNames DEF Others, SameWork, Locking
  <2>. QED
    BY <1>1, <2>2, <2>3, <2>4, ThreadNames DEF Books, Newcomers
<1>. QED
  BY <1>2, <1>5, <1>6, <1>7

LEMMA UnitWritten ==
    ASSUME Books, NEW t \in Threads, WriteUnit(t)
    PROVE  FrameTypes' /\ OwnWork' /\ UnderMutex' /\ Newcomers'
<1>. DEFINE c == job[t].to
            Effect ==
                /\ c \in Clients /\ job[t].part <= Size(job[t].kind) /\ ~Broken(c)
                /\ job' \in [Threads -> JobType] /\ Others(t) /\ SameWork(t)
                /\ job'[t].todo = job[t].todo /\ job'[t].to = c
                /\ job'[t].part = job[t].part + 1
                /\ Len(pipe[c]) < Room
                /\ pipe' = [pipe EXCEPT ![c] = Append(@, Unit(job[t]))]
                /\ Unit(job[t]) \in UnitType
                /\ UNCHANGED <<registered, mutex, served, closed, clients, kicked>>
<1>1. Effect
  BY Writes DEF Books
<1>2. FrameTypes'
  <2>1. pipe' \in [Clients -> Seq(UnitType)]
    BY <1>1 DEF Books, FrameTypes
  <2>2. \A d \in Clients : Len(pipe'[d]) <= Room
    <3>1. pipe[c] \in Seq(UnitType)
      BY <1>1 DEF Books, FrameTypes
    <3>2. Len(Append(pipe[c], Unit(job[t]))) = Len(pipe[c]) + 1 /\ Len(pipe[c]) \in Nat
      BY <1>1, <3>1
    <3>. QED
      BY <1>1, <3>2, FramesAssumption DEF Books, FrameTypes
  <2>. QED
    BY <1>1, <2>1, <2>2 DEF Books, FrameTypes, clients
<1>3. job[t].kind # "none" /\ c # Nobody /\ c \in served
  BY <1>1, ReceiversServed, ThreadNames DEF Books, OwnWork
<1>4. job[t].part \in Nat /\ job'[t].part \in Nat
  BY <1>1, JobFields DEF Books, FrameTypes
<1>5. OwnWork'
  <2>1. /\ job'[Accept].kind \in {"none", "hello", "joined"}
        /\ job'[Main].kind \in {"none", "kickAll"}
        /\ \A d \in Clients : job'[d].kind \in {"none", "kick", "left"}
    BY <1>1, ThreadNames DEF Books, OwnWork, Others, SameWork
  <2>2. \A u \in Threads : /\ job'[u].kind = job[u].kind /\ job'[u].todo = job[u].todo
                           /\ job'[u].to = job[u].to /\ job'[u].about = job[u].about
    BY <1>1 DEF Others, SameWork
  <2>3. job'[Accept].part <= Size("hello") => job[Accept].part <= Size("hello")
    BY <1>1, <1>4, SizeType, ThreadNames DEF Others
  <2>. QED
    BY <1>1, <2>1, <2>2, <2>3, ThreadNames DEF Books, OwnWork
<1>6. UnderMutex'
  BY <1>1 DEF Books, UnderMutex, Others, SameWork
<1>7. Newcomers'
  <2>1. job[t] # Resting
    BY <1>3, RestingIs, KindTypes
  <2>2. \A d \in Clients : job[d] = Resting => job'[d] = Resting
    BY <1>1, <2>1, ThreadNames DEF Others
  <2>3. job'[Accept].about = job[Accept].about /\ job'[Accept].kind = job[Accept].kind
        /\ job'[Accept].to = job[Accept].to
    BY <1>1, ThreadNames DEF Others, SameWork
  <2>4. \A d \in Clients : d # c => pipe'[d] = pipe[d]
    BY <1>1 DEF Books, FrameTypes
  <2>5. ASSUME NEW d \in Clients, job'[Accept].kind = "hello", job'[Accept].to = d,
               job'[Accept].part <= Size("hello")
        PROVE  \A i \in 1..Len(pipe'[d]) : pipe'[d][i].kind = "hello"
    <3>1. job[Accept].part <= Size("hello")
      BY <1>1, <1>4, <2>5, SizeType, ThreadNames DEF Others
    <3>2. \A i \in 1..Len(pipe[d]) : pipe[d][i].kind = "hello"
      BY <2>3, <2>5, <3>1 DEF Books, Newcomers
    <3>3. CASE d # c
      BY <2>4, <3>2, <3>3
    <3>4. CASE d = c
      <4>1. c \notin registered /\ job[Accept].about = c
        BY <2>3, <2>5, <3>1, <3>4 DEF Books, OwnWork
      <4>2. job[c] = Resting
        BY <1>1, <4>1 DEF Books, Newcomers
      <4>3. t = Accept
        BY <1>3, <2>1, <4>1, <4>2, Receivers
      <4>4. Unit(job[t]).kind = "hello"
        BY <2>3, <2>5, <4>3 DEF Unit
      <4>5. pipe[c] \in Seq(UnitType) /\ pipe'[c] = Append(pipe[c], Unit(job[t]))
        BY <1>1 DEF Books, FrameTypes
      <4>6. \A i \in 1..Len(pipe'[c]) :
               pipe'[c][i] = IF i <= Len(pipe[c]) THEN pipe[c][i] ELSE Unit(job[t])
        BY <1>1, <4>5
      <4>. QED
        BY <3>2, <3>4, <4>4, <4>5, <4>6
    <3>. QED
      BY <3>3, <3>4
  <2>6. \A d \in Clients : d \notin served => pipe'[d] = <<>>
    BY <1>3, <2>4 DEF Books, Newcomers
  <2>. QED
    BY <1>1, <2>2, <2>3, <2>5, <2>6, ThreadNames DEF Books, Newcomers
<1>. QED
  BY <1>2, <1>5, <1>6, <1>7

LEMMA FrameWritten ==
    ASSUME Books, NEW t \in Threads, FrameOut(t)
    PROVE  FrameTypes' /\ OwnWork' /\ UnderMutex' /\ Newcomers'
<1>. DEFINE Effect ==
                /\ job[t].kind \in Locking /\ job[t].to \in Clients
                /\ job' \in [Threads -> JobType] /\ Others(t)
                /\ closed \subseteq closed' /\ closed' \subseteq Clients
                /\ job'[t].to = Nobody
                /\ \/ mutex' = Nobody /\ job[t].todo = {} /\ job'[t] = After(t)
                   \/ /\ mutex' = mutex /\ SameWork(t) /\ job'[t].todo = job[t].todo
                      /\ job'[t].part = 0
                /\ UNCHANGED <<registered, served, pipe, clients, kicked>>
<1>1. Effect
  BY FrameIsOut DEF Books
<1>2. mutex = t /\ job[t].to # Nobody
  BY <1>1, ThreadNames DEF Books, UnderMutex
<1>3. FrameTypes'
  BY <1>1 DEF Books, FrameTypes, clients
<1>4. /\ job'[t].kind \in {"none", job[t].kind} /\ (job'[t].kind \notin Locking
            => job'[t].todo = {})
      /\ job'[t].about \in {Nobody, Main, job[t].about}
  BY <1>1, AfterIs DEF SameWork
<1>5. OwnWork'
  BY <1>1, <1>4, ThreadNames DEF Books, OwnWork, Others, Locking
<1>6. \A u \in Threads \ {t} : job[u].kind \notin Locking \/ (job[u].to = Nobody
         /\ job[u].todo = {})
  BY <1>2 DEF Books, UnderMutex
<1>7. UnderMutex'
  BY <1>1, <1>2, <1>6, AfterIs, KindTypes DEF Books, UnderMutex, Others, SameWork
<1>8. Newcomers'
  <2>1. job[t] # Resting
    BY <1>1, RestingIs, KindTypes
  <2>2. \A c \in Clients : job[c] = Resting => job'[c] = Resting
    BY <1>1, <2>1, ThreadNames DEF Others
  <2>3. \A c \in Clients : job'[Accept].about = c => job[Accept].about = c
    BY <1>1, <1>4, ThreadNames DEF Others
  <2>4. job'[Accept].to # Nobody => job'[Accept] = job[Accept]
    BY <1>1, ThreadNames DEF Others
  <2>. QED
    BY <1>1, <2>2, <2>3, <2>4, ThreadNames DEF Books, Newcomers
<1>. QED
  BY <1>3, <1>5, <1>7, <1>8

LEMMA HandshakeBegun ==
    ASSUME Books, NEW c \in Clients, BeginHandshake(c)
    PROVE  FrameTypes' /\ OwnWork' /\ UnderMutex' /\ Newcomers'
<1>. DEFINE Effect ==
                /\ job[Accept] = Resting /\ c \notin served /\ served' = served \cup {c}
                /\ job' \in [Threads -> JobType] /\ Others(Accept)
                /\ job'[Accept].kind = "hello" /\ job'[Accept].about = c /\ job'[Accept].to = c
                /\ job'[Accept].todo = {} /\ job'[Accept].part = 0
                /\ UNCHANGED <<registered, mutex, closed, pipe, clients, kicked>>
<1>1. Effect
  BY HandshakeBegins DEF Books
<1>2. FrameTypes'
  BY <1>1 DEF Books, FrameTypes, clients
<1>3. c \notin registered /\ job[c] = Resting /\ pipe[c] = <<>>
  BY <1>1 DEF Books, Newcomers
<1>4. OwnWork'
  BY <1>1, <1>3, ThreadNames, KindTypes DEF Books, OwnWork, Others, Locking
<1>5. UnderMutex'
  BY <1>1 DEF Books, UnderMutex, Others, Locking
<1>6. Newcomers'
  BY <1>1, <1>3, ThreadNames DEF Books, Newcomers, Others
<1>. QED
  BY <1>2, <1>4, <1>5, <1>6

LEMMA ClientRegistered ==
    ASSUME Books, NEW c \in Clients, Register(c)
    PROVE  FrameTypes' /\ OwnWork' /\ UnderMutex' /\ Newcomers'
<1>1. /\ job[Accept].kind = "hello" /\ job[Accept].about = c
      /\ job[Accept].part > Size("hello")
      /\ registered' = registered \cup {c}
      /\ UNCHANGED <<mutex, job, served, closed, pipe, clients, kicked>>
  BY DEF Register, WhenWritten
<1>2. FrameTypes'
  BY <1>1 DEF Books, FrameTypes, clients
<1>3. job[Accept].part \in Nat
  BY JobFields, ThreadNames DEF Books, FrameTypes
<1>4. OwnWork'
  BY <1>1, <1>3, SizeType DEF Books, OwnWork
<1>5. UnderMutex'
  BY <1>1 DEF Books, UnderMutex
<1>6. Newcomers'
  BY <1>1 DEF Books, Newcomers
<1>. QED
  BY <1>2, <1>4, <1>5, <1>6

LEMMA ClientAnnounced ==
    ASSUME Books, NEW c \in Clients, Announce(c)
    PROVE  FrameTypes' /\ OwnWork' /\ UnderMutex' /\ Newcomers'
<1>. DEFINE Effect ==
           /\ job[Accept].kind = "hello" /\ job[Accept].about = c
           /\ job' \in [Threads -> JobType] /\ Others(Accept)
           /\ \/ job'[Accept].kind = "joined" /\ job'[Accept].about = c
              \/ job'[Accept].kind = "none" /\ job'[Accept].about = Nobody
           /\ job'[Accept].to = Nobody /\ job'[Accept].todo = {} /\ job'[Accept].part = 0
           /\ closed \subseteq closed' /\ closed' \subseteq Clients
           /\ UNCHANGED <<registered, mutex, served, pipe, clients, kicked>>
<1>1. Effect
  BY Announces DEF Books
<1>2. FrameTypes'
  BY <1>1 DEF Books, FrameTypes, clients
<1>4. OwnWork'
  BY <1>1, ThreadNames DEF Books, OwnWork, Others, Locking
<1>5. UnderMutex'
  BY <1>1 DEF Books, UnderMutex, Others
<1>6. Newcomers'
  <2>1. \A d \in Clients : job'[d] = job[d] /\ (job'[Accept].about = d => d = c)
    BY <1>1, ThreadNames DEF Others
  <2>. QED
    BY <1>1, <2>1, ThreadNames DEF Books, Newcomers
<1>. QED
  BY <1>2, <1>4, <1>5, <1>6

LEMMA KickBegun ==
    ASSUME Books, NEW c \in Clients, BeginKick(c)
    PROVE  FrameTypes' /\ OwnWork' /\ UnderMutex' /\ Newcomers'
<1>. DEFINE Effect ==
           /\ job[c] = Resting /\ c \in registered /\ job[Accept].about # c
           /\ kicked' = kicked \cup {c}
           /\ job' \in [Threads -> JobType] /\ Others(c)
           /\ job'[c].kind = "kick" /\ job'[c].about = c /\ job'[c].to = c
           /\ job'[c].todo = {} /\ job'[c].part = 0
           /\ UNCHANGED <<registered, mutex, served, closed, pipe, clients>>
<1>1. Effect
  BY KickBegins DEF Books
<1>2. FrameTypes'
  BY <1>1 DEF Books, FrameTypes, clients
<1>4. OwnWork'
  BY <1>1, ThreadNames, KindTypes DEF Books, OwnWork, Others, Locking
<1>5. UnderMutex'
  BY <1>1 DEF Books, UnderMutex, Others, Locking
<1>6. Newcomers'
  <2>1. c \in served /\ job'[Accept] = job[Accept]
    BY <1>1, ThreadNames DEF Books, Newcomers, Others
  <2>2. \A d \in Clients : d # c => job'[d] = job[d]
    BY <1>1, ThreadNames DEF Others
  <2>. QED
    BY <1>1, <2>1, <2>2 DEF Books, Newcomers
<1>. QED
  BY <1>2, <1>4, <1>5, <1>6

LEMMA HandlerClosed ==
    ASSUME Books, NEW c \in Clients, HandlerCloses(c)
    PROVE  FrameTypes' /\ OwnWork' /\ UnderMutex' /\ Newcomers'
<1>. DEFINE Effect ==
           /\ job[c].kind = "kick" \/ (job[c] = Resting /\ job[Accept].about # c)
           /\ closed' = closed \cup {c}
           /\ job' \in [Threads -> JobType] /\ Others(c)
           /\ job'[c].kind = "left" /\ job'[c].to = Nobody /\ job'[c].todo = {}
           /\ UNCHANGED <<registered, mutex, served, pipe, clients, kicked>>
<1>1. Effect
  BY HandlerIsClosing DEF Books
<1>2. FrameTypes'
  BY <1>1 DEF Books, FrameTypes, clients
<1>3. OwnWork'
  BY <1>1, ThreadNames, KindTypes DEF Books, OwnWork, Others, Locking
<1>4. UnderMutex'
  BY <1>1 DEF Books, UnderMutex, Others
<1>5. Newcomers'
  <2>1. c \in served
    BY DEF HandlerCloses, Books, Newcomers
  <2>2. job'[Accept] = job[Accept] /\ job[Accept].about # c
    BY <1>1, ThreadNames, RestingIs DEF Books, Newcomers, Others
  <2>3. \A d \in Clients : d # c => job'[d] = job[d]
    BY <1>1, ThreadNames DEF Others
  <2>. QED
    BY <1>1, <2>1, <2>2, <2>3 DEF Books, Newcomers
<1>. QED
  BY <1>2, <1>3, <1>4, <1>5

LEMMA HandlerErased ==
    ASSUME Books, NEW c \in Clients, HandlerErases(c)
    PROVE  FrameTypes' /\ OwnWork' /\ UnderMutex' /\ Newcomers'
<1>. DEFINE Effect ==
           /\ job[c].kind = "left" /\ mutex = Nobody /\ registered' = registered \ {c}
           /\ job' \in [Threads -> JobType] /\ Others(c)
           /\ job'[c].kind = "left" /\ job'[c].to = Nobody /\ job'[c].todo = {}
           /\ UNCHANGED <<mutex, served, closed, pipe, clients, kicked>>
<1>1. Effect
  BY HandlerIsErasing DEF Books
<1>2. FrameTypes'
  BY <1>1 DEF Books, FrameTypes, clients
<1>3. job[c] # Resting
  BY <1>1, RestingIs
<1>4. OwnWork'
  <2>1. \A d \in Clients : d # c => job'[d] = job[d] /\ (d \in registered => d \in registered')
    BY <1>1, ThreadNames DEF Others
  <2>2. job'[Accept] = job[Accept] /\ job'[Main] = job[Main]
    BY <1>1, ThreadNames DEF Others
  <2>. QED
    BY <1>1, <2>1, <2>2, ThreadNames, KindTypes DEF Books, OwnWork, Others, Locking
<1>5. \A t \in Threads : job[t].kind \notin Locking \/ (job[t].to = Nobody /\ job[t].todo = {})
  BY <1>1, ThreadNames DEF Books, UnderMutex
<1>6. UnderMutex'
  BY <1>1, <1>5 DEF UnderMutex, Others
<1>7. Newcomers'
  <2>1. c \in served /\ job'[Accept] = job[Accept] /\ job[Accept].about # c
    BY <1>1, <1>3, ThreadNames DEF Books, Newcomers, Others
  <2>2. \A d \in Clients : d # c => job'[d] = job[d]
    BY <1>1, ThreadNames DEF Others
  <2>. QED
    BY <1>1, <2>1, <2>2 DEF Books, Newcomers
<1>. QED
  BY <1>2, <1>4, <1>6, <1>7

LEMMA KickAllBegun ==
    ASSUME Books, BeginKickAll
    PROVE  FrameTypes' /\ OwnWork' /\ UnderMutex' /\ Newcomers'
<1>. DEFINE Effect ==
           /\ job[Main] = Resting
           /\ job' \in [Threads -> JobType] /\ Others(Main)
           /\ job'[Main].kind = "kickAll" /\ job'[Main].to = Nobody /\ job'[Main].todo = {}
           /\ UNCHANGED <<registered, mutex, served, closed, pipe, clients, kicked>>
<1>1. Effect
  BY KickAllBegins DEF Books
<1>2. FrameTypes'
  BY <1>1 DEF Books, FrameTypes, clients
<1>3. job'[Accept] = job[Accept] /\ \A c \in Clients : job'[c] = job[c]
  BY <1>1, ThreadNames DEF Others
<1>4. OwnWork'
  BY <1>1, <1>3, ThreadNames DEF Books, OwnWork
<1>5. UnderMutex'
  BY <1>1 DEF Books, UnderMutex, Others
<1>6. Newcomers'
  BY <1>1, <1>3 DEF Books, Newcomers
<1>. QED
  BY <1>2, <1>4, <1>5, <1>6

(* Steps of the clients: the server's books stay, and units only leave pipes. *)
LEMMA ClientStep ==
    ASSUME Books, UNCHANGED <<server, kicked>>, away' \subseteq Clients, garbled' \subseteq Clients,
           reader' \in [Clients -> ReaderType], pipe' \in [Clients -> Seq(UnitType)],
           \A c \in Clients : pipe'[c] = pipe[c] \/ (pipe[c] # <<>> /\ pipe'[c] = Tail(pipe[c]))
    PROVE  FrameTypes' /\ OwnWork' /\ UnderMutex' /\ Newcomers'
<1>1. UNCHANGED <<registered, mutex, job, served, closed, kicked>>
  BY DEF server
<1>2. ASSUME NEW c \in Clients
      PROVE  /\ Len(pipe'[c]) <= Len(pipe[c]) /\ Len(pipe'[c]) \in Nat /\ Len(pipe[c]) \in Nat
             /\ pipe[c] = <<>> => pipe'[c] = <<>>
             /\ (\A i \in 1..Len(pipe[c]) : pipe[c][i].kind = "hello") =>
                   \A i \in 1..Len(pipe'[c]) : pipe'[c][i].kind = "hello"
  <2>1. pipe[c] \in Seq(UnitType)
    BY DEF Books, FrameTypes
  <2>2. CASE pipe'[c] = pipe[c]
    BY <2>1, <2>2
  <2>3. CASE pipe[c] # <<>> /\ pipe'[c] = Tail(pipe[c])
    BY <2>1, <2>3
  <2>. QED
    BY <2>2, <2>3
<1>3. FrameTypes'
  <2>1. \A c \in Clients : Len(pipe'[c]) <= Room
    BY <1>2, FramesAssumption DEF Books, FrameTypes
  <2>. QED
    BY <1>1, <2>1 DEF Books, FrameTypes
<1>4. OwnWork'
  BY <1>1 DEF Books, OwnWork
<1>5. UnderMutex'
  BY <1>1 DEF Books, UnderMutex
<1>6. Newcomers'
  BY <1>1, <1>2 DEF Books, Newcomers
<1>. QED
  BY <1>3, <1>4, <1>5, <1>6

-----------------------------------------------------------------------------
(* What is on its way to the clients. *)

(* Steps that leave pipes and readers alone, and start or end frames between
   two frames or on broken sockets. *)
LEMMA StreamsKept ==
    ASSUME FrameTypes, Streams, UNCHANGED <<pipe, reader>>,
           kicked \subseteq kicked', closed \subseteq closed', away \subseteq away',
           \A t \in Threads : \A c \in Clients : c \notin kicked' /\ ~Broken(c)' =>
               /\ Amid(t, c)' <=> Amid(t, c)
               /\ Amid(t, c) => /\ job'[t].kind = job[t].kind /\ job'[t].about = job[t].about
                                /\ job'[t].part = job[t].part
    PROVE  Streams'
<1>. SUFFICES ASSUME NEW c \in Clients, Live(c)'
              PROVE  WholeFrames(c)' /\ OneWriter(c)'
  BY DEF Streams
<1>1. Live(c) /\ c \notin kicked'
  BY DEF Live, Listens
<1>2. WholeFrames(c) /\ OneWriter(c)
  BY <1>1 DEF Streams
<1>3. WholeFrames(c)'
  BY <1>2 DEF WholeFrames, Opens, Rest
<1>4. OneWriter(c)'
  <2>. SUFFICES ASSUME ~Broken(c)'
                PROVE  /\ \A t \in Threads : Amid(t, c)' =>
                             Expect(c)' = [left |-> Size(job'[t].kind) + 1 - job'[t].part,
                                           kind |-> job'[t].kind, about |-> job'[t].about]
                       /\ (\A t \in Threads : ~Amid(t, c)') => Expect(c)'.left = 0
    BY DEF OneWriter
  <2>1. ~Broken(c)
    BY DEF Broken
  <2>2. Expect(c)' = Expect(c)
    BY DEF Expect, Rest
  <2>. QED
    BY <1>1, <1>2, <2>1, <2>2 DEF OneWriter
<1>. QED
  BY <1>3, <1>4

(* A frame under way has a receiver and its first unit behind it. *)
LEMMA NotAmid ==
    \A t, c : c \in Clients /\ (job[t].to = Nobody \/ job[t].part = 0 \/ job[t].to # c)
       => ~Amid(t, c)
  BY ThreadNames DEF Amid

LEMMA NotAmidNext ==
    \A t, c : c \in Clients /\ (job'[t].to = Nobody \/ job'[t].part = 0 \/ job'[t].to # c)
       => ~Amid(t, c)'
  BY ThreadNames DEF Amid

LEMMA AmidSame ==
    ASSUME NEW t, NEW c, job'[t] = job[t]
    PROVE  Amid(t, c)' <=> Amid(t, c)
  BY DEF Amid

(* The job of one thread changes, which was and is amid nothing that arrives. *)
LEMMA OneJobChanges ==
    ASSUME FrameTypes, Streams, NEW t \in Threads, Others(t), UNCHANGED <<pipe, reader>>,
           kicked \subseteq kicked', closed \subseteq closed', away \subseteq away',
           \A c \in Clients : c \notin kicked' /\ ~Broken(c)' => ~Amid(t, c)' /\ ~Amid(t, c)
    PROVE  Streams'
<1>1. \A u \in Threads \ {t} : \A c \in Clients : Amid(u, c)' <=> Amid(u, c)
  BY AmidSame DEF Others
<1>2. \A u \in Threads : \A c \in Clients : c \notin kicked' /\ ~Broken(c)' =>
               /\ Amid(u, c)' <=> Amid(u, c)
               /\ Amid(u, c) => /\ job'[u].kind = job[u].kind /\ job'[u].about = job[u].about
                                /\ job'[u].part = job[u].part
  BY <1>1 DEF Others
<1>. QED
  BY <1>2, StreamsKept

LEMMA QuietSteps ==
    ASSUME Books, Streams, NEW t \in Threads, NEW c,
           \/ TakeLock(t) \/ NextClient(t) \/ FrameOut(t) \/ BeginKickAll
           \/ /\ c \in Clients
              /\ \/ BeginHandshake(c) \/ Register(c) \/ Announce(c) \/ BeginKick(c)
                 \/ HandlerCloses(c) \/ HandlerErases(c)
    PROVE  Streams'
<1>1. CASE TakeLock(t)
  <2>1. /\ job[t].to = Nobody /\ job'[t].to = Nobody /\ Others(t)
        /\ UNCHANGED <<pipe, reader, kicked, closed, away>>
    BY <1>1, TakesLock, AfterIs DEF Books, clients
  <2>. QED
    BY <2>1, NotAmid, NotAmidNext, OneJobChanges DEF Books
<1>2. CASE NextClient(t)
  <2>1. /\ job[t].to = Nobody /\ job'[t].part = 0 /\ Others(t)
        /\ UNCHANGED <<pipe, reader, kicked, closed, away>>
    BY <1>2, GoesOn DEF Books, clients
  <2>. QED
    BY <2>1, NotAmid, NotAmidNext, OneJobChanges DEF Books
<1>3. CASE FrameOut(t)
  <2>1. /\ Broken(job[t].to) \/ job[t].part > Size(job[t].kind)
        /\ job'[t].to = Nobody /\ Others(t)
        /\ UNCHANGED <<pipe, reader, kicked, away>> /\ closed \subseteq closed'
    BY <1>3, FrameIsOut DEF Books, clients
  <2>2. job[t].part \in Nat
    BY JobFields DEF Books, FrameTypes
  <2>3. \A d \in Clients : ~Broken(d)' => ~Amid(t, d)
    BY <2>1, <2>2, SizeType DEF Amid, Broken
  <2>. QED
    BY <2>1, <2>3, NotAmidNext, OneJobChanges DEF Books
<1>4. CASE c \in Clients /\ BeginHandshake(c)
  <2>1. /\ job[Accept].to = Nobody /\ job'[Accept].part = 0 /\ Others(Accept)
        /\ UNCHANGED <<pipe, reader, kicked, closed, away>>
    BY <1>4, HandshakeBegins, RestingIs DEF Books, clients
  <2>. QED
    BY <2>1, NotAmid, NotAmidNext, ThreadNames, OneJobChanges DEF Books
<1>5. CASE c \in Clients /\ Register(c)
  <2>1. UNCHANGED <<job, pipe, reader, kicked, closed, away>>
    BY <1>5 DEF Register, clients
  <2>2. \A u \in Threads : \A d \in Clients : Amid(u, d)' <=> Amid(u, d)
    BY <2>1, AmidSame
  <2>. QED
    BY <2>1, <2>2, StreamsKept DEF Books
<1>6. CASE c \in Clients /\ Announce(c)
  <2>1. /\ Broken(c) \/ Broken(job[Accept].to) \/ job[Accept].part > Size(job[Accept].kind)
        /\ job[Accept].kind = "hello" /\ job[Accept].about = c
        /\ job'[Accept].to = Nobody /\ Others(Accept)
        /\ UNCHANGED <<pipe, reader, kicked, away>> /\ closed \subseteq closed'
    BY <1>6, Announces DEF Books, clients
  <2>2. job[Accept].part \in Nat /\ job[Accept].to = c
    BY <2>1, JobFields, ThreadNames DEF Books, FrameTypes, OwnWork
  <2>3. \A d \in Clients : ~Broken(d)' => ~Amid(Accept, d)
    BY <2>1, <2>2, SizeType DEF Amid, Broken
  <2>. QED
    BY <2>1, <2>3, NotAmidNext, ThreadNames, OneJobChanges DEF Books
<1>7. CASE c \in Clients /\ BeginKick(c)
  <2>0. c \in Clients /\ c \in Threads
    BY <1>7, ThreadNames
  <2>1. /\ job[c].to = Nobody /\ job'[c].part = 0 /\ Others(c)
        /\ UNCHANGED <<pipe, reader, closed, away>> /\ kicked \subseteq kicked'
    BY <1>7, KickBegins, RestingIs DEF Books, clients
  <2>. QED
    BY <2>0, <2>1, NotAmid, NotAmidNext, ThreadNames, OneJobChanges DEF Books
<1>8. CASE c \in Clients /\ HandlerCloses(c)
  <2>0. c \in Clients /\ c \in Threads
    BY <1>8, ThreadNames
  <2>1. /\ job[c].kind = "kick" \/ job[c] = Resting
        /\ closed' = closed \cup {c} /\ job'[c].to = Nobody /\ Others(c)
        /\ UNCHANGED <<pipe, reader, kicked, away>>
    BY <1>8, HandlerIsClosing DEF Books, clients
  <2>2. job[c].to \in {c, Nobody}
    BY <2>0, <2>1, RestingIs DEF Books, OwnWork
  <2>3. \A d \in Clients : ~Broken(d)' => ~Amid(c, d)
    BY <2>0, <2>1, <2>2, NotAmid DEF Broken
  <2>. QED
    BY <2>0, <2>1, <2>3, NotAmidNext, ThreadNames, OneJobChanges DEF Books
<1>9. CASE c \in Clients /\ HandlerErases(c)
  <2>0. c \in Clients /\ c \in Threads
    BY <1>9, ThreadNames
  <2>1. /\ job[c].kind = "left" /\ mutex = Nobody /\ job'[c].to = Nobody /\ Others(c)
        /\ UNCHANGED <<pipe, reader, kicked, closed, away>>
    BY <1>9, HandlerIsErasing DEF Books, clients
  <2>2. job[c].to = Nobody
    BY <2>0, <2>1, ThreadNames DEF Books, UnderMutex, Locking
  <2>. QED
    BY <2>0, <2>1, <2>2, NotAmid, NotAmidNext, ThreadNames, OneJobChanges DEF Books
<1>10. CASE BeginKickAll
  <2>1. /\ job[Main].to = Nobody /\ job'[Main].to = Nobody /\ Others(Main)
        /\ UNCHANGED <<pipe, reader, kicked, closed, away>>
    BY <1>10, KickAllBegins, RestingIs DEF Books, clients
  <2>. QED
    BY <2>1, NotAmid, NotAmidNext, ThreadNames, OneJobChanges DEF Books
<1>. QED
  BY <1>1, <1>2, <1>3, <1>4, <1>5, <1>6, <1>7, <1>8, <1>9, <1>10

(* The writer of a unit is the only one that writes to its client, and the unit
   is the one that client expects. *)
LEMMA StreamWritten ==
    ASSUME Books, Streams, NEW t \in Threads, WriteUnit(t)
    PROVE  Streams'
<1>. DEFINE c == job[t].to
            u == Unit(job[t])
            Effect ==
                /\ c \in Clients /\ job[t].part <= Size(job[t].kind) /\ ~Broken(c)
                /\ job' \in [Threads -> JobType] /\ Others(t) /\ SameWork(t)
                /\ job'[t].todo = job[t].todo /\ job'[t].to = c
                /\ job'[t].part = job[t].part + 1
                /\ Len(pipe[c]) < Room
                /\ pipe' = [pipe EXCEPT ![c] = Append(@, u)]
                /\ u \in UnitType
                /\ UNCHANGED <<registered, mutex, served, closed, clients, kicked>>
<1>1. Effect
  BY Writes DEF Books
<1>2. /\ u.kind = job[t].kind /\ u.about = job[t].about /\ u.part = job[t].part
      /\ job[t].part \in Nat /\ job'[t].part \in Nat /\ Size(job[t].kind) \in Nat
      /\ pipe \in [Clients -> Seq(UnitType)]
  BY <1>1, JobFields, SizeType DEF Unit, Books, FrameTypes
<1>. SUFFICES ASSUME NEW d \in Clients, Live(d)'
              PROVE  WholeFrames(d)' /\ OneWriter(d)'
  BY DEF Streams
<1>3. Live(d) /\ d \notin kicked
  BY <1>1 DEF Live, Listens, clients
<1>4. WholeFrames(d) /\ OneWriter(d)
  BY <1>3 DEF Streams
<1>5. CASE d # c
  <2>1. pipe'[d] = pipe[d] /\ reader' = reader /\ UNCHANGED <<closed, away>>
    BY <1>1, <1>2, <1>5 DEF clients
  <2>2. WholeFrames(d)'
    BY <1>4, <2>1 DEF WholeFrames, Opens, Rest
  <2>3. Expect(d)' = Expect(d)
    BY <2>1 DEF Expect, Rest
  <2>4. \A v \in Threads : Amid(v, d)' <=> Amid(v, d)
    <3>1. ~Amid(t, d)' /\ ~Amid(t, d)
      BY <1>1, <1>5 DEF Amid
    <3>2. \A v \in Threads \ {t} : Amid(v, d)' <=> Amid(v, d)
      BY <1>1, AmidSame DEF Others
    <3>. QED
      BY <3>1, <3>2
  <2>5. \A v \in Threads : Amid(v, d) => job'[v] = job[v]
    BY <1>1, <1>5 DEF Amid, Others
  <2>6. Broken(d)' <=> Broken(d)
    BY <2>1 DEF Broken
  <2>7. OneWriter(d)'
    BY <1>4, <2>3, <2>4, <2>5, <2>6 DEF OneWriter
  <2>. QED
    BY <2>2, <2>7
<1>6. CASE d = c
  <2>1. \A v \in Threads : Amid(v, d) => v = t
    BY <1>1, <1>3, <1>6, OneAtATime DEF Amid
  <2>2. \A v \in Threads : Amid(v, d)' => v = t
    <3>1. \A v \in Threads \ {t} : Amid(v, d)' => Amid(v, d)
      BY <1>1 DEF Amid, Others
    <3>. QED
      BY <2>1, <3>1
  <2>3. ~Broken(d) /\ OneWriter(d)
    BY <1>1, <1>4, <1>6
  <2>4. Opens(Expect(d), u)
    <3>1. CASE job[t].part = 0
      <4>1. \A v \in Threads : ~Amid(v, d)
        BY <2>1, <3>1 DEF Amid
      <4>2. Expect(d).left = 0
        BY <2>3, <4>1 DEF OneWriter
      <4>. QED
        BY <1>2, <3>1, <4>2 DEF Opens
    <3>2. CASE job[t].part # 0
      <4>1. Amid(t, d)
        BY <1>1, <1>2, <1>6, <3>2 DEF Amid
      <4>2. Expect(d) = [left |-> Size(job[t].kind) + 1 - job[t].part,
                         kind |-> job[t].kind, about |-> job[t].about]
        BY <2>3, <4>1 DEF OneWriter
      <4>3. /\ Expect(d).left = Size(job[t].kind) + 1 - job[t].part
            /\ Expect(d).kind = u.kind /\ Expect(d).about = u.about
        BY <1>2, <4>2
      <4>4. Expect(d).left # 0 /\ u.part = Size(job[t].kind) + 1 - Expect(d).left
        BY <1>1, <1>2, <4>3
      <4>. QED
        BY <1>2, <4>3, <4>4 DEF Opens
    <3>. QED
      BY <3>1, <3>2
  <2>. DEFINE n == Len(pipe[d])
  <2>5. /\ pipe[d] \in Seq(UnitType) /\ pipe'[d] = Append(pipe[d], u) /\ reader' = reader
        /\ n \in Nat
    BY <1>1, <1>2, <1>6 DEF clients
  <2>6. /\ Len(pipe'[d]) = n + 1 /\ pipe'[d][n + 1] = u /\ pipe'[d] # <<>>
        /\ \A i \in 1..n : pipe'[d][i] = pipe[d][i]
    <3>1. PICK s, e : s = pipe[d] /\ e = u
      OBVIOUS
    <3>2. s \in Seq(UnitType) /\ e \in UnitType /\ pipe'[d] = Append(s, e) /\ n = Len(s)
      BY <1>1, <2>5, <3>1
    <3>3. /\ Len(Append(s, e)) = Len(s) + 1 /\ Append(s, e)[Len(s) + 1] = e
          /\ Append(s, e) # <<>>
      BY <3>2
    <3>4. \A i \in 1..Len(s) : Append(s, e)[i] = s[i]
      BY <3>2
    <3>. HIDE DEF n, u
    <3>. QED
      BY <3>1, <3>2, <3>3, <3>4
  <2>7. WholeFrames(d)'
    <3>1. Opens(reader'[d], pipe'[d][1])
      <4>1. CASE pipe[d] = <<>>
        <5>1. n = 0 /\ Expect(d) = reader[d]
          BY <4>1 DEF Expect
        <5>. QED
          BY <2>4, <2>5, <2>6, <5>1
      <4>2. CASE pipe[d] # <<>>
        <5>1. 1 \in 1..n
          BY <2>5, <4>2
        <5>. QED
          BY <1>4, <1>6, <2>5, <2>6, <4>2, <5>1 DEF WholeFrames
      <4>. QED
        BY <4>1, <4>2
    <3>2. ASSUME NEW i \in 1..n
          PROVE  Opens(Rest(pipe'[d][i]), pipe'[d][i + 1])
      <4>1. CASE i = n
        <5>1. pipe[d] # <<>> /\ pipe'[d][i] = pipe[d][n] /\ pipe'[d][i + 1] = u
          BY <2>5, <2>6, <4>1
        <5>2. Expect(d) = Rest(pipe[d][n])
          BY <5>1 DEF Expect
        <5>. QED
          BY <2>4, <5>1, <5>2
      <4>2. CASE i # n
        <5>1. i \in 1 .. n - 1 /\ i + 1 \in 1..n
          BY <2>5, <4>2
        <5>2. Opens(Rest(pipe[d][i]), pipe[d][i + 1])
          BY <1>4, <1>6, <5>1 DEF WholeFrames
        <5>. QED
          BY <2>6, <5>1, <5>2
      <4>. QED
        BY <4>1, <4>2
    <3>3. Len(pipe'[d]) - 1 = n
      BY <2>5, <2>6
    <3>. HIDE DEF n
    <3>. QED
      BY <3>1, <3>2, <3>3 DEF WholeFrames, Opens, Rest
  <2>8. Expect(d)' = [left |-> Size(job[t].kind) - job[t].part, kind |-> job[t].kind,
                      about |-> job[t].about]
    <3>1. pipe'[d][Len(pipe'[d])] = u
      BY <2>6
    <3>. QED
      BY <1>1, <1>2, <2>6, <3>1 DEF Expect, Rest
  <2>9. OneWriter(d)'
    <3>1. /\ job'[t].kind = job[t].kind /\ job'[t].about = job[t].about
          /\ Size(job[t].kind) + 1 - job'[t].part = Size(job[t].kind) - job[t].part
      BY <1>1, <1>2 DEF SameWork
    <3>2. \A v \in Threads : Amid(v, d)' =>
             Expect(d)' = [left |-> Size(job'[v].kind) + 1 - job'[v].part,
                           kind |-> job'[v].kind, about |-> job'[v].about]
      BY <2>2, <2>8, <3>1
    <3>3. ~Amid(t, d)' => Size(job[t].kind) - job[t].part = 0
      BY <1>1, <1>2, <1>6, <3>1 DEF Amid
    <3>. QED
      BY <2>8, <3>2, <3>3 DEF OneWriter
  <2>. QED
    BY <2>7, <2>9
<1>. QED
  BY <1>5, <1>6

LEMMA FirstUnit ==
    ASSUME Books, NEW c \in Clients, pipe[c] # <<>>
    PROVE  /\ Head(pipe[c]) = pipe[c][1] /\ pipe[c][1] \in UnitType
           /\ Tail(pipe[c]) \in Seq(UnitType)
<1>1. PICK s : s = pipe[c]
  OBVIOUS
<1>2. s \in Seq(UnitType) /\ s # <<>>
  BY <1>1 DEF Books, FrameTypes
<1>3. Head(s) = s[1] /\ s[1] \in UnitType /\ Tail(s) \in Seq(UnitType)
  BY <1>2
<1>. QED
  BY <1>1, <1>3

(* A client that reads the first unit of its pipe goes to the place after it. *)
LEMMA StreamRead ==
    ASSUME Books, Streams, NEW c \in Clients, UNCHANGED <<server, kicked, away>>,
           pipe[c] # <<>>, pipe' = [pipe EXCEPT ![c] = Tail(@)],
           reader' \in [Clients -> ReaderType], \A d \in Clients \ {c} : reader'[d] = reader[d],
           Live(c)' => /\ Live(c)
                       /\ \/ reader'[c] = Rest(pipe[c][1])
                          \/ reader'[c].left = 0 /\ Rest(pipe[c][1]).left = 0
    PROVE  Streams'
<1>1. UNCHANGED <<job, closed>> /\ pipe \in [Clients -> Seq(UnitType)]
  BY DEF server, Books, FrameTypes
<1>2. \A d \in Clients : \A t \in Threads : Amid(t, d)' <=> Amid(t, d)
  BY <1>1 DEF Amid
<1>. SUFFICES ASSUME NEW d \in Clients, Live(d)'
              PROVE  WholeFrames(d)' /\ OneWriter(d)'
  BY DEF Streams
<1>3. Broken(d)' <=> Broken(d)
  BY <1>1 DEF Broken
<1>4. CASE d # c
  <2>1. pipe'[d] = pipe[d] /\ reader'[d] = reader[d]
    BY <1>1, <1>4
  <2>2. Live(d)
    BY <2>1 DEF Live, Listens
  <2>3. WholeFrames(d)'
    <3>1. WholeFrames(d)
      BY <2>2 DEF Streams
    <3>2. \A u : Opens(reader[d], u)' <=> Opens(reader[d], u)
      BY <2>1 DEF Opens
    <3>3. \A u, v : Opens(Rest(u), v)' <=> Opens(Rest(u), v)
      OBVIOUS
    <3>. QED
      BY <2>1, <3>1, <3>2, <3>3, Zenon DEF WholeFrames
  <2>4. Expect(d)' = Expect(d)
    BY <2>1 DEF Expect, Rest
  <2>. QED
    BY <1>1, <1>2, <1>3, <2>2, <2>3, <2>4 DEF Streams, OneWriter
<1>5. CASE d = c
  <2>1. /\ Live(c) /\ WholeFrames(c) /\ OneWriter(c)
        /\ \/ reader'[c] = Rest(pipe[c][1])
           \/ reader'[c].left = 0 /\ Rest(pipe[c][1]).left = 0
    BY <1>5 DEF Streams
  <2>2. PICK n \in Nat : Len(pipe[c]) = n + 1
    <3>1. Len(pipe[c]) \in Nat /\ Len(pipe[c]) # 0
      BY <1>1
    <3>2. Len(pipe[c]) - 1 \in Nat /\ Len(pipe[c]) = (Len(pipe[c]) - 1) + 1
      BY <3>1
    <3>. QED
      BY <3>2
  <2>3. pipe'[c] = Tail(pipe[c]) /\ Len(pipe'[c]) = n
           /\ \A i \in 1..n : pipe'[c][i] = pipe[c][i + 1]
    <3>1. PICK s : s = pipe[c]
      OBVIOUS
    <3>2. s \in Seq(UnitType) /\ Len(s) = n + 1 /\ s # <<>> /\ pipe'[c] = Tail(s)
      BY <1>1, <2>2, <3>1
    <3>3. Len(Tail(s)) = n /\ \A i \in 1..n : Tail(s)[i] = s[i + 1]
      BY <3>2
    <3>. QED
      BY <3>1, <3>2, <3>3
  <2>4. /\ pipe'[c] # <<>> => n # 0
        /\ pipe'[c] = <<>> => n = 0
        /\ pipe'[c] \in Seq(UnitType)
    <3>1. pipe'[c] \in Seq(UnitType) /\ Len(pipe'[c]) = n
      BY <2>3, FirstUnit
    <3>2. \A q \in Seq(UnitType) : q = <<>> <=> Len(q) = 0
      OBVIOUS
    <3>. QED
      BY <3>1, <3>2
  <2>5. \A i \in 1..n : Opens(Rest(pipe[c][i]), pipe[c][i + 1])
    BY <2>1, <2>2 DEF WholeFrames
  <2>6. WholeFrames(c)'
    <3>1. pipe'[c] # <<>> => Opens(reader'[c], pipe'[c][1])
      <4>. SUFFICES ASSUME n # 0
                    PROVE  Opens(reader'[c], pipe'[c][1])
        BY <2>4
      <4>1. 1 \in 1..n /\ pipe'[c][1] = pipe[c][1 + 1]
        BY <2>3
      <4>2. Opens(Rest(pipe[c][1]), pipe'[c][1])
        BY <2>5, <4>1
      <4>. QED
        BY <2>1, <4>2 DEF Opens
    <3>2. ASSUME NEW i \in 1 .. n - 1
          PROVE  Opens(Rest(pipe'[c][i]), pipe'[c][i + 1])
      <4>1. i \in 1..n /\ i + 1 \in 1..n
        OBVIOUS
      <4>2. pipe'[c][i] = pipe[c][i + 1] /\ pipe'[c][i + 1] = pipe[c][(i + 1) + 1]
        BY <2>3, <4>1
      <4>. QED
        BY <2>5, <4>1, <4>2
    <3>. QED
      BY <2>3, <3>1, <3>2 DEF WholeFrames, Opens, Rest
  <2>7. \/ Expect(c)' = Expect(c)
        \/ Expect(c)'.left = 0 /\ Expect(c).left = 0
    <3>1. CASE n = 0
      <4>1. pipe'[c] = <<>> /\ Len(pipe[c]) = 1
        BY <2>2, <2>3, <2>4, <3>1
      <4>2. Expect(c) = Rest(pipe[c][1]) /\ Expect(c)' = reader'[c]
        BY <4>1 DEF Expect
      <4>. QED
        BY <2>1, <4>2
    <3>2. CASE n # 0
      <4>1. pipe'[c] # <<>> /\ pipe'[c][n] = pipe[c][n + 1]
        BY <2>3, <2>4, <3>2
      <4>2. Expect(c) = Rest(pipe[c][n + 1]) /\ Expect(c)' = Rest(pipe'[c][n])
        BY <2>2, <2>3, <4>1 DEF Expect, Rest
      <4>. QED
        BY <4>1, <4>2
    <3>. QED
      BY <3>1, <3>2
  <2>8. OneWriter(c)'
    <3>1. CASE Expect(c)' = Expect(c)
      BY <1>1, <1>2, <1>3, <1>5, <2>1, <3>1 DEF OneWriter
    <3>2. CASE Expect(c)'.left = 0 /\ Expect(c).left = 0
      <4>1. ~Broken(c) => \A t \in Threads : ~Amid(t, c)
        <5>. SUFFICES ASSUME ~Broken(c), NEW t \in Threads, Amid(t, c)
                      PROVE  FALSE
          OBVIOUS
        <5>1. Expect(c) = [left |-> Size(job[t].kind) + 1 - job[t].part,
                           kind |-> job[t].kind, about |-> job[t].about]
          BY <2>1 DEF OneWriter
        <5>2. Size(job[t].kind) + 1 - job[t].part = 0
          BY <3>2, <5>1
        <5>3. job[t].part \in Nat /\ Size(job[t].kind) \in Nat /\ job[t].part <= Size(job[t].kind)
          BY JobFields, SizeType DEF Books, FrameTypes, Amid
        <5>. QED
          BY <5>2, <5>3
      <4>. QED
        BY <1>2, <1>3, <1>5, <3>2, <4>1 DEF OneWriter
    <3>. QED
      BY <2>7, <3>1, <3>2
  <2>. QED
    BY <1>5, <2>6, <2>8
<1>. QED
  BY <1>4, <1>5

(* A client that stops listening, or leaves. *)
LEMMA StreamEnds ==
    ASSUME Books, Streams, NEW c \in Clients, UNCHANGED <<server, kicked, pipe>>, ~Live(c)',
           away \subseteq away', away' \subseteq away \cup {c},
           \A d \in Clients \ {c} : reader'[d] = reader[d]
    PROVE  Streams'
<1>1. UNCHANGED <<job, closed>>
  BY DEF server
<1>. SUFFICES ASSUME NEW d \in Clients, Live(d)'
              PROVE  WholeFrames(d)' /\ OneWriter(d)'
  BY DEF Streams
<1>2. d # c /\ reader'[d] = reader[d] /\ pipe'[d] = pipe[d] /\ (d \in away' <=> d \in away)
  OBVIOUS
<1>3. Live(d)
  BY <1>2 DEF Live, Listens
<1>4. WholeFrames(d)'
  BY <1>2, <1>3 DEF Streams, WholeFrames, Opens, Rest
<1>5. Expect(d)' = Expect(d)
  BY <1>2 DEF Expect, Rest
<1>6. Broken(d)' <=> Broken(d)
  BY <1>1, <1>2 DEF Broken
<1>7. \A t \in Threads : Amid(t, d)' <=> Amid(t, d)
  BY <1>1 DEF Amid
<1>. QED
  BY <1>1, <1>3, <1>4, <1>5, <1>6, <1>7 DEF Streams, OneWriter

LEMMA Places ==
    /\ AtHeader = [left |-> 0, kind |-> "none", about |-> Nobody]
    /\ Ended = [left |-> 0, kind |-> "ended", about |-> Nobody]
    /\ Deaf = [left |-> 0, kind |-> "deaf", about |-> Nobody]
    /\ AtHeader \in ReaderType /\ Ended \in ReaderType /\ Deaf \in ReaderType
<1>1. AtHeader = [left |-> 0, kind |-> "none", about |-> Nobody]
  BY DEF AtHeader
<1>2. Ended = [left |-> 0, kind |-> "ended", about |-> Nobody]
  BY <1>1 DEF Ended
<1>3. Deaf = [left |-> 0, kind |-> "deaf", about |-> Nobody]
  BY <1>1 DEF Deaf
<1>4. 0 \in 0..KickSize /\ Nobody \in About /\ "none" \in Kind
  BY FramesAssumption DEF About, Kind
<1>. QED
  BY <1>1, <1>2, <1>3, <1>4 DEF ReaderType

LEMMA HeaderRead ==
    ASSUME Books, Streams, ReadsWhole, NEW c \in Clients, ReadHeader(c)
    PROVE  FrameTypes' /\ OwnWork' /\ UnderMutex' /\ Newcomers' /\ Streams' /\ ReadsWhole'
<1>. DEFINE u == Head(pipe[c])
<1>1. /\ Listens(c) /\ c \notin away /\ reader[c].left = 0 /\ pipe[c] # <<>>
      /\ pipe' = [pipe EXCEPT ![c] = Tail(@)] /\ UNCHANGED <<server, away, kicked>>
  BY DEF ReadHeader, Take
<1>2. u = pipe[c][1] /\ u \in UnitType /\ Tail(pipe[c]) \in Seq(UnitType)
  BY <1>1, FirstUnit
<1>3. pipe' \in [Clients -> Seq(UnitType)] /\ reader \in [Clients -> ReaderType]
         /\ garbled \subseteq Clients
      /\ away \subseteq Clients
  BY <1>1, <1>2 DEF Books, FrameTypes
<1>4. u.part = 0 =>
         /\ reader' = [reader EXCEPT ![c] = [left |-> Size(u.kind), kind |-> u.kind,
                                                  about |-> u.about]]
         /\ garbled' = garbled
  BY DEF ReadHeader
<1>5. u.part # 0 =>
         /\ \E r \in {Ended} \cup [left : 1..KickSize, kind : {"left"}, about : {Nobody}] :
               reader' = [reader EXCEPT ![c] = r]
         /\ garbled' = garbled \cup {c}
  BY DEF ReadHeader
<1>6. Live(c) => u.part = 0
  BY <1>1, <1>2 DEF Streams, WholeFrames, Opens
<1>7. u.kind \in Kind /\ u.about \in About /\ Size(u.kind) \in 0..KickSize
  BY <1>2, SizeType, FramesAssumption DEF UnitType
<1>8. \E r \in ReaderType : /\ reader' = [reader EXCEPT ![c] = r]
                            /\ u.part = 0 => r = [left |-> Size(u.kind), kind |-> u.kind,
                                                  about |-> u.about]
  <2>1. CASE u.part = 0
    <3>1. [left |-> Size(u.kind), kind |-> u.kind, about |-> u.about] \in ReaderType
      BY <1>7 DEF ReaderType
    <3>. QED
      BY <1>4, <2>1, <3>1
  <2>2. CASE u.part # 0
    <3>1. [left : 1..KickSize, kind : {"left"}, about : {Nobody}] \subseteq ReaderType
      <4>1. 1..KickSize \subseteq 0..KickSize /\ "left" \in Kind /\ Nobody \in About
        BY FramesAssumption DEF Kind, Kinds, About
      <4>. QED
        BY <4>1 DEF ReaderType
    <3>. QED
      BY <1>5, <2>2, <3>1, Places
  <2>. QED
    BY <2>1, <2>2
<1>9. reader' \in [Clients -> ReaderType] /\ \A d \in Clients \ {c} : reader'[d] = reader[d]
  BY <1>3, <1>8
<1>10. Live(c) => reader'[c] = Rest(pipe[c][1])
  <2>. SUFFICES ASSUME Live(c)
                PROVE  reader'[c] = Rest(pipe[c][1])
    OBVIOUS
  <2>1. reader'[c] = [left |-> Size(u.kind), kind |-> u.kind, about |-> u.about]
    BY <1>3, <1>6, <1>8
  <2>2. Size(u.kind) - u.part = Size(u.kind)
    BY <1>6, <1>7
  <2>. QED
    BY <1>2, <2>1, <2>2 DEF Rest
<1>11. Live(c)' => Live(c)
  BY <1>1 DEF Live
<1>12. Streams'
  BY <1>1, <1>9, <1>10, <1>11, StreamRead
<1>13. ReadsWhole' /\ garbled' \subseteq Clients
  <2>1. c \notin kicked => u.part = 0
    BY <1>1, <1>6 DEF Live
  <2>. QED
    BY <1>1, <1>3, <1>4, <1>5, <2>1 DEF ReadsWhole
<1>14. FrameTypes' /\ OwnWork' /\ UnderMutex' /\ Newcomers'
  <2>1. \A d \in Clients : pipe'[d] = pipe[d] \/ (pipe[d] # <<>> /\ pipe'[d] = Tail(pipe[d]))
    BY <1>1 DEF Books, FrameTypes
  <2>2. away' \subseteq Clients
    BY <1>1, <1>3
  <2>. QED
    BY <1>1, <1>3, <1>9, <1>13, <2>1, <2>2, ClientStep
<1>. QED
  BY <1>12, <1>13, <1>14

LEMMA BodyRead ==
    ASSUME Books, Streams, ReadsWhole, NEW c \in Clients, ReadBody(c)
    PROVE  FrameTypes' /\ OwnWork' /\ UnderMutex' /\ Newcomers' /\ Streams' /\ ReadsWhole'
<1>. DEFINE u == Head(pipe[c])
            r == reader[c]
            right == u.kind = r.kind /\ u.about = r.about /\ u.part = Size(r.kind) + 1 - r.left
            next == IF r.left > 1 THEN [r EXCEPT !.left = @ - 1]
                    ELSE IF r.kind \in {"kick", "kickAll"} THEN Ended ELSE AtHeader
<1>1. /\ Listens(c) /\ c \notin away /\ r.left > 0 /\ pipe[c] # <<>>
      /\ pipe' = [pipe EXCEPT ![c] = Tail(@)] /\ UNCHANGED <<server, away, kicked>>
      /\ garbled' = IF right THEN garbled ELSE garbled \cup {c}
      /\ reader' = [reader EXCEPT ![c] = next]
  BY DEF ReadBody, Take
<1>2. u = pipe[c][1] /\ u \in UnitType /\ Tail(pipe[c]) \in Seq(UnitType)
  BY <1>1, FirstUnit
<1>3. /\ pipe' \in [Clients -> Seq(UnitType)] /\ reader \in [Clients -> ReaderType]
      /\ garbled \subseteq Clients /\ away \subseteq Clients
  BY <1>1, <1>2 DEF Books, FrameTypes
<1>4. /\ r \in ReaderType /\ r.left \in 0..KickSize /\ r.left \in Nat /\ r.about \in About
      /\ r.kind \in Kind \cup {"ended", "deaf"}
      /\ r = [left |-> r.left, kind |-> r.kind, about |-> r.about]
  BY <1>3, FramesAssumption DEF ReaderType
<1>5. Live(c) => right
  BY <1>1, <1>2, <1>4 DEF Streams, WholeFrames, Opens
<1>6. r.left > 1 => next = [left |-> r.left - 1, kind |-> r.kind, about |-> r.about]
  <2>1. \A q : q = [left |-> r.left, kind |-> r.kind, about |-> r.about]
         => [q EXCEPT !.left = @ - 1] = [left |-> r.left - 1, kind |-> r.kind, about |-> r.about]
    OBVIOUS
  <2>. QED
    BY <1>4, <2>1
<1>7. next \in ReaderType
  <2>1. CASE r.left > 1
    <3>1. r.left - 1 \in 0..KickSize
      BY <1>4, <2>1, FramesAssumption
    <3>. QED
      BY <1>4, <1>6, <2>1, <3>1 DEF ReaderType
  <2>2. CASE ~(r.left > 1)
    BY <2>2, Places
  <2>. QED
    BY <2>1, <2>2
<1>8. reader' \in [Clients -> ReaderType] /\ reader'[c] = next
         /\ \A d \in Clients \ {c} : reader'[d] = reader[d]
  <2>. HIDE DEF next
  <2>. QED
    BY <1>1, <1>3, <1>7
<1>9. Live(c) => \/ reader'[c] = Rest(pipe[c][1])
                 \/ reader'[c].left = 0 /\ Rest(pipe[c][1]).left = 0
  <2>. SUFFICES ASSUME Live(c)
                PROVE  \/ next = Rest(u)
                       \/ next.left = 0 /\ Rest(u).left = 0
    BY <1>2, <1>8
  <2>1. /\ right /\ Size(u.kind) = Size(r.kind) /\ Size(r.kind) \in Nat
        /\ Size(r.kind) - u.part = r.left - 1
    BY <1>4, <1>5, SizeType
  <2>2. Rest(u) = [left |-> r.left - 1, kind |-> r.kind, about |-> r.about]
    BY <2>1 DEF Rest
  <2>3. CASE r.left > 1
    BY <1>6, <2>2, <2>3
  <2>4. CASE ~(r.left > 1)
    <3>1. r.left = 1
      BY <1>1, <1>4, <2>4
    <3>2. next.left = 0
      BY <2>4, Places
    <3>. QED
      BY <2>2, <3>1, <3>2
  <2>. QED
    BY <2>3, <2>4
<1>10. Live(c)' => Live(c)
  BY <1>1 DEF Live
<1>11. Streams'
  BY <1>1, <1>8, <1>9, <1>10, StreamRead
<1>12. ReadsWhole' /\ garbled' \subseteq Clients
  <2>1. c \notin kicked => right
    BY <1>1, <1>5 DEF Live
  <2>. QED
    BY <1>1, <1>3, <2>1 DEF ReadsWhole
<1>13. FrameTypes' /\ OwnWork' /\ UnderMutex' /\ Newcomers'
  <2>1. \A d \in Clients : pipe'[d] = pipe[d] \/ (pipe[d] # <<>> /\ pipe'[d] = Tail(pipe[d]))
    BY <1>1 DEF Books, FrameTypes
  <2>2. away' \subseteq Clients
    BY <1>1, <1>3
  <2>. QED
    BY <1>1, <1>3, <1>8, <1>12, <2>1, <2>2, ClientStep
<1>. QED
  BY <1>11, <1>12, <1>13

LEMMA ReadingEnds ==
    ASSUME Books, Streams, ReadsWhole, NEW c \in Clients,
           ReadEnd(c) \/ GoAway(c) \/ StopReading(c)
    PROVE  FrameTypes' /\ OwnWork' /\ UnderMutex' /\ Newcomers' /\ Streams' /\ ReadsWhole'
<1>1. reader \in [Clients -> ReaderType] /\ away \subseteq Clients /\ garbled \subseteq Clients
      /\ pipe \in [Clients -> Seq(UnitType)]
  BY DEF Books, FrameTypes
<1>2. /\ UNCHANGED <<server, kicked, pipe, garbled>>
      /\ reader' \in [Clients -> ReaderType] /\ \A d \in Clients \ {c} : reader'[d] = reader[d]
      /\ away \subseteq away' /\ away' \subseteq away \cup {c} /\ ~Live(c)'
  <2>1. CASE ReadEnd(c)
    <3>1. reader'[c] = Ended
      BY <1>1, <2>1 DEF ReadEnd
    <3>2. reader'[c].kind = "ended"
      BY <3>1, Places
    <3>. QED
      BY <1>1, <2>1, <3>2, Places DEF ReadEnd, Live, Listens
  <2>2. CASE StopReading(c)
    <3>1. reader'[c] = Deaf
      BY <1>1, <2>2 DEF StopReading
    <3>2. reader'[c].kind = "deaf"
      BY <3>1, Places
    <3>. QED
      BY <1>1, <2>2, <3>2, Places DEF StopReading, Live, Listens
  <2>3. CASE GoAway(c)
    BY <1>1, <2>3 DEF GoAway, Live
  <2>. QED
    BY <2>1, <2>2, <2>3
<1>3. Streams'
  BY <1>2, StreamEnds
<1>4. FrameTypes' /\ OwnWork' /\ UnderMutex' /\ Newcomers'
  <2>1. pipe' \in [Clients -> Seq(UnitType)] /\ away' \subseteq Clients
           /\ garbled' \subseteq Clients
    BY <1>1, <1>2
  <2>2. \A d \in Clients : pipe'[d] = pipe[d] \/ (pipe[d] # <<>> /\ pipe'[d] = Tail(pipe[d]))
    BY <1>2
  <2>3. UNCHANGED <<server, kicked>>
    BY <1>2
  <2>. QED
    BY <1>2, <2>1, <2>2, <2>3, ClientStep
<1>5. ReadsWhole'
  BY <1>2 DEF ReadsWhole
<1>. QED
  BY <1>3, <1>4, <1>5

-----------------------------------------------------------------------------

LEMMA FramesInitially == FramesInit => FramesInv
<1>. SUFFICES ASSUME FramesInit
              PROVE  FramesInv
  OBVIOUS
<1>1. /\ registered = Present /\ served = Present /\ mutex = Nobody
      /\ \A t \in Threads : job[t] = Resting
      /\ \A c \in Clients : pipe[c] = <<>> /\ reader[c] = AtHeader
      /\ closed = {} /\ away = {} /\ kicked = {} /\ garbled = {}
  BY DEF FramesInit
<1>2. FrameTypes
  <2>1. job \in [Threads -> JobType]
    BY RestingIs DEF FramesInit
  <2>2. pipe \in [Clients -> Seq(UnitType)] /\ reader \in [Clients -> ReaderType]
    BY Places DEF FramesInit
  <2>3. \A c \in Clients : Len(pipe[c]) <= Room
    BY <1>1, FramesAssumption
  <2>. QED
    BY <1>1, <2>1, <2>2, <2>3, FramesAssumption DEF FrameTypes
<1>3. OwnWork
  BY <1>1, RestingIs, ThreadNames DEF OwnWork
<1>4. UnderMutex
  BY <1>1, RestingIs, KindTypes DEF UnderMutex
<1>5. Newcomers
  <2>1. \A c \in Clients : job[Accept].about # c /\ job[Accept].to # c
    BY <1>1, RestingIs, ThreadNames
  <2>. QED
    BY <1>1, <2>1, ThreadNames DEF Newcomers
<1>6. Streams
  <2>. SUFFICES ASSUME NEW c \in Clients
                PROVE  WholeFrames(c) /\ OneWriter(c)
    BY DEF Streams
  <2>1. Expect(c).left = 0 /\ \A t \in Threads : ~Amid(t, c)
    BY <1>1, RestingIs, Places, NotAmid DEF Expect
  <2>2. WholeFrames(c)
    BY <1>1 DEF WholeFrames
  <2>. QED
    BY <2>1, <2>2 DEF OneWriter
<1>7. ReadsWhole
  BY <1>1 DEF ReadsWhole
<1>. QED
  BY <1>2, <1>3, <1>4, <1>5, <1>6, <1>7 DEF FramesInv

LEMMA FramesStep == FramesInv /\ [FramesNext]_framesVars => FramesInv'
<1>. SUFFICES ASSUME FramesInv, [FramesNext]_framesVars
              PROVE  FramesInv'
  OBVIOUS
<1>0. Books /\ Streams /\ ReadsWhole
  BY DEF FramesInv, Books
<1>1. ASSUME NEW t \in Threads, Writer(t)
      PROVE  FramesInv'
  <2>1. UNCHANGED <<clients, kicked>> /\ ReadsWhole'
    BY <1>0, <1>1 DEF Writer, TakeLock, NextClient, WriteUnit, FrameOut, clients, ReadsWhole
  <2>2. CASE TakeLock(t)
    BY <1>0, <2>1, <2>2, LockTaken, QuietSteps, ThreadNames DEF FramesInv
  <2>3. CASE NextClient(t)
    BY <1>0, <2>1, <2>3, ClientTaken, QuietSteps, ThreadNames DEF FramesInv
  <2>4. CASE WriteUnit(t)
    BY <1>0, <2>1, <2>4, UnitWritten, StreamWritten DEF FramesInv
  <2>5. CASE FrameOut(t)
    BY <1>0, <2>1, <2>5, FrameWritten, QuietSteps, ThreadNames DEF FramesInv
  <2>. QED
    BY <1>1, <2>2, <2>3, <2>4, <2>5 DEF Writer
<1>2. ASSUME NEW c \in Clients, BeginHandshake(c)
      PROVE  FramesInv'
  BY <1>0, <1>2, HandshakeBegun, QuietSteps, ThreadNames DEF FramesInv, BeginHandshake, clients,
     ReadsWhole
<1>3. ASSUME NEW c \in Clients, Register(c)
      PROVE  FramesInv'
  BY <1>0, <1>3, ClientRegistered, QuietSteps, ThreadNames DEF FramesInv, Register, clients,
     ReadsWhole
<1>4. ASSUME NEW c \in Clients, Announce(c)
      PROVE  FramesInv'
  BY <1>0, <1>4, ClientAnnounced, QuietSteps, ThreadNames DEF FramesInv, Announce, clients,
     ReadsWhole
<1>5. ASSUME NEW c \in Clients, BeginKick(c)
      PROVE  FramesInv'
  BY <1>0, <1>5, KickBegun, QuietSteps, ThreadNames DEF FramesInv, BeginKick, clients, ReadsWhole
<1>6. ASSUME NEW c \in Clients, HandlerCloses(c)
      PROVE  FramesInv'
  BY <1>0, <1>6, HandlerClosed, QuietSteps, ThreadNames DEF FramesInv, HandlerCloses, clients,
     ReadsWhole
<1>7. ASSUME NEW c \in Clients, HandlerErases(c)
      PROVE  FramesInv'
  BY <1>0, <1>7, HandlerErased, QuietSteps, ThreadNames DEF FramesInv, HandlerErases, clients,
     ReadsWhole
<1>8. CASE BeginKickAll
  <2>1. FrameTypes' /\ OwnWork' /\ UnderMutex' /\ Newcomers'
    BY <1>0, <1>8, KickAllBegun
  <2>3. Streams'
    BY <1>0, <1>8, QuietSteps, ThreadNames
  <2>. QED
    BY <1>0, <1>8, <2>1, <2>3 DEF FramesInv, BeginKickAll, clients, ReadsWhole
<1>9. ASSUME NEW c \in Clients, Reads(c) \/ GoAway(c) \/ StopReading(c)
      PROVE  FramesInv'
  BY <1>0, <1>9, HeaderRead, BodyRead, ReadingEnds DEF FramesInv, Reads
<1>10. CASE UNCHANGED framesVars
  <2>1. UNCHANGED <<registered, mutex, job, served, closed, pipe, away, reader, garbled, kicked>>
    BY <1>10 DEF framesVars, server, clients
  <2>2. \A t \in Threads : \A c \in Clients : Amid(t, c)' <=> Amid(t, c)
    BY <2>1, AmidSame
  <2>3. Streams'
    BY <1>0, <2>1, <2>2, StreamsKept DEF Books
  <2>4. FrameTypes' /\ OwnWork' /\ UnderMutex' /\ Newcomers' /\ ReadsWhole'
    BY <1>0, <2>1 DEF Books, FrameTypes, OwnWork, UnderMutex, Newcomers, ReadsWhole
  <2>. QED
    BY <2>3, <2>4 DEF FramesInv
<1>. QED
  BY <1>1, <1>2, <1>3, <1>4, <1>5, <1>6, <1>7, <1>8, <1>9, <1>10, ThreadNames
     DEF FramesNext, AcceptThread, Handler

(* Frames mix on a client's socket only when its own thread kicks it: broadcasts
   (tcpframing::writeFramed under m_tcpClientsMutex) and the handshake's frames
   reach every other client whole, and nothing precedes its own handshake. *)
THEOREM MixedOnlyEverByKicks == FramesSpec => []MixedOnlyByKicks
<1>1. FramesInv => MixedOnlyByKicks
  <2>. SUFFICES ASSUME FramesInv
                PROVE  MixedOnlyByKicks
    OBVIOUS
  <2>1. \A t \in Threads : job[t].kind \in Kinds \cup {"none"}
           /\ job[t].to \in Clients \cup {Nobody}
    BY JobFields DEF FramesInv, FrameTypes, Kind
  <2>2. \A c \in Clients : reader[c].left \in 0..KickSize
    BY DEF FramesInv, FrameTypes, ReaderType
  <2>3. FramesTypeOK
    BY <2>1, <2>2 DEF FramesInv, FrameTypes, UnderMutex, FramesTypeOK
  <2>4. HandshakeUndisturbed
    BY DEF FramesInv, Newcomers, HandshakeUndisturbed
  <2>. QED
    BY <2>3, <2>4 DEF FramesInv, MixedOnlyByKicks
<1>. QED
  BY <1>1, FramesInitially, FramesStep, PTL DEF FramesSpec

-----------------------------------------------------------------------------
(* The order of the mutexes.                                               *)

Outer == {"hm", "collected", "served"}
Net == {"players", "map"}
Rank == [m \in Mutex |-> CASE m \in Outer -> 1 [] m = "world" -> 2 [] OTHER -> 3]

Has(h, m) == \E i \in DOMAIN h : h[i] = m

\* A thread that holds h may take m: it comes after everything in h, or lets
\* its holder in again.  What a write is made under is taken with empty hands.
Ordered(h, m) ==
    \/ m \in Recursive /\ Has(h, m)
    \/ /\ \A k \in Mutex : Has(h, k) => Rank[k] < Rank[m]
       /\ m \in Net => h = <<>>

\* What a thread with h in its hands may do next.
Proper(role, s, h) ==
    IF s = <<>> THEN h = <<>>
    ELSE /\ Head(s).does \in {"take", "pass"} =>
              /\ Ordered(h, Head(s).mutex)
              /\ role = "physics" => Head(s).mutex \notin Net
         /\ Head(s).does = "drop" => h # <<>>
         /\ Head(s).does = "write" => role # "physics" /\ \A k \in Mutex : Has(h, k) => k \in Net

HeldAfter(h, i) ==
    IF i.does = "take" THEN Append(h, i.mutex) ELSE IF i.does = "drop" THEN Front(h) ELSE h

\* What is left of an operation keeps the order to its end: it is in a set of
\* such rests that has the next rest of each of its members.
Orderly(role, s, h) ==
    \E W \in SUBSET (Seq(Instruction) \X Seq(Mutex)) :
        /\ <<s, h>> \in W
        /\ \A x \in Seq(Instruction), y \in Seq(Mutex) : <<x, y>> \in W =>
              /\ Proper(role, x, y)
              /\ x # <<>> => <<Tail(x), HeldAfter(y, Head(x))>> \in W

\* A part of an operation that may stand before whatever may follow it.
Fits(role, s, h) ==
    /\ s \in Seq(Instruction) /\ h \in Seq(Mutex)
    /\ \A r \in Seq(Instruction) : Orderly(role, r, h) => Orderly(role, s \o r, h)

LockInv ==
    /\ todo \in [Thread -> Seq(Instruction)] /\ held \in [Thread -> Seq(Mutex)]
    /\ \A t \in Thread : Orderly(Role[t], todo[t], held[t])
    /\ \A t, u \in Thread : \A m \in Mutex : Holds(t, m) /\ Holds(u, m) => t = u

-----------------------------------------------------------------------------
LEMMA InstructionTypes ==
  /\ \A m \in Mutex : [does |-> "take", mutex |-> m] \in Instruction
  /\ \A m \in Mutex : [does |-> "drop", mutex |-> m] \in Instruction
  /\ \A m \in Mutex : [does |-> "pass", mutex |-> m] \in Instruction
  /\ [does |-> "write", mutex |-> "none"] \in Instruction
  /\ \A i \in Instruction : i.does \in {"take", "pass", "drop", "write"}
  /\ \A i \in Instruction : i.does # "write" => i.mutex \in Mutex
  BY DEF Instruction

LEMMA FrontOfAppend ==
  ASSUME NEW h \in Seq(Mutex), NEW m \in Mutex
  PROVE  Front(Append(h, m)) = h
  BY DEF Front

LEMMA FrontType ==
  ASSUME NEW h \in Seq(Mutex), h # <<>>
  PROVE  Front(h) \in Seq(Mutex) /\ \A k \in Mutex : Has(Front(h), k) => Has(h, k)
  BY DEF Front, Has

LEMMA HasAppend ==
  ASSUME NEW h \in Seq(Mutex), NEW m \in Mutex, NEW k \in Mutex
  PROVE  Has(Append(h, m), k) <=> Has(h, k) \/ k = m
  BY DEF Has

LEMMA HasNothing == \A k : ~Has(<<>>, k)
  BY DEF Has

LEMMA AfterType ==
  ASSUME NEW h \in Seq(Mutex), NEW i \in Instruction, i.does = "drop" => h # <<>>
  PROVE  HeldAfter(h, i) \in Seq(Mutex)
  BY InstructionTypes, FrontType DEF HeldAfter

LEMMA OneBefore ==
  ASSUME NEW i \in Instruction, NEW s \in Seq(Instruction)
  PROVE  /\ <<i>> \o s \in Seq(Instruction) /\ <<i>> \o s # <<>>
         /\ Head(<<i>> \o s) = i /\ Tail(<<i>> \o s) = s
  OBVIOUS

LEMMA OneMorePair ==
  ASSUME NEW A, NEW B, NEW V \in SUBSET (A \X B), NEW x \in A, NEW y \in B
  PROVE  V \cup {<<x, y>>} \in SUBSET (A \X B)
  OBVIOUS

(* What is left after a step keeps the order too. *)
LEMMA OrderlyGoesOn ==
  ASSUME NEW role, NEW s, NEW h, Orderly(role, s, h)
  PROVE  /\ s \in Seq(Instruction) /\ h \in Seq(Mutex)
         /\ Proper(role, s, h)
         /\ s # <<>> => Orderly(role, Tail(s), HeldAfter(h, Head(s)))
<1>1. PICK W \in SUBSET (Seq(Instruction) \X Seq(Mutex)) :
        /\ <<s, h>> \in W
        /\ \A x \in Seq(Instruction), y \in Seq(Mutex) : <<x, y>> \in W =>
              /\ Proper(role, x, y)
              /\ x # <<>> => <<Tail(x), HeldAfter(y, Head(x))>> \in W
  BY DEF Orderly
<1>2. s \in Seq(Instruction) /\ h \in Seq(Mutex)
  BY <1>1
<1>3. Proper(role, s, h) /\ (s # <<>> => <<Tail(s), HeldAfter(h, Head(s))>> \in W)
  BY <1>1, <1>2
<1>4. s # <<>> => Orderly(role, Tail(s), HeldAfter(h, Head(s)))
  BY <1>1, <1>3, Zenon DEF Orderly
<1> QED
  BY <1>2, <1>3, <1>4

(* An operation that is over, with nothing held, keeps it. *)
LEMMA OrderlyEnds == \A role : Orderly(role, <<>>, <<>>)
<1> SUFFICES ASSUME NEW role PROVE Orderly(role, <<>>, <<>>)
  OBVIOUS
<1> DEFINE W == {} \cup {<<(<<>>), (<<>>)>>}
<1>1. W \in SUBSET (Seq(Instruction) \X Seq(Mutex)) /\ <<(<<>>), (<<>>)>> \in W
  <2>1. <<>> \in Seq(Instruction) /\ <<>> \in Seq(Mutex)
    OBVIOUS
  <2>2. {} \in SUBSET (Seq(Instruction) \X Seq(Mutex))
    OBVIOUS
  <2>3. W \in SUBSET (Seq(Instruction) \X Seq(Mutex))
    BY <2>1, <2>2, OneMorePair, Zenon
  <2> QED
    BY <2>3, Zenon
<1>2. ASSUME NEW x \in Seq(Instruction), NEW y \in Seq(Mutex), <<x, y>> \in W
      PROVE  /\ Proper(role, x, y)
             /\ x # <<>> => <<Tail(x), HeldAfter(y, Head(x))>> \in W
  BY <1>2 DEF Proper
<1> HIDE DEF W
<1> QED
  BY <1>1, <1>2, Zenon DEF Orderly

(* One proper instruction before it keeps it. *)
LEMMA OrderlyBefore ==
  ASSUME NEW role, NEW i \in Instruction, NEW s \in Seq(Instruction), NEW h \in Seq(Mutex),
         Orderly(role, s, HeldAfter(h, i)), Proper(role, <<i>> \o s, h)
  PROVE  Orderly(role, <<i>> \o s, h)
<1>1. PICK V \in SUBSET (Seq(Instruction) \X Seq(Mutex)) :
        /\ <<s, HeldAfter(h, i)>> \in V
        /\ \A x \in Seq(Instruction), y \in Seq(Mutex) : <<x, y>> \in V =>
              /\ Proper(role, x, y)
              /\ x # <<>> => <<Tail(x), HeldAfter(y, Head(x))>> \in V
  BY DEF Orderly
<1> DEFINE W == V \cup {<<(<<i>> \o s), h>>}
<1>2. W \in SUBSET (Seq(Instruction) \X Seq(Mutex)) /\ <<(<<i>> \o s), h>> \in W
  <2>1. W \in SUBSET (Seq(Instruction) \X Seq(Mutex))
    <3>1. <<i>> \o s \in Seq(Instruction)
      BY OneBefore
    <3>2. V \in SUBSET (Seq(Instruction) \X Seq(Mutex))
      BY <1>1
    <3>3. ASSUME NEW x \in Seq(Instruction)
          PROVE  V \cup {<<x, h>>} \in SUBSET (Seq(Instruction) \X Seq(Mutex))
      BY <3>2
    <3> QED
      BY <3>1, <3>3, Zenon
  <2> QED
    BY <2>1, Zenon
<1>3. ASSUME NEW x \in Seq(Instruction), NEW y \in Seq(Mutex), <<x, y>> \in W
      PROVE  /\ Proper(role, x, y)
             /\ x # <<>> => <<Tail(x), HeldAfter(y, Head(x))>> \in W
  <2>1. CASE <<x, y>> \in V
    BY <1>1, <2>1
  <2>2. CASE x = <<i>> \o s /\ y = h
    <3>1. Tail(x) = s /\ Head(x) = i
      BY <2>2, OneBefore
    <3> QED
      BY <1>1, <2>2, <3>1
  <2> QED
    BY <1>3, <2>1, <2>2
<1> HIDE DEF W
<1> QED
  BY <1>2, <1>3, Zenon DEF Orderly

-----------------------------------------------------------------------------
(* How operations are put together.                                        *)

LEMMA NothingFits ==
  ASSUME NEW role, NEW h \in Seq(Mutex)
  PROVE  Fits(role, <<>>, h)
  BY ConcatEmptySeq DEF Fits

LEMMA ThenFits ==
  ASSUME NEW role, NEW a, NEW b, NEW h, Fits(role, a, h), Fits(role, b, h)
  PROVE  Fits(role, a \o b, h)
<1>0. a \o b \in Seq(Instruction)
  BY ConcatProperties DEF Fits
<1> SUFFICES ASSUME NEW r \in Seq(Instruction), Orderly(role, r, h)
             PROVE  Orderly(role, (a \o b) \o r, h)
  BY <1>0 DEF Fits
<1>1. b \o r \in Seq(Instruction) /\ Orderly(role, b \o r, h)
  BY ConcatProperties DEF Fits
<1>2. Orderly(role, a \o (b \o r), h)
  BY <1>1 DEF Fits
<1>3. (a \o b) \o r = a \o (b \o r)
  BY SMTT(30), ConcatAssociative DEF Fits
<1> QED
  BY <1>2, <1>3

LEMMA LeafFits ==
  ASSUME NEW role, NEW m \in Mutex, NEW h \in Seq(Mutex), Ordered(h, m),
         role = "physics" => m \notin Net
  PROVE  Fits(role, Leaf(m), h)
<1> DEFINE i == [does |-> "pass", mutex |-> m]
<1>1. i \in Instruction /\ HeldAfter(h, i) = h /\ Leaf(m) = <<i>> /\ i.does = "pass" /\ i.mutex = m
  BY InstructionTypes DEF HeldAfter, Leaf
<1> HIDE DEF i
<1> SUFFICES ASSUME NEW r \in Seq(Instruction), Orderly(role, r, h)
             PROVE  Orderly(role, <<i>> \o r, h)
  BY <1>1 DEF Fits
<1>2. Proper(role, <<i>> \o r, h)
  BY <1>1, OneBefore DEF Proper
<1> QED
  BY <1>1, <1>2, OrderlyBefore

LEMMA WriteFits ==
  ASSUME NEW role, NEW h \in Seq(Mutex), role # "physics", \A k \in Mutex : Has(h, k) => k \in Net
  PROVE  Fits(role, Write, h)
<1> DEFINE i == [does |-> "write", mutex |-> "none"]
<1>1. i \in Instruction /\ HeldAfter(h, i) = h /\ Write = <<i>> /\ i.does = "write"
  BY InstructionTypes DEF HeldAfter, Write
<1> HIDE DEF i
<1> SUFFICES ASSUME NEW r \in Seq(Instruction), Orderly(role, r, h)
             PROVE  Orderly(role, <<i>> \o r, h)
  BY <1>1 DEF Fits
<1>2. Proper(role, <<i>> \o r, h)
  BY <1>1, OneBefore DEF Proper
<1> QED
  BY <1>1, <1>2, OrderlyBefore

LEMMA HoldFits ==
  ASSUME NEW role, NEW m \in Mutex, NEW h \in Seq(Mutex), NEW inner, Ordered(h, m),
         role = "physics" => m \notin Net, Fits(role, inner, Append(h, m))
  PROVE  Fits(role, Hold(m, inner), h)
<1> DEFINE i == [does |-> "take", mutex |-> m]
           d == [does |-> "drop", mutex |-> m]
<1>1. i \in Instruction /\ HeldAfter(h, i) = Append(h, m) /\ i.does = "take" /\ i.mutex = m
  BY InstructionTypes DEF HeldAfter
<1>2. Append(h, m) \in Seq(Mutex) /\ Append(h, m) # <<>>
  BY AppendProperties
<1>3. d \in Instruction /\ HeldAfter(Append(h, m), d) = h /\ d.does = "drop"
  BY InstructionTypes, FrontOfAppend DEF HeldAfter
<1>4. Hold(m, inner) = <<i>> \o inner \o <<d>>
  BY DEF Hold
<1> HIDE DEF i, d
<1>5. inner \in Seq(Instruction) /\ <<i>> \in Seq(Instruction) /\ <<d>> \in Seq(Instruction)
  BY <1>1, <1>3 DEF Fits
<1> SUFFICES ASSUME NEW r \in Seq(Instruction), Orderly(role, r, h)
             PROVE  Orderly(role, (<<i>> \o inner \o <<d>>) \o r, h)
  <2>1. (<<i>> \o inner) \o <<d>> \in Seq(Instruction)
    BY <1>5, ConcatProperties
  <2> QED
    BY <1>4, <2>1 DEF Fits
<1>6. <<d>> \o r \in Seq(Instruction) /\ Orderly(role, <<d>> \o r, Append(h, m))
  <2>1. Proper(role, <<d>> \o r, Append(h, m))
    BY <1>2, <1>3, OneBefore DEF Proper
  <2> QED
    BY <1>2, <1>3, <2>1, OrderlyBefore, OneBefore
<1>7. inner \o (<<d>> \o r) \in Seq(Instruction)
         /\ Orderly(role, inner \o (<<d>> \o r), Append(h, m))
  BY <1>5, <1>6, ConcatProperties DEF Fits
<1>8. Orderly(role, <<i>> \o (inner \o (<<d>> \o r)), h)
  <2>1. Proper(role, <<i>> \o (inner \o (<<d>> \o r)), h)
    BY <1>1, <1>7, OneBefore DEF Proper
  <2> QED
    BY <1>1, <1>7, <2>1, OrderlyBefore
<1>9. (<<i>> \o inner \o <<d>>) \o r = <<i>> \o (inner \o (<<d>> \o r))
  <2>1. (<<i>> \o inner \o <<d>>) \o r = (<<i>> \o inner) \o (<<d>> \o r)
    BY <1>5, ConcatAssociative, ConcatProperties
  <2>2. (<<i>> \o inner) \o (<<d>> \o r) = <<i>> \o (inner \o (<<d>> \o r))
    BY <1>5, <1>6, ConcatAssociative
  <2> QED
    BY <2>1, <2>2
<1> QED
  BY <1>8, <1>9

-----------------------------------------------------------------------------
(* Every operation keeps the order.                                        *)

\* What may be held when Physics, or one of the last mutexes, is asked for.
Calls(h) == h \in Seq(Mutex) /\ \A k \in Mutex : Has(h, k) => k \in Outer
InWorld(h) == h \in Seq(Mutex) /\ \A k \in Mutex : Has(h, k) => k \in Outer \cup {"world"}
Innermost == {"bodies", "targets", "owners", "endpoints", "events", "callbacks"}

LEMMA Ranks ==
  /\ \A m \in Mutex : Rank[m] \in 1..3
  /\ \A m \in Outer : m \in Mutex /\ Rank[m] = 1
  /\ "world" \in Mutex /\ Rank["world"] = 2
  /\ \A m \in Innermost \cup Net : m \in Mutex /\ Rank[m] = 3
  /\ Innermost \cap Net = {} /\ Outer \cap Net = {} /\ "world" \notin Net
<1> DEFINE f(m) == CASE m \in Outer -> 1 [] m = "world" -> 2 [] OTHER -> 3
<1>1. \A m \in Mutex : Rank[m] = f(m)
  BY DEF Rank
<1>2. "world" \notin Outer /\ Outer \subseteq Mutex /\ Innermost \subseteq Mutex
         /\ Net \subseteq Mutex
      /\ "world" \in Mutex /\ (Innermost \cup Net) \cap (Outer \cup {"world"}) = {}
      /\ Innermost \cap Net = {} /\ Outer \cap Net = {} /\ "world" \notin Net
  BY DEF Outer, Mutex, Innermost, Net
<1> QED
  BY <1>1, <1>2

LEMMA EmptyHands ==
  /\ \A m \in Mutex : Ordered(<<>>, m)
  /\ <<>> \in Seq(Mutex) /\ Calls(<<>>) /\ InWorld(<<>>)
  BY HasNothing DEF Ordered, Calls, InWorld

LEMMA HoldingOuter ==
  ASSUME NEW h, Calls(h), NEW m \in Outer
  PROVE  Calls(Append(h, m)) /\ Has(Append(h, m), m)
<1>1. m \in Mutex
  BY Ranks
<1> QED
  BY <1>1, HasAppend, AppendProperties DEF Calls

LEMMA HoldingWorld ==
  ASSUME NEW h, Calls(h)
  PROVE  InWorld(Append(h, "world")) /\ Ordered(h, "world") /\ InWorld(h)
<1>1. InWorld(Append(h, "world")) /\ InWorld(h)
  BY Ranks, HasAppend, AppendProperties DEF Calls, InWorld
<1>2. Ordered(h, "world")
  BY Ranks DEF Calls, Ordered
<1> QED
  BY <1>1, <1>2

LEMMA InnermostFits ==
  ASSUME NEW role, NEW h, InWorld(h), NEW m \in Innermost
  PROVE  Fits(role, Leaf(m), h)
<1>1. m \in Mutex /\ m \notin Net
  BY Ranks
<1>2. \A k \in Mutex : Has(h, k) => Rank[k] < Rank[m]
  BY Ranks DEF InWorld
<1>3. Ordered(h, m)
  BY <1>1, <1>2 DEF Ordered
<1> QED
  BY <1>1, <1>3, LeafFits DEF InWorld

LEMMA InnermostOnes ==
  {"bodies", "targets", "owners", "endpoints", "events", "callbacks"} = Innermost
  BY DEF Innermost

LEMMA WorldFits ==
  ASSUME NEW role, NEW h, Calls(h), NEW inner, Fits(role, inner, Append(h, "world"))
  PROVE  Fits(role, Hold("world", inner), h)
<1>1. h \in Seq(Mutex) /\ "world" \in Mutex /\ "world" \notin Net
  BY Ranks DEF Calls
<1> QED
  BY <1>1, HoldingWorld, HoldFits

LEMMA OuterFits ==
  ASSUME NEW role, NEW h, NEW m \in Outer, NEW inner,
         h = <<>> \/ (Calls(h) /\ Has(h, m) /\ m \in Recursive), Fits(role, inner, Append(h, m))
  PROVE  Fits(role, Hold(m, inner), h)
<1>1. m \in Mutex /\ m \notin Net
  BY Ranks
<1>2. Ordered(h, m) /\ h \in Seq(Mutex)
  BY <1>1, EmptyHands DEF Ordered, Calls
<1> QED
  BY <1>1, <1>2, HoldFits

(* Physics, called with mutexes of its callers held. *)
LEMMA PhysicsFits ==
  ASSUME NEW role, NEW h, Calls(h)
  PROVE  /\ Fits(role, MakeBody, h) /\ Fits(role, DestroyBody, h)
         /\ \A local \in BOOLEAN : Fits(role, SetMode(local), h)
         /\ Fits(role, PropertyChanged, h)
<1> DEFINE w == Append(h, "world")
<1>1. Fits(role, Leaf("bodies"), w) /\ Fits(role, Leaf("targets"), w)
         /\ Fits(role, Leaf("targets"), h)
  BY HoldingWorld, InnermostFits, InnermostOnes
<1> HIDE DEF w
<1>2. /\ Fits(role, Leaf("bodies") \o Leaf("targets"), w)
      /\ Fits(role, Leaf("targets") \o Leaf("bodies"), w)
      /\ Fits(role, Leaf("bodies") \o Leaf("bodies"), w)
  BY <1>1, ThenFits
<1>3. ASSUME NEW inner, Fits(role, inner, w)
      PROVE  Fits(role, Hold("world", inner), h)
  BY <1>3, WorldFits DEF w
<1>4. Fits(role, MakeBody, h) /\ Fits(role, DestroyBody, h)
  BY <1>1, <1>2, <1>3 DEF MakeBody, DestroyBody
<1>5. ASSUME NEW local \in BOOLEAN
      PROVE  Fits(role, SetMode(local), h)
  <2>1. CASE local
    BY <1>2, <1>3, <2>1 DEF SetMode
  <2>2. CASE ~local
    BY <1>2, <1>3, <2>2 DEF SetMode
  <2> QED
    BY <2>1, <2>2
<1>6. Fits(role, PropertyChanged, h)
  BY <1>1, <1>2, <1>3, ThenFits DEF PropertyChanged
<1> QED
  BY <1>4, <1>5, <1>6

LEMMA StepsFit ==
  ASSUME NEW role
  PROVE  /\ Fits(role, DestroyPart, <<>>) /\ Fits(role, DestroyRig, <<>>)
         /\ Fits(role, DestroyRig, <<"hm">>)
         /\ Fits(role, Follow, <<>>)
         /\ \A o \in Steps : Fits(role, o, <<>>)
<1>1. "hm" \in Outer /\ "hm" \in Recursive /\ Append(<<>>, "hm") = <<"hm">>
  BY DEF Outer, Recursive
<1>2. Calls(<<>>) /\ Calls(<<"hm">>) /\ Has(<<"hm">>, "hm")
  BY <1>1, EmptyHands, HoldingOuter
<1>3. Calls(Append(<<"hm">>, "hm"))
  BY <1>1, <1>2, HoldingOuter
<1>4. Fits(role, DestroyPart, <<>>)
  BY <1>2, PhysicsFits DEF DestroyPart
<1>5. Fits(role, DestroyRig, <<>>)
  <2>1. Fits(role, Hold("hm", DestroyBody \o DestroyBody), <<>>)
    BY <1>1, <1>2, PhysicsFits, ThenFits, OuterFits
  <2> QED
    BY <1>2, <2>1, PhysicsFits, ThenFits DEF DestroyRig
<1>6. Fits(role, DestroyRig, <<"hm">>)
  <2>1. Fits(role, Hold("hm", DestroyBody \o DestroyBody), <<"hm">>)
    BY <1>1, <1>2, <1>3, PhysicsFits, ThenFits, OuterFits
  <2> QED
    BY <1>2, <2>1, PhysicsFits, ThenFits DEF DestroyRig
<1>7. Fits(role, Follow, <<>>)
  <2> DEFINE w == Append(<<>>, "world")
  <2>1. InWorld(w) /\ w \in Seq(Mutex) /\ "targets" \in Innermost
    BY <1>2, HoldingWorld DEF InWorld, Innermost
  <2> HIDE DEF w
  <2>2. "targets" \in Mutex /\ "targets" \notin Net /\ Ordered(w, "targets")
    BY <2>1, Ranks DEF InWorld, Ordered
  <2>3. Append(w, "targets") \in Seq(Mutex)
    BY <2>1, <2>2, AppendProperties
  <2>4. Fits(role, Hold("targets", Moved), w)
    BY <2>1, <2>2, <2>3, NothingFits, HoldFits DEF Moved
  <2> QED
    BY <1>2, <2>4, WorldFits DEF Follow, w
<1>8. ASSUME NEW rest, Fits(role, rest, <<>>)
      PROVE  Fits(role, Step(rest), <<>>)
  <2>1. Fits(role, Hold("world", Moved), <<>>)
    <3>1. Append(<<>>, "world") \in Seq(Mutex)
      BY <1>2, HoldingWorld DEF InWorld
    <3> QED
      BY <1>2, <3>1, NothingFits, WorldFits DEF Moved
  <2>2. Fits(role, Leaf("bodies"), <<>>)
    BY EmptyHands, InnermostFits, InnermostOnes
  <2> QED
    BY <1>8, <2>1, <2>2, ThenFits DEF Step
<1>9. \A o \in Steps : Fits(role, o, <<>>)
  <2>1. Fits(role, <<>>, <<>>)
    BY EmptyHands, NothingFits
  <2> QED
    BY <1>4, <1>5, <1>8, <2>1 DEF Steps
<1> QED
  BY <1>4, <1>5, <1>6, <1>7, <1>9

LEMMA HumanoidsFit ==
  ASSUME NEW role
  PROVE  /\ \A local \in BOOLEAN : Fits(role, CreateHumanoid(local), <<>>)
         /\ Fits(role, RemoveHumanoid, <<>>) /\ Fits(role, Jump, <<>>)
         /\ \A o \in UpdateHumanoids : Fits(role, o, <<>>)
<1> DEFINE h == <<"hm">>
<1>1. "hm" \in Outer /\ "hm" \in Recursive /\ "hm" \in Mutex /\ "hm" \notin Net
      /\ Append(<<>>, "hm") = h
  BY DEF Outer, Recursive, Mutex, Net
<1>2. Calls(h) /\ Has(h, "hm") /\ h \in Seq(Mutex)
  BY <1>1, EmptyHands, HoldingOuter DEF Calls
<1>3. Fits(role, DestroyRig, h)
  BY StepsFit
<1> HIDE DEF h
<1>4. /\ Fits(role, MakeBody, h) /\ Fits(role, DestroyBody, h)
      /\ \A local \in BOOLEAN : Fits(role, SetMode(local), h)
      /\ Fits(role, <<>>, h)
  BY <1>2, PhysicsFits, NothingFits
<1>5. ASSUME NEW inner, Fits(role, inner, h)
      PROVE  Fits(role, Hold("hm", inner), <<>>)
  BY <1>1, <1>5, OuterFits
<1>6. Fits(role, Leaf("hm"), h)
  <2>1. Ordered(h, "hm")
    BY <1>1, <1>2 DEF Ordered
  <2> QED
    BY <1>1, <1>2, <2>1, LeafFits
<1>7. ASSUME NEW local \in BOOLEAN
      PROVE  Fits(role, CreateHumanoid(local), <<>>)
  BY <1>4, <1>5, <1>6, ThenFits DEF CreateHumanoid
<1>8. Fits(role, RemoveHumanoid, <<>>)
  BY <1>3, <1>4, <1>5, ThenFits DEF RemoveHumanoid
<1>9. Fits(role, Jump, <<>>)
  <2>1. Fits(role, Leaf("world"), h)
    BY <1>2, HoldingWorld, Ranks, LeafFits
  <2> QED
    BY <1>5, <2>1 DEF Jump
<1>10. \A o \in UpdateHumanoids : Fits(role, o, <<>>)
  <2>1. /\ Fits(role, MakeBody \o SetMode(TRUE), h)
        /\ Fits(role, DestroyBody \o MakeBody, h)
        /\ Fits(role, DestroyBody \o MakeBody \o SetMode(TRUE), h)
    BY <1>4, ThenFits
  <2> QED
    BY <1>4, <1>5, <2>1 DEF UpdateHumanoids
<1> QED
  BY <1>7, <1>8, <1>9, <1>10

LEMMA ServerFits ==
  /\ \A o \in PlayerEvents : Fits("main", o, <<>>)
  /\ Fits("main", Rebuild(MakeBody), <<>>) /\ Fits("main", Rebuild(Leaf("bodies")), <<>>)
  /\ Fits("main", Hello, <<>>)
  /\ Fits("main", PhysicsPacket(Leaf("targets")), <<>>)
  /\ Fits("main", PhysicsPacket(Leaf("served") \o SetMode(FALSE) \o Leaf("targets")), <<>>)
  /\ \A owned \in BOOLEAN : Fits("physics", BroadcastUnowned(owned), <<>>)
<1>1. \A role, m : m \in Mutex /\ (role = "physics" => m \notin Net) => Fits(role, Leaf(m), <<>>)
  BY EmptyHands, LeafFits
<1>2. \A m \in Mutex : Fits("main", Leaf(m), <<>>)
  BY <1>1
<1>3. /\ \A m \in Innermost \cup Outer \cup Net \cup {"world"} : Fits("main", Leaf(m), <<>>)
      /\ "collected" \in Outer /\ "served" \in Outer /\ "hm" \in Outer
      /\ "players" \in Net /\ "map" \in Net
  BY <1>2, Ranks DEF Outer, Net
<1>4. /\ \A local \in BOOLEAN : Fits("main", CreateHumanoid(local), <<>>)
      /\ Fits("main", RemoveHumanoid, <<>>)
      /\ \A local \in BOOLEAN : Fits("main", SetMode(local), <<>>)
  BY HumanoidsFit, PhysicsFits, EmptyHands
<1>5. \A o \in PlayerEvents : Fits("main", o, <<>>)
  BY <1>3, <1>4, ThenFits, InnermostOnes DEF PlayerEvents
<1>6. ASSUME NEW body, Fits("main", body, Append(<<>>, "collected"))
      PROVE  Fits("main", Rebuild(body), <<>>)
  <2>1. Fits("main", SyncAndServe, <<>>)
    BY <1>3, ThenFits DEF SyncAndServe
  <2>2. Fits("main", Hold("collected", body), <<>>)
    BY <1>3, <1>6, EmptyHands, OuterFits
  <2> QED
    BY <2>1, <2>2, ThenFits DEF Rebuild
<1>7. Fits("main", Rebuild(MakeBody), <<>>) /\ Fits("main", Rebuild(Leaf("bodies")), <<>>)
  <2>1. Calls(Append(<<>>, "collected"))
    BY <1>3, EmptyHands, HoldingOuter
  <2>2. Fits("main", MakeBody, Append(<<>>, "collected"))
    BY <2>1, PhysicsFits
  <2>3. Fits("main", Leaf("bodies"), Append(<<>>, "collected"))
    BY <2>1, HoldingWorld, InnermostFits, InnermostOnes
  <2> QED
    BY <1>6, <2>2, <2>3
<1>8. Fits("main", Hello, <<>>)
  BY <1>3, ThenFits, InnermostOnes DEF Hello
<1>9. ASSUME NEW applied, Fits("main", applied, <<>>)
      PROVE  Fits("main", PhysicsPacket(applied), <<>>)
  BY <1>3, <1>9, ThenFits, InnermostOnes DEF PhysicsPacket
<1>10. /\ Fits("main", Leaf("targets"), <<>>)
       /\ Fits("main", Leaf("served") \o SetMode(FALSE) \o Leaf("targets"), <<>>)
  BY <1>3, <1>4, ThenFits, InnermostOnes
<1>11. ASSUME NEW owned \in BOOLEAN
       PROVE  Fits("physics", BroadcastUnowned(owned), <<>>)
  <2> DEFINE h == Append(<<>>, "served")
  <2>1. Calls(h) /\ InWorld(h)
    BY <1>3, EmptyHands, HoldingOuter, HoldingWorld
  <2> HIDE DEF h
  <2>2. Fits("physics", Leaf("owners"), h) /\ Fits("physics", SetMode(~owned), h)
    BY <2>1, PhysicsFits, InnermostFits, InnermostOnes
  <2>3. Fits("physics", Leaf("owners") \o SetMode(~owned), h)
    BY <2>2, ThenFits
  <2>4. Fits("physics", Hold("served", Leaf("owners") \o SetMode(~owned)), <<>>)
    BY <1>3, <2>3, OuterFits DEF h
  <2>5. Fits("physics", Leaf("endpoints"), <<>>)
    BY EmptyHands, InnermostFits, InnermostOnes
  <2> QED
    BY <2>4, <2>5, ThenFits DEF BroadcastUnowned
<1> QED
  BY <1>5, <1>7, <1>8, <1>9, <1>10, <1>11

(* The threads that write to peers. *)
LEMMA NetworkFits ==
  ASSUME NEW role, role # "physics"
  PROVE  /\ Fits(role, BroadcastReliable, <<>>) /\ Fits(role, Refusal, <<>>)
         /\ Fits(role, Handshake, <<>>) /\ Fits(role, Departure, <<>>)
<1>1. \A m \in Innermost \cup Net : Fits(role, Leaf(m), <<>>)
  BY EmptyHands, Ranks, LeafFits
<1>2. "players" \in Net /\ "map" \in Net
  BY DEF Net
<1>3. Fits(role, Write, <<>>)
  BY EmptyHands, HasNothing, WriteFits
<1>4. ASSUME NEW m \in Net
      PROVE  Fits(role, Hold(m, Write), <<>>)
  <2>1. m \in Mutex /\ Ordered(<<>>, m) /\ <<>> \in Seq(Mutex)
    BY EmptyHands, Ranks
  <2>2. /\ Append(<<>>, m) \in Seq(Mutex)
        /\ \A k \in Mutex : Has(Append(<<>>, m), k) => k \in Net
    BY <2>1, HasAppend, HasNothing, AppendProperties
  <2> QED
    BY <2>1, <2>2, WriteFits, HoldFits
<1>5. Fits(role, BroadcastReliable, <<>>)
  BY <1>2, <1>4 DEF BroadcastReliable
<1>6. Fits(role, Refusal, <<>>)
  BY <1>1, <1>2, <1>3, ThenFits DEF Refusal
<1>7. Fits(role, Handshake, <<>>)
  <2>1. Fits(role, Leaf("players") \o Write \o Leaf("players") \o Write \o Hold("map", Write), <<>>)
    BY <1>1, <1>2, <1>3, <1>4, ThenFits
  <2> QED
    BY <1>1, <1>2, <1>5, <2>1, ThenFits, InnermostOnes DEF Handshake
<1>8. Fits(role, Departure, <<>>)
  BY <1>1, <1>2, <1>5, ThenFits, InnermostOnes DEF Departure
<1> QED
  BY <1>5, <1>6, <1>7, <1>8

LEMMA OperationsFit ==
  ASSUME NEW role \in Roles, NEW o \in Operations[role]
  PROVE  Fits(role, o, <<>>)
<1>1. Calls(<<>>) /\ \A m \in Innermost : Fits(role, Leaf(m), <<>>)
  BY EmptyHands, InnermostFits
<1>2. CASE role = "main"
  <2>1. o \in PlayerEvents \cup {Rebuild(MakeBody), Rebuild(Leaf("bodies")), Hello,
                PhysicsPacket(Leaf("targets")),
                PhysicsPacket(Leaf("served") \o SetMode(FALSE) \o Leaf("targets"))}
    BY <1>2 DEF Operations
  <2> QED
    BY <1>2, <2>1, ServerFits
<1>3. CASE role = "physics"
  <2>1. o \in Steps \cup {Follow} \cup UpdateHumanoids
            \cup {BroadcastUnowned(owned) : owned \in BOOLEAN}
    BY <1>3 DEF Operations
  <2> QED
    BY <1>3, <2>1, ServerFits, StepsFit, HumanoidsFit
<1>4. CASE role \in {"accept", "serve"}
  <2>1. o \in {Refusal, Handshake, BroadcastReliable, Departure}
    BY <1>4 DEF Operations
  <2> QED
    BY <1>4, <2>1, NetworkFits
<1>5. CASE role = "frame"
  <2>1. o \in Steps \cup {Follow, PropertyChanged, DestroyPart, DestroyRig, Jump, Leaf("bodies"),
                        SetMode(TRUE), SetMode(FALSE), CreateHumanoid(TRUE)} \cup UpdateHumanoids
    BY <1>5 DEF Operations
  <2> QED
    BY <1>1, <2>1, StepsFit, HumanoidsFit, PhysicsFits, InnermostOnes
<1>6. CASE role = "tcp"
  <2>1. o \in {CreateHumanoid(FALSE), RemoveHumanoid}
    BY <1>6 DEF Operations
  <2> QED
    BY <2>1, HumanoidsFit
<1>7. CASE role = "udp"
  <2>1. o = Leaf("targets")
    BY <1>7 DEF Operations
  <2> QED
    BY <1>1, <2>1, InnermostOnes
<1> QED
  BY <1>2, <1>3, <1>4, <1>5, <1>6, <1>7 DEF Roles

-----------------------------------------------------------------------------
(* The threads together.                                                   *)

LEMMA HoldsHas == \A t, m : Holds(t, m) <=> Has(held[t], m)
  BY DEF Holds, Has

(* A thread that has something to do does the next thing properly. *)
LEMMA NowIsProper ==
  ASSUME LockInv, NEW t \in Thread, Now(t).does # "begin"
  PROVE  /\ todo[t] # <<>> /\ todo[t] \in Seq(Instruction) /\ Now(t) = Head(todo[t])
         /\ Now(t) \in Instruction
         /\ held[t] \in Seq(Mutex) /\ Proper(Role[t], todo[t], held[t])
         /\ Orderly(Role[t], Tail(todo[t]), HeldAfter(held[t], Now(t)))
         /\ Now(t).does \in {"take", "pass"} =>
              /\ Now(t).mutex \in Mutex
              /\ Ordered(held[t], Now(t).mutex)
              /\ Role[t] = "physics" => Now(t).mutex \notin Net
<1>1. todo[t] # <<>> /\ Now(t) = Head(todo[t])
  BY DEF Now
<1>2. todo[t] \in Seq(Instruction) /\ held[t] \in Seq(Mutex) /\ Orderly(Role[t], todo[t], held[t])
  BY DEF LockInv
<1>3. /\ Proper(Role[t], todo[t], held[t])
      /\ Orderly(Role[t], Tail(todo[t]), HeldAfter(held[t], Now(t)))
  BY <1>1, <1>2, OrderlyGoesOn
<1>4. Now(t) \in Instruction
  BY <1>1, <1>2, HeadTailProperties
<1>5. Now(t).does \in {"take", "pass"} =>
        /\ Now(t).mutex \in Mutex
        /\ Ordered(held[t], Now(t).mutex)
        /\ Role[t] = "physics" => Now(t).mutex \notin Net
  BY <1>1, <1>3, <1>4, InstructionTypes DEF Proper
<1> QED
  BY <1>1, <1>2, <1>3, <1>4, <1>5

(* What one thread does by the order leaves the invariant, if what it holds *)
(* then nobody else holds.                                                  *)
LEMMA ThreadMoves ==
  ASSUME LockInv, NEW t \in Thread, NEW s \in Seq(Instruction), NEW h \in Seq(Mutex),
         todo' = [todo EXCEPT ![t] = s], held' = [held EXCEPT ![t] = h],
         Orderly(Role[t], s, h),
         \A u \in Thread, m \in Mutex : Has(h, m) /\ Has(held[u], m) => u = t
  PROVE  LockInv'
<1>1. todo' \in [Thread -> Seq(Instruction)] /\ held' \in [Thread -> Seq(Mutex)]
  BY DEF LockInv
<1>2. /\ todo'[t] = s /\ held'[t] = h
      /\ \A u \in Thread : u # t => todo'[u] = todo[u] /\ held'[u] = held[u]
  BY DEF LockInv
<1>3. \A u \in Thread : Orderly(Role[u], todo'[u], held'[u])
  <2> SUFFICES ASSUME NEW u \in Thread PROVE Orderly(Role[u], todo'[u], held'[u])
    OBVIOUS
  <2> QED
    BY <1>2 DEF LockInv
<1>4. \A u, v \in Thread : \A m \in Mutex : Has(held'[u], m) /\ Has(held'[v], m) => u = v
  <2> SUFFICES ASSUME NEW u \in Thread, NEW v \in Thread, NEW m \in Mutex,
                      Has(held'[u], m), Has(held'[v], m)
               PROVE  u = v
    OBVIOUS
  <2>1. \A x, y \in Thread : Has(held[x], m) /\ Has(held[y], m) => x = y
    BY HoldsHas DEF LockInv
  <2> QED
    BY <1>2, <2>1
<1>5. \A u, m : Holds(u, m)' <=> Has(held'[u], m)
  BY DEF Holds, Has
<1>6. (\A u, v \in Thread : \A m \in Mutex : Holds(u, m) /\ Holds(v, m) => u = v)'
  BY <1>4, <1>5, Zenon
<1> QED
  BY <1>1, <1>3, <1>6, Zenon DEF LockInv

LEMMA LockStep ==
  ASSUME LockInv, LockNext
  PROVE  LockInv'
<1> PICK t \in Thread : Begin(t) \/ Acquire(t) \/ Pass(t) \/ Drop(t) \/ Sent(t)
  BY DEF LockNext
<1>0. /\ held[t] \in Seq(Mutex) /\ todo[t] \in Seq(Instruction)
      /\ held = [held EXCEPT ![t] = held[t]]
      /\ \A u \in Thread, m \in Mutex : Has(held[t], m) /\ Has(held[u], m) => u = t
  BY HoldsHas DEF LockInv
<1>1. CASE Begin(t)
  <2>1. PICK o \in Operations[Role[t]] : todo' = [todo EXCEPT ![t] = o]
    BY <1>1 DEF Begin
  <2>2. held[t] = <<>>
    BY <1>1, OrderlyGoesOn DEF LockInv, Begin, Proper
  <2>3. Fits(Role[t], o, <<>>)
    BY RoleAssumption, OperationsFit
  <2>4. o \in Seq(Instruction) /\ Orderly(Role[t], o, <<>>)
    <3>1. <<>> \in Seq(Instruction) /\ Orderly(Role[t], <<>>, <<>>)
      BY OrderlyEnds, EmptySeq
    <3>2. o \in Seq(Instruction) /\ Orderly(Role[t], o \o <<>>, <<>>)
      BY <2>3, <3>1, Zenon DEF Fits
    <3> QED
      BY <3>2, ConcatEmptySeq
  <2>5. held' = [held EXCEPT ![t] = held[t]] /\ Orderly(Role[t], o, held[t])
    BY <1>0, <1>1, <2>2, <2>4 DEF Begin
  <2> QED
    BY <1>0, <2>1, <2>4, <2>5, ThreadMoves
<1>2. CASE Acquire(t)
  <2>1. /\ Now(t).does = "take" /\ WaitsFor(t) = {}
        /\ todo' = [todo EXCEPT ![t] = Tail(todo[t])]
        /\ held' = [held EXCEPT ![t] = Append(held[t], Now(t).mutex)]
    BY <1>2 DEF Acquire
  <2>2. /\ Now(t).mutex \in Mutex /\ Tail(todo[t]) \in Seq(Instruction)
        /\ Orderly(Role[t], Tail(todo[t]), Append(held[t], Now(t).mutex))
    BY <2>1, NowIsProper, HeadTailProperties DEF HeldAfter
  <2>3. Append(held[t], Now(t).mutex) \in Seq(Mutex)
    BY <1>0, <2>2, AppendProperties
  <2>4. \A u \in Thread : Has(held[u], Now(t).mutex) => u = t
    BY <2>1, HoldsHas DEF WaitsFor
  <2>5. \A u \in Thread, m \in Mutex :
           Has(Append(held[t], Now(t).mutex), m) /\ Has(held[u], m) => u = t
    BY <1>0, <2>2, <2>4, HasAppend
  <2> QED
    BY <2>1, <2>2, <2>3, <2>5, ThreadMoves
<1>3. CASE Pass(t)
  <2>1. Now(t).does = "pass" /\ todo' = [todo EXCEPT ![t] = Tail(todo[t])] /\ held' = held
    BY <1>3 DEF Pass
  <2>2. Tail(todo[t]) \in Seq(Instruction) /\ Orderly(Role[t], Tail(todo[t]), held[t])
    BY <2>1, NowIsProper, HeadTailProperties DEF HeldAfter
  <2> QED
    BY <1>0, <2>1, <2>2, ThreadMoves
<1>4. CASE Drop(t)
  <2>1. /\ Now(t).does = "drop" /\ todo' = [todo EXCEPT ![t] = Tail(todo[t])]
        /\ held' = [held EXCEPT ![t] = Front(held[t])]
    BY <1>4 DEF Drop
  <2>2. /\ Tail(todo[t]) \in Seq(Instruction) /\ held[t] # <<>>
        /\ Orderly(Role[t], Tail(todo[t]), Front(held[t]))
    BY <2>1, NowIsProper, HeadTailProperties DEF HeldAfter, Proper
  <2>3. /\ Front(held[t]) \in Seq(Mutex)
        /\ \A m \in Mutex : Has(Front(held[t]), m) => Has(held[t], m)
    BY <1>0, <2>2, FrontType
  <2> QED
    BY <1>0, <2>1, <2>2, <2>3, ThreadMoves
<1>5. CASE Sent(t)
  <2>1. Now(t).does = "write" /\ todo' = [todo EXCEPT ![t] = Tail(todo[t])] /\ held' = held
    BY <1>5 DEF Sent
  <2>2. Tail(todo[t]) \in Seq(Instruction) /\ Orderly(Role[t], Tail(todo[t]), held[t])
    BY <2>1, NowIsProper, HeadTailProperties DEF HeldAfter
  <2> QED
    BY <1>0, <2>1, <2>2, ThreadMoves
<1> QED
  BY <1>1, <1>2, <1>3, <1>4, <1>5

LEMMA LockStart == LockInit => LockInv
<1> SUFFICES ASSUME LockInit PROVE LockInv
  OBVIOUS
<1>1. /\ todo \in [Thread -> Seq(Instruction)] /\ held \in [Thread -> Seq(Mutex)]
      /\ \A t \in Thread : todo[t] = <<>> /\ held[t] = <<>>
  BY DEF LockInit
<1>2. \A t \in Thread : Orderly(Role[t], todo[t], held[t])
  BY <1>1, OrderlyEnds
<1>3. \A t \in Thread : \A m \in Mutex : ~Holds(t, m)
  BY <1>1, HasNothing, HoldsHas
<1> QED
  BY <1>1, <1>2, <1>3 DEF LockInv

(* Whoever is waited for and waits wants a mutex of a higher rank. *)
LEMMA HolderWantsMore ==
  ASSUME LockInv, NEW t \in Thread, NEW u \in WaitsFor(t), WaitsFor(u) # {}
  PROVE  /\ u \in Thread /\ Now(t).mutex \in Mutex /\ Now(u).mutex \in Mutex
         /\ Rank[Now(t).mutex] < Rank[Now(u).mutex]
<1>1. /\ Now(t).does \in {"take", "pass"} /\ Now(u).does \in {"take", "pass"}
      /\ u \in Thread /\ Has(held[u], Now(t).mutex)
  BY HoldsHas DEF WaitsFor
<1>2. Now(t).mutex \in Mutex /\ Now(u).mutex \in Mutex /\ Ordered(held[u], Now(u).mutex)
  BY <1>1, NowIsProper
<1>3. ~(Now(u).mutex \in Recursive /\ Has(held[u], Now(u).mutex))
  <2> SUFFICES ASSUME Now(u).mutex \in Recursive, Has(held[u], Now(u).mutex) PROVE FALSE
    OBVIOUS
  <2>1. PICK v \in Thread : Holds(v, Now(u).mutex) /\ v # u
    BY <1>1 DEF WaitsFor
  <2> QED
    BY <1>1, <1>2, <2>1, HoldsHas DEF LockInv
<1> QED
  BY <1>1, <1>2, <1>3 DEF Ordered

LEMMA NobodyLocked == LockInv => NoDeadlock
<1> SUFFICES ASSUME LockInv PROVE NoDeadlock
  OBVIOUS
<1>1. ASSUME NEW group \in SUBSET Thread, \A t \in group : WaitsFor(t) # {},
             \A t \in group : WaitsFor(t) \cap group # {}
      PROVE  group = {}
  <2>1. \A t \in group : \E u \in group :
          /\ Now(t).mutex \in Mutex /\ Now(u).mutex \in Mutex
          /\ Rank[Now(t).mutex] < Rank[Now(u).mutex]
    <3> SUFFICES ASSUME NEW t \in group
                 PROVE  \E u \in group : /\ Now(t).mutex \in Mutex /\ Now(u).mutex \in Mutex
                                         /\ Rank[Now(t).mutex] < Rank[Now(u).mutex]
      OBVIOUS
    <3>1. PICK u \in group : u \in WaitsFor(t)
      BY <1>1
    <3> QED
      BY <1>1, <3>1, HolderWantsMore
  <2> DEFINE rank(t) == Rank[Now(t).mutex]
  <2>2. \A t \in group : rank(t) \in 1..3 /\ \E u \in group : rank(t) < rank(u)
    BY <2>1, Ranks
  <2> HIDE DEF rank
  <2>3. \A t \in group : rank(t) # 3
    BY <2>2
  <2>4. \A t \in group : rank(t) # 2
    BY <2>2, <2>3
  <2>5. \A t \in group : rank(t) # 1
    BY <2>2, <2>3, <2>4
  <2> QED
    BY <2>2, <2>3, <2>4, <2>5
<1>2. \A group \in SUBSET {t \in Thread : WaitsFor(t) # {}} :
         group # {} => \E t \in group : WaitsFor(t) \cap group = {}
  BY <1>1
<1> DEFINE waits == [t \in Thread |-> WaitsFor(t)]
<1>3. \A t \in Thread : waits[t] = WaitsFor(t)
  OBVIOUS
<1> HIDE DEF waits
<1>4. \A group \in (SUBSET {t \in Thread : waits[t] # {}}) \ {{}} :
         \E t \in group : waits[t] \cap group = {}
  <2> SUFFICES ASSUME NEW group \in SUBSET {t \in Thread : waits[t] # {}}, group # {}
               PROVE  \E t \in group : waits[t] \cap group = {}
    OBVIOUS
  <2>1. group \in SUBSET {t \in Thread : WaitsFor(t) # {}}
    BY <1>3
  <2>2. PICK t \in group : WaitsFor(t) \cap group = {}
    BY <1>2, <2>1
  <2> QED
    BY <1>3, <2>2
<1> QED
  BY <1>4, Zenon DEF NoDeadlock, waits

LEMMA PhysicsGoesOn == LockInv => PeersDoNotStopPhysics
<1> SUFFICES ASSUME LockInv, NEW t \in Thread, Role[t] = "physics" PROVE ~HeldUp(t)
  BY DEF PeersDoNotStopPhysics
<1> DEFINE S == Writing \cup {u \in Thread : WaitsFor(u) # {} /\ Now(u).mutex \in Net}
<1>1. S \subseteq Writing \cup {u \in Thread : WaitsFor(u) # {}} /\ Writing \subseteq S
  OBVIOUS
<1>2. ASSUME NEW u \in Thread, NEW v \in WaitsFor(u), v \in S
      PROVE  u \in S
  <2>1. v \in Thread /\ Has(held[v], Now(u).mutex) /\ Now(u).does \in {"take", "pass"}
    BY <1>2, HoldsHas DEF WaitsFor
  <2>2. Now(u).mutex \in Mutex
    BY <2>1, NowIsProper
  <2>3. CASE v \in Writing
    <3>1. \A k \in Mutex : Has(held[v], k) => k \in Net
      BY <2>1, <2>3, NowIsProper DEF Writing, Proper
    <3> QED
      BY <2>1, <2>2, <3>1
  <2>4. CASE WaitsFor(v) # {} /\ Now(v).mutex \in Net
    <3>1. Now(v).does \in {"take", "pass"}
      BY <2>4 DEF WaitsFor
    <3>2. Ordered(held[v], Now(v).mutex) /\ Now(v).mutex \notin Recursive
      BY <2>1, <2>4, <3>1, NowIsProper DEF Net, Recursive
    <3>3. held[v] = <<>>
      BY <2>4, <3>2 DEF Ordered
    <3> QED
      BY <2>1, <3>3, HasNothing
  <2> QED
    BY <1>2, <2>3, <2>4
<1>3. t \notin S
  <2>1. t \notin Writing
    BY NowIsProper DEF Writing, Proper
  <2>2. WaitsFor(t) # {} => Now(t).mutex \notin Net
    <3>1. WaitsFor(t) # {} => Now(t).does \in {"take", "pass"}
      BY DEF WaitsFor
    <3> QED
      BY <3>1, NowIsProper
  <2> QED
    BY <2>1, <2>2
<1> HIDE DEF S
<1> QED
  BY <1>1, <1>2, <1>3 DEF HeldUp

(* Whatever threads of these kinds a process has, no group of them waits   *)
(* for one another, and its physics thread never waits for a peer.         *)
THEOREM LocksAlwaysSafe == LockSpec => []LocksAreSafe
<1>1. LockInit => LockInv
  BY LockStart
<1>2. LockInv /\ [LockNext]_lockVars => LockInv'
  <2> SUFFICES ASSUME LockInv, [LockNext]_lockVars PROVE LockInv'
    OBVIOUS
  <2>1. CASE LockNext
    BY <2>1, LockStep
  <2>2. CASE UNCHANGED lockVars
    <3>1. todo' = todo /\ held' = held
      BY <2>2 DEF lockVars
    <3>2. \A t, m : Holds(t, m)' <=> Holds(t, m)
      BY <3>1 DEF Holds
    <3> QED
      BY <3>1, <3>2, Zenon DEF LockInv
  <2> QED
    BY <2>1, <2>2
<1>3. LockInv => LocksAreSafe
  <2>1. LockInv => LocksTypeOK
    <3> SUFFICES ASSUME LockInv PROVE LocksTypeOK
      OBVIOUS
    <3>1. \A t \in Thread : todo[t] = <<>> => held[t] = <<>>
      BY OrderlyGoesOn DEF LockInv, Proper
    <3> QED
      BY <3>1 DEF LockInv, LocksTypeOK
  <2> QED
    BY <2>1, NobodyLocked, PhysicsGoesOn DEF LocksAreSafe
<1> QED
  BY <1>1, <1>2, <1>3, PTL DEF LockSpec
===============================================================================
