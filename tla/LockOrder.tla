---- MODULE LockOrder ----
(***************************************************************************)
(* The mutexes of the game, and the order in which its threads take them.  *)
(* An operation is the sequence of mutexes it takes and gives back, with   *)
(* the blocking writes to a peer it makes in between; a section in which   *)
(* nothing can block (a leaf) is one step. The bodies of the operations    *)
(* are in the other modules; a loop over objects is one turn of it, for    *)
(* between two turns it holds the same mutexes.                            *)
(*                                                                         *)
(* Mutexes:  hm        HumanoidManager::m_mutex (recursive)                *)
(*           world     Physics::m_worldMutex (recursive)                   *)
(*           bodies    Physics::m_bodiesMutex                              *)
(*           targets   Physics::m_networkTargetsMutex                      *)
(*           collected ServerReplicator::m_networkPartsMutex               *)
(*           served    GameServer::m_networkPartsMutex                     *)
(*           events    GameServer::m_playerEventsMutex                     *)
(*           players   Server::m_tcpClientsMutex                           *)
(*           endpoints Server::m_clientsMutex                              *)
(*           owners    Server::m_objectOwnersMutex                         *)
(*           map       Server::m_mapDataMutex                              *)
(*           callbacks Server::m_playerCallbacksMutex                      *)
(***************************************************************************)
EXTENDS Sequences, SequencesExt, FiniteSets

CONSTANTS
    Thread,  \* the threads of one process
    Role     \* thread -> what it runs

Roles == {"main", "physics", "accept", "serve",   \* of a server
          "frame", "tcp", "udp"}                  \* of a client
ASSUME RoleAssumption == Role \in [Thread -> Roles]

VARIABLES
    todo,  \* thread -> what is left of the operation it is in
    held   \* thread -> the mutexes it holds, in the order taken

lockVars == <<todo, held>>

Mutex == {"hm", "world", "bodies", "targets", "collected", "served", "events", "players",
          "endpoints", "owners", "map", "callbacks"}
Recursive == {"hm", "world"}
Instruction == [does : {"take", "drop", "pass"}, mutex : Mutex]
               \cup {[does |-> "write", mutex |-> "none"]}

Write == <<[does |-> "write", mutex |-> "none"]>>
Hold(m, inner) ==
    <<[does |-> "take", mutex |-> m]>> \o inner \o <<[does |-> "drop", mutex |-> m]>>
Leaf(m) == <<[does |-> "pass", mutex |-> m]>>

------------------------------------------------------------------------------
(* Physics *)

MakeBody == Hold("world", Leaf("bodies"))
DestroyBody == Hold("world", Leaf("bodies") \o Leaf("targets"))
SetMode(local) ==
    Hold("world", IF local THEN Leaf("targets") \o Leaf("bodies")
                  ELSE Leaf("bodies") \o Leaf("targets"))

\* The listener bindToWorkspace registers for changed properties.
PropertyChanged == Hold("world", Leaf("bodies") \o Leaf("bodies")) \o Leaf("targets")

\* What happens when a motion state takes over a transform: it moves the part
\* silently, so no listener runs.
Moved == <<>>

Follow == Hold("world", Hold("targets", Moved))

\* Destroying an instance calls the listeners: Physics for a part, the
\* HumanoidManager for a rig.
DestroyPart == DestroyBody
DestroyRig == Hold("hm", DestroyBody \o DestroyBody) \o DestroyBody

\* A step simulates, looks for bodies that fell, and destroys their instances.
\* Defect: the fallen are destroyed before the world is given back.
StepInOneScope(fallen) == Hold("world", Moved \o Leaf("bodies") \o fallen)
Step(fallen) == Hold("world", Moved) \o Leaf("bodies") \o fallen

Steps == {Step(<<>>), Step(DestroyPart), Step(DestroyRig)}

------------------------------------------------------------------------------
(* HumanoidManager *)

CreateHumanoid(local) == Hold("hm", MakeBody \o SetMode(local) \o Leaf("hm"))
RemoveHumanoid == Hold("hm", DestroyBody \o DestroyRig)
Jump == Hold("hm", Leaf("world"))
UpdateHumanoids ==
    {Hold("hm", s) : s \in {<<>>,
                            MakeBody \o SetMode(TRUE),                    \* adopts a rig
                            DestroyBody \o MakeBody,                      \* kills
                            DestroyBody \o MakeBody \o SetMode(TRUE)}}  \* respawns

------------------------------------------------------------------------------
(* GameServer and Server *)

BroadcastUnowned(owned) ==
    Hold("served", Leaf("owners") \o SetMode(~owned)) \o Leaf("endpoints")

PlayerEvents == {Leaf("events") \o CreateHumanoid(FALSE), Leaf("events") \o RemoveHumanoid}

SyncAndServe == Leaf("collected") \o Leaf("served") \o Leaf("map")
Rebuild(body) == Hold("collected", body) \o SyncAndServe

Hello == Leaf("players") \o Leaf("endpoints")
PhysicsPacket(applied) ==
    Leaf("players") \o Leaf("owners") \o Leaf("hm") \o applied \o Leaf("endpoints")

BroadcastReliable == Hold("players", Write)
Refusal == Leaf("players") \o Write
Handshake ==
    Leaf("players") \o Write \o Leaf("players") \o Write \o Hold("map", Write)
        \o Leaf("players") \o BroadcastReliable \o Leaf("callbacks") \o Leaf("events")
Departure ==
    Leaf("players") \o Leaf("owners") \o BroadcastReliable \o Leaf("callbacks") \o Leaf("events")

------------------------------------------------------------------------------
\* What each kind of thread may do next.
Operations == [role \in Roles |->
    CASE role = "main" ->
            PlayerEvents \cup {Rebuild(MakeBody), Rebuild(Leaf("bodies")), Hello,
                PhysicsPacket(Leaf("targets")),
                PhysicsPacket(Leaf("served") \o SetMode(FALSE) \o Leaf("targets"))}
      [] role = "physics" ->
            Steps \cup {Follow} \cup UpdateHumanoids
            \cup {BroadcastUnowned(owned) : owned \in BOOLEAN}
      [] role = "accept" -> {Refusal, Handshake}
      [] role = "serve" -> {BroadcastReliable, Departure}
      [] role = "frame" ->
            Steps \cup {Follow, PropertyChanged, DestroyPart, DestroyRig, Jump, Leaf("bodies"),
                        SetMode(TRUE), SetMode(FALSE), CreateHumanoid(TRUE)} \cup UpdateHumanoids
      [] role = "tcp" -> {CreateHumanoid(FALSE), RemoveHumanoid}
      [] role = "udp" -> {Leaf("targets")}]

------------------------------------------------------------------------------
Now(t) == IF todo[t] = <<>> THEN [does |-> "begin", mutex |-> "none"] ELSE Head(todo[t])
Holds(t, m) == \E i \in DOMAIN held[t] : held[t][i] = m

\* Whom t waits for: whoever holds the mutex it is about to take, itself included
\* when that mutex does not let its holder in again.
WaitsFor(t) ==
    IF Now(t).does \notin {"take", "pass"} THEN {}
    ELSE LET m == Now(t).mutex
         IN  {u \in Thread : Holds(u, m) /\ (u # t \/ m \notin Recursive)}

LockInit ==
    /\ todo = [t \in Thread |-> <<>>]
    /\ held = [t \in Thread |-> <<>>]

Begin(t) ==
    /\ todo[t] = <<>>
    /\ \E o \in Operations[Role[t]] : todo' = [todo EXCEPT ![t] = o]
    /\ UNCHANGED held

Acquire(t) ==
    /\ Now(t).does = "take" /\ WaitsFor(t) = {}
    /\ held' = [held EXCEPT ![t] = Append(@, Now(t).mutex)]
    /\ todo' = [todo EXCEPT ![t] = Tail(@)]

\* Locks are scoped: the last one taken is the first one given back.
Drop(t) ==
    /\ Now(t).does = "drop"
    /\ held' = [held EXCEPT ![t] = Front(@)]
    /\ todo' = [todo EXCEPT ![t] = Tail(@)]

\* A leaf waits for its mutex, and gives it back before anybody can tell.
Pass(t) ==
    /\ Now(t).does = "pass" /\ WaitsFor(t) = {}
    /\ todo' = [todo EXCEPT ![t] = Tail(@)]
    /\ UNCHANGED held

\* A write ends when the peer has read enough, or has gone.
Sent(t) ==
    /\ Now(t).does = "write"
    /\ todo' = [todo EXCEPT ![t] = Tail(@)]
    /\ UNCHANGED held

LockNext == \E t \in Thread : Begin(t) \/ Acquire(t) \/ Pass(t) \/ Drop(t) \/ Sent(t)
LockSpec == LockInit /\ [][LockNext]_lockVars

------------------------------------------------------------------------------
\* Every thread is somewhere in an operation, with what it holds still to be
\* given back.
LocksTypeOK ==
    /\ todo \in [Thread -> Seq(Instruction)]
    /\ held \in [Thread -> Seq(Mutex)]
    /\ \A t \in Thread : todo[t] = <<>> => held[t] = <<>>

\* No group of threads waits for mutexes that only the group itself holds:
\* whatever main, physics and the network threads do at the same time, with tree
\* listeners called from inside the locks (physics.cpp:735,
\* humanoid_manager.cpp:147), somebody goes on and no thread locks itself out.
NoDeadlock ==
    LET waits == [t \in Thread |-> WaitsFor(t)]
        waiting == {t \in Thread : waits[t] # {}}
    IN  \A group \in (SUBSET waiting) \ {{}} : \E t \in group : waits[t] \cap group = {}

\* A peer that does not read holds up whoever writes to it, and whoever waits for
\* that thread.  The simulation is never among them.
Writing == {t \in Thread : Now(t).does = "write"}
HeldUp(t) ==
    LET waits == [u \in Thread |-> WaitsFor(u)]
        stuck == Writing \cup {u \in Thread : waits[u] # {}}
    IN  \A S \in SUBSET stuck :
            Writing \subseteq S /\ (\A u \in Thread : waits[u] \cap S # {} => u \in S) => t \in S
PeersDoNotStopPhysics == \A t \in Thread : Role[t] = "physics" => ~HeldUp(t)

\* The mutexes are safe: no set of threads waits for mutexes of one another, and
\* the physics thread is never held up, through mutexes however many, by a peer
\* that does not read what is written to it.
LocksAreSafe == LocksTypeOK /\ NoDeadlock /\ PeersDoNotStopPhysics
====
