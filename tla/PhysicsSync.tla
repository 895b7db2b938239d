----------------------------- MODULE PhysicsSync -----------------------------
(***************************************************************************)
(* The unreliable half of a game session: how clients and server agree on  *)
(* who simulates an object.  A client that touches an object simulates it  *)
(* and sends its state over UDP; the server records the sender as owner,   *)
(* makes its own body kinematic and relays the state; an object whose      *)
(* owner record is two seconds old is simulated by the server again.       *)
(*                                                                         *)
(* Four kinds of threads: the server's main thread (Server::update and the *)
(* physics callback), its physics thread (broadcastUnownedObjects), the    *)
(* thread of each client's TCP connection (only what it does to the        *)
(* registration and the owner records) and the clients.  Which objects a   *)
(* client claims and releases is free here; a packet carries one object.   *)
(* The state of a player's own body takes a path of its own in the         *)
(* callback (hasHumanoid) and is left out, and so is stop().               *)
(***************************************************************************)
EXTENDS Naturals, FiniteSets

CONSTANTS
    Player,
    Object,      \* unanchored parts of the map that have a body
    Server,      \* the server as author of a state
    Nobody,      \* no owner record, no target
    Claimant,    \* players that touch objects
    Timeout,     \* kOwnershipTimeout in ticks of the clock
    MaxInFlight  \* bound on the datagrams on their way

ASSUME PhysicsSyncAssumption ==
    /\ Server \notin Player
    /\ Nobody \notin Player \cup {Server}
    /\ Claimant \subseteq Player
    /\ Timeout \in Nat \ {0}
    /\ MaxInFlight \in Nat \ {0}

VARIABLES
    seat,       \* of a player: "joining", "registered", "erased", "left"
    alive,      \* players whose client program runs
    net,        \* datagrams on their way, in no order
    endpoints,  \* players in m_clients and m_udpPlayerIds
    owner,      \* m_objectOwners: the player that sent an object last
    age,        \* ticks since that record was made
    mode,       \* of the server's body of an object: "dynamic", "kinematic"
    target,     \* whose state is its network target (Physics::m_networkTargets)
    mainPc,     \* the server's main thread
    cur,        \* the packet it is working on
    physPc,     \* the server's physics thread
    todo,       \* objects broadcastUnownedObjects has still to visit
    asked,      \* the object it asked isOwned about, and the answer
    batch,      \* objects whose state it will broadcast
    ticked,     \* the clock has advanced since the last round began
    confirmed,  \* clients whose m_udpConfirmed is set
    owns,       \* objects a client simulates
    shown       \* whose state of an object a client's world follows

mainVars   == <<mainPc, cur>>
physVars   == <<physPc, todo, asked, batch>>
bodyVars   == <<mode, target>>
clientVars == <<confirmed, owns, shown>>
vars == <<seat, alive, net, endpoints, owner, age, ticked,
          mainVars, physVars, bodyVars, clientVars>>

-----------------------------------------------------------------------------
(* Datagrams.                                                               *)

Hello(p)        == [type |-> "hello", player |-> p]
Ack(p)          == [type |-> "ack", player |-> p]
State(p, o)     == [type |-> "state", player |-> p, object |-> o]
Update(p, o, a) == [type |-> "update", player |-> p, object |-> o, author |-> a]

ToServer == {Hello(p) : p \in Player} \cup {State(p, o) : p \in Player, o \in Object}
ToClient == {Ack(p) : p \in Player} \cup
            {Update(p, o, a) : p \in Player, o \in Object, a \in Player \cup {Server}}

Reachable(D) == {d \in D : d \in ToServer \/ d.player \in alive}

\* UDP loses datagrams: some of them get onto the network, as many as fit.
Sent(rest, D) ==
    \E S \in SUBSET Reachable(D) :
        /\ Cardinality(rest \cup S) <= MaxInFlight
        /\ net' = rest \cup S

Registered(p) == seat[p] = "registered"
Owned(o)      == owner[o] # Nobody /\ age[o] < Timeout

\* Physics::setBodyNetworkMode(body, false) and (body, true) for an object.
MakeKinematic(o) ==
    /\ mode' = [mode EXCEPT ![o] = "kinematic"]
    /\ target' = IF mode[o] = "kinematic" THEN target
                 ELSE [target EXCEPT ![o] = Server]
MakeDynamic(o) ==
    /\ mode' = [mode EXCEPT ![o] = "dynamic"]
    /\ target' = IF mode[o] = "dynamic" THEN target
                 ELSE [target EXCEPT ![o] = Nobody]

-----------------------------------------------------------------------------
(* The thread of a client's TCP connection, as far as it matters here.      *)

Register(p) ==
    /\ seat[p] = "joining"
    /\ seat' = [seat EXCEPT ![p] = "registered"]
    /\ UNCHANGED <<alive, net, endpoints, owner, age, ticked,
                   mainVars, physVars, bodyVars, clientVars>>

\* The connection ends: the client left, or was kicked and runs on.
Unregister(p) ==
    /\ seat[p] = "registered"
    /\ seat' = [seat EXCEPT ![p] = "erased"]
    /\ UNCHANGED <<alive, net, endpoints, owner, age, ticked,
                   mainVars, physVars, bodyVars, clientVars>>

EraseOwnerships(p) ==
    /\ seat[p] = "erased"
    /\ seat' = [seat EXCEPT ![p] = "left"]
    /\ owner' = [o \in Object |-> IF owner[o] = p THEN Nobody ELSE owner[o]]
    /\ age' = [o \in Object |-> IF owner[o] = p THEN 0 ELSE age[o]]
    /\ UNCHANGED <<alive, net, endpoints, ticked,
                   mainVars, physVars, bodyVars, clientVars>>

-----------------------------------------------------------------------------
(* The server's main thread: Server::update and the physics callback.       *)

\* Defect: every hello is acknowledged.
ReceiveHelloUnchecked(p) ==
    /\ mainPc = "idle"
    /\ Hello(p) \in net
    /\ endpoints' = IF Registered(p) THEN endpoints \cup {p} ELSE endpoints
    /\ Sent(net \ {Hello(p)}, {Ack(p)})
    /\ UNCHANGED <<seat, alive, owner, age, ticked,
                   mainVars, physVars, bodyVars, clientVars>>

\* A hello from a player that is not registered (yet) is dropped.
ReceiveHello(p) ==
    /\ mainPc = "idle"
    /\ Hello(p) \in net
    /\ IF Registered(p)
       THEN /\ endpoints' = endpoints \cup {p}
            /\ Sent(net \ {Hello(p)}, {Ack(p)})
       ELSE /\ net' = net \ {Hello(p)}
            /\ UNCHANGED endpoints
    /\ UNCHANGED <<seat, alive, owner, age, ticked,
                   mainVars, physVars, bodyVars, clientVars>>

\* A state from one that is not registered or whose endpoint is unknown is
\* dropped.
ReceiveState(p, o) ==
    /\ mainPc = "idle"
    /\ State(p, o) \in net
    /\ net' = net \ {State(p, o)}
    /\ IF Registered(p) /\ p \in endpoints
       THEN mainPc' = "record" /\ cur' = [player |-> p, object |-> o]
       ELSE UNCHANGED mainVars
    /\ UNCHANGED <<seat, alive, endpoints, owner, age, ticked,
                   physVars, bodyVars, clientVars>>

RecordOwner ==
    /\ mainPc = "record"
    /\ owner' = [owner EXCEPT ![cur.object] = cur.player]
    /\ age' = [age EXCEPT ![cur.object] = 0]
    /\ mainPc' = "lookup"
    /\ UNCHANGED <<seat, alive, net, endpoints, ticked, cur,
                   physVars, bodyVars, clientVars>>

\* Defect: the part is looked up without the mutex.
LookUpPartUnlocked ==
    /\ mainPc = "lookup"
    /\ mainPc' = "follow"
    /\ UNCHANGED <<seat, alive, net, endpoints, owner, age, ticked, cur,
                   physVars, bodyVars, clientVars>>

\* The callback looks the part up under m_networkPartsMutex, which the physics
\* thread holds as long as it visits the objects.
LookUpPart ==
    /\ mainPc = "lookup"
    /\ physPc = "idle"
    /\ mainPc' = "follow"
    /\ UNCHANGED <<seat, alive, net, endpoints, owner, age, ticked, cur,
                   physVars, bodyVars, clientVars>>

FollowOwner ==
    /\ mainPc = "follow"
    /\ MakeKinematic(cur.object)
    /\ mainPc' = "apply"
    /\ UNCHANGED <<seat, alive, net, endpoints, owner, age, ticked, cur,
                   physVars, clientVars>>

ApplyState ==
    /\ mainPc = "apply"
    /\ target' = [target EXCEPT ![cur.object] = cur.player]
    /\ mainPc' = "relay"
    /\ UNCHANGED <<seat, alive, net, endpoints, owner, age, ticked, cur, mode,
                   physVars, clientVars>>

\* Defect: the comparison is the wrong way round.
RelayToSender ==
    /\ mainPc = "relay"
    /\ Sent(net, {Update(q, cur.object, cur.player) : q \in endpoints \cap {cur.player}})
    /\ mainPc' = "idle"
    /\ UNCHANGED <<seat, alive, endpoints, owner, age, ticked, cur,
                   physVars, bodyVars, clientVars>>

\* The datagram goes to every endpoint but the one it came from.
Relay ==
    /\ mainPc = "relay"
    /\ Sent(net, {Update(q, cur.object, cur.player) : q \in endpoints \ {cur.player}})
    /\ mainPc' = "idle"
    /\ UNCHANGED <<seat, alive, endpoints, owner, age, ticked, cur,
                   physVars, bodyVars, clientVars>>

MainThread ==
    \/ \E p \in Player : ReceiveHello(p) \/ \E o \in Object : ReceiveState(p, o)
    \/ RecordOwner \/ LookUpPart \/ FollowOwner \/ ApplyState \/ Relay

-----------------------------------------------------------------------------
(* The server's physics thread: one round of broadcastUnownedObjects.       *)

BeginRound ==
    /\ physPc = "idle"
    /\ physPc' = "visit"
    /\ todo' = Object
    /\ batch' = {}
    /\ ticked' = FALSE
    /\ UNCHANGED <<seat, alive, net, endpoints, owner, age, asked,
                   mainVars, bodyVars, clientVars>>

\* Defect: a record counts as long as it exists.
AskIsRecorded(o) ==
    /\ physPc = "visit"
    /\ o \in todo
    /\ todo' = todo \ {o}
    /\ asked' = [object |-> o, owned |-> owner[o] # Nobody]
    /\ physPc' = "set"
    /\ UNCHANGED <<seat, alive, net, endpoints, owner, age, ticked, batch,
                   mainVars, bodyVars, clientVars>>

AskIsOwned(o) ==
    /\ physPc = "visit"
    /\ o \in todo
    /\ todo' = todo \ {o}
    /\ asked' = [object |-> o, owned |-> Owned(o)]
    /\ physPc' = "set"
    /\ UNCHANGED <<seat, alive, net, endpoints, owner, age, ticked, batch,
                   mainVars, bodyVars, clientVars>>

SetMode ==
    /\ physPc = "set"
    /\ IF asked.owned THEN MakeKinematic(asked.object) ELSE MakeDynamic(asked.object)
    /\ batch' = IF asked.owned THEN batch ELSE batch \cup {asked.object}
    /\ physPc' = "visit"
    /\ UNCHANGED <<seat, alive, net, endpoints, owner, age, ticked, todo, asked,
                   mainVars, clientVars>>

\* The loop releases the mutex; what it collected is broadcast.  An object that
\* sleeps is left out of all broadcasts but one, which looks like a loss here.
EndRound ==
    /\ physPc = "visit"
    /\ todo = {}
    /\ Sent(net, {Update(q, o, Server) : q \in endpoints, o \in batch})
    /\ physPc' = "idle"
    /\ UNCHANGED <<seat, alive, endpoints, owner, age, ticked, todo, asked, batch,
                   mainVars, bodyVars, clientVars>>

PhysicsThread ==
    \/ BeginRound \/ SetMode \/ EndRound
    \/ \E o \in Object : AskIsOwned(o)

\* Time passes.  Rounds are at most a twentieth of a second apart and a packet
\* is handled in much less than the timeout: a round begins between two ticks,
\* and no record expires while its packet is being handled.
Tick ==
    /\ ~ticked
    /\ mainPc \in {"lookup", "follow", "apply"} => age[cur.object] + 1 < Timeout
    /\ age' = [o \in Object |-> IF owner[o] # Nobody /\ age[o] < Timeout
                                THEN age[o] + 1 ELSE age[o]]
    /\ ticked' = TRUE
    /\ UNCHANGED <<seat, alive, net, endpoints, owner,
                   mainVars, physVars, bodyVars, clientVars>>

-----------------------------------------------------------------------------
(* The clients: hello with retry, reception, and sending what they simulate. *)

\* Defect: the constructor's hello is the only one.
SendHelloOnce(p) ==
    /\ p \in alive /\ p \notin confirmed
    /\ seat[p] = "joining"
    /\ Sent(net, {Hello(p)})
    /\ UNCHANGED <<seat, alive, endpoints, owner, age, ticked,
                   mainVars, physVars, bodyVars, clientVars>>

\* The constructor sends one hello, statsLoop one a second until it is answered.
SendHello(p) ==
    /\ p \in alive /\ p \notin confirmed
    /\ Sent(net, {Hello(p)})
    /\ UNCHANGED <<seat, alive, endpoints, owner, age, ticked,
                   mainVars, physVars, bodyVars, clientVars>>

ReceiveAck(p) ==
    /\ p \in alive
    /\ Ack(p) \in net
    /\ net' = net \ {Ack(p)}
    /\ confirmed' = confirmed \cup {p}
    /\ UNCHANGED <<seat, alive, endpoints, owner, age, ticked,
                   mainVars, physVars, bodyVars, owns, shown>>

\* A state is followed only by a kinematic body: one the client does not simulate.
ReceiveUpdate(p, o, a) ==
    /\ p \in alive
    /\ Update(p, o, a) \in net
    /\ net' = net \ {Update(p, o, a)}
    /\ shown' = IF o \in owns[p] THEN shown ELSE [shown EXCEPT ![p][o] = a]
    /\ UNCHANGED <<seat, alive, endpoints, owner, age, ticked,
                   mainVars, physVars, bodyVars, confirmed, owns>>

Claim(p, o) ==
    /\ p \in alive \cap Claimant
    /\ o \notin owns[p]
    /\ owns' = [owns EXCEPT ![p] = @ \cup {o}]
    /\ shown' = [shown EXCEPT ![p][o] = p]
    /\ UNCHANGED <<seat, alive, net, endpoints, owner, age, ticked,
                   mainVars, physVars, bodyVars, confirmed>>

SendState(p, o) ==
    /\ p \in alive
    /\ o \in owns[p]
    /\ Sent(net, {State(p, o)})
    /\ UNCHANGED <<seat, alive, endpoints, owner, age, ticked,
                   mainVars, physVars, bodyVars, clientVars>>

\* A released object is sent once more; an evicted one, or one whose part is
\* gone, is not.
Release(p, o) ==
    /\ p \in alive
    /\ o \in owns[p]
    /\ owns' = [owns EXCEPT ![p] = @ \ {o}]
    /\ Sent(net, {State(p, o)})
    /\ UNCHANGED <<seat, alive, endpoints, owner, age, ticked,
                   mainVars, physVars, bodyVars, confirmed, shown>>

\* The client program ends without a word on this channel.
Quit(p) ==
    /\ p \in alive
    /\ alive' = alive \ {p}
    /\ net' = {d \in net : d \in ToServer \/ d.player # p}
    /\ confirmed' = confirmed \ {p}
    /\ owns' = [owns EXCEPT ![p] = {}]
    /\ shown' = [shown EXCEPT ![p] = [o \in Object |-> Server]]
    /\ UNCHANGED <<seat, endpoints, owner, age, ticked,
                   mainVars, physVars, bodyVars>>

ClientReceives(p) ==
    \/ ReceiveAck(p)
    \/ \E o \in Object, a \in Player \cup {Server} : ReceiveUpdate(p, o, a)
Client(p) ==
    \/ SendHello(p) \/ ClientReceives(p) \/ Quit(p)
    \/ \E o \in Object : Claim(p, o) \/ SendState(p, o) \/ Release(p, o)

-----------------------------------------------------------------------------

\* Who is connected or gone, and whose channel is known to work.
InitFrom(seats, here, known) ==
    /\ seat = seats
    /\ alive = here
    /\ net = {}
    /\ endpoints = known
    /\ owner = [o \in Object |-> Nobody]
    /\ age = [o \in Object |-> 0]
    /\ ticked = FALSE
    /\ mode = [o \in Object |-> "dynamic"]
    /\ target = [o \in Object |-> Nobody]
    /\ mainPc = "idle" /\ cur \in [player : Player, object : Object]
    /\ physPc = "idle" /\ todo = {} /\ batch = {}
    /\ asked \in [object : Object, owned : {FALSE}]
    /\ confirmed = known
    /\ owns = [p \in Player |-> {}]
    /\ shown = [p \in Player |-> [o \in Object |-> Server]]

Everybody(s) == [p \in Player |-> s]
Init == InitFrom(Everybody("joining"), Player, {})

Connection(p) == Register(p) \/ Unregister(p) \/ EraseOwnerships(p)

Next ==
    \/ MainThread \/ PhysicsThread \/ Tick
    \/ \E p \in Player : Connection(p) \/ Client(p)

Spec == Init /\ [][Next]_vars

\* Threads run, get a mutex they wait for, and time passes.
Fairness ==
    /\ WF_vars(MainThread)
    /\ SF_vars(LookUpPart)
    /\ WF_vars(PhysicsThread)
    /\ WF_vars(Tick)
    /\ \A p \in Player : WF_vars(EraseOwnerships(p)) /\ WF_vars(ClientReceives(p))

-----------------------------------------------------------------------------
(* Properties.                                                              *)

Datagram == ToServer \cup ToClient

(* Every variable has its type; what the physics thread has asked about is no
   longer to be visited. *)
TypeOK ==
    /\ seat \in [Player -> {"joining", "registered", "erased", "left"}]
    /\ alive \subseteq Player /\ net \subseteq Datagram
    /\ endpoints \subseteq Player /\ confirmed \subseteq Player
    /\ owner \in [Object -> Player \cup {Nobody}]
    /\ age \in [Object -> 0..Timeout]
    /\ mode \in [Object -> {"dynamic", "kinematic"}]
    /\ target \in [Object -> Player \cup {Server, Nobody}]
    /\ mainPc \in {"idle", "record", "lookup", "follow", "apply", "relay"}
    /\ cur \in [player : Player, object : Object]
    /\ physPc \in {"idle", "visit", "set"}
    /\ todo \subseteq Object /\ batch \subseteq Object
    /\ asked \in [object : Object, owned : BOOLEAN]
    /\ physPc = "set" => asked.object \notin todo
    /\ ticked \in BOOLEAN
    /\ owns \in [Player -> SUBSET Object]
    /\ shown \in [Player -> [Object -> Player \cup {Server}]]

(* A network target on a body the server simulates itself keeps that body
   awake for good, and its state on the network.  It happens only with the
   packet a player sent as it left: the owner record is erased between its
   making and the packet's application.  For all other packets the part lookup
   under m_networkPartsMutex orders the record before isOwned. *)
StaleTargetsOnlyOfLeavers ==
    \A o \in Object :
        mode[o] = "dynamic" /\ target[o] # Nobody => /\ target[o] \in Player
                                                    /\ ~Registered(target[o])

(* A client that believes its UDP channel works is known to the server. *)
ConfirmedAreKnown == confirmed \subseteq endpoints

(* Every registered client whose hellos are not all lost learns that its
   channel works, even if the first hello came before its registration. *)
UdpConfirmed ==
    \A p \in Player :
        Registered(p) /\ p \in alive ~> p \in confirmed \/ ~Registered(p) \/ p \notin alive

(* An object that no registered client simulates any more is simulated by the
   server in the end: nothing stays frozen, however its owner disappeared. *)
FreedObjectsSimulated ==
    \A o \in Object :
        <>[](\A p \in Player : o \in owns[p] => seat[p] = "left")
            => <>[](mode[o] = "dynamic")

(* A player that left owns nothing in the end, even if a packet of its was
   being handled when its records were erased. *)
LeaversOwnNothing ==
    \A p \in Player, o \in Object :
        <>[](seat[p] = "left" /\ owner[o] = p => ~Owned(o))

(* Whoever left lets go: of the objects it simulated and of their records. *)
LeaversLetGo == FreedObjectsSimulated /\ LeaversOwnNothing

(* While the server alone simulates an object, every client whose channel works
   comes to follow it, whomever it followed before. *)
ClientsFollowTheServer ==
    \A p \in Player, o \in Object :
        <>[](/\ mode[o] = "dynamic" /\ p \in alive \cap confirmed
             /\ \A q \in Player : o \notin owns[q])
            => <>[](shown[p][o] = Server)

(* While one registered client alone simulates an object that moves, every
   other client whose channel works sees it do so, again and again. *)
ClientsFollowTheOwner ==
    \A p, q \in Player, o \in Object :
        p # q => (<>[](/\ q \in alive \cap endpoints /\ Registered(q)
                       /\ p \in alive \cap confirmed
                       /\ o \in owns[q] /\ o \notin owns[p])
                    => []<>(shown[p][o] = q))

(* Every client whose channel works follows whoever simulates an object, the
   server or another client. *)
ClientsFollow == ClientsFollowTheServer /\ ClientsFollowTheOwner

-----------------------------------------------------------------------------
(* The inductive invariant behind StaleTargetsOnlyOfLeavers and              *)
(* ConfirmedAreKnown.                                                        *)

Gone(p) == seat[p] \in {"erased", "left"}

\* From its record on, a packet's sender owns the object, or it is gone.
RecordHeld ==
    mainPc \in {"lookup", "follow", "apply"} =>
        \/ Gone(cur.player)
        \/ owner[cur.object] = cur.player /\ age[cur.object] < Timeout
\* The physics thread's answer about that object is younger than the record.
AnswerHeld ==
    /\ mainPc \in {"follow", "apply"} /\ physPc = "set"
    /\ asked.object = cur.object /\ ~asked.owned
    => Gone(cur.player)
AppliedHeld ==
    mainPc = "apply" /\ mode[cur.object] = "dynamic" => Gone(cur.player)
TargetsHeld ==
    \A o \in Object :
        mode[o] = "dynamic" /\ target[o] # Nobody
            => target[o] \in Player /\ Gone(target[o])
StaleInv == RecordHeld /\ AnswerHeld /\ AppliedHeld /\ TargetsHeld

KnownInv ==
    /\ ConfirmedAreKnown
    /\ \A p \in Player : Ack(p) \in net => p \in endpoints

IInv == TypeOK /\ StaleInv /\ KnownInv

=============================================================================
