-------------------------- MODULE PhysicsSyncProofs --------------------------
(***************************************************************************)
(* What PhysicsSync promises for any number of players and objects, any    *)
(* timeout and any number of datagrams on their way: its types, that a     *)
(* simulated body has a network target only because of a player that has   *)
(* left, and that a client's belief in its channel is justified.           *)
(***************************************************************************)
EXTENDS PhysicsSync, TLAPS

-----------------------------------------------------------------------------
(* Types.                                                                   *)

(* What clients and server put on the network are datagrams. *)
LEMMA DatagramTypes ==
    \A p \in Player, o \in Object :
        /\ Hello(p) \in Datagram /\ Ack(p) \in Datagram /\ State(p, o) \in Datagram
        /\ \A a \in Player \cup {Server} : Update(p, o, a) \in Datagram
  BY DEF Datagram, ToServer, ToClient

(* Sending leaves datagrams on the network, and only those that were sent. *)
LEMMA SentType ==
    ASSUME NEW rest, NEW D, Sent(rest, D)
    PROVE  net' \subseteq rest \cup D
  BY DEF Sent, Reachable

(* A change of network mode keeps the types of modes and targets. *)
LEMMA ModeTypes ==
    ASSUME TypeOK, NEW o \in Object, MakeKinematic(o) \/ MakeDynamic(o)
    PROVE  /\ mode' \in [Object -> {"dynamic", "kinematic"}]
           /\ target' \in [Object -> Player \cup {Server, Nobody}]
<1>1. CASE MakeKinematic(o)
  <2>1. mode' \in [Object -> {"dynamic", "kinematic"}]
    BY <1>1 DEF TypeOK, MakeKinematic
  <2>2. target' = target \/ target' = [target EXCEPT ![o] = Server]
    BY <1>1 DEF MakeKinematic
  <2>. QED
    BY <2>1, <2>2 DEF TypeOK
<1>2. CASE MakeDynamic(o)
  <2>1. mode' \in [Object -> {"dynamic", "kinematic"}]
    BY <1>2 DEF TypeOK, MakeDynamic
  <2>2. target' = target \/ target' = [target EXCEPT ![o] = Nobody]
    BY <1>2 DEF MakeDynamic
  <2>. QED
    BY <2>1, <2>2 DEF TypeOK
<1>. QED
  BY <1>1, <1>2

(* Every step of PhysicsSync preserves the types. *)
LEMMA TypeStep == TypeOK /\ [Next]_vars => TypeOK'
<1> SUFFICES ASSUME TypeOK, [Next]_vars PROVE TypeOK'
  OBVIOUS
<1> USE PhysicsSyncAssumption
<1>1. CASE UNCHANGED vars
  BY <1>1 DEF TypeOK, vars, mainVars, physVars, bodyVars, clientVars
<1>2. ASSUME NEW p \in Player, Register(p) PROVE TypeOK'
  BY <1>2 DEF TypeOK, Register, mainVars, physVars, bodyVars, clientVars
<1>3. ASSUME NEW p \in Player, Unregister(p) PROVE TypeOK'
  BY <1>3 DEF TypeOK, Unregister, mainVars, physVars, bodyVars, clientVars
<1>4. ASSUME NEW p \in Player, EraseOwnerships(p) PROVE TypeOK'
  BY <1>4 DEF TypeOK, EraseOwnerships, mainVars, physVars, bodyVars, clientVars
<1>5. ASSUME NEW p \in Player, ReceiveHello(p) PROVE TypeOK'
  <2>1. net' \subseteq net \cup {Ack(p)}
    BY <1>5, SentType DEF ReceiveHello
  <2>2. net' \subseteq Datagram
    BY <2>1, DatagramTypes DEF TypeOK
  <2>3. endpoints' \subseteq Player
    BY <1>5 DEF TypeOK, ReceiveHello
  <2>. QED
    BY <1>5, <2>2, <2>3 DEF TypeOK, ReceiveHello, mainVars, physVars, bodyVars, clientVars
<1>6. ASSUME NEW p \in Player, NEW o \in Object, ReceiveState(p, o) PROVE TypeOK'
  <2>1. mainPc' \in {"idle", "record"} /\ cur' \in [player : Player, object : Object]
    BY <1>6 DEF TypeOK, ReceiveState, mainVars
  <2>. QED
    BY <1>6, <2>1 DEF TypeOK, ReceiveState, physVars, bodyVars, clientVars
<1>7. CASE RecordOwner
  BY <1>7 DEF TypeOK, RecordOwner, physVars, bodyVars, clientVars
<1>8. CASE LookUpPart
  BY <1>8 DEF TypeOK, LookUpPart, physVars, bodyVars, clientVars
<1>9. CASE FollowOwner
  BY <1>9, ModeTypes DEF TypeOK, FollowOwner, physVars, clientVars
<1>10. CASE ApplyState
  BY <1>10 DEF TypeOK, ApplyState, physVars, clientVars
<1>11. CASE Relay
  <2>1. net' \subseteq net \cup {Update(q, cur.object, cur.player) : q \in endpoints \ {cur.player}}
    BY <1>11, SentType DEF Relay
  <2>2. net' \subseteq Datagram
    BY <2>1, DatagramTypes DEF TypeOK
  <2>. QED
    BY <1>11, <2>2 DEF TypeOK, Relay, physVars, bodyVars, clientVars
<1>12. CASE BeginRound
  BY <1>12 DEF TypeOK, BeginRound, mainVars, bodyVars, clientVars
<1>13. ASSUME NEW o \in Object, AskIsOwned(o) PROVE TypeOK'
  <2>1. Owned(o) \in BOOLEAN
    BY DEF Owned
  <2>2. asked' \in [object : Object, owned : BOOLEAN] /\ asked'.object = o
    BY <1>13, <2>1 DEF AskIsOwned
  <2>. QED
    BY <1>13, <2>2 DEF TypeOK, AskIsOwned, mainVars, bodyVars, clientVars
<1>14. CASE SetMode
  <2>1. asked.object \in Object
    BY DEF TypeOK
  <2>2. MakeKinematic(asked.object) \/ MakeDynamic(asked.object)
    BY <1>14 DEF SetMode
  <2>3. batch' \subseteq Object
    BY <1>14, <2>1 DEF TypeOK, SetMode
  <2>. QED
    BY <1>14, <2>1, <2>2, <2>3, ModeTypes DEF TypeOK, SetMode, mainVars, clientVars
<1>15. CASE EndRound
  <2>1. net' \subseteq net \cup {Update(q, o, Server) : q \in endpoints, o \in batch}
    BY <1>15, SentType DEF EndRound
  <2>2. net' \subseteq Datagram
    BY <2>1, DatagramTypes DEF TypeOK
  <2>. QED
    BY <1>15, <2>2 DEF TypeOK, EndRound, mainVars, bodyVars, clientVars
<1>16. CASE Tick
  BY <1>16 DEF TypeOK, Tick, mainVars, physVars, bodyVars, clientVars
<1>17. ASSUME NEW p \in Player, SendHello(p) PROVE TypeOK'
  <2>1. net' \subseteq Datagram
    BY <1>17, SentType, DatagramTypes DEF TypeOK, SendHello
  <2>. QED
    BY <1>17, <2>1 DEF TypeOK, SendHello, mainVars, physVars, bodyVars, clientVars
<1>18. ASSUME NEW p \in Player, ReceiveAck(p) PROVE TypeOK'
  BY <1>18 DEF TypeOK, ReceiveAck, mainVars, physVars, bodyVars
<1>19. ASSUME NEW p \in Player, NEW o \in Object, NEW a \in Player \cup {Server},
              ReceiveUpdate(p, o, a) PROVE TypeOK'
  <2>1. shown' \in [Player -> [Object -> Player \cup {Server}]]
    BY <1>19 DEF TypeOK, ReceiveUpdate
  <2>. QED
    BY <1>19, <2>1 DEF TypeOK, ReceiveUpdate, mainVars, physVars, bodyVars
<1>20. ASSUME NEW p \in Player, NEW o \in Object, Claim(p, o) PROVE TypeOK'
  <2>1. shown' \in [Player -> [Object -> Player \cup {Server}]]
    BY <1>20 DEF TypeOK, Claim
  <2>2. owns' \in [Player -> SUBSET Object]
    BY <1>20 DEF TypeOK, Claim
  <2>. QED
    BY <1>20, <2>1, <2>2 DEF TypeOK, Claim, mainVars, physVars, bodyVars
<1>21. ASSUME NEW p \in Player, NEW o \in Object, SendState(p, o) PROVE TypeOK'
  <2>1. net' \subseteq Datagram
    BY <1>21, SentType, DatagramTypes DEF TypeOK, SendState
  <2>. QED
    BY <1>21, <2>1 DEF TypeOK, SendState, mainVars, physVars, bodyVars, clientVars
<1>22. ASSUME NEW p \in Player, NEW o \in Object, Release(p, o) PROVE TypeOK'
  <2>1. net' \subseteq Datagram
    BY <1>22, SentType, DatagramTypes DEF TypeOK, Release
  <2>2. owns' \in [Player -> SUBSET Object]
    BY <1>22 DEF TypeOK, Release
  <2>. QED
    BY <1>22, <2>1, <2>2 DEF TypeOK, Release, mainVars, physVars, bodyVars
<1>23. ASSUME NEW p \in Player, Quit(p) PROVE TypeOK'
  BY <1>23 DEF TypeOK, Quit, mainVars, physVars, bodyVars
<1>. QED
  BY <1>1, <1>2, <1>3, <1>4, <1>5, <1>6, <1>7, <1>8, <1>9, <1>10, <1>11, <1>12, <1>13,
     <1>14, <1>15, <1>16, <1>17, <1>18, <1>19, <1>20, <1>21, <1>22, <1>23
  DEF Next, MainThread, PhysicsThread, Connection, Client, ClientReceives

-----------------------------------------------------------------------------
(* Stale targets.                                                           *)

(* From the making of the record to the application of the state, the sender
   owns the object or has left.  Hence isOwned answers no only for a leaver,
   and a body made dynamic under way only meets a leaver's state. *)
LEMMA StaleStep == TypeOK /\ StaleInv /\ [Next]_vars => StaleInv'
<1> SUFFICES ASSUME TypeOK, StaleInv, [Next]_vars PROVE StaleInv'
  OBVIOUS
<1> USE PhysicsSyncAssumption
\* A step that leaves the server's two threads, the records and the bodies alone.
<1>1. ASSUME UNCHANGED <<owner, age, mode, target, mainPc, cur, physPc, asked>>,
             \A p \in Player : Gone(p) => Gone(p)'
      PROVE  StaleInv'
  BY <1>1 DEF TypeOK, StaleInv, RecordHeld, AnswerHeld, AppliedHeld, TargetsHeld
<1>2. ASSUME UNCHANGED <<seat, owner, age, mode, target, mainPc, cur, physPc, asked>>
      PROVE  StaleInv'
  BY <1>1, <1>2 DEF Gone
<1>3. CASE UNCHANGED vars
  BY <1>2, <1>3 DEF vars, mainVars, physVars, bodyVars
<1>4. ASSUME NEW p \in Player, Register(p) PROVE StaleInv'
  BY <1>1, <1>4 DEF TypeOK, Register, Gone, mainVars, physVars, bodyVars
<1>5. ASSUME NEW p \in Player, Unregister(p) PROVE StaleInv'
  BY <1>1, <1>5 DEF TypeOK, Unregister, Gone, mainVars, physVars, bodyVars
<1>6. ASSUME NEW p \in Player, EraseOwnerships(p) PROVE StaleInv'
  <2>1. \A q \in Player : (Gone(q) => Gone(q)') /\ Gone(p)
    BY <1>6 DEF TypeOK, EraseOwnerships, Gone
  <2>2. \A o \in Object : owner[o] # p => owner'[o] = owner[o] /\ age'[o] = age[o]
    BY <1>6 DEF TypeOK, EraseOwnerships
  <2>3. UNCHANGED <<mode, target, mainPc, cur, physPc, asked>>
    BY <1>6 DEF EraseOwnerships, mainVars, physVars, bodyVars
  <2>4. RecordHeld'
    BY <2>1, <2>2, <2>3 DEF TypeOK, StaleInv, RecordHeld
  <2>5. AnswerHeld' /\ AppliedHeld' /\ TargetsHeld'
    BY <2>1, <2>3 DEF TypeOK, StaleInv, AnswerHeld, AppliedHeld, TargetsHeld
  <2>. QED
    BY <2>4, <2>5 DEF StaleInv
<1>7. ASSUME NEW p \in Player, ReceiveHello(p) PROVE StaleInv'
  BY <1>2, <1>7 DEF ReceiveHello, mainVars, physVars, bodyVars
<1>8. ASSUME NEW p \in Player, NEW o \in Object, ReceiveState(p, o) PROVE StaleInv'
  <2>1. mainPc' \in {"idle", "record"}
    BY <1>8 DEF ReceiveState, mainVars
  <2>. QED
    BY <1>8, <2>1 DEF TypeOK, ReceiveState, StaleInv, RecordHeld, AnswerHeld, AppliedHeld,
                      TargetsHeld, Gone, physVars, bodyVars
<1>9. CASE RecordOwner
  BY <1>9 DEF TypeOK, RecordOwner, StaleInv, RecordHeld, AnswerHeld, AppliedHeld,
              TargetsHeld, Gone, physVars, bodyVars
<1>10. CASE LookUpPart
  BY <1>10 DEF TypeOK, LookUpPart, StaleInv, RecordHeld, AnswerHeld, AppliedHeld,
               TargetsHeld, Gone, physVars, bodyVars
<1>11. CASE FollowOwner
  BY <1>11 DEF TypeOK, FollowOwner, MakeKinematic, StaleInv, RecordHeld, AnswerHeld,
               AppliedHeld, TargetsHeld, Gone, physVars
<1>12. CASE ApplyState
  BY <1>12 DEF TypeOK, ApplyState, StaleInv, RecordHeld, AnswerHeld, AppliedHeld,
               TargetsHeld, Gone, physVars
<1>13. CASE Relay
  BY <1>13 DEF TypeOK, Relay, StaleInv, RecordHeld, AnswerHeld, AppliedHeld,
               TargetsHeld, Gone, physVars, bodyVars
<1>14. CASE BeginRound
  BY <1>14 DEF TypeOK, BeginRound, StaleInv, RecordHeld, AnswerHeld, AppliedHeld,
               TargetsHeld, Gone, mainVars, bodyVars
<1>15. ASSUME NEW o \in Object, AskIsOwned(o) PROVE StaleInv'
  <2>1. UNCHANGED <<seat, owner, age, mode, target, mainPc, cur>>
    BY <1>15 DEF AskIsOwned, mainVars, bodyVars
  <2>2. asked'.object = o /\ asked'.owned = Owned(o)
    BY <1>15 DEF AskIsOwned
  <2>3. AnswerHeld'
    BY <2>1, <2>2 DEF TypeOK, StaleInv, RecordHeld, AnswerHeld, Gone, Owned
  <2>. QED
    BY <2>1, <2>3 DEF StaleInv, RecordHeld, AppliedHeld, TargetsHeld, Gone
<1>16. CASE SetMode
  <2>1. UNCHANGED <<seat, owner, age, mainPc, cur, asked>> /\ physPc' = "visit"
    BY <1>16 DEF SetMode, mainVars
  <2>2. asked.object \in Object /\ cur.object \in Object /\ cur.player \in Player
    BY DEF TypeOK
  <2>3. RecordHeld' /\ AnswerHeld'
    BY <2>1 DEF StaleInv, RecordHeld, AnswerHeld, Gone
  <2>4. CASE asked.owned
    <3>1. MakeKinematic(asked.object)
      BY <1>16, <2>4 DEF SetMode
    <3>2. AppliedHeld' /\ TargetsHeld'
      BY <2>1, <2>2, <3>1 DEF TypeOK, MakeKinematic, StaleInv, AppliedHeld, TargetsHeld, Gone
    <3>. QED
      BY <2>3, <3>2 DEF StaleInv
  <2>5. CASE ~asked.owned
    <3>1. MakeDynamic(asked.object)
      BY <1>16, <2>5 DEF SetMode
    <3>2. AppliedHeld'
      BY <1>16, <2>1, <2>2, <2>5, <3>1
      DEF TypeOK, SetMode, MakeDynamic, StaleInv, AppliedHeld, AnswerHeld, Gone
    <3>3. TargetsHeld'
      BY <2>1, <2>2, <3>1 DEF TypeOK, MakeDynamic, StaleInv, TargetsHeld, Gone
    <3>. QED
      BY <2>3, <3>2, <3>3 DEF StaleInv
  <2>. QED
    BY <2>4, <2>5
<1>17. CASE EndRound
  BY <1>17 DEF TypeOK, EndRound, StaleInv, RecordHeld, AnswerHeld, AppliedHeld,
               TargetsHeld, Gone, mainVars, bodyVars
<1>18. CASE Tick
  <2>1. RecordHeld'
    BY <1>18 DEF TypeOK, Tick, StaleInv, RecordHeld, Gone, mainVars
  <2>2. AnswerHeld' /\ AppliedHeld' /\ TargetsHeld'
    BY <1>18 DEF Tick, StaleInv, AnswerHeld, AppliedHeld, TargetsHeld, Gone,
                 mainVars, physVars, bodyVars
  <2>. QED
    BY <2>1, <2>2 DEF StaleInv
<1>19. ASSUME NEW p \in Player, Client(p) PROVE StaleInv'
  BY <1>2, <1>19 DEF Client, ClientReceives, SendHello, ReceiveAck, ReceiveUpdate, Claim,
                     SendState, Release, Quit, mainVars, physVars, bodyVars
<1>. QED
  BY <1>3, <1>4, <1>5, <1>6, <1>7, <1>8, <1>9, <1>10, <1>11, <1>12, <1>13, <1>14, <1>15,
     <1>16, <1>17, <1>18, <1>19
  DEF Next, MainThread, PhysicsThread, Connection

-----------------------------------------------------------------------------
(* Belief in the channel.                                                   *)

(* An acknowledgement is sent only to a player whose endpoint is known, and
   endpoints are never forgotten. *)
LEMMA KnownStep == TypeOK /\ KnownInv /\ [Next]_vars => KnownInv'
<1> SUFFICES ASSUME TypeOK, KnownInv, [Next]_vars PROVE KnownInv'
  OBVIOUS
\* A step that neither acknowledges nor confirms.
<1>1. ASSUME endpoints \subseteq endpoints', confirmed' \subseteq confirmed,
             \A p \in Player : Ack(p) \in net' => Ack(p) \in net
      PROVE  KnownInv'
  BY <1>1 DEF KnownInv, ConfirmedAreKnown
<1>2. ASSUME UNCHANGED <<net, endpoints, confirmed>> PROVE KnownInv'
  BY <1>1, <1>2
<1>3. \A p, q \in Player :
         /\ Ack(p) # Hello(q)
         /\ \A o \in Object, a \in Player \cup {Server} :
               Ack(p) # State(q, o) /\ Ack(p) # Update(q, o, a)
  BY DEF Ack, Hello, State, Update
<1>4. CASE UNCHANGED vars
  BY <1>2, <1>4 DEF vars, clientVars
<1>5. ASSUME NEW p \in Player, Connection(p) PROVE KnownInv'
  BY <1>2, <1>5 DEF Connection, Register, Unregister, EraseOwnerships, clientVars
<1>6. ASSUME NEW p \in Player, ReceiveHello(p) PROVE KnownInv'
  <2>1. confirmed' = confirmed /\ endpoints \subseteq endpoints'
    BY <1>6 DEF ReceiveHello, clientVars
  <2>2. CASE Registered(p)
    <3>1. net' \subseteq net \cup {Ack(p)} /\ p \in endpoints'
      BY <1>6, <2>2, SentType DEF ReceiveHello
    <3>2. \A q \in Player : Ack(q) = Ack(p) => q = p
      BY DEF Ack
    <3>. QED
      BY <2>1, <3>1, <3>2 DEF KnownInv, ConfirmedAreKnown
  <2>3. CASE ~Registered(p)
    BY <1>1, <1>6, <2>1, <2>3 DEF ReceiveHello
  <2>. QED
    BY <2>2, <2>3
<1>7. ASSUME NEW p \in Player, NEW o \in Object, ReceiveState(p, o) PROVE KnownInv'
  BY <1>1, <1>7 DEF ReceiveState, clientVars
<1>8. CASE RecordOwner \/ LookUpPart \/ FollowOwner \/ ApplyState
  BY <1>2, <1>8 DEF RecordOwner, LookUpPart, FollowOwner, ApplyState, clientVars
<1>9. CASE Relay
  <2>1. net' \subseteq net \cup {Update(q, cur.object, cur.player) : q \in endpoints \ {cur.player}}
    BY <1>9, SentType DEF Relay
  <2>. QED
    BY <1>1, <1>3, <1>9, <2>1 DEF TypeOK, Relay, clientVars
<1>10. CASE BeginRound \/ SetMode \/ Tick \/ \E o \in Object : AskIsOwned(o)
  BY <1>2, <1>10 DEF BeginRound, SetMode, Tick, AskIsOwned, clientVars
<1>11. CASE EndRound
  <2>1. net' \subseteq net \cup {Update(q, o, Server) : q \in endpoints, o \in batch}
    BY <1>11, SentType DEF EndRound
  <2>. QED
    BY <1>1, <1>3, <1>11, <2>1 DEF TypeOK, EndRound, clientVars
<1>12. ASSUME NEW p \in Player, SendHello(p) PROVE KnownInv'
  <2>1. net' \subseteq net \cup {Hello(p)}
    BY <1>12, SentType DEF SendHello
  <2>. QED
    BY <1>1, <1>3, <1>12, <2>1 DEF SendHello, clientVars
<1>13. ASSUME NEW p \in Player, ReceiveAck(p) PROVE KnownInv'
  BY <1>13 DEF ReceiveAck, KnownInv, ConfirmedAreKnown
<1>14. ASSUME NEW p \in Player, NEW o \in Object,
              Claim(p, o) \/ \E a \in Player \cup {Server} : ReceiveUpdate(p, o, a)
       PROVE  KnownInv'
  BY <1>1, <1>14 DEF Claim, ReceiveUpdate
<1>15. ASSUME NEW p \in Player, NEW o \in Object, SendState(p, o) \/ Release(p, o)
       PROVE  KnownInv'
  <2>1. net' \subseteq net \cup {State(p, o)}
    BY <1>15, SentType DEF SendState, Release
  <2>. QED
    BY <1>1, <1>3, <1>15, <2>1 DEF SendState, Release, clientVars
<1>16. ASSUME NEW p \in Player, Quit(p) PROVE KnownInv'
  BY <1>1, <1>16 DEF Quit
<1>. QED
  BY <1>4, <1>5, <1>6, <1>7, <1>8, <1>9, <1>10, <1>11, <1>12, <1>13, <1>14, <1>15, <1>16
  DEF Next, MainThread, PhysicsThread, Client, ClientReceives

-----------------------------------------------------------------------------
(* Theorems.                                                                *)

(* The server has just started: the invariant holds, whether nobody is
   connected yet or everybody is. *)
LEMMA InitEstablishesIInv == Init => IInv
<1> SUFFICES ASSUME Init PROVE IInv
  OBVIOUS
<1> USE PhysicsSyncAssumption DEF Init, InitFrom, Everybody
<1>1. TypeOK
  <2>1. shown \in [Player -> [Object -> Player \cup {Server}]]
    OBVIOUS
  <2>2. asked \in [object : Object, owned : BOOLEAN] /\ physPc # "set"
    OBVIOUS
  <2>3. seat \in [Player -> {"joining", "registered", "erased", "left"}]
    OBVIOUS
  <2>4. /\ owner \in [Object -> Player \cup {Nobody}]
        /\ age \in [Object -> 0..Timeout]
        /\ mode \in [Object -> {"dynamic", "kinematic"}]
        /\ target \in [Object -> Player \cup {Server, Nobody}]
        /\ owns \in [Player -> SUBSET Object]
    OBVIOUS
  <2>. QED
    BY <2>1, <2>2, <2>3, <2>4 DEF TypeOK
<1>2. StaleInv
  BY DEF StaleInv, RecordHeld, AnswerHeld, AppliedHeld, TargetsHeld
<1>3. KnownInv
  BY DEF KnownInv, ConfirmedAreKnown
<1>. QED
  BY <1>1, <1>2, <1>3 DEF IInv

(* IInv is an invariant of PhysicsSync. *)
LEMMA IInvAlways == Spec => []IInv
<1>1. IInv /\ [Next]_vars => IInv'
  BY TypeStep, StaleStep, KnownStep DEF IInv
<1>. QED
  BY <1>1, InitEstablishesIInv, PTL DEF Spec

(* Every variable of the unreliable channel keeps its type, whatever the number
   of players, objects and datagrams. *)
THEOREM TypeCorrect == Spec => []TypeOK
<1>1. IInv => TypeOK
  BY DEF IInv
<1>. QED
  BY <1>1, IInvAlways, PTL

(* For any number of players and objects and any timeout, the body the server
   simulates follows no network target except one left by a departing player:
   the physics callback and broadcastUnownedObjects, on two threads, cannot
   leave one behind in any other way. *)
THEOREM StaleTargetsAlwaysOfLeavers == Spec => []StaleTargetsOnlyOfLeavers
<1>1. IInv => StaleTargetsOnlyOfLeavers
  BY DEF IInv, StaleInv, TargetsHeld, StaleTargetsOnlyOfLeavers, Gone, Registered
<1>. QED
  BY <1>1, IInvAlways, PTL

(* A client whose m_udpConfirmed is set has its endpoint in the server's
   m_clients, for any loss, reordering and departure. *)
THEOREM ConfirmedAlwaysKnown == Spec => []ConfirmedAreKnown
<1>1. IInv => ConfirmedAreKnown
  BY DEF IInv, KnownInv
<1>. QED
  BY <1>1, IInvAlways, PTL

=============================================================================
