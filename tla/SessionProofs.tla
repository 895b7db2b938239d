--------------------------- MODULE SessionProofs ---------------------------
(***************************************************************************)
(* Session's invariants proved for any number of connections, nicknames    *)
(* and packets, and that Session implements Membership.  IInv is           *)
(* inductive: TypeStep, CustodyStep, DistinctStep and HandshakesStep show, *)
(* action by action, that its four parts are preserved, and the safety     *)
(* theorems follow from it.  RInv adds what is pending in the event queue; *)
(* StepRefines maps every step to one of Membership or to a stutter.       *)
(* WInv adds what every client will show and what the world will hold once *)
(* queues and events are used up: RosterStep and WorldStep carry it.       *)
(***************************************************************************)
EXTENDS Session, TLAPS

(* What is sent is a message (the constructors of Session's message types). *)
LEMMA MessageTypes ==
    /\ \A id \in Nat : AcceptMsg(id) \in Message /\ JoinedMsg(id) \in Message
                       /\ LeftMsg(id) \in Message
    /\ \A ids \in SUBSET Nat : StateMsg(ids) \in Message
    /\ MapMsg(MapData) \in Message
    /\ KickMsg \in Message /\ InfoMsg \in Message
  BY DEF AcceptMsg, JoinedMsg, LeftMsg, StateMsg, MapMsg, KickMsg, InfoMsg, Message, MapData

(* The fields a client reads from a message have their types. *)
LEMMA MessageFields ==
    \A m \in Message :
        /\ m.type \in {"PlayerAccept", "PlayerJoined", "PlayerLeft"} => m.id \in Nat
        /\ m.type = "InitialState" => m.ids \in SUBSET Nat
  BY DEF KickMsg, InfoMsg, Message

(* Player events and their fields. *)
LEMMA EventTypes ==
    /\ \A j \in BOOLEAN, id \in Nat : [joined |-> j, id |-> id] \in Event
    /\ \A e \in Event : e.joined \in BOOLEAN /\ e.id \in Nat
  BY DEF Event

(* Writing to a socket leaves message queues behind. *)
LEMMA SendType ==
    ASSUME NEW q \in Queues, NEW c \in Conn, NEW m \in Message
    PROVE  Send(q, c, m) \in Queues
  BY DEF Send, Queues

(* So does a broadcast. *)
LEMMA SendAllType ==
    ASSUME queue \in Queues, NEW C, NEW m \in Message
    PROVE  SendAll(C, m) \in Queues
  BY DEF SendAll, Queues

(* Emptying the queue of a client that closes leaves message queues behind. *)
LEMMA ResetQueueType ==
    ASSUME queue \in Queues, NEW c \in Conn
    PROVE  [queue EXCEPT ![c] = <<>>] \in Queues
  BY DEF Queues

(* What follows the handshake in a queue is a sequence of messages. *)
LEMMA SuffixType ==
    ASSUME NEW S, NEW s \in Seq(S)
    PROVE  SubSeq(s, 4, Len(s)) \in Seq(S)
  OBVIOUS

(* Every step preserves the types; that the second message of a handshake is
   InitialState is what the constructor's step needs from Handshakes. *)
LEMMA TypeStep == TypeOK /\ Handshakes /\ Step => TypeOK'
<1>. SUFFICES ASSUME TypeOK, Handshakes, Step PROVE TypeOK'
  OBVIOUS
<1>. USE SessionAssumption DEF TypeOK, MainPc, AccPc, HandlerPc, ClientPc,
         serverVars, gameVars, clientVars
<1>1. ASSUME NEW c \in Conn, Accept(c)  PROVE TypeOK'
  BY <1>1 DEF Accept
<1>2. ASSUME NEW c \in Conn, HandshakeFails(c)  PROVE TypeOK'
  BY <1>2 DEF HandshakeFails, BackToAccept
<1>3. ASSUME NEW c \in Conn, HandshakeRefused(c)  PROVE TypeOK'
  <2>1. CASE Terminate
    BY <2>1 DEF Terminate
  <2>2. CASE queue' = Send(queue, c, KickMsg) /\ BackToAccept(c)
    <3>1. queue' \in Queues
      BY <2>2, SendType, MessageTypes
    <3>. QED
      BY <1>3, <2>2, <3>1 DEF HandshakeRefused, Terminate, BackToAccept
  <2>. QED
    BY <1>3, <2>1, <2>2 DEF HandshakeRefused
<1>4. ASSUME NEW c \in Conn, HandshakeAccepted(c)  PROVE TypeOK'
  <2>1. AcceptMsg(nextPlayerId) \in Message
    BY MessageTypes
  <2>2. queue' = queue \/ queue' = Send(queue, c, AcceptMsg(nextPlayerId))
    BY <1>4 DEF HandshakeAccepted
  <2>3. queue' \in Queues
    BY <2>1, <2>2, SendType
  <2>. QED
    BY <1>4, <2>3 DEF HandshakeAccepted, BackToAccept
<1>5. ASSUME NEW c \in Conn, SendInitialState(c)  PROVE TypeOK'
  <2>. DEFINE q  == Send(queue, c, StateMsg(Ids(tcpClients)))
              m  == MapMsg(MapData)
  <2>1. Ids(tcpClients) \in SUBSET Nat
    BY DEF Ids
  <2>2. q \in Queues
    BY <2>1, MessageTypes, SendType
  <2>3. m \in Message
    BY MessageTypes
  <2>4. queue' = queue \/ queue' = Send(q, c, m)
    BY <1>5 DEF SendInitialState
  <2>. HIDE DEF q, m
  <2>5. queue' \in Queues
    BY <2>2, <2>3, <2>4, SendType
  <2>. QED
    BY <1>5, <2>5 DEF SendInitialState, BackToAccept
<1>6. ASSUME NEW c \in Conn, Emplace(c)  PROVE TypeOK'
  BY <1>6 DEF Emplace, Terminate, Throws
<1>7. ASSUME NEW c \in Conn, AnnounceJoined(c)  PROVE TypeOK'
  <2>1. JoinedMsg(playerId[c]) \in Message
    BY MessageTypes
  <2>2. queue' \in Queues
    BY <1>7, <2>1, SendAllType DEF AnnounceJoined
  <2>. QED
    BY <1>7, <2>2 DEF AnnounceJoined
<1>8. ASSUME NEW c \in Conn, CallJoined(c)  PROVE TypeOK'
  <2>1. [joined |-> TRUE, id |-> playerId[c]] \in Event
    BY EventTypes
  <2>2. playerEvents' \in Events
    BY <1>8, <2>1 DEF CallJoined, Events
  <2>. QED
    BY <1>8, <2>2 DEF CallJoined
<1>9. ASSUME NEW c \in Conn, HandlerRelays(c)  PROVE TypeOK'
  <2>1. queue' = SendAll(tcpClients \ {c}, InfoMsg)
    BY <1>9 DEF HandlerRelays
  <2>2. queue' \in Queues
    BY <2>1, SendAllType, MessageTypes
  <2>. QED
    BY <1>9, <2>2 DEF HandlerRelays
<1>10. ASSUME NEW c \in Conn, HandlerKicks(c)  PROVE TypeOK'
  <2>a. CASE Terminate
    BY <2>a DEF Terminate
  <2>b. CASE KickSent(c)
    <3>1. queue' = Send(queue, c, KickMsg)
      BY <1>10, <2>b DEF HandlerKicks, KickSent
    <3>2. queue' \in Queues
      BY <3>1, SendType, MessageTypes
    <3>. QED
      BY <1>10, <2>b, <3>2 DEF HandlerKicks, KickSent, HandlerAt, HandlerGoto
  <2>. QED
    BY <1>10, <2>a, <2>b DEF HandlerKicks
<1>11. ASSUME NEW c \in Conn, HandlerEnds(c)  PROVE TypeOK'
  BY <1>11 DEF HandlerEnds, HandlerAt, HandlerGoto
<1>12. ASSUME NEW c \in Conn, HandlerErases(c)  PROVE TypeOK'
  BY <1>12 DEF HandlerErases, HandlerAt, HandlerGoto
<1>13. ASSUME NEW c \in Conn, HandlerAnnounces(c)  PROVE TypeOK'
  <2>1. LeftMsg(playerId[c]) \in Message
    BY MessageTypes
  <2>2. queue' \in Queues
    BY <1>13, <2>1, SendAllType DEF HandlerAnnounces
  <2>3. missed' \in Rosters
    BY <1>13 DEF HandlerAnnounces, Rosters
  <2>. QED
    BY <1>13, <2>2, <2>3 DEF HandlerAnnounces, HandlerAt, HandlerGoto
<1>14. ASSUME NEW c \in Conn, HandlerCallsLeft(c)  PROVE TypeOK'
  <2>1. [joined |-> FALSE, id |-> playerId[c]] \in Event
    BY EventTypes
  <2>2. playerEvents' \in Events
    BY <1>14, <2>1 DEF HandlerCallsLeft, Events
  <2>. QED
    BY <1>14, <2>2 DEF HandlerCallsLeft, HandlerAt, HandlerGoto
<1>15. ASSUME NEW c \in Conn, ClientConnects(c)  PROVE TypeOK'
  BY <1>15 DEF ClientConnects, ClientGoto
<1>16. ASSUME NEW c \in Conn, ClientSendsInfo(c)  PROVE TypeOK'
  BY <1>16 DEF ClientSendsInfo, ClientGoto
<1>17. ASSUME NEW c \in Conn, ClientFails(c)  PROVE TypeOK'
  <2>1. queue' = [queue EXCEPT ![c] = <<>>]
    BY <1>17 DEF ClientFails, ClientCloses, ClientGoto
  <2>2. queue' \in Queues
    BY <2>1, ResetQueueType
  <2>3. oldPlayers' \in Rosters /\ roster' \in Rosters
    BY <1>17 DEF ClientFails, ClientCloses, ClientGoto, Rosters
  <2>. QED
    BY <1>17, <2>2, <2>3 DEF ClientFails, ClientCloses, ClientGoto
<1>18. ASSUME NEW c \in Conn, ClientConstructed(c)  PROVE TypeOK'
  <2>0. Len(queue[c]) >= 3 /\ HandshakePrefix(queue[c])
    BY <1>18 DEF ClientConstructed, Handshakes
  <2>1. Len(queue[c]) >= 3 /\ queue[c][2].type = "InitialState"
    BY <2>0 DEF HandshakePrefix, AcceptOnly, Complete
  <2>2. queue[c] \in Seq(Message) /\ queue[c][2] \in Message
    BY <2>1 DEF Queues
  <2>3. queue[c][2].ids \in SUBSET Nat
    BY <2>1, <2>2, MessageFields
  <2>4. oldPlayers' \in Rosters
    BY <1>18, <2>3 DEF ClientConstructed, Rosters
  <2>5. SubSeq(queue[c], 4, Len(queue[c])) \in Seq(Message)
    BY <2>2, SuffixType
  <2>6. queue' \in Queues
    BY <1>18, <2>5 DEF ClientConstructed, Queues
  <2>. QED
    BY <1>18, <2>4, <2>6 DEF ClientConstructed, ClientGoto
<1>19. ASSUME NEW c \in Conn, ClientStarts(c)  PROVE TypeOK'
  <2>1. roster' \in Rosters /\ oldPlayers' \in Rosters
    BY <1>19 DEF ClientStarts, Rosters
  <2>. QED
    BY <1>19, <2>1 DEF ClientStarts, ClientGoto
<1>20. ASSUME NEW c \in Conn, ClientReads(c)  PROVE TypeOK'
  <2>1. queue[c] \in Seq(Message) /\ queue[c] # <<>>
    BY <1>20 DEF ClientReads, Queues
  <2>2. Head(queue[c]) \in Message /\ Tail(queue[c]) \in Seq(Message)
    BY <2>1
  <2>3. ApplyMsg(roster[c], Head(queue[c]), playerId[c]) \in SUBSET Nat
    BY <2>2, MessageFields DEF ApplyMsg, Rosters
  <2>4. roster' \in Rosters
    BY <1>20, <2>3 DEF ClientReads, Rosters
  <2>5. queue' \in Queues
    BY <1>20, <2>2 DEF ClientReads, Queues
  <2>. QED
    BY <1>20, <2>4, <2>5 DEF ClientReads
<1>21. ASSUME NEW c \in Conn, ClientHangs(c)  PROVE TypeOK'
  BY <1>21 DEF ClientHangs, ClientGoto
<1>22. ASSUME NEW c \in Conn, ClientQuits(c)  PROVE TypeOK'
  <2>1. queue' = [queue EXCEPT ![c] = <<>>]
    BY <1>22 DEF ClientQuits, ClientCloses, ClientGoto
  <2>2. queue' \in Queues
    BY <2>1, ResetQueueType
  <2>3. oldPlayers' \in Rosters /\ roster' \in Rosters
    BY <1>22 DEF ClientQuits, ClientCloses, ClientGoto, Rosters
  <2>. QED
    BY <1>22, <2>2, <2>3 DEF ClientQuits, ClientCloses, ClientGoto
<1>23. CASE AcceptExit
  BY <1>23 DEF AcceptExit
<1>24. CASE SetJoinedCallback
  BY <1>24 DEF SetJoinedCallback, MainStep
<1>25. CASE SetLeftCallback
  BY <1>25 DEF SetLeftCallback, MainStep
<1>26. CASE SetMapData
  BY <1>26 DEF SetMapData, MainStep
<1>27. CASE SwapEvents
  <2>1. batch' \in Events /\ playerEvents' \in Events
    BY <1>27 DEF SwapEvents, Events
  <2>. QED
    BY <1>27, <2>1 DEF SwapEvents
<1>28. CASE ProcessEvent
  <2>1. batch # <<>> /\ Head(batch) \in Event /\ Tail(batch) \in Events
    BY <1>28 DEF ProcessEvent, Events
  <2>2. humanoids' \subseteq Nat
    BY <1>28, <2>1, EventTypes DEF ProcessEvent, ApplyEvent
  <2>. QED
    BY <1>28, <2>1, <2>2 DEF ProcessEvent
<1>29. CASE StopServer
  BY <1>29 DEF StopServer, MainStep
<1>30. CASE KickAll
  <2>1. CASE Terminate
    BY <2>1 DEF Terminate
  <2>2. CASE queue' = SendAll(tcpClients, KickMsg)
    <3>1. queue' \in Queues
      BY <2>2, SendAllType, MessageTypes
    <3>. QED
      BY <1>30, <2>2, <3>1 DEF KickAll, Terminate
  <2>. QED
    BY <1>30, <2>1, <2>2 DEF KickAll
<1>31. CASE JoinAcceptThread
  BY <1>31 DEF JoinAcceptThread, MainStep
<1>. QED
  BY <1>1, <1>2, <1>3, <1>4, <1>5, <1>6, <1>7, <1>8, <1>9, <1>10, <1>11, <1>12, <1>13, <1>14,
     <1>15, <1>16, <1>17, <1>18, <1>19, <1>20, <1>21, <1>22, <1>23, <1>24, <1>25, <1>26, <1>27,
     <1>28, <1>29, <1>30, <1>31 DEF Step, AcceptThread, HandlerThread, HandlerLeaves,
     ClientThread,
     ClientProgram, MainThread, StartUp, ProcessPlayerEvents, ServerStop

(* Every step preserves who has a connection in hand. *)
LEMMA CustodyStep == TypeOK /\ Custody /\ Step => Custody'
<1>. SUFFICES ASSUME TypeOK, Custody, Step PROVE Custody'
  OBVIOUS
<1>a. /\ NoConn \notin Conn /\ accConn \in Conn \cup {NoConn}
      /\ accConn = NoConn <=> accPc \in {"accept", "exited", "failed"}
      /\ sock \in [Conn -> {"none", "open", "closed"}]
      /\ handler \in [Conn -> HandlerPc]
      /\ tcpClients \subseteq Conn
  BY SessionAssumption DEF TypeOK
<1>. USE <1>a DEF Custody, Joining, Joined, serverVars, gameVars, clientVars
<1>1. ASSUME NEW c \in Conn, Accept(c)  PROVE Custody'
  BY <1>1 DEF Accept
<1>2. ASSUME NEW c \in Conn, HandshakeFails(c)  PROVE Custody'
  BY <1>2 DEF HandshakeFails, BackToAccept
<1>3. ASSUME NEW c \in Conn, HandshakeRefused(c)  PROVE Custody'
  BY <1>3 DEF HandshakeRefused, BackToAccept, Terminate, Throws
<1>4. ASSUME NEW c \in Conn, HandshakeAccepted(c)  PROVE Custody'
  BY <1>4 DEF HandshakeAccepted, BackToAccept
<1>5. ASSUME NEW c \in Conn, SendInitialState(c)  PROVE Custody'
  BY <1>5 DEF SendInitialState, BackToAccept
<1>6. ASSUME NEW c \in Conn, Emplace(c)  PROVE Custody'
  BY <1>6 DEF Emplace, Terminate, Throws
<1>7. ASSUME NEW c \in Conn, AnnounceJoined(c)  PROVE Custody'
  BY <1>7 DEF AnnounceJoined
<1>8. ASSUME NEW c \in Conn, CallJoined(c)  PROVE Custody'
  BY <1>8 DEF CallJoined
<1>9. ASSUME NEW c \in Conn, HandlerRelays(c)  PROVE Custody'
  BY <1>9 DEF HandlerRelays, HandlerAt
<1>10. ASSUME NEW c \in Conn, HandlerKicks(c)  PROVE Custody'
  <2>a. CASE Terminate
    BY <2>a DEF Terminate
  <2>b. CASE KickSent(c)
    BY <1>10, <2>b DEF HandlerKicks, KickSent, HandlerAt, HandlerGoto
  <2>. QED
    BY <1>10, <2>a, <2>b DEF HandlerKicks
<1>11. ASSUME NEW c \in Conn, HandlerEnds(c)  PROVE Custody'
  BY <1>11 DEF HandlerEnds, HandlerAt, HandlerGoto
<1>12. ASSUME NEW c \in Conn, HandlerErases(c)  PROVE Custody'
  BY <1>12 DEF HandlerErases, HandlerAt, HandlerGoto
<1>13. ASSUME NEW c \in Conn, HandlerAnnounces(c)  PROVE Custody'
  BY <1>13 DEF HandlerAnnounces, HandlerAt, HandlerGoto
<1>14. ASSUME NEW c \in Conn, HandlerCallsLeft(c)  PROVE Custody'
  BY <1>14 DEF HandlerCallsLeft, HandlerAt, HandlerGoto
<1>15. ASSUME NEW c \in Conn, ClientConnects(c)  PROVE Custody'
  BY <1>15 DEF ClientConnects, ClientGoto
<1>16. ASSUME NEW c \in Conn, ClientSendsInfo(c)  PROVE Custody'
  BY <1>16 DEF ClientSendsInfo, ClientGoto
<1>17. ASSUME NEW c \in Conn, ClientFails(c)  PROVE Custody'
  BY <1>17 DEF ClientFails, ClientCloses, ClientGoto
<1>18. ASSUME NEW c \in Conn, ClientConstructed(c)  PROVE Custody'
  BY <1>18 DEF ClientConstructed, ClientGoto
<1>19. ASSUME NEW c \in Conn, ClientStarts(c)  PROVE Custody'
  BY <1>19 DEF ClientStarts, ClientGoto
<1>20. ASSUME NEW c \in Conn, ClientReads(c)  PROVE Custody'
  BY <1>20 DEF ClientReads
<1>21. ASSUME NEW c \in Conn, ClientHangs(c)  PROVE Custody'
  BY <1>21 DEF ClientHangs, ClientGoto
<1>22. ASSUME NEW c \in Conn, ClientQuits(c)  PROVE Custody'
  BY <1>22 DEF ClientQuits, ClientCloses, ClientGoto
<1>23. CASE AcceptExit
  BY <1>23 DEF AcceptExit
<1>24. CASE SetJoinedCallback
  BY <1>24 DEF SetJoinedCallback, MainStep
<1>25. CASE SetLeftCallback
  BY <1>25 DEF SetLeftCallback, MainStep
<1>26. CASE SetMapData
  BY <1>26 DEF SetMapData, MainStep
<1>27. CASE SwapEvents
  BY <1>27 DEF SwapEvents
<1>28. CASE ProcessEvent
  BY <1>28 DEF ProcessEvent
<1>29. CASE StopServer
  BY <1>29 DEF StopServer, MainStep
<1>30. CASE KickAll
  BY <1>30 DEF KickAll, Terminate
<1>31. CASE JoinAcceptThread
  BY <1>31 DEF JoinAcceptThread, MainStep
<1>. QED
  BY <1>1, <1>2, <1>3, <1>4, <1>5, <1>6, <1>7, <1>8, <1>9, <1>10, <1>11, <1>12, <1>13, <1>14,
     <1>15, <1>16, <1>17, <1>18, <1>19, <1>20, <1>21, <1>22, <1>23, <1>24, <1>25, <1>26, <1>27,
     <1>28, <1>29, <1>30, <1>31 DEF Step, AcceptThread, HandlerThread, HandlerLeaves,
     ClientThread,
     ClientProgram, MainThread, StartUp, ProcessPlayerEvents, ServerStop

(* Every step preserves the uniqueness of ids and nicknames. *)
LEMMA DistinctStep == TypeOK /\ Custody /\ Distinct /\ Step => Distinct'
<1>. SUFFICES ASSUME TypeOK, Custody, Distinct, Step PROVE Distinct'
  OBVIOUS
<1>a. /\ NoConn \notin Conn /\ accConn \in Conn \cup {NoConn}
      /\ accConn = NoConn <=> accPc \in {"accept", "exited", "failed"}
      /\ nextPlayerId \in Nat \ {0}
      /\ playerId \in [Conn -> Nat]
      /\ nickname \in [Conn -> Info \cup {NoInfo}]
      /\ clientPc \in [Conn -> ClientPc]
      /\ handler \in [Conn -> HandlerPc]
      /\ tcpClients \subseteq Conn
  BY SessionAssumption DEF TypeOK
<1>b. NoInfo \notin Info
  BY SessionAssumption DEF NoInfo
<1>c. \A c \in Conn : /\ Joining(c) => c \notin tcpClients
                      /\ c \in tcpClients <=> Joined(c) \/ handler[c] \in {"read", "erase"}
  BY DEF Custody
<1>. USE <1>a DEF Distinct, Joining, serverVars, gameVars, clientVars
<1>1. ASSUME NEW c \in Conn, Accept(c)  PROVE Distinct'
  BY <1>1 DEF Accept
<1>2. ASSUME NEW c \in Conn, HandshakeFails(c)  PROVE Distinct'
  BY <1>2 DEF HandshakeFails, BackToAccept
<1>3. ASSUME NEW c \in Conn, HandshakeRefused(c)  PROVE Distinct'
  BY <1>3 DEF HandshakeRefused, BackToAccept, Terminate, Throws
<1>4. ASSUME NEW c \in Conn, HandshakeAccepted(c)  PROVE Distinct'
  <2>1. /\ playerId' = [playerId EXCEPT ![c] = nextPlayerId] /\ nextPlayerId' = nextPlayerId + 1
        /\ UNCHANGED <<nickname, tcpClients, clientPc>> /\ nickname[c] # NoInfo
        /\ c \notin tcpClients /\ Joining(c) /\ accPc = "handshake"
        /\ accConn' = c \/ accConn' = NoConn
    BY <1>4, <1>c DEF HandshakeAccepted, BackToAccept
  <2>2. \A d \in tcpClients : nickname[d].nick # nickname[c].nick
    BY <1>4 DEF HandshakeAccepted, Refused, NickTaken
  <2>3. \A d \in Conn : d # c => playerId'[d] = playerId[d]
    BY <2>1
  <2>4. playerId'[c] = nextPlayerId
    BY <2>1
  <2>5. \A d \in Conn : playerId'[d] < nextPlayerId'
    BY <2>1, <2>3, <2>4
  <2>6. \A d, e \in Conn : d # e => playerId'[d] # playerId'[e] \/ playerId'[d] = 0
    BY <2>3, <2>4
  <2>7. \A d \in Conn : d \in tcpClients \/ d = c => playerId'[d] # 0 /\ nickname[d] # NoInfo
    BY <2>1, <2>3, <2>4
  <2>. QED
    BY <2>1, <2>2, <2>5, <2>6, <2>7
<1>5. ASSUME NEW c \in Conn, SendInitialState(c)  PROVE Distinct'
  BY <1>5 DEF SendInitialState, BackToAccept
<1>6. ASSUME NEW c \in Conn, Emplace(c)  PROVE Distinct'
  BY <1>6 DEF Emplace, Terminate, Throws
<1>7. ASSUME NEW c \in Conn, AnnounceJoined(c)  PROVE Distinct'
  BY <1>7 DEF AnnounceJoined
<1>8. ASSUME NEW c \in Conn, CallJoined(c)  PROVE Distinct'
  BY <1>8 DEF CallJoined
<1>9. ASSUME NEW c \in Conn, HandlerRelays(c)  PROVE Distinct'
  BY <1>9 DEF HandlerRelays, HandlerAt
<1>10. ASSUME NEW c \in Conn, HandlerKicks(c)  PROVE Distinct'
  <2>a. CASE Terminate
    BY <2>a DEF Terminate
  <2>b. CASE KickSent(c)
    BY <1>10, <2>b DEF HandlerKicks, KickSent, HandlerAt, HandlerGoto
  <2>. QED
    BY <1>10, <2>a, <2>b DEF HandlerKicks
<1>11. ASSUME NEW c \in Conn, HandlerEnds(c)  PROVE Distinct'
  BY <1>11 DEF HandlerEnds, HandlerAt, HandlerGoto
<1>12. ASSUME NEW c \in Conn, HandlerErases(c)  PROVE Distinct'
  BY <1>12 DEF HandlerErases, HandlerAt, HandlerGoto
<1>13. ASSUME NEW c \in Conn, HandlerAnnounces(c)  PROVE Distinct'
  BY <1>13 DEF HandlerAnnounces, HandlerAt, HandlerGoto
<1>14. ASSUME NEW c \in Conn, HandlerCallsLeft(c)  PROVE Distinct'
  BY <1>14 DEF HandlerCallsLeft, HandlerAt, HandlerGoto
<1>15. ASSUME NEW c \in Conn, ClientConnects(c)  PROVE Distinct'
  BY <1>15 DEF ClientConnects, ClientGoto
<1>16. ASSUME NEW c \in Conn, ClientSendsInfo(c)  PROVE Distinct'
  BY <1>16 DEF ClientSendsInfo, ClientGoto
<1>17. ASSUME NEW c \in Conn, ClientFails(c)  PROVE Distinct'
  BY <1>17 DEF ClientFails, ClientCloses, ClientGoto
<1>18. ASSUME NEW c \in Conn, ClientConstructed(c)  PROVE Distinct'
  BY <1>18 DEF ClientConstructed, ClientGoto
<1>19. ASSUME NEW c \in Conn, ClientStarts(c)  PROVE Distinct'
  BY <1>19 DEF ClientStarts, ClientGoto
<1>20. ASSUME NEW c \in Conn, ClientReads(c)  PROVE Distinct'
  BY <1>20 DEF ClientReads
<1>21. ASSUME NEW c \in Conn, ClientHangs(c)  PROVE Distinct'
  BY <1>21 DEF ClientHangs, ClientGoto
<1>22. ASSUME NEW c \in Conn, ClientQuits(c)  PROVE Distinct'
  BY <1>22 DEF ClientQuits, ClientCloses, ClientGoto
<1>23. CASE AcceptExit
  BY <1>23 DEF AcceptExit
<1>24. CASE SetJoinedCallback
  BY <1>24 DEF SetJoinedCallback, MainStep
<1>25. CASE SetLeftCallback
  BY <1>25 DEF SetLeftCallback, MainStep
<1>26. CASE SetMapData
  BY <1>26 DEF SetMapData, MainStep
<1>27. CASE SwapEvents
  BY <1>27 DEF SwapEvents
<1>28. CASE ProcessEvent
  BY <1>28 DEF ProcessEvent
<1>29. CASE StopServer
  BY <1>29 DEF StopServer, MainStep
<1>30. CASE KickAll
  BY <1>30 DEF KickAll, Terminate
<1>31. CASE JoinAcceptThread
  BY <1>31 DEF JoinAcceptThread, MainStep
<1>. QED
  BY <1>1, <1>2, <1>3, <1>4, <1>5, <1>6, <1>7, <1>8, <1>9, <1>10, <1>11, <1>12, <1>13, <1>14,
     <1>15, <1>16, <1>17, <1>18, <1>19, <1>20, <1>21, <1>22, <1>23, <1>24, <1>25, <1>26, <1>27,
     <1>28, <1>29, <1>30, <1>31 DEF Step, AcceptThread, HandlerThread, HandlerLeaves,
     ClientThread,
     ClientProgram, MainThread, StartUp, ProcessPlayerEvents, ServerStop


(* A sequence after one more message. *)
LEMMA AppendAt ==
    ASSUME NEW q \in Seq(Message), NEW e \in Message
    PROVE  /\ Append(q, e) \in Seq(Message) /\ Len(Append(q, e)) = Len(q) + 1
           /\ Append(q, e)[Len(q) + 1] = e
           /\ \A i \in 1..Len(q) : Append(q, e)[i] = q[i]
  OBVIOUS

(* The empty queue and a lone kick are handshakes in progress, and acceptLoop's
   first packet makes an acceptance. *)
LEMMA HandshakeStarts ==
    /\ HandshakePrefix(<<>>) /\ HandshakePrefix(<<KickMsg>>)
    /\ \A id : AcceptOnly(<<AcceptMsg(id)>>)
  BY DEF HandshakePrefix, AcceptOnly, AcceptMsg

(* The state and the map acceptLoop writes after the acceptance complete it. *)
LEMMA HandshakeCompletes ==
    ASSUME NEW q \in Seq(Message), NEW s \in Message, NEW m \in Message,
           AcceptOnly(q), s.type = "InitialState", m.type = "Map"
    PROVE  Complete(Append(Append(q, s), m))
<1>1. Len(q) = 1 /\ 1 \in 1..Len(q) /\ q[1].type = "PlayerAccept"
  BY DEF AcceptOnly
<1>2. PICK r : r = Append(q, s)
  OBVIOUS
<1>3. r \in Seq(Message) /\ Len(r) = Len(q) + 1 /\ r[Len(q) + 1] = s /\ r[1] = q[1]
  BY <1>1, <1>2, AppendAt
<1>4. r \in Seq(Message) /\ Len(r) = 2 /\ 1 \in 1..Len(r) /\ 2 \in 1..Len(r)
  BY <1>1, <1>3
<1>5. PICK u : u = Append(r, m)
  OBVIOUS
<1>6. Len(u) = Len(r) + 1 /\ u[Len(r) + 1] = m /\ u[1] = r[1] /\ u[2] = r[2]
  BY ZenonT(40), <1>4, <1>5, AppendAt
<1>7. Complete(u)
  BY <1>1, <1>3, <1>4, <1>6 DEF Complete
<1>. QED
  BY <1>2, <1>5, <1>7

(* A complete handshake stays one whatever is written after it. *)
LEMMA CompleteAppend ==
    ASSUME NEW q \in Seq(Message), NEW m \in Message, Complete(q)
    PROVE  Complete(Append(q, m))
<1>1. /\ Len(Append(q, m)) >= 3 /\ Append(q, m)[1] = q[1]
      /\ Append(q, m)[2] = q[2] /\ Append(q, m)[3] = q[3]
  BY DEF Complete
<1>. QED
  BY <1>1 DEF Complete

(* What a client finds in its queue after a write to one connection. *)
LEMMA SendAt ==
    ASSUME NEW q \in Queues, NEW c \in Conn, NEW m \in Message
    PROVE  /\ \A d \in Conn \ {c} : Send(q, c, m)[d] = q[d]
           /\ sock[c] = "open" /\ PeerOpen(c) => Send(q, c, m)[c] = Append(q[c], m)
           /\ Send(q, c, m)[c] \in {q[c], Append(q[c], m)}
  BY DEF Send, Queues

(* A write of one message to a queue that is empty. *)
LEMMA AppendToEmpty ==
    \A m \in Message : Append(<<>>, m) = <<m>>
  OBVIOUS

(* Every stage of a handshake is a handshake in progress. *)
LEMMA StagesArePrefixes ==
    \A q : AcceptOnly(q) \/ Complete(q) => HandshakePrefix(q)
  BY DEF HandshakePrefix

(* A client whose constructor may still read its handshake. *)
Opening(c) == clientPc[c] \in {"idle", "connected", "waiting"}

(* A broadcast to registered connections reaches a client that is still in its
   constructor behind the map. *)
LEMMA BroadcastBehindMap ==
    ASSUME TypeOK, Custody, Handshakes, NEW C \in SUBSET tcpClients, NEW m \in Message,
           queue' = SendAll(C, m), UNCHANGED <<tcpClients, clientPc>>,
           \A d \in Conn : Joining(d)' => Joining(d) /\ UNCHANGED accPc,
           \A d \in Conn : sock'[d] = "none" => sock[d] = "none"
    PROVE  Handshakes'
<1>1. tcpClients \subseteq Conn /\ \A d \in Conn : queue[d] \in Seq(Message)
  BY DEF TypeOK, Queues
<1>2. /\ \A d \in Conn \ C : queue'[d] = queue[d]
      /\ \A d \in C : queue'[d] \in {queue[d], Append(queue[d], m)}
  BY <1>1 DEF SendAll
<1>3. \A d \in C : Opening(d) => Complete(queue[d])
  BY <1>1 DEF Handshakes, Opening
<1>4. \A d \in C : Opening(d) => Complete(queue'[d])
  BY <1>1, <1>2, <1>3, CompleteAppend
<1>5. \A d \in C : sock[d] # "none" /\ ~Joining(d)
  BY <1>1 DEF Custody, Joined, Joining, TypeOK
<1>. SUFFICES ASSUME NEW d \in Conn
     PROVE  /\ sock'[d] = "none" => queue'[d] = <<>>
            /\ Opening(d) =>
                  /\ HandshakePrefix(queue'[d])
                  /\ Joining(d) /\ accPc = "handshake" => queue'[d] = <<>>
                  /\ Joining(d) /\ accPc = "snapshot" => AcceptOnly(queue'[d])
                  /\ (Joining(d) /\ accPc = "emplace") \/ d \in tcpClients
                        => Complete(queue'[d])
  BY DEF Handshakes, Opening
<1>6. CASE d \in C
  BY <1>4, <1>5, <1>6, StagesArePrefixes
<1>7. CASE d \notin C
  BY <1>2, <1>7 DEF Handshakes, Opening
<1>. QED
  BY <1>6, <1>7

(* Every step preserves the order of the handshake: until a connection is
   registered only the accept thread writes to it, and a broadcast reaches it
   behind the map. *)
LEMMA HandshakesStep ==
    TypeOK /\ Custody /\ Distinct /\ Handshakes /\ Step => Handshakes'
<1>. SUFFICES ASSUME TypeOK, Custody, Distinct, Handshakes, Step PROVE Handshakes'
  OBVIOUS
<1>a. /\ NoConn \notin Conn /\ accConn \in Conn \cup {NoConn}
      /\ accConn = NoConn <=> accPc \in {"accept", "exited", "failed"}
      /\ sock \in [Conn -> {"none", "open", "closed"}]
      /\ queue \in Queues /\ nextPlayerId \in Nat
      /\ \A c \in Conn : queue[c] \in Seq(Message)
      /\ playerId \in [Conn -> Nat]
      /\ clientPc \in [Conn -> ClientPc]
      /\ handler \in [Conn -> HandlerPc]
      /\ tcpClients \subseteq Conn
  BY SessionAssumption DEF TypeOK, Queues
<1>b. \A c \in Conn :
         /\ Joining(c) => sock[c] = "open" /\ c \notin tcpClients
         /\ sock[c] = "none" => handler[c] = "none" /\ accConn # c
         /\ c \in tcpClients <=> Joined(c) \/ handler[c] \in {"read", "erase"}
  BY DEF Custody
<1>c. \A c \in tcpClients : sock[c] # "none"
  BY <1>b, <1>a DEF Joined
<1>d. \A c \in Conn :
         /\ clientPc[c] \in {"idle", "connected"} => nickname[c] = NoInfo
         /\ Joining(c) /\ accPc # "handshake" => nickname[c] # NoInfo
  BY DEF Distinct
<1>. USE <1>a DEF serverVars, gameVars, clientVars
<1>1. ASSUME NEW c \in Conn, Accept(c)  PROVE Handshakes'
  BY <1>1, <1>c DEF Accept,
         Handshakes, Joining
<1>2. ASSUME NEW c \in Conn, HandshakeFails(c)  PROVE Handshakes'
  BY <1>2, <1>c DEF HandshakeFails, BackToAccept,
         Handshakes, Joining
<1>3. ASSUME NEW c \in Conn, HandshakeRefused(c)  PROVE Handshakes'
  <2>1. CASE Terminate
    BY <2>1 DEF Terminate, Handshakes, Joining
  <2>2. CASE queue' = Send(queue, c, KickMsg) /\ BackToAccept(c)
    <3>1. \A d \in Conn \ {c} : queue'[d] = queue[d]
      BY <2>2, SendAt, MessageTypes
    <3>2. Opening(c) => queue'[c] = <<>> \/ queue'[c] = <<KickMsg>>
      <4>1. Opening(c) => queue[c] = <<>>
        BY <1>3 DEF HandshakeRefused, Handshakes, Opening, Joining
      <4>. QED
        BY <2>2, <4>1, SendAt, AppendToEmpty, MessageTypes
    <3>3. Opening(c) => HandshakePrefix(queue'[c])
      BY <3>2, HandshakeStarts
    <3>4. UNCHANGED <<tcpClients, clientPc>> /\ accConn' = NoConn /\ c \notin tcpClients
      BY <1>3, <2>2, <1>b DEF HandshakeRefused, BackToAccept, Terminate, Joining
    <3>5. sock'[c] = "closed" /\ \A d \in Conn \ {c} : sock'[d] = sock[d]
      BY <2>2 DEF BackToAccept
    <3>. QED
      BY <3>1, <3>3, <3>4, <3>5 DEF Handshakes, Opening, Joining
  <2>. QED
    BY <1>3, <2>1, <2>2 DEF HandshakeRefused
<1>4. ASSUME NEW c \in Conn, HandshakeAccepted(c)  PROVE Handshakes'
  <2>a. AcceptMsg(nextPlayerId) \in Message
    BY MessageTypes
  <2>1. CASE queue' = Send(queue, c, AcceptMsg(nextPlayerId)) /\ accPc' = "snapshot" /\ UNCHANGED <<accConn, sock>>
    <3>1. \A d \in Conn \ {c} : queue'[d] = queue[d]
      BY <2>1, <2>a, SendAt
    <3>2. Opening(c) => queue'[c] = <<AcceptMsg(nextPlayerId)>>
      <4>1. Opening(c) => queue[c] = <<>>
        BY <1>4 DEF HandshakeAccepted, Handshakes, Opening, Joining
      <4>2. sock[c] = "open" /\ clientPc[c] \notin {"idle", "connected"}
        BY <1>4, <1>b, <1>d DEF HandshakeAccepted, Joining
      <4>3. Opening(c) => PeerOpen(c)
        BY <4>2 DEF PeerOpen, Opening
      <4>. QED
        BY <2>1, <2>a, <4>1, <4>2, <4>3, SendAt, AppendToEmpty
    <3>3. Opening(c) => AcceptOnly(queue'[c])
      BY <3>2, HandshakeStarts
    <3>4. /\ UNCHANGED <<tcpClients, clientPc, accConn, sock>>
          /\ accConn = c /\ accPc' = "snapshot" /\ Joining(c)
      BY <1>4, <2>1 DEF HandshakeAccepted, Joining
    <3>5. c \notin tcpClients /\ sock[c] = "open"
      BY <3>4, <1>b
    <3>. QED
      BY <3>1, <3>3, <3>4, <3>5, StagesArePrefixes DEF Handshakes, Opening, Joining
  <2>2. CASE UNCHANGED queue /\ BackToAccept(c)
    BY <1>4, <2>2 DEF HandshakeAccepted, BackToAccept, Handshakes, Joining
  <2>. QED
    BY <1>4, <2>1, <2>2 DEF HandshakeAccepted
<1>5. ASSUME NEW c \in Conn, SendInitialState(c)  PROVE Handshakes'
  <2>1. CASE accPc' = "emplace" /\ UNCHANGED <<accConn, sock>>
    <3>. DEFINE s == StateMsg(Ids(tcpClients))
                m == MapMsg(MapData)
    <3>0. queue' = Send(Send(queue, c, s), c, m)
      BY <1>5, <2>1 DEF SendInitialState, BackToAccept
    <3>a. s.type = "InitialState" /\ m.type = "Map" /\ s \in Message /\ m \in Message
      BY <1>a, MessageTypes DEF StateMsg, MapMsg, Ids
    <3>. HIDE DEF s, m
    <3>1. \A d \in Conn \ {c} : queue'[d] = queue[d]
      BY <3>0, <3>a, SendAt, SendType
    <3>2. Opening(c) => queue'[c] = Append(Append(queue[c], s), m)
      <4>1. Opening(c) => sock[c] = "open" /\ PeerOpen(c)
        BY <1>5, <1>b, <1>d DEF SendInitialState, PeerOpen, Opening, Joining
      <4>2. Send(queue, c, s) \in Queues
        BY <3>a, SendType
      <4>3. Opening(c) => Send(queue, c, s)[c] = Append(queue[c], s)
        BY <3>a, <4>1, SendAt
      <4>4. PICK q \in Queues : q = Send(queue, c, s)
        BY <4>2
      <4>5. queue' = Send(q, c, m)
        BY <3>0, <4>4
      <4>6. Opening(c) => queue'[c] = Append(q[c], m)
        BY <3>a, <4>1, <4>5, SendAt
      <4>. QED
        BY <4>3, <4>4, <4>6
    <3>3. Opening(c) => AcceptOnly(queue[c])
      BY <1>5 DEF SendInitialState, Handshakes, Opening, Joining
    <3>4. Opening(c) => Complete(queue'[c])
      <4>. SUFFICES ASSUME Opening(c) PROVE Complete(queue'[c])
        OBVIOUS
      <4>1. queue[c] \in Seq(Message) /\ AcceptOnly(queue[c])
        BY <3>3
      <4>2. Complete(Append(Append(queue[c], s), m))
        BY <4>1, <3>a, HandshakeCompletes
      <4>. QED
        BY <3>2, <4>2
    <3>. QED
      <4>1. /\ UNCHANGED <<tcpClients, clientPc, accConn, sock>>
            /\ accConn = c /\ accPc' = "emplace" /\ Joining(c)
        BY <1>5, <2>1 DEF SendInitialState, Joining
      <4>2. c \notin tcpClients /\ sock[c] = "open"
        BY <4>1, <1>b
      <4>. QED
        BY <3>1, <3>4, <4>1, <4>2, StagesArePrefixes DEF Handshakes, Opening, Joining
  <2>2. CASE UNCHANGED queue /\ BackToAccept(c)
    BY <1>5, <2>2 DEF SendInitialState, BackToAccept, Handshakes, Joining
  <2>. QED
    BY <1>5, <2>1, <2>2 DEF SendInitialState
<1>6. ASSUME NEW c \in Conn, Emplace(c)  PROVE Handshakes'
  <2>1. CASE Terminate
    BY <2>1 DEF Terminate, Handshakes, Joining
  <2>2. CASE tcpClients' = tcpClients \cup {c} /\ UNCHANGED <<queue, clientPc, sock, accConn>> /\ accPc' = "announce"
    BY <1>6, <2>2 DEF Emplace, Handshakes, Joining
  <2>. QED
    BY <1>6, <2>1, <2>2 DEF Emplace
<1>7. ASSUME NEW c \in Conn, AnnounceJoined(c)  PROVE Handshakes'
  <2>1. queue' = SendAll(tcpClients, JoinedMsg(playerId[c])) /\ JoinedMsg(playerId[c]) \in Message
    BY <1>7, <1>a, MessageTypes DEF AnnounceJoined
  <2>2. UNCHANGED <<tcpClients, clientPc, sock>> /\ \A d \in Conn : ~Joining(d)'
    BY <1>7 DEF AnnounceJoined, Joining
  <2>. QED
    BY <2>1, <2>2, BroadcastBehindMap
<1>8. ASSUME NEW c \in Conn, CallJoined(c)  PROVE Handshakes'
  BY <1>8, <1>c DEF CallJoined,
         Handshakes, Joining
<1>9. ASSUME NEW c \in Conn, HandlerRelays(c)  PROVE Handshakes'
  <2>1. queue' = SendAll(tcpClients \ {c}, InfoMsg) /\ InfoMsg \in Message
    BY <1>9, <1>a, MessageTypes DEF HandlerRelays
  <2>2. /\ UNCHANGED <<tcpClients, clientPc, sock>>
        /\ \A d \in Conn : Joining(d)' => Joining(d) /\ UNCHANGED accPc
    BY <1>9 DEF HandlerRelays, Joining
  <2>. QED
    BY <2>1, <2>2, BroadcastBehindMap
<1>10. ASSUME NEW c \in Conn, HandlerKicks(c)  PROVE Handshakes'
  <2>a. CASE Terminate
    BY <2>a DEF Terminate, Handshakes, Joining
  <2>b. CASE KickSent(c)
    <3>1. queue' = Send(queue, c, KickMsg) /\ handler[c] = "read"
      BY <1>10, <2>b DEF HandlerKicks, KickSent, HandlerAt
    <3>2. Send(queue, c, KickMsg) = SendAll({c}, KickMsg)
      BY DEF Send, SendAll, Queues
    <3>3. {c} \in SUBSET tcpClients /\ sock[c] # "none"
      BY <3>1, <1>b
    <3>4. /\ UNCHANGED <<tcpClients, clientPc>>
          /\ \A d \in Conn : Joining(d)' => Joining(d) /\ UNCHANGED accPc
          /\ \A d \in Conn : sock'[d] = "none" => sock[d] = "none"
      BY <1>10, <2>b, <3>3 DEF HandlerKicks, KickSent, Joining
    <3>. QED
      BY <3>1, <3>2, <3>3, <3>4, BroadcastBehindMap, MessageTypes
  <2>. QED
    BY <1>10, <2>a, <2>b DEF HandlerKicks
<1>11. ASSUME NEW c \in Conn, HandlerEnds(c)  PROVE Handshakes'
  BY <1>11, <1>c DEF HandlerEnds, HandlerAt, HandlerGoto,
         Handshakes, Joining
<1>12. ASSUME NEW c \in Conn, HandlerErases(c)  PROVE Handshakes'
  BY <1>12, <1>c DEF HandlerErases, HandlerAt, HandlerGoto,
         Handshakes, Joining
<1>13. ASSUME NEW c \in Conn, HandlerAnnounces(c)  PROVE Handshakes'
  <2>1. queue' = SendAll(tcpClients, LeftMsg(playerId[c])) /\ LeftMsg(playerId[c]) \in Message
    BY <1>13, <1>a, MessageTypes DEF HandlerAnnounces
  <2>2. /\ UNCHANGED <<tcpClients, clientPc, sock>>
        /\ \A d \in Conn : Joining(d)' => Joining(d) /\ UNCHANGED accPc
    BY <1>13 DEF HandlerAnnounces, Joining
  <2>. QED
    BY <2>1, <2>2, BroadcastBehindMap
<1>14. ASSUME NEW c \in Conn, HandlerCallsLeft(c)  PROVE Handshakes'
  BY <1>14, <1>c DEF HandlerCallsLeft, HandlerAt, HandlerGoto,
         Handshakes, Joining
<1>15. ASSUME NEW c \in Conn, ClientConnects(c)  PROVE Handshakes'
  BY <1>15, <1>c DEF ClientConnects, ClientGoto,
         Handshakes, Joining
<1>16. ASSUME NEW c \in Conn, ClientSendsInfo(c)  PROVE Handshakes'
  BY <1>16, <1>c DEF ClientSendsInfo, ClientGoto,
         Handshakes, Joining
<1>17. ASSUME NEW c \in Conn, ClientFails(c)  PROVE Handshakes'
  <2>1. /\ \A d \in Conn \ {c} : queue'[d] = queue[d] /\ clientPc'[d] = clientPc[d]
        /\ queue'[c] = <<>> /\ clientPc'[c] \in {"gone", "reset"}
        /\ UNCHANGED <<sock, tcpClients, accPc, accConn>>
    BY <1>17, <1>a DEF ClientFails, ClientCloses, ClientGoto, Queues
  <2>. QED
    BY <2>1, <1>c DEF Handshakes, Opening, Joining
<1>18. ASSUME NEW c \in Conn, ClientConstructed(c)  PROVE Handshakes'
  <2>1. /\ \A d \in Conn \ {c} : queue'[d] = queue[d] /\ clientPc'[d] = clientPc[d]
        /\ clientPc'[c] = "constructed" /\ queue[c] # <<>>
        /\ UNCHANGED <<sock, tcpClients, accPc, accConn>>
    BY <1>18, <1>a DEF ClientConstructed, ClientGoto, Queues
  <2>. QED
    BY <2>1, <1>c DEF Handshakes, Opening, Joining
<1>19. ASSUME NEW c \in Conn, ClientStarts(c)  PROVE Handshakes'
  BY <1>19, <1>c DEF ClientStarts, ClientGoto,
         Handshakes, Joining
<1>20. ASSUME NEW c \in Conn, ClientReads(c)  PROVE Handshakes'
  <2>1. /\ \A d \in Conn \ {c} : queue'[d] = queue[d] /\ clientPc'[d] = clientPc[d]
        /\ clientPc'[c] \in {"running", "halted"} /\ queue[c] # <<>>
        /\ UNCHANGED <<sock, tcpClients, accPc, accConn>>
    BY <1>20, <1>a DEF ClientReads, Queues
  <2>. QED
    BY <2>1, <1>c DEF Handshakes, Opening, Joining
<1>21. ASSUME NEW c \in Conn, ClientHangs(c)  PROVE Handshakes'
  BY <1>21, <1>c DEF ClientHangs, ClientGoto,
         Handshakes, Joining
<1>22. ASSUME NEW c \in Conn, ClientQuits(c)  PROVE Handshakes'
  <2>1. /\ \A d \in Conn \ {c} : queue'[d] = queue[d] /\ clientPc'[d] = clientPc[d]
        /\ queue'[c] = <<>> /\ clientPc'[c] \in {"gone", "reset"}
        /\ UNCHANGED <<sock, tcpClients, accPc, accConn>>
    BY <1>22, <1>a DEF ClientQuits, ClientCloses, ClientGoto, Queues
  <2>. QED
    BY <2>1, <1>c DEF Handshakes, Opening, Joining
<1>23. CASE AcceptExit
  BY <1>23, <1>c DEF AcceptExit,
         Handshakes, Joining
<1>24. CASE SetJoinedCallback
  BY <1>24, <1>c DEF SetJoinedCallback, MainStep,
         Handshakes, Joining
<1>25. CASE SetLeftCallback
  BY <1>25, <1>c DEF SetLeftCallback, MainStep,
         Handshakes, Joining
<1>26. CASE SetMapData
  BY <1>26, <1>c DEF SetMapData, MainStep,
         Handshakes, Joining
<1>27. CASE SwapEvents
  BY <1>27, <1>c DEF SwapEvents,
         Handshakes, Joining
<1>28. CASE ProcessEvent
  BY <1>28, <1>c DEF ProcessEvent,
         Handshakes, Joining
<1>29. CASE StopServer
  BY <1>29, <1>c DEF StopServer, MainStep,
         Handshakes, Joining
<1>30. CASE KickAll
  <2>1. CASE Terminate
    BY <2>1 DEF Terminate, Handshakes, Joining
  <2>2. CASE ~Terminate
    <3>1. queue' = SendAll(tcpClients, KickMsg) /\ KickMsg \in Message
      BY <1>30, <2>2, MessageTypes DEF KickAll
    <3>2. /\ UNCHANGED <<tcpClients, clientPc>>
          /\ \A d \in Conn : Joining(d)' => Joining(d) /\ UNCHANGED accPc
          /\ \A d \in Conn : sock'[d] = "none" => sock[d] = "none"
      BY <1>30, <2>2 DEF KickAll, Joining
    <3>. QED
      BY <3>1, <3>2, BroadcastBehindMap
  <2>. QED
    BY <2>1, <2>2
<1>31. CASE JoinAcceptThread
  BY <1>31, <1>c DEF JoinAcceptThread, MainStep,
         Handshakes, Joining
<1>. QED
  BY <1>1, <1>2, <1>3, <1>4, <1>5, <1>6, <1>7, <1>8, <1>9, <1>10, <1>11, <1>12, <1>13, <1>14,
     <1>15, <1>16, <1>17, <1>18, <1>19, <1>20, <1>21, <1>22, <1>23, <1>24, <1>25, <1>26, <1>27,
     <1>28, <1>29, <1>30, <1>31 DEF Step, AcceptThread, HandlerThread, HandlerLeaves,
     ClientThread,
     ClientProgram, MainThread, StartUp, ProcessPlayerEvents, ServerStop

(* The invariant holds when net::Server has been constructed. *)
LEMMA InitEstablishesIInv == Init => IInv
<1>. SUFFICES ASSUME Init PROVE IInv
  OBVIOUS
<1>. USE SessionAssumption DEF Init, InitFrom
<1>1. /\ queue \in Queues /\ oldPlayers \in Rosters /\ roster \in Rosters
      /\ missed \in Rosters /\ playerEvents \in Events /\ batch \in Events
  BY DEF Queues, Rosters, Events
<1>2. TypeOK
  BY <1>1 DEF TypeOK, MainPc, AccPc, HandlerPc, ClientPc
<1>3. Custody
  BY DEF Custody, Joining, Joined
<1>4. Distinct
  BY DEF Distinct, Joining
<1>5. Handshakes
  BY HandshakeStarts DEF Handshakes, Joining
<1>. QED
  BY <1>2, <1>3, <1>4, <1>5 DEF IInv

(* A step that changes nothing preserves it. *)
LEMMA StutterKeepsIInv == IInv /\ UNCHANGED vars => IInv'
<1>. SUFFICES ASSUME IInv, UNCHANGED vars PROVE IInv'
  OBVIOUS
<1>. USE DEF IInv, vars, serverVars, gameVars, clientVars
<1>1. TypeOK'
  BY DEF TypeOK
<1>2. Custody'
  BY DEF Custody, Joining, Joined
<1>3. Distinct'
  BY DEF Distinct, Joining
<1>4. Handshakes'
  BY DEF Handshakes, Joining
<1>. QED
  BY <1>1, <1>2, <1>3, <1>4

(* IInv is an invariant of Session. *)
LEMMA IInvAlways == Spec => []IInv
<1>1. IInv /\ [Next]_vars => IInv'
  <2>1. IInv /\ Step => IInv'
    BY TypeStep, CustodyStep, DistinctStep, HandshakesStep DEF IInv
  <2>. QED
    BY <2>1, StutterKeepsIInv DEF Next
<1>. QED
  BY <1>1, InitEstablishesIInv, PTL DEF Spec

-----------------------------------------------------------------------------

(* Every variable keeps its type in every execution, whatever the number of
   connections: the accept thread of acceptLoop holds a connection exactly
   between accept and the start of that client's thread. *)
THEOREM TypeCorrect == Spec => []TypeOK
<1>1. IInv => TypeOK
  BY DEF IInv
<1>. QED
  BY <1>1, IInvAlways, PTL

(* acceptLoop's check of a nickname and its registration are two critical
   sections, and an id is drawn before either write can fail; still no two
   registered players ever share a nickname or an id. *)
THEOREM PlayersAlwaysUnique == Spec => []UniquePlayers
<1>1. IInv => UniquePlayers
  <2>. SUFFICES ASSUME IInv, NEW c \in tcpClients, NEW d \in tcpClients, c # d
       PROVE  nickname[c].nick # nickname[d].nick /\ playerId[c] # playerId[d]
    BY DEF UniquePlayers
  <2>1. c \in Conn /\ d \in Conn /\ Distinct
    BY DEF IInv, TypeOK
  <2>2. playerId[c] # 0
    BY <2>1 DEF Distinct
  <2>. QED
    BY <2>1, <2>2 DEF Distinct
<1>. QED
  BY <1>1, IInvAlways, PTL

(* No open socket and no registration is ever without a thread that will close
   or erase it, whatever the order of joining, failing, leaving and shutdown. *)
THEOREM NeverOrphaned == Spec => []NoOrphans
<1>1. IInv => NoOrphans
  BY DEF IInv, Custody, NoOrphans, Joined
<1>. QED
  BY <1>1, IInvAlways, PTL

(* What a client's constructor reads always arrives in the order in which it
   reads it, although broadcasts of other threads race with the handshake. *)
THEOREM HandshakeAlwaysInOrder == Spec => []HandshakeInOrder
<1>1. IInv => HandshakeInOrder
  BY DEF IInv, Handshakes, HandshakeInOrder
<1>. QED
  BY <1>1, IInvAlways, PTL

-----------------------------------------------------------------------------
(* Session implements Membership.                                          *)

(* A player event that is queued or swapped out and not yet applied. *)
Pending(e) == \E i \in 1 .. Len(batch \o playerEvents) : (batch \o playerEvents)[i] = e

(* Every pending event is about a player whose thread was started; a
   departure comes from a thread that is done. *)
EventsOfPlayers ==
    \A e \in Event : Pending(e) =>
        \E d \in Conn : /\ playerId[d] = e.id /\ playerId[d] # 0 /\ handler[d] # "none"
                        /\ ~e.joined => handler[d] = "done"

(* A connection that was sent the map finds the callbacks set, and a thread is
   started for a player with an id and a nickname. *)
Served ==
    \A c \in Conn :
        /\ accConn = c /\ accPc \in {"emplace", "announce", "callback"} /\ c \notin mapless
              => mainPc \notin {"construct", "joinedSet", "leftSet"}
        /\ handler[c] # "none" => playerId[c] # 0 /\ nickname[c] # NoInfo

RInv == IInv /\ EventsOfPlayers /\ Served

(* Queueing an event. *)
LEMMA PendingAppended ==
    ASSUME TypeOK, NEW n \in Event, batch' = batch, playerEvents' = Append(playerEvents, n), NEW e
    PROVE  Pending(e)' <=> Pending(e) \/ e = n
<1>1. batch \in Seq(Event) /\ playerEvents \in Seq(Event)
  BY DEF TypeOK, Events
<1>2. (batch \o playerEvents)' = Append(batch \o playerEvents, n)
  BY <1>1
<1>3. batch \o playerEvents \in Seq(Event)
  BY <1>1
<1>4. \A q \in Seq(Event) : (\E i \in 1 .. Len(Append(q, n)) : Append(q, n)[i] = e)
                              <=> (\E i \in 1 .. Len(q) : q[i] = e) \/ e = n
  <2>1. SUFFICES ASSUME NEW q \in Seq(Event)
        PROVE  (\E i \in 1 .. Len(Append(q, n)) : Append(q, n)[i] = e)
                  <=> (\E i \in 1 .. Len(q) : q[i] = e) \/ e = n
    OBVIOUS
  <2>2. /\ Len(Append(q, n)) = Len(q) + 1 /\ Append(q, n)[Len(q) + 1] = n /\ Len(q) \in Nat
        /\ \A i \in 1 .. Len(q) : Append(q, n)[i] = q[i]
    OBVIOUS
  <2>. QED
    BY <2>2
<1>. QED
  BY <1>2, <1>3, <1>4 DEF Pending

(* Swapping the queue. *)
LEMMA PendingSwapped ==
    ASSUME TypeOK, batch = <<>>, batch' = playerEvents, playerEvents' = <<>>, NEW e
    PROVE  Pending(e)' <=> Pending(e)
<1>1. batch \in Seq(Event) /\ playerEvents \in Seq(Event)
  BY DEF TypeOK, Events
<1>2. playerEvents \o <<>> = <<>> \o playerEvents
  BY <1>1
<1>. QED
  BY <1>2 DEF Pending

(* Taking the next event. *)
LEMMA PendingTaken ==
    ASSUME TypeOK, batch # <<>>, batch' = Tail(batch), playerEvents' = playerEvents, NEW e
    PROVE  Pending(e) <=> Pending(e)' \/ e = Head(batch)
<1>1. batch \in Seq(Event) /\ playerEvents \in Seq(Event)
  BY DEF TypeOK, Events
<1> DEFINE q == batch \o playerEvents
           r == Tail(batch) \o playerEvents
<1>2. /\ Len(q) = Len(r) + 1 /\ Len(r) \in Nat /\ q[1] = Head(batch)
      /\ \A i \in 1 .. Len(r) : r[i] = q[i + 1]
  BY <1>1
<1>3. (\E i \in 1 .. Len(q) : q[i] = e) <=> (\E i \in 1 .. Len(r) : r[i] = e) \/ e = q[1]
  <2> HIDE DEF q, r
  <2>1. ASSUME NEW i \in 1 .. Len(q), i # 1 PROVE i - 1 \in 1 .. Len(r) /\ r[i - 1] = q[i]
    <3>1. i \in Int /\ Len(r) \in Nat /\ Len(q) = Len(r) + 1
      BY <1>2
    <3>2. i - 1 \in 1 .. Len(r) /\ (i - 1) + 1 = i
      BY <2>1, <3>1
    <3>3. r[i - 1] = q[(i - 1) + 1]
      BY <1>2, <3>2
    <3>. QED
      BY <3>2, <3>3
  <2>2. ASSUME NEW i \in 1 .. Len(r) PROVE i + 1 \in 1 .. Len(q)
    BY <1>2
  <2>3. 1 \in 1 .. Len(q)
    BY <1>2
  <2>. QED
    BY <1>2, <2>1, <2>2, <2>3
<1>4. Pending(e) <=> \E i \in 1 .. Len(q) : q[i] = e
  BY DEF Pending
<1>5. Pending(e)' <=> \E i \in 1 .. Len(r) : r[i] = e
  BY DEF Pending
<1>. QED
  BY <1>2, <1>3, <1>4, <1>5

(* Queues that stay hold the same events. *)
LEMMA PendingKept ==
    ASSUME UNCHANGED <<batch, playerEvents>>, NEW e
    PROVE  Pending(e)' <=> Pending(e)
  BY DEF Pending

(* Which connections were sent the map, and which players have a thread, is
   preserved. *)
LEMMA ServedStep == RInv /\ Step => Served'
<1>. SUFFICES ASSUME RInv, Step PROVE Served'
  OBVIOUS
<1>a. /\ NoConn \notin Conn /\ accConn \in Conn \cup {NoConn}
      /\ handler \in [Conn -> HandlerPc] /\ playerId \in [Conn -> Nat]
      /\ nextPlayerId \in Nat \ {0} /\ tcpClients \subseteq Conn
      /\ nickname \in [Conn -> Info \cup {NoInfo}]
  BY SessionAssumption DEF RInv, IInv, TypeOK
<1>b. \A c \in Conn :
         /\ accConn = c => handler[c] = "none"
         /\ accConn = c /\ accPc = "callback" => playerId[c] # 0 /\ nickname[c] # NoInfo
         /\ clientPc[c] = "connected" => nickname[c] = NoInfo
  BY DEF RInv, IInv, Custody, Joined, Distinct
<1>d. NoInfo \notin Info
  BY SessionAssumption DEF NoInfo
<1>c. Served
  BY DEF RInv
<1>. USE <1>a, <1>b, <1>c, <1>d DEF Served, serverVars, gameVars, clientVars
<1>1. ASSUME NEW c \in Conn, Accept(c)  PROVE Served'
  BY <1>1 DEF Accept
<1>2. ASSUME NEW c \in Conn, HandshakeFails(c)  PROVE Served'
  BY <1>2 DEF HandshakeFails, BackToAccept
<1>3. ASSUME NEW c \in Conn, HandshakeRefused(c)  PROVE Served'
  BY <1>3 DEF HandshakeRefused, BackToAccept, Terminate, Throws
<1>4. ASSUME NEW c \in Conn, HandshakeAccepted(c)  PROVE Served'
  BY <1>4 DEF HandshakeAccepted, BackToAccept
<1>5. ASSUME NEW c \in Conn, SendInitialState(c)  PROVE Served'
  BY <1>5 DEF SendInitialState, BackToAccept, MapData
<1>6. ASSUME NEW c \in Conn, Emplace(c)  PROVE Served'
  BY <1>6 DEF Emplace, Terminate, Throws
<1>7. ASSUME NEW c \in Conn, AnnounceJoined(c)  PROVE Served'
  BY <1>7 DEF AnnounceJoined
<1>8. ASSUME NEW c \in Conn, CallJoined(c)  PROVE Served'
  BY <1>8 DEF CallJoined
<1>9. ASSUME NEW c \in Conn, HandlerRelays(c)  PROVE Served'
  BY <1>9 DEF HandlerRelays, HandlerAt
<1>10. ASSUME NEW c \in Conn, HandlerKicks(c)  PROVE Served'
  <2>a. CASE Terminate
    BY <2>a DEF Terminate
  <2>b. CASE KickSent(c)
    BY <1>10, <2>b DEF HandlerKicks, KickSent, HandlerAt, HandlerGoto
  <2>. QED
    BY <1>10, <2>a, <2>b DEF HandlerKicks
<1>11. ASSUME NEW c \in Conn, HandlerEnds(c)  PROVE Served'
  BY <1>11 DEF HandlerEnds, HandlerAt, HandlerGoto
<1>12. ASSUME NEW c \in Conn, HandlerErases(c)  PROVE Served'
  BY <1>12 DEF HandlerErases, HandlerAt, HandlerGoto
<1>13. ASSUME NEW c \in Conn, HandlerAnnounces(c)  PROVE Served'
  BY <1>13 DEF HandlerAnnounces, HandlerAt, HandlerGoto
<1>14. ASSUME NEW c \in Conn, HandlerCallsLeft(c)  PROVE Served'
  BY <1>14 DEF HandlerCallsLeft, HandlerAt, HandlerGoto
<1>15. ASSUME NEW c \in Conn, ClientConnects(c)  PROVE Served'
  BY <1>15 DEF ClientConnects, ClientGoto
<1>16. ASSUME NEW c \in Conn, ClientSendsInfo(c)  PROVE Served'
  BY <1>16 DEF ClientSendsInfo, ClientGoto
<1>17. ASSUME NEW c \in Conn, ClientFails(c)  PROVE Served'
  BY <1>17 DEF ClientFails, ClientCloses, ClientGoto
<1>18. ASSUME NEW c \in Conn, ClientConstructed(c)  PROVE Served'
  BY <1>18 DEF ClientConstructed, ClientGoto
<1>19. ASSUME NEW c \in Conn, ClientStarts(c)  PROVE Served'
  BY <1>19 DEF ClientStarts, ClientGoto
<1>20. ASSUME NEW c \in Conn, ClientReads(c)  PROVE Served'
  BY <1>20 DEF ClientReads
<1>21. ASSUME NEW c \in Conn, ClientHangs(c)  PROVE Served'
  BY <1>21 DEF ClientHangs, ClientGoto
<1>22. ASSUME NEW c \in Conn, ClientQuits(c)  PROVE Served'
  BY <1>22 DEF ClientQuits, ClientCloses, ClientGoto
<1>23. CASE AcceptExit
  BY <1>23 DEF AcceptExit
<1>24. CASE SetJoinedCallback
  BY <1>24 DEF SetJoinedCallback, MainStep
<1>25. CASE SetLeftCallback
  BY <1>25 DEF SetLeftCallback, MainStep
<1>26. CASE SetMapData
  BY <1>26 DEF SetMapData, MainStep
<1>27. CASE SwapEvents
  BY <1>27 DEF SwapEvents
<1>28. CASE ProcessEvent
  BY <1>28 DEF ProcessEvent
<1>29. CASE StopServer
  BY <1>29 DEF StopServer, MainStep
<1>30. CASE KickAll
  BY <1>30 DEF KickAll, Terminate
<1>31. CASE JoinAcceptThread
  BY <1>31 DEF JoinAcceptThread, MainStep
<1>. QED
  BY <1>1, <1>2, <1>3, <1>4, <1>5, <1>6, <1>7, <1>8, <1>9, <1>10, <1>11, <1>12, <1>13, <1>14,
     <1>15, <1>16, <1>17, <1>18, <1>19, <1>20, <1>21, <1>22, <1>23, <1>24, <1>25, <1>26, <1>27,
     <1>28, <1>29, <1>30, <1>31 DEF Step, AcceptThread, HandlerThread,
     HandlerLeaves, ClientThread, ClientProgram, MainThread, StartUp, ProcessPlayerEvents, ServerStop

(* Pending events stay those of players that were started. *)
LEMMA EventsKept ==
    ASSUME RInv, UNCHANGED <<batch, playerEvents>>,
           \A d \in Conn : handler[d] # "none" => handler'[d] # "none" /\ playerId'[d] = playerId[d],
           \A d \in Conn : handler[d] = "done" => handler'[d] = "done"
    PROVE  EventsOfPlayers'
<1>. SUFFICES ASSUME NEW e \in Event, Pending(e)'
     PROVE  \E d \in Conn : /\ playerId'[d] = e.id /\ playerId'[d] # 0 /\ handler'[d] # "none"
                            /\ ~e.joined => handler'[d] = "done"
  BY DEF EventsOfPlayers
<1>1. Pending(e)
  BY PendingKept
<1>. QED
  BY <1>1 DEF RInv, EventsOfPlayers

LEMMA EventsStep == RInv /\ Step => EventsOfPlayers'
<1>. SUFFICES ASSUME RInv, Step PROVE EventsOfPlayers'
  OBVIOUS
<1>a. /\ NoConn \notin Conn /\ TypeOK
      /\ handler \in [Conn -> HandlerPc] /\ playerId \in [Conn -> Nat]
  BY SessionAssumption DEF RInv, IInv, TypeOK
<1>b. \A c \in Conn : accConn = c => handler[c] = "none"
  BY DEF RInv, IInv, Custody
<1>. USE <1>a, <1>b DEF serverVars, gameVars, clientVars
<1>1. ASSUME NEW c \in Conn, Accept(c)  PROVE EventsOfPlayers'
  BY <1>1, EventsKept DEF Accept
<1>2. ASSUME NEW c \in Conn, HandshakeFails(c)  PROVE EventsOfPlayers'
  BY <1>2, EventsKept DEF HandshakeFails, BackToAccept
<1>3. ASSUME NEW c \in Conn, HandshakeRefused(c)  PROVE EventsOfPlayers'
  BY <1>3, EventsKept DEF HandshakeRefused, BackToAccept, Terminate, Throws
<1>4. ASSUME NEW c \in Conn, HandshakeAccepted(c)  PROVE EventsOfPlayers'
  BY <1>4, EventsKept DEF HandshakeAccepted, BackToAccept
<1>5. ASSUME NEW c \in Conn, SendInitialState(c)  PROVE EventsOfPlayers'
  BY <1>5, EventsKept DEF SendInitialState, BackToAccept, MapData
<1>6. ASSUME NEW c \in Conn, Emplace(c)  PROVE EventsOfPlayers'
  BY <1>6, EventsKept DEF Emplace, Terminate, Throws
<1>7. ASSUME NEW c \in Conn, AnnounceJoined(c)  PROVE EventsOfPlayers'
  BY <1>7, EventsKept DEF AnnounceJoined
<1>8. ASSUME NEW c \in Conn, CallJoined(c)  PROVE EventsOfPlayers'
  <2>. DEFINE n == [joined |-> TRUE, id |-> playerId[c]]
  <2>1. n \in Event /\ playerId[c] # 0
    BY <1>8, EventTypes DEF CallJoined, RInv, IInv, Custody, Joined, Distinct
  <2>2. /\ handler'[c] = "read" /\ \A d \in Conn \ {c} : handler'[d] = handler[d]
        /\ handler[c] = "none" /\ playerId' = playerId /\ batch' = batch
        /\ playerEvents' = playerEvents \/ playerEvents' = Append(playerEvents, n)
    BY <1>8 DEF CallJoined
  <2>3. CASE playerEvents' = playerEvents
    BY <2>2, <2>3, EventsKept
  <2>4. CASE playerEvents' = Append(playerEvents, n)
    <3>. SUFFICES ASSUME NEW e \in Event, Pending(e)'
         PROVE  \E d \in Conn : /\ playerId'[d] = e.id /\ playerId'[d] # 0 /\ handler'[d] # "none"
                                /\ ~e.joined => handler'[d] = "done"
      BY DEF EventsOfPlayers
    <3>1. Pending(e) \/ e = n
      BY <2>1, <2>2, <2>4, PendingAppended
    <3>2. CASE Pending(e)
      BY <2>2, <3>2 DEF RInv, EventsOfPlayers
    <3>3. CASE e = n
      BY <2>1, <2>2, <3>3
    <3>. QED
      BY <3>1, <3>2, <3>3
  <2>. QED
    BY <2>2, <2>3, <2>4
<1>9. ASSUME NEW c \in Conn, HandlerRelays(c)  PROVE EventsOfPlayers'
  BY <1>9, EventsKept DEF HandlerRelays, HandlerAt
<1>10. ASSUME NEW c \in Conn, HandlerKicks(c)  PROVE EventsOfPlayers'
  <2>a. CASE Terminate
    BY <2>a, EventsKept DEF Terminate
  <2>b. CASE KickSent(c)
    BY <1>10, <2>b, EventsKept DEF HandlerKicks, KickSent, HandlerAt, HandlerGoto
  <2>. QED
    BY <1>10, <2>a, <2>b DEF HandlerKicks
<1>11. ASSUME NEW c \in Conn, HandlerEnds(c)  PROVE EventsOfPlayers'
  BY <1>11, EventsKept DEF HandlerEnds, HandlerAt, HandlerGoto
<1>12. ASSUME NEW c \in Conn, HandlerErases(c)  PROVE EventsOfPlayers'
  BY <1>12, EventsKept DEF HandlerErases, HandlerAt, HandlerGoto
<1>13. ASSUME NEW c \in Conn, HandlerAnnounces(c)  PROVE EventsOfPlayers'
  BY <1>13, EventsKept DEF HandlerAnnounces, HandlerAt, HandlerGoto
<1>14. ASSUME NEW c \in Conn, HandlerCallsLeft(c)  PROVE EventsOfPlayers'
  <2>. DEFINE n == [joined |-> FALSE, id |-> playerId[c]]
  <2>1. n \in Event /\ playerId[c] # 0
    BY <1>14, EventTypes DEF HandlerCallsLeft, HandlerAt, RInv, Served
  <2>2. /\ handler'[c] = "done" /\ \A d \in Conn \ {c} : handler'[d] = handler[d]
        /\ playerId' = playerId /\ batch' = batch
        /\ playerEvents' = playerEvents \/ playerEvents' = Append(playerEvents, n)
    BY <1>14 DEF HandlerCallsLeft, HandlerGoto
  <2>3. CASE playerEvents' = playerEvents
    BY <2>2, <2>3, EventsKept
  <2>4. CASE playerEvents' = Append(playerEvents, n)
    <3>. SUFFICES ASSUME NEW e \in Event, Pending(e)'
         PROVE  \E d \in Conn : /\ playerId'[d] = e.id /\ playerId'[d] # 0 /\ handler'[d] # "none"
                                /\ ~e.joined => handler'[d] = "done"
      BY DEF EventsOfPlayers
    <3>1. Pending(e) \/ e = n
      BY <2>1, <2>2, <2>4, PendingAppended
    <3>2. CASE Pending(e)
      BY <2>2, <3>2 DEF RInv, EventsOfPlayers
    <3>3. CASE e = n
      BY <2>1, <2>2, <3>3
    <3>. QED
      BY <3>1, <3>2, <3>3
  <2>. QED
    BY <2>2, <2>3, <2>4
<1>15. ASSUME NEW c \in Conn, ClientConnects(c)  PROVE EventsOfPlayers'
  BY <1>15, EventsKept DEF ClientConnects, ClientGoto
<1>16. ASSUME NEW c \in Conn, ClientSendsInfo(c)  PROVE EventsOfPlayers'
  BY <1>16, EventsKept DEF ClientSendsInfo, ClientGoto
<1>17. ASSUME NEW c \in Conn, ClientFails(c)  PROVE EventsOfPlayers'
  BY <1>17, EventsKept DEF ClientFails, ClientCloses, ClientGoto
<1>18. ASSUME NEW c \in Conn, ClientConstructed(c)  PROVE EventsOfPlayers'
  BY <1>18, EventsKept DEF ClientConstructed, ClientGoto
<1>19. ASSUME NEW c \in Conn, ClientStarts(c)  PROVE EventsOfPlayers'
  BY <1>19, EventsKept DEF ClientStarts, ClientGoto
<1>20. ASSUME NEW c \in Conn, ClientReads(c)  PROVE EventsOfPlayers'
  BY <1>20, EventsKept DEF ClientReads
<1>21. ASSUME NEW c \in Conn, ClientHangs(c)  PROVE EventsOfPlayers'
  BY <1>21, EventsKept DEF ClientHangs, ClientGoto
<1>22. ASSUME NEW c \in Conn, ClientQuits(c)  PROVE EventsOfPlayers'
  BY <1>22, EventsKept DEF ClientQuits, ClientCloses, ClientGoto
<1>23. CASE AcceptExit
  BY <1>23, EventsKept DEF AcceptExit
<1>24. CASE SetJoinedCallback
  BY <1>24, EventsKept DEF SetJoinedCallback, MainStep
<1>25. CASE SetLeftCallback
  BY <1>25, EventsKept DEF SetLeftCallback, MainStep
<1>26. CASE SetMapData
  BY <1>26, EventsKept DEF SetMapData, MainStep
<1>27. CASE SwapEvents
  <2>1. \A e \in Event : Pending(e)' => Pending(e)
    BY <1>27, PendingSwapped DEF SwapEvents
  <2>. QED
    BY <1>27, <2>1 DEF SwapEvents, RInv, EventsOfPlayers
<1>28. CASE ProcessEvent
  <2>1. \A e \in Event : Pending(e)' => Pending(e)
    BY <1>28, PendingTaken DEF ProcessEvent
  <2>. QED
    BY <1>28, <2>1 DEF ProcessEvent, RInv, EventsOfPlayers
<1>29. CASE StopServer
  BY <1>29, EventsKept DEF StopServer, MainStep
<1>30. CASE KickAll
  BY <1>30, EventsKept DEF KickAll, Terminate
<1>31. CASE JoinAcceptThread
  BY <1>31, EventsKept DEF JoinAcceptThread, MainStep
<1>. QED
  BY <1>1, <1>2, <1>3, <1>4, <1>5, <1>6, <1>7, <1>8, <1>9, <1>10, <1>11, <1>12, <1>13, <1>14,
     <1>15, <1>16, <1>17, <1>18, <1>19, <1>20, <1>21, <1>22, <1>23, <1>24, <1>25, <1>26, <1>27,
     <1>28, <1>29, <1>30, <1>31 DEF Step, AcceptThread, HandlerThread,
     HandlerLeaves, ClientThread, ClientProgram, MainThread, StartUp, ProcessPlayerEvents, ServerStop

(* A step that starts no thread, registers and erases nobody, and applies no
   event changes nothing of the abstract state. *)
LEMMA QuietStep ==
    ASSUME TypeOK, UNCHANGED <<tcpClients, humanoids>>,
           \A c \in Conn : /\ WasRegistered(c)' <=> WasRegistered(c)
                           /\ WasRegistered(c) => nickname'[c] = nickname[c]
                           /\ handler'[c] = "none" <=> handler[c] = "none",
           \A c \in Conn : handler[c] # "none" =>
              /\ playerId'[c] = playerId[c]
              /\ c \in mapless' <=> c \in mapless
              /\ c \in mapless \/ (JoinQueued(c)' <=> JoinQueued(c))
    PROVE  UNCHANGED M!vars
<1>1. \A c \in Conn : AbstractSeat(c)' = AbstractSeat(c)
  BY DEF AbstractSeat
<1>2. \A c \in Conn : AbstractName(c)' = AbstractName(c)
  BY DEF AbstractName
<1>3. \A c \in Conn : AbstractAvatar(c)' = AbstractAvatar(c)
  BY DEF AbstractAvatar
<1>. QED
  BY <1>1, <1>2, <1>3 DEF M!vars

(* A queued join is a pending event. *)
LEMMA JoinIsPending ==
    \A c \in Conn, j \in Event :
        /\ j = [joined |-> TRUE, id |-> playerId[c]] => (JoinQueued(c) <=> Pending(j))
        /\ j = [joined |-> TRUE, id |-> playerId'[c]] => (JoinQueued(c)' <=> Pending(j)')
  BY DEF JoinQueued, Pending

(* While the queues stay, so do the joins queued in them. *)
LEMMA JoinsKept ==
    ASSUME UNCHANGED <<batch, playerEvents>>, NEW c \in Conn, playerId'[c] = playerId[c]
    PROVE  JoinQueued(c)' <=> JoinQueued(c)
  BY DEF JoinQueued

(* Emplace is Register: the nickname was free when the connection was not
   refused, and only the accept thread registers. *)
LEMMA EmplaceRegisters ==
    ASSUME RInv, NEW c \in Conn, Emplace(c), ~Terminate
    PROVE  M!Register(c)
<1>. DEFINE n == nickname[c].nick
<1>1. /\ accConn = c /\ accPc = "emplace" /\ accPc' = "announce" /\ accConn' = accConn
      /\ tcpClients' = tcpClients \cup {c}
      /\ UNCHANGED <<nickname, handler, mapless, playerId, humanoids, batch, playerEvents>>
  BY DEF Emplace, serverVars, gameVars, clientVars
<1>2. /\ handler[c] = "none" /\ c \notin tcpClients
      /\ \A q \in tcpClients : q \in Conn /\ handler[q] # "none" /\ nickname[q].nick # n
  BY <1>1 DEF RInv, IInv, TypeOK, Custody, Distinct, Joining, Joined
<1>3. n \in Nick
  <2>1. nickname[c] \in Info
    BY <1>1 DEF RInv, IInv, TypeOK, Distinct, Joining
  <2>. QED
    BY <2>1, SessionAssumption
<1>4. /\ AbstractSeat(c) = "new" /\ AbstractSeat(c)' = "registered"
      /\ \A q \in Conn \ {c} : AbstractSeat(q)' = AbstractSeat(q)
  BY <1>1, <1>2 DEF AbstractSeat, WasRegistered
<1>5. /\ AbstractName(c)' = n
      /\ \A q \in Conn \ {c} : AbstractName(q)' = AbstractName(q)
  BY <1>1, <1>2 DEF AbstractName, WasRegistered
<1>6. \A q \in Conn : AbstractSeat(q) = "registered" => AbstractName(q) # n
  BY <1>2 DEF AbstractSeat, AbstractName, WasRegistered
<1>7. \A q \in Conn : AbstractAvatar(q)' = AbstractAvatar(q)
  BY <1>1 DEF AbstractAvatar, JoinQueued
<1>. HIDE DEF n
<1>. QED
  BY <1>3, <1>4, <1>5, <1>6, <1>7 DEF M!Register

(* HandlerErases is Leave. *)
LEMMA EraseLeaves ==
    ASSUME RInv, NEW c \in Conn, HandlerErases(c)
    PROVE  M!Leave(c)
<1>1. /\ handler[c] = "erase" /\ tcpClients' = tcpClients \ {c}
      /\ handler' = [handler EXCEPT ![c] = "announce"] /\ handler \in [Conn -> HandlerPc]
      /\ UNCHANGED <<accPc, accConn, nickname, mapless, playerId, humanoids, batch, playerEvents>>
  BY DEF HandlerErases, HandlerAt, HandlerGoto, gameVars, clientVars, RInv, IInv, TypeOK
<1>2. c \in tcpClients
  BY <1>1 DEF RInv, IInv, Custody
<1>3. /\ AbstractSeat(c) = "registered" /\ AbstractSeat(c)' = "left"
      /\ \A q \in Conn \ {c} : AbstractSeat(q)' = AbstractSeat(q)
  BY <1>1, <1>2 DEF AbstractSeat, WasRegistered
<1>4. \A q \in Conn : AbstractName(q)' = AbstractName(q)
  BY <1>1 DEF AbstractName, WasRegistered
<1>5. \A q \in Conn : AbstractAvatar(q)' = AbstractAvatar(q)
  BY <1>1 DEF AbstractAvatar, JoinQueued
<1>. QED
  BY <1>3, <1>4, <1>5 DEF M!Leave, M!vars

(* The joined callback changes nothing that Membership sees: the player is
   without a humanoid before and after. *)
LEMMA CallJoinedIsQuiet ==
    ASSUME RInv, NEW c \in Conn, CallJoined(c)
    PROVE  UNCHANGED M!vars
<1>. DEFINE n == [joined |-> TRUE, id |-> playerId[c]]
<1>1. /\ accConn = c /\ accPc = "callback" /\ accPc' = "accept" /\ accConn' = NoConn
      /\ handler' = [handler EXCEPT ![c] = "read"] /\ handler \in [Conn -> HandlerPc]
      /\ NoConn \notin Conn
      /\ UNCHANGED <<nickname, mapless, playerId, tcpClients, humanoids, batch>>
      /\ playerEvents' = IF mainPc = "construct" THEN playerEvents ELSE Append(playerEvents, n)
  BY SessionAssumption DEF CallJoined, clientVars, RInv, IInv, TypeOK
<1>2. handler[c] = "none" /\ c \in tcpClients /\ playerId[c] # 0 /\ n \in Event
  BY <1>1, EventTypes DEF RInv, IInv, TypeOK, Custody, Distinct, Joined
<1>3. \A q \in Conn : AbstractSeat(q)' = AbstractSeat(q) /\ AbstractName(q)' = AbstractName(q)
  BY <1>1 DEF AbstractSeat, AbstractName, WasRegistered
<1>4. AbstractAvatar(c)' = "absent" /\ AbstractAvatar(c) = "absent"
  <2>1. c \in mapless \/ playerEvents' = Append(playerEvents, n)
    BY <1>1 DEF RInv, Served
  <2>2. ASSUME playerEvents' = Append(playerEvents, n), NEW j \in Event, j = n PROVE Pending(j)'
    BY <1>1, <1>2, <2>2, PendingAppended DEF RInv, IInv
  <2>3. c \in mapless' \/ JoinQueued(c)'
    BY <1>1, <1>2, <2>1, <2>2, JoinIsPending
  <2>. QED
    BY <1>2, <2>3 DEF AbstractAvatar
<1>5. ASSUME NEW q \in Conn \ {c} PROVE AbstractAvatar(q)' = AbstractAvatar(q)
  <2>1. CASE handler[q] = "none"
    BY <1>1, <2>1 DEF AbstractAvatar
  <2>2. CASE handler[q] # "none"
    <3>1. playerId[q] # playerId[c]
      BY <1>2 DEF RInv, IInv, Distinct
    <3>2. [joined |-> TRUE, id |-> playerId[q]] # n /\ [joined |-> TRUE, id |-> playerId[q]] \in Event
      BY <3>1, EventTypes DEF RInv, IInv, TypeOK
    <3>3. ASSUME NEW j \in Event, j = [joined |-> TRUE, id |-> playerId[q]]
          PROVE  Pending(j)' <=> Pending(j)
      <4>1. CASE playerEvents' = playerEvents
        BY <1>1, <4>1, PendingKept
      <4>2. CASE playerEvents' = Append(playerEvents, n)
        BY <1>1, <1>2, <3>2, <3>3, <4>2, PendingAppended DEF RInv, IInv
      <4>. QED
        BY <1>1, <4>1, <4>2
    <3>4. JoinQueued(q)' <=> JoinQueued(q)
      BY <1>1, <3>2, <3>3, JoinIsPending
    <3>. QED
      BY <1>1, <3>4 DEF AbstractAvatar
  <2>. QED
    BY <2>1, <2>2
<1>. QED
  BY <1>3, <1>4, <1>5 DEF M!vars

(* The left callback queues no join. *)
LEMMA CallLeftIsQuiet ==
    ASSUME RInv, NEW c \in Conn, HandlerCallsLeft(c)
    PROVE  UNCHANGED M!vars
<1>. DEFINE n == [joined |-> FALSE, id |-> playerId[c]]
<1>1. /\ handler[c] = "callback" /\ handler' = [handler EXCEPT ![c] = "done"]
      /\ handler \in [Conn -> HandlerPc]
      /\ UNCHANGED <<accPc, accConn, nickname, mapless, playerId, tcpClients, humanoids, batch>>
      /\ playerEvents' = playerEvents \/ playerEvents' = Append(playerEvents, n)
  BY DEF HandlerCallsLeft, HandlerAt, HandlerGoto, clientVars, RInv, IInv, TypeOK
<1>2. n \in Event /\ TypeOK
  BY EventTypes DEF RInv, IInv, TypeOK
<1>3. ASSUME NEW q \in Conn PROVE JoinQueued(q)' <=> JoinQueued(q)
  <2>1. [joined |-> TRUE, id |-> playerId[q]] # n /\ [joined |-> TRUE, id |-> playerId[q]] \in Event
    BY <1>2, EventTypes DEF TypeOK
  <2>2. ASSUME NEW j \in Event, j = [joined |-> TRUE, id |-> playerId[q]]
        PROVE  Pending(j)' <=> Pending(j)
    <3>1. CASE playerEvents' = playerEvents
      BY <1>1, <3>1, PendingKept
    <3>2. CASE playerEvents' = Append(playerEvents, n)
      BY <1>1, <1>2, <2>1, <2>2, <3>2, PendingAppended
    <3>. QED
      BY <1>1, <3>1, <3>2
  <2>. QED
    BY <1>1, <2>1, <2>2, JoinIsPending
<1>. HIDE DEF n
<1>. QED
  BY <1>1, <1>2, <1>3, QuietStep DEF WasRegistered

(* Applying an event is Appear, Disappear or nothing. *)
LEMMA ProcessEventMoves ==
    ASSUME RInv, ProcessEvent
    PROVE  (\E d \in Conn : M!Appear(d) \/ M!Disappear(d)) \/ UNCHANGED M!vars
<1>. DEFINE e == Head(batch)
            join(q) == [joined |-> TRUE, id |-> playerId[q]]
<1>1. /\ batch # <<>> /\ batch' = Tail(batch) /\ humanoids' = ApplyEvent(humanoids, e)
      /\ UNCHANGED <<accPc, accConn, nickname, mapless, playerId, tcpClients, handler, playerEvents>>
      /\ TypeOK
  BY DEF ProcessEvent, serverVars, clientVars, RInv, IInv
<1>2. e \in Event /\ e.joined \in BOOLEAN
  BY <1>1, EventTypes DEF TypeOK, Events
<1>3. Pending(e)
  BY <1>1, PendingTaken
<1>4. PICK d \in Conn : /\ playerId[d] = e.id /\ playerId[d] # 0 /\ handler[d] # "none"
                        /\ ~e.joined => handler[d] = "done"
  BY <1>2, <1>3 DEF RInv, EventsOfPlayers
<1>5. \A q \in Conn : AbstractSeat(q)' = AbstractSeat(q) /\ AbstractName(q)' = AbstractName(q)
  BY <1>1 DEF AbstractSeat, AbstractName, WasRegistered
<1>6. \A j \in Event : Pending(j) <=> Pending(j)' \/ j = e
  BY <1>1, PendingTaken
<1>7. \A q \in Conn : JoinQueued(q) <=> JoinQueued(q)' \/ join(q) = e
  <2>. SUFFICES ASSUME NEW q \in Conn PROVE JoinQueued(q) <=> JoinQueued(q)' \/ join(q) = e
    OBVIOUS
  <2>1. join(q) \in Event /\ playerId'[q] = playerId[q]
    BY <1>1, EventTypes DEF TypeOK
  <2>2. \A j \in Event : j = join(q) =>
           /\ JoinQueued(q) <=> Pending(j)
           /\ JoinQueued(q)' <=> Pending(j)'
    BY <2>1, JoinIsPending
  <2>. HIDE DEF join, e
  <2>. QED
    BY <1>6, <2>1, <2>2
<1>8. \A q \in Conn : join(q) = e => playerId[q] = e.id /\ e.joined
  OBVIOUS
<1>9. e.joined => join(d) = e
  <2>1. e = [joined |-> e.joined, id |-> e.id]
    BY <1>2 DEF Event
  <2>. QED
    BY <1>2, <1>4, <2>1
<1>. HIDE DEF e, join
<1>10. ASSUME NEW q \in Conn \ {d} PROVE AbstractAvatar(q)' = AbstractAvatar(q)
  <2>1. CASE handler[q] = "none"
    BY <1>1, <2>1 DEF AbstractAvatar
  <2>2. CASE handler[q] # "none"
    <3>1. playerId[q] # e.id
      BY <1>4 DEF RInv, IInv, Distinct
    <3>2. JoinQueued(q)' <=> JoinQueued(q)
      BY <1>7, <1>8, <3>1
    <3>3. playerId[q] \in humanoids' <=> playerId[q] \in humanoids
      BY <1>1, <3>1 DEF ApplyEvent
    <3>. QED
      BY <1>1, <3>2, <3>3 DEF AbstractAvatar
  <2>. QED
    BY <2>1, <2>2
<1>11. AbstractSeat(d) # "new"
  BY <1>4 DEF AbstractSeat, WasRegistered
<1>12. CASE AbstractAvatar(d)' = AbstractAvatar(d)
  BY <1>5, <1>10, <1>12 DEF M!vars
<1>13. CASE e.joined /\ AbstractAvatar(d)' # AbstractAvatar(d)
  <2>1. JoinQueued(d)
    BY <1>7, <1>9, <1>13
  <2>2. AbstractAvatar(d) = "absent"
    BY <2>1 DEF AbstractAvatar
  <2>3. playerId[d] \in humanoids'
    BY <1>1, <1>4, <1>13 DEF ApplyEvent
  <2>4. AbstractAvatar(d)' = "present"
    BY <1>1, <1>13, <2>2, <2>3 DEF AbstractAvatar
  <2>5. M!Appear(d)
    BY <1>5, <1>10, <1>11, <2>2, <2>4 DEF M!Appear
  <2>. QED
    BY <2>5
<1>14. CASE ~e.joined /\ AbstractAvatar(d)' # AbstractAvatar(d)
  <2>1. handler[d] = "done"
    BY <1>4, <1>14
  <2>2. JoinQueued(d)' <=> JoinQueued(d)
    BY <1>7, <1>8, <1>14
  <2>3. playerId[d] \notin humanoids'
    BY <1>1, <1>4, <1>14 DEF ApplyEvent
  <2>4. AbstractAvatar(d) = "present" /\ AbstractAvatar(d)' = "removed"
    BY <1>1, <1>14, <2>1, <2>2, <2>3 DEF AbstractAvatar
  <2>5. AbstractSeat(d) = "left"
    BY <2>1, <1>11 DEF AbstractSeat, RInv, IInv, Custody, Joined
  <2>6. M!Disappear(d)
    BY <1>5, <1>10, <2>4, <2>5 DEF M!Disappear
  <2>. QED
    BY <2>6
<1>. QED
  BY <1>2, <1>12, <1>13, <1>14

(* Every step of Session is a step of Membership or changes nothing of it. *)
LEMMA StepRefines == RInv /\ Step => [M!Next]_(M!vars)
<1>. SUFFICES ASSUME RInv, Step PROVE [M!Next]_(M!vars)
  OBVIOUS
<1>a. /\ NoConn \notin Conn /\ accConn \in Conn \cup {NoConn} /\ TypeOK
      /\ accConn = NoConn <=> accPc \in {"accept", "exited", "failed"}
      /\ sock \in [Conn -> {"none", "open", "closed"}]
      /\ handler \in [Conn -> HandlerPc] /\ playerId \in [Conn -> Nat]
      /\ nickname \in [Conn -> Info \cup {NoInfo}] /\ mapless \subseteq Conn
  BY SessionAssumption DEF RInv, IInv, TypeOK
<1>b. \A c \in Conn : /\ accConn = c => handler[c] = "none"
                      /\ clientPc[c] \in {"idle", "connected"} => nickname[c] = NoInfo
                      /\ WasRegistered(c) => nickname[c] # NoInfo
                      /\ sock[c] = "none" => handler[c] = "none" /\ accConn # c
  <2>1. \A c \in Conn : /\ accConn = c => handler[c] = "none"
                        /\ clientPc[c] \in {"idle", "connected"} => nickname[c] = NoInfo
                        /\ sock[c] = "none" => handler[c] = "none" /\ accConn # c
    BY DEF RInv, IInv, Custody, Distinct
  <2>2. \A c \in Conn : WasRegistered(c) => nickname[c] # NoInfo
    BY DEF RInv, IInv, Custody, Distinct, Served, Joined, WasRegistered
  <2>. QED
    BY <2>1, <2>2
<1>. USE <1>a, <1>b DEF serverVars, gameVars, clientVars
<1>1. ASSUME NEW c \in Conn, Accept(c)  PROVE [M!Next]_(M!vars)
  BY <1>1, QuietStep, JoinsKept DEF Accept, WasRegistered
<1>2. ASSUME NEW c \in Conn, HandshakeFails(c)  PROVE [M!Next]_(M!vars)
  BY <1>2, QuietStep, JoinsKept DEF HandshakeFails, BackToAccept, WasRegistered
<1>3. ASSUME NEW c \in Conn, HandshakeRefused(c)  PROVE [M!Next]_(M!vars)
  BY <1>3, QuietStep, JoinsKept DEF HandshakeRefused, BackToAccept, Terminate, Throws, WasRegistered
<1>4. ASSUME NEW c \in Conn, HandshakeAccepted(c)  PROVE [M!Next]_(M!vars)
  BY <1>4, QuietStep, JoinsKept DEF HandshakeAccepted, BackToAccept, WasRegistered
<1>5. ASSUME NEW c \in Conn, SendInitialState(c)  PROVE [M!Next]_(M!vars)
  BY <1>5, QuietStep, JoinsKept DEF SendInitialState, BackToAccept, MapData, WasRegistered
<1>6. ASSUME NEW c \in Conn, Emplace(c)  PROVE [M!Next]_(M!vars)
  <2>1. CASE Terminate
    BY <1>6, <2>1, QuietStep DEF Terminate, WasRegistered, JoinQueued
  <2>2. CASE ~Terminate
    BY <1>6, <2>2, EmplaceRegisters DEF M!Next
  <2>. QED
    BY <2>1, <2>2
<1>7. ASSUME NEW c \in Conn, AnnounceJoined(c)  PROVE [M!Next]_(M!vars)
  BY <1>7, QuietStep, JoinsKept DEF AnnounceJoined, WasRegistered
<1>8. ASSUME NEW c \in Conn, CallJoined(c)  PROVE [M!Next]_(M!vars)
  BY <1>8, CallJoinedIsQuiet
<1>9. ASSUME NEW c \in Conn, HandlerRelays(c)  PROVE [M!Next]_(M!vars)
  BY <1>9, QuietStep, JoinsKept DEF HandlerRelays, HandlerAt, WasRegistered
<1>10. ASSUME NEW c \in Conn, HandlerKicks(c)  PROVE [M!Next]_(M!vars)
  <2>a. CASE Terminate
    BY <1>10, <2>a, QuietStep DEF Terminate, WasRegistered, JoinQueued
  <2>b. CASE KickSent(c)
    BY <1>10, <2>b, QuietStep, JoinsKept DEF HandlerKicks, KickSent, HandlerAt, HandlerGoto, WasRegistered
  <2>. QED
    BY <1>10, <2>a, <2>b DEF HandlerKicks
<1>11. ASSUME NEW c \in Conn, HandlerEnds(c)  PROVE [M!Next]_(M!vars)
  BY <1>11, QuietStep, JoinsKept DEF HandlerEnds, HandlerAt, HandlerGoto, WasRegistered
<1>12. ASSUME NEW c \in Conn, HandlerErases(c)  PROVE [M!Next]_(M!vars)
  BY <1>12, EraseLeaves DEF M!Next
<1>13. ASSUME NEW c \in Conn, HandlerAnnounces(c)  PROVE [M!Next]_(M!vars)
  BY <1>13, QuietStep, JoinsKept DEF HandlerAnnounces, HandlerAt, HandlerGoto, WasRegistered
<1>14. ASSUME NEW c \in Conn, HandlerCallsLeft(c)  PROVE [M!Next]_(M!vars)
  BY <1>14, CallLeftIsQuiet
<1>15. ASSUME NEW c \in Conn, ClientConnects(c)  PROVE [M!Next]_(M!vars)
  BY <1>15, QuietStep, JoinsKept DEF ClientConnects, ClientGoto, WasRegistered
<1>16. ASSUME NEW c \in Conn, ClientSendsInfo(c)  PROVE [M!Next]_(M!vars)
  BY <1>16, QuietStep, JoinsKept DEF ClientSendsInfo, ClientGoto, WasRegistered
<1>17. ASSUME NEW c \in Conn, ClientFails(c)  PROVE [M!Next]_(M!vars)
  BY <1>17, QuietStep, JoinsKept DEF ClientFails, ClientCloses, ClientGoto, WasRegistered
<1>18. ASSUME NEW c \in Conn, ClientConstructed(c)  PROVE [M!Next]_(M!vars)
  BY <1>18, QuietStep, JoinsKept DEF ClientConstructed, ClientGoto, WasRegistered
<1>19. ASSUME NEW c \in Conn, ClientStarts(c)  PROVE [M!Next]_(M!vars)
  BY <1>19, QuietStep, JoinsKept DEF ClientStarts, ClientGoto, WasRegistered
<1>20. ASSUME NEW c \in Conn, ClientReads(c)  PROVE [M!Next]_(M!vars)
  BY <1>20, QuietStep, JoinsKept DEF ClientReads, WasRegistered
<1>21. ASSUME NEW c \in Conn, ClientHangs(c)  PROVE [M!Next]_(M!vars)
  BY <1>21, QuietStep, JoinsKept DEF ClientHangs, ClientGoto, WasRegistered
<1>22. ASSUME NEW c \in Conn, ClientQuits(c)  PROVE [M!Next]_(M!vars)
  BY <1>22, QuietStep, JoinsKept DEF ClientQuits, ClientCloses, ClientGoto, WasRegistered
<1>23. CASE AcceptExit
  BY <1>23, QuietStep, JoinsKept DEF AcceptExit, WasRegistered
<1>24. CASE SetJoinedCallback
  BY <1>24, QuietStep, JoinsKept DEF SetJoinedCallback, MainStep, WasRegistered
<1>25. CASE SetLeftCallback
  BY <1>25, QuietStep, JoinsKept DEF SetLeftCallback, MainStep, WasRegistered
<1>26. CASE SetMapData
  BY <1>26, QuietStep, JoinsKept DEF SetMapData, MainStep, WasRegistered
<1>27. CASE SwapEvents
  <2>1. \A q \in Conn : JoinQueued(q)' <=> JoinQueued(q)
    <3>1. /\ batch = <<>> /\ batch' = playerEvents /\ playerEvents' = <<>> /\ playerId' = playerId
          /\ TypeOK /\ \A q \in Conn : [joined |-> TRUE, id |-> playerId[q]] \in Event
      BY <1>27, EventTypes DEF SwapEvents
    <3>2. \A j \in Event : Pending(j)' <=> Pending(j)
      BY <3>1, PendingSwapped
    <3>. QED
      BY <3>1, <3>2, JoinIsPending
  <2>. QED
    BY <1>27, <2>1, QuietStep DEF SwapEvents, WasRegistered
<1>28. CASE ProcessEvent
  BY <1>28, ProcessEventMoves DEF M!Next
<1>29. CASE StopServer
  BY <1>29, QuietStep, JoinsKept DEF StopServer, MainStep, WasRegistered
<1>30. CASE KickAll
  BY <1>30, QuietStep, JoinsKept DEF KickAll, Terminate, WasRegistered
<1>31. CASE JoinAcceptThread
  BY <1>31, QuietStep, JoinsKept DEF JoinAcceptThread, MainStep, WasRegistered
<1>. QED
  BY <1>1, <1>2, <1>3, <1>4, <1>5, <1>6, <1>7, <1>8, <1>9, <1>10, <1>11, <1>12, <1>13, <1>14,
     <1>15, <1>16, <1>17, <1>18, <1>19, <1>20, <1>21, <1>22, <1>23, <1>24, <1>25, <1>26, <1>27,
     <1>28, <1>29, <1>30, <1>31 DEF Step, AcceptThread, HandlerThread,
     HandlerLeaves, ClientThread, ClientProgram, MainThread, StartUp, ProcessPlayerEvents, ServerStop

(* The invariant behind the refinement. *)
LEMMA RInvAlways == Spec => []RInv
<1>1. Init => RInv
  <2>. SUFFICES ASSUME Init PROVE RInv
    OBVIOUS
  <2>1. \A e : ~Pending(e)
    BY DEF Init, InitFrom, Pending
  <2>2. Served
    BY SessionAssumption DEF Init, InitFrom, Served
  <2>. QED
    BY <2>1, <2>2, InitEstablishesIInv DEF RInv, EventsOfPlayers
<1>2. RInv /\ [Next]_vars => RInv'
  <2>1. RInv /\ Step => RInv'
    BY ServedStep, EventsStep, TypeStep, CustodyStep, DistinctStep, HandshakesStep
       DEF RInv, IInv
  <2>2. RInv /\ UNCHANGED vars => RInv'
    <3>. SUFFICES ASSUME RInv, UNCHANGED vars PROVE RInv'
      OBVIOUS
    <3>1. EventsOfPlayers'
      BY EventsKept DEF vars, serverVars, gameVars
    <3>2. Served'
      BY DEF RInv, Served, vars, serverVars
    <3>. QED
      BY <3>1, <3>2, StutterKeepsIInv DEF RInv
  <2>. QED
    BY <2>1, <2>2 DEF Next
<1>. QED
  BY <1>1, <1>2, PTL DEF Spec

(* Session implements Membership: through all its threads, queues and packets
   a player is registered at most once, under a nickname nobody else has, and
   its humanoid comes and goes once (acceptLoop, handleTcpClient and
   GameServer::processPlayerEvents). *)
THEOREM RefinesMembership == Spec => ImplementsMembership
<1>1. Init => M!Init
  BY SessionAssumption DEF Init, InitFrom, M!Init, AbstractSeat, AbstractName, AbstractAvatar,
     WasRegistered
<1>2. RInv /\ [Next]_vars => [M!Next]_(M!vars)
  <2>1. UNCHANGED vars => UNCHANGED M!vars
    BY DEF vars, serverVars, gameVars, M!vars, AbstractSeat, AbstractName, AbstractAvatar,
       WasRegistered, JoinQueued
  <2>. QED
    BY <2>1, StepRefines DEF Next
<1>. QED
  BY <1>1, <1>2, RInvAlways, PTL DEF Spec, ImplementsMembership, M!Spec

-----------------------------------------------------------------------------
(* The world and the rosters.                                              *)

(* The positions of a value after one more is written, and after one is read. *)
LEMMA AtAppended ==
    ASSUME NEW S, NEW q \in Seq(S), NEW m \in S, NEW v
    PROVE  /\ At(Append(q, m), v) = At(q, v) \cup (IF m = v THEN {Len(q) + 1} ELSE {})
           /\ \A i \in At(q, v) : i \in Nat /\ i < Len(q) + 1
<1>1. /\ Len(Append(q, m)) = Len(q) + 1 /\ Append(q, m)[Len(q) + 1] = m /\ Len(q) \in Nat
      /\ \A i \in 1 .. Len(q) : Append(q, m)[i] = q[i]
      /\ DOMAIN q = 1 .. Len(q) /\ DOMAIN Append(q, m) = 1 .. Len(q) + 1
  OBVIOUS
<1>. QED
  BY <1>1 DEF At

LEMMA AtRead ==
    ASSUME NEW S, NEW q \in Seq(S), q # <<>>, NEW v
    PROVE  /\ At(q, v) = {i + 1 : i \in At(Tail(q), v)} \cup (IF Head(q) = v THEN {1} ELSE {})
           /\ \A i \in At(Tail(q), v) : i \in Nat /\ i > 0
<1>1. /\ Len(q) = Len(Tail(q)) + 1 /\ Len(Tail(q)) \in Nat /\ q[1] = Head(q)
      /\ \A i \in 1 .. Len(Tail(q)) : Tail(q)[i] = q[i + 1]
      /\ DOMAIN q = 1 .. Len(q) /\ DOMAIN Tail(q) = 1 .. Len(Tail(q))
  OBVIOUS
<1>2. ASSUME NEW i \in 1 .. Len(q), i # 1
      PROVE  i - 1 \in 1 .. Len(Tail(q)) /\ i = (i - 1) + 1 /\ Tail(q)[i - 1] = q[i]
  <2>1. i - 1 \in 1 .. Len(Tail(q)) /\ i = (i - 1) + 1
    BY <1>1, <1>2
  <2>. QED
    BY <1>1, <2>1
<1>3. \A i \in 1 .. Len(Tail(q)) : i + 1 \in 1 .. Len(q) /\ i \in Nat /\ i > 0
  BY <1>1
<1>4. 1 \in 1 .. Len(q)
  BY <1>1
<1>5. ASSUME NEW i \in At(q, v) PROVE (i = 1 /\ Head(q) = v) \/ (\E j \in At(Tail(q), v) : i = j + 1)
  BY <1>1, <1>2, <1>5 DEF At
<1>6. ASSUME NEW j \in At(Tail(q), v) PROVE j + 1 \in At(q, v) /\ j \in Nat /\ j > 0
  BY <1>1, <1>3, <1>6 DEF At
<1>7. Head(q) = v => 1 \in At(q, v)
  BY <1>1, <1>4 DEF At
<1>. QED
  BY <1>5, <1>6, <1>7

(* What is appended last decides. *)
LEMMA AppendSettles ==
    ASSUME NEW S, NEW q \in Seq(S), NEW m \in S, NEW a, NEW r, a # r, NEW p, NEW K
    PROVE  Settled(p \in K, At(Append(q, m), a), At(Append(q, m), r))
              <=> m = a \/ (m # r /\ Settled(p \in K, At(q, a), At(q, r)))
<1>. DEFINE A == At(q, a)
            R == At(q, r)
            n == Len(q) + 1
<1>1. /\ At(Append(q, m), a) = A \cup (IF m = a THEN {n} ELSE {})
      /\ At(Append(q, m), r) = R \cup (IF m = r THEN {n} ELSE {})
      /\ \A i \in A \cup R : i \in Nat /\ i < n
      /\ n \in Nat
  BY AtAppended
<1>. HIDE DEF A, R, n
<1>2. CASE m = a
  BY <1>1, <1>2 DEF Settled
<1>3. CASE m = r
  <2>1. At(Append(q, m), a) = A /\ n \in At(Append(q, m), r)
    BY <1>1, <1>3
  <2>2. \A i \in A : ~(n < i)
    BY <1>1
  <2>. QED
    BY <1>3, <2>1, <2>2 DEF Settled
<1>4. CASE m # a /\ m # r
  <2>1. At(Append(q, m), a) = A /\ At(Append(q, m), r) = R
    BY <1>1, <1>4
  <2>. QED
    BY <1>4, <2>1 DEF A, R
<1>. QED
  BY <1>2, <1>3, <1>4

(* What is read first is settled first. *)
LEMMA ReadSettles ==
    ASSUME NEW S, NEW q \in Seq(S), q # <<>>, NEW a, NEW r, a # r,
           NEW p, NEW K, NEW L, p \in L <=> Head(q) = a \/ (Head(q) # r /\ p \in K)
    PROVE  Settled(p \in K, At(q, a), At(q, r))
              <=> Settled(p \in L, At(Tail(q), a), At(Tail(q), r))
<1>. DEFINE A == At(Tail(q), a)
            R == At(Tail(q), r)
<1>1. /\ At(q, a) = {i + 1 : i \in A} \cup (IF Head(q) = a THEN {1} ELSE {})
      /\ At(q, r) = {i + 1 : i \in R} \cup (IF Head(q) = r THEN {1} ELSE {})
      /\ \A i \in A \cup R : i \in Nat /\ i > 0
  BY AtRead
<1>. HIDE DEF A, R
<1>2. (\E i \in {k + 1 : k \in A} : \A j \in At(q, r) : j < i) <=> \E i \in A : \A j \in R : j < i
  <2>1. ASSUME NEW i \in A PROVE (\A j \in At(q, r) : j < i + 1) <=> \A j \in R : j < i
    <3>1. i \in Nat /\ i > 0 /\ 1 < i + 1 /\ \A j \in R : j \in Nat /\ (j + 1 < i + 1 <=> j < i)
      BY <1>1
    <3>2. \A j \in R : j + 1 \in At(q, r)
      BY <1>1
    <3>3. \A j \in At(q, r) : j = 1 \/ \E k \in R : j = k + 1
      BY <1>1
    <3>. QED
      BY <3>1, <3>2, <3>3
  <2>2. (\E i \in {k + 1 : k \in A} : \A j \in At(q, r) : j < i)
           <=> \E k \in A : \A j \in At(q, r) : j < k + 1
    BY Zenon
  <2>. QED
    BY <2>1, <2>2, Zenon
<1>3. CASE Head(q) = a
  <2>1. At(q, a) = {i + 1 : i \in A} \cup {1} /\ At(q, r) = {i + 1 : i \in R}
    BY <1>1, <1>3
  <2>2. (\A j \in At(q, r) : j < 1) <=> R = {}
    <3>1. \A k \in R : k + 1 \in At(q, r) /\ ~(k + 1 < 1)
      BY <1>1, <2>1
    <3>2. R = {} => At(q, r) = {}
      BY <2>1
    <3>. QED
      BY <3>1, <3>2
  <2>3. (At(q, r) = {}) <=> R = {}
    BY <2>1
  <2>4. Settled(p \in K, At(q, a), At(q, r)) <=> R = {} \/ \E i \in A : \A j \in R : j < i
    BY <1>2, <2>1, <2>2, <2>3 DEF Settled
  <2>. QED
    BY <1>3, <2>4 DEF Settled, A, R
<1>4. CASE Head(q) = r
  <2>1. At(q, a) = {i + 1 : i \in A} /\ At(q, r) # {}
    BY <1>1, <1>4
  <2>2. Settled(p \in K, At(q, a), At(q, r)) <=> \E i \in A : \A j \in R : j < i
    BY <1>2, <2>1 DEF Settled
  <2>. QED
    BY <1>4, <2>2 DEF Settled, A, R
<1>5. CASE Head(q) # a /\ Head(q) # r
  <2>1. At(q, a) = {i + 1 : i \in A} /\ At(q, r) = {i + 1 : i \in R}
    BY <1>1, <1>5
  <2>2. (At(q, r) = {}) <=> R = {}
    BY <2>1
  <2>3. Settled(p \in K, At(q, a), At(q, r)) <=> (p \in K /\ R = {}) \/ \E i \in A : \A j \in R : j < i
    BY <1>2, <2>1, <2>2 DEF Settled
  <2>. QED
    BY <1>5, <2>3 DEF Settled, A, R
<1>. QED
  BY <1>3, <1>4, <1>5

(* A connection whose handshake has not got to the map. *)
Early(c) == sock[c] = "none" \/ (accConn = c /\ accPc \in {"handshake", "snapshot"})

(* What a client at its place in its program knows, and which connections were
   sent the map. *)
Places ==
    \A c \in Conn :
        /\ clientPc[c] \notin {"running", "halted"} => roster[c] = {}
        /\ clientPc[c] # "constructed" => oldPlayers[c] = {}
        /\ Early(c) => clientPc[c] \notin {"constructed", "running", "halted"} /\ c \notin mapless
        /\ c \notin mapless /\ handler[c] # "none" => mainPc \notin {"construct", "joinedSet", "leftSet"}

(* A client that was sent the empty map is in mapless, and never gets further
   than its constructor. *)
MapsSent ==
    \A c \in Conn :
        /\ Opening(c) /\ Complete(queue[c]) =>
              queue[c][3] = MapMsg(IF c \in mapless THEN "empty" ELSE "set")
        /\ clientPc[c] \in {"constructed", "running"} => c \notin mapless

LEMMA PlacesStep == RInv /\ Places /\ Step => Places'
<1>. SUFFICES ASSUME RInv, Places, Step PROVE Places'
  OBVIOUS
<1>a. /\ NoConn \notin Conn /\ accConn \in Conn \cup {NoConn}
      /\ handler \in [Conn -> HandlerPc] /\ clientPc \in [Conn -> ClientPc]
      /\ sock \in [Conn -> {"none", "open", "closed"}]
      /\ roster \in [Conn -> SUBSET Nat] /\ oldPlayers \in [Conn -> SUBSET Nat]
      /\ mapless \subseteq Conn
  BY SessionAssumption DEF RInv, IInv, TypeOK, Rosters
<1>b. \A c \in Conn :
         /\ sock[c] = "none" => handler[c] = "none" /\ accConn # c
         /\ accConn = c => handler[c] = "none"
         /\ accConn = c /\ accPc \in {"emplace", "announce", "callback"} /\ c \notin mapless
               => mainPc \notin {"construct", "joinedSet", "leftSet"}
  BY DEF RInv, IInv, Custody, Served
<1>c. \A c \in Conn : clientPc[c] = "waiting" /\ Early(c) => ~(Len(queue[c]) >= 3)
  <2>1. \A c \in Conn : clientPc[c] = "waiting" /\ Early(c) => queue[c] = <<>> \/ AcceptOnly(queue[c])
    BY DEF RInv, IInv, Handshakes, Early, Joining
  <2>2. ~(Len(<<>>) >= 3)
    OBVIOUS
  <2>3. \A q : AcceptOnly(q) => ~(Len(q) >= 3)
    BY DEF AcceptOnly
  <2>. QED
    BY <2>1, <2>2, <2>3
<1>. USE <1>a, <1>b, <1>c DEF Places, Early, serverVars, gameVars, clientVars
<1>1. ASSUME NEW c \in Conn, Accept(c)  PROVE Places'
  BY <1>1 DEF Accept
<1>2. ASSUME NEW c \in Conn, HandshakeFails(c)  PROVE Places'
  BY <1>2 DEF HandshakeFails, BackToAccept
<1>3. ASSUME NEW c \in Conn, HandshakeRefused(c)  PROVE Places'
  BY <1>3 DEF HandshakeRefused, BackToAccept, Terminate, Throws
<1>4. ASSUME NEW c \in Conn, HandshakeAccepted(c)  PROVE Places'
  BY <1>4 DEF HandshakeAccepted, BackToAccept
<1>5. ASSUME NEW c \in Conn, SendInitialState(c)  PROVE Places'
  BY <1>5 DEF SendInitialState, BackToAccept, MapData
<1>6. ASSUME NEW c \in Conn, Emplace(c)  PROVE Places'
  BY <1>6 DEF Emplace, Terminate, Throws
<1>7. ASSUME NEW c \in Conn, AnnounceJoined(c)  PROVE Places'
  BY <1>7 DEF AnnounceJoined
<1>8. ASSUME NEW c \in Conn, CallJoined(c)  PROVE Places'
  BY <1>8 DEF CallJoined
<1>9. ASSUME NEW c \in Conn, HandlerRelays(c)  PROVE Places'
  BY <1>9 DEF HandlerRelays, HandlerAt
<1>10. ASSUME NEW c \in Conn, HandlerKicks(c)  PROVE Places'
  <2>a. CASE Terminate
    BY <2>a DEF Terminate
  <2>b. CASE KickSent(c)
    BY <1>10, <2>b DEF HandlerKicks, KickSent, HandlerAt, HandlerGoto
  <2>. QED
    BY <1>10, <2>a, <2>b DEF HandlerKicks
<1>11. ASSUME NEW c \in Conn, HandlerEnds(c)  PROVE Places'
  BY <1>11 DEF HandlerEnds, HandlerAt, HandlerGoto
<1>12. ASSUME NEW c \in Conn, HandlerErases(c)  PROVE Places'
  BY <1>12 DEF HandlerErases, HandlerAt, HandlerGoto
<1>13. ASSUME NEW c \in Conn, HandlerAnnounces(c)  PROVE Places'
  BY <1>13 DEF HandlerAnnounces, HandlerAt, HandlerGoto
<1>14. ASSUME NEW c \in Conn, HandlerCallsLeft(c)  PROVE Places'
  BY <1>14 DEF HandlerCallsLeft, HandlerAt, HandlerGoto
<1>15. ASSUME NEW c \in Conn, ClientConnects(c)  PROVE Places'
  BY <1>15 DEF ClientConnects, ClientGoto
<1>16. ASSUME NEW c \in Conn, ClientSendsInfo(c)  PROVE Places'
  BY <1>16 DEF ClientSendsInfo, ClientGoto
<1>17. ASSUME NEW c \in Conn, ClientFails(c)  PROVE Places'
  BY <1>17 DEF ClientFails, ClientCloses, ClientGoto
<1>18. ASSUME NEW c \in Conn, ClientConstructed(c)  PROVE Places'
  BY <1>18 DEF ClientConstructed, ClientGoto
<1>19. ASSUME NEW c \in Conn, ClientStarts(c)  PROVE Places'
  BY <1>19 DEF ClientStarts, ClientGoto
<1>20. ASSUME NEW c \in Conn, ClientReads(c)  PROVE Places'
  BY <1>20 DEF ClientReads
<1>21. ASSUME NEW c \in Conn, ClientHangs(c)  PROVE Places'
  BY <1>21 DEF ClientHangs, ClientGoto
<1>22. ASSUME NEW c \in Conn, ClientQuits(c)  PROVE Places'
  BY <1>22 DEF ClientQuits, ClientCloses, ClientGoto
<1>23. CASE AcceptExit
  BY <1>23 DEF AcceptExit
<1>24. CASE SetJoinedCallback
  BY <1>24 DEF SetJoinedCallback, MainStep
<1>25. CASE SetLeftCallback
  BY <1>25 DEF SetLeftCallback, MainStep
<1>26. CASE SetMapData
  BY <1>26 DEF SetMapData, MainStep
<1>27. CASE SwapEvents
  BY <1>27 DEF SwapEvents
<1>28. CASE ProcessEvent
  BY <1>28 DEF ProcessEvent
<1>29. CASE StopServer
  BY <1>29 DEF StopServer, MainStep
<1>30. CASE KickAll
  BY <1>30 DEF KickAll, Terminate
<1>31. CASE JoinAcceptThread
  BY <1>31 DEF JoinAcceptThread, MainStep
<1>. QED
  BY <1>1, <1>2, <1>3, <1>4, <1>5, <1>6, <1>7, <1>8, <1>9, <1>10, <1>11, <1>12, <1>13, <1>14,
     <1>15, <1>16, <1>17, <1>18, <1>19, <1>20, <1>21, <1>22, <1>23, <1>24, <1>25, <1>26, <1>27,
     <1>28, <1>29, <1>30, <1>31 DEF Step, AcceptThread, HandlerThread,
     HandlerLeaves, ClientThread, ClientProgram, MainThread, StartUp, ProcessPlayerEvents, ServerStop

(* What a client finds in its queue after a broadcast. *)
LEMMA SendAllAt ==
    ASSUME NEW C, NEW m
    PROVE  \A d \in Conn : SendAll(C, m)[d] = IF d \in C /\ sock[d] = "open" /\ PeerOpen(d)
                                              THEN Append(queue[d], m) ELSE queue[d]
  BY DEF SendAll

(* What follows a complete handshake does not change it. *)
LEMMA HandshakeKept ==
    ASSUME NEW q \in Seq(Message), NEW m \in Message, Complete(q)
    PROVE  /\ Complete(Append(q, m)) /\ Append(q, m)[2] = q[2] /\ Append(q, m)[3] = q[3]
           /\ SubSeq(Append(q, m), 4, Len(Append(q, m))) = Append(SubSeq(q, 4, Len(q)), m)
<1>1. Len(q) \in Nat /\ Len(q) >= 3 /\ Len(Append(q, m)) = Len(q) + 1
  BY DEF Complete
<1>2. Append(q, m)[2] = q[2] /\ Append(q, m)[3] = q[3]
  BY <1>1
<1>3. SubSeq(Append(q, m), 4, Len(Append(q, m))) = Append(SubSeq(q, 4, Len(q)), m)
  <2>. DEFINE L == SubSeq(Append(q, m), 4, Len(q) + 1)
              R == Append(SubSeq(q, 4, Len(q)), m)
  <2>0. PICK t : t = SubSeq(q, 4, Len(q))
    OBVIOUS
  <2>a. t \in Seq(Message) /\ Len(t) = Len(q) - 3 /\ \A i \in 1 .. Len(q) - 3 : t[i] = q[i + 3]
    <3>1. t \in Seq(Message)
      BY <1>1, <2>0
    <3>2. Len(t) = IF 4 <= Len(q) THEN Len(q) - 4 + 1 ELSE 0
      BY <1>1, <2>0
    <3>3. \A i \in 1 .. Len(t) : t[i] = q[4 + i - 1]
      BY <1>1, <2>0
    <3>4. Len(t) = Len(q) - 3
      <4>. DEFINE n == Len(q)
      <4>1. n \in Nat /\ n >= 3 /\ Len(t) = IF 4 <= n THEN n - 4 + 1 ELSE 0
        BY <1>1, <3>2
      <4>. HIDE DEF n
      <4>2. Len(t) = n - 3
        BY <4>1
      <4>. QED
        BY <4>2 DEF n
    <3>5. \A i \in 1 .. Len(q) - 3 : 4 + i - 1 = i + 3
      BY <1>1
    <3>. QED
      BY <3>1, <3>3, <3>4, <3>5
  <2>b. /\ R \in Seq(Message) /\ Len(R) = Len(t) + 1 /\ R[Len(t) + 1] = m
        /\ \A i \in 1 .. Len(t) : R[i] = t[i]
    BY <2>0, <2>a, AppendAt
  <2>c. (Len(q) - 3) + 1 = Len(q) - 2
    BY <1>1
  <2>d. Append(q, m) \in Seq(Message) /\ Append(q, m)[Len(q) + 1] = m /\ Len(Append(q, m)) = Len(q) + 1
    BY AppendAt
  <2>1. L \in Seq(Message) /\ R \in Seq(Message) /\ Len(L) = Len(q) - 2 /\ Len(R) = Len(q) - 2
    <3>1. (Len(q) + 1) + 1 - 4 = Len(q) - 2
      BY <1>1
    <3>2. L \in Seq(Message) /\ Len(L) = Len(q) - 2
      BY <1>1, <2>d
    <3>. QED
      BY <2>a, <2>b, <2>c, <3>2
  <2>2. \A i \in 1 .. Len(q) - 2 : L[i] = Append(q, m)[i + 3]
    BY <1>1
  <2>3. \A i \in 1 .. Len(q) - 3 : R[i] = q[i + 3] /\ Append(q, m)[i + 3] = q[i + 3]
    BY <1>1, <2>a, <2>b
  <2>4. R[Len(q) - 2] = m /\ Append(q, m)[Len(q) + 1] = m
    BY <2>a, <2>b, <2>c, <2>d
  <2>5. ASSUME NEW i \in 1 .. Len(q) - 2 PROVE L[i] = R[i]
    <3>1. CASE i = Len(q) - 2
      <4>1. i + 3 = Len(q) + 1
        BY <1>1, <3>1
      <4>. QED
        BY <2>2, <2>4, <3>1, <4>1
    <3>2. CASE i # Len(q) - 2
      <4>1. i \in 1 .. Len(q) - 3
        BY <1>1, <3>2
      <4>. QED
        BY <2>2, <2>3, <4>1
    <3>. QED
      BY <3>1, <3>2
  <2>6. L = R
    <3>. HIDE DEF L, R
    <3>. QED
      BY <2>1, <2>5
  <2>. QED
    BY <1>1, <2>6
<1>. QED
  BY <1>2, <1>3, CompleteAppend

(* A handshake that has not got to the map is not complete. *)
LEMMA NotYetComplete ==
    ~Complete(<<>>) /\ (\A m : ~Complete(<<m>>)) /\ \A q : AcceptOnly(q) => ~Complete(q)
<1>1. ~(Len(<<>>) >= 3) /\ \A m : ~(Len(<<m>>) >= 3)
  OBVIOUS
<1>2. \A q : AcceptOnly(q) => ~(Len(q) >= 3)
  BY DEF AcceptOnly
<1>. QED
  BY <1>1, <1>2 DEF Complete

(* A handshake of three packets is complete. *)
LEMMA LongIsComplete == \A q : HandshakePrefix(q) /\ Len(q) >= 3 => Complete(q)
<1>1. ~(Len(<<>>) >= 3) /\ \A m : ~(Len(<<m>>) >= 3)
  OBVIOUS
<1>2. \A q : AcceptOnly(q) => ~(Len(q) >= 3)
  BY DEF AcceptOnly
<1>. QED
  BY <1>1, <1>2 DEF HandshakePrefix

(* The three packets of a handshake as SendInitialState completes it. *)
LEMMA HandshakeOfThree ==
    ASSUME NEW q \in Seq(Message), NEW s \in Message, NEW m \in Message, AcceptOnly(q),
           NEW u, u = Append(Append(q, s), m)
    PROVE  u[2] = s /\ u[3] = m /\ Len(u) = 3
<1>1. Len(q) = 1
  BY DEF AcceptOnly
<1>2. PICK r : r = Append(q, s)
  OBVIOUS
<1>3. r \in Seq(Message) /\ Len(r) = 2 /\ r[2] = s
  <2>1. r \in Seq(Message) /\ Len(r) = Len(q) + 1 /\ r[Len(q) + 1] = s
    BY <1>2, AppendAt
  <2>. QED
    BY <1>1, <2>1
<1>4. u = Append(r, m)
  BY <1>2
<1>5. u \in Seq(Message) /\ Len(u) = 3 /\ u[3] = m /\ u[2] = s
  <2>1. /\ u \in Seq(Message) /\ Len(u) = Len(r) + 1 /\ u[Len(r) + 1] = m
        /\ \A i \in 1 .. Len(r) : u[i] = r[i]
    <3>1. /\ Append(r, m) \in Seq(Message) /\ Len(Append(r, m)) = Len(r) + 1
          /\ Append(r, m)[Len(r) + 1] = m /\ \A i \in 1 .. Len(r) : Append(r, m)[i] = r[i]
      BY <1>3, AppendAt
    <3>. QED
      BY <1>4, <3>1
  <2>. QED
    BY <1>3, <2>1
<1>. QED
  BY <1>5

LEMMA HandshakeSent ==
    ASSUME TypeOK, NEW c \in Conn, NEW s \in Message, NEW m \in Message,
           sock[c] = "open", PeerOpen(c), AcceptOnly(queue[c]),
           NEW u, u = Send(Send(queue, c, s), c, m)[c]
    PROVE  u[2] = s /\ u[3] = m /\ Len(u) = 3
<1>1. queue \in Queues /\ queue[c] \in Seq(Message)
  BY DEF TypeOK, Queues
<1>2. Send(queue, c, s) \in Queues /\ Send(queue, c, s)[c] = Append(queue[c], s)
  BY <1>1, SendAt, SendType
<1>3. u = Append(Append(queue[c], s), m)
  BY <1>2, SendAt
<1>. QED
  BY <1>1, <1>3, HandshakeOfThree

(* A broadcast to registered connections disturbs no map that was sent. *)
LEMMA MapsKept ==
    ASSUME RInv, MapsSent, NEW C \in SUBSET tcpClients, NEW m \in Message,
           queue' = SendAll(C, m), UNCHANGED <<clientPc, mapless>>
    PROVE  MapsSent'
<1>1. \A d \in Conn : queue[d] \in Seq(Message)
  BY DEF RInv, IInv, TypeOK, Queues
<1>2. \A d \in tcpClients \cap Conn : Opening(d) => Complete(queue[d])
  BY DEF RInv, IInv, Handshakes, Opening
<1>3. \A d \in Conn : queue'[d] = queue[d] \/ (queue'[d] = Append(queue[d], m) /\ d \in C)
  BY SendAllAt
<1>4. ASSUME NEW d \in Conn, Opening(d), Complete(queue'[d])
      PROVE  Complete(queue[d]) /\ queue'[d][3] = queue[d][3]
  BY <1>1, <1>2, <1>3, <1>4, HandshakeKept
<1>. QED
  BY <1>4 DEF MapsSent, Opening

LEMMA MapsSentStep == RInv /\ Places /\ MapsSent /\ Step => MapsSent'
<1>. SUFFICES ASSUME RInv, Places, MapsSent, Step PROVE MapsSent'
  OBVIOUS
<1>a. /\ NoConn \notin Conn /\ accConn \in Conn \cup {NoConn}
      /\ clientPc \in [Conn -> ClientPc] /\ tcpClients \subseteq Conn
      /\ sock \in [Conn -> {"none", "open", "closed"}]
      /\ queue \in Queues /\ \A d \in Conn : queue[d] \in Seq(Message)
      /\ nextPlayerId \in Nat /\ mapless \subseteq Conn
      /\ playerId \in [Conn -> Nat]
  BY SessionAssumption DEF RInv, IInv, TypeOK, Queues
<1>b. \A d \in Conn :
         /\ Joining(d) => sock[d] = "open"
         /\ Joining(d) /\ accPc = "handshake" /\ Opening(d) => queue[d] = <<>>
         /\ Joining(d) /\ accPc = "snapshot" /\ Opening(d) => AcceptOnly(queue[d])
         /\ Joining(d) /\ accPc # "handshake" => clientPc[d] \notin {"idle", "connected"}
  BY DEF RInv, IInv, Custody, Distinct, Handshakes, Opening
<1>c. \A d \in Conn : /\ handler[d] \in {"read", "erase"} => d \in tcpClients
                      /\ d \in tcpClients /\ Opening(d) => Complete(queue[d])
                      /\ Opening(d) => HandshakePrefix(queue[d])
  BY DEF RInv, IInv, Custody, Handshakes, Opening
<1>d. KickMsg \in Message /\ InfoMsg \in Message
      /\ \A d \in Conn : JoinedMsg(playerId[d]) \in Message /\ LeftMsg(playerId[d]) \in Message
  BY <1>a, MessageTypes
<1>. USE <1>a DEF MapsSent, Opening, serverVars, gameVars, clientVars
<1>1. ASSUME NEW c \in Conn, Accept(c)  PROVE MapsSent'
  BY <1>1 DEF Accept
<1>2. ASSUME NEW c \in Conn, HandshakeFails(c)  PROVE MapsSent'
  BY <1>2 DEF HandshakeFails, BackToAccept
<1>3. ASSUME NEW c \in Conn, HandshakeRefused(c)  PROVE MapsSent'
  <2>1. CASE Terminate
    BY <2>1 DEF Terminate
  <2>2. CASE queue' = Send(queue, c, KickMsg) /\ UNCHANGED <<clientPc, mapless>>
    <3>1. \A d \in Conn \ {c} : queue'[d] = queue[d]
      BY <2>2, <1>d, SendAt
    <3>2. Opening(c) => queue'[c] = <<>> \/ queue'[c] = <<KickMsg>>
      <4>1. Opening(c) => queue[c] = <<>>
        BY <1>3, <1>b DEF HandshakeRefused, Joining
      <4>. QED
        BY <2>2, <1>d, <4>1, SendAt, AppendToEmpty
    <3>3. \A d \in Conn : Opening(d) /\ Complete(queue'[d]) => d # c
      BY <3>2, NotYetComplete DEF Opening
    <3>. QED
      BY <2>2, <3>1, <3>3
  <2>. QED
    BY <1>3, <2>1, <2>2 DEF HandshakeRefused
<1>4. ASSUME NEW c \in Conn, HandshakeAccepted(c)  PROVE MapsSent'
  <2>a. AcceptMsg(nextPlayerId) \in Message
    BY MessageTypes
  <2>1. CASE UNCHANGED queue
    BY <1>4, <2>1 DEF HandshakeAccepted
  <2>2. CASE queue' = Send(queue, c, AcceptMsg(nextPlayerId))
    <3>1. \A d \in Conn \ {c} : queue'[d] = queue[d]
      BY <2>2, <2>a, SendAt
    <3>2. Opening(c) => queue'[c] = <<>> \/ queue'[c] = <<AcceptMsg(nextPlayerId)>>
      <4>1. Opening(c) => queue[c] = <<>>
        BY <1>4, <1>b DEF HandshakeAccepted, Joining
      <4>. QED
        BY <2>2, <2>a, <4>1, SendAt, AppendToEmpty
    <3>3. \A d \in Conn : Opening(d) /\ Complete(queue'[d]) => d # c
      BY <3>2, NotYetComplete DEF Opening
    <3>. QED
      BY <1>4, <3>1, <3>3 DEF HandshakeAccepted
  <2>. QED
    BY <1>4, <2>1, <2>2 DEF HandshakeAccepted
<1>5. ASSUME NEW c \in Conn, SendInitialState(c)  PROVE MapsSent'
  <2>a. /\ accConn = c /\ accPc = "snapshot" /\ UNCHANGED clientPc
        /\ clientPc[c] \notin {"constructed", "running", "halted"} /\ c \notin mapless
    BY <1>5 DEF SendInitialState, Places, Early
  <2>1. CASE UNCHANGED <<queue, mapless>>
    BY <2>a, <2>1
  <2>2. CASE /\ queue' = Send(Send(queue, c, StateMsg(Ids(tcpClients))), c, MapMsg(MapData))
             /\ mapless' = IF MapData = "empty" THEN mapless \cup {c} ELSE mapless
    <3>. DEFINE s == StateMsg(Ids(tcpClients))
                m == MapMsg(MapData)
    <3>1. s \in Message /\ m \in Message
      BY MessageTypes DEF Ids
    <3>2. m = MapMsg(IF c \in mapless' THEN "empty" ELSE "set")
      BY <2>a, <2>2 DEF MapData
    <3>. HIDE DEF s, m
    <3>3. queue' = Send(Send(queue, c, s), c, m)
      BY <2>2 DEF s, m
    <3>4. \A d \in Conn \ {c} : queue'[d] = queue[d]
      BY SMTT(30), <3>1, <3>3, SendAt, SendType
    <3>6. ASSUME Opening(c) PROVE queue'[c][3] = m
      <4>1. sock[c] = "open" /\ PeerOpen(c) /\ AcceptOnly(queue[c])
        BY <2>a, <1>b, <3>6 DEF Joining, PeerOpen
      <4>. QED
        BY <3>1, <3>3, <4>1, HandshakeSent DEF RInv, IInv
    <3>7. \A d \in Conn \ {c} : d \in mapless' <=> d \in mapless
      BY <2>2
    <3>. QED
      BY <2>a, <3>2, <3>4, <3>6, <3>7
  <2>. QED
    BY <1>5, <2>1, <2>2 DEF SendInitialState
<1>6. ASSUME NEW c \in Conn, Emplace(c)  PROVE MapsSent'
  BY <1>6 DEF Emplace, Terminate, Throws
<1>7. ASSUME NEW c \in Conn, AnnounceJoined(c)  PROVE MapsSent'
  BY <1>7, <1>d, MapsKept DEF AnnounceJoined
<1>8. ASSUME NEW c \in Conn, CallJoined(c)  PROVE MapsSent'
  BY <1>8 DEF CallJoined
<1>9. ASSUME NEW c \in Conn, HandlerRelays(c)  PROVE MapsSent'
  <2>1. tcpClients \ {c} \in SUBSET tcpClients
    OBVIOUS
  <2>. QED
    BY <1>9, <1>d, <2>1, MapsKept DEF HandlerRelays
<1>10. ASSUME NEW c \in Conn, HandlerKicks(c)  PROVE MapsSent'
  <2>a. CASE Terminate
    BY <2>a DEF Terminate
  <2>b. CASE KickSent(c)
    <3>1. queue' = Send(queue, c, KickMsg) /\ UNCHANGED <<clientPc, mapless>> /\ c \in tcpClients
      BY <1>10, <2>b, <1>c DEF HandlerKicks, KickSent, HandlerAt
    <3>2. /\ \A d \in Conn \ {c} : queue'[d] = queue[d]
          /\ queue'[c] = queue[c] \/ queue'[c] = Append(queue[c], KickMsg)
      BY <3>1, <1>d, SendAt
    <3>3. Opening(c) => Complete(queue[c]) /\ queue'[c][3] = queue[c][3]
      <4>1. Opening(c) => Complete(queue[c])
        BY <3>1, <1>c
      <4>2. Complete(queue[c]) => Append(queue[c], KickMsg)[3] = queue[c][3]
        BY <1>d, HandshakeKept
      <4>. QED
        BY <3>2, <4>1, <4>2
    <3>. QED
      BY <3>1, <3>2, <3>3
  <2>. QED
    BY <1>10, <2>a, <2>b DEF HandlerKicks
<1>11. ASSUME NEW c \in Conn, HandlerEnds(c)  PROVE MapsSent'
  BY <1>11 DEF HandlerEnds, HandlerAt, HandlerGoto
<1>12. ASSUME NEW c \in Conn, HandlerErases(c)  PROVE MapsSent'
  BY <1>12 DEF HandlerErases, HandlerAt, HandlerGoto
<1>13. ASSUME NEW c \in Conn, HandlerAnnounces(c)  PROVE MapsSent'
  BY <1>13, <1>d, MapsKept DEF HandlerAnnounces, HandlerAt
<1>14. ASSUME NEW c \in Conn, HandlerCallsLeft(c)  PROVE MapsSent'
  BY <1>14 DEF HandlerCallsLeft, HandlerAt, HandlerGoto
<1>15. ASSUME NEW c \in Conn, ClientConnects(c)  PROVE MapsSent'
  BY <1>15 DEF ClientConnects, ClientGoto
<1>16. ASSUME NEW c \in Conn, ClientSendsInfo(c)  PROVE MapsSent'
  <2>1. /\ clientPc[c] = "connected" /\ clientPc'[c] = "waiting"
        /\ \A d \in Conn \ {c} : clientPc'[d] = clientPc[d]
        /\ UNCHANGED <<queue, mapless>>
    BY <1>16 DEF ClientSendsInfo, ClientGoto
  <2>2. \A d \in Conn : Opening(d) <=> Opening(d)'
    BY <2>1 DEF Opening
  <2>3. \A d \in Conn : clientPc'[d] \in {"constructed", "running"} => clientPc[d] = clientPc'[d]
    BY <2>1
  <2>. QED
    BY <2>1, <2>2, <2>3
<1>17. ASSUME NEW c \in Conn, ClientFails(c)  PROVE MapsSent'
  <2>1. /\ \A d \in Conn \ {c} : queue'[d] = queue[d] /\ clientPc'[d] = clientPc[d]
        /\ clientPc'[c] \in {"gone", "reset"} /\ mapless' = mapless
    BY <1>17 DEF ClientFails, ClientCloses, ClientGoto, Queues
  <2>. QED
    BY <2>1
<1>18. ASSUME NEW c \in Conn, ClientConstructed(c)  PROVE MapsSent'
  <2>1. HandshakePrefix(queue[c]) /\ Len(queue[c]) >= 3
    BY <1>18, <1>c DEF ClientConstructed
  <2>2. Complete(queue[c])
    BY <2>1, NotYetComplete, LongIsComplete
  <2>3. c \notin mapless
    <3>1. queue[c][3] = MapMsg("set") /\ queue[c][3] = MapMsg(IF c \in mapless THEN "empty" ELSE "set")
      BY <1>18, <2>2 DEF ClientConstructed
    <3>2. MapMsg("set") # MapMsg("empty")
      BY DEF MapMsg
    <3>. QED
      BY <3>1, <3>2
  <2>4. \A d \in Conn \ {c} : queue'[d] = queue[d] /\ clientPc'[d] = clientPc[d]
    BY <1>18 DEF ClientConstructed, ClientGoto
  <2>5. clientPc'[c] = "constructed" /\ mapless' = mapless
    BY <1>18 DEF ClientConstructed, ClientGoto
  <2>. QED
    BY <2>3, <2>4, <2>5
<1>19. ASSUME NEW c \in Conn, ClientStarts(c)  PROVE MapsSent'
  BY <1>19 DEF ClientStarts, ClientGoto
<1>20. ASSUME NEW c \in Conn, ClientReads(c)  PROVE MapsSent'
  <2>1. /\ \A d \in Conn \ {c} : queue'[d] = queue[d] /\ clientPc'[d] = clientPc[d]
        /\ clientPc'[c] \in {"running", "halted"} /\ clientPc[c] = "running" /\ mapless' = mapless
    BY <1>20 DEF ClientReads, Queues
  <2>. QED
    BY <2>1
<1>21. ASSUME NEW c \in Conn, ClientHangs(c)  PROVE MapsSent'
  BY <1>21 DEF ClientHangs, ClientGoto
<1>22. ASSUME NEW c \in Conn, ClientQuits(c)  PROVE MapsSent'
  <2>1. /\ \A d \in Conn \ {c} : queue'[d] = queue[d] /\ clientPc'[d] = clientPc[d]
        /\ clientPc'[c] \in {"gone", "reset"} /\ mapless' = mapless
    BY <1>22 DEF ClientQuits, ClientCloses, ClientGoto, Queues
  <2>. QED
    BY <2>1
<1>23. CASE AcceptExit
  BY <1>23 DEF AcceptExit
<1>24. CASE SetJoinedCallback
  BY <1>24 DEF SetJoinedCallback, MainStep
<1>25. CASE SetLeftCallback
  BY <1>25 DEF SetLeftCallback, MainStep
<1>26. CASE SetMapData
  BY <1>26 DEF SetMapData, MainStep
<1>27. CASE SwapEvents
  BY <1>27 DEF SwapEvents
<1>28. CASE ProcessEvent
  BY <1>28 DEF ProcessEvent
<1>29. CASE StopServer
  BY <1>29 DEF StopServer, MainStep
<1>30. CASE KickAll
  <2>1. CASE Terminate
    BY <2>1 DEF Terminate
  <2>2. CASE queue' = SendAll(tcpClients, KickMsg) /\ UNCHANGED <<clientPc, mapless>>
    BY <1>d, <2>2, MapsKept
  <2>. QED
    BY <1>30, <2>1, <2>2 DEF KickAll
<1>31. CASE JoinAcceptThread
  BY <1>31 DEF JoinAcceptThread, MainStep
<1>. QED
  BY <1>1, <1>2, <1>3, <1>4, <1>5, <1>6, <1>7, <1>8, <1>9, <1>10, <1>11, <1>12, <1>13, <1>14,
     <1>15, <1>16, <1>17, <1>18, <1>19, <1>20, <1>21, <1>22, <1>23, <1>24, <1>25, <1>26, <1>27,
     <1>28, <1>29, <1>30, <1>31 DEF Step, AcceptThread, HandlerThread,
     HandlerLeaves, ClientThread, ClientProgram, MainThread, StartUp, ProcessPlayerEvents, ServerStop

(* RostersAreRight for one client. *)
Excused(c, p) ==
    \/ \E d \in Conn : playerId[d] = p /\ (d \in tcpClients \/ handler[d] = "announce")
    \/ p \in missed[c]
RosterOf(c) ==
    Listening(c) =>
        /\ \A d \in tcpClients \ {c} : Announced(d) => WillShow(c, playerId[d])
        /\ \A p : WillShow(c, p) => Excused(c, p)
AllRosters == \A c \in Conn : RosterOf(c)

LEMMA RostersOfAll == TypeOK /\ Distinct /\ AllRosters => RostersAreRight
<1>. SUFFICES ASSUME TypeOK, Distinct, AllRosters PROVE RostersAreRight
  OBVIOUS
<1>1. ASSUME NEW c \in Conn, NEW p, p # playerId[c], WillShow(c, p) PROVE p \in View(c)
  <2>1. CASE p \in Known(c)
    BY <1>1, <2>1 DEF View
  <2>2. CASE p \notin Known(c)
    <3>1. PICK i \in DOMAIN Unread(c) : Unread(c)[i] = JoinedMsg(p)
      BY <1>1, <2>2 DEF WillShow, Settled, At, News
    <3>2. p \in Mentioned(c)
      BY <3>1 DEF Mentioned, JoinedMsg
    <3>. QED
      BY <1>1, <3>2 DEF View
  <2>. QED
    BY <2>1, <2>2
<1>2. NoMissingPlayer
  <2>. SUFFICES ASSUME NEW c \in Conn, Listening(c), NEW d \in tcpClients \ {c}, Announced(d)
       PROVE  playerId[d] \in View(c)
    BY DEF NoMissingPlayer
  <2>1. d \in Conn /\ playerId[d] # playerId[c]
    BY DEF TypeOK, Distinct
  <2>. QED
    BY <1>1, <2>1 DEF AllRosters, RosterOf
<1>3. GhostsOnlyFromTheGap
  <2>. SUFFICES ASSUME NEW c \in Conn, Listening(c), NEW p \in View(c)
       PROVE  Excused(c, p)
    BY DEF GhostsOnlyFromTheGap, Excused
  <2>. QED
    BY DEF AllRosters, RosterOf, View
<1>. QED
  BY <1>2, <1>3 DEF RostersAreRight

(* What a client will show after a step that does not touch it. *)
LEMMA ViewKept ==
    ASSUME NEW c \in Conn, queue'[c] = queue[c], clientPc'[c] = clientPc[c],
           oldPlayers'[c] = oldPlayers[c], roster'[c] = roster[c], playerId'[c] = playerId[c]
    PROVE  \A p : WillShow(c, p)' <=> WillShow(c, p)
  BY DEF WillShow, Known, Unread, News, At, Settled, LeftMsg, JoinedMsg

(* Nothing is news of a player's coming and of its leaving. *)
LEMMA NewsNotLeft ==
    \A c \in Conn : \A p : News(c, p) # LeftMsg(p)
<1>1. \A p : LeftMsg(p).type = "PlayerLeft" /\ JoinedMsg(p).type = "PlayerJoined"
  BY DEF LeftMsg, JoinedMsg
<1>2. [type |-> "none"].type = "none"
  OBVIOUS
<1>. QED
  BY <1>1, <1>2 DEF News

(* A client that is listening and one more message is written to. *)
LEMMA ViewTold ==
    ASSUME TypeOK, Handshakes, Custody, NEW c \in Conn, Listening(c), NEW m \in Message,
           queue'[c] = Append(queue[c], m), clientPc'[c] = clientPc[c],
           oldPlayers'[c] = oldPlayers[c], roster'[c] = roster[c], playerId'[c] = playerId[c]
    PROVE  \A p : WillShow(c, p)' <=> m = News(c, p) \/ (m # LeftMsg(p) /\ WillShow(c, p))
<1>1. queue[c] \in Seq(Message)
  BY DEF TypeOK, Queues
<1>2. clientPc[c] = "waiting" => Complete(queue[c])
  BY DEF Listening, Handshakes, Custody, Joining
<1>3. Unread(c) \in Seq(Message)
  BY <1>1, SuffixType DEF Unread
<1>4. Unread(c)' = Append(Unread(c), m)
  BY <1>1, <1>2, HandshakeKept DEF Unread
<1>5. Known(c)' = Known(c)
  BY <1>1, <1>2, HandshakeKept DEF Known
<1>6. \A p : News(c, p)' = News(c, p)
  BY DEF News, JoinedMsg
<1>. SUFFICES ASSUME NEW p
     PROVE  WillShow(c, p)' <=> m = News(c, p) \/ (m # LeftMsg(p) /\ WillShow(c, p))
  OBVIOUS
<1>7. PICK q, K, a, r :
         /\ q \in Seq(Message) /\ q = Unread(c) /\ K = Known(c)
         /\ a = News(c, p) /\ r = LeftMsg(p)
  BY <1>3
<1>8. a # r
  BY <1>7, NewsNotLeft
<1>9. Settled(p \in K, At(Append(q, m), a), At(Append(q, m), r))
         <=> m = a \/ (m # r /\ Settled(p \in K, At(q, a), At(q, r)))
  <2>1. q \in Seq(Message)
    BY <1>7
  <2>. QED
    BY <1>8, <2>1, AppendSettles
<1>10. WillShow(c, p) <=> Settled(p \in K, At(q, a), At(q, r))
  BY <1>7 DEF WillShow
<1>11. WillShow(c, p)' <=> Settled(p \in K, At(Append(q, m), a), At(Append(q, m), r))
  BY <1>4, <1>5, <1>6, <1>7 DEF WillShow, LeftMsg
<1>. QED
  BY <1>7, <1>9, <1>10, <1>11

(* The fields of a message about a player make up the message. *)
LEMMA MessageIs ==
    \A m \in Message : \A p :
        /\ m = JoinedMsg(p) <=> m.type = "PlayerJoined" /\ m.id = p
        /\ m = LeftMsg(p) <=> m.type = "PlayerLeft" /\ m.id = p
        /\ m # [type |-> "none"]
  BY DEF Message, KickMsg, InfoMsg, JoinedMsg, LeftMsg

(* A running client that reads a message. *)
LEMMA ViewRead ==
    ASSUME TypeOK, Places, NEW c \in Conn, clientPc[c] = "running", clientPc'[c] = "running",
           queue[c] # <<>>, queue'[c] = Tail(queue[c]),
           roster'[c] = ApplyMsg(roster[c], Head(queue[c]), playerId[c]),
           oldPlayers'[c] = oldPlayers[c], playerId'[c] = playerId[c]
    PROVE  \A p : WillShow(c, p)' <=> WillShow(c, p)
<1>. SUFFICES ASSUME NEW p PROVE WillShow(c, p)' <=> WillShow(c, p)
  OBVIOUS
<1>1. queue[c] \in Seq(Message) /\ oldPlayers[c] = {}
  BY DEF TypeOK, Queues, Places
<1>2. PICK q, K, L, a, r :
         /\ q \in Seq(Message) /\ q = queue[c] /\ K = roster[c] /\ L = roster'[c]
         /\ a = News(c, p) /\ r = LeftMsg(p)
  BY <1>1
<1>3. a # r
  BY <1>2, NewsNotLeft
<1>4. PICK h \in Message : h = Head(q)
  BY <1>2
<1>5. p \in L <=> Head(q) = a \/ (Head(q) # r /\ p \in K)
  <2>1. h = a <=> h.type = "PlayerJoined" /\ h.id = p /\ p # playerId[c]
    BY <1>2, MessageIs DEF News
  <2>2. h = r <=> h.type = "PlayerLeft" /\ h.id = p
    BY <1>2, MessageIs
  <2>3. L = ApplyMsg(K, h, playerId[c])
    BY <1>2, <1>4
  <2>4. CASE h.type = "PlayerJoined" /\ h.id # playerId[c]
    BY <1>4, <2>1, <2>2, <2>3, <2>4 DEF ApplyMsg
  <2>5. CASE h.type = "PlayerLeft"
    BY <1>4, <2>1, <2>2, <2>3, <2>5 DEF ApplyMsg
  <2>6. CASE h.type # "PlayerLeft" /\ ~(h.type = "PlayerJoined" /\ h.id # playerId[c])
    BY <1>4, <2>1, <2>2, <2>3, <2>6 DEF ApplyMsg
  <2>. QED
    BY <2>4, <2>5, <2>6
<1>6. WillShow(c, p) <=> Settled(p \in K, At(q, a), At(q, r))
  BY <1>1, <1>2 DEF WillShow, Unread, Known
<1>7. WillShow(c, p)' <=> Settled(p \in L, At(Tail(q), a), At(Tail(q), r))
  BY <1>1, <1>2 DEF WillShow, Unread, Known, News, LeftMsg, JoinedMsg
<1>8. Settled(p \in K, At(q, a), At(q, r)) <=> Settled(p \in L, At(Tail(q), a), At(Tail(q), r))
  BY <1>2, <1>3, <1>5, ReadSettles
<1>. QED
  BY <1>6, <1>7, <1>8

(* A client whose constructor returns knows what its InitialState said. *)
LEMMA ViewConstructed ==
    ASSUME Places, NEW c \in Conn, clientPc[c] = "waiting", clientPc'[c] = "constructed",
           queue'[c] = SubSeq(queue[c], 4, Len(queue[c])), roster'[c] = roster[c],
           oldPlayers'[c] = queue[c][2].ids, playerId'[c] = playerId[c]
    PROVE  \A p : WillShow(c, p)' <=> WillShow(c, p)
<1>1. Known(c)' = Known(c)
  BY DEF Known, Places
<1>2. Unread(c)' = Unread(c)
  BY DEF Unread
<1>. QED
  BY <1>1, <1>2 DEF WillShow, News, JoinedMsg, LeftMsg

(* A client that starts shows the others it was told of. *)
LEMMA ViewStarted ==
    ASSUME NEW c \in Conn, clientPc[c] = "constructed", clientPc'[c] = "running",
           queue'[c] = queue[c], playerId'[c] = playerId[c], oldPlayers'[c] = {},
           roster'[c] = roster[c] \cup (oldPlayers[c] \ {playerId[c]})
    PROVE  \A p : /\ WillShow(c, p)' => WillShow(c, p)
                  /\ p # playerId[c] => (WillShow(c, p)' <=> WillShow(c, p))
<1>1. Unread(c)' = Unread(c)
  BY DEF Unread
<1>2. Known(c)' = roster[c] \cup (oldPlayers[c] \ {playerId[c]}) /\ Known(c) = oldPlayers[c] \cup roster[c]
  BY DEF Known
<1>. QED
  BY <1>1, <1>2 DEF WillShow, News, JoinedMsg, LeftMsg, Settled

(* A client that was just sent its InitialState. *)
LEMMA ViewSent ==
    ASSUME TypeOK, NEW c \in Conn, sock[c] = "open", PeerOpen(c), AcceptOnly(queue[c]),
           clientPc'[c] = "waiting", NEW ids, StateMsg(ids) \in Message, NEW m \in Message,
           queue' = Send(Send(queue, c, StateMsg(ids)), c, m)
    PROVE  \A p : WillShow(c, p)' <=> p \in ids
<1>1. PICK s \in Message : s = StateMsg(ids)
  OBVIOUS
<1>2. PICK u : u = queue'[c]
  OBVIOUS
<1>3. u = Send(Send(queue, c, s), c, m)[c]
  BY <1>1, <1>2
<1>4. u[2] = s /\ Len(u) = 3
  BY <1>3, HandshakeSent
<1>5. Known(c)' = ids
  BY <1>1, <1>2, <1>4 DEF Known, StateMsg
<1>6. Unread(c)' = SubSeq(u, 4, 3)
  BY <1>2, <1>4 DEF Unread
<1>7. DOMAIN SubSeq(u, 4, 3) = {}
  OBVIOUS
<1>. QED
  BY <1>5, <1>6, <1>7 DEF WillShow, Settled, At

(* What keeps a roster right: the client listened before and will show the
   same, nobody new is announced and nobody excused is forgotten. *)
LEMMA RosterKept ==
    ASSUME NEW c \in Conn, RosterOf(c), Listening(c)' => Listening(c),
           \A p : WillShow(c, p)' <=> WillShow(c, p),
           \A d \in tcpClients' \ {c} : Announced(d)'
               => d \in tcpClients /\ Announced(d) /\ playerId'[d] = playerId[d],
           \A d \in Conn : d \in tcpClients \/ handler[d] = "announce"
               => /\ d \in tcpClients' \/ handler'[d] = "announce"
                  /\ playerId'[d] = playerId[d],
           missed[c] \subseteq missed'[c]
    PROVE  RosterOf(c)'
<1>1. \A p : Excused(c, p) => Excused(c, p)'
  BY DEF Excused
<1>. QED
  BY <1>1 DEF RosterOf

(* A broadcast of m to registered connections, as a listening client sees it. *)
LEMMA BroadcastSeen ==
    ASSUME TypeOK, Handshakes, Custody, NEW m \in Message, NEW C, NEW c \in Conn, Listening(c),
           queue' = SendAll(C, m),
           UNCHANGED <<clientPc, oldPlayers, roster, playerId>>
    PROVE  \A p : WillShow(c, p)' <=>
                     IF c \in C THEN m = News(c, p) \/ (m # LeftMsg(p) /\ WillShow(c, p))
                                ELSE WillShow(c, p)
<1>1. sock[c] = "open" /\ PeerOpen(c)
  BY DEF Listening, PeerOpen
<1>2. queue'[c] = IF c \in C THEN Append(queue[c], m) ELSE queue[c]
  BY <1>1, SendAllAt
<1>3. CASE c \in C
  BY <1>2, <1>3, ViewTold
<1>4. CASE c \notin C
  BY <1>2, <1>4, ViewKept
<1>. QED
  BY <1>3, <1>4

(* A message about a player tells which. *)
LEMMA IdsTell ==
    \A p, r : /\ JoinedMsg(p) = JoinedMsg(r) => p = r
              /\ LeftMsg(p) = LeftMsg(r) => p = r
<1>1. \A p : JoinedMsg(p).id = p /\ LeftMsg(p).id = p
  BY DEF JoinedMsg, LeftMsg
<1>2. ASSUME NEW p, NEW r, JoinedMsg(p) = JoinedMsg(r) PROVE p = r
  <2>1. JoinedMsg(p).id = JoinedMsg(r).id
    BY <1>2
  <2>. QED
    BY <1>1, <2>1
<1>3. ASSUME NEW p, NEW r, LeftMsg(p) = LeftMsg(r) PROVE p = r
  <2>1. LeftMsg(p).id = LeftMsg(r).id
    BY <1>3
  <2>. QED
    BY <1>1, <2>1
<1>. QED
  BY <1>2, <1>3

(* No other message is the arrival of a player. *)
LEMMA NoneIsNotJoined ==
    \A p, r : /\ JoinedMsg(p) # [type |-> "none"] /\ LeftMsg(p) # [type |-> "none"]
              /\ JoinedMsg(p) # LeftMsg(r)
<1>1. \A p : JoinedMsg(p).type = "PlayerJoined" /\ LeftMsg(p).type = "PlayerLeft"
  BY DEF JoinedMsg, LeftMsg
<1>2. [type |-> "none"].type = "none"
  OBVIOUS
<1>. QED
  BY <1>1, <1>2

(* Every step keeps every roster right. *)
LEMMA RosterStep ==
    ASSUME RInv, Places, AllRosters, Step, NEW x \in Conn
    PROVE  RosterOf(x)'
<1>a. /\ NoConn \notin Conn /\ accConn \in Conn \cup {NoConn}
      /\ clientPc \in [Conn -> ClientPc] /\ handler \in [Conn -> HandlerPc]
      /\ sock \in [Conn -> {"none", "open", "closed"}]
      /\ roster \in [Conn -> SUBSET Nat] /\ oldPlayers \in [Conn -> SUBSET Nat]
      /\ missed \in [Conn -> SUBSET Nat]
      /\ playerId \in [Conn -> Nat] /\ tcpClients \subseteq Conn
      /\ queue \in Queues /\ queue \in [Conn -> Seq(Message)] /\ nextPlayerId \in Nat
      /\ RosterOf(x)
  BY SessionAssumption DEF RInv, IInv, TypeOK, Rosters, Queues, AllRosters
<1>b. \A d \in Conn :
         /\ accConn = d => handler[d] = "none"
         /\ sock[d] = "none" => handler[d] = "none" /\ accConn # d
         /\ Joining(d) => sock[d] = "open" /\ d \notin tcpClients
         /\ handler[d] \in {"announce", "callback", "done"} => d \notin tcpClients
         /\ handler[d] \in {"read", "erase"} => d \in tcpClients
         /\ handler[d] = "none" /\ d \in tcpClients => accConn = d /\ accPc \in {"announce", "callback"}
  BY DEF RInv, IInv, Custody, Joined, Joining
<1>c. \A d \in Conn :
         /\ d \in tcpClients \/ (Joining(d) /\ accPc # "handshake") => playerId[d] # 0
                                                                     /\ nickname[d] # NoInfo
         /\ clientPc[d] \in {"idle", "connected"} => nickname[d] = NoInfo
         /\ handler[d] # "none" => playerId[d] # 0
         /\ \A e \in Conn : d # e => playerId[d] # playerId[e] \/ playerId[d] = 0
  BY DEF RInv, IInv, Distinct, Served
<1>d. KickMsg \in Message /\ InfoMsg \in Message
      /\ \A d \in Conn : JoinedMsg(playerId[d]) \in Message /\ LeftMsg(playerId[d]) \in Message
  BY <1>a, MessageTypes
<1>e. \A p, r \in Nat : /\ InfoMsg # JoinedMsg(p) /\ InfoMsg # LeftMsg(p) /\ JoinedMsg(p) # LeftMsg(r)
                        /\ JoinedMsg(p) = JoinedMsg(r) <=> p = r
                        /\ LeftMsg(p) = LeftMsg(r) <=> p = r
  BY DEF InfoMsg, JoinedMsg, LeftMsg
<1>h. /\ \A d \in Conn : accConn = d /\ accPc \in {"announce", "callback"} => d \in tcpClients
      /\ \A d \in Conn : clientPc[d] = "waiting" /\ accConn = d /\ accPc = "snapshot" => AcceptOnly(queue[d])
  BY DEF RInv, IInv, Custody, Joined, Joining, Handshakes
<1>f. TypeOK /\ Handshakes /\ Custody
  BY DEF RInv, IInv
<1>. USE <1>a, <1>b DEF serverVars, gameVars, clientVars
<1>1. ASSUME NEW c \in Conn, Accept(c)  PROVE RosterOf(x)'
  BY <1>1, RosterKept, ViewKept DEF Accept, Listening, Announced, Joining
<1>2. ASSUME NEW c \in Conn, HandshakeFails(c)  PROVE RosterOf(x)'
  BY <1>2, RosterKept, ViewKept DEF HandshakeFails, BackToAccept, Listening, Announced, Joining
<1>3. ASSUME NEW c \in Conn, HandshakeRefused(c)  PROVE RosterOf(x)'
  <2>a. CASE Terminate
    BY <2>a, RosterKept, ViewKept DEF Terminate, Listening, Announced
  <2>b. CASE ~Terminate
    <3>1. /\ accConn = c /\ accPc = "handshake" /\ accConn' = NoConn /\ accPc' = "accept" /\ c \notin tcpClients
          /\ \A d \in Conn \ {c} : queue'[d] = queue[d] /\ sock'[d] = sock[d]
          /\ UNCHANGED <<clientPc, oldPlayers, roster, playerId, tcpClients, handler, missed>>
      BY <1>3, <1>d, <2>b, SendAt DEF HandshakeRefused, BackToAccept, Joining
    <3>2. CASE x # c
      <4>1. \A p : WillShow(x, p)' <=> WillShow(x, p)
        BY <3>1, <3>2, ViewKept
      <4>. QED
        BY <3>1, <3>2, <4>1, RosterKept DEF Listening, Announced
    <3>3. CASE x = c
      BY <3>1, <3>3 DEF RosterOf, Listening
    <3>. QED
      BY <3>2, <3>3
  <2>. QED
    BY <2>a, <2>b
<1>4. ASSUME NEW c \in Conn, HandshakeAccepted(c)  PROVE RosterOf(x)'
  <2>a. AcceptMsg(nextPlayerId) \in Message
    BY MessageTypes
  <2>1. /\ accConn = c /\ accPc = "handshake" /\ accPc' \in {"accept", "snapshot"} /\ c \notin tcpClients
        /\ accConn' \in {NoConn, c} /\ handler[c] = "none"
        /\ \A d \in Conn \ {c} : queue'[d] = queue[d] /\ sock'[d] = sock[d] /\ playerId'[d] = playerId[d]
        /\ UNCHANGED <<clientPc, oldPlayers, roster, tcpClients, handler, missed>>
    BY <1>4, <2>a, SendAt DEF HandshakeAccepted, BackToAccept, Joining
  <2>2. CASE x # c
    <3>1. \A p : WillShow(x, p)' <=> WillShow(x, p)
      BY <2>1, <2>2, ViewKept
    <3>. QED
      BY <2>1, <2>2, <3>1, RosterKept DEF Listening, Announced
  <2>3. CASE x = c
    BY <2>1, <2>3 DEF RosterOf, Listening
  <2>. QED
    BY <2>2, <2>3
<1>5. ASSUME NEW c \in Conn, SendInitialState(c)  PROVE RosterOf(x)'
  <2>. DEFINE s == StateMsg(Ids(tcpClients))
              m == MapMsg(MapData)
  <2>a. s \in Message /\ m \in Message
    BY MessageTypes DEF Ids
  <2>b. s = StateMsg(Ids(tcpClients))
    OBVIOUS
  <2>c. \/ queue' = Send(Send(queue, c, s), c, m) /\ accPc' = "emplace" /\ UNCHANGED <<accConn, sock>>
        \/ queue' = queue /\ BackToAccept(c)
    BY <1>5 DEF SendInitialState
  <2>d. /\ accConn = c /\ accPc = "snapshot"
        /\ UNCHANGED <<clientPc, oldPlayers, roster, playerId, tcpClients, handler, missed>>
    BY <1>5 DEF SendInitialState
  <2>. HIDE DEF s, m
  <2>1. /\ accPc' \in {"accept", "emplace"} /\ c \notin tcpClients /\ accConn' \in {NoConn, c}
        /\ \A d \in Conn \ {c} : queue'[d] = queue[d] /\ sock'[d] = sock[d]
    BY SMTT(30), <2>a, <2>c, <2>d, SendAt, SendType DEF BackToAccept, Joining
  <2>2. CASE x # c
    <3>1. \A p : WillShow(x, p)' <=> WillShow(x, p)
      BY <2>1, <2>d, <2>2, ViewKept
    <3>. QED
      BY <2>1, <2>d, <2>2, <3>1, RosterKept DEF Listening, Announced
  <2>3. CASE x = c
    <3>1. SUFFICES ASSUME Listening(c)' PROVE RosterOf(c)'
      BY <2>3 DEF RosterOf
    <3>2. /\ accPc' = "emplace" /\ queue' = Send(Send(queue, c, s), c, m) /\ sock[c] = "open"
      BY <2>1, <2>c, <2>d, <3>1 DEF Listening, BackToAccept
    <3>3. clientPc[c] = "waiting" /\ PeerOpen(c) /\ clientPc'[c] = "waiting"
      BY <2>d, <3>1 DEF Places, Early, Listening, PeerOpen
    <3>4. AcceptOnly(queue[c])
      BY <1>h, <2>d, <3>3
    <3>5. queue' = Send(Send(queue, c, StateMsg(Ids(tcpClients))), c, m) /\ StateMsg(Ids(tcpClients)) \in Message
      BY <2>a, <2>b, <3>2
    <3>7. \A p : WillShow(c, p)' <=> p \in Ids(tcpClients)
      BY <1>f, <2>a, <3>2, <3>3, <3>4, <3>5, ViewSent
    <3>. QED
      BY <2>d, <3>7 DEF RosterOf, Excused, Ids
  <2>. QED
    BY <2>2, <2>3
<1>6. ASSUME NEW c \in Conn, Emplace(c)  PROVE RosterOf(x)'
  BY <1>6, RosterKept, ViewKept DEF Emplace, Terminate, Throws, Listening, Announced, Joining
<1>7. ASSUME NEW c \in Conn, AnnounceJoined(c)  PROVE RosterOf(x)'
  <2>1. /\ accConn = c /\ accPc = "announce" /\ accPc' = "callback" /\ c \in tcpClients
        /\ queue' = SendAll(tcpClients, JoinedMsg(playerId[c]))
        /\ UNCHANGED <<clientPc, oldPlayers, roster, playerId, tcpClients, handler, missed, sock, accConn>>
    BY <1>7, <1>h DEF AnnounceJoined
  <2>2. Listening(x)' => Listening(x) /\ x \in tcpClients
    BY <2>1 DEF Listening
  <2>. SUFFICES ASSUME Listening(x), x \in tcpClients PROVE RosterOf(x)'
    BY <2>2 DEF RosterOf
  <2>3. \A p : WillShow(x, p)' <=> JoinedMsg(playerId[c]) = News(x, p)
                                  \/ (JoinedMsg(playerId[c]) # LeftMsg(p) /\ WillShow(x, p))
    BY <1>d, <1>f, <2>1, BroadcastSeen
  <2>4. ASSUME NEW d \in tcpClients \ {x}, Announced(d)' PROVE WillShow(x, playerId[d])'
    <3>1. CASE d = c
      <4>1. playerId[c] # playerId[x]
        BY <1>c, <2>4, <3>1
      <4>2. JoinedMsg(playerId[c]) = News(x, playerId[c])
        BY <4>1 DEF News
      <4>3. playerId'[d] = playerId[c]
        BY <2>1, <3>1
      <4>. QED
        BY <2>3, <4>2, <4>3
    <3>2. CASE d # c
      <4>1. Announced(d) /\ playerId'[d] = playerId[d]
        BY <2>1, <2>4, <3>2 DEF Announced
      <4>2. WillShow(x, playerId[d]) /\ JoinedMsg(playerId[c]) # LeftMsg(playerId[d])
        BY <1>e, <2>4, <4>1 DEF RosterOf
      <4>. QED
        BY <2>3, <4>1, <4>2
    <3>. QED
      BY <3>1, <3>2
  <2>5. ASSUME NEW p, WillShow(x, p)' PROVE Excused(x, p)'
    <3>1. CASE JoinedMsg(playerId[c]) = News(x, p)
      <4>1. p = playerId[c]
        <5>1. JoinedMsg(playerId[c]) = JoinedMsg(p)
          BY <3>1, NoneIsNotJoined DEF News
        <5>. QED
          BY <5>1, IdsTell
      <4>. QED
        BY <2>1, <4>1 DEF Excused
    <3>2. CASE WillShow(x, p)
      BY <2>1, <3>2 DEF RosterOf, Excused
    <3>. QED
      BY <2>3, <2>5, <3>1, <3>2
  <2>. QED
    BY <2>1, <2>4, <2>5 DEF RosterOf
<1>8. ASSUME NEW c \in Conn, CallJoined(c)  PROVE RosterOf(x)'
  BY <1>8, RosterKept, ViewKept DEF CallJoined, Listening, Announced, Joining
<1>9. ASSUME NEW c \in Conn, HandlerRelays(c)  PROVE RosterOf(x)'
  <2>1. /\ queue' = SendAll(tcpClients \ {c}, InfoMsg)
        /\ UNCHANGED <<clientPc, oldPlayers, roster, serverVars>>
    BY <1>9 DEF HandlerRelays
  <2>2. Listening(x)' <=> Listening(x)
    BY <2>1 DEF Listening
  <2>. SUFFICES ASSUME Listening(x) PROVE RosterOf(x)'
    BY <2>2 DEF RosterOf
  <2>3. \A p : WillShow(x, p)' <=> WillShow(x, p)
    <3>1. \A p : InfoMsg # News(x, p) /\ InfoMsg # LeftMsg(p)
      BY DEF InfoMsg, News, JoinedMsg, LeftMsg
    <3>2. InfoMsg \in Message /\ UNCHANGED <<clientPc, oldPlayers, roster, playerId>>
      BY <1>d, <2>1
    <3>3. \A p : WillShow(x, p)' <=>
             IF x \in tcpClients \ {c} THEN InfoMsg = News(x, p) \/ (InfoMsg # LeftMsg(p) /\ WillShow(x, p))
                                       ELSE WillShow(x, p)
      <4>1. PICK C : C = tcpClients \ {c}
        OBVIOUS
      <4>2. queue' = SendAll(C, InfoMsg)
        BY <2>1, <4>1
      <4>3. \A p : WillShow(x, p)' <=>
               IF x \in C THEN InfoMsg = News(x, p) \/ (InfoMsg # LeftMsg(p) /\ WillShow(x, p))
                          ELSE WillShow(x, p)
        BY <1>f, <3>2, <4>2, BroadcastSeen
      <4>. QED
        BY <4>1, <4>3
    <3>. QED
      BY <3>1, <3>3
  <2>. QED
    BY <2>1, <2>2, <2>3, RosterKept DEF Announced
<1>10. ASSUME NEW c \in Conn, HandlerKicks(c)  PROVE RosterOf(x)'
  <2>a. CASE Terminate
    BY <2>a, RosterKept, ViewKept DEF Terminate, Listening, Announced
  <2>b. CASE KickSent(c)
    <3>1. /\ sock'[c] = "closed" /\ handler[c] = "read" /\ handler'[c] = "erase"
          /\ \A d \in Conn \ {c} : queue'[d] = queue[d] /\ sock'[d] = sock[d] /\ handler'[d] = handler[d]
          /\ UNCHANGED <<clientPc, oldPlayers, roster, playerId, tcpClients, missed, accConn, accPc>>
      BY <1>10, <2>b, <1>d, SendAt DEF HandlerKicks, KickSent, HandlerAt, HandlerGoto
    <3>2. CASE x # c
      <4>1. \A p : WillShow(x, p)' <=> WillShow(x, p)
        BY <3>1, <3>2, ViewKept
      <4>. QED
        BY <3>1, <3>2, <4>1, RosterKept DEF Listening, Announced
    <3>3. CASE x = c
      BY <3>1, <3>3 DEF RosterOf, Listening
    <3>. QED
      BY <3>2, <3>3
  <2>. QED
    BY <1>10, <2>a, <2>b DEF HandlerKicks
<1>11. ASSUME NEW c \in Conn, HandlerEnds(c)  PROVE RosterOf(x)'
  BY <1>11, RosterKept, ViewKept DEF HandlerEnds, HandlerAt, HandlerGoto, Listening, Announced,
     Joining
<1>12. ASSUME NEW c \in Conn, HandlerErases(c)  PROVE RosterOf(x)'
  BY <1>12, RosterKept, ViewKept DEF HandlerErases, HandlerAt, HandlerGoto, Listening,
     Announced, Joining
<1>13. ASSUME NEW c \in Conn, HandlerAnnounces(c)  PROVE RosterOf(x)'
  <2>1. /\ handler[c] = "announce" /\ c \notin tcpClients /\ playerId[c] # 0
        /\ queue' = SendAll(tcpClients, LeftMsg(playerId[c]))
        /\ UNCHANGED <<clientPc, oldPlayers, roster, playerId, tcpClients, sock, accConn, accPc>>
        /\ \A d \in Conn \ {c} : handler'[d] = handler[d]
        /\ handler'[c] = "callback"
        /\ missed[x] \subseteq missed'[x]
        /\ accConn = x /\ accPc = "emplace" => playerId[c] \in missed'[x]
    BY <1>13, <1>c DEF HandlerAnnounces, HandlerAt, HandlerGoto
  <2>2. Listening(x)' <=> Listening(x)
    BY <2>1 DEF Listening
  <2>. SUFFICES ASSUME Listening(x) PROVE RosterOf(x)'
    BY <2>2 DEF RosterOf
  <2>3. \A p : WillShow(x, p)' <=> WillShow(x, p) /\ (x \in tcpClients => p # playerId[c])
    <3>1. \A p : LeftMsg(playerId[c]) # News(x, p) /\ (LeftMsg(playerId[c]) = LeftMsg(p) <=> p = playerId[c])
      <4>1. \A p : LeftMsg(playerId[c]) # News(x, p)
        BY NoneIsNotJoined DEF News
      <4>2. \A p : LeftMsg(playerId[c]) = LeftMsg(p) => p = playerId[c]
        BY IdsTell
      <4>. QED
        BY <4>1, <4>2
    <3>. QED
      BY <1>d, <1>f, <2>1, <3>1, BroadcastSeen
  <2>4. ASSUME NEW d \in tcpClients \ {x}, Announced(d)' PROVE WillShow(x, playerId[d])'
    <3>1. d # c /\ playerId'[d] = playerId[d] /\ playerId[d] # playerId[c]
      BY <1>c, <2>1, <2>4
    <3>2. Announced(d)
      BY <2>1, <2>4, <3>1 DEF Announced
    <3>3. WillShow(x, playerId[d])
      BY <2>4, <3>2 DEF RosterOf
    <3>. QED
      BY <2>3, <3>1, <3>3
  <2>5. ASSUME NEW p, WillShow(x, p)' PROVE Excused(x, p)'
    <3>1. WillShow(x, p) /\ (x \in tcpClients => p # playerId[c])
      BY <2>3, <2>5
    <3>2. Excused(x, p)
      BY <3>1 DEF RosterOf
    <3>3. CASE p # playerId[c]
      BY <2>1, <3>2, <3>3 DEF Excused
    <3>4. CASE p = playerId[c]
      <4>1. accConn = x /\ accPc = "emplace"
        BY <3>1, <3>4 DEF Listening
      <4>. QED
        BY <2>1, <3>4, <4>1 DEF Excused
    <3>. QED
      BY <3>3, <3>4
  <2>. QED
    BY <2>1, <2>4, <2>5 DEF RosterOf
<1>14. ASSUME NEW c \in Conn, HandlerCallsLeft(c)  PROVE RosterOf(x)'
  BY <1>14, RosterKept, ViewKept DEF HandlerCallsLeft, HandlerAt, HandlerGoto, Listening,
     Announced, Joining
<1>15. ASSUME NEW c \in Conn, ClientConnects(c)  PROVE RosterOf(x)'
  <2>1. /\ UNCHANGED <<tcpClients, handler, playerId, missed, sock, accConn, accPc>>
        /\ \A d \in Conn \ {c} : /\ queue'[d] = queue[d] /\ clientPc'[d] = clientPc[d]
                                 /\ oldPlayers'[d] = oldPlayers[d] /\ roster'[d] = roster[d]
    BY <1>15 DEF ClientConnects, ClientGoto
  <2>2. CASE x # c
    <3>1. \A p : WillShow(x, p)' <=> WillShow(x, p)
      BY <2>1, <2>2, ViewKept
    <3>. QED
      BY <2>1, <2>2, <3>1, RosterKept DEF Listening, Announced
  <2>3. CASE x = c
    <3>1. clientPc'[c] \notin {"waiting", "constructed", "running"}
      BY <1>15 DEF ClientConnects, ClientGoto
    <3>. QED
      BY <2>3, <3>1 DEF RosterOf, Listening
  <2>. QED
    BY <2>2, <2>3
<1>16. ASSUME NEW c \in Conn, ClientSendsInfo(c)  PROVE RosterOf(x)'
  <2>1. /\ UNCHANGED <<tcpClients, handler, playerId, missed, sock, accConn, accPc>>
        /\ \A d \in Conn \ {c} : /\ queue'[d] = queue[d] /\ clientPc'[d] = clientPc[d]
                                 /\ oldPlayers'[d] = oldPlayers[d] /\ roster'[d] = roster[d]
    BY <1>16 DEF ClientSendsInfo, ClientGoto
  <2>2. CASE x # c
    <3>1. \A p : WillShow(x, p)' <=> WillShow(x, p)
      BY <2>1, <2>2, ViewKept
    <3>. QED
      BY <2>1, <2>2, <3>1, RosterKept DEF Listening, Announced
  <2>3. CASE x = c
    <3>1. nickname[c] = NoInfo
      BY <1>16, <1>c DEF ClientSendsInfo
    <3>2. ~Listening(c)'
      BY <1>c, <2>1, <3>1 DEF Listening, Joining
    <3>. QED
      BY <2>3, <3>2 DEF RosterOf
  <2>. QED
    BY <2>2, <2>3
<1>17. ASSUME NEW c \in Conn, ClientFails(c)  PROVE RosterOf(x)'
  <2>1. /\ UNCHANGED <<tcpClients, handler, playerId, missed, sock, accConn, accPc>>
        /\ \A d \in Conn \ {c} : /\ queue'[d] = queue[d] /\ clientPc'[d] = clientPc[d]
                                 /\ oldPlayers'[d] = oldPlayers[d] /\ roster'[d] = roster[d]
    BY <1>17 DEF ClientFails, ClientCloses, ClientGoto
  <2>2. CASE x # c
    <3>1. \A p : WillShow(x, p)' <=> WillShow(x, p)
      BY <2>1, <2>2, ViewKept
    <3>. QED
      BY <2>1, <2>2, <3>1, RosterKept DEF Listening, Announced
  <2>3. CASE x = c
    <3>1. clientPc'[c] \notin {"waiting", "constructed", "running"}
      BY <1>17 DEF ClientFails, ClientCloses, ClientGoto
    <3>. QED
      BY <2>3, <3>1 DEF RosterOf, Listening
  <2>. QED
    BY <2>2, <2>3
<1>18. ASSUME NEW c \in Conn, ClientConstructed(c)  PROVE RosterOf(x)'
  <2>1. /\ UNCHANGED <<tcpClients, handler, playerId, missed, sock, accConn, accPc>>
        /\ \A d \in Conn \ {c} : /\ queue'[d] = queue[d] /\ clientPc'[d] = clientPc[d]
                                 /\ oldPlayers'[d] = oldPlayers[d] /\ roster'[d] = roster[d]
    BY <1>18 DEF ClientConstructed, ClientGoto
  <2>2. CASE x # c
    <3>1. \A p : WillShow(x, p)' <=> WillShow(x, p)
      BY <2>1, <2>2, ViewKept
    <3>. QED
      BY <2>1, <2>2, <3>1, RosterKept DEF Listening, Announced
  <2>3. CASE x = c
    <3>1. \A p : WillShow(c, p)' <=> WillShow(c, p)
      BY <1>18, ViewConstructed DEF ClientConstructed, ClientGoto
    <3>2. clientPc[c] = "waiting"
      BY <1>18 DEF ClientConstructed
    <3>. QED
      BY <2>1, <2>3, <3>1, <3>2, RosterKept DEF Listening, Announced
  <2>. QED
    BY <2>2, <2>3
<1>19. ASSUME NEW c \in Conn, ClientStarts(c)  PROVE RosterOf(x)'
  <2>1. /\ UNCHANGED <<tcpClients, handler, playerId, missed, sock, accConn, accPc>>
        /\ \A d \in Conn \ {c} : /\ queue'[d] = queue[d] /\ clientPc'[d] = clientPc[d]
                                 /\ oldPlayers'[d] = oldPlayers[d] /\ roster'[d] = roster[d]
    BY <1>19 DEF ClientStarts, ClientGoto
  <2>2. CASE x # c
    <3>1. \A p : WillShow(x, p)' <=> WillShow(x, p)
      BY <2>1, <2>2, ViewKept
    <3>. QED
      BY <2>1, <2>2, <3>1, RosterKept DEF Listening, Announced
  <2>3. CASE x = c
    <3>1. \A p : /\ WillShow(c, p)' => WillShow(c, p)
                 /\ p # playerId[c] => (WillShow(c, p)' <=> WillShow(c, p))
      BY <1>19, ViewStarted DEF ClientStarts, ClientGoto
    <3>2. clientPc[c] = "constructed"
      BY <1>19 DEF ClientStarts
    <3>3. Listening(c)' => Listening(c)
      BY <2>1, <3>2 DEF Listening
    <3>4. \A d \in tcpClients \ {c} : playerId[d] # playerId[c] /\ (Announced(d)' => Announced(d))
      BY <1>c, <2>1 DEF Announced
    <3>5. \A p : Excused(c, p) => Excused(c, p)'
      BY <2>1 DEF Excused
    <3>. QED
      BY <2>1, <2>3, <3>1, <3>3, <3>4, <3>5 DEF RosterOf
  <2>. QED
    BY <2>2, <2>3
<1>20. ASSUME NEW c \in Conn, ClientReads(c)  PROVE RosterOf(x)'
  <2>1. /\ UNCHANGED <<tcpClients, handler, playerId, missed, sock, accConn, accPc>>
        /\ \A d \in Conn \ {c} : /\ queue'[d] = queue[d] /\ clientPc'[d] = clientPc[d]
                                 /\ oldPlayers'[d] = oldPlayers[d] /\ roster'[d] = roster[d]
    BY <1>20 DEF ClientReads
  <2>2. CASE x # c
    <3>1. \A p : WillShow(x, p)' <=> WillShow(x, p)
      BY <2>1, <2>2, ViewKept
    <3>. QED
      BY <2>1, <2>2, <3>1, RosterKept DEF Listening, Announced
  <2>3. CASE x = c
    <3>1. CASE clientPc'[c] = "running"
      <4>1. \A p : WillShow(c, p)' <=> WillShow(c, p)
        BY <1>20, <1>f, <3>1, ViewRead DEF ClientReads
      <4>2. clientPc[c] = "running"
        BY <1>20 DEF ClientReads
      <4>. QED
        BY <2>1, <2>3, <4>1, <4>2, RosterKept DEF Listening, Announced
    <3>2. CASE clientPc'[c] = "halted"
      BY <2>3, <3>2 DEF RosterOf, Listening
    <3>. QED
      BY <1>20, <3>1, <3>2 DEF ClientReads
  <2>. QED
    BY <2>2, <2>3
<1>21. ASSUME NEW c \in Conn, ClientHangs(c)  PROVE RosterOf(x)'
  <2>1. /\ UNCHANGED <<tcpClients, handler, playerId, missed, sock, accConn, accPc>>
        /\ \A d \in Conn \ {c} : /\ queue'[d] = queue[d] /\ clientPc'[d] = clientPc[d]
                                 /\ oldPlayers'[d] = oldPlayers[d] /\ roster'[d] = roster[d]
    BY <1>21 DEF ClientHangs, ClientGoto
  <2>2. CASE x # c
    <3>1. \A p : WillShow(x, p)' <=> WillShow(x, p)
      BY <2>1, <2>2, ViewKept
    <3>. QED
      BY <2>1, <2>2, <3>1, RosterKept DEF Listening, Announced
  <2>3. CASE x = c
    <3>1. clientPc'[c] \notin {"waiting", "constructed", "running"}
      BY <1>21 DEF ClientHangs, ClientGoto
    <3>. QED
      BY <2>3, <3>1 DEF RosterOf, Listening
  <2>. QED
    BY <2>2, <2>3
<1>22. ASSUME NEW c \in Conn, ClientQuits(c)  PROVE RosterOf(x)'
  <2>1. /\ UNCHANGED <<tcpClients, handler, playerId, missed, sock, accConn, accPc>>
        /\ \A d \in Conn \ {c} : /\ queue'[d] = queue[d] /\ clientPc'[d] = clientPc[d]
                                 /\ oldPlayers'[d] = oldPlayers[d] /\ roster'[d] = roster[d]
    BY <1>22 DEF ClientQuits, ClientCloses, ClientGoto
  <2>2. CASE x # c
    <3>1. \A p : WillShow(x, p)' <=> WillShow(x, p)
      BY <2>1, <2>2, ViewKept
    <3>. QED
      BY <2>1, <2>2, <3>1, RosterKept DEF Listening, Announced
  <2>3. CASE x = c
    <3>1. clientPc'[c] \notin {"waiting", "constructed", "running"}
      BY <1>22 DEF ClientQuits, ClientCloses, ClientGoto
    <3>. QED
      BY <2>3, <3>1 DEF RosterOf, Listening
  <2>. QED
    BY <2>2, <2>3
<1>23. CASE AcceptExit
  BY <1>23, RosterKept, ViewKept DEF AcceptExit, Listening, Announced, Joining
<1>24. CASE SetJoinedCallback
  BY <1>24, RosterKept, ViewKept DEF SetJoinedCallback, MainStep, Listening, Announced, Joining
<1>25. CASE SetLeftCallback
  BY <1>25, RosterKept, ViewKept DEF SetLeftCallback, MainStep, Listening, Announced, Joining
<1>26. CASE SetMapData
  BY <1>26, RosterKept, ViewKept DEF SetMapData, MainStep, Listening, Announced, Joining
<1>27. CASE SwapEvents
  BY <1>27, RosterKept, ViewKept DEF SwapEvents, Listening, Announced, Joining
<1>28. CASE ProcessEvent
  BY <1>28, RosterKept, ViewKept DEF ProcessEvent, Listening, Announced, Joining
<1>29. CASE StopServer
  BY <1>29, RosterKept, ViewKept DEF StopServer, MainStep, Listening, Announced, Joining
<1>30. CASE KickAll
  <2>1. CASE Terminate
    BY <2>1, RosterKept, ViewKept DEF Terminate, Listening, Announced
  <2>2. CASE /\ queue' = SendAll(tcpClients, KickMsg)
             /\ sock' = [c \in Conn |-> IF c \in tcpClients THEN "closed" ELSE sock[c]]
             /\ UNCHANGED <<clientPc, oldPlayers, roster, playerId, tcpClients, handler, missed, accConn, accPc>>
    <3>1. CASE x \in tcpClients
      BY <2>2, <3>1 DEF RosterOf, Listening
    <3>2. CASE x \notin tcpClients
      <4>1. queue'[x] = queue[x] /\ sock'[x] = sock[x]
        BY <2>2, <3>2, SendAllAt
      <4>2. \A p : WillShow(x, p)' <=> WillShow(x, p)
        BY <2>2, <4>1, ViewKept
      <4>. QED
        BY <2>2, <4>1, <4>2, RosterKept DEF Listening, Announced
    <3>. QED
      BY <3>1, <3>2
  <2>. QED
    BY <1>30, <2>1, <2>2 DEF KickAll
<1>31. CASE JoinAcceptThread
  BY <1>31, RosterKept, ViewKept DEF JoinAcceptThread, MainStep, Listening, Announced, Joining
<1>. QED
  BY <1>1, <1>2, <1>3, <1>4, <1>5, <1>6, <1>7, <1>8, <1>9, <1>10, <1>11, <1>12, <1>13, <1>14,
     <1>15, <1>16, <1>17, <1>18, <1>19, <1>20, <1>21, <1>22, <1>23, <1>24, <1>25, <1>26, <1>27,
     <1>28, <1>29, <1>30, <1>31 DEF Step, AcceptThread, HandlerThread,
     HandlerLeaves, ClientThread, ClientProgram, MainThread, StartUp, ProcessPlayerEvents, ServerStop

(* HumanoidsFollowConnections for one connection, and who has a humanoid. *)
Follows(c) ==
    c \notin mapless /\ playerId[c] # 0 =>
        (WillBeThere(playerId[c]) <=> handler[c] \notin {"none", "done"})
HumanoidsOfPlayers ==
    \A p \in humanoids : \E d \in Conn : playerId[d] = p /\ p # 0 /\ handler[d] # "none"
World == HumanoidsOfPlayers /\ \A c \in Conn : Follows(c)

LEMMA WorldOfAll == RInv /\ MapsSent /\ World => WorldFollowsPlayers
<1>. SUFFICES ASSUME RInv, MapsSent, World PROVE WorldFollowsPlayers
  OBVIOUS
<1>1. HumanoidsFollowConnections
  BY DEF World, Follows, HumanoidsFollowConnections
<1>2. PlayersHaveHumanoids
  <2>. SUFFICES ASSUME NEW c \in Conn, clientPc[c] = "running", handler[c] = "read"
       PROVE  WillBeThere(playerId[c])
    BY DEF PlayersHaveHumanoids
  <2>1. c \notin mapless /\ playerId[c] # 0
    BY DEF MapsSent, RInv, Served
  <2>. QED
    BY <2>1 DEF World, Follows
<1>. QED
  BY <1>1, <1>2 DEF WorldFollowsPlayers

(* An arrival is not a departure, and an event tells whose it is. *)
LEMMA EventsTell ==
    \A p, r : /\ [joined |-> TRUE, id |-> p] # [joined |-> FALSE, id |-> r]
              /\ [joined |-> TRUE, id |-> p] = [joined |-> TRUE, id |-> r] => p = r
              /\ [joined |-> FALSE, id |-> p] = [joined |-> FALSE, id |-> r] => p = r
<1>1. \A j, p : [joined |-> j, id |-> p].joined = j /\ [joined |-> j, id |-> p].id = p
  OBVIOUS
<1>2. ASSUME NEW p, NEW r, [joined |-> TRUE, id |-> p] = [joined |-> FALSE, id |-> r] PROVE FALSE
  <2>1. [joined |-> TRUE, id |-> p].joined = [joined |-> FALSE, id |-> r].joined
    BY <1>2
  <2>. QED
    BY <1>1, <2>1
<1>3. ASSUME NEW j, NEW p, NEW r, [joined |-> j, id |-> p] = [joined |-> j, id |-> r] PROVE p = r
  <2>1. [joined |-> j, id |-> p].id = [joined |-> j, id |-> r].id
    BY <1>3
  <2>. QED
    BY <1>1, <2>1
<1>. QED
  BY <1>2, <1>3

(* One more event is queued. *)
LEMMA WorldTold ==
    ASSUME TypeOK, NEW n \in Event, batch' = batch, playerEvents' = Append(playerEvents, n),
           humanoids' = humanoids
    PROVE  \A p : WillBeThere(p)' <=> \/ n = [joined |-> TRUE, id |-> p]
                                      \/ n # [joined |-> FALSE, id |-> p] /\ WillBeThere(p)
<1>1. batch \in Seq(Event) /\ playerEvents \in Seq(Event)
  BY DEF TypeOK, Events
<1>2. Ahead \in Seq(Event) /\ Ahead' = Append(Ahead, n)
  BY <1>1 DEF Ahead
<1>. SUFFICES ASSUME NEW p
     PROVE  WillBeThere(p)' <=> \/ n = [joined |-> TRUE, id |-> p]
                                \/ n # [joined |-> FALSE, id |-> p] /\ WillBeThere(p)
  OBVIOUS
<1>3. PICK q, K, a, r :
         /\ q \in Seq(Event) /\ q = Ahead /\ K = humanoids
         /\ a = [joined |-> TRUE, id |-> p] /\ r = [joined |-> FALSE, id |-> p]
  BY <1>2
<1>4. a # r
  BY <1>3, EventsTell
<1>5. Settled(p \in K, At(Append(q, n), a), At(Append(q, n), r))
         <=> n = a \/ (n # r /\ Settled(p \in K, At(q, a), At(q, r)))
  <2>1. q \in Seq(Event)
    BY <1>3
  <2>. QED
    BY <1>4, <2>1, AppendSettles
<1>6. WillBeThere(p) <=> Settled(p \in K, At(q, a), At(q, r))
  BY <1>3 DEF WillBeThere
<1>7. WillBeThere(p)' <=> Settled(p \in K, At(Append(q, n), a), At(Append(q, n), r))
  BY <1>2, <1>3 DEF WillBeThere
<1>. QED
  BY <1>3, <1>5, <1>6, <1>7

(* The arrival or the departure of one player is queued. *)
LEMMA WorldToldOf ==
    ASSUME TypeOK, NEW c \in Conn, NEW j \in BOOLEAN, batch' = batch, humanoids' = humanoids,
           playerEvents' = Append(playerEvents, [joined |-> j, id |-> playerId[c]])
    PROVE  \A p : WillBeThere(p)' <=> IF p = playerId[c] THEN j = TRUE ELSE WillBeThere(p)
<1>. SUFFICES ASSUME NEW p
     PROVE  WillBeThere(p)' <=> IF p = playerId[c] THEN j = TRUE ELSE WillBeThere(p)
  OBVIOUS
<1>1. PICK r \in Nat : r = playerId[c]
  BY DEF TypeOK
<1>2. PICK n \in Event : n = [joined |-> j, id |-> r]
  BY EventTypes
<1>3. WillBeThere(p)' <=> \/ n = [joined |-> TRUE, id |-> p]
                          \/ n # [joined |-> FALSE, id |-> p] /\ WillBeThere(p)
  <2>1. playerEvents' = Append(playerEvents, n)
    BY <1>1, <1>2
  <2>. QED
    BY <2>1, WorldTold
<1>4. /\ n = [joined |-> TRUE, id |-> p] <=> j = TRUE /\ p = r
      /\ n = [joined |-> FALSE, id |-> p] <=> j = FALSE /\ p = r
  <2>1. CASE j = TRUE
    BY <1>2, <2>1, EventsTell
  <2>2. CASE j = FALSE
    BY <1>2, <2>2, EventsTell
  <2>. QED
    BY <2>1, <2>2
<1>. QED
  BY <1>1, <1>3, <1>4

(* The events are swapped out. *)
LEMMA WorldSwapped ==
    ASSUME TypeOK, batch = <<>>, batch' = playerEvents, playerEvents' = <<>>, humanoids' = humanoids
    PROVE  \A p : WillBeThere(p)' <=> WillBeThere(p)
<1>1. batch \in Seq(Event) /\ playerEvents \in Seq(Event)
  BY DEF TypeOK, Events
<1>2. Ahead' = Ahead
  BY <1>1 DEF Ahead
<1>. QED
  BY <1>2 DEF WillBeThere

(* The next event is applied. *)
LEMMA WorldMoved ==
    ASSUME TypeOK, batch # <<>>, batch' = Tail(batch), playerEvents' = playerEvents,
           humanoids' = ApplyEvent(humanoids, Head(batch))
    PROVE  \A p : WillBeThere(p)' <=> WillBeThere(p)
<1>1. batch \in Seq(Event) /\ playerEvents \in Seq(Event)
  BY DEF TypeOK, Events
<1>2. /\ Ahead \in Seq(Event) /\ Ahead # <<>> /\ Head(Ahead) = Head(batch) /\ Head(batch) \in Event
      /\ Tail(Ahead) = Tail(batch) \o playerEvents
  BY <1>1 DEF Ahead
<1>3. Ahead' = Tail(Ahead)
  BY <1>2 DEF Ahead
<1>. SUFFICES ASSUME NEW p PROVE WillBeThere(p)' <=> WillBeThere(p)
  OBVIOUS
<1>4. PICK q, h, K, L, a, r :
         /\ q \in Seq(Event) /\ q = Ahead /\ h \in Event /\ h = Head(q)
         /\ K = humanoids /\ L = humanoids'
         /\ a = [joined |-> TRUE, id |-> p] /\ r = [joined |-> FALSE, id |-> p]
  BY <1>2
<1>5. a # r
  BY <1>4, EventsTell
<1>6. p \in L <=> Head(q) = a \/ (Head(q) # r /\ p \in K)
  <2>1. L = ApplyEvent(K, h)
    BY <1>2, <1>4
  <2>2. /\ h = a <=> h.joined /\ h.id = p
        /\ h = r <=> ~h.joined /\ h.id = p
    BY <1>4 DEF Event
  <2>. QED
    BY <1>4, <2>1, <2>2 DEF ApplyEvent
<1>7. Settled(p \in K, At(q, a), At(q, r)) <=> Settled(p \in L, At(Tail(q), a), At(Tail(q), r))
  <2>1. q # <<>>
    BY <1>2, <1>4
  <2>2. q \in Seq(Event)
    BY <1>4
  <2>. QED
    BY <2>1, <2>2, <1>5, <1>6, ReadSettles
<1>8. WillBeThere(p) <=> Settled(p \in K, At(q, a), At(q, r))
  BY <1>4 DEF WillBeThere
<1>9. WillBeThere(p)' <=> Settled(p \in L, At(Tail(q), a), At(Tail(q), r))
  BY <1>3, <1>4 DEF WillBeThere
<1>. QED
  BY <1>7, <1>8, <1>9

(* Nobody with an id that was not handed out is there or coming. *)
LEMMA NobodyYet == RInv /\ World => ~WillBeThere(nextPlayerId)
<1>. SUFFICES ASSUME RInv, World PROVE ~WillBeThere(nextPlayerId)
  OBVIOUS
<1>1. /\ nextPlayerId \in Nat /\ \A d \in Conn : playerId[d] \in Nat /\ playerId[d] < nextPlayerId
  BY DEF RInv, IInv, TypeOK, Distinct
<1>2. nextPlayerId \notin humanoids
  BY <1>1 DEF World, HumanoidsOfPlayers
<1>3. At(Ahead, [joined |-> TRUE, id |-> nextPlayerId]) = {}
  <2>. SUFFICES ASSUME NEW i \in DOMAIN Ahead, Ahead[i] = [joined |-> TRUE, id |-> nextPlayerId]
       PROVE  FALSE
    BY DEF At
  <2>1. PICK e \in Event : e = [joined |-> TRUE, id |-> nextPlayerId]
    BY <1>1, EventTypes
  <2>2. batch \in Seq(Event) /\ playerEvents \in Seq(Event)
    BY DEF RInv, IInv, TypeOK, Events
  <2>3. DOMAIN Ahead = 1 .. Len(batch \o playerEvents)
    BY <2>2 DEF Ahead
  <2>4. Pending(e)
    BY <2>1, <2>3 DEF Pending, Ahead
  <2>5. e.id = nextPlayerId
    BY <2>1
  <2>. QED
    BY <1>1, <2>4, <2>5 DEF RInv, EventsOfPlayers
<1>. QED
  BY <1>2, <1>3 DEF WillBeThere, Settled

(* Every step keeps the world behind the players. *)
LEMMA WorldStep == RInv /\ Places /\ World /\ Step => World'
<1>. SUFFICES ASSUME RInv, Places, World, Step PROVE World'
  OBVIOUS
<1>a. /\ NoConn \notin Conn /\ accConn \in Conn \cup {NoConn} /\ TypeOK
      /\ handler \in [Conn -> HandlerPc] /\ playerId \in [Conn -> Nat] /\ mapless \subseteq Conn
      /\ World
  BY SessionAssumption DEF RInv, IInv, TypeOK
<1>b. \A d \in Conn : /\ accConn = d => handler[d] = "none"
                      /\ handler[d] # "none" => playerId[d] # 0
                      /\ accConn = d /\ accPc = "callback" => playerId[d] # 0
                      /\ \A e \in Conn : d # e => playerId[d] # playerId[e] \/ playerId[d] = 0
  BY DEF RInv, IInv, Custody, Distinct, Served, Joined
<1>k. ASSUME UNCHANGED <<playerEvents, batch, humanoids>>,
             \A d \in Conn : /\ handler[d] # "none" => playerId'[d] = playerId[d]
                             /\ handler[d] = "none" <=> handler'[d] = "none"
                             /\ handler[d] = "done" <=> handler'[d] = "done"
                             /\ d \in mapless => d \in mapless'
                             /\ playerId'[d] = playerId[d] \/ ~WillBeThere(playerId'[d])
      PROVE  World'
  <2>1. \A p : WillBeThere(p)' <=> WillBeThere(p)
    BY <1>k DEF WillBeThere, Ahead
  <2>2. HumanoidsOfPlayers'
    BY <1>k DEF World, HumanoidsOfPlayers
  <2>3. ASSUME NEW d \in Conn PROVE Follows(d)'
    <3>1. CASE playerId'[d] = playerId[d]
      BY <1>k, <2>1, <3>1 DEF World, Follows
    <3>2. CASE playerId'[d] # playerId[d]
      BY <1>k, <2>1, <3>2 DEF World, Follows
    <3>. QED
      BY <3>1, <3>2
  <2>. QED
    BY <2>2, <2>3 DEF World
<1>. USE <1>a, <1>b DEF serverVars, gameVars, clientVars
<1>1. ASSUME NEW c \in Conn, Accept(c)  PROVE World'
  BY <1>1, <1>k DEF Accept
<1>2. ASSUME NEW c \in Conn, HandshakeFails(c)  PROVE World'
  BY <1>2, <1>k DEF HandshakeFails, BackToAccept
<1>3. ASSUME NEW c \in Conn, HandshakeRefused(c)  PROVE World'
  BY <1>3, <1>k DEF HandshakeRefused, BackToAccept, Terminate, Throws
<1>4. ASSUME NEW c \in Conn, HandshakeAccepted(c)  PROVE World'
  <2>1. ~WillBeThere(nextPlayerId)
    BY NobodyYet
  <2>. QED
    BY <1>4, <1>k, <2>1 DEF HandshakeAccepted
<1>5. ASSUME NEW c \in Conn, SendInitialState(c)  PROVE World'
  BY <1>5, <1>k DEF SendInitialState, BackToAccept, MapData
<1>6. ASSUME NEW c \in Conn, Emplace(c)  PROVE World'
  BY <1>6, <1>k DEF Emplace, Terminate, Throws
<1>7. ASSUME NEW c \in Conn, AnnounceJoined(c)  PROVE World'
  BY <1>7, <1>k DEF AnnounceJoined
<1>8. ASSUME NEW c \in Conn, CallJoined(c)  PROVE World'
  <2>. DEFINE n == [joined |-> TRUE, id |-> playerId[c]]
  <2>1. /\ handler[c] = "none" /\ handler'[c] = "read" /\ playerId[c] # 0
        /\ \A d \in Conn \ {c} : handler'[d] = handler[d]
        /\ UNCHANGED <<playerId, mapless, batch, humanoids>>
    BY <1>8 DEF CallJoined
  <2>2. n \in Event /\ \A d \in Conn \ {c} : n # [joined |-> TRUE, id |-> playerId[d]]
                                             /\ n # [joined |-> FALSE, id |-> playerId[d]]
    BY <2>1, EventTypes, EventsTell
  <2>3. HumanoidsOfPlayers'
    BY <2>1 DEF World, HumanoidsOfPlayers
  <2>4. CASE playerEvents' = playerEvents
    <3>1. c \in mapless
      <4>1. playerEvents \in Seq(Event)
        BY DEF TypeOK, Events
      <4>2. playerEvents # Append(playerEvents, n)
        BY <2>2, <4>1
      <4>3. mainPc = "construct" /\ accConn = c /\ accPc = "callback"
        BY <1>8, <2>1, <2>4, <4>2 DEF CallJoined, HandlerAt
      <4>. QED
        BY <4>3 DEF RInv, Served, Places
    <3>2. \A p : WillBeThere(p)' <=> WillBeThere(p)
      BY <2>1, <2>4 DEF WillBeThere, Ahead
    <3>3. \A d \in Conn : Follows(d)'
      BY <2>1, <3>1, <3>2 DEF World, Follows
    <3>. QED
      BY <2>3, <3>3 DEF World
  <2>5. CASE playerEvents' = Append(playerEvents, n)
    <3>1. \A p : WillBeThere(p)' <=> IF p = playerId[c] THEN TRUE ELSE WillBeThere(p)
      BY <2>1, <2>5, WorldToldOf
    <3>2. \A d \in Conn \ {c} : Follows(d)'
      BY <2>1, <3>1 DEF World, Follows
    <3>3. Follows(c)'
      <4>1. WillBeThere(playerId[c])' <=> TRUE
        BY <2>1, <3>1
      <4>. QED
        BY <2>1, <4>1 DEF Follows
    <3>. QED
      BY <2>3, <3>2, <3>3 DEF World
  <2>. QED
    BY <1>8, <2>4, <2>5 DEF CallJoined
<1>9. ASSUME NEW c \in Conn, HandlerRelays(c)  PROVE World'
  BY <1>9, <1>k DEF HandlerRelays, HandlerAt
<1>10. ASSUME NEW c \in Conn, HandlerKicks(c)  PROVE World'
  <2>a. CASE Terminate
    BY <2>a, <1>k DEF Terminate
  <2>b. CASE KickSent(c)
    BY <1>10, <2>b, <1>k DEF HandlerKicks, KickSent, HandlerAt, HandlerGoto
  <2>. QED
    BY <1>10, <2>a, <2>b DEF HandlerKicks
<1>11. ASSUME NEW c \in Conn, HandlerEnds(c)  PROVE World'
  BY <1>11, <1>k DEF HandlerEnds, HandlerAt, HandlerGoto
<1>12. ASSUME NEW c \in Conn, HandlerErases(c)  PROVE World'
  BY <1>12, <1>k DEF HandlerErases, HandlerAt, HandlerGoto
<1>13. ASSUME NEW c \in Conn, HandlerAnnounces(c)  PROVE World'
  BY <1>13, <1>k DEF HandlerAnnounces, HandlerAt, HandlerGoto
<1>14. ASSUME NEW c \in Conn, HandlerCallsLeft(c)  PROVE World'
  <2>. DEFINE n == [joined |-> FALSE, id |-> playerId[c]]
  <2>1. /\ handler[c] = "callback" /\ handler'[c] = "done" /\ playerId[c] # 0
        /\ \A d \in Conn \ {c} : handler'[d] = handler[d]
        /\ UNCHANGED <<playerId, mapless, batch, humanoids>>
    BY <1>14 DEF HandlerCallsLeft, HandlerAt, HandlerGoto
  <2>2. n \in Event /\ \A d \in Conn \ {c} : n # [joined |-> TRUE, id |-> playerId[d]]
                                             /\ n # [joined |-> FALSE, id |-> playerId[d]]
    BY <2>1, EventTypes, EventsTell
  <2>3. HumanoidsOfPlayers'
    BY <2>1 DEF World, HumanoidsOfPlayers
  <2>4. CASE playerEvents' = playerEvents
    <3>1. c \in mapless
      <4>1. playerEvents \in Seq(Event)
        BY DEF TypeOK, Events
      <4>2. playerEvents # Append(playerEvents, n)
        BY <2>2, <4>1
      <4>3. mainPc \in {"construct", "joinedSet"} /\ handler[c] # "none"
        BY <1>14, <2>1, <2>4, <4>2 DEF HandlerCallsLeft, HandlerAt
      <4>. QED
        BY <4>3 DEF RInv, Served, Places
    <3>2. \A p : WillBeThere(p)' <=> WillBeThere(p)
      BY <2>1, <2>4 DEF WillBeThere, Ahead
    <3>3. \A d \in Conn : Follows(d)'
      BY <2>1, <3>1, <3>2 DEF World, Follows
    <3>. QED
      BY <2>3, <3>3 DEF World
  <2>5. CASE playerEvents' = Append(playerEvents, n)
    <3>1. \A p : WillBeThere(p)' <=> IF p = playerId[c] THEN FALSE ELSE WillBeThere(p)
      BY <2>1, <2>5, WorldToldOf
    <3>2. \A d \in Conn \ {c} : Follows(d)'
      BY <2>1, <3>1 DEF World, Follows
    <3>3. Follows(c)'
      <4>1. WillBeThere(playerId[c])' <=> FALSE
        BY <2>1, <3>1
      <4>. QED
        BY <2>1, <4>1 DEF Follows
    <3>. QED
      BY <2>3, <3>2, <3>3 DEF World
  <2>. QED
    BY <1>14, <2>4, <2>5 DEF HandlerCallsLeft
<1>15. ASSUME NEW c \in Conn, ClientConnects(c)  PROVE World'
  BY <1>15, <1>k DEF ClientConnects, ClientGoto
<1>16. ASSUME NEW c \in Conn, ClientSendsInfo(c)  PROVE World'
  BY <1>16, <1>k DEF ClientSendsInfo, ClientGoto
<1>17. ASSUME NEW c \in Conn, ClientFails(c)  PROVE World'
  BY <1>17, <1>k DEF ClientFails, ClientCloses, ClientGoto
<1>18. ASSUME NEW c \in Conn, ClientConstructed(c)  PROVE World'
  BY <1>18, <1>k DEF ClientConstructed, ClientGoto
<1>19. ASSUME NEW c \in Conn, ClientStarts(c)  PROVE World'
  BY <1>19, <1>k DEF ClientStarts, ClientGoto
<1>20. ASSUME NEW c \in Conn, ClientReads(c)  PROVE World'
  BY <1>20, <1>k DEF ClientReads
<1>21. ASSUME NEW c \in Conn, ClientHangs(c)  PROVE World'
  BY <1>21, <1>k DEF ClientHangs, ClientGoto
<1>22. ASSUME NEW c \in Conn, ClientQuits(c)  PROVE World'
  BY <1>22, <1>k DEF ClientQuits, ClientCloses, ClientGoto
<1>23. CASE AcceptExit
  BY <1>23, <1>k DEF AcceptExit
<1>24. CASE SetJoinedCallback
  BY <1>24, <1>k DEF SetJoinedCallback, MainStep
<1>25. CASE SetLeftCallback
  BY <1>25, <1>k DEF SetLeftCallback, MainStep
<1>26. CASE SetMapData
  BY <1>26, <1>k DEF SetMapData, MainStep
<1>27. CASE SwapEvents
  <2>1. UNCHANGED <<humanoids, handler, playerId, mapless>> /\ \A p : WillBeThere(p)' <=> WillBeThere(p)
    BY <1>27, WorldSwapped DEF SwapEvents
  <2>2. HumanoidsOfPlayers' /\ \A d \in Conn : Follows(d)'
    BY <2>1 DEF World, HumanoidsOfPlayers, Follows
  <2>. QED
    BY <2>2 DEF World
<1>28. CASE ProcessEvent
  <2>1. UNCHANGED <<handler, playerId, mapless>> /\ \A p : WillBeThere(p)' <=> WillBeThere(p)
    BY <1>28, WorldMoved DEF ProcessEvent
  <2>2. \A d \in Conn : Follows(d)'
    BY <2>1 DEF World, Follows
  <2>3. HumanoidsOfPlayers'
    <3>1. PICK e \in Event : e = Head(batch) /\ Pending(e) /\ humanoids' = ApplyEvent(humanoids, e)
      <4>1. batch \in Seq(Event) /\ playerEvents \in Seq(Event) /\ batch # <<>>
        BY <1>28 DEF TypeOK, Events, ProcessEvent
      <4>2. Head(batch) \in Event /\ (batch \o playerEvents)[1] = Head(batch) /\ 1 \in 1 .. Len(batch \o playerEvents)
        BY <4>1
      <4>. QED
        BY <1>28, <4>2 DEF ProcessEvent, Pending
    <3>2. \E d \in Conn : playerId[d] = e.id /\ e.id # 0 /\ handler[d] # "none"
      BY <3>1 DEF RInv, EventsOfPlayers
    <3>. QED
      BY <2>1, <3>1, <3>2 DEF World, HumanoidsOfPlayers, ApplyEvent
  <2>. QED
    BY <2>2, <2>3 DEF World
<1>29. CASE StopServer
  BY <1>29, <1>k DEF StopServer, MainStep
<1>30. CASE KickAll
  BY <1>30, <1>k DEF KickAll, Terminate
<1>31. CASE JoinAcceptThread
  BY <1>31, <1>k DEF JoinAcceptThread, MainStep
<1>. QED
  BY <1>1, <1>2, <1>3, <1>4, <1>5, <1>6, <1>7, <1>8, <1>9, <1>10, <1>11, <1>12, <1>13, <1>14,
     <1>15, <1>16, <1>17, <1>18, <1>19, <1>20, <1>21, <1>22, <1>23, <1>24, <1>25, <1>26, <1>27,
     <1>28, <1>29, <1>30, <1>31 DEF Step, AcceptThread, HandlerThread,
     HandlerLeaves, ClientThread, ClientProgram, MainThread, StartUp, ProcessPlayerEvents, ServerStop

(* All of it together, along every behaviour. *)
WInv == RInv /\ Places /\ MapsSent /\ AllRosters /\ World

LEMMA WInvAlways == Spec => []WInv
<1>1. Init => Places /\ MapsSent /\ AllRosters /\ World
  <2>. SUFFICES ASSUME Init PROVE Places /\ MapsSent /\ AllRosters /\ World
    OBVIOUS
  <2>1. Places
    BY SessionAssumption DEF Init, InitFrom, Places, Early
  <2>2. MapsSent
    BY NotYetComplete DEF Init, InitFrom, MapsSent
  <2>3. AllRosters
    BY DEF Init, InitFrom, AllRosters, RosterOf, Listening
  <2>4. World
    BY DEF Init, InitFrom, World, HumanoidsOfPlayers, Follows
  <2>. QED
    BY <2>1, <2>2, <2>3, <2>4
<1>2. WInv /\ RInv' /\ [Next]_vars => WInv'
  <2>1. ASSUME WInv, RInv', Step PROVE WInv'
    <3>1. AllRosters'
      BY <2>1, RosterStep DEF WInv, AllRosters
    <3>. QED
      BY <2>1, <3>1, PlacesStep, MapsSentStep, WorldStep DEF WInv
  <2>2. ASSUME WInv, RInv', UNCHANGED vars PROVE WInv'
    <3>. USE <2>2 DEF vars, serverVars, gameVars, clientVars
    <3>1. Places'
      BY DEF WInv, Places, Early
    <3>2. MapsSent'
      BY DEF WInv, MapsSent, Opening
    <3>3. AllRosters'
      <4>. SUFFICES ASSUME NEW c \in Conn PROVE RosterOf(c)'
        BY DEF AllRosters
      <4>1. \A p : WillShow(c, p)' <=> WillShow(c, p)
        BY ViewKept
      <4>2. (Listening(c)' => Listening(c)) /\ \A d : Announced(d)' <=> Announced(d)
        BY DEF Listening, Announced
      <4>3. RosterOf(c)
        BY DEF WInv, AllRosters
      <4>. QED
        BY <4>1, <4>2, <4>3, RosterKept
    <3>4. World'
      <4>1. \A p : WillBeThere(p)' <=> WillBeThere(p)
        BY DEF WillBeThere, Ahead
      <4>. QED
        BY <4>1 DEF WInv, World, HumanoidsOfPlayers, Follows
    <3>. QED
      BY <2>2, <3>1, <3>2, <3>3, <3>4 DEF WInv
  <2>. QED
    BY <2>1, <2>2 DEF Next
<1>3. Init /\ RInv => WInv
  BY <1>1 DEF WInv
<1>. QED
  BY <1>2, <1>3, RInvAlways, PTL DEF Spec

(* A client's list of players: every client that got its InitialState shows,
   or will show once it has read what was written to it, exactly the registered
   players that were announced, and ghosts only of those that left between its
   InitialState and its registration (acceptLoop, handleTcpClient and
   ClientReplicator's callbacks). *)
THEOREM RostersAlwaysRight == Spec => []RostersAreRight
<1>1. WInv => RostersAreRight
  BY RostersOfAll DEF WInv, RInv, IInv
<1>. QED
  BY <1>1, WInvAlways, PTL

(* The server's world holds, or will hold once its queued events are applied,
   the humanoids of exactly the players that were sent the map and whose thread
   has not reported their departure (GameServer's callbacks and
   processPlayerEvents). *)
THEOREM WorldAlwaysFollows == Spec => []WorldFollowsPlayers
<1>1. WInv => WorldFollowsPlayers
  BY WorldOfAll DEF WInv
<1>. QED
  BY <1>1, WInvAlways, PTL

=============================================================================
