------------------------------- MODULE Session -------------------------------
(***************************************************************************)
(* The reliable half of a game session: net::Server's accept thread, the   *)
(* detached thread it starts for every accepted client, the server's main  *)
(* thread (start-up, player events, shutdown) and net::Client's TCP side   *)
(* with the replicator that keeps the client's list of remote players.     *)
(*                                                                         *)
(* A connection attempt is a member of Conn and is used once.  A critical  *)
(* section of the code is one atomic action; whatever a thread does        *)
(* between two critical sections on data only it can reach (reading or     *)
(* writing a socket no other thread knows yet) is merged into the section  *)
(* before it.  A TCP connection is the sequence of messages the server     *)
(* wrote and the client has not read.                                      *)
(***************************************************************************)
EXTENDS Naturals, Sequences, FiniteSets, SequencesExt

CONSTANTS
    Conn,        \* connection attempts, each made at most once
    NoConn,      \* not a connection: the accept thread is between clients
    Nick,        \* nicknames a player may type
    NickLen,     \* NickLen[n]: the number of characters of n
    Info,        \* the PlayerInfo packets a client program may send
    MaxPackets,  \* bound on what clients write after the handshake
    AllowReset,  \* whether a client's connection may end in a TCP reset
    AllowStop    \* whether a signal may stop the server

ASSUME SessionAssumption ==
    /\ NoConn \notin Conn
    /\ NickLen \in [Nick -> 0..15]
    /\ Info \subseteq [version : {"match", "differ", "oddsize"}, nick : Nick]
    /\ MaxPackets \in Nat
    /\ AllowReset \in BOOLEAN
    /\ AllowStop \in BOOLEAN

VARIABLES
    mainPc,      \* the server's main thread
    up,          \* FALSE once std::terminate ended the server process
    accPc,       \* the accept thread
    accConn,     \* the connection it is serving
    nextPlayerId,
    sock,        \* the server's socket of a connection
    playerId,    \* the id given to a connection, 0 before
    nickname,    \* what its PlayerInfo packet says
    tcpClients,  \* connections registered in m_tcpClients
    handler,     \* the thread that runs handleTcpClient for a connection
    playerEvents,\* GameServer::m_playerEvents
    batch,       \* the events processPlayerEvents swapped out and not yet applied
    humanoids,   \* ids the server's HumanoidManager knows
    clientPc,    \* the client program of a connection
    queue,       \* written by the server, not yet read by the client
    oldPlayers,  \* Client::m_cachedOldPlayers
    roster,      \* ClientReplicator::m_networkRigs: remote players shown
    packets,     \* what clients wrote after the handshake, for MaxPackets
    mapless,     \* history: connections that were sent an empty map
    missed       \* history: ids whose PlayerLeft a connection could not get

serverVars == <<accPc, accConn, nextPlayerId, sock, playerId, nickname,
                tcpClients, handler, mapless, missed>>
gameVars   == <<playerEvents, batch, humanoids>>
clientVars == <<clientPc, queue, oldPlayers, roster, packets>>
vars       == <<mainPc, up, serverVars, gameVars, clientVars>>

-----------------------------------------------------------------------------
(* Messages of the reliable channel.  The client version is folded into     *)
(* PlayerInfo: "match" stands for the version the server was built with,    *)
(* "oddsize" for a first packet that is no PlayerInfo at all.               *)

NoInfo == [version |-> "none"]

AcceptMsg(id)   == [type |-> "PlayerAccept", id |-> id]
StateMsg(ids)   == [type |-> "InitialState", ids |-> ids]
MapMsg(map)     == [type |-> "Map", map |-> map]
JoinedMsg(id)   == [type |-> "PlayerJoined", id |-> id]
LeftMsg(id)     == [type |-> "PlayerLeft", id |-> id]
KickMsg         == [type |-> "PlayerKick"]
InfoMsg         == [type |-> "PlayerInfo"]

Running    == mainPc \notin {"kick", "join", "destroyed"}
PeerOpen(c) == clientPc[c] \notin {"idle", "gone", "reset"}
Ids(C)     == {playerId[c] : c \in C}

\* tcpframing::writeFramed to a socket: what is written to a connection whose
\* socket or whose peer is closed reaches nobody.
Send(q, c, m) ==
    IF sock[c] = "open" /\ PeerOpen(c) THEN [q EXCEPT ![c] = Append(@, m)] ELSE q

\* One message to each of a set of connections, one critical section.
SendAll(C, m) ==
    [c \in Conn |-> IF c \in C /\ sock[c] = "open" /\ PeerOpen(c)
                    THEN Append(queue[c], m) ELSE queue[c]]

\* remote_endpoint() without an error code throws once the peer has reset the
\* connection; nobody catches it, so the server process ends.
Throws(c) == clientPc[c] = "reset"
Terminate ==
    /\ up' = FALSE
    /\ UNCHANGED <<mainPc, serverVars, gameVars, clientVars>>

-----------------------------------------------------------------------------
(* The accept thread: acceptLoop.                                           *)

Accept(c) ==
    /\ accPc = "accept"
    /\ Running
    /\ sock[c] = "none"
    /\ clientPc[c] # "idle"
    /\ accPc' = "handshake"
    /\ accConn' = c
    /\ sock' = [sock EXCEPT ![c] = "open"]
    /\ UNCHANGED <<mainPc, up, nextPlayerId, playerId, nickname, tcpClients,
                   handler, mapless, missed, gameVars, clientVars>>

\* The loop is left when accept returns an error: the acceptor was closed by
\* stop, or accept failed while the server runs (no descriptor was left), and
\* nothing starts it again.
AcceptExit ==
    /\ accPc = "accept"
    /\ accPc' = IF Running THEN "failed" ELSE "exited"
    /\ UNCHANGED <<mainPc, up, accConn, nextPlayerId, sock, playerId, nickname,
                   tcpClients, handler, mapless, missed, gameVars, clientVars>>

\* Defects of the loop's way out: the connection is forgotten with its socket
\* open; the loop is left for good.
BackToAcceptLeaking(c) == accPc' = "accept" /\ accConn' = NoConn /\ UNCHANGED sock
BackToAcceptBreaking(c) ==
    accPc' = "exited" /\ accConn' = NoConn /\ sock' = [sock EXCEPT ![c] = "closed"]

\* Close the socket in hand and take the next connection.
BackToAccept(c) ==
    /\ accPc' = "accept"
    /\ accConn' = NoConn
    /\ sock' = [sock EXCEPT ![c] = "closed"]

OddSize(c) == nickname[c].version = "oddsize"

\* The blocking read of PlayerInfo fails: the client went away before it, or
\* it reset the connection and what it had written is lost; or what it wrote
\* has not the size of a PlayerInfo.
HandshakeFails(c) ==
    /\ accPc = "handshake" /\ accConn = c
    /\ \/ nickname[c] = NoInfo /\ clientPc[c] \in {"gone", "reset"}
       \/ nickname[c] # NoInfo /\ clientPc[c] = "reset"
       \/ nickname[c] # NoInfo /\ OddSize(c)
    /\ BackToAccept(c)
    /\ UNCHANGED <<mainPc, up, nextPlayerId, playerId, nickname, tcpClients,
                   handler, mapless, missed, gameVars, clientVars>>

ValidNick(n) == NickLen[n] >= 5 /\ NickLen[n] <= 12
\* Defect: only players whose thread runs count, and not those about to leave.
NickTakenByReaders(n) ==
    \E d \in tcpClients : handler[d] = "read" /\ nickname[d].nick = n
NickTaken(n) == \E d \in tcpClients : nickname[d].nick = n
Refused(c) ==
    \/ nickname[c].version # "match"
    \/ ~ValidNick(nickname[c].nick)
    \/ NickTaken(nickname[c].nick)

\* A client of another version, with a bad nickname or with one in use is
\* kicked (kickClient asks for the remote endpoint first).
HandshakeRefused(c) ==
    /\ accPc = "handshake" /\ accConn = c
    /\ nickname[c] # NoInfo /\ ~OddSize(c)
    /\ Refused(c)
    /\ \/ /\ ~Throws(c)
          /\ queue' = Send(queue, c, KickMsg)
          /\ BackToAccept(c)
          /\ UNCHANGED <<mainPc, up, nextPlayerId, playerId, nickname, tcpClients,
                         handler, mapless, missed, gameVars,
                         clientPc, oldPlayers, roster, packets>>
       \/ Throws(c) /\ Terminate

\* Defect: the player is registered as soon as it is accepted.
HandshakeAcceptedRegistering(c) ==
    /\ accPc = "handshake" /\ accConn = c
    /\ nickname[c] # NoInfo
    /\ ~Refused(c)
    /\ playerId' = [playerId EXCEPT ![c] = nextPlayerId]
    /\ nextPlayerId' = nextPlayerId + 1
    /\ queue' = Send(queue, c, AcceptMsg(nextPlayerId))
    /\ tcpClients' = tcpClients \cup {c}
    /\ accPc' = "snapshot"
    /\ UNCHANGED <<mainPc, up, accConn, sock, nickname, handler, mapless, missed,
                   gameVars, clientPc, oldPlayers, roster, packets>>

\* The id is drawn before PlayerAccept is written, so a failed write uses it up.
HandshakeAccepted(c) ==
    /\ accPc = "handshake" /\ accConn = c
    /\ nickname[c] # NoInfo
    /\ ~Refused(c)
    /\ playerId' = [playerId EXCEPT ![c] = nextPlayerId]
    /\ nextPlayerId' = nextPlayerId + 1
    /\ \/ /\ queue' = Send(queue, c, AcceptMsg(nextPlayerId))
          /\ accPc' = "snapshot"
          /\ UNCHANGED <<accConn, sock>>
       \/ /\ ~PeerOpen(c)
          /\ BackToAccept(c)
          /\ UNCHANGED queue
    /\ UNCHANGED <<mainPc, up, nickname, tcpClients, handler, mapless, missed,
                   gameVars, clientPc, oldPlayers, roster, packets>>

MapData == IF mainPc \in {"construct", "joinedSet", "leftSet"} THEN "empty" ELSE "set"

\* InitialState is built from m_tcpClients under its mutex, then written, and
\* the map buffer after it.  The buffer is empty until buildMap has set it.
SendInitialState(c) ==
    /\ accPc = "snapshot" /\ accConn = c
    /\ \/ /\ queue' = Send(Send(queue, c, StateMsg(Ids(tcpClients))), c,
                           MapMsg(MapData))
          /\ mapless' = IF MapData = "empty" THEN mapless \cup {c} ELSE mapless
          /\ accPc' = "emplace"
          /\ UNCHANGED <<accConn, sock>>
       \/ /\ ~PeerOpen(c)
          /\ BackToAccept(c)
          /\ UNCHANGED <<queue, mapless>>
    /\ UNCHANGED <<mainPc, up, nextPlayerId, playerId, nickname, tcpClients,
                   handler, missed, gameVars, clientPc, oldPlayers, roster, packets>>

\* The log line between the map and the registration asks for the remote
\* endpoint too.
Emplace(c) ==
    /\ accPc = "emplace" /\ accConn = c
    /\ \/ /\ ~Throws(c)
          /\ tcpClients' = tcpClients \cup {c}
          /\ accPc' = "announce"
          /\ UNCHANGED <<mainPc, up, accConn, nextPlayerId, sock, playerId, nickname,
                         handler, mapless, missed, gameVars, clientVars>>
       \/ Throws(c) /\ Terminate

\* Defect: only players that are not leaving hear of the newcomer, and a
\* newcomer still waiting for its state is taken for one of them.
AnnounceJoinedToStarted(c) ==
    /\ accPc = "announce" /\ accConn = c
    /\ queue' = SendAll({d \in tcpClients : clientPc[d] = "running"},
                        JoinedMsg(playerId[c]))
    /\ accPc' = "callback"
    /\ UNCHANGED <<mainPc, up, accConn, nextPlayerId, sock, playerId, nickname,
                   tcpClients, handler, mapless, missed, gameVars,
                   clientPc, oldPlayers, roster, packets>>

AnnounceJoined(c) ==
    /\ accPc = "announce" /\ accConn = c
    /\ queue' = SendAll(tcpClients, JoinedMsg(playerId[c]))
    /\ accPc' = "callback"
    /\ UNCHANGED <<mainPc, up, accConn, nextPlayerId, sock, playerId, nickname,
                   tcpClients, handler, mapless, missed, gameVars,
                   clientPc, oldPlayers, roster, packets>>

\* The joined callback, if it is set yet, queues an event for the main thread;
\* then the client's own thread is started and detached.
CallJoined(c) ==
    /\ accPc = "callback" /\ accConn = c
    /\ playerEvents' = IF mainPc = "construct" THEN playerEvents
                       ELSE Append(playerEvents, [joined |-> TRUE, id |-> playerId[c]])
    /\ handler' = [handler EXCEPT ![c] = "read"]
    /\ accPc' = "accept"
    /\ accConn' = NoConn
    /\ UNCHANGED <<mainPc, up, nextPlayerId, sock, playerId, nickname, tcpClients,
                   mapless, missed, batch, humanoids, clientVars>>

-----------------------------------------------------------------------------
(* The thread of an accepted client: handleTcpClient.                       *)

HandlerAt(c, pc)   == handler[c] = pc
HandlerGoto(c, pc) == handler' = [handler EXCEPT ![c] = pc]

\* What a client wrote before it closed its end is still read.
Readable(c) == sock[c] = "open" /\ (PeerOpen(c) \/ clientPc[c] = "gone")

\* A well-formed PlayerInfo is relayed to everybody else; any other packet
\* that is not one of the server's own is ignored.
HandlerRelays(c) ==
    /\ HandlerAt(c, "read") /\ Running
    /\ Readable(c)
    /\ packets < MaxPackets
    /\ packets' = packets + 1
    /\ queue' = SendAll(tcpClients \ {c}, InfoMsg)
    /\ UNCHANGED <<mainPc, up, serverVars, gameVars, clientPc, oldPlayers, roster>>

\* A packet only the server may send gets its author kicked, which throws when
\* the author has reset the connection since the packet was read.
KickSent(c) ==
    /\ Readable(c)
    /\ packets' = packets + 1
    /\ queue' = Send(queue, c, KickMsg)
    /\ sock' = [sock EXCEPT ![c] = "closed"]
    /\ HandlerGoto(c, "erase")
    /\ UNCHANGED <<mainPc, up, accPc, accConn, nextPlayerId, playerId, nickname,
                   tcpClients, mapless, missed, gameVars, clientPc, oldPlayers, roster>>

HandlerKicks(c) ==
    /\ HandlerAt(c, "read") /\ Running
    /\ packets < MaxPackets
    /\ KickSent(c) \/ (sock[c] = "open" /\ Throws(c) /\ Terminate)

\* Defect: the departure is reported to the game before the player is no longer
\* registered.
HandlerEndsReporting(c) ==
    /\ HandlerAt(c, "read")
    /\ ~PeerOpen(c) \/ sock[c] = "closed" \/ ~Running
    /\ sock' = [sock EXCEPT ![c] = "closed"]
    /\ playerEvents' = Append(playerEvents, [joined |-> FALSE, id |-> playerId[c]])
    /\ HandlerGoto(c, "erase")
    /\ UNCHANGED <<mainPc, up, accPc, accConn, nextPlayerId, playerId, nickname,
                   tcpClients, mapless, missed, batch, humanoids, clientVars>>

\* The read fails (the client left, or kickAll closed the socket), or the loop
\* condition does; the thread closes the socket.
HandlerEnds(c) ==
    /\ HandlerAt(c, "read")
    /\ ~PeerOpen(c) \/ sock[c] = "closed" \/ ~Running
    /\ sock' = [sock EXCEPT ![c] = "closed"]
    /\ HandlerGoto(c, "erase")
    /\ UNCHANGED <<mainPc, up, accPc, accConn, nextPlayerId, playerId, nickname,
                   tcpClients, mapless, missed, gameVars, clientVars>>

HandlerErases(c) ==
    /\ HandlerAt(c, "erase")
    /\ tcpClients' = tcpClients \ {c}
    /\ HandlerGoto(c, "announce")
    /\ UNCHANGED <<mainPc, up, accPc, accConn, nextPlayerId, sock, playerId, nickname,
                   mapless, missed, gameVars, clientVars>>

\* PlayerLeft goes to the clients registered at this moment: one that has its
\* InitialState already and is not registered yet does not get it.
HandlerAnnounces(c) ==
    /\ HandlerAt(c, "announce")
    /\ queue' = SendAll(tcpClients, LeftMsg(playerId[c]))
    /\ missed' = IF accPc = "emplace"
                 THEN [missed EXCEPT ![accConn] = @ \cup {playerId[c]}] ELSE missed
    /\ HandlerGoto(c, "callback")
    /\ UNCHANGED <<mainPc, up, accPc, accConn, nextPlayerId, sock, playerId, nickname,
                   tcpClients, mapless, gameVars, clientPc, oldPlayers, roster, packets>>

\* Defect: the game hears of a departure only if nobody is joining meanwhile.
HandlerCallsLeftIfIdle(c) ==
    /\ HandlerAt(c, "callback")
    /\ playerEvents' = IF accConn # NoConn THEN playerEvents
                       ELSE Append(playerEvents, [joined |-> FALSE, id |-> playerId[c]])
    /\ HandlerGoto(c, "done")
    /\ UNCHANGED <<mainPc, up, accPc, accConn, nextPlayerId, sock, playerId, nickname,
                   tcpClients, mapless, missed, batch, humanoids, clientVars>>

HandlerCallsLeft(c) ==
    /\ HandlerAt(c, "callback")
    /\ playerEvents' = IF mainPc \in {"construct", "joinedSet"} THEN playerEvents
                       ELSE Append(playerEvents, [joined |-> FALSE, id |-> playerId[c]])
    /\ HandlerGoto(c, "done")
    /\ UNCHANGED <<mainPc, up, accPc, accConn, nextPlayerId, sock, playerId, nickname,
                   tcpClients, mapless, missed, batch, humanoids, clientVars>>

-----------------------------------------------------------------------------
(* The server's main thread: GameServer's constructor, run and destructor.  *)
(* The accept thread runs since net::Server was constructed.                *)

MainStep(from, to) ==
    /\ mainPc = from
    /\ mainPc' = to
    /\ UNCHANGED <<up, serverVars, gameVars, clientVars>>

SetJoinedCallback == MainStep("construct", "joinedSet")
SetLeftCallback   == MainStep("joinedSet", "leftSet")
SetMapData        == MainStep("leftSet", "run")

\* Defect: the newest event is applied first.
SwapEventsReversed ==
    /\ mainPc = "run"
    /\ batch = <<>> /\ playerEvents # <<>>
    /\ batch' = Reverse(playerEvents)
    /\ playerEvents' = <<>>
    /\ UNCHANGED <<mainPc, up, serverVars, humanoids, clientVars>>

SwapEvents ==
    /\ mainPc = "run"
    /\ batch = <<>> /\ playerEvents # <<>>
    /\ batch' = playerEvents
    /\ playerEvents' = <<>>
    /\ UNCHANGED <<mainPc, up, serverVars, humanoids, clientVars>>

ApplyEvent(ids, e) == IF e.joined THEN ids \cup {e.id} ELSE ids \ {e.id}

ProcessEvent ==
    /\ mainPc = "run"
    /\ batch # <<>>
    /\ humanoids' = ApplyEvent(humanoids, Head(batch))
    /\ batch' = Tail(batch)
    /\ UNCHANGED <<mainPc, up, serverVars, playerEvents, clientVars>>

\* A signal ends run() between two rounds; ~GameServer reaches Server::stop,
\* which clears m_running and closes the acceptor, kicks everybody, and waits
\* for the accept thread but for no client thread: they are detached.
StopServer ==
    /\ AllowStop /\ batch = <<>>
    /\ MainStep("run", "kick")

KickAll ==
    /\ mainPc = "kick"
    /\ \/ /\ \A c \in tcpClients : sock[c] = "open" /\ ~Throws(c)
          /\ queue' = SendAll(tcpClients, KickMsg)
          /\ sock' = [c \in Conn |-> IF c \in tcpClients THEN "closed" ELSE sock[c]]
          /\ mainPc' = "join"
          /\ UNCHANGED <<up, accPc, accConn, nextPlayerId, playerId, nickname,
                         tcpClients, handler, mapless, missed, gameVars,
                         clientPc, oldPlayers, roster, packets>>
       \/ /\ \E c \in tcpClients : sock[c] = "closed" \/ Throws(c)
          /\ Terminate

JoinAcceptThread ==
    /\ accPc \in {"exited", "failed"}
    /\ MainStep("join", "destroyed")

-----------------------------------------------------------------------------
(* The client program: net::Client and the callbacks of ClientReplicator.   *)

ClientGoto(c, pc) == clientPc' = [clientPc EXCEPT ![c] = pc]

\* The client program ends, and what it knew with it; its connection ends in a
\* FIN or, with unread data or a killed process, in a reset.
ClientCloses(c) ==
    /\ \/ ClientGoto(c, "gone")
       \/ AllowReset /\ ClientGoto(c, "reset")
    /\ queue' = [queue EXCEPT ![c] = <<>>]
    /\ oldPlayers' = [oldPlayers EXCEPT ![c] = {}]
    /\ roster' = [roster EXCEPT ![c] = {}]
    /\ UNCHANGED <<mainPc, up, serverVars, gameVars, packets>>

ClientConnects(c) ==
    /\ clientPc[c] = "idle"
    /\ Running
    /\ ClientGoto(c, "connected")
    /\ UNCHANGED <<mainPc, up, serverVars, gameVars, queue, oldPlayers, roster, packets>>

ClientSendsInfo(c) ==
    /\ clientPc[c] = "connected"
    /\ \E i \in Info : nickname' = [nickname EXCEPT ![c] = i]
    /\ ClientGoto(c, "waiting")
    /\ UNCHANGED <<mainPc, up, accPc, accConn, nextPlayerId, sock, playerId, tcpClients,
                   handler, mapless, missed, gameVars, queue, oldPlayers, roster, packets>>

\* What the server will never answer: it closed the socket, or closed the
\* acceptor before it accepted the connection.
Unanswered(c) ==
    /\ queue[c] = <<>>
    /\ \/ sock[c] = "closed" \/ mainPc = "destroyed"
       \/ sock[c] = "none" /\ ~Running

\* The constructor throws: kicked, hung up on, or sent an empty map.
ClientFails(c) ==
    /\ clientPc[c] = "waiting"
    /\ \/ Unanswered(c)
       \/ queue[c] # <<>> /\ Head(queue[c]) = KickMsg
       \/ queue[c] # <<>> /\ Len(queue[c]) < 3 /\ sock[c] = "closed"
       \/ Len(queue[c]) >= 3 /\ queue[c][3] = MapMsg("empty")
    /\ ClientCloses(c)

\* The constructor reads PlayerAccept, InitialState and the map.
ClientConstructed(c) ==
    /\ clientPc[c] = "waiting"
    /\ Len(queue[c]) >= 3
    /\ queue[c][1].type = "PlayerAccept"
    /\ queue[c][3] = MapMsg("set")
    /\ oldPlayers' = [oldPlayers EXCEPT ![c] = queue[c][2].ids]
    /\ queue' = [queue EXCEPT ![c] = SubSeq(@, 4, Len(@))]
    /\ ClientGoto(c, "constructed")
    /\ UNCHANGED <<mainPc, up, serverVars, gameVars, roster, packets>>

\* Client::start hands the old players to the replicator, forgets them and
\* starts the receiving threads.
ClientStarts(c) ==
    /\ clientPc[c] = "constructed"
    /\ roster' = [roster EXCEPT ![c] = @ \cup (oldPlayers[c] \ {playerId[c]})]
    /\ oldPlayers' = [oldPlayers EXCEPT ![c] = {}]
    /\ ClientGoto(c, "running")
    /\ UNCHANGED <<mainPc, up, serverVars, gameVars, queue, packets>>

\* addRemotePlayer skips the client's own id; other messages change nothing.
ApplyMsg(ids, m, own) ==
    CASE m.type = "PlayerJoined" /\ m.id # own -> ids \cup {m.id}
      [] m.type = "PlayerLeft"                 -> ids \ {m.id}
      [] OTHER                                 -> ids

ClientReads(c) ==
    /\ clientPc[c] = "running"
    /\ queue[c] # <<>>
    /\ roster' = [roster EXCEPT ![c] = ApplyMsg(@, Head(queue[c]), playerId[c])]
    /\ queue' = [queue EXCEPT ![c] = Tail(@)]
    /\ clientPc' = IF Head(queue[c]) = KickMsg
                   THEN [clientPc EXCEPT ![c] = "halted"] ELSE clientPc
    /\ UNCHANGED <<mainPc, up, serverVars, gameVars, oldPlayers, packets>>

\* End of stream: tcpUpdateLoop reports it and ends, the window stays open.
ClientHangs(c) ==
    /\ clientPc[c] = "running"
    /\ Unanswered(c)
    /\ ClientGoto(c, "halted")
    /\ UNCHANGED <<mainPc, up, serverVars, gameVars, queue, oldPlayers, roster, packets>>

\* The player closes the window, at any moment.
ClientQuits(c) ==
    /\ PeerOpen(c)
    /\ ClientCloses(c)

-----------------------------------------------------------------------------

InitFrom(pc) ==
    /\ mainPc = pc /\ up = TRUE
    /\ accPc = "accept" /\ accConn = NoConn
    /\ nextPlayerId = 1
    /\ sock = [c \in Conn |-> "none"]
    /\ playerId = [c \in Conn |-> 0]
    /\ nickname = [c \in Conn |-> NoInfo]
    /\ tcpClients = {}
    /\ handler = [c \in Conn |-> "none"]
    /\ mapless = {}
    /\ missed = [c \in Conn |-> {}]
    /\ playerEvents = <<>> /\ batch = <<>> /\ humanoids = {}
    /\ clientPc = [c \in Conn |-> "idle"]
    /\ queue = [c \in Conn |-> <<>>]
    /\ oldPlayers = [c \in Conn |-> {}]
    /\ roster = [c \in Conn |-> {}]
    /\ packets = 0

\* net::Server has just been constructed; its callbacks and the map follow.
Init == InitFrom("construct")

AcceptThread ==
    \/ AcceptExit
    \/ \E c \in Conn : \/ Accept(c) \/ HandshakeFails(c)
                       \/ HandshakeRefused(c) \/ HandshakeAccepted(c)
                       \/ SendInitialState(c) \/ Emplace(c)
                       \/ AnnounceJoined(c) \/ CallJoined(c)

\* The steps of a client's thread that need nothing from the client.
HandlerLeaves(c) ==
    \/ HandlerEnds(c) \/ HandlerErases(c) \/ HandlerAnnounces(c) \/ HandlerCallsLeft(c)
\* A detached thread that outlives the Server object runs until the process
\* has exited; what it does to the freed object in between is not modelled.
HandlerThread(c) ==
    /\ mainPc # "destroyed"
    /\ HandlerRelays(c) \/ HandlerKicks(c) \/ HandlerLeaves(c)

StartUp == SetJoinedCallback \/ SetLeftCallback \/ SetMapData
ProcessPlayerEvents == SwapEvents \/ ProcessEvent
ServerStop == KickAll \/ JoinAcceptThread
MainThread == StartUp \/ ProcessPlayerEvents \/ StopServer \/ ServerStop

ClientProgram(c) ==
    \/ ClientSendsInfo(c) \/ ClientFails(c) \/ ClientConstructed(c)
    \/ ClientStarts(c) \/ ClientReads(c) \/ ClientHangs(c)
ClientThread(c) == ClientConnects(c) \/ ClientProgram(c) \/ ClientQuits(c)

Step ==
    \/ AcceptThread
    \/ \E c \in Conn : HandlerThread(c) \/ ClientThread(c)
    \/ MainThread

Next == up /\ Step

Spec == Init /\ [][Next]_vars

\* Threads are scheduled: whatever a thread can do at its place in the code it
\* does eventually.  Nothing makes a player connect, speak, quit, a signal come
\* or accept fail.
Fairness ==
    /\ WF_vars(up /\ AcceptThread /\ accPc' # "failed")
    /\ WF_vars(up /\ StartUp)
    /\ WF_vars(up /\ ProcessPlayerEvents)
    /\ WF_vars(up /\ ServerStop)
    /\ \A c \in Conn : /\ WF_vars(up /\ mainPc # "destroyed" /\ HandlerLeaves(c))
                        /\ WF_vars(up /\ clientPc[c] # "connected" /\ ClientProgram(c))

-----------------------------------------------------------------------------

(***************************************************************************)
(* Properties.                                                             *)
(***************************************************************************)

Message ==
    [type : {"PlayerAccept", "PlayerJoined", "PlayerLeft"}, id : Nat]
        \cup [type : {"InitialState"}, ids : SUBSET Nat]
        \cup [type : {"Map"}, map : {"empty", "set"}]
        \cup {KickMsg, InfoMsg}
Event   == [joined : BOOLEAN, id : Nat]
Queues  == [Conn -> Seq(Message)]
Events  == Seq(Event)
Rosters == [Conn -> SUBSET Nat]

MainPc    == {"construct", "joinedSet", "leftSet", "run", "kick", "join", "destroyed"}
AccPc     == {"accept", "handshake", "snapshot", "emplace", "announce", "callback", "exited",
              "failed"}
HandlerPc == {"none", "read", "erase", "announce", "callback", "done"}
ClientPc  == {"idle", "connected", "waiting", "constructed", "running", "halted",
              "gone", "reset"}

(* Every variable has its type; the accept thread holds a connection exactly
   between accept and the start of the client's thread. *)
TypeOK ==
    /\ mainPc \in MainPc /\ up \in BOOLEAN
    /\ accPc \in AccPc /\ accConn \in Conn \cup {NoConn}
    /\ accConn = NoConn <=> accPc \in {"accept", "exited", "failed"}
    /\ nextPlayerId \in Nat \ {0}
    /\ sock \in [Conn -> {"none", "open", "closed"}]
    /\ playerId \in [Conn -> Nat]
    /\ nickname \in [Conn -> Info \cup {NoInfo}]
    /\ tcpClients \subseteq Conn
    /\ handler \in [Conn -> HandlerPc]
    /\ mapless \subseteq Conn
    /\ missed \in Rosters
    /\ playerEvents \in Events /\ batch \in Events
    /\ humanoids \subseteq Nat
    /\ clientPc \in [Conn -> ClientPc]
    /\ queue \in Queues
    /\ oldPlayers \in Rosters /\ roster \in Rosters
    /\ packets \in Nat

(* No two registered players share a nickname or an id, although the check of
   a nickname and the registration are separate critical sections. *)
UniquePlayers ==
    \A c, d \in tcpClients :
        c # d => /\ nickname[c].nick # nickname[d].nick
                 /\ playerId[c] # playerId[d]

(* Every open server socket is in the hands of a thread that will close it,
   and every registration in the hands of one that will erase it: no order of
   joining, leaving and shutdown leaks a connection. *)
NoOrphans ==
    \A c \in Conn :
        /\ sock[c] = "open" => accConn = c \/ handler[c] = "read"
        /\ c \in tcpClients => accConn = c \/ handler[c] \in {"read", "erase"}

\* A client's handshake as it may have arrived so far: nothing, a kick, the
\* acceptance alone, or acceptance, state and map with what came after them.
AcceptOnly(q) == Len(q) = 1 /\ q[1].type = "PlayerAccept"
Complete(q) ==
    /\ Len(q) >= 3
    /\ q[1].type = "PlayerAccept" /\ q[2].type = "InitialState" /\ q[3].type = "Map"
HandshakePrefix(q) == q \in {<<>>, <<KickMsg>>} \/ AcceptOnly(q) \/ Complete(q)

(* What net::Client's constructor reads comes in the order it reads it, and no
   broadcast of another thread slips in between: it does not look at the
   packet types of the second and third message. *)
HandshakeInOrder ==
    \A c \in Conn : clientPc[c] = "waiting" => HandshakePrefix(queue[c])

\* Whether something is in a set after additions and removals at some positions
\* of a sequence, given whether it was in before them.
Settled(in, adds, removes) ==
    \/ in /\ removes = {}
    \/ \E i \in adds : \A j \in removes : j < i
At(q, v) == {i \in DOMAIN q : q[i] = v}

\* What a client has not read of what follows its handshake, and the players it
\* knows before that.
Unread(c) ==
    IF clientPc[c] = "waiting" THEN SubSeq(queue[c], 4, Len(queue[c])) ELSE queue[c]
Known(c) ==
    IF clientPc[c] = "waiting" THEN queue[c][2].ids ELSE oldPlayers[c] \cup roster[c]

\* Nothing tells a client of itself.
News(c, p) == IF p = playerId[c] THEN [type |-> "none"] ELSE JoinedMsg(p)

\* The remote players a client will show once it has read everything the
\* server has written to it so far.
WillShow(c, p) == Settled(p \in Known(c), At(Unread(c), News(c, p)), At(Unread(c), LeftMsg(p)))
Mentioned(c) ==
    {Unread(c)[i].id : i \in {k \in DOMAIN Unread(c) : Unread(c)[k].type = "PlayerJoined"}}
View(c) == {p \in Known(c) \cup Mentioned(c) : WillShow(c, p)}

\* Clients that were sent their InitialState and still listen.
Listening(c) ==
    /\ c \in tcpClients \/ (accConn = c /\ accPc = "emplace")
    /\ sock[c] = "open"
    /\ clientPc[c] \in {"waiting", "constructed", "running"}
Announced(c) == handler[c] # "none" \/ (accConn = c /\ accPc = "callback")

(* A client misses nobody: whoever is registered and announced is among the
   players it shows or will show, whether the player joined before the
   client's InitialState was built, after it, or in between. *)
NoMissingPlayer ==
    \A c \in Conn : Listening(c) =>
        \A d \in tcpClients \ {c} : Announced(d) => playerId[d] \in View(c)

(* A client shows nobody who has left, except players whose PlayerLeft is
   about to be sent and those that left between the moment the client's
   InitialState was built and its registration: only these become ghosts. *)
GhostsOnlyFromTheGap ==
    \A c \in Conn : Listening(c) =>
        \A p \in View(c) :
            \/ \E d \in Conn : /\ playerId[d] = p
                               /\ d \in tcpClients \/ handler[d] = "announce"
            \/ p \in missed[c]

(* The remote players every client shows, once it has read what was written to
   it, are the registered players: nobody is missing and nobody is there too
   long. *)
RostersAreRight == NoMissingPlayer /\ GhostsOnlyFromTheGap

\* The players the server's world will hold once all queued events are applied.
Ahead == batch \o playerEvents
WillBeThere(p) ==
    Settled(p \in humanoids, At(Ahead, [joined |-> TRUE, id |-> p]),
            At(Ahead, [joined |-> FALSE, id |-> p]))

(* The server's world follows the connections: once its events are applied, a
   player that was sent the map has a humanoid exactly from the moment its
   thread is started until that thread has called the left callback. *)
HumanoidsFollowConnections ==
    \A c \in Conn \ mapless : playerId[c] # 0 =>
        (WillBeThere(playerId[c]) <=> handler[c] \notin {"none", "done"})

(* Whoever plays has a humanoid on the server, now or once the queued events
   are applied: a client that connects before the server's callbacks are set
   gets an empty map, and gives up. *)
PlayersHaveHumanoids ==
    \A c \in Conn :
        clientPc[c] = "running" /\ handler[c] = "read" => WillBeThere(playerId[c])

(* The humanoids of the server's world are those of the players that take
   part, however the callbacks' events were queued and applied. *)
WorldFollowsPlayers == HumanoidsFollowConnections /\ PlayersHaveHumanoids

\* The accept thread reads from a client that has not said a word.
SilentHolds == accPc = "handshake" /\ clientPc[accConn] = "connected"

(* Whoever sends its PlayerInfo gets an answer or is hung up on, however many
   others connect, quit or get refused.  Two things alone can leave it in the
   backlog: an accept that failed while the server runs, and one client that
   connects and keeps silent for good. *)
EveryHandshakeAnswered ==
    \A c \in Conn : clientPc[c] = "waiting" ~>
        \/ clientPc[c] # "waiting" \/ ~up
        \/ sock[c] = "none" /\ (accPc = "failed" \/ []SilentHolds)

\* Client c shows nobody that has the id of d, except as a ghost.
ForgottenBy(c, d) ==
    clientPc[c] = "running" /\ playerId[d] \in roster[c] => playerId[d] \in missed[c]

(* A player that quits is eventually forgotten by the server's world and by
   every client, unless the server stops first. *)
LeaversForgotten ==
    \A d \in Conn :
        clientPc[d] = "gone" /\ handler[d] = "read" /\ d \notin mapless
            ~> \/ mainPc \in {"kick", "join", "destroyed"}
               \/ /\ playerId[d] \notin humanoids
                  /\ \A c \in Conn : ForgottenBy(c, d)

(* Server::stop comes to an end, in whatever it met the accept thread it waits
   for, unless that thread reads from a client that keeps silent for good.
   (It ends in std::terminate when kickAll meets a socket that a client's
   thread has closed.) *)
StopEnds == mainPc = "kick" ~> (mainPc = "destroyed" \/ ~up \/ []SilentHolds)

(* The accept thread never gets stuck but on a silent client, and does not end
   before the server stops unless accept fails: it answers whoever comes. *)
AcceptThreadGoesOn == EveryHandshakeAnswered /\ StopEnds

-----------------------------------------------------------------------------
(* The inductive invariant behind UniquePlayers, NoOrphans and              *)
(* HandshakeInOrder.                                                        *)

\* Which thread has a connection in its hands, and where.
Joining(c) == accConn = c /\ accPc \in {"handshake", "snapshot", "emplace"}
Joined(c)  == accConn = c /\ accPc \in {"announce", "callback"}
Custody ==
    \A c \in Conn :
        /\ sock[c] = "none" => handler[c] = "none" /\ accConn # c
        /\ sock[c] = "open" => accConn = c \/ handler[c] = "read"
        /\ Joining(c) => sock[c] = "open" /\ c \notin tcpClients
        /\ accConn = c => handler[c] = "none"
        /\ c \in tcpClients <=> Joined(c) \/ handler[c] \in {"read", "erase"}

\* Ids are drawn once; nicknames are compared before a connection is registered
\* and by the only thread that registers.
Distinct ==
    /\ \A c \in Conn :
          /\ playerId[c] < nextPlayerId
          /\ clientPc[c] \in {"idle", "connected"} => nickname[c] = NoInfo
          /\ c \in tcpClients \/ (Joining(c) /\ accPc # "handshake")
                => playerId[c] # 0 /\ nickname[c] # NoInfo
          /\ Joining(c) /\ accPc # "handshake"
                => \A d \in tcpClients : nickname[d].nick # nickname[c].nick
    /\ \A c, d \in Conn :
          c # d => playerId[c] # playerId[d] \/ playerId[c] = 0
    /\ \A c, d \in tcpClients : c # d => nickname[c].nick # nickname[d].nick

\* How far the handshake of a client that waits for it has got.
Handshakes ==
    \A c \in Conn :
        /\ sock[c] = "none" => queue[c] = <<>>
        /\ clientPc[c] \in {"idle", "connected", "waiting"} =>
              /\ HandshakePrefix(queue[c])
              /\ Joining(c) /\ accPc = "handshake" => queue[c] = <<>>
              /\ Joining(c) /\ accPc = "snapshot" => AcceptOnly(queue[c])
              /\ (Joining(c) /\ accPc = "emplace") \/ c \in tcpClients => Complete(queue[c])

IInv == TypeOK /\ Custody /\ Distinct /\ Handshakes

\* The abstract state of a connection.  A player that was sent the empty map of
\* a server still starting up is a player without a humanoid: its events may
\* have met callbacks not set yet.
JoinQueued(c) ==
    \E i \in 1..Len(batch \o playerEvents) :
        (batch \o playerEvents)[i] = [joined |-> TRUE, id |-> playerId[c]]
WasRegistered(c) == handler[c] # "none" \/ (accConn = c /\ accPc \in {"announce", "callback"})

AbstractSeat(c) ==
    IF c \in tcpClients THEN "registered"
    ELSE IF WasRegistered(c) THEN "left" ELSE "new"
AbstractName(c) == IF WasRegistered(c) THEN nickname[c].nick ELSE "none"
AbstractAvatar(c) ==
    IF c \in mapless \/ handler[c] = "none" \/ JoinQueued(c) THEN "absent"
    ELSE IF playerId[c] \in humanoids THEN "present" ELSE "removed"

M == INSTANCE Membership WITH
        Player <- Conn, NoNick <- "none",
        seat   <- [c \in Conn |-> AbstractSeat(c)],
        name   <- [c \in Conn |-> AbstractName(c)],
        avatar <- [c \in Conn |-> AbstractAvatar(c)]

(* Session implements Membership: registrations, nicknames and the humanoids
   of the world change only as Membership allows. *)
ImplementsMembership == M!Spec

=============================================================================
