---------------------------- MODULE ClientLifecycle ----------------------------
(***************************************************************************)
(* The life of a net::Client inside the game: GameClient's main thread     *)
(* starts it, plays, and destroys it; three threads (TCP receiver, UDP     *)
(* receiver, statistics) run in between and call back into services that   *)
(* belong to the game.  One flag, m_running, is written by stop() and by   *)
(* the UDP receiver when it ends.                                          *)
(*                                                                         *)
(* stop() runs up to three times, for ~GameClient, ~ClientReplicator and   *)
(* ~Client.  The services are members declared after the replicator, so    *)
(* they are destroyed between the first and the second call.  Messages     *)
(* are abstracted to what the receivers do with them, the byte counters    *)
(* and the ping to nothing.                                                *)
(***************************************************************************)
EXTENDS Naturals, Sequences

CONSTANTS
    MaxMessages,  \* bound on the TCP messages the server sends
    HelloTicks,   \* turns of the statistics thread between two hellos
    WarnAfter,    \* hellos without an answer before the player is told
    AllowFault    \* whether a UDP receive may fail by itself

ASSUME LifecycleAssumption ==
    /\ MaxMessages \in Nat
    /\ HelloTicks \in Nat \ {0}
    /\ WarnAfter \in Nat \ {0}
    /\ AllowFault \in BOOLEAN

VARIABLES
    main,      \* GameClient's thread
    caller,    \* whose destructor runs: "game", "replicator" or "client"
    alive,     \* the services the callbacks use have not been destroyed
    running,   \* Client::m_running
    joinable,  \* the std::thread members that hold a thread
    tcp, udp, stats,  \* the three threads
    tcpSock, udpSock, \* "open", "closed"
    inbox,     \* TCP messages on their way to the client
    sent,      \* TCP messages the server sent, for MaxMessages
    hungUp,    \* the server closed the connection
    confirmed, \* m_udpConfirmed
    ticks, attempts,  \* helloTicks, helloAttempts
    told,      \* what the message callback showed the player
    faulted    \* history: a UDP receive failed on an open socket

threadVars == <<joinable, tcp, udp, stats>>
netVars    == <<inbox, sent, hungUp>>
helloVars  == <<confirmed, ticks, attempts>>
vars == <<main, caller, alive, running, threadVars, tcpSock, udpSock, netVars,
          helloVars, told, faulted>>

Over == main \in {"gone", "aborted"}
Idle == {"none", "ended"}

Init ==
    /\ main = "ready" /\ caller = "game" /\ alive = TRUE
    /\ running = FALSE
    /\ joinable = {}
    /\ tcp = "none" /\ udp = "none" /\ stats = "none"
    /\ tcpSock = "open" /\ udpSock = "open"
    /\ inbox = <<>> /\ sent = 0 /\ hungUp = FALSE
    /\ confirmed = FALSE /\ ticks = 0 /\ attempts = 0
    /\ told = {} /\ faulted = FALSE

-----------------------------------------------------------------------------
(* The main thread: start(). *)

MainGoes(from, to) == main = from /\ main' = to

\* Something after createClient throws: ~GameClient never runs, its members'
\* destructors do.
ConstructionFails ==
    /\ MainGoes("ready", "stopped")
    /\ UNCHANGED <<caller, alive, running, threadVars, tcpSock, udpSock,
                   netVars, helloVars, told, faulted>>

StartBegins ==
    /\ MainGoes("ready", "callbacks")
    /\ running' = TRUE
    /\ UNCHANGED <<caller, alive, threadVars, tcpSock, udpSock, netVars,
                   helloVars, told, faulted>>

\* The cached players and the map go through the callbacks on this thread; a
\* map that cannot be read throws out of start().
StartCallbacks ==
    /\ main = "callbacks"
    /\ main' \in {"spawnTcp", "stop"}
    /\ UNCHANGED <<caller, alive, running, threadVars, tcpSock, udpSock,
                   netVars, helloVars, told, faulted>>

SpawnTcp ==
    /\ MainGoes("spawnTcp", "spawnUdp")
    /\ tcp' = "test" /\ joinable' = joinable \cup {"tcp"}
    /\ UNCHANGED <<caller, alive, running, udp, stats, tcpSock, udpSock,
                   netVars, helloVars, told, faulted>>

SpawnUdp ==
    /\ MainGoes("spawnUdp", "spawnStats")
    /\ udp' = "test" /\ joinable' = joinable \cup {"udp"}
    /\ UNCHANGED <<caller, alive, running, tcp, stats, tcpSock, udpSock,
                   netVars, helloVars, told, faulted>>

SpawnStats ==
    /\ MainGoes("spawnStats", "frames")
    /\ stats' = "loop" /\ joinable' = joinable \cup {"stats"}
    /\ UNCHANGED <<caller, alive, running, tcp, udp, tcpSock, udpSock,
                   netVars, helloVars, told, faulted>>

\* The window closes, a signal arrives or a frame throws.
PlayEnds ==
    /\ MainGoes("frames", "stop")
    /\ UNCHANGED <<caller, alive, running, threadVars, tcpSock, udpSock,
                   netVars, helloVars, told, faulted>>

-----------------------------------------------------------------------------
(* The main thread: stop() and the destructors. *)

StopIgnored ==
    /\ ~running
    /\ MainGoes("stop", "stopped")
    /\ UNCHANGED <<caller, alive, running, threadVars, tcpSock, udpSock,
                   netVars, helloVars, told, faulted>>

StopBegins ==
    /\ running
    /\ MainGoes("stop", "closeUdp")
    /\ running' = FALSE
    /\ UNCHANGED <<caller, alive, threadVars, tcpSock, udpSock, netVars,
                   helloVars, told, faulted>>

TcpClosed == "closed"

CloseUdp ==
    /\ MainGoes("closeUdp", "closeTcp")
    /\ udpSock' = "closed"
    /\ UNCHANGED <<caller, alive, running, threadVars, tcpSock, netVars,
                   helloVars, told, faulted>>

CloseTcp ==
    /\ MainGoes("closeTcp", "joinUdp")
    /\ tcpSock' = TcpClosed
    /\ UNCHANGED <<caller, alive, running, threadVars, udpSock, netVars,
                   helloVars, told, faulted>>

\* join() returns when the thread's function has; a member without a thread
\* is skipped.
\* Defect: joins without waiting, as detach() would.
Detached(name, pc) == TRUE
Joined(name, pc) == name \in joinable => pc = "ended"

Join(name, pc, from, to) ==
    /\ MainGoes(from, to)
    /\ Joined(name, pc)
    /\ joinable' = joinable \ {name}
    /\ UNCHANGED <<caller, alive, running, tcp, udp, stats, tcpSock, udpSock,
                   netVars, helloVars, told, faulted>>

Joins ==
    \/ Join("udp", udp, "joinUdp", "joinTcp")
    \/ Join("tcp", tcp, "joinTcp", "joinStats")
    \/ Join("stats", stats, "joinStats", "stopped")

\* ~GameClient is done; the physics world, the humanoids and the tree go.
ServicesDestroyed ==
    /\ caller = "game"
    /\ MainGoes("stopped", "stop")
    /\ caller' = "replicator" /\ alive' = FALSE
    /\ UNCHANGED <<running, threadVars, tcpSock, udpSock, netVars, helloVars,
                   told, faulted>>

ReplicatorDone ==
    /\ caller = "replicator"
    /\ MainGoes("stopped", "stop")
    /\ caller' = "client"
    /\ UNCHANGED <<alive, running, threadVars, tcpSock, udpSock, netVars,
                   helloVars, told, faulted>>

\* The destructor of a joinable std::thread ends the process.
ClientDestroyed ==
    /\ caller = "client" /\ main = "stopped"
    /\ main' = IF joinable = {} THEN "gone" ELSE "aborted"
    /\ UNCHANGED <<caller, alive, running, threadVars, tcpSock, udpSock,
                   netVars, helloVars, told, faulted>>

Main ==
    \/ ConstructionFails \/ StartBegins \/ StartCallbacks
    \/ SpawnTcp \/ SpawnUdp \/ SpawnStats \/ PlayEnds
    \/ StopIgnored \/ StopBegins \/ CloseUdp \/ CloseTcp \/ Joins
    \/ ServicesDestroyed \/ ReplicatorDone \/ ClientDestroyed

-----------------------------------------------------------------------------
(* The TCP receiver. *)

TcpGoes(from, to) ==
    /\ ~Over
    /\ tcp = from /\ tcp' = to
    /\ UNCHANGED <<main, caller, alive, running, joinable, udp, stats, tcpSock,
                   udpSock, sent, hungUp, helloVars, faulted>>

TcpTests ==
    /\ TcpGoes("test", IF running THEN "read" ELSE "ended")
    /\ UNCHANGED <<inbox, told>>

\* What arrived before the close may still be read after it.
TcpReads ==
    /\ inbox # <<>>
    /\ TcpGoes("read", Head(inbox))
    /\ inbox' = Tail(inbox)
    /\ UNCHANGED told

TcpReadFails ==
    /\ tcpSock = "closed" \/ (hungUp /\ inbox = <<>>)
    /\ TcpGoes("read", "failed")
    /\ UNCHANGED <<inbox, told>>

\* Defect: the loss is shown only when the player has left anyway.
ShownTooLate == ~running
LossShown == running

TcpReports ==
    /\ TcpGoes("failed", "ended")
    /\ told' = IF LossShown THEN told \cup {"lost"} ELSE told
    /\ UNCHANGED inbox

\* Joined, left and other reliable messages call into the services; a payload
\* shorter than a header calls nothing.
TcpCallback ==
    /\ TcpGoes("call", "test") \/ TcpGoes("short", "test")
    /\ UNCHANGED <<inbox, told>>

TcpKicked ==
    /\ TcpGoes("kick", "ended")
    /\ told' = told \cup {"kicked"}
    /\ UNCHANGED inbox

TcpThread == TcpTests \/ TcpReads \/ TcpReadFails \/ TcpReports
             \/ TcpCallback \/ TcpKicked

-----------------------------------------------------------------------------
(* The UDP receiver. *)

UdpGoes(from, to) ==
    /\ ~Over
    /\ udp = from /\ udp' = to
    /\ UNCHANGED <<main, caller, alive, joinable, tcp, stats, tcpSock, udpSock,
                   netVars, ticks, attempts, told>>

UdpTests ==
    /\ UdpGoes("test", IF running THEN "receive" ELSE "leaving")
    /\ UNCHANGED <<running, confirmed, faulted>>

\* An acknowledged hello, states for the callback, or anything dropped.
UdpReceives ==
    /\ udpSock = "open"
    /\ \/ UdpGoes("receive", "test") /\ confirmed' \in {TRUE, confirmed}
       \/ UdpGoes("receive", "call") /\ UNCHANGED confirmed
    /\ UNCHANGED <<running, faulted>>

UdpCallback ==
    /\ UdpGoes("call", "test")
    /\ UNCHANGED <<running, confirmed, faulted>>

\* A closed socket wakes the receiver, with an error or with no bytes.
UdpWoken ==
    /\ udpSock = "closed"
    /\ UdpGoes("receive", "leaving") \/ UdpGoes("receive", "test")
    /\ UNCHANGED <<running, confirmed, faulted>>

UdpFails ==
    /\ AllowFault /\ udpSock = "open"
    /\ UdpGoes("receive", "leaving")
    /\ faulted' = TRUE
    /\ UNCHANGED <<running, confirmed>>

UdpEnds ==
    /\ UdpGoes("leaving", "ended")
    /\ running' = FALSE
    /\ UNCHANGED <<confirmed, faulted>>

UdpThread == UdpTests \/ UdpReceives \/ UdpCallback \/ UdpWoken \/ UdpFails
             \/ UdpEnds

-----------------------------------------------------------------------------
(* The statistics thread.  Attempts are counted up to the one that warns and *)
(* one further.                                                              *)

Counted(n) == IF n <= WarnAfter THEN n + 1 ELSE n

Hello ==
    IF ~confirmed /\ ticks + 1 >= HelloTicks
    THEN /\ ticks' = 0
         /\ attempts' = Counted(attempts)
         /\ told' = IF attempts' = WarnAfter THEN told \cup {"noReply"} ELSE told
    ELSE /\ ticks' = IF confirmed THEN ticks ELSE ticks + 1
         /\ UNCHANGED <<attempts, told>>

StatsTurns ==
    /\ ~Over /\ running /\ stats = "loop"
    /\ Hello
    /\ UNCHANGED <<main, caller, alive, running, threadVars, tcpSock, udpSock,
                   netVars, confirmed, faulted>>

StatsEnds ==
    /\ ~Over /\ ~running /\ stats = "loop"
    /\ stats' = "ended"
    /\ UNCHANGED <<main, caller, alive, running, joinable, tcp, udp, tcpSock,
                   udpSock, netVars, helloVars, told, faulted>>

StatsThread == StatsTurns \/ StatsEnds

-----------------------------------------------------------------------------
(* The server, as far as this client sees it. *)

ServerSends(kind) ==
    /\ ~Over /\ ~hungUp /\ sent < MaxMessages
    /\ inbox' = Append(inbox, kind) /\ sent' = sent + 1
    /\ UNCHANGED <<main, caller, alive, running, threadVars, tcpSock, udpSock,
                   hungUp, helloVars, told, faulted>>

ServerHangsUp ==
    /\ ~Over /\ ~hungUp
    /\ hungUp' = TRUE
    /\ UNCHANGED <<main, caller, alive, running, threadVars, tcpSock, udpSock,
                   inbox, sent, helloVars, told, faulted>>

Server == ServerHangsUp \/ \E kind \in {"call", "short", "kick"} : ServerSends(kind)

Ended == Over /\ UNCHANGED vars

Next == Main \/ TcpThread \/ UdpThread \/ StatsThread \/ Server \/ Ended

\* The operating system runs every thread; UDP datagrams, the server's
\* messages and the end of play are promised by nobody.
Fairness ==
    /\ WF_vars(Main /\ main \notin {"ready", "frames"})
    /\ WF_vars(TcpThread)
    /\ WF_vars(UdpThread /\ udpSock = "closed")
    /\ WF_vars(UdpThread /\ udp # "receive")
    /\ WF_vars(StatsThread)

Spec == Init /\ [][Next]_vars /\ Fairness

-----------------------------------------------------------------------------
TypeOK ==
    /\ main \in {"ready", "callbacks", "spawnTcp", "spawnUdp", "spawnStats",
                 "frames", "stop", "closeUdp", "closeTcp", "joinUdp",
                 "joinTcp", "joinStats", "stopped", "gone", "aborted"}
    /\ caller \in {"game", "replicator", "client"}
    /\ alive \in BOOLEAN /\ running \in BOOLEAN
    /\ joinable \subseteq {"tcp", "udp", "stats"}
    /\ tcp \in {"none", "test", "read", "call", "short", "kick", "failed", "ended"}
    /\ udp \in {"none", "test", "receive", "call", "leaving", "ended"}
    /\ stats \in {"none", "loop", "ended"}
    /\ tcpSock \in {"open", "closed"} /\ udpSock \in {"open", "closed"}
    /\ Len(inbox) <= sent /\ sent <= MaxMessages
    /\ ticks \in 0..(HelloTicks - 1) /\ attempts \in 0..(WarnAfter + 1)
    /\ told \subseteq {"lost", "kicked", "noReply"}

\* The services are destroyed only after the threads that call into them have
\* ended.  The one exception the code has: the UDP loop ended by itself, so
\* stop() returned at once and the TCP receiver may still be at work; the UDP
\* receiver never is.
ServicesOutliveCallers ==
    ~alive => /\ udp \in Idle
              /\ tcp \in Idle \/ faulted

\* The process is aborted by a std::thread destroyed before it was joined only
\* if a UDP receive failed on an open socket.
AbortsOnlyAfterFault == main = "aborted" => faulted

\* However play ends, nobody calls into what is gone and nothing aborts, unless
\* a UDP receive failed before.
CleanEnd == ServicesOutliveCallers /\ AbortsOnlyAfterFault

\* During play the TCP receiver never ends without the player being told why,
\* unless the UDP receiver ended first and took m_running with it.
LossIsTold ==
    main = "frames" /\ tcp = "ended" =>
        told \cap {"lost", "kicked"} # {} \/ udp = "ended"

\* Leaving always comes to an end, whatever the threads are blocked in: the
\* closed sockets wake both receivers and every join returns.
LeavingEnds == main = "stop" ~> Over

\* During play a hello is answered, or the player is told that none is, unless
\* the client stops first.
AnsweredOrTold ==
    main = "frames" ~> confirmed \/ "noReply" \in told \/ ~running
================================================================================
