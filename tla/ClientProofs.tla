---------------------------- MODULE ClientProofs ----------------------------
(***************************************************************************)
(* The client program around its game.                                     *)
(* ClientLifecycle, for every number of messages, every hello period and   *)
(* with or without a failing UDP receive: the services outlive the threads *)
(* that call into them, the process is aborted only after such a failure,  *)
(* and a player who loses the server during play is told.                  *)
(* StudioPlay, for every map: parts are away from their bodies only in a   *)
(* drag, and Stop restores what Play saved.                                *)
(* InputRouting, for every debounce, any length of the event queue and any *)
(* number of presses: a press of a shortcut fires once, unless something   *)
(* took it, and the window and ImGui agree about what is down.             *)
(***************************************************************************)
EXTENDS ClientLifecycle, StudioPlay, InputRouting, TLAPS,
        FiniteSetTheorems, SequenceTheorems, WellFoundedInduction

-----------------------------------------------------------------------------
(* ClientLifecycle: what main has reached, and what still runs.             *)

\* The points of the main thread from which play may still be running.
Starting == {"callbacks", "spawnTcp", "spawnUdp", "spawnStats", "frames"}
Stopping == {"closeUdp", "closeTcp", "joinUdp", "joinTcp", "joinStats", "stopped"}

\* The part of the type invariant the argument needs.
PcOK ==
    /\ main \in {"ready", "stop", "gone", "aborted"} \cup Starting \cup Stopping
    /\ caller \in {"game", "replicator", "client"}
    /\ alive \in BOOLEAN /\ running \in BOOLEAN /\ faulted \in BOOLEAN
    /\ joinable \subseteq {"tcp", "udp", "stats"}

\* A thread that runs is held by its member, and members are filled in order.
Held ==
    /\ tcp \notin Idle => "tcp" \in joinable
    /\ udp \notin Idle => "udp" \in joinable
    /\ stats \notin Idle => "stats" \in joinable
    /\ main \in {"ready", "callbacks", "spawnTcp"} =>
           joinable = {} /\ tcp = "none" /\ udp = "none"
    /\ main = "spawnUdp" => udp = "none"

\* Destructors run in order, and nothing starts the client a second time.
Stages ==
    /\ alive <=> caller = "game"
    /\ main \in {"ready"} \cup Starting => caller = "game"
    /\ main \in {"ready", "gone", "aborted"} \cup Stopping => ~running
    /\ caller # "game" => ~running

\* Until the first stop(), m_running is cleared by the end of the UDP loop
\* only, and that loop ends only by a fault.
FirstStop ==
    /\ main = "ready" => udpSock = "open"
    /\ (main \in Starting \/ (main = "stop" /\ caller = "game")) =>
           /\ udpSock = "open"
           /\ running \/ (udp = "ended" /\ faulted)
           /\ udp \in {"leaving", "ended"} => faulted

\* What stop() has joined by the time it returns.
Joining ==
    /\ main = "joinTcp" => "udp" \notin joinable
    /\ main = "joinStats" => joinable \subseteq {"stats"}
    /\ (main = "stopped" \/ caller # "game") =>
           /\ udp \in Idle
           /\ joinable = {} \/ faulted
    /\ main = "aborted" => joinable # {}
    /\ main \in {"gone", "aborted"} => caller # "game"

IInv == PcOK /\ Held /\ Stages /\ FirstStop /\ Joining

LEMMA InitIInv == Init => IInv
BY DEF Init, IInv, PcOK, Held, Stages, FirstStop, Joining, Starting, Stopping, Idle

LEMMA MainKeeps == IInv /\ Main => IInv'
<1> SUFFICES ASSUME IInv, Main PROVE IInv'
    OBVIOUS
<1> USE DEF IInv, PcOK, Held, Stages, FirstStop, Joining, Starting, Stopping,
            Idle, MainGoes, netVars, helloVars, threadVars
<1>1. CASE ConstructionFails
    BY <1>1 DEF ConstructionFails
<1>2. CASE StartBegins
    BY <1>2 DEF StartBegins
<1>3. CASE StartCallbacks
    BY <1>3 DEF StartCallbacks
<1>4. CASE SpawnTcp
    BY <1>4 DEF SpawnTcp
<1>5. CASE SpawnUdp
    BY <1>5 DEF SpawnUdp
<1>6. CASE SpawnStats
    BY <1>6 DEF SpawnStats
<1>7. CASE PlayEnds
    BY <1>7 DEF PlayEnds
<1>8. CASE StopIgnored
    BY <1>8 DEF StopIgnored
<1>9. CASE StopBegins
    BY <1>9 DEF StopBegins
<1>10. CASE CloseUdp
    BY <1>10 DEF CloseUdp
<1>11. CASE CloseTcp
    BY <1>11 DEF CloseTcp
<1>12. CASE Joins
    <2>1. CASE Join("udp", udp, "joinUdp", "joinTcp")
        BY <2>1 DEF Join, Joined
    <2>2. CASE Join("tcp", tcp, "joinTcp", "joinStats")
        BY <2>2 DEF Join, Joined
    <2>3. CASE Join("stats", stats, "joinStats", "stopped")
        BY <2>3 DEF Join, Joined
    <2> QED BY <1>12, <2>1, <2>2, <2>3 DEF Joins
<1>13. CASE ServicesDestroyed
    BY <1>13 DEF ServicesDestroyed
<1>14. CASE ReplicatorDone
    BY <1>14 DEF ReplicatorDone
<1>15. CASE ClientDestroyed
    BY <1>15 DEF ClientDestroyed
<1> QED BY <1>1, <1>2, <1>3, <1>4, <1>5, <1>6, <1>7, <1>8, <1>9, <1>10, <1>11,
           <1>12, <1>13, <1>14, <1>15 DEF Main

LEMMA TcpKeeps == IInv /\ TcpThread => IInv'
<1> SUFFICES ASSUME IInv, TcpThread PROVE IInv'
    OBVIOUS
<1>1. PICK from \in {"test", "read", "failed", "call", "short", "kick"} :
          \E to : TcpGoes(from, to)
    BY DEF TcpThread, TcpTests, TcpReads, TcpReadFails, TcpReports,
           TcpCallback, TcpKicked
<1> QED BY <1>1 DEF TcpGoes, IInv, PcOK, Held, Stages, FirstStop, Joining,
            Starting, Stopping, Idle, Over, helloVars

LEMMA UdpKeeps == IInv /\ UdpThread => IInv'
<1> SUFFICES ASSUME IInv, UdpThread PROVE IInv'
    OBVIOUS
<1> USE DEF IInv, PcOK, Held, Stages, FirstStop, Joining, Starting, Stopping,
            Idle, Over, UdpGoes, netVars
<1>1. CASE UdpTests
    BY <1>1 DEF UdpTests
<1>2. CASE UdpReceives
    BY ZenonT(40), <1>2 DEF UdpReceives
<1>3. CASE UdpCallback
    BY <1>3 DEF UdpCallback
<1>4. CASE UdpWoken
    BY <1>4 DEF UdpWoken
<1>5. CASE UdpFails
    BY <1>5 DEF UdpFails
<1>6. CASE UdpEnds
    BY <1>6 DEF UdpEnds
<1> QED BY <1>1, <1>2, <1>3, <1>4, <1>5, <1>6 DEF UdpThread

LEMMA RestKeeps == IInv /\ (StatsThread \/ Server \/ Ended) => IInv'
<1> SUFFICES ASSUME IInv, StatsThread \/ Server \/ Ended PROVE IInv'
    OBVIOUS
<1> USE DEF IInv, PcOK, Held, Stages, FirstStop, Joining, Starting, Stopping,
            Idle, Over, netVars, helloVars, threadVars
<1>1. CASE StatsTurns
    BY <1>1 DEF StatsTurns
<1>2. CASE StatsEnds
    BY <1>2 DEF StatsEnds
<1>3. CASE Server
    <2>1. UNCHANGED <<main, caller, alive, running, threadVars, udpSock, faulted>>
        BY <1>3 DEF Server, ServerHangsUp, ServerSends
    <2> QED BY <2>1
<1>4. CASE Ended
    BY <1>4 DEF Ended, vars
<1> QED BY <1>1, <1>2, <1>3, <1>4 DEF StatsThread

LEMMA StutterKeeps == IInv /\ UNCHANGED vars => IInv'
BY DEF vars, IInv, PcOK, Held, Stages, FirstStop, Joining, Starting, Stopping,
       Idle, netVars, helloVars, threadVars

LEMMA Inductive == Spec => []IInv
<1>1. IInv /\ [Next]_vars => IInv'
    BY MainKeeps, TcpKeeps, UdpKeeps, RestKeeps, StutterKeeps DEF Next
<1> QED BY <1>1, InitIInv, PTL DEF Spec

\* The services a callback uses (client_replicator.cpp 57-175) are destroyed
\* only when no receiver can call them, unless a UDP receive failed before.
THEOREM CallersEndFirst == Spec => []ServicesOutliveCallers
<1>1. IInv => ServicesOutliveCallers
    BY DEF IInv, PcOK, Held, Stages, Joining, ServicesOutliveCallers, Idle
<1> QED BY <1>1, Inductive, PTL

\* ~Client (client.cpp 135) finds a joinable thread only after a fault.
THEOREM OnlyFaultsAbort == Spec => []AbortsOnlyAfterFault
<1>1. IInv => AbortsOnlyAfterFault
    BY DEF IInv, Joining, AbortsOnlyAfterFault
<1> QED BY <1>1, Inductive, PTL

\* The client's end is clean: no call into what is gone, and no abort, unless a
\* UDP receive failed before.
THEOREM AlwaysCleanEnd == Spec => []CleanEnd
<1>1. ServicesOutliveCallers /\ AbortsOnlyAfterFault => CleanEnd
    BY DEF CleanEnd
<1> QED BY <1>1, CallersEndFirst, OnlyFaultsAbort, PTL

-----------------------------------------------------------------------------
(* Types, and what the player is told.                                      *)

Kinds == {"call", "short", "kick"}

\* What is on its way to the client is a message, and no more than was sent.
Types == TypeOK /\ inbox \in Seq(Kinds) /\ sent \in Nat

\* While play may be running, a TCP receiver that ended has told the player
\* why, unless the UDP receiver ended before it and took m_running with it.
Loss ==
    main \in Starting /\ tcp = "ended" =>
        told \cap {"lost", "kicked"} # {} \/ udp = "ended"

LEMMA TypesAtFirst == Init => Types /\ Loss
<1> SUFFICES ASSUME Init PROVE Types /\ Loss
    OBVIOUS
<1>1. <<>> \in Seq(Kinds) /\ Len(<<>>) = 0
    OBVIOUS
<1>2. inbox \in Seq(Kinds) /\ Len(inbox) = 0
    BY <1>1 DEF Init
<1>3. 0 \in 0..(HelloTicks - 1) /\ 0 \in 0..(WarnAfter + 1) /\ 0 <= MaxMessages
    BY LifecycleAssumption
<1>4. TypeOK
    <2>1. Len(inbox) <= sent /\ sent <= MaxMessages
        BY <1>2, <1>3 DEF Init
    <2>2. ticks \in 0..(HelloTicks - 1) /\ attempts \in 0..(WarnAfter + 1)
        BY <1>3 DEF Init
    <2> QED BY <2>1, <2>2 DEF Init, TypeOK
<1> QED BY <1>2, <1>4 DEF Init, Types, Loss, Starting

LEMMA MainTypes == Types /\ Main => Types'
<1> SUFFICES ASSUME Types, Main PROVE Types'
    OBVIOUS
<1>1. /\ UNCHANGED <<netVars, helloVars, told>>
      /\ main' \in {"ready", "callbacks", "spawnTcp", "spawnUdp", "spawnStats",
                    "frames", "stop", "closeUdp", "closeTcp", "joinUdp",
                    "joinTcp", "joinStats", "stopped", "gone", "aborted"}
      /\ caller' \in {"game", "replicator", "client"}
      /\ alive' \in BOOLEAN /\ running' \in BOOLEAN
      /\ joinable' \subseteq {"tcp", "udp", "stats"}
      /\ tcp' \in {tcp, "test"} /\ udp' \in {udp, "test"} /\ stats' \in {stats, "loop"}
      /\ tcpSock' \in {tcpSock, "closed"} /\ udpSock' \in {udpSock, "closed"}
    BY DEF Types, TypeOK, Main, ConstructionFails, StartBegins, StartCallbacks, SpawnTcp,
           SpawnUdp, SpawnStats, PlayEnds, StopIgnored, StopBegins, CloseUdp, CloseTcp,
           Joins, Join, ServicesDestroyed, ReplicatorDone, ClientDestroyed, MainGoes,
           TcpClosed, threadVars, netVars, helloVars
<1> QED BY <1>1 DEF Types, TypeOK, netVars, helloVars

LEMMA TcpTypes == Types /\ TcpThread => Types'
<1> SUFFICES ASSUME Types, TcpThread PROVE Types'
    OBVIOUS
<1> USE DEF Types, TcpGoes, helloVars
<1>0. UNCHANGED <<main, caller, alive, running, joinable, udp, stats, tcpSock,
                  udpSock, sent, hungUp, helloVars, faulted>>
    BY DEF TcpThread, TcpTests, TcpReads, TcpReadFails, TcpReports, TcpCallback, TcpKicked
<1>1. CASE TcpReads
    <2>1. /\ Head(inbox) \in Kinds /\ Tail(inbox) \in Seq(Kinds)
          /\ Len(Tail(inbox)) <= Len(inbox)
        BY <1>1 DEF TcpReads
    <2>2. tcp' \in Kinds /\ inbox' \in Seq(Kinds) /\ Len(inbox') <= sent' /\ told' = told
        BY <1>0, <1>1, <2>1 DEF TcpReads, TypeOK
    <2> QED BY <1>0, <2>2 DEF TypeOK, Kinds
<1>2. CASE TcpTests \/ TcpReadFails \/ TcpReports \/ TcpCallback \/ TcpKicked
    <2>1. /\ tcp' \in {"test", "read", "failed", "ended"} /\ inbox' = inbox
          /\ told' \in {told, told \cup {"lost"}, told \cup {"kicked"}}
        BY <1>2 DEF TcpTests, TcpReadFails, TcpReports, TcpCallback, TcpKicked
    <2> QED BY <1>0, <2>1 DEF TypeOK
<1> QED BY <1>1, <1>2 DEF TcpThread

LEMMA UdpTypes == Types /\ UdpThread => Types'
<1> SUFFICES ASSUME Types, UdpThread PROVE Types'
    OBVIOUS
<1>1. /\ UNCHANGED <<main, caller, alive, joinable, tcp, stats, tcpSock, udpSock,
                     netVars, ticks, attempts, told>>
      /\ udp' \in {"test", "receive", "call", "leaving", "ended"}
      /\ running' \in BOOLEAN
    BY DEF Types, TypeOK, UdpThread, UdpTests, UdpReceives, UdpCallback, UdpWoken,
           UdpFails, UdpEnds, UdpGoes
<1> QED BY <1>1 DEF Types, TypeOK, netVars

LEMMA StatsTypes == Types /\ StatsThread => Types'
<1> SUFFICES ASSUME Types, StatsThread PROVE Types'
    OBVIOUS
<1> USE LifecycleAssumption DEF Types, threadVars, netVars
<1>1. CASE StatsTurns
    <2>1. ticks' \in 0..(HelloTicks - 1)
        BY <1>1 DEF StatsTurns, Hello, TypeOK
    <2>2. attempts' \in 0..(WarnAfter + 1)
        BY <1>1 DEF StatsTurns, Hello, Counted, TypeOK
    <2>3. told' \subseteq {"lost", "kicked", "noReply"}
        BY <1>1 DEF StatsTurns, Hello, TypeOK
    <2> QED BY <1>1, <2>1, <2>2, <2>3 DEF StatsTurns, TypeOK
<1>2. CASE StatsEnds
    BY <1>2 DEF StatsEnds, TypeOK, helloVars
<1> QED BY <1>1, <1>2 DEF StatsThread

LEMMA ServerTypes == Types /\ Server => Types'
<1> SUFFICES ASSUME Types, Server PROVE Types'
    OBVIOUS
<1> USE LifecycleAssumption DEF Types, threadVars, helloVars
<1>1. CASE ServerHangsUp
    BY <1>1 DEF ServerHangsUp, TypeOK
<1>2. ASSUME NEW kind \in {"call", "short", "kick"}, ServerSends(kind) PROVE Types'
    <2>1. /\ Append(inbox, kind) \in Seq(Kinds)
          /\ Len(Append(inbox, kind)) = Len(inbox) + 1
        BY DEF Kinds
    <2>2. inbox' \in Seq(Kinds) /\ Len(inbox') <= sent' /\ sent' <= MaxMessages /\ sent' \in Nat
        BY <1>2, <2>1 DEF ServerSends, TypeOK
    <2> QED BY <1>2, <2>2 DEF ServerSends, TypeOK
<1> QED BY <1>1, <1>2 DEF Server

LEMMA LossKeeps == Types /\ IInv /\ Loss /\ [Next]_vars => Loss'
<1> SUFFICES ASSUME Types, IInv, Loss, [Next]_vars PROVE Loss'
    OBVIOUS
<1> USE DEF Loss, Starting
<1>1. CASE Main
    <2>1. told' = told
        BY <1>1 DEF Main, ConstructionFails, StartBegins, StartCallbacks, SpawnTcp,
           SpawnUdp, SpawnStats, PlayEnds, StopIgnored, StopBegins, CloseUdp, CloseTcp,
           Joins, Join, ServicesDestroyed, ReplicatorDone, ClientDestroyed
    <2>2. main' \in Starting => \/ main \in Starting /\ tcp' = tcp /\ udp' = udp
                                \/ main = "ready" /\ tcp' = tcp
                                \/ main = "spawnTcp" /\ tcp' = "test"
                                \/ main = "spawnUdp" /\ tcp' = tcp
        BY <1>1 DEF Main, ConstructionFails, StartBegins, StartCallbacks, SpawnTcp,
           SpawnUdp, SpawnStats, PlayEnds, StopIgnored, StopBegins, CloseUdp, CloseTcp,
           Joins, Join, ServicesDestroyed, ReplicatorDone, ClientDestroyed, MainGoes,
           threadVars
    <2> QED BY <2>1, <2>2 DEF IInv, Held, Idle
<1>2. CASE TcpThread
    <2>1. main \in Starting => running \/ udp = "ended"
        BY DEF IInv, FirstStop
    <2>2. UNCHANGED <<main, udp>> /\ told \subseteq told'
        BY <1>2 DEF TcpThread, TcpTests, TcpReads, TcpReadFails, TcpReports, TcpCallback,
                    TcpKicked, TcpGoes
    <2>3. tcp' = "ended" =>
              ~running \/ told' \cap {"lost", "kicked"} # {}
        <3>1. CASE TcpReads
            <4>1. Head(inbox) \in Kinds
                BY <3>1 DEF TcpReads, Types
            <4> QED BY <3>1, <4>1 DEF TcpReads, TcpGoes, Kinds
        <3>2. CASE TcpTests
            BY <3>2 DEF TcpTests, TcpGoes
        <3>3. CASE TcpReports
            BY <3>3 DEF TcpReports, LossShown
        <3>4. CASE TcpReadFails \/ TcpCallback
            BY <3>4 DEF TcpReadFails, TcpCallback, TcpGoes
        <3>5. CASE TcpKicked
            BY <3>5 DEF TcpKicked
        <3> QED BY <1>2, <3>1, <3>2, <3>3, <3>4, <3>5 DEF TcpThread
    <2> QED BY <2>1, <2>2, <2>3
<1>3. CASE UdpThread
    <2>1. UNCHANGED <<main, tcp, told>> /\ (udp = "ended" => udp' = "ended")
        BY <1>3 DEF UdpThread, UdpTests, UdpReceives, UdpCallback, UdpWoken, UdpFails,
                    UdpEnds, UdpGoes
    <2> QED BY <2>1
<1>4. CASE StatsThread \/ Server \/ Ended \/ UNCHANGED vars
    <2>1. UNCHANGED <<main, tcp, udp>> /\ told \subseteq told'
        BY <1>4 DEF StatsThread, StatsTurns, StatsEnds, Hello, Server, ServerHangsUp,
                    ServerSends, Ended, vars, threadVars, helloVars, netVars
    <2> QED BY <2>1
<1> QED BY <1>1, <1>2, <1>3, <1>4 DEF Next

\* The client's threads are where their code can be, and during play the TCP
\* receiver never ends without telling the player why, unless the UDP receiver
\* ended before it (client.cpp 395-470): for any number of messages, any hello
\* period, and with or without a fault.
THEOREM LossAlwaysTold == Spec => [](TypeOK /\ LossIsTold)
<1>1. Types /\ Next => Types'
    <2>1. Types /\ Ended => Types'
        BY DEF Types, TypeOK, Ended, vars, threadVars, helloVars, netVars
    <2> QED BY <2>1, MainTypes, TcpTypes, UdpTypes, StatsTypes, ServerTypes DEF Next
<1>2. Types /\ UNCHANGED vars => Types'
    BY DEF Types, TypeOK, vars, threadVars, helloVars, netVars
<1>3. Spec => []Types
    BY <1>1, <1>2, TypesAtFirst, PTL DEF Spec
<1>4. Spec => []Loss
    BY <1>3, TypesAtFirst, LossKeeps, Inductive, PTL DEF Spec
<1>5. Types /\ Loss => TypeOK /\ LossIsTold
    BY DEF Types, Loss, LossIsTold, Starting
<1> QED BY <1>3, <1>4, <1>5, PTL

-----------------------------------------------------------------------------
(* StudioPlay: a drag in hand, and the snapshot.                            *)

\* A part away from its body and not given up is in the target of a drag that
\* will be announced: between two frames the mouse still holds the gizmo.
InHand ==
    \A p \in Silent \ abandoned :
        /\ p \in Target /\ pending /\ wasUsing /\ ~playing
        /\ ~(selected = Model /\ op = "Scale")
        /\ phase = "event" => grabbed

\* While playing, what is saved for a part that was there at Play and has not
\* been destroyed is its place at Play, under the address it still has.
Snapshot ==
    playing => \A p \in Parts :
        before[p] # None => p \in there /\ saved[addr[p]] = before[p]

StudioInv == PlayTypeOK /\ InHand /\ Snapshot

LEMMA PlayInitInv == PlayInit => StudioInv
<1> SUFFICES ASSUME PlayInit PROVE StudioInv
    OBVIOUS
<1> USE PlayAssumption
<1>1. PlayTypeOK
    BY DEF PlayInit, PlayTypeOK, Nothing, Ops
<1>2. InHand
    BY DEF PlayInit, InHand, Silent
<1>3. Snapshot
    BY DEF PlayInit, Snapshot
<1> QED BY <1>1, <1>2, <1>3 DEF StudioInv

LEMMA PlayEventKeeps ==
    ASSUME StudioInv,
           \/ Quiet \/ Grab \/ LetGo
           \/ \E x \in Parts \cup {Model} : Select(x)
           \/ \E o \in Ops : Switch(o)
    PROVE  StudioInv'
<1> USE PlayAssumption DEF StudioInv, Handled, world, edit
<1>a. UNCHANGED <<there, pos, bodyPos, addr, saved, playing, before>>
    BY DEF Quiet, Grab, LetGo, Select, Switch
<1>b. Silent' = Silent
    BY <1>a DEF Silent
<1>c. Snapshot'
    BY <1>a DEF Snapshot
<1>1. CASE Quiet
    <2>1. PlayTypeOK'
        BY <1>1 DEF Quiet, PlayTypeOK
    <2>2. InHand'
        BY <1>1, <1>b DEF Quiet, InHand, Target
    <2> QED BY <1>c, <2>1, <2>2
<1>2. CASE Grab
    <2>1. PlayTypeOK'
        BY <1>2 DEF Grab, PlayTypeOK
    <2>2. InHand'
        BY <1>2, <1>b DEF Grab, InHand, Target
    <2> QED BY <1>c, <2>1, <2>2
<1>3. CASE LetGo
    <2>1. PlayTypeOK'
        BY <1>3 DEF LetGo, PlayTypeOK
    <2>2. InHand'
        BY <1>3, <1>b DEF LetGo, InHand, Target
    <2> QED BY <1>c, <2>1, <2>2
<1>4. ASSUME NEW x \in Parts \cup {Model}, Select(x) PROVE StudioInv'
    <2>1. PlayTypeOK'
        BY <1>4 DEF Select, PlayTypeOK
    <2>2. Silent \ abandoned = {}
        BY <1>4 DEF Select, InHand
    <2>3. InHand'
        BY <1>4, <1>b, <2>2 DEF Select, InHand
    <2> QED BY <1>c, <2>1, <2>3
<1>5. ASSUME NEW o \in Ops, Switch(o) PROVE StudioInv'
    <2>1. PlayTypeOK'
        BY <1>5 DEF Switch, PlayTypeOK, Silent
    <2>2. InHand'
        BY <1>5, <1>b DEF Switch, InHand, Target
    <2> QED BY <1>c, <2>1, <2>2
<1> QED BY <1>1, <1>2, <1>3, <1>4, <1>5

LEMMA PlayAndStopKeep ==
    ASSUME StudioInv, Play \/ PlayFails \/ Stop
    PROVE  StudioInv'
<1> USE PlayAssumption DEF StudioInv, Handled, world, edit
<1>1. CASE Play
    <2> DEFINE owner(a) == CHOOSE p \in there : addr[p] = a
    <2>0. /\ there \subseteq Parts /\ bodyPos \in [Parts -> Places]
          /\ pos \in [Parts -> Places]
          /\ \A p \in there : addr[p] \in Addrs
          /\ addr \in [Parts -> Addrs \cup {None}]
        BY DEF PlayTypeOK
    <2>1. \A a \in Addrs : (\E p \in there : addr[p] = a) => owner(a) \in there
        OBVIOUS
    <2>2. \A p \in there : owner(addr[p]) = p
        BY <2>0 DEF PlayTypeOK
    <2>3. \A p \in there : Saved[addr[p]] = bodyPos[p]
        BY <2>0, <2>2 DEF Saved
    <2>4. Saved \in [Addrs -> Places \cup {None}]
        BY <2>0, <2>1 DEF Saved
    <2>5. PlayTypeOK'
        BY <1>1, <2>0, <2>4 DEF Play, PlayTypeOK, Silent
    <2>6. InHand'
        BY <1>1 DEF Play, InHand, Silent
    <2>7. Snapshot'
        BY <1>1, <2>0, <2>3 DEF Play, Snapshot, Silent
    <2> QED BY <2>5, <2>6, <2>7
<1>2. CASE PlayFails
    <2>1. PlayTypeOK'
        BY <1>2 DEF PlayFails, PlayTypeOK
    <2>2. Silent' = {}
        BY <1>2 DEF PlayFails, PlayTypeOK, Silent
    <2>3. InHand' /\ Snapshot'
        BY <1>2, <2>2 DEF PlayFails, InHand, Snapshot
    <2> QED BY <2>1, <2>3
<1>3. CASE Stop
    <2>0. \A p \in Parts : StateOf(p) \in Places \cup {None}
        BY DEF StateOf, PlayTypeOK
    <2>1. RestoredParts \in [Parts -> Places] /\ RestoredBodies \in [Parts -> Places]
        BY <2>0 DEF RestoredParts, RestoredBodies, PlayTypeOK
    <2>2. PlayTypeOK'
        BY <1>3, <2>1 DEF Stop, PlayTypeOK
    <2>3. there \subseteq Parts
        BY DEF PlayTypeOK
    <2>4. \A p \in there : RestoredParts[p] # RestoredBodies[p] => p \in Silent
        BY <2>3 DEF RestoredParts, RestoredBodies, Silent
    <2>5. Silent \subseteq abandoned
        BY <1>3 DEF Stop, InHand
    <2>6. Silent' \subseteq abandoned'
        BY <1>3, <2>4, <2>5 DEF Stop, Silent
    <2>7. InHand' /\ Snapshot'
        BY <1>3, <2>6 DEF Stop, InHand, Snapshot
    <2> QED BY <2>2, <2>7
<1> QED BY <1>1, <1>2, <1>3

LEMMA PartEventKeeps ==
    ASSUME StudioInv,
           \/ \E x \in Parts \cup {Model} : Delete(x)
           \/ \E x \in Places : Edit(x)
           \/ \E x \in Places, a \in Addrs : Appear(x, a)
           \/ \E p \in Parts, x \in Places : Simulate(p, x)
           \/ \E p \in Parts : Fall(p)
    PROVE  StudioInv'
<1> USE PlayAssumption DEF StudioInv, Handled, world, edit
<1>g. ASSUME NEW x \in there, Gone(x), UNCHANGED <<pos, playing, saved>>
      PROVE  /\ Silent' = Silent \ {x}
             /\ there' \subseteq Parts
             /\ bodyPos' \in [Parts -> Places]
             /\ addr' \in [Parts -> Addrs \cup {None}]
             /\ before' \in [Parts -> Places \cup {None}]
             /\ \A p \in Parts : addr'[p] = None <=> p \notin there'
             /\ \A p, q \in there' : addr'[p] = addr'[q] => p = q
             /\ Snapshot'
    <2>0. there \subseteq Parts
        BY DEF PlayTypeOK
    <2>1. Silent' = Silent \ {x}
        BY <1>g, <2>0 DEF Gone, Silent, PlayTypeOK
    <2>2. /\ there' \subseteq Parts
          /\ bodyPos' \in [Parts -> Places]
          /\ addr' \in [Parts -> Addrs \cup {None}]
          /\ before' \in [Parts -> Places \cup {None}]
        BY <1>g DEF Gone, AddrWithout, PlayTypeOK
    <2>3. /\ \A p \in Parts : addr'[p] = None <=> p \notin there'
          /\ \A p, q \in there' : addr'[p] = addr'[q] => p = q
        BY <1>g DEF Gone, AddrWithout, PlayTypeOK
    <2>4. Snapshot'
        BY <1>g, <2>0 DEF Gone, AddrWithout, PlayTypeOK, Snapshot
    <2> QED BY <2>1, <2>2, <2>3, <2>4
<1>1. ASSUME NEW x \in Parts \cup {Model}, Delete(x) PROVE StudioInv'
    <2>1. x \in there /\ Gone(x) /\ UNCHANGED <<pos, playing, saved>>
        BY <1>1 DEF Delete
    <2>g. /\ Silent' = Silent \ {x}
          /\ there' \subseteq Parts
          /\ bodyPos' \in [Parts -> Places]
          /\ addr' \in [Parts -> Addrs \cup {None}]
          /\ before' \in [Parts -> Places \cup {None}]
          /\ \A q \in Parts : addr'[q] = None <=> q \notin there'
          /\ \A q, r \in there' : addr'[q] = addr'[r] => q = r
          /\ Snapshot'
        BY <1>g, <2>1
    <2>2. PlayTypeOK'
        <3>1. abandoned' \subseteq Parts
            BY <2>1 DEF Gone, PlayTypeOK
        <3> QED BY <1>1, <2>g, <3>1 DEF Delete, PlayTypeOK
    <2>3. Silent \subseteq abandoned
        BY <1>1 DEF Delete, InHand
    <2>4. InHand'
        BY <2>1, <2>g, <2>3 DEF Gone, InHand
    <2> QED BY <2>g, <2>2, <2>4
<1>2. ASSUME NEW x \in Places, Edit(x) PROVE StudioInv'
    <2>1. PlayTypeOK'
        BY <1>2 DEF Edit, PlayTypeOK
    <2>2. Silent \subseteq abandoned
        BY <1>2 DEF Edit, InHand
    <2>3. Silent' = Silent \ {selected}
        BY <1>2 DEF Edit, Silent, PlayTypeOK
    <2>4. InHand' /\ Snapshot'
        BY <1>2, <2>2, <2>3 DEF Edit, InHand, Snapshot
    <2> QED BY <2>1, <2>4
<1>3. ASSUME NEW x \in Places, NEW a \in Addrs, Appear(x, a) PROVE StudioInv'
    <2>0. /\ Spare \in Parts \ there /\ there \subseteq Parts
          /\ \A p \in there : addr[p] # a
        BY <1>3 DEF Appear, PlayTypeOK
    <2>1. PlayTypeOK'
        <3>1. /\ there' \subseteq Parts /\ pos' \in [Parts -> Places]
              /\ bodyPos' \in [Parts -> Places]
              /\ addr' \in [Parts -> Addrs \cup {None}]
            BY <1>3, <2>0 DEF Appear, PlayTypeOK
        <3>2. \A p \in Parts : addr'[p] = None <=> p \notin there'
            BY <1>3, <2>0 DEF Appear, PlayTypeOK
        <3>3. \A p, q \in there' : addr'[p] = addr'[q] => p = q
            BY <1>3, <2>0 DEF Appear, PlayTypeOK
        <3>4. abandoned' \subseteq Parts
            BY <1>3, <2>0 DEF Appear, PlayTypeOK, Silent
        <3> QED BY <1>3, <3>1, <3>2, <3>3, <3>4 DEF Appear, PlayTypeOK
    <2>2. Silent' = Silent
        BY <1>3, <2>0 DEF Appear, Silent, PlayTypeOK
    <2>3. InHand'
        BY <1>3, <2>2 DEF Appear, InHand
    <2>4. Snapshot'
        BY <1>3, <2>0 DEF Appear, Snapshot, PlayTypeOK
    <2> QED BY <2>1, <2>3, <2>4
<1>4. ASSUME NEW p \in Parts, NEW x \in Places, Simulate(p, x) PROVE StudioInv'
    <2>1. PlayTypeOK'
        BY <1>4 DEF Simulate, PlayTypeOK
    <2>2. Silent \subseteq abandoned
        BY <1>4 DEF Simulate, InHand
    <2>3. Silent' = Silent \ {p}
        BY <1>4 DEF Simulate, Silent, PlayTypeOK
    <2>4. InHand' /\ Snapshot'
        BY <1>4, <2>2, <2>3 DEF Simulate, InHand, Snapshot
    <2> QED BY <2>1, <2>4
<1>5. ASSUME NEW p \in Parts, Fall(p) PROVE StudioInv'
    <2>1. p \in there /\ Gone(p) /\ UNCHANGED <<pos, playing, saved>>
        BY <1>5 DEF Fall
    <2>g. /\ Silent' = Silent \ {p}
          /\ there' \subseteq Parts
          /\ bodyPos' \in [Parts -> Places]
          /\ addr' \in [Parts -> Addrs \cup {None}]
          /\ before' \in [Parts -> Places \cup {None}]
          /\ \A q \in Parts : addr'[q] = None <=> q \notin there'
          /\ \A q, r \in there' : addr'[q] = addr'[r] => q = r
          /\ Snapshot'
        BY <1>g, <2>1
    <2>2. PlayTypeOK'
        <3>1. abandoned' \subseteq Parts
            BY <2>1 DEF Gone, PlayTypeOK
        <3> QED BY <1>5, <2>g, <3>1 DEF Fall, PlayTypeOK
    <2>3. Silent \subseteq abandoned
        BY <1>5 DEF Fall, InHand
    <2>4. InHand'
        BY <2>1, <2>g, <2>3 DEF Gone, InHand
    <2> QED BY <2>g, <2>2, <2>4
<1> QED BY <1>1, <1>2, <1>3, <1>4, <1>5

LEMMA DrawingKeeps ==
    ASSUME StudioInv,
           NoGizmo \/ ScaledModel \/ Rest \/ \E x \in Places : Drag(x)
    PROVE  StudioInv'
<1> USE PlayAssumption DEF StudioInv, Drawn, world, edit
<1>1. CASE NoGizmo
    <2>1. PlayTypeOK'
        BY <1>1 DEF NoGizmo, PlayTypeOK
    <2>2. Silent \subseteq abandoned
        BY <1>1 DEF NoGizmo, InHand
    <2>3. InHand' /\ Snapshot'
        BY <1>1, <2>2 DEF NoGizmo, InHand, Snapshot, Silent
    <2> QED BY <2>1, <2>3
<1>2. CASE ScaledModel
    <2>1. PlayTypeOK'
        BY <1>2 DEF ScaledModel, PlayTypeOK
    <2>2. Silent \subseteq abandoned
        BY <1>2 DEF ScaledModel, InHand
    <2>3. InHand' /\ Snapshot'
        BY <1>2, <2>2 DEF ScaledModel, InHand, Snapshot, Silent
    <2> QED BY <2>1, <2>3
<1>3. CASE Rest
    <2>0. there \subseteq Parts
        BY DEF PlayTypeOK
    <2>1. PlayTypeOK'
        <3>1. /\ bodyPos' \in [Parts -> Places] /\ abandoned' \subseteq Parts
              /\ pending' \in BOOLEAN
            <4>1. Announced(Target) \in [Parts -> Places]
                BY DEF Announced, PlayTypeOK
            <4>2. CASE Commits
                BY ZenonT(40), <1>3, <4>1, <4>2 DEF Rest, PlayTypeOK
            <4>3. CASE ~Commits
                BY <1>3, <4>3 DEF Rest, PlayTypeOK
            <4> QED BY <4>2, <4>3
        <3> QED BY <1>3, <3>1 DEF Rest, PlayTypeOK
    <2>2. Snapshot'
        BY <1>3 DEF Rest, Snapshot
    <2>3. CASE Commits
        <3>1. Silent' \subseteq Silent \ Target
            BY <1>3, <2>0, <2>3 DEF Rest, Announced, Silent
        <3>2. Silent' \subseteq abandoned'
            BY <1>3, <2>3, <3>1 DEF Rest, InHand
        <3> QED BY <2>1, <2>2, <3>2 DEF InHand
    <2>4. CASE ~Commits
        <3>1. Silent' = Silent /\ abandoned' = abandoned /\ pending' = pending
            BY <1>3, <2>4 DEF Rest, Silent
        <3>2. InHand'
            BY <1>3, <2>4, <3>1 DEF Rest, InHand, Commits, Target
        <3> QED BY <2>1, <2>2, <3>2
    <2> QED BY <2>3, <2>4
<1>4. ASSUME NEW x \in Places, Drag(x) PROVE StudioInv'
    <2>1. PlayTypeOK'
        BY <1>4 DEF Drag, PlayTypeOK, Moved
    <2>2. Snapshot'
        BY <1>4 DEF Drag, Snapshot
    <2>3. Target' = Target
        BY <1>4 DEF Drag, Target
    <2>4. Silent' \subseteq Silent \cup Target
        BY <1>4 DEF Drag, Moved, Silent, PlayTypeOK
    <2>5. InHand'
        BY <1>4, <2>3, <2>4 DEF Drag, InHand, HasGizmo
    <2> QED BY <2>1, <2>2, <2>5
<1> QED BY <1>1, <1>2, <1>3, <1>4

LEMMA StudioInductive == PlaySpec => []StudioInv
<1>1. StudioInv /\ UNCHANGED playVars => StudioInv'
    BY DEF StudioInv, PlayTypeOK, InHand, Snapshot, Silent, Target, playVars, edit
<1>2. StudioInv /\ [PlayNext]_playVars => StudioInv'
    BY <1>1, PlayEventKeeps, PlayAndStopKeep, PartEventKeeps, DrawingKeeps
       DEF PlayNext
<1> QED BY <1>2, PlayInitInv, PTL DEF PlaySpec

\* Only Stop ends playing, and it puts every body and its part where the
\* snapshot has them.
LEMMA StopPutsBack ==
    ASSUME StudioInv, [PlayNext]_playVars
    PROVE  PutsBack /\ KeepsTheNew
<1> SUFFICES ASSUME playing /\ ~playing' PROVE PutsBack /\ KeepsTheNew
    BY DEF PutsBack, KeepsTheNew
<1>1. Stop
    BY DEF PlayNext, Quiet, Grab, LetGo, Play, PlayFails, Select, Delete, Switch, Edit,
       Drag, Appear, Simulate, Fall, NoGizmo, ScaledModel, Rest, playVars
<1>2. /\ there \subseteq Parts
      /\ \A p \in there : addr[p] \in Addrs /\ addr[p] # None
    BY DEF StudioInv, PlayTypeOK
<1>3. PutsBack
    BY <1>1, <1>2 DEF Stop, PutsBack, RestoredParts, StateOf, StudioInv, Snapshot
<1>4. KeepsTheNew
    BY <1>1, <1>2 DEF Stop, KeepsTheNew, RestoredParts, RestoredBodies, StateOf
<1> QED BY <1>3, <1>4

\* For every map, however parts are dragged, edited, pasted, deleted and
\* simulated: a part is away from its body only in a drag that will be
\* announced or was cut off, and Stop restores what Play saved and nothing
\* else (devtools.cpp 810-864, physics.cpp 644-698).
THEOREM StopAlwaysRestores == PlaySpec => StopRestores
<1>1. StudioInv => PlayTypeOK /\ SilentOnlyInHand
    BY DEF StudioInv, InHand, SilentOnlyInHand
<1>2. StudioInv /\ [PlayNext]_playVars => [PutsBack /\ KeepsTheNew]_playVars
    BY StopPutsBack
<1> QED BY <1>1, <1>2, StudioInductive, PTL DEF PlaySpec, StopRestores
-----------------------------------------------------------------------------
(* InputRouting: what a sequence of events says of an input.                *)

LEMMA HasLeast ==
    ASSUME NEW S \in SUBSET Nat, S # {}
    PROVE  \E x \in S : \A y \in S : x <= y
<1>1. PICK x \in S : \A y \in S : ~(<<y, x>> \in OpToRel(<, Nat))
    BY NatLessThanWellFounded, WFMin
<1>2. \A y \in S : y < x => <<y, x>> \in OpToRel(<, Nat)
    BY DEF OpToRel
<1>3. \A y \in S : ~(y < x)
    BY <1>1, <1>2, Zenon
<1> QED BY <1>3

LEMMA FromZeroOn ==
    ASSUME NEW S, 0 \in S, \A k \in Nat : k \in S => k + 1 \in S
    PROVE  \A k \in Nat : k \in S
<1> DEFINE T == {k \in Nat : k \notin S}
<1>1. SUFFICES ASSUME T # {} PROVE FALSE
    OBVIOUS
<1>2. PICK x \in T : \A y \in T : x <= y
    BY <1>1, HasLeast
<1>3. x \in Nat /\ x \notin S /\ x # 0
    BY <1>2
<1>4. x - 1 \in Nat /\ x - 1 < x /\ (x - 1) + 1 = x
    BY <1>3
<1>5. x - 1 \in S
    BY <1>2, <1>4
<1> QED BY <1>3, <1>4, <1>5

LEMMA HasGreatest ==
    ASSUME NEW n \in Nat, NEW S \in SUBSET (1..n), S # {}
    PROVE  \E x \in S : \A y \in S : y <= x
<1> DEFINE T == {n - y : y \in S}
<1>1. T \in SUBSET Nat /\ T # {}
    <2>1. \A y \in S : n - y \in Nat
        OBVIOUS
    <2> QED BY <2>1
<1>2. PICK z \in T : \A y \in T : z <= y
    BY <1>1, HasLeast
<1>3. PICK x \in S : z = n - x
    BY <1>2
<1>4. \A y \in S : y <= x
    <2> TAKE y \in S
    <2>1. n - x <= n - y /\ x \in Nat /\ y \in Nat
        BY SMTT(30), <1>2, <1>3
    <2> QED BY <2>1
<1> QED BY <1>4

\* Whether i is down after n events of q, if those of s were before.
Says(s, q, n, i) ==
    LET about == {j \in 1..n : q[j].input = i}
    IN  IF about = {} THEN i \in s ELSE q[CHOOSE j \in about : \A l \in about : l <= j].way = "down"

LEMMA SaysNothing ==
    ASSUME NEW s, NEW q, NEW i
    PROVE  Says(s, q, 0, i) <=> i \in s
BY DEF Says

LEMMA SaysNext ==
    ASSUME NEW s, NEW q, NEW n \in Nat, NEW i
    PROVE  /\ q[n + 1].input = i => (Says(s, q, n + 1, i) <=> q[n + 1].way = "down")
           /\ q[n + 1].input # i => (Says(s, q, n + 1, i) <=> Says(s, q, n, i))
<1> DEFINE about(m) == {j \in 1..m : q[j].input = i}
           last(m) == CHOOSE j \in about(m) : \A l \in about(m) : l <= j
<1>1. CASE q[n + 1].input = i
    <2>1. n + 1 \in about(n + 1) /\ \A l \in about(n + 1) : l <= n + 1
        BY <1>1
    <2>2. last(n + 1) \in about(n + 1) /\ \A l \in about(n + 1) : l <= last(n + 1)
        BY <2>1, Zenon
    <2>3. last(n + 1) = n + 1
        <3> HIDE DEF last
        <3> QED BY <2>1, <2>2
    <2>4. about(n + 1) # {}
        BY <2>1
    <2>5. Says(s, q, n + 1, i) <=> q[last(n + 1)].way = "down"
        BY <2>4, Zenon DEF Says
    <2> HIDE DEF last, about
    <2> QED BY <1>1, <2>3, <2>5
<1>2. CASE q[n + 1].input # i
    <2>1. about(n + 1) = about(n)
        BY <1>2
    <2> QED BY <1>2, <2>1, Zenon DEF Says
<1> QED BY <1>1, <1>2

\* Only the first n events matter.
LEMMA SaysSame ==
    ASSUME NEW s, NEW q, NEW r, NEW n \in Nat, NEW i, \A j \in 1..n : q[j] = r[j]
    PROVE  Says(s, q, n, i) <=> Says(s, r, n, i)
<1> DEFINE T == {k \in Nat : k <= n => (Says(s, q, k, i) <=> Says(s, r, k, i))}
<1>1. 0 \in T
    BY SaysNothing
<1>2. ASSUME NEW k \in Nat, k \in T PROVE k + 1 \in T
    <2> SUFFICES ASSUME k + 1 <= n PROVE Says(s, q, k + 1, i) <=> Says(s, r, k + 1, i)
        OBVIOUS
    <2>1. k + 1 \in 1..n
        OBVIOUS
    <2>2. q[k + 1] = r[k + 1] /\ (Says(s, q, k, i) <=> Says(s, r, k, i))
        BY <1>2, <2>1
    <2> QED BY <2>2, SaysNext
<1> HIDE DEF T
<1>3. n \in T
    BY <1>1, <1>2, FromZeroOn
<1> QED BY <1>3 DEF T

\* The first n events done, the rest go on from there.
LEMMA SaysOn ==
    ASSUME NEW s, NEW q, NEW n \in Nat, NEW i, NEW t, i \in t <=> Says(s, q, n, i),
           NEW r, NEW m \in Nat, \A j \in 1..m : r[j] = q[n + j]
    PROVE  Says(t, r, m, i) <=> Says(s, q, n + m, i)
<1> DEFINE T == {k \in Nat : k <= m => (Says(t, r, k, i) <=> Says(s, q, n + k, i))}
<1>1. 0 \in T
    BY SaysNothing
<1>2. ASSUME NEW k \in Nat, k \in T PROVE k + 1 \in T
    <2> SUFFICES ASSUME k + 1 <= m PROVE Says(t, r, k + 1, i) <=> Says(s, q, n + (k + 1), i)
        OBVIOUS
    <2>1. k + 1 \in 1..m /\ n + k \in Nat /\ n + (k + 1) = (n + k) + 1
        OBVIOUS
    <2>2. r[k + 1] = q[(n + k) + 1] /\ (Says(t, r, k, i) <=> Says(s, q, n + k, i))
        BY <1>2, <2>1
    <2> QED BY <2>1, <2>2, SaysNext
<1> HIDE DEF T
<1>3. m \in T
    BY <1>1, <1>2, FromZeroOn
<1> QED BY <1>3 DEF T

\* What is added to a sequence changes what it says of one input.
LEMMA SaysAppended ==
    ASSUME NEW S, NEW q \in Seq(S), NEW e \in S, NEW s, NEW i
    PROVE  /\ Len(Append(q, e)) = Len(q) + 1 /\ Append(q, e)[Len(q) + 1] = e
           /\ \A j \in 1..Len(q) : Append(q, e)[j] = q[j]
           /\ \A n \in 0..Len(q) : Says(s, Append(q, e), n, i) <=> Says(s, q, n, i)
           /\ e.input = i => (Says(s, Append(q, e), Len(q) + 1, i) <=> e.way = "down")
           /\ e.input # i => (Says(s, Append(q, e), Len(q) + 1, i) <=> Says(s, q, Len(q), i))
<1> DEFINE r == Append(q, e)
<1>1. /\ Len(r) = Len(q) + 1 /\ r[Len(q) + 1] = e /\ Len(q) \in Nat
      /\ \A j \in 1..Len(q) : r[j] = q[j]
    OBVIOUS
<1> HIDE DEF r
<1>2. \A n \in 0..Len(q) : Says(s, r, n, i) <=> Says(s, q, n, i)
    <2> TAKE n \in 0..Len(q)
    <2>1. n \in Nat /\ \A j \in 1..n : r[j] = q[j]
        BY <1>1
    <2> QED BY <2>1, SaysSame
<1>3. Len(q) \in 0..Len(q)
    BY <1>1
<1>4. /\ e.input = i => (Says(s, r, Len(q) + 1, i) <=> e.way = "down")
      /\ e.input # i => (Says(s, r, Len(q) + 1, i) <=> Says(s, r, Len(q), i))
    BY <1>1, SaysNext
<1> QED BY <1>1, <1>2, <1>3, <1>4 DEF r

\* What a loop of n turns goes through.
Runs(f, n, start, do) == f[0] = start /\ \A i \in 1..n : f[i] = do[i][f[i - 1]]

\* Whatever a turn does within a set can be done n times.
LEMMA Iterates ==
    ASSUME NEW n \in Nat, NEW S, NEW start \in S, NEW do \in [1..n -> [S -> S]]
    PROVE  \E f \in [0..n -> S] : Runs(f, n, start, do)
<1> DEFINE Solves(f, k) == f[0] = start /\ \A i \in 1..k : f[i] = do[i][f[i - 1]]
           T == {k \in Nat : k <= n => \E f \in [0..k -> S] : Solves(f, k)}
<1>1. 0 \in T
    <2> DEFINE f == [i \in 0..0 |-> start]
    <2>1. f \in [0..0 -> S] /\ f[0] = start /\ 1..0 = {}
        OBVIOUS
    <2>2. \E g \in [0..0 -> S] : Solves(g, 0)
        BY <2>1
    <2> QED BY <2>2
<1>2. ASSUME NEW k \in Nat, k \in T PROVE k + 1 \in T
    <2> SUFFICES ASSUME k + 1 <= n PROVE \E f \in [0..(k + 1) -> S] : Solves(f, k + 1)
        OBVIOUS
    <2>1. PICK f \in [0..k -> S] : Solves(f, k)
        BY <1>2
    <2> DEFINE v == do[k + 1][f[k]]
               g == [i \in 0..(k + 1) |-> IF i = k + 1 THEN v ELSE f[i]]
    <2>2. v \in S
        <3>1. f[k] \in S /\ k + 1 \in 1..n
            OBVIOUS
        <3> QED BY <3>1
    <2>3. g \in [0..(k + 1) -> S]
        <3> HIDE DEF v
        <3> QED BY <2>2
    <2>4. g[0] = start
        BY <2>1
    <2>5. ASSUME NEW i \in 1..(k + 1) PROVE g[i] = do[i][g[i - 1]]
        <3>1. CASE i = k + 1
            <4>1. i \in 0..(k + 1) /\ i - 1 = k /\ k \in 0..(k + 1) /\ k # k + 1
                BY <3>1
            <4>2. g[i] = v /\ g[i - 1] = f[k]
                BY <3>1, <4>1
            <4> HIDE DEF g
            <4> QED BY <3>1, <4>2
        <3>2. CASE i # k + 1
            <4>1. i \in 1..k /\ i \in 0..(k + 1) /\ i - 1 \in 0..(k + 1) /\ i - 1 # k + 1
                BY <3>2
            <4>2. g[i] = f[i] /\ g[i - 1] = f[i - 1]
                BY <3>2, <4>1
            <4>3. f[i] = do[i][f[i - 1]]
                BY <2>1, <4>1
            <4> HIDE DEF g
            <4> QED BY <4>2, <4>3
        <3> QED BY <3>1, <3>2
    <2> HIDE DEF g
    <2> QED BY <2>3, <2>4, <2>5
<1> HIDE DEF T
<1>3. n \in T
    BY <1>1, <1>2, FromZeroOn
<1> QED BY <1>3 DEF T, Runs

LEMMA IteratesWithin ==
    ASSUME NEW n \in Nat, NEW S, NEW g, g[0] \in S,
           \A i \in 1..n : g[i - 1] \in S => g[i] \in S
    PROVE  \A i \in 0..n : g[i] \in S
<1> DEFINE T == {k \in Nat : k <= n => g[k] \in S}
<1>1. 0 \in T
    OBVIOUS
<1>2. ASSUME NEW k \in Nat, k \in T PROVE k + 1 \in T
    <2> SUFFICES ASSUME k + 1 <= n PROVE g[k + 1] \in S
        OBVIOUS
    <2>1. k + 1 \in 1..n /\ (k + 1) - 1 = k /\ g[k] \in S
        BY <1>2
    <2> QED BY <2>1
<1> HIDE DEF T
<1>3. \A k \in Nat : k \in T
    BY <1>1, <1>2, FromZeroOn
<1> QED BY <1>3 DEF T

Events == [input : Inputs \cup {Motion}, way : {"down", "up"}]

Switching(s, q, f) == f = [n \in 0..Len(q) |-> IF n = 0 THEN s ELSE Switched(f[n - 1], q[n])]

LEMMA InputsApart == Key # Ctrl /\ Key # Button /\ Ctrl # Button /\ Motion \notin Inputs
<1> DEFINE S == {Ctrl, Key, Button}
<1>1. Cardinality(S) = 3 /\ Motion \notin S
    BY InputAssumption
<1>2. \A a, b : S \subseteq {a, b} => FALSE
    <2> SUFFICES ASSUME NEW a, NEW b, S \subseteq {a, b} PROVE FALSE
        OBVIOUS
    <2>1. IsFiniteSet({b}) /\ Cardinality({b}) = 1
        BY FS_Singleton
    <2> DEFINE T == {b} \cup {a}
    <2>2. IsFiniteSet(T) /\ Cardinality(T) <= 2
        BY <2>1, FS_AddElement
    <2>3. S \subseteq T
        OBVIOUS
    <2> HIDE DEF S, T
    <2>4. Cardinality(S) <= Cardinality(T)
        BY <2>2, <2>3, FS_Subset
    <2>5. Cardinality(T) \in Nat
        BY <2>2, FS_CardinalityType
    <2> QED BY <1>1, <2>2, <2>4, <2>5
<1>3. Key # Ctrl
    BY <1>2
<1>4. Key # Button
    BY <1>2
<1>5. Ctrl # Button
    BY <1>2
<1> QED BY <1>1, <1>3, <1>4, <1>5 DEF Inputs, Keys

LEMMA SwitchedIs ==
    ASSUME NEW s \in SUBSET Inputs, NEW e \in Events
    PROVE  /\ Switched(s, e) \in SUBSET Inputs
           /\ \A i \in Inputs : i \in Switched(s, e) <=>
                  IF e.input = i THEN e.way = "down" ELSE i \in s
<1>1. e.input \in Inputs \cup {Motion}
    BY DEF Events
<1> QED BY <1>1, InputsApart DEF Switched

\* The states after the events of a queue are what it says.
LEMMA AfterIs ==
    ASSUME NEW s \in SUBSET Inputs, NEW q \in Seq(Events)
    PROVE  /\ After(s, q) \in SUBSET Inputs
           /\ \A i \in Inputs : i \in After(s, q) <=> Says(s, q, Len(q), i)
<1> DEFINE n == Len(q)
           S == SUBSET Inputs
           do == [j \in 1..n |-> [x \in S |-> Switched(x, q[j])]]
<1>1. n \in Nat /\ s \in S /\ \A j \in 1..n : q[j] \in Events
    OBVIOUS
<1>2. do \in [1..n -> [S -> S]]
    BY <1>1, SwitchedIs
<1>3. \A j \in 1..n, y \in S : do[j][y] = Switched(y, q[j])
    OBVIOUS
<1> HIDE DEF n, do, S
<1>4. PICK f \in [0..n -> S] : Runs(f, n, s, do)
    BY <1>1, <1>2, Iterates
<1>5. \A j \in 1..n : j - 1 \in 0..n
    BY <1>1
<1>6. \A j \in 1..n : f[j] = Switched(f[j - 1], q[j])
    BY <1>3, <1>4, <1>5 DEF Runs
<1>7. Switching(s, q, f)
    <2>1. \A j \in 0..n : j # 0 => j \in 1..n
        BY <1>1
    <2>2. \A j \in 0..n : f[j] = IF j = 0 THEN s ELSE Switched(f[j - 1], q[j])
        BY <1>4, <1>6, <2>1 DEF Runs
    <2>3. f = [j \in 0..n |-> f[j]]
        OBVIOUS
    <2> QED BY <2>2, <2>3 DEF Switching, n
<1> DEFINE w == CHOOSE g : Switching(s, q, g)
<1>8. Switching(s, q, w)
    BY <1>7, Zenon
<1>9. After(s, q) = w[n]
    BY Zenon DEF After, Switching, n
<1> HIDE DEF w
<1>10. w[0] = s /\ \A j \in 1..n : w[j] = Switched(w[j - 1], q[j])
    <2>1. \A j \in 0..n : w[j] = IF j = 0 THEN s ELSE Switched(w[j - 1], q[j])
        BY <1>8, Zenon DEF Switching, n
    <2>2. \A j \in 1..n : j \in 0..n /\ j # 0
        BY <1>1
    <2>3. 0 \in 0..n
        BY <1>1
    <2> QED BY <2>1, <2>2, <2>3
<1> DEFINE T == {k \in Nat : k <= n =>
                    w[k] \in S /\ \A i \in Inputs : i \in w[k] <=> Says(s, q, k, i)}
<1>11. 0 \in T
    BY <1>1, <1>10, SaysNothing
<1>12. ASSUME NEW k \in Nat, k \in T PROVE k + 1 \in T
    <2> SUFFICES ASSUME k + 1 <= n
                 PROVE  /\ w[k + 1] \in S
                        /\ \A i \in Inputs : i \in w[k + 1] <=> Says(s, q, k + 1, i)
        OBVIOUS
    <2>1. k + 1 \in 1..n /\ (k + 1) - 1 = k
        BY <1>1
    <2>2. /\ w[k] \in S /\ \A i \in Inputs : i \in w[k] <=> Says(s, q, k, i)
          /\ w[k + 1] = Switched(w[k], q[k + 1]) /\ q[k + 1] \in Events
        BY <1>1, <1>10, <1>12, <2>1
    <2>3. /\ w[k + 1] \in S
          /\ \A i \in Inputs : i \in w[k + 1] <=>
                 IF q[k + 1].input = i THEN q[k + 1].way = "down" ELSE i \in w[k]
        BY <2>2, SwitchedIs DEF S
    <2> QED BY <2>2, <2>3, SaysNext
<1> HIDE DEF T
<1>13. n \in T
    BY <1>1, <1>11, <1>12, FromZeroOn
<1> QED BY <1>1, <1>9, <1>13 DEF T, n, S

Telling(q, f) == f = [n \in 0..Len(queue) |-> IF n = 0 THEN q ELSE KeyTold(f[n - 1], queue[n])]
ToldBy(q, f) ==
    /\ f[0] = q /\ KeysTold(q) = f[Len(queue)]
    /\ \A n \in 1..Len(queue) : f[n] = KeyTold(f[n - 1], queue[n])

LEMMA KeyToldIn ==
    ASSUME NEW q \in Seq(Events), NEW e \in Events
    PROVE  KeyTold(q, e) \in Seq(Events) /\ AddEvent(q, e) \in Seq(Events)
BY DEF KeyTold, AddEvent

LEMMA ToldInTurn ==
    ASSUME queue \in Seq(Events), NEW q \in Seq(Events)
    PROVE  \E f \in [0..Len(queue) -> Seq(Events)] : ToldBy(q, f)
<1> DEFINE n == Len(queue)
           S == Seq(Events)
           do == [j \in 1..n |-> [x \in S |-> KeyTold(x, queue[j])]]
<1>1. n \in Nat /\ q \in S /\ \A j \in 1..n : queue[j] \in Events
    OBVIOUS
<1>2. do \in [1..n -> [S -> S]]
    BY <1>1, KeyToldIn
<1>3. \A j \in 1..n, y \in S : do[j][y] = KeyTold(y, queue[j])
    OBVIOUS
<1> HIDE DEF n, do, S
<1>4. PICK f \in [0..n -> S] : Runs(f, n, q, do)
    BY <1>1, <1>2, Iterates
<1>5. \A j \in 1..n : j - 1 \in 0..n
    BY <1>1
<1>6. \A j \in 1..n : f[j] = KeyTold(f[j - 1], queue[j])
    BY <1>3, <1>4, <1>5 DEF Runs
<1>7. Telling(q, f)
    <2>1. \A j \in 0..n : j # 0 => j \in 1..n
        BY <1>1
    <2>2. \A j \in 0..n : f[j] = IF j = 0 THEN q ELSE KeyTold(f[j - 1], queue[j])
        BY <1>4, <1>6, <2>1 DEF Runs
    <2>3. f = [j \in 0..n |-> f[j]]
        OBVIOUS
    <2> QED BY <2>2, <2>3 DEF Telling, n
<1> DEFINE w == CHOOSE g : Telling(q, g)
<1>8. Telling(q, w)
    BY <1>7, Zenon
<1>9. KeysTold(q) = w[n]
    BY Zenon DEF KeysTold, Telling, n
<1> HIDE DEF w
<1>10. /\ w = [j \in 0..n |-> w[j]] /\ w[0] = q
       /\ \A j \in 1..n : w[j] = KeyTold(w[j - 1], queue[j])
    <2>1. \A j \in 0..n : w[j] = IF j = 0 THEN q ELSE KeyTold(w[j - 1], queue[j])
        BY <1>8, Zenon DEF Telling, n
    <2>2. w = [j \in 0..n |-> w[j]]
        BY <1>8 DEF Telling, n
    <2>3. \A j \in 1..n : j \in 0..n /\ j # 0
        BY <1>1
    <2>4. 0 \in 0..n
        BY <1>1
    <2> QED BY <2>1, <2>2, <2>3, <2>4
<1>11. ASSUME NEW j \in 1..n, w[j - 1] \in S PROVE w[j] \in S
    BY <1>1, <1>10, <1>11, KeyToldIn DEF S
<1>12. w[0] \in S
    BY <1>1, <1>10
<1>13. \A k \in 0..n : w[k] \in S
    BY <1>1, <1>11, <1>12, IteratesWithin
<1>14. w \in [0..n -> S]
    BY <1>10, <1>13
<1> QED BY <1>9, <1>10, <1>14 DEF n, S, ToldBy

LEMMA BelievedIs ==
    ASSUME NEW q \in Seq(Events), NEW i
    PROVE  Believed(q, i) <=> Says(down, q, Len(q), i)
<1>1. DOMAIN q = 1..Len(q)
    OBVIOUS
<1> QED BY <1>1, Zenon DEF Believed, Says

\* Between two events of an input what is said of it stays.
LEMMA SaysQuiet ==
    ASSUME NEW s, NEW q, NEW i, NEW a \in Nat, NEW b \in Nat, a <= b,
           \A j \in 1..b : a < j => q[j].input # i
    PROVE  Says(s, q, b, i) <=> Says(s, q, a, i)
<1> DEFINE T == {k \in Nat : a <= k /\ k <= b => (Says(s, q, k, i) <=> Says(s, q, a, i))}
<1>1. 0 \in T
    <2>1. a <= 0 => a = 0
        OBVIOUS
    <2> QED BY <2>1
<1>2. ASSUME NEW k \in Nat, k \in T PROVE k + 1 \in T
    <2> SUFFICES ASSUME a <= k + 1, k + 1 <= b, a # k + 1
                 PROVE  Says(s, q, k + 1, i) <=> Says(s, q, a, i)
        OBVIOUS
    <2>1. a <= k /\ k <= b /\ k + 1 \in 1..b /\ a < k + 1
        OBVIOUS
    <2>2. q[k + 1].input # i
        BY <2>1
    <2>3. Says(s, q, k, i) <=> Says(s, q, a, i)
        BY <1>2, <2>1
    <2> QED BY <2>2, <2>3, SaysNext
<1> HIDE DEF T
<1>3. b \in T
    BY <1>1, <1>2, FromZeroOn
<1> QED BY <1>3 DEF T

\* What comes down was up before some event.
LEMMA SaysRises ==
    ASSUME NEW s, NEW q, NEW i, NEW n \in Nat, i \notin s, Says(s, q, n, i)
    PROVE  \E j \in 1..n : q[j].input = i /\ q[j].way = "down" /\ ~Says(s, q, j - 1, i)
<1> DEFINE D == {k \in Nat : k <= n /\ Says(s, q, k, i)}
<1>1. D \in SUBSET Nat /\ D # {}
    OBVIOUS
<1>2. PICK k \in D : \A y \in D : k <= y
    BY <1>1, HasLeast
<1>3. k \in Nat /\ k <= n /\ Says(s, q, k, i)
    OBVIOUS
<1>4. k # 0
    BY <1>3, SaysNothing
<1>5. k - 1 \in Nat /\ (k - 1) + 1 = k /\ k - 1 <= n /\ k \in 1..n /\ ~(k <= k - 1)
    BY <1>3, <1>4
<1>6. ~Says(s, q, k - 1, i)
    BY <1>2, <1>5
<1> HIDE DEF D
<1> DEFINE l == k - 1
<1>7. l \in Nat /\ l + 1 = k /\ ~Says(s, q, l, i)
    BY <1>5, <1>6
<1> HIDE DEF l
<1>8. q[l + 1].input = i /\ q[l + 1].way = "down"
    BY <1>3, <1>7, SaysNext
<1> QED BY <1>5, <1>6, <1>7, <1>8

\* ImGui's backlog tells only what is new about the key.
Alternating(s, q) ==
    \A j \in 1..Len(q) : q[j].input = Key => (q[j].way = "down" <=> ~Says(s, q, j - 1, Key))
PressesIn(q) == {j \in 1..Len(q) : q[j] = Event(Key, "down")}

LEMMA PressesFinite ==
    ASSUME NEW q \in Seq(Events)
    PROVE  IsFiniteSet(PressesIn(q)) /\ Cardinality(PressesIn(q)) \in Nat
<1>1. IsFiniteSet(1..Len(q))
    BY FS_Interval
<1>2. PressesIn(q) \subseteq 1..Len(q)
    BY DEF PressesIn
<1> QED BY <1>1, <1>2, FS_Subset, FS_CardinalityType

LEMMA BelievedAppended ==
    ASSUME NEW q \in Seq(Events), NEW e \in Events, NEW i
    PROVE  /\ Append(q, e) \in Seq(Events)
           /\ e.input = i => (Believed(Append(q, e), i) <=> e.way = "down")
           /\ e.input # i => (Believed(Append(q, e), i) <=> Believed(q, i))
<1>1. Append(q, e) \in Seq(Events) /\ Len(Append(q, e)) = Len(q) + 1
    OBVIOUS
<1>2. /\ e.input = i => (Says(down, Append(q, e), Len(q) + 1, i) <=> e.way = "down")
      /\ e.input # i => (Says(down, Append(q, e), Len(q) + 1, i) <=> Says(down, q, Len(q), i))
    BY SaysAppended
<1>3. Believed(Append(q, e), i) <=> Says(down, Append(q, e), Len(Append(q, e)), i)
    BY <1>1, BelievedIs
<1>4. Believed(q, i) <=> Says(down, q, Len(q), i)
    BY BelievedIs
<1> QED BY <1>1, <1>2, <1>3, <1>4

LEMMA AlternatingAppended ==
    ASSUME NEW q \in Seq(Events), NEW e \in Events, Alternating(down, q),
           e.input = Key => (e.way = "down" <=> ~Believed(q, Key))
    PROVE  Alternating(down, Append(q, e))
<1> DEFINE r == Append(q, e)
           n == Len(q)
<1>1. /\ Len(r) = n + 1 /\ r[n + 1] = e /\ \A j \in 1..n : r[j] = q[j]
      /\ \A m \in 0..n : Says(down, r, m, Key) <=> Says(down, q, m, Key)
    <2>1. Len(r) = n + 1 /\ r[n + 1] = e /\ \A j \in 1..n : r[j] = q[j]
        OBVIOUS
    <2>2. \A m \in 0..n : Says(down, r, m, Key) <=> Says(down, q, m, Key)
        BY SaysAppended
    <2> QED BY <2>1, <2>2
<1>2. n \in Nat /\ (Believed(q, Key) <=> Says(down, q, n, Key))
    BY BelievedIs
<1> HIDE DEF r, n
<1>3. ASSUME NEW j \in 1..(n + 1), r[j].input = Key
      PROVE  r[j].way = "down" <=> ~Says(down, r, j - 1, Key)
    <2>1. CASE j = n + 1
        <3>1. j - 1 = n /\ n \in 0..n
            BY <1>2, <2>1
        <3> QED BY <1>1, <1>2, <1>3, <2>1, <3>1
    <2>2. CASE j \in 1..n
        <3>1. j - 1 \in 0..n
            BY <1>2, <2>2
        <3> QED BY <1>1, <1>3, <2>2, <3>1 DEF Alternating, n
    <2> QED BY <1>2, <2>1, <2>2
<1> QED BY <1>1, <1>3 DEF Alternating, r

LEMMA PressesAppended ==
    ASSUME NEW q \in Seq(Events), NEW e \in Events
    PROVE  Cardinality(PressesIn(Append(q, e))) =
               Cardinality(PressesIn(q)) + (IF e = Event(Key, "down") THEN 1 ELSE 0)
<1> DEFINE r == Append(q, e)
           n == Len(q)
<1>1. n \in Nat /\ Len(r) = n + 1 /\ r[n + 1] = e /\ \A j \in 1..n : r[j] = q[j]
    OBVIOUS
<1>2. IsFiniteSet(PressesIn(q)) /\ Cardinality(PressesIn(q)) \in Nat
    BY PressesFinite
<1> HIDE DEF r
<1>3. \A j \in 1..(n + 1) : j = n + 1 \/ j \in 1..n
    BY <1>1
<1>4. \A j \in 1..n : j \in 1..(n + 1) /\ j # n + 1
    BY <1>1
<1>5. CASE e = Event(Key, "down")
    <2>1. PressesIn(r) = PressesIn(q) \cup {n + 1}
        <3>1. n + 1 \in 1..(n + 1)
            BY <1>1
        <3> QED BY <1>1, <1>3, <1>4, <1>5, <3>1 DEF PressesIn
    <2>2. n + 1 \notin PressesIn(q)
        BY <1>4 DEF PressesIn
    <2>3. Cardinality(PressesIn(q) \cup {n + 1}) = Cardinality(PressesIn(q)) + 1
        BY <1>2, <2>2, FS_AddElement
    <2> QED BY <1>5, <2>1, <2>3 DEF r
<1>6. CASE e # Event(Key, "down")
    <2>1. PressesIn(r) = PressesIn(q)
        BY <1>1, <1>3, <1>4, <1>6 DEF PressesIn
    <2> QED BY <1>2, <1>6, <2>1 DEF r
<1> QED BY <1>5, <1>6

\* AddEvent keeps the backlog alternating, and counts presses that are news.
LEMMA EventAdded ==
    ASSUME NEW q \in Seq(Events), NEW e \in Events
    PROVE  /\ AddEvent(q, e) \in Seq(Events)
           /\ Believed(AddEvent(q, e), e.input) <=> e.way = "down"
           /\ \A i : i # e.input => (Believed(AddEvent(q, e), i) <=> Believed(q, i))
           /\ Alternating(down, q) => Alternating(down, AddEvent(q, e))
<1>1. CASE Believed(q, e.input) <=> e.way = "down"
    <2>1. AddEvent(q, e) = q
        BY <1>1 DEF AddEvent
    <2> QED BY <1>1, <2>1
<1>2. CASE ~(Believed(q, e.input) <=> e.way = "down")
    <2>1. AddEvent(q, e) = Append(q, e)
        BY <1>2 DEF AddEvent
    <2>2. Believed(Append(q, e), e.input) <=> e.way = "down"
        BY BelievedAppended
    <2>3. \A i : i # e.input => (Believed(Append(q, e), i) <=> Believed(q, i))
        BY BelievedAppended
    <2>4. Alternating(down, q) => Alternating(down, Append(q, e))
        BY <1>2, AlternatingAppended
    <2> QED BY <2>1, <2>2, <2>3, <2>4
<1> QED BY <1>1, <1>2

LEMMA PressAdded ==
    ASSUME NEW q \in Seq(Events), NEW e \in Events
    PROVE  Cardinality(PressesIn(AddEvent(q, e))) =
               Cardinality(PressesIn(q)) + (IF e = Event(Key, "down") /\ ~Believed(q, Key) THEN 1 ELSE 0)
<1>1. e = Event(Key, "down") => e.input = Key /\ e.way = "down"
    BY DEF Event
<1>2. Cardinality(PressesIn(q)) \in Nat
    BY PressesFinite
<1>3. CASE Believed(q, e.input) <=> e.way = "down"
    <2>1. AddEvent(q, e) = q
        BY <1>3 DEF AddEvent
    <2>2. ~(e = Event(Key, "down") /\ ~Believed(q, Key))
        BY <1>1, <1>3
    <2> QED BY <1>2, <2>1, <2>2
<1>4. CASE ~(Believed(q, e.input) <=> e.way = "down")
    <2>1. AddEvent(q, e) = Append(q, e)
        BY <1>4 DEF AddEvent
    <2>2. e = Event(Key, "down") => ~Believed(q, Key)
        BY <1>1, <1>4
    <2> QED BY <2>1, <2>2, PressesAppended
<1> QED BY <1>3, <1>4

\* Presses of the key that the queue tells first, in its first n events.
RealTo(n) == {j \in 1..n : queue[j] = Event(Key, "down") /\ ~Says(keys, queue, j - 1, Key)}
Real == RealTo(Len(queue))

LEMMA RealFinite ==
    ASSUME NEW n \in Nat
    PROVE  IsFiniteSet(RealTo(n)) /\ Cardinality(RealTo(n)) \in Nat
<1>1. IsFiniteSet(1..n)
    BY FS_Interval
<1>2. RealTo(n) \subseteq 1..n
    BY DEF RealTo
<1> QED BY <1>1, <1>2, FS_Subset, FS_CardinalityType

LEMMA RealNext ==
    ASSUME NEW n \in Nat
    PROVE  Cardinality(RealTo(n + 1)) = Cardinality(RealTo(n)) +
               (IF queue[n + 1] = Event(Key, "down") /\ ~Says(keys, queue, n, Key) THEN 1 ELSE 0)
<1>1. \A j \in 1..(n + 1) : j = n + 1 \/ j \in 1..n
    OBVIOUS
<1>2. (n + 1) - 1 = n /\ n + 1 \in 1..(n + 1) /\ \A j \in 1..n : j \in 1..(n + 1) /\ j # n + 1
    OBVIOUS
<1>3. IsFiniteSet(RealTo(n)) /\ Cardinality(RealTo(n)) \in Nat
    BY RealFinite
<1>4. CASE queue[n + 1] = Event(Key, "down") /\ ~Says(keys, queue, n, Key)
    <2>1. RealTo(n + 1) = RealTo(n) \cup {n + 1}
        BY <1>1, <1>2, <1>4 DEF RealTo
    <2>2. n + 1 \notin RealTo(n)
        BY <1>2 DEF RealTo
    <2>3. Cardinality(RealTo(n) \cup {n + 1}) = Cardinality(RealTo(n)) + 1
        BY <1>3, <2>2, FS_AddElement
    <2> QED BY <1>4, <2>1, <2>3
<1>5. CASE ~(queue[n + 1] = Event(Key, "down") /\ ~Says(keys, queue, n, Key))
    <2>1. RealTo(n + 1) = RealTo(n)
        BY <1>1, <1>2, <1>5 DEF RealTo
    <2> QED BY <1>3, <1>5, <2>1
<1> QED BY <1>4, <1>5

\* What is known after n events were handed on, q being the backlog before.
HandedOn(q, f, n) ==
    /\ f \in Seq(Events) /\ Alternating(down, f)
    /\ Believed(f, Button) <=> Believed(q, Button)
    /\ \A k \in Keys : (k \in keys <=> Believed(q, k)) =>
           (Believed(f, k) <=> Says(keys, queue, n, k))
    /\ (Key \in keys <=> Believed(q, Key)) =>
           Cardinality(PressesIn(f)) = Cardinality(PressesIn(q)) + Cardinality(RealTo(n))

LEMMA HandedFirst ==
    ASSUME NEW q \in Seq(Events), Alternating(down, q)
    PROVE  HandedOn(q, q, 0)
<1>1. Cardinality(PressesIn(q)) \in Nat
    BY PressesFinite
<1>2. RealTo(0) = {}
    BY DEF RealTo
<1>3. Cardinality(RealTo(0)) = 0
    BY <1>2, FS_EmptySet
<1>4. \A k \in Keys : Says(keys, queue, 0, k) <=> k \in keys
    BY SaysNothing
<1> QED BY <1>1, <1>3, <1>4 DEF HandedOn

LEMMA HandedNext ==
    ASSUME queue \in Seq(Events), NEW q \in Seq(Events), NEW n \in Nat, n + 1 \in 1..Len(queue),
           NEW f, HandedOn(q, f, n)
    PROVE  HandedOn(q, KeyTold(f, queue[n + 1]), n + 1)
<1> DEFINE e == queue[n + 1]
           g == KeyTold(f, e)
<1>1. e \in Events /\ f \in Seq(Events) /\ Key \in Keys /\ Button \notin Keys
    BY InputsApart DEF HandedOn, Keys
<1>2. /\ Alternating(down, f) /\ (Believed(f, Button) <=> Believed(q, Button))
      /\ \A k \in Keys : (k \in keys <=> Believed(q, k)) =>
             (Believed(f, k) <=> Says(keys, queue, n, k))
      /\ (Key \in keys <=> Believed(q, Key)) =>
             Cardinality(PressesIn(f)) = Cardinality(PressesIn(q)) + Cardinality(RealTo(n))
    BY DEF HandedOn
<1>3. /\ Cardinality(PressesIn(f)) \in Nat /\ Cardinality(PressesIn(q)) \in Nat
      /\ Cardinality(RealTo(n)) \in Nat
    BY <1>1, PressesFinite, RealFinite
<1>4. Cardinality(RealTo(n + 1)) = Cardinality(RealTo(n)) +
               (IF e = Event(Key, "down") /\ ~Says(keys, queue, n, Key) THEN 1 ELSE 0)
    BY RealNext
<1>5. \A k : /\ e.input = k => (Says(keys, queue, n + 1, k) <=> e.way = "down")
             /\ e.input # k => (Says(keys, queue, n + 1, k) <=> Says(keys, queue, n, k))
    BY SaysNext
<1> HIDE DEF e
<1>6. CASE e.input \in Keys
    <2>1. g = AddEvent(f, e)
        BY <1>6 DEF KeyTold
    <2>2. /\ g \in Seq(Events) /\ (Believed(g, e.input) <=> e.way = "down")
          /\ \A i : i # e.input => (Believed(g, i) <=> Believed(f, i))
          /\ Alternating(down, g)
        <3> HIDE DEF g
        <3> QED BY <1>1, <1>2, <2>1, EventAdded
    <2>3. Cardinality(PressesIn(g)) =
               Cardinality(PressesIn(f)) + (IF e = Event(Key, "down") /\ ~Believed(f, Key) THEN 1 ELSE 0)
        BY <1>1, <2>1, PressAdded
    <2> HIDE DEF g
    <2>4. Believed(g, Button) <=> Believed(q, Button)
        BY <1>1, <1>2, <1>6, <2>2
    <2>5. ASSUME NEW k \in Keys, k \in keys <=> Believed(q, k)
          PROVE  Believed(g, k) <=> Says(keys, queue, n + 1, k)
        <3>1. CASE e.input = k
            BY <1>5, <2>2, <3>1
        <3>2. CASE e.input # k
            BY <1>2, <1>5, <2>2, <2>5, <3>2
        <3> QED BY <3>1, <3>2
    <2>6. ASSUME Key \in keys <=> Believed(q, Key)
          PROVE  Cardinality(PressesIn(g)) = Cardinality(PressesIn(q)) + Cardinality(RealTo(n + 1))
        <3>1. Believed(f, Key) <=> Says(keys, queue, n, Key)
            BY <1>1, <1>2, <2>6
        <3>2. Cardinality(PressesIn(f)) = Cardinality(PressesIn(q)) + Cardinality(RealTo(n))
            BY <1>2, <2>6
        <3>3. CASE e = Event(Key, "down") /\ ~Believed(f, Key)
            BY <1>3, <1>4, <2>3, <3>1, <3>2, <3>3
        <3>4. CASE ~(e = Event(Key, "down") /\ ~Believed(f, Key))
            BY <1>3, <1>4, <2>3, <3>1, <3>2, <3>4
        <3> QED BY <3>3, <3>4
    <2> QED BY <2>2, <2>4, <2>5, <2>6 DEF HandedOn, g, e
<1>7. CASE e.input \notin Keys
    <2>1. g = f
        BY <1>7 DEF KeyTold
    <2>2. e # Event(Key, "down")
        BY <1>1, <1>7 DEF Event
    <2>3. Cardinality(RealTo(n + 1)) = Cardinality(RealTo(n))
        BY <1>3, <1>4, <2>2
    <2>4. \A k \in Keys : Says(keys, queue, n + 1, k) <=> Says(keys, queue, n, k)
        BY <1>5, <1>7
    <2> HIDE DEF g
    <2> QED BY <1>1, <1>2, <2>1, <2>3, <2>4 DEF HandedOn, g, e
<1> QED BY <1>6, <1>7

LEMMA AllHanded ==
    ASSUME queue \in Seq(Events), NEW q \in Seq(Events), Alternating(down, q)
    PROVE  HandedOn(q, KeysTold(q), Len(queue))
<1> DEFINE m == Len(queue)
<1>1. PICK f \in [0..m -> Seq(Events)] : ToldBy(q, f)
    BY ToldInTurn
<1> DEFINE T == {n \in Nat : n <= m => HandedOn(q, f[n], n)}
<1>2. 0 \in T
    BY <1>1, HandedFirst DEF ToldBy
<1>3. ASSUME NEW n \in Nat, n \in T PROVE n + 1 \in T
    <2> SUFFICES ASSUME n + 1 <= m PROVE HandedOn(q, f[n + 1], n + 1)
        OBVIOUS
    <2>1. n + 1 \in 1..m /\ (n + 1) - 1 = n
        OBVIOUS
    <2>2. HandedOn(q, f[n], n)
        BY <1>3, <2>1
    <2>3. f[n + 1] = KeyTold(f[n], queue[n + 1])
        BY <1>1, <2>1 DEF ToldBy
    <2> QED BY <2>1, <2>2, <2>3, HandedNext
<1> HIDE DEF T
<1>4. m \in T /\ m \in Nat
    BY <1>2, <1>3, FromZeroOn
<1> QED BY <1>1, <1>4 DEF T, ToldBy

\* What ImGui has been told when Imgui::update returns.
TellsAll(q) ==
    /\ q \in Seq(Events) /\ Alternating(down, q)
    /\ Believed(q, Button) <=> Button \in KeysAfter
    /\ \A k \in Keys : (k \in keys <=> Believed(backlog, k)) =>
           (Believed(q, k) <=> k \in KeysAfter)
    /\ (Key \in keys <=> Believed(backlog, Key)) =>
           Cardinality(PressesIn(q)) = Cardinality(PressesIn(backlog)) + Cardinality(Real)

Typed ==
    /\ queue \in Seq(Events) /\ backlog \in Seq(Events)
    /\ keys \in SUBSET Inputs /\ down \in SUBSET Inputs

LEMMA KeysAfterIs ==
    ASSUME Typed
    PROVE  /\ KeysAfter \in SUBSET Inputs
           /\ \A i \in Inputs : i \in KeysAfter <=> Says(keys, queue, Len(queue), i)
BY AfterIs DEF Typed, KeysAfter

LEMMA ToldIs ==
    ASSUME Typed, Alternating(down, backlog), NEW moved
    PROVE  TellsAll(Told(moved))
<1> DEFINE m == Event(Motion, "down")
           b == Event(Button, IF Button \in KeysAfter THEN "down" ELSE "up")
           q == IF moved THEN Append(backlog, m) ELSE backlog
           r == AddEvent(q, b)
<1>1. /\ m \in Events /\ b \in Events /\ m.input = Motion /\ b.input = Button
      /\ b.way = "down" <=> Button \in KeysAfter
    BY DEF Event, Events, Inputs
<1>2. /\ Key # Motion /\ Key # Button /\ Ctrl # Motion /\ Ctrl # Button /\ Button # Motion
      /\ m # Event(Key, "down") /\ b # Event(Key, "down")
    <2>1. Event(Key, "down").input = Key
        BY DEF Event
    <2> QED BY <1>1, <2>1, InputsApart DEF Inputs, Keys
<1>3. backlog \in Seq(Events)
    BY DEF Typed
<1>4. Told(moved) = KeysTold(r)
    BY DEF Told
<1> HIDE DEF m, b
<1>5. /\ q \in Seq(Events) /\ Alternating(down, q)
      /\ \A k \in Keys : Believed(q, k) <=> Believed(backlog, k)
      /\ Cardinality(PressesIn(q)) = Cardinality(PressesIn(backlog))
    <2>1. CASE moved
        <3>1. q = Append(backlog, m)
            BY <2>1
        <3>2. Append(backlog, m) \in Seq(Events)
            BY <1>1, <1>3, BelievedAppended
        <3>3. Alternating(down, Append(backlog, m))
            BY <1>1, <1>2, <1>3, AlternatingAppended
        <3>4. \A k \in Keys : Believed(Append(backlog, m), k) <=> Believed(backlog, k)
            <4>1. \A k \in Keys : m.input # k
                BY <1>1, <1>2 DEF Keys
            <4> QED BY <1>1, <1>3, <4>1, BelievedAppended
        <3>5. Cardinality(PressesIn(Append(backlog, m))) = Cardinality(PressesIn(backlog))
            BY <1>1, <1>2, <1>3, PressesAppended, PressesFinite
        <3> QED BY <3>1, <3>2, <3>3, <3>4, <3>5
    <2>2. CASE ~moved
        BY <1>3, <2>2
    <2> QED BY <2>1, <2>2
<1> HIDE DEF q
<1>6. /\ r \in Seq(Events) /\ Alternating(down, r)
      /\ Believed(r, Button) <=> Button \in KeysAfter
      /\ \A k \in Keys : Believed(r, k) <=> Believed(backlog, k)
    <2>1. /\ AddEvent(q, b) \in Seq(Events)
          /\ Believed(AddEvent(q, b), b.input) <=> b.way = "down"
          /\ \A i : i # b.input => (Believed(AddEvent(q, b), i) <=> Believed(q, i))
          /\ Alternating(down, q) => Alternating(down, AddEvent(q, b))
        BY <1>1, <1>5, EventAdded
    <2>2. \A k \in Keys : k # b.input
        BY <1>1, <1>2 DEF Keys
    <2> QED BY <1>1, <1>5, <2>1, <2>2
<1>7. Cardinality(PressesIn(r)) = Cardinality(PressesIn(backlog))
    <2>1. Cardinality(PressesIn(q)) \in Nat
        BY <1>5, PressesFinite
    <2> QED BY <1>1, <1>2, <1>5, <2>1, PressAdded
<1> HIDE DEF r
<1>8. HandedOn(r, KeysTold(r), Len(queue))
    BY <1>6, AllHanded DEF Typed
<1>9. \A k \in Keys : Says(keys, queue, Len(queue), k) <=> k \in KeysAfter
    BY KeysAfterIs DEF Inputs
<1>10. Key \in Keys
    BY DEF Keys
<1> QED BY <1>4, <1>6, <1>7, <1>8, <1>9, <1>10 DEF TellsAll, HandedOn, Real

LEMMA TakenIs ==
    ASSUME NEW q \in Seq(Events)
    PROVE  Taken(q) \in 0..Len(q) /\ \A j \in 1..Taken(q) : ~Waits(q, j)
<1> DEFINE n == Len(q)
           W == {j \in 1..n : Waits(q, j)}
<1>1. n \in Nat /\ DOMAIN q = 1..n
    OBVIOUS
<1>2. CASE W = {}
    <2>1. Taken(q) = n
        BY <1>1, <1>2 DEF Taken
    <2> QED BY <1>1, <1>2, <2>1
<1>3. CASE W # {}
    <2> DEFINE First(j) == j \in 1..n /\ Waits(q, j) /\ \A l \in 1..(j - 1) : ~Waits(q, l)
               f == CHOOSE j : First(j)
    <2>1. \E j : First(j)
        <3>1. PICK j \in W : \A y \in W : j <= y
            <4>1. W \in SUBSET Nat
                OBVIOUS
            <4> HIDE DEF W
            <4> QED BY <1>3, <4>1, HasLeast
        <3>2. j \in 1..n /\ Waits(q, j)
            OBVIOUS
        <3>3. \A l \in 1..(j - 1) : l \in 1..n /\ ~(j <= l)
            BY <1>1, <3>2
        <3>4. \A l \in 1..(j - 1) : ~Waits(q, l)
            BY <3>1, <3>3
        <3> QED BY <3>2, <3>4
    <2>2. First(f)
        BY <2>1, Zenon
    <2>3. Taken(q) = f - 1
        <3>1. \E j \in DOMAIN q : Waits(q, j)
            BY <1>1, <1>3
        <3>2. Taken(q) = (CHOOSE j \in DOMAIN q : Waits(q, j) /\ \A l \in 1..(j - 1) : ~Waits(q, l)) - 1
            BY <3>1, Zenon DEF Taken
        <3>3. (CHOOSE j \in DOMAIN q : Waits(q, j) /\ \A l \in 1..(j - 1) : ~Waits(q, l)) = f
            BY <1>1, Zenon
        <3> QED BY <3>2, <3>3
    <2>4. f \in 1..n
        BY <2>2
    <2> HIDE DEF f
    <2> QED BY <1>1, <2>2, <2>3, <2>4
<1> QED BY <1>2, <1>3

\* What a frame takes of the backlog q, and what it leaves.
TakenFrom(q, known, rest) ==
    /\ known \in SUBSET Inputs /\ rest \in Seq(Events)
    /\ \A i \in Inputs : Says(known, rest, Len(rest), i) <=> Believed(q, i)
    /\ Alternating(known, rest)
    /\ PressesIn(rest) # {} => PressesIn(q) # {}
    /\ Key \in known /\ Key \notin down => PressesIn(q) # {}
    /\ Cardinality(PressesIn(q)) <=
           Cardinality(PressesIn(rest)) + (IF Key \in known /\ Key \notin down THEN 1 ELSE 0)

LEMMA FrameTakes ==
    ASSUME down \in SUBSET Inputs, NEW q \in Seq(Events), Alternating(down, q),
           NEW n, n = Taken(q)
    PROVE  TakenFrom(q, After(down, SubSeq(q, 1, n)), SubSeq(q, n + 1, Len(q)))
<1> DEFINE m == Len(q)
           head == SubSeq(q, 1, n)
           known == After(down, head)
           rest == SubSeq(q, n + 1, m)
<1>1. n \in 0..m /\ n \in Nat /\ m \in Nat /\ n <= m /\ \A j \in 1..n : ~Waits(q, j)
    BY TakenIs
<1>2. /\ head \in Seq(Events) /\ Len(head) = n /\ \A j \in 1..n : head[j] = q[j]
    BY <1>1
<1>3. /\ rest \in Seq(Events) /\ Len(rest) = m - n /\ \A j \in 1..(m - n) : rest[j] = q[n + j]
    BY <1>1
<1>4. \A j \in 1..m : q[j] \in Events
    OBVIOUS
<1>5. /\ known \in SUBSET Inputs
      /\ \A i \in Inputs : i \in known <=> Says(down, head, n, i)
    BY <1>2, AfterIs
<1> HIDE DEF head, rest, known
<1>6. \A i \in Inputs : i \in known <=> Says(down, q, n, i)
    BY <1>1, <1>2, <1>5, SaysSame
<1>7. ASSUME NEW k \in 0..(m - n), NEW i \in Inputs
      PROVE  Says(known, rest, k, i) <=> Says(down, q, n + k, i)
    <2>1. k \in Nat /\ \A j \in 1..k : rest[j] = q[n + j]
        BY <1>1, <1>3
    <2> QED BY <1>1, <1>6, <2>1, SaysOn
<1>8. \A i \in Inputs : Says(known, rest, Len(rest), i) <=> Believed(q, i)
    <2>1. m - n \in 0..(m - n) /\ n + (m - n) = m
        BY <1>1
    <2>2. \A i : Believed(q, i) <=> Says(down, q, m, i)
        BY BelievedIs
    <2> QED BY <1>3, <1>7, <2>1, <2>2
<1>9. Key \in Inputs /\ Key # Motion
    BY InputsApart DEF Inputs, Keys
<1>10. Alternating(known, rest)
    <2> SUFFICES ASSUME NEW j \in 1..(m - n), rest[j].input = Key
                 PROVE  rest[j].way = "down" <=> ~Says(known, rest, j - 1, Key)
        BY <1>3 DEF Alternating
    <2>1. n + j \in 1..m /\ (n + j) - 1 = n + (j - 1) /\ j - 1 \in 0..(m - n)
        BY <1>1
    <2>2. q[n + j].way = "down" <=> ~Says(down, q, (n + j) - 1, Key)
        BY <1>3, <2>1 DEF Alternating
    <2>3. Says(known, rest, j - 1, Key) <=> Says(down, q, n + (j - 1), Key)
        BY <1>7, <1>9, <2>1
    <2> QED BY <1>3, <2>1, <2>2, <2>3
<1> DEFINE P == Event(Key, "down")
           early == {j \in 1..n : q[j] = P}
           late == {j \in 1..m : n < j /\ q[j] = P}
<1>11. P.input = Key /\ P.way = "down" /\ \A e \in Events : e.input = Key /\ e.way = "down" => e = P
    BY DEF Event, Events
<1> HIDE DEF P
<1>12. PressesIn(q) = early \cup late /\ PressesIn(rest) = {j \in 1..(m - n) : rest[j] = P}
    <2>1. \A j \in 1..m : j \in 1..n \/ n < j
        BY <1>1
    <2>2. \A j \in 1..n : j \in 1..m
        BY <1>1
    <2> QED BY <1>3, <2>1, <2>2 DEF PressesIn, P
<1>13. PressesIn(rest) # {} => PressesIn(q) # {}
    <2>1. \A j \in 1..(m - n) : n + j \in 1..m /\ n < n + j
        BY <1>1
    <2> QED BY <1>3, <1>12, <2>1
\* Within one frame there is at most one event of the key.
<1>14. ASSUME NEW j \in 1..n, NEW l \in 1..n, q[j].input = Key, q[l].input = Key PROVE j = l
    <2>1. ASSUME NEW a \in 1..n, NEW b \in 1..n, q[a].input = Key, q[b].input = Key, a < b PROVE FALSE
        <3>1. a \in 1..(b - 1)
            BY <1>1, <2>1
        <3>2. Waits(q, b)
            BY <1>9, <2>1, <3>1 DEF Waits
        <3> QED BY <1>1, <3>2
    <2>2. j \in Nat /\ l \in Nat /\ (j < l \/ l < j \/ j = l)
        BY <1>1
    <2> QED BY <1>14, <2>1, <2>2
<1>15. ASSUME NEW j \in early PROVE Key \in known /\ Key \notin down
    <2>1. j \in 1..n /\ q[j].input = Key /\ q[j].way = "down" /\ j - 1 \in Nat /\ (j - 1) + 1 = j
          /\ j \in Nat /\ j <= n /\ j \in 1..m
        BY <1>1, <1>11
    <2>2. ~Says(down, q, j - 1, Key)
        BY <2>1 DEF Alternating
    <2>3. \A a \in 1..(j - 1) : 0 < a => q[a].input # Key
        <3>1. \A a \in 1..(j - 1) : a \in 1..n /\ a # j
            BY <1>1, <2>1
        <3> QED BY <1>14, <2>1, <3>1
    <2>4. Says(down, q, j - 1, Key) <=> Says(down, q, 0, Key)
        <3>1. 0 \in Nat /\ 0 <= j - 1
            BY <2>1
        <3> QED BY <2>1, <2>3, <3>1, SaysQuiet
    <2>5. Key \notin down
        BY <2>2, <2>4, SaysNothing
    <2>6. Says(down, q, j, Key)
        <3> DEFINE a == j - 1
        <3>1. a \in Nat /\ a + 1 = j
            BY <2>1
        <3> HIDE DEF a
        <3> QED BY <2>1, <3>1, SaysNext
    <2>7. \A a \in 1..n : j < a => q[a].input # Key
        <3>1. \A a \in 1..n : j < a => a # j
            BY <1>1, <2>1
        <3> QED BY <1>14, <2>1, <3>1
    <2>8. Says(down, q, n, Key) <=> Says(down, q, j, Key)
        BY <1>1, <2>1, <2>7, SaysQuiet
    <2> QED BY <1>6, <1>9, <2>5, <2>6, <2>8
<1>16. ASSUME Key \in known, Key \notin down PROVE early # {}
    <2>1. Says(down, q, n, Key)
        BY <1>6, <1>9, <1>16
    <2>2. PICK j \in 1..n : q[j].input = Key /\ q[j].way = "down"
        BY <1>1, <1>16, <2>1, SaysRises
    <2>3. q[j] \in Events
        BY <1>1, <1>4
    <2> QED BY <1>11, <2>2, <2>3
<1>17. IsFiniteSet(early) /\ Cardinality(early) <= (IF Key \in known /\ Key \notin down THEN 1 ELSE 0)
    <2>1. CASE early = {}
        <3>1. Cardinality(early) = 0 /\ IsFiniteSet(early)
            BY <2>1, FS_EmptySet
        <3> QED BY <3>1
    <2>2. CASE early # {}
        <3>1. PICK j \in early : TRUE
            BY <2>2
        <3>2. \A l \in early : l = j
            BY <1>11, <1>14, <3>1
        <3>3. early = {j}
            BY <3>1, <3>2
        <3>4. IsFiniteSet(early) /\ Cardinality(early) = 1
            BY <3>3, FS_Singleton
        <3>5. Key \in known /\ Key \notin down
            BY <1>15, <3>1
        <3> QED BY <3>4, <3>5
    <2> QED BY <2>1, <2>2
<1>18. IsFiniteSet(late) /\ Cardinality(late) = Cardinality(PressesIn(rest))
    <2> DEFINE L == PressesIn(rest)
               g == [j \in L |-> n + j]
    <2>1. IsFiniteSet(L) /\ \A j \in L : j \in 1..(m - n) /\ rest[j] = P
        BY <1>3, <1>12, PressesFinite
    <2>2. \A j \in L : n + j \in late
        <3>1. \A j \in 1..(m - n) : n + j \in 1..m /\ n < n + j
            BY <1>1
        <3> QED BY <1>3, <2>1, <3>1
    <2>3. \A j \in late : j - n \in L /\ n + (j - n) = j
        <3> TAKE j \in late
        <3>1. j \in 1..m /\ n < j /\ q[j] = P
            OBVIOUS
        <3>2. j - n \in 1..(m - n) /\ n + (j - n) = j
            BY <1>1, <3>1
        <3> QED BY <1>3, <1>12, <3>1, <3>2
    <2>4. g \in Bijection(L, late)
        <3>1. \A a, b \in L : n + a = n + b => a = b
            BY <1>1, <2>1
        <3> HIDE DEF L, late
        <3>2. g \in [L -> late]
            BY <2>2
        <3>3. g \in Injection(L, late)
            <4>1. DOMAIN g = L /\ \A a, b \in L : g[a] = g[b] => a = b
                BY <3>1
            <4> HIDE DEF g
            <4> QED BY <3>2, <4>1 DEF Injection, IsInjective
        <3>4. g \in Surjection(L, late)
            BY <2>3, <3>2 DEF Surjection
        <3> QED BY <3>3, <3>4 DEF Bijection
    <2> HIDE DEF L, late, g
    <2>5. ExistsBijection(L, late)
        BY <2>4 DEF ExistsBijection
    <2> QED BY <2>1, <2>5, FS_Bijection DEF L
<1> DEFINE one == IF Key \in known /\ Key \notin down THEN 1 ELSE 0
<1>19. Cardinality(early \cup late) <= Cardinality(PressesIn(rest)) + one
    <2> HIDE DEF early, late
    <2>1. /\ Cardinality(early) \in Nat /\ Cardinality(late) \in Nat
          /\ IsFiniteSet(early \cap late)
        BY <1>17, <1>18, FS_CardinalityType, FS_Intersection
    <2>2. Cardinality(early \cup late) = Cardinality(early) + Cardinality(late) - Cardinality(early \cap late)
        BY <1>17, <1>18, FS_Union
    <2>3. Cardinality(early \cap late) \in Nat
        BY <2>1, FS_CardinalityType
    <2>4. one \in Nat /\ Cardinality(early) <= one
        BY <1>17
    <2> HIDE DEF one
    <2> QED BY <1>18, <2>1, <2>2, <2>3, <2>4
<1>20. TakenFrom(q, known, rest)
    BY <1>3, <1>5, <1>8, <1>10, <1>12, <1>13, <1>16, <1>19 DEF TakenFrom
<1> QED BY <1>20 DEF known, head, rest

-----------------------------------------------------------------------------
(* The invariant of InputRouting and its steps.                            *)

InputEvents == [input : Inputs, way : {"down", "up"}]
RealIn(s, q) == {j \in 1..Len(q) : q[j] = Event(Key, "down") /\ ~Says(s, q, j - 1, Key)}

\* The queue leads from the states the window knows to what the user holds.
HeldKnown == \A i \in Inputs : i \in held <=> Says(keys, queue, Len(queue), i)
DrawnEmpty == pc = "draw" => queue = <<>>
\* The backlog leads from what ImGui knows to what the window knows.
Agreeing ==
    \A k \in Keys : ~(k \in keys <=> Says(down, backlog, Len(backlog), k)) => k \in unaware
Following == pc = "draw" => (Button \in keys <=> Says(down, backlog, Len(backlog), Button))
Aware == unaware # {} => "swallowed" \in excuses
\* A press in the backlog has waited there no longer than `lag`.
Lagging ==
    /\ PressesIn(backlog) = {} => lag = 0
    /\ PressesIn(backlog) # {} => lag >= 1
    /\ lag = Debounce => "late" \in excuses
Undisturbed == "swallowed" \notin excuses /\ "late" \notin excuses
\* What may still fire: a press not yet read, a raw edge, ImGui's edge in this frame,
\* a press in the backlog that no firing since it was read answers.
Pending ==
    \/ RealIn(keys, queue) # {}
    \/ Key \in keys /\ ~wasDown
    \/ pc = "draw" /\ edge /\ since = Debounce
    \/ PressesIn(backlog) # {} /\ lag <= since
Answerable == Undisturbed => ~twice /\ (Pending => unfired >= 1)
\* A press due has not reached ImGui's edge.
DueCounted ==
    excuses = {} =>
        due <= Cardinality(RealIn(keys, queue)) + Cardinality(PressesIn(backlog))
               + (IF pc = "draw" /\ edge THEN 1 ELSE 0)

RoutingInv ==
    /\ InputTypeOK /\ unfired <= presses[Key] /\ Alternating(down, backlog)
    /\ HeldKnown /\ DrawnEmpty /\ Agreeing /\ Following /\ Aware /\ Lagging
    /\ Answerable /\ DueCounted

LEMMA TypedWell ==
    ASSUME InputTypeOK
    PROVE  /\ Typed /\ queue \in Seq(InputEvents)
           /\ lag \in Nat /\ since \in Nat /\ due \in Nat /\ unfired \in Nat /\ due <= unfired
           /\ lag <= Debounce /\ since <= Debounce
           /\ Debounce \in Nat /\ Debounce # 0
<1>1. InputEvents \subseteq Events
    BY DEF InputEvents, Events
<1>2. queue \in Seq(InputEvents) /\ backlog \in Seq(Events)
    BY DEF InputTypeOK, InputEvents, Events
<1>3. queue \in Seq(Events)
    BY <1>1, <1>2
<1>4. Debounce \in Nat /\ Debounce # 0 /\ MaxPresses[Key] \in Nat
    BY InputAssumption
<1>5. since \in 0..Debounce /\ lag \in 0..Debounce /\ unfired \in 0..MaxPresses[Key] /\ due \in 0..unfired
    BY DEF InputTypeOK
<1> QED BY <1>2, <1>3, <1>4, <1>5 DEF InputTypeOK, Typed

LEMMA RealInFinite ==
    ASSUME NEW s, NEW q \in Seq(Events)
    PROVE  IsFiniteSet(RealIn(s, q)) /\ Cardinality(RealIn(s, q)) \in Nat
<1>1. IsFiniteSet(1..Len(q))
    BY FS_Interval
<1>2. RealIn(s, q) \subseteq 1..Len(q)
    BY DEF RealIn
<1> QED BY <1>1, <1>2, FS_Subset, FS_CardinalityType

LEMMA RealInAppended ==
    ASSUME NEW s, NEW q \in Seq(Events), NEW e \in Events
    PROVE  IF e = Event(Key, "down") /\ ~Says(s, q, Len(q), Key)
           THEN Cardinality(RealIn(s, Append(q, e))) = Cardinality(RealIn(s, q)) + 1
           ELSE RealIn(s, Append(q, e)) = RealIn(s, q)
<1> DEFINE r == Append(q, e)
           n == Len(q)
<1>1. n \in Nat /\ Len(r) = n + 1 /\ r[n + 1] = e /\ \A j \in 1..n : r[j] = q[j]
    OBVIOUS
<1>2. \A m \in 0..n : Says(s, r, m, Key) <=> Says(s, q, m, Key)
    BY SaysAppended
<1> HIDE DEF r, n
<1>3. \A j \in 1..(n + 1) : j = n + 1 \/ (j \in 1..n /\ j - 1 \in 0..n)
    BY <1>1
<1>4. \A j \in 1..n : j \in 1..(n + 1) /\ j # n + 1 /\ j - 1 \in 0..n
    BY <1>1
<1>5. (n + 1) - 1 = n /\ n \in 0..n /\ n + 1 \in 1..(n + 1)
    BY <1>1
<1>6. IsFiniteSet(RealIn(s, q)) /\ Cardinality(RealIn(s, q)) \in Nat
    BY RealInFinite
<1>7. CASE e = Event(Key, "down") /\ ~Says(s, q, n, Key)
    <2>1. RealIn(s, r) = RealIn(s, q) \cup {n + 1}
        BY <1>1, <1>2, <1>3, <1>4, <1>5, <1>7 DEF RealIn, n
    <2>2. n + 1 \notin RealIn(s, q)
        BY <1>4 DEF RealIn, n
    <2>3. Cardinality(RealIn(s, q) \cup {n + 1}) = Cardinality(RealIn(s, q)) + 1
        BY <1>6, <2>2, FS_AddElement
    <2> QED BY <1>7, <2>1, <2>3 DEF r, n
<1>8. CASE ~(e = Event(Key, "down") /\ ~Says(s, q, n, Key))
    <2>1. RealIn(s, r) = RealIn(s, q)
        BY <1>1, <1>2, <1>3, <1>4, <1>5, <1>8 DEF RealIn, n
    <2> QED BY <1>8, <2>1 DEF r, n
<1> QED BY <1>7, <1>8

LEMMA NothingQueued ==
    ASSUME NEW s
    PROVE  /\ RealIn(s, <<>>) = {} /\ Cardinality(RealIn(s, <<>>)) = 0
           /\ \A i : Says(s, <<>>, Len(<<>>), i) <=> i \in s
<1>1. Len(<<>>) = 0
    OBVIOUS
<1>2. RealIn(s, <<>>) = {}
    BY <1>1 DEF RealIn
<1> QED BY <1>1, <1>2, SaysNothing, FS_EmptySet

\* What the user does, but for the counts.
LEMMA QueueGrows ==
    ASSUME RoutingInv, NEW i \in Inputs, NEW way \in {"down", "up"},
           Len(queue) < MaxQueue, queue' = Append(queue, Event(i, way)), pc # "draw",
           held' = (IF way = "down" THEN held \cup {i} ELSE held \ {i}),
           UNCHANGED <<program, thread, twice, lag, excuses, unaware>>
    PROVE  /\ queue' \in Seq(InputEvents) /\ Len(queue') <= MaxQueue /\ held' \subseteq Inputs
           /\ HeldKnown' /\ DrawnEmpty' /\ Agreeing' /\ Following' /\ Aware' /\ Lagging'
           /\ Alternating(down', backlog')
<1> DEFINE e == Event(i, way)
<1>1. e \in InputEvents /\ e \in Events /\ e.input = i /\ e.way = way
    BY DEF Event, InputEvents, Events
<1>2. queue \in Seq(InputEvents) /\ queue \in Seq(Events)
    BY TypedWell DEF RoutingInv, Typed
<1>3. queue' = Append(queue, e)
    OBVIOUS
<1> HIDE DEF e
<1>4. /\ keys' = keys /\ down' = down /\ backlog' = backlog /\ lag' = lag /\ pc' = pc
      /\ excuses' = excuses /\ unaware' = unaware
    BY DEF program, thread
<1>5. Len(queue') = Len(queue) + 1 /\ Len(queue) \in Nat /\ MaxQueue \in Nat
    BY <1>1, <1>2, <1>3, InputAssumption
<1>6. queue' \in Seq(InputEvents) /\ Len(queue') <= MaxQueue
    BY <1>1, <1>2, <1>3, <1>5
<1>7. held' \subseteq Inputs
    BY DEF RoutingInv, InputTypeOK
<1>8. HeldKnown'
    <2> SUFFICES ASSUME NEW x \in Inputs PROVE x \in held' <=> Says(keys, queue', Len(queue'), x)
        BY <1>4 DEF HeldKnown, Inputs, Keys
    <2> DEFINE r == Append(queue, e)
    <2>1. /\ e.input = x => (Says(keys, r, Len(queue) + 1, x) <=> e.way = "down")
          /\ e.input # x => (Says(keys, r, Len(queue) + 1, x) <=> Says(keys, queue, Len(queue), x))
        BY <1>1, <1>2, SaysAppended
    <2>3. queue' = r
        BY <1>3
    <2> HIDE DEF r
    <2>2. x \in held <=> Says(keys, queue, Len(queue), x)
        BY DEF RoutingInv, HeldKnown
    <2> QED BY <1>1, <1>5, <2>1, <2>2, <2>3
<1>9. DrawnEmpty' /\ Agreeing' /\ Following' /\ Aware' /\ Lagging' /\ Alternating(down', backlog')
    BY <1>4 DEF RoutingInv, DrawnEmpty, Agreeing, Following, Aware, Lagging
<1> QED BY <1>6, <1>7, <1>8, <1>9

\* The queue grew by nothing that counts.
LEMMA CountsKept ==
    ASSUME RoutingInv, UNCHANGED <<program, thread, twice, lag, excuses, unaware, unfired, due>>,
           RealIn(keys, queue') = RealIn(keys, queue)
    PROVE  Answerable' /\ DueCounted'
<1>1. /\ keys' = keys /\ backlog' = backlog /\ lag' = lag /\ pc' = pc /\ excuses' = excuses
      /\ wasDown' = wasDown /\ edge' = edge /\ since' = since /\ twice' = twice
      /\ unfired' = unfired /\ due' = due
    BY DEF program, thread
<1>2. Answerable /\ DueCounted
    BY DEF RoutingInv
<1>3. RealIn(keys', queue') = RealIn(keys, queue)
    BY <1>1
<1>4. Answerable'
    BY <1>1, <1>2, <1>3 DEF Answerable, Pending, Undisturbed
<1>5. DueCounted'
    BY <1>1, <1>2, <1>3 DEF DueCounted
<1> QED BY <1>4, <1>5

LEMMA PressKeeps ==
    ASSUME RoutingInv, NEW i \in Inputs, Press(i)
    PROVE  RoutingInv'
<1> DEFINE e == Event(i, "down")
<1>1. /\ queue \in Seq(Events) /\ due \in Nat /\ unfired \in Nat /\ due <= unfired
      /\ keys \in SUBSET Inputs
    BY TypedWell DEF RoutingInv, Typed
<1>2. /\ queue' = Append(queue, e) /\ i \notin held /\ Len(queue) < MaxQueue /\ pc # "draw"
      /\ held' = held \cup {i} /\ presses[i] < MaxPresses[i]
      /\ presses' = [presses EXCEPT ![i] = @ + 1]
      /\ UNCHANGED <<program, thread, twice, lag, excuses, unaware>>
    BY DEF Press
<1>3. e \in Events /\ (e = Event(Key, "down") <=> i = Key)
    BY DEF Event, Events
<1>4. /\ queue' \in Seq(InputEvents) /\ Len(queue') <= MaxQueue /\ held' \subseteq Inputs
      /\ HeldKnown' /\ DrawnEmpty' /\ Agreeing' /\ Following' /\ Aware' /\ Lagging'
      /\ Alternating(down', backlog')
    <2>1. "down" \in {"down", "up"} /\ held' = (IF "down" = "down" THEN held \cup {i} ELSE held \ {i})
        BY <1>2
    <2> QED BY <1>2, <2>1, QueueGrows
<1> HIDE DEF e
<1>5. /\ keys' = keys /\ down' = down /\ backlog' = backlog /\ lag' = lag /\ pc' = pc
      /\ excuses' = excuses /\ unaware' = unaware /\ edge' = edge /\ wasDown' = wasDown
      /\ since' = since /\ recreations' = recreations /\ twice' = twice
    BY <1>2 DEF program, thread
<1>6. /\ presses \in [Inputs -> Nat] /\ \A x \in Inputs : presses[x] <= MaxPresses[x]
      /\ MaxPresses \in [Inputs -> Nat] /\ unfired <= presses[Key] /\ Key \in Inputs
    BY InputAssumption DEF RoutingInv, InputTypeOK, Inputs, Keys
<1>7. presses' \in [Inputs -> Nat] /\ \A x \in Inputs : presses'[x] <= MaxPresses[x]
    BY <1>2, <1>6
<1>8. CASE i = Key
    <2>1. unfired' = unfired + 1 /\ due' \in {due, due + 1} /\ presses'[Key] = presses[Key] + 1
        BY <1>2, <1>6, <1>8 DEF Press
    <2>2. unfired' <= presses'[Key] /\ unfired' \in Nat /\ due' \in Nat /\ due' <= unfired'
        BY <1>1, <1>6, <2>1
    <2>3. unfired' \in 0..MaxPresses[Key] /\ due' \in 0..unfired'
        BY <1>6, <1>7, <2>2
    <2>4. InputTypeOK'
        BY <1>4, <1>5, <1>7, <2>3 DEF RoutingInv, InputTypeOK, InputEvents
    <2>5. Answerable'
        BY <1>1, <1>5, <2>1 DEF RoutingInv, Answerable, Undisturbed
    <2>6. ~Says(keys, queue, Len(queue), Key)
        BY <1>2, <1>6, <1>8 DEF RoutingInv, HeldKnown
    <2>7. Cardinality(RealIn(keys, Append(queue, e))) = Cardinality(RealIn(keys, queue)) + 1
        BY <1>1, <1>3, <1>8, <2>6, RealInAppended
    <2>8. /\ Cardinality(RealIn(keys, queue)) \in Nat /\ Cardinality(PressesIn(backlog)) \in Nat
          /\ (pc = "draw" /\ edge) = FALSE
        BY <1>1, <1>2, TypedWell, RealInFinite, PressesFinite DEF RoutingInv, Typed
    <2>9. DueCounted
        BY DEF RoutingInv
    <2>10. DueCounted'
        BY <1>1, <1>2, <1>5, <2>1, <2>7, <2>8, <2>9 DEF DueCounted
    <2> QED BY <1>4, <2>2, <2>4, <2>5, <2>10 DEF RoutingInv
<1>9. CASE i # Key
    <2>1. unfired' = unfired /\ due' = due /\ presses'[Key] = presses[Key]
        BY <1>2, <1>6, <1>9 DEF Press
    <2>2. RealIn(keys, Append(queue, e)) = RealIn(keys, queue)
        BY <1>1, <1>3, <1>9, RealInAppended
    <2>3. Answerable' /\ DueCounted'
        BY <1>2, <2>1, <2>2, CountsKept
    <2>4. InputTypeOK'
        BY <1>4, <1>5, <1>7, <2>1 DEF RoutingInv, InputTypeOK, InputEvents
    <2> QED BY <1>4, <1>6, <2>1, <2>3, <2>4 DEF RoutingInv
<1> QED BY <1>8, <1>9

LEMMA ReleaseKeeps ==
    ASSUME RoutingInv, NEW i \in Inputs, Release(i)
    PROVE  RoutingInv'
<1> DEFINE e == Event(i, "up")
<1>1. queue \in Seq(Events) /\ unfired <= presses[Key]
    BY TypedWell DEF RoutingInv, Typed
<1>2. /\ queue' = Append(queue, e) /\ Len(queue) < MaxQueue /\ pc # "draw"
      /\ held' = held \ {i} /\ UNCHANGED <<presses, program, thread, history>>
    BY DEF Release
<1>3. e \in Events /\ e # Event(Key, "down")
    BY DEF Event, Events
<1>4. UNCHANGED <<program, thread, twice, lag, excuses, unaware, unfired, due>>
    BY <1>2 DEF history
<1>5. /\ queue' \in Seq(InputEvents) /\ Len(queue') <= MaxQueue /\ held' \subseteq Inputs
      /\ HeldKnown' /\ DrawnEmpty' /\ Agreeing' /\ Following' /\ Aware' /\ Lagging'
      /\ Alternating(down', backlog')
    <2>1. "up" \in {"down", "up"} /\ held' = (IF "up" = "down" THEN held \cup {i} ELSE held \ {i})
        BY <1>2
    <2> QED BY <1>2, <1>4, <2>1, QueueGrows
<1> HIDE DEF e
<1>6. RealIn(keys, Append(queue, e)) = RealIn(keys, queue)
    BY <1>1, <1>3, RealInAppended
<1>7. Answerable' /\ DueCounted'
    BY <1>2, <1>4, <1>6, CountsKept
<1>8. InputTypeOK'
    BY <1>2, <1>4, <1>5 DEF RoutingInv, InputTypeOK, InputEvents, program, thread
<1> QED BY <1>1, <1>2, <1>4, <1>5, <1>7, <1>8 DEF RoutingInv

\* A key held repeats what the window knows.
LEMMA RepeatKeeps ==
    ASSUME RoutingInv, Repeat
    PROVE  RoutingInv'
<1> DEFINE e == Event(Key, "down")
<1>1. queue \in Seq(Events) /\ unfired <= presses[Key] /\ Key \in Inputs
    BY TypedWell DEF RoutingInv, Typed, Inputs, Keys
<1>2. e \in Events /\ Append(<<>>, e) = <<e>> /\ Len(<<>>) = 0
    BY <1>1 DEF Event, Events
<1>3. /\ queue' = Append(queue, e) /\ Len(queue) < MaxQueue /\ pc # "draw" /\ queue = <<>>
      /\ Key \in held /\ held' = held /\ UNCHANGED <<presses, program, thread, history>>
    BY <1>2, InputAssumption DEF Repeat, user
<1>4. UNCHANGED <<program, thread, twice, lag, excuses, unaware, unfired, due>>
    BY <1>3 DEF history
<1>5. /\ queue' \in Seq(InputEvents) /\ Len(queue') <= MaxQueue /\ held' \subseteq Inputs
      /\ HeldKnown' /\ DrawnEmpty' /\ Agreeing' /\ Following' /\ Aware' /\ Lagging'
      /\ Alternating(down', backlog')
    <2>1. /\ "down" \in {"down", "up"}
          /\ held' = (IF "down" = "down" THEN held \cup {Key} ELSE held \ {Key})
        BY <1>3
    <2> QED BY <1>1, <1>3, <1>4, <2>1, QueueGrows
<1> HIDE DEF e
<1>6. Says(keys, queue, Len(queue), Key)
    BY <1>1, <1>3 DEF RoutingInv, HeldKnown
<1>7. RealIn(keys, Append(queue, e)) = RealIn(keys, queue)
    BY <1>1, <1>2, <1>6, RealInAppended
<1>8. Answerable' /\ DueCounted'
    BY <1>3, <1>4, <1>7, CountsKept
<1>9. InputTypeOK'
    BY <1>3, <1>4, <1>5 DEF RoutingInv, InputTypeOK, InputEvents, program, thread
<1> QED BY <1>1, <1>3, <1>4, <1>5, <1>8, <1>9 DEF RoutingInv

LEMMA DrawKeeps ==
    ASSUME RoutingInv, Draw
    PROVE  RoutingInv'
<1> DEFINE fires(typing) == PressedEdge /\ ~typing /\ Modified
<1>1. PICK typing \in BOOLEAN :
         /\ unfired' = IF fires(typing) /\ unfired > 0 THEN unfired - 1 ELSE unfired
         /\ due' = IF fires(typing) /\ due > 0 THEN due - 1 ELSE due
         /\ twice' = (twice \/ (fires(typing) /\ unfired = 0))
         /\ excuses' = IF SomeEdge /\ (typing \/ since < Debounce \/ ~Modified)
                      THEN excuses \cup {"spent"} ELSE excuses
    BY DEF Draw
<1>2. /\ pc = "draw" /\ pc' \in {"update", "recreate"} /\ recreations' \in 0..MaxRecreations
      /\ wasDown' = (Key \in keys) /\ since' = (IF PressedEdge THEN 0 ELSE since)
      /\ UNCHANGED <<user, queue, keys, backlog, down, edge, lag, unaware>>
    <2>1. MaxRecreations \in Nat /\ recreations \in 0..MaxRecreations
        BY InputAssumption DEF RoutingInv, InputTypeOK
    <2> QED BY <2>1 DEF Draw, TurnEnds, Outdated
<1>3. /\ held' = held /\ presses' = presses /\ queue' = queue /\ keys' = keys /\ backlog' = backlog
      /\ down' = down /\ edge' = edge /\ lag' = lag /\ unaware' = unaware
    BY <1>2 DEF user
<1>4. /\ lag \in Nat /\ since \in Nat /\ due \in Nat /\ unfired \in Nat /\ due <= unfired
      /\ lag <= Debounce /\ since <= Debounce /\ Debounce \in Nat /\ Debounce # 0
      /\ queue = <<>> /\ backlog \in Seq(Events)
    BY <1>2, TypedWell DEF RoutingInv, Typed, DrawnEmpty
<1>5. unfired' \in Nat /\ unfired' <= unfired /\ due' \in Nat /\ due' <= due /\ due' <= unfired'
    <2>1. CASE fires(typing)
        <3> HIDE DEF fires
        <3> QED BY <1>1, <1>4, <2>1
    <2>2. CASE ~fires(typing)
        <3> HIDE DEF fires
        <3> QED BY <1>1, <1>4, <2>2
    <2> QED BY <2>1, <2>2
<1>6. excuses \subseteq excuses' /\ excuses' \subseteq excuses \cup {"spent"}
    BY <1>1
<1>7. since' \in 0..Debounce
    BY <1>2, <1>4
<1>8. InputTypeOK'
    <2>1. twice' \in BOOLEAN /\ wasDown' \in BOOLEAN
        <3>1. (twice \/ (fires(typing) /\ unfired = 0)) \in BOOLEAN
            OBVIOUS
        <3>2. twice' \in BOOLEAN
            BY <1>1, <3>1
        <3>3. wasDown' \in BOOLEAN
            BY <1>2
        <3> QED BY <3>2, <3>3
    <2>2. unfired' \in 0..MaxPresses[Key] /\ due' \in 0..unfired'
        <3>1. unfired \in 0..MaxPresses[Key] /\ MaxPresses[Key] \in Nat
            BY InputAssumption DEF RoutingInv, InputTypeOK
        <3> QED BY <1>4, <1>5, <3>1
    <2>3. excuses' \subseteq {"late", "spent", "swallowed"}
        BY <1>6 DEF RoutingInv, InputTypeOK
    <2> QED BY <1>2, <1>3, <1>7, <2>1, <2>2, <2>3 DEF RoutingInv, InputTypeOK
<1>9. unfired' <= presses'[Key]
    <2>1. presses[Key] \in Nat /\ unfired <= presses[Key]
        BY DEF RoutingInv, InputTypeOK, Inputs, Keys
    <2> QED BY <1>3, <1>4, <1>5, <2>1
<1>10. HeldKnown' /\ DrawnEmpty' /\ Agreeing' /\ Following' /\ Alternating(down', backlog')
    BY <1>2, <1>3 DEF RoutingInv, HeldKnown, DrawnEmpty, Agreeing, Following, Inputs, Keys
<1>11. Aware' /\ Lagging'
    BY <1>3, <1>6 DEF RoutingInv, Aware, Lagging
<1>12. SomeEdge /\ since = Debounce => Pending
    BY <1>2 DEF SomeEdge, RawEdge, Pending
<1>13. Answerable'
    <2> SUFFICES ASSUME Undisturbed' PROVE ~twice' /\ (Pending' => unfired' >= 1)
        BY DEF Answerable
    <2>1. Undisturbed
        BY <1>6 DEF Undisturbed
    <2>2. ~twice /\ (Pending => unfired >= 1)
        BY <2>1 DEF RoutingInv, Answerable
    <2>3. ~twice'
        <3>1. PressedEdge => SomeEdge /\ since = Debounce
            BY <1>4 DEF PressedEdge
        <3>2. PressedEdge => unfired # 0
            BY <1>4, <1>12, <2>2, <3>1
        <3> QED BY <1>1, <2>2, <3>2, Zenon
    <2>4. ASSUME Pending' PROVE PressesIn(backlog) # {} /\ lag <= since'
        <3>1. RealIn(keys', queue') = {}
            BY <1>3, <1>4, NothingQueued
        <3>2. ~(Key \in keys' /\ ~wasDown') /\ pc' # "draw"
            BY <1>2, <1>3
        <3> QED BY <1>3, <2>4, <3>1, <3>2 DEF Pending
    <2>5. ASSUME Pending' PROVE unfired' >= 1
        <3>1. lag >= 1 /\ lag <= since'
            BY <2>4, <2>5 DEF RoutingInv, Lagging
        <3>2. ~PressedEdge
            BY <1>2, <1>4, <3>1
        <3>3. Pending
            BY <1>2, <2>4, <2>5, <3>2 DEF Pending
        <3>4. unfired' = unfired
            BY <1>1, <3>2
        <3> QED BY <2>2, <3>3, <3>4
    <2> QED BY <2>3, <2>5
<1>14. DueCounted'
    <2> SUFFICES ASSUME excuses' = {}
                 PROVE  due' <= Cardinality(RealIn(keys', queue')) + Cardinality(PressesIn(backlog'))
                            + (IF pc' = "draw" /\ edge' THEN 1 ELSE 0)
        BY DEF DueCounted
    <2>1. excuses = {} /\ "spent" \notin excuses'
        BY <1>6
    <2>2. SomeEdge => ~typing /\ Modified /\ ~(since < Debounce)
        BY <1>1, <2>1
    <2>3. Cardinality(RealIn(keys, queue)) = 0 /\ Cardinality(PressesIn(backlog)) \in Nat
        BY <1>4, NothingQueued, PressesFinite
    <2>4. due <= 0 + Cardinality(PressesIn(backlog)) + (IF edge THEN 1 ELSE 0)
        BY <1>2, <2>1, <2>3 DEF RoutingInv, DueCounted
    <2>5. (IF pc' = "draw" /\ edge' THEN 1 ELSE 0) = 0
        BY <1>2
    <2>6. due' <= Cardinality(PressesIn(backlog))
        <3>1. CASE edge
            <4>1. SomeEdge
                BY <3>1 DEF SomeEdge
            <4>2. fires(typing)
                BY <1>4, <2>2, <4>1 DEF PressedEdge
            <4> HIDE DEF fires
            <4> QED BY <1>1, <1>4, <2>3, <2>4, <4>2
        <3>2. CASE ~edge
            BY <1>4, <1>5, <2>3, <2>4, <3>2
        <3> QED BY <3>1, <3>2
    <2> QED BY <1>3, <1>5, <2>3, <2>5, <2>6
<1> QED BY <1>8, <1>9, <1>10, <1>11, <1>13, <1>14 DEF RoutingInv

LEMMA DropKeeps ==
    ASSUME RoutingInv, Drop
    PROVE  RoutingInv'
<1>1. /\ pc = "draw" /\ pc' = "recreate" /\ recreations' \in 0..MaxRecreations
      /\ excuses' = excuses \cup (IF edge THEN {"spent"} ELSE {})
      /\ UNCHANGED <<user, queue, program, unfired, due, twice, lag, unaware>>
    <2>1. MaxRecreations \in Nat /\ recreations \in 0..MaxRecreations
        BY InputAssumption DEF RoutingInv, InputTypeOK
    <2> QED BY <2>1 DEF Drop, Outdated
<1>2. /\ held' = held /\ presses' = presses /\ queue' = queue /\ keys' = keys /\ backlog' = backlog
      /\ down' = down /\ edge' = edge /\ wasDown' = wasDown /\ since' = since /\ unfired' = unfired
      /\ due' = due /\ twice' = twice /\ lag' = lag /\ unaware' = unaware
    BY <1>1 DEF user, program
<1>3. excuses \subseteq excuses' /\ excuses' \subseteq excuses \cup {"spent"}
    BY <1>1
<1>4. InputTypeOK'
    BY <1>1, <1>2, <1>3 DEF RoutingInv, InputTypeOK
<1>5. HeldKnown' /\ DrawnEmpty' /\ Agreeing' /\ Following' /\ Alternating(down', backlog')
    BY <1>1, <1>2 DEF RoutingInv, HeldKnown, DrawnEmpty, Agreeing, Following, Inputs, Keys
<1>6. Aware' /\ Lagging'
    BY <1>2, <1>3 DEF RoutingInv, Aware, Lagging
<1>7. Answerable'
    <2>1. Undisturbed' => Undisturbed
        BY <1>3 DEF Undisturbed
    <2>2. Pending' => Pending
        BY <1>1, <1>2 DEF Pending
    <2> QED BY <1>2, <2>1, <2>2 DEF RoutingInv, Answerable
<1>8. DueCounted'
    <2>1. excuses' = {} => excuses = {} /\ ~edge
        BY <1>1
    <2> QED BY <1>1, <1>2, <2>1 DEF RoutingInv, DueCounted
<1> QED BY <1>2, <1>4, <1>5, <1>6, <1>7, <1>8 DEF RoutingInv

\* A window update leaves the states that the user left.
LEMMA QueueRead ==
    ASSUME RoutingInv, keys' = KeysAfter, queue' = <<>>, held' = held
    PROVE  /\ HeldKnown' /\ keys' \in SUBSET Inputs /\ RealIn(keys', queue') = {}
           /\ queue' \in Seq(InputEvents) /\ Len(queue') <= MaxQueue
<1>1. Typed
    BY TypedWell DEF RoutingInv
<1>2. /\ KeysAfter \in SUBSET Inputs
      /\ \A i \in Inputs : i \in KeysAfter <=> Says(keys, queue, Len(queue), i)
    BY <1>1, KeysAfterIs
<1>3. HeldKnown'
    <2>1. \A i : Says(keys', <<>>, Len(<<>>), i) <=> i \in keys'
        BY NothingQueued
    <2> SUFFICES ASSUME NEW i \in Inputs PROVE i \in held' <=> Says(keys', queue', Len(queue'), i)
        BY DEF HeldKnown, Inputs, Keys
    <2>2. i \in held <=> Says(keys, queue, Len(queue), i)
        BY DEF RoutingInv, HeldKnown
    <2> QED BY <1>2, <2>1, <2>2
<1>4. RealIn(keys', queue') = {}
    BY NothingQueued
<1>5. Len(<<>>) = 0 /\ MaxQueue \in Nat
    BY InputAssumption
<1> QED BY <1>2, <1>3, <1>4, <1>5

LEMMA SwallowKeeps ==
    ASSUME RoutingInv, Swallow
    PROVE  RoutingInv'
<1> DEFINE missed == {queue[j].input : j \in DOMAIN queue} \cap Keys
<1>1. /\ pc = "recreate" /\ keys' = KeysAfter /\ queue' = <<>>
      /\ unaware' = unaware \cup missed
      /\ excuses' = excuses \cup (IF missed # {} THEN {"swallowed"} ELSE {})
      /\ UNCHANGED <<user, backlog, down, edge, wasDown, since, thread, unfired, due, twice, lag>>
    BY DEF Swallow
<1>2. /\ held' = held /\ presses' = presses /\ backlog' = backlog /\ pc' = pc
      /\ recreations' = recreations
      /\ down' = down /\ edge' = edge /\ wasDown' = wasDown /\ since' = since /\ unfired' = unfired
      /\ due' = due /\ twice' = twice /\ lag' = lag
    BY <1>1 DEF user, thread
<1>3. /\ HeldKnown' /\ keys' \in SUBSET Inputs /\ RealIn(keys', queue') = {}
      /\ queue' \in Seq(InputEvents) /\ Len(queue') <= MaxQueue
    BY <1>1, <1>2, QueueRead
<1>4. Typed /\ queue \in Seq(Events) /\ Len(queue) \in Nat /\ DOMAIN queue = 1..Len(queue)
      /\ Key \in Keys /\ Keys \subseteq Inputs
    BY TypedWell DEF RoutingInv, Typed, Keys, Inputs
<1>5. ASSUME NEW k \in Keys, k \notin missed PROVE k \in keys' <=> k \in keys
    <2>1. \A j \in 1..Len(queue) : queue[j].input # k
        BY <1>4, <1>5
    <2>2. Says(keys, queue, Len(queue), k) <=> Says(keys, queue, 0, k)
        <3>1. 0 \in Nat /\ 0 <= Len(queue)
            BY <1>4
        <3> QED BY <1>4, <2>1, <3>1, SaysQuiet
    <2>3. k \in KeysAfter <=> Says(keys, queue, Len(queue), k)
        BY <1>4, KeysAfterIs
    <2> QED BY <1>1, <2>2, <2>3, SaysNothing
<1>6. missed = {} => RealIn(keys, queue) = {}
    <2>1. Event(Key, "down").input = Key
        BY DEF Event
    <2> QED BY <1>4, <2>1 DEF RealIn
<1>7. missed \subseteq Keys
    OBVIOUS
<1> HIDE DEF missed
<1>8. excuses \subseteq excuses' /\ excuses' \subseteq excuses \cup {"swallowed"}
      /\ ("swallowed" \notin excuses' => missed = {})
    BY <1>1
<1>9. InputTypeOK'
    <2>1. unaware' \subseteq Keys /\ excuses' \subseteq {"late", "spent", "swallowed"}
        BY <1>1, <1>7, <1>8 DEF RoutingInv, InputTypeOK
    <2> QED BY <1>2, <1>3, <2>1 DEF RoutingInv, InputTypeOK, InputEvents
<1>10. Agreeing'
    <2> SUFFICES ASSUME NEW k \in Keys,
                        ~(k \in keys' <=> Says(down', backlog', Len(backlog'), k))
                 PROVE  k \in unaware'
        BY DEF Agreeing, Keys
    <2>1. CASE k \in missed
        BY <1>1, <2>1
    <2>2. CASE k \notin missed
        <3>1. ~(k \in keys <=> Says(down, backlog, Len(backlog), k))
            BY <1>2, <1>5, <2>2
        <3> QED BY <1>1, <3>1 DEF RoutingInv, Agreeing
    <2> QED BY <2>1, <2>2
<1>11. Aware' /\ Lagging' /\ DrawnEmpty' /\ Following' /\ Alternating(down', backlog')
    <2>1. Aware'
        BY <1>1, <1>8 DEF RoutingInv, Aware
    <2>2. Lagging'
        BY <1>2, <1>8 DEF RoutingInv, Lagging
    <2> QED BY <1>1, <1>2, <2>1, <2>2 DEF RoutingInv, DrawnEmpty, Following
<1>12. Answerable'
    <2> SUFFICES ASSUME Undisturbed' PROVE ~twice' /\ (Pending' => unfired' >= 1)
        BY DEF Answerable
    <2>1. Undisturbed /\ missed = {}
        BY <1>8 DEF Undisturbed
    <2>2. Key \in keys' <=> Key \in keys
        BY <1>4, <1>5, <2>1
    <2>3. Pending' => Pending
        BY <1>1, <1>2, <1>3, <2>2 DEF Pending
    <2> QED BY <1>2, <2>1, <2>3 DEF RoutingInv, Answerable
<1>13. DueCounted'
    <2>1. excuses' = {} => excuses = {} /\ RealIn(keys, queue) = {}
        BY <1>6, <1>8
    <2> QED BY <1>2, <1>3, <2>1 DEF RoutingInv, DueCounted
<1> QED BY <1>2, <1>3, <1>9, <1>10, <1>11, <1>12, <1>13 DEF RoutingInv

LEMMA OtherKeeps ==
    ASSUME RoutingInv, Recreated \/ UNCHANGED inputVars
    PROVE  RoutingInv'
<1>1. /\ UNCHANGED <<user, queue, program, recreations, history>>
      /\ pc' = pc \/ (pc' = "update" /\ pc # "draw")
    BY DEF Recreated, inputVars, thread
<1>2. /\ held' = held /\ presses' = presses /\ queue' = queue /\ keys' = keys /\ backlog' = backlog
      /\ down' = down /\ edge' = edge /\ wasDown' = wasDown /\ since' = since /\ unfired' = unfired
      /\ due' = due /\ twice' = twice /\ lag' = lag /\ unaware' = unaware /\ excuses' = excuses
      /\ recreations' = recreations
    BY <1>1 DEF user, program, history
<1>3. (pc' = "draw" <=> pc = "draw") /\ (pc \in {"update", "draw", "recreate"} => pc' \in {"update", "draw", "recreate"})
    BY <1>1
<1>4. InputTypeOK'
    BY <1>2, <1>3 DEF RoutingInv, InputTypeOK
<1>5. HeldKnown' /\ DrawnEmpty' /\ Agreeing' /\ Following' /\ Alternating(down', backlog')
    BY <1>2, <1>3 DEF RoutingInv, HeldKnown, DrawnEmpty, Agreeing, Following, Inputs, Keys
<1>6. Aware' /\ Lagging'
    BY <1>2 DEF RoutingInv, Aware, Lagging
<1>7. Answerable' /\ DueCounted'
    BY <1>2, <1>3 DEF RoutingInv, Answerable, Undisturbed, Pending, DueCounted
<1> QED BY <1>2, <1>4, <1>5, <1>6, <1>7 DEF RoutingInv

\* What one turn's update leaves, `q` being what ImGui has been told by then.
Updated(q, known, rest) ==
    /\ pc = "update" /\ pc' = "draw" /\ keys' = KeysAfter /\ queue' = <<>>
    /\ TellsAll(q) /\ TakenFrom(q, known, rest)
    /\ backlog' = rest /\ down' = known
    /\ edge' = (Key \in known /\ Key \notin down)
    /\ unaware' = {k \in unaware : ~(Believed(q, k) <=> k \in KeysAfter)}
    /\ PressesIn(rest) = {} => lag' = 0
    /\ PressesIn(rest) # {} => lag' = IF lag < Debounce THEN lag + 1 ELSE lag
    /\ since' = IF since < Debounce THEN since + 1 ELSE since
    /\ AtRest => unfired' = 0 /\ due' = 0 /\ twice' = FALSE /\ excuses' = {}
    /\ ~AtRest => /\ excuses' = excuses \cup (IF lag' = Debounce THEN {"late"} ELSE {})
                  /\ unfired' = unfired /\ due' = due /\ twice' = twice
    /\ held' = held /\ presses' = presses /\ recreations' = recreations /\ wasDown' = wasDown

LEMMA UpdateIs ==
    ASSUME RoutingInv, Update
    PROVE  \E q, known, rest : Updated(q, known, rest)
<1>1. Typed /\ Alternating(down, backlog) /\ down \in SUBSET Inputs
    BY TypedWell DEF RoutingInv, Typed
<1>2. PICK moved \in BOOLEAN :
         /\ backlog' = SubSeq(Told(moved), Taken(Told(moved)) + 1, Len(Told(moved)))
         /\ down' = After(down, SubSeq(Told(moved), 1, Taken(Told(moved))))
         /\ edge' = (Key \in After(down, SubSeq(Told(moved), 1, Taken(Told(moved)))) /\ Key \notin down)
         /\ unaware' = {k \in unaware : ~(Believed(Told(moved), k) <=> k \in KeysAfter)}
         /\ lag' = IF \A j \in DOMAIN SubSeq(Told(moved), Taken(Told(moved)) + 1, Len(Told(moved))) :
                          SubSeq(Told(moved), Taken(Told(moved)) + 1, Len(Told(moved)))[j]
                              # Event(Key, "down")
                   THEN 0 ELSE IF lag < Debounce THEN lag + 1 ELSE lag
    BY Zenon DEF Update
<1> DEFINE q == Told(moved)
           known == After(down, SubSeq(q, 1, Taken(q)))
           rest == SubSeq(q, Taken(q) + 1, Len(q))
<1>3. /\ backlog' = rest /\ down' = known /\ edge' = (Key \in known /\ Key \notin down)
      /\ unaware' = {k \in unaware : ~(Believed(q, k) <=> k \in KeysAfter)}
      /\ lag' = IF \A j \in DOMAIN rest : rest[j] # Event(Key, "down")
                THEN 0 ELSE IF lag < Debounce THEN lag + 1 ELSE lag
    BY <1>2, Zenon
<1>4. TellsAll(q)
    BY <1>1, ToldIs
<1> HIDE DEF q
<1>5. TakenFrom(q, known, rest)
    BY <1>1, <1>4, FrameTakes DEF TellsAll
<1> HIDE DEF known, rest
<1>6. rest \in Seq(Events) /\ DOMAIN rest = 1..Len(rest)
    BY <1>5 DEF TakenFrom
<1>7. PressesIn(rest) = {} <=> \A j \in DOMAIN rest : rest[j] # Event(Key, "down")
    BY <1>6 DEF PressesIn
<1>8. /\ pc = "update" /\ pc' = "draw" /\ keys' = KeysAfter /\ queue' = <<>>
      /\ since' = IF since < Debounce THEN since + 1 ELSE since
      /\ AtRest => unfired' = 0 /\ due' = 0 /\ twice' = FALSE /\ excuses' = {}
      /\ ~AtRest => /\ excuses' = excuses \cup (IF lag' = Debounce THEN {"late"} ELSE {})
                    /\ unfired' = unfired /\ due' = due /\ twice' = twice
      /\ held' = held /\ presses' = presses /\ recreations' = recreations /\ wasDown' = wasDown
    BY DEF Update, user
<1>9. Updated(q, known, rest)
    BY <1>3, <1>4, <1>5, <1>7, <1>8, Zenon DEF Updated
<1> QED BY <1>9

\* At rest there is nothing to hand on.
LEMMA RestingUpdate ==
    ASSUME RoutingInv, NEW q, NEW known, NEW rest, Updated(q, known, rest), AtRest
    PROVE  /\ ~(Key \in keys') /\ ~edge' /\ PressesIn(rest) = {} /\ unaware' = {}
<1>1. /\ queue = <<>> /\ backlog = <<>> /\ keys = {} /\ down = {}
      /\ Typed /\ TellsAll(q) /\ TakenFrom(q, known, rest) /\ Key \in Keys /\ Keys \subseteq Inputs
    BY TypedWell DEF AtRest, Updated, RoutingInv, Keys, Inputs
<1>2. \A i \in Inputs : i \notin KeysAfter
    BY <1>1, KeysAfterIs, NothingQueued
<1>3. \A i : ~Believed(backlog, i)
    <2>1. \A i : Believed(backlog, i) <=> Says(down, backlog, Len(backlog), i)
        BY <1>1, BelievedIs DEF Typed
    <2>2. \A i : ~Says(down, <<>>, Len(<<>>), i)
        BY <1>1, NothingQueued
    <2> QED BY <1>1, <2>1, <2>2
<1>4. \A k \in Keys : Believed(q, k) <=> k \in KeysAfter
    BY <1>1, <1>3 DEF TellsAll
<1>5. PressesIn(q) = {}
    <2>1. Real = {} /\ PressesIn(backlog) = {}
        <3>1. Len(<<>>) = 0 /\ Len(queue) = 0 /\ Len(backlog) = 0
            BY <1>1
        <3> QED BY <3>1 DEF Real, RealTo, PressesIn
    <2>2. Cardinality(PressesIn(q)) = 0
        <3>1. Key \in keys <=> Believed(backlog, Key)
            BY <1>1, <1>3
        <3>2. Cardinality(PressesIn(q)) = Cardinality(PressesIn(backlog)) + Cardinality(Real)
            BY <1>1, <3>1 DEF TellsAll
        <3>3. Cardinality(Real) = 0 /\ Cardinality(PressesIn(backlog)) = 0
            BY <2>1, FS_EmptySet
        <3> QED BY <3>2, <3>3
    <2>3. IsFiniteSet(PressesIn(q))
        BY <1>1, PressesFinite DEF TellsAll
    <2> QED BY <2>2, <2>3, FS_EmptySet
<1>6. ~(Key \in known /\ Key \notin down) /\ PressesIn(rest) = {}
    BY <1>1, <1>5 DEF TakenFrom
<1>7. keys' = KeysAfter /\ edge' = (Key \in known /\ Key \notin down)
      /\ unaware' = {k \in unaware : ~(Believed(q, k) <=> k \in KeysAfter)} /\ unaware \subseteq Keys
    BY DEF Updated, RoutingInv, InputTypeOK
<1>8. unaware' = {}
    BY <1>4, <1>7
<1>9. ~edge'
    BY <1>6, <1>7
<1> QED BY <1>1, <1>2, <1>6, <1>7, <1>8, <1>9

\* Nothing swallowed: ImGui is handed the presses of the backlog and of the queue.
LEMMA PressesHanded ==
    ASSUME RoutingInv, NEW q, TellsAll(q), "swallowed" \notin excuses
    PROVE  /\ Cardinality(PressesIn(q)) =
                  Cardinality(PressesIn(backlog)) + Cardinality(RealIn(keys, queue))
           /\ PressesIn(q) # {} => PressesIn(backlog) # {} \/ RealIn(keys, queue) # {}
<1>1. Typed /\ backlog \in Seq(Events) /\ queue \in Seq(Events) /\ q \in Seq(Events) /\ Key \in Keys
    BY TypedWell DEF RoutingInv, Typed, TellsAll, Keys
<1>2. Key \in keys <=> Believed(backlog, Key)
    <2>1. Key \notin unaware
        BY DEF RoutingInv, Aware
    <2>2. Believed(backlog, Key) <=> Says(down, backlog, Len(backlog), Key)
        BY <1>1, BelievedIs
    <2> QED BY <1>1, <2>1, <2>2 DEF RoutingInv, Agreeing
<1>3. Real = RealIn(keys, queue)
    BY DEF Real, RealTo, RealIn
<1>4. Cardinality(PressesIn(q)) = Cardinality(PressesIn(backlog)) + Cardinality(RealIn(keys, queue))
    BY <1>2, <1>3 DEF TellsAll
<1>5. IsFiniteSet(PressesIn(q))
    BY <1>1, PressesFinite
<1>6. ASSUME PressesIn(backlog) = {}, RealIn(keys, queue) = {} PROVE PressesIn(q) = {}
    <2>1. Cardinality(PressesIn(backlog)) = 0 /\ Cardinality(RealIn(keys, queue)) = 0
        BY <1>6, FS_EmptySet
    <2>2. Cardinality(PressesIn(q)) = 0
        BY <1>4, <2>1
    <2> QED BY <1>5, <2>2, FS_EmptySet
<1> QED BY <1>4, <1>6

\* A press that an update makes fire was pending before it.
LEMMA PendingBefore ==
    ASSUME RoutingInv, NEW q, NEW known, NEW rest, Updated(q, known, rest), ~AtRest,
           Undisturbed', Pending'
    PROVE  Undisturbed /\ Pending
<1>1. /\ Typed /\ queue \in Seq(Events) /\ Len(queue) \in Nat /\ keys \in SUBSET Inputs
      /\ lag \in Nat /\ since \in Nat /\ lag <= Debounce /\ since <= Debounce /\ Debounce \in Nat
      /\ Key \in Inputs
    BY TypedWell DEF RoutingInv, Typed, Inputs, Keys
<1>2. /\ TellsAll(q) /\ TakenFrom(q, known, rest) /\ keys' = KeysAfter /\ queue' = <<>>
      /\ backlog' = rest /\ down' = known /\ edge' = (Key \in known /\ Key \notin down)
      /\ wasDown' = wasDown /\ excuses' = excuses \cup (IF lag' = Debounce THEN {"late"} ELSE {})
      /\ since' = IF since < Debounce THEN since + 1 ELSE since
      /\ PressesIn(rest) # {} => lag' = IF lag < Debounce THEN lag + 1 ELSE lag
    BY DEF Updated
<1>3. Undisturbed /\ lag' # Debounce /\ "swallowed" \notin excuses /\ lag < Debounce
    <2>1. Undisturbed /\ lag' # Debounce /\ "swallowed" \notin excuses /\ "late" \notin excuses
        BY <1>2 DEF Undisturbed
    <2>2. lag # Debounce
        BY <2>1 DEF RoutingInv, Lagging
    <2> QED BY <1>1, <2>1, <2>2
<1>4. RealIn(keys', queue') = {}
    BY <1>2, NothingQueued
<1>5. CASE Key \in keys' /\ ~wasDown'
    <2>1. CASE Key \in keys
        BY <1>2, <1>3, <1>5, <2>1 DEF Pending
    <2>2. CASE Key \notin keys
        <3>1. Says(keys, queue, Len(queue), Key)
            BY <1>1, <1>2, <1>5, KeysAfterIs
        <3>2. PICK j \in 1..Len(queue) :
                 queue[j].input = Key /\ queue[j].way = "down" /\ ~Says(keys, queue, j - 1, Key)
            BY <1>1, <2>2, <3>1, SaysRises
        <3>3. queue[j] = Event(Key, "down")
            <4>1. queue[j] \in Events
                BY <1>1
            <4> QED BY <3>2, <4>1 DEF Events, Event
        <3>4. RealIn(keys, queue) # {}
            BY <3>2, <3>3 DEF RealIn
        <3> QED BY <1>3, <3>4 DEF Pending
    <2> QED BY <2>1, <2>2
<1>6. ASSUME PressesIn(q) # {}, lag <= since PROVE Pending
    <2>1. PressesIn(backlog) # {} \/ RealIn(keys, queue) # {}
        BY <1>2, <1>3, <1>6, PressesHanded
    <2> QED BY <1>6, <2>1 DEF Pending
<1>7. CASE edge' /\ since' = Debounce
    <2>1. PressesIn(q) # {}
        BY <1>2, <1>7 DEF TakenFrom
    <2>2. lag <= since
        BY <1>1, <1>2, <1>3, <1>7
    <2> QED BY <1>3, <1>6, <2>1, <2>2
<1>8. CASE PressesIn(backlog') # {} /\ lag' <= since'
    <2>1. PressesIn(q) # {} /\ lag' = lag + 1
        BY <1>2, <1>3, <1>8 DEF TakenFrom
    <2>2. lag <= since
        BY <1>1, <1>2, <1>8, <2>1
    <2> QED BY <1>3, <1>6, <2>1, <2>2
<1> QED BY <1>4, <1>5, <1>7, <1>8 DEF Pending

LEMMA UpdateKeeps ==
    ASSUME RoutingInv, Update
    PROVE  RoutingInv'
<1>1. PICK q, known, rest : Updated(q, known, rest)
    BY UpdateIs
<1>2. /\ pc = "update" /\ pc' = "draw" /\ keys' = KeysAfter /\ queue' = <<>>
      /\ TellsAll(q) /\ TakenFrom(q, known, rest) /\ backlog' = rest /\ down' = known
      /\ edge' = (Key \in known /\ Key \notin down)
      /\ unaware' = {k \in unaware : ~(Believed(q, k) <=> k \in KeysAfter)}
      /\ PressesIn(rest) = {} => lag' = 0
      /\ PressesIn(rest) # {} => lag' = IF lag < Debounce THEN lag + 1 ELSE lag
      /\ since' = IF since < Debounce THEN since + 1 ELSE since
      /\ held' = held /\ presses' = presses /\ recreations' = recreations /\ wasDown' = wasDown
    BY <1>1 DEF Updated
<1>3. AtRest => unfired' = 0 /\ due' = 0 /\ twice' = FALSE /\ excuses' = {}
    BY <1>1 DEF Updated
<1>4. ~AtRest => /\ excuses' = excuses \cup (IF lag' = Debounce THEN {"late"} ELSE {})
                 /\ unfired' = unfired /\ due' = due /\ twice' = twice
    BY <1>1 DEF Updated
<1>5. /\ Typed /\ backlog \in Seq(Events) /\ queue \in Seq(Events)
      /\ lag \in Nat /\ since \in Nat /\ due \in Nat /\ unfired \in Nat /\ due <= unfired
      /\ lag <= Debounce /\ since <= Debounce /\ Debounce \in Nat /\ Debounce # 0
      /\ Key \in Keys /\ Keys \subseteq Inputs
    BY TypedWell DEF RoutingInv, Typed, Inputs, Keys
<1>6. /\ HeldKnown' /\ keys' \in SUBSET Inputs /\ RealIn(keys', queue') = {}
      /\ queue' \in Seq(InputEvents) /\ Len(queue') <= MaxQueue
    BY <1>2, QueueRead
<1>7. AtRest => ~(Key \in keys') /\ ~edge' /\ PressesIn(rest) = {} /\ unaware' = {}
    BY <1>1, RestingUpdate
<1>8. rest \in Seq(Events) /\ known \in SUBSET Inputs /\ Alternating(known, rest)
      /\ \A i \in Inputs : Says(known, rest, Len(rest), i) <=> Believed(q, i)
    BY <1>2 DEF TakenFrom
<1>9. lag' \in 0..Debounce /\ since' \in 0..Debounce
    BY <1>2, <1>5
<1>10. InputTypeOK'
    <2>1. edge' \in BOOLEAN
        <3>1. (Key \in known /\ Key \notin down) \in BOOLEAN
            OBVIOUS
        <3> QED BY <1>2, <3>1
    <2>2. excuses' \subseteq {"late", "spent", "swallowed"}
        BY <1>3, <1>4 DEF RoutingInv, InputTypeOK
    <2>3. /\ unfired' \in 0..MaxPresses[Key] /\ due' \in 0..unfired' /\ twice' \in BOOLEAN
        <3>1. MaxPresses[Key] \in Nat /\ 0 \in 0..MaxPresses[Key] /\ 0 \in 0..0
            BY InputAssumption
        <3>2. unfired \in 0..MaxPresses[Key] /\ due \in 0..unfired /\ twice \in BOOLEAN
            BY DEF RoutingInv, InputTypeOK
        <3>3. CASE AtRest
            BY <1>3, <3>1, <3>3
        <3>4. CASE ~AtRest
            BY <1>4, <3>2, <3>4
        <3> QED BY <3>3, <3>4
    <2>4. unaware' \subseteq Keys /\ wasDown' \in BOOLEAN /\ recreations' \in 0..MaxRecreations
        BY <1>2 DEF RoutingInv, InputTypeOK
    <2>5. /\ held' \subseteq Inputs /\ presses' \in [Inputs -> Nat]
          /\ \A i \in Inputs : presses'[i] <= MaxPresses[i]
        BY <1>2 DEF RoutingInv, InputTypeOK
    <2>6. /\ queue' \in Seq([input : Inputs, way : {"down", "up"}]) /\ keys' \subseteq Inputs
          /\ down' \subseteq Inputs
          /\ backlog' \in Seq([input : Inputs \cup {Motion}, way : {"down", "up"}])
        BY <1>2, <1>6, <1>8 DEF InputEvents, Events
    <2>7. pc' \in {"update", "draw", "recreate"}
        BY <1>2
    <2> QED BY <1>6, <1>9, <2>1, <2>2, <2>3, <2>4, <2>5, <2>6, <2>7, Zenon DEF InputTypeOK, Inputs, Keys
<1>11. unfired' <= presses'[Key]
    <2>1. presses[Key] \in Nat /\ unfired <= presses[Key]
        BY DEF RoutingInv, InputTypeOK, Inputs, Keys
    <2> QED BY <1>2, <1>3, <1>4, <2>1
<1>12. Alternating(down', backlog') /\ DrawnEmpty'
    BY <1>2, <1>8 DEF DrawnEmpty
<1>13. Agreeing'
    <2> SUFFICES ASSUME NEW k \in Keys,
                        ~(k \in keys' <=> Says(down', backlog', Len(backlog'), k))
                 PROVE  k \in unaware'
        BY DEF Agreeing, Keys
    <2>1. ~(Believed(q, k) <=> k \in KeysAfter)
        BY <1>2, <1>5, <1>8
    <2>2. ~(k \in keys <=> Believed(backlog, k))
        BY <1>2, <2>1 DEF TellsAll
    <2>3. Believed(backlog, k) <=> Says(down, backlog, Len(backlog), k)
        BY <1>5, BelievedIs
    <2>4. k \in unaware
        BY <2>2, <2>3 DEF RoutingInv, Agreeing
    <2> QED BY <1>2, <2>1, <2>4
<1>14. Following'
    <2>1. Button \in Inputs /\ (Believed(q, Button) <=> Button \in KeysAfter)
        BY <1>2 DEF TellsAll, Inputs
    <2> QED BY <1>2, <1>8, <2>1 DEF Following
<1>15. Aware'
    <2>1. unaware' \subseteq unaware
        BY <1>2
    <2>2. CASE AtRest
        BY <1>7, <2>2 DEF Aware
    <2>3. CASE ~AtRest
        BY <1>4, <2>1, <2>3 DEF RoutingInv, Aware
    <2> QED BY <2>2, <2>3
<1>16. Lagging'
    <2>1. PressesIn(rest) # {} => lag' >= 1
        BY <1>2, <1>5
    <2>2. lag' = Debounce => "late" \in excuses'
        <3>1. CASE AtRest
            BY <1>2, <1>5, <1>7, <3>1
        <3>2. CASE ~AtRest
            BY <1>4, <3>2
        <3> QED BY <3>1, <3>2
    <2> QED BY <1>2, <2>1, <2>2 DEF Lagging
<1>17. Answerable'
    <2> SUFFICES ASSUME Undisturbed' PROVE ~twice' /\ (Pending' => unfired' >= 1)
        BY DEF Answerable
    <2>1. CASE AtRest
        <3>1. ~Pending'
            BY <1>2, <1>6, <1>7, <2>1 DEF Pending
        <3> QED BY <1>3, <2>1, <3>1
    <2>2. CASE ~AtRest
        <3>1. Undisturbed
            BY <1>4, <2>2 DEF Undisturbed
        <3>2. ~twice /\ (Pending => unfired >= 1)
            BY <3>1 DEF RoutingInv, Answerable
        <3>3. Pending' => Pending
            BY <1>1, <2>2, PendingBefore
        <3> QED BY <1>4, <2>2, <3>2, <3>3
    <2> QED BY <2>1, <2>2
<1>18. DueCounted'
    <2> DEFINE one == IF Key \in known /\ Key \notin down THEN 1 ELSE 0
               b == Cardinality(PressesIn(backlog))
               r == Cardinality(RealIn(keys, queue))
               l == Cardinality(PressesIn(rest))
    <2> SUFFICES ASSUME excuses' = {} PROVE due' <= 0 + l + one
        <3>1. Cardinality(RealIn(keys', queue')) = 0
            BY <1>6, FS_EmptySet
        <3>2. (IF pc' = "draw" /\ edge' THEN 1 ELSE 0) = one
            BY <1>2
        <3>3. PressesIn(backlog') = PressesIn(rest)
            BY <1>2
        <3> HIDE DEF one
        <3> QED BY <3>1, <3>2, <3>3 DEF DueCounted
    <2>1. l \in Nat /\ b \in Nat /\ r \in Nat /\ one \in Nat
        BY <1>5, <1>8, PressesFinite, RealInFinite
    <2>2. CASE AtRest
        <3> HIDE DEF l, one
        <3> QED BY <1>3, <2>1, <2>2
    <2>3. CASE ~AtRest
        <3>1. excuses = {} /\ due' = due
            BY <1>4, <2>3
        <3>2. due <= r + b + 0
            BY <1>2, <3>1 DEF RoutingInv, DueCounted
        <3>3. Cardinality(PressesIn(q)) = b + r
            BY <1>2, <3>1, PressesHanded
        <3>4. Cardinality(PressesIn(q)) <= l + one
            BY <1>2 DEF TakenFrom
        <3> HIDE DEF l, one, b, r
        <3> QED BY <1>5, <2>1, <3>1, <3>2, <3>3, <3>4
    <2> QED BY <2>2, <2>3
<1> QED BY <1>6, <1>10, <1>11, <1>12, <1>13, <1>14, <1>15, <1>16, <1>17, <1>18 DEF RoutingInv

LEMMA RoutingStarts == InputInit => RoutingInv
<1> SUFFICES ASSUME InputInit PROVE RoutingInv
    OBVIOUS
<1>1. /\ held = {} /\ presses = [i \in Inputs |-> 0] /\ queue = <<>> /\ keys = {} /\ backlog = <<>>
      /\ down = {} /\ edge = FALSE /\ wasDown = FALSE /\ since = Debounce /\ pc = "update"
      /\ recreations = 0 /\ unfired = 0 /\ due = 0 /\ twice = FALSE /\ lag = 0 /\ excuses = {}
      /\ unaware = {}
    BY DEF InputInit
<1>2. /\ MaxPresses \in [Inputs -> Nat] /\ MaxQueue \in Nat /\ Debounce \in Nat /\ Debounce # 0
      /\ MaxRecreations \in Nat /\ Key \in Inputs
    BY InputAssumption DEF Inputs, Keys
<1>3. Len(<<>>) = 0
    OBVIOUS
<1>4. InputTypeOK
    <2>1. presses \in [Inputs -> Nat] /\ \A i \in Inputs : presses[i] <= MaxPresses[i]
        <3>1. \A i \in Inputs : presses[i] = 0 /\ MaxPresses[i] \in Nat
            BY <1>1, <1>2
        <3> QED BY <1>1, <3>1
    <2>2. /\ queue \in Seq([input : Inputs, way : {"down", "up"}]) /\ Len(queue) <= MaxQueue
          /\ backlog \in Seq([input : Inputs \cup {Motion}, way : {"down", "up"}])
        BY <1>1, <1>2, <1>3
    <2>3. /\ since \in 0..Debounce /\ recreations \in 0..MaxRecreations /\ lag \in 0..Debounce
          /\ unfired \in 0..MaxPresses[Key] /\ due \in 0..unfired
        <3>1. MaxPresses[Key] \in Nat
            BY <1>2
        <3> QED BY <1>1, <1>2, <3>1
    <2>4. /\ edge \in BOOLEAN /\ wasDown \in BOOLEAN /\ twice \in BOOLEAN
          /\ pc \in {"update", "draw", "recreate"}
        BY <1>1
    <2>5. /\ held \subseteq Inputs /\ keys \subseteq Inputs /\ down \subseteq Inputs
          /\ unaware \subseteq Keys /\ excuses \subseteq {"late", "spent", "swallowed"}
        BY <1>1
    <2> QED BY <2>1, <2>2, <2>3, <2>4, <2>5 DEF InputTypeOK
<1>5. unfired <= presses[Key]
    BY <1>1, <1>2
<1>6. Alternating(down, backlog) /\ PressesIn(backlog) = {}
    BY <1>1, <1>3 DEF Alternating, PressesIn
<1>7. HeldKnown /\ Agreeing
    BY <1>1, NothingQueued DEF HeldKnown, Agreeing
<1>8. DrawnEmpty /\ Following /\ Aware /\ Lagging
    BY <1>1, <1>2, <1>6 DEF DrawnEmpty, Following, Aware, Lagging
<1>9. Answerable /\ DueCounted
    <2>1. RealIn(keys, queue) = {} /\ ~Pending
        BY <1>1, <1>6, NothingQueued DEF Pending
    <2>2. Cardinality(RealIn(keys, queue)) = 0 /\ Cardinality(PressesIn(backlog)) = 0
        BY <1>6, <2>1, FS_EmptySet
    <2> QED BY <1>1, <2>1, <2>2 DEF Answerable, DueCounted
<1> QED BY <1>4, <1>5, <1>6, <1>7, <1>8, <1>9 DEF RoutingInv

LEMMA RoutingAnswers == RoutingInv => PressAnswered
<1> SUFFICES ASSUME RoutingInv PROVE PressAnswered
    OBVIOUS
<1>1. InputTypeOK
    BY DEF RoutingInv
<1>2. FiresOnce
    BY DEF RoutingInv, Answerable, Undisturbed, FiresOnce
<1>3. backlog \in Seq(Events) /\ due \in Nat
    BY TypedWell DEF RoutingInv, Typed
<1>4. DueAnswered
    <2> SUFFICES ASSUME pc = "update", queue = <<>>, backlog = <<>>, excuses = {} PROVE ~(due > 0)
        BY DEF DueAnswered
    <2>1. Cardinality(RealIn(keys, queue)) = 0
        BY NothingQueued
    <2>2. PressesIn(backlog) = {}
        <3>1. Len(<<>>) = 0
            OBVIOUS
        <3> QED BY <3>1 DEF PressesIn
    <2>3. Cardinality(PressesIn(backlog)) = 0
        BY <2>2, FS_EmptySet
    <2>4. due <= 0 + 0 + 0
        BY <2>1, <2>3 DEF RoutingInv, DueCounted
    <2> QED BY <1>3, <2>4
<1>5. \A i : Believed(backlog, i) <=> Says(down, backlog, Len(backlog), i)
    BY <1>3, BelievedIs
<1>6. KeyboardsAgree /\ ButtonFollows
    BY <1>5 DEF RoutingInv, Agreeing, Following, KeyboardsAgree, ButtonFollows
<1> QED BY <1>1, <1>2, <1>4, <1>6 DEF PressAnswered

\* However the events of the window and the frames interleave, a press of a shortcut
\* made with its modifier is answered by the time ImGui's backlog is worked off, fires
\* once although the window's key states and ImGui both show its edge, and window and
\* ImGui agree about the keys, but for what a text field, the debounce, a dropped turn
\* or a recreated swapchain took (window.cpp, imgui.cpp, DevTools::keyPressedEdge).
THEOREM PressesAlwaysAnswered == InputSpec => []PressAnswered
<1>1. RoutingInv /\ [InputNext]_inputVars => RoutingInv'
    <2> SUFFICES ASSUME RoutingInv, [InputNext]_inputVars PROVE RoutingInv'
        OBVIOUS
    <2>1. ASSUME NEW i \in Inputs, Press(i) PROVE RoutingInv'
        BY <2>1, PressKeeps
    <2>2. ASSUME NEW i \in Inputs, Release(i) PROVE RoutingInv'
        BY <2>2, ReleaseKeeps
    <2>3. CASE Repeat
        BY <2>3, RepeatKeeps
    <2>4. CASE Update
        BY <2>4, UpdateKeeps
    <2>5. CASE Draw
        BY <2>5, DrawKeeps
    <2>6. CASE Drop
        BY <2>6, DropKeeps
    <2>7. CASE Swallow
        BY <2>7, SwallowKeeps
    <2>8. CASE Recreated \/ UNCHANGED inputVars
        BY <2>8, OtherKeeps
    <2> QED BY <2>1, <2>2, <2>3, <2>4, <2>5, <2>6, <2>7, <2>8 DEF InputNext
<1> QED BY <1>1, RoutingStarts, RoutingAnswers, PTL DEF InputSpec
=============================================================================
