------------------------------- MODULE MCServer -------------------------------
(***************************************************************************)
(* The server's threads for TLC: what they do to the world (ServerWorld),  *)
(* to the sockets (TcpFrames), and in which order they and the client's    *)
(* take their mutexes (LockOrder: in one behaviour the threads of a server *)
(* move, in another those of a client).  The models share no state; a      *)
(* behaviour is about one of them, its `subject`, and the others keep the  *)
(* state they start in.                                                    *)
(***************************************************************************)
EXTENDS ServerWorld, TcpFrames, LockOrder, TLC

VARIABLE subject

\* The thread of one client beside the server's own; the threads of a client.
Process == [locks |-> {"main", "physics", "accept", "serve"},
            clientLocks |-> {"frame", "tcp", "udp"}]
Named == [t \in Thread |-> t]

-----------------------------------------------------------------------------
worldVars == <<tree, dirty, netParts, gameParts, mapData, handle, made, live, world, reg, target,
               kinematic, pending, fallen, ph, mn, raced, overlapped, touched>>
serverVars == <<subject, worldVars, framesVars, lockVars>>

ServerInit ==
    /\ subject \in {"world", "frames", "locks", "clientLocks"}
    /\ Init /\ FramesInit /\ LockInit

ServerNext ==
    /\ subject' = subject
    /\ \/ subject = "world" /\ Next /\ UNCHANGED <<framesVars, lockVars>>
       \/ subject = "frames" /\ FramesNext /\ UNCHANGED <<worldVars, lockVars>>
       \/ /\ subject \in {"locks", "clientLocks"}
          /\ LockNext /\ UNCHANGED <<worldVars, framesVars>>
          /\ \A t \in Thread \ Process[subject] : todo'[t] = todo[t]

ServerSpec == ServerInit /\ [][ServerNext]_serverVars
=============================================================================
