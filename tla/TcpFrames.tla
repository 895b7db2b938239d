---- MODULE TcpFrames ----
(***************************************************************************)
(* Frames on the sockets of the server: tcpframing::writeFramed and        *)
(* readFramed, called by the accept thread (handshake, PlayerJoined), by   *)
(* the thread of each client (kick, PlayerLeft) and by the main thread     *)
(* (kickAll).                                                              *)
(*                                                                         *)
(* A frame is a header and a body, written by two calls; a call blocks     *)
(* while the peer's buffer is full.  Broadcasts hold m_tcpClientsMutex for *)
(* all their calls; the handshake needs no lock, its socket being known to *)
(* nobody else; kickClient takes none either.  The reader takes the first  *)
(* unit that arrives for a header and as many as that announces for the    *)
(* body, whoever wrote them.  (A relayed packet is written like any other  *)
(* broadcast.)                                                             *)
(***************************************************************************)
EXTENDS Naturals, Sequences, FiniteSets

CONSTANTS
    Clients,
    Present,  \* the clients registered at first; the others join
    Accept, Main, \* the accept thread and the main thread
    Nobody,
    KickSize, \* units of a kick's body; other bodies are one unit
    Room      \* units a socket holds between server and client

ASSUME FramesAssumption ==
    /\ Present \subseteq Clients
    /\ Accept \notin Clients /\ Main \notin Clients /\ Accept # Main
    /\ Nobody \notin Clients \cup {Accept, Main}
    /\ KickSize \in Nat \ {0} /\ Room \in Nat \ {0}

VARIABLES
    registered, \* m_tcpClients
    mutex,      \* the thread that holds m_tcpClientsMutex, or Nobody
    job,        \* what each thread writes
    served,     \* the clients the accept thread has dealt with
    pipe,       \* the units on their way to each client
    closed,     \* the sockets the server has closed
    away,       \* the sockets the client has closed
    reader,     \* where each client's TCP thread is in readFramed
    kicked,     \* history: clients whose thread called kickClient
    garbled     \* history: clients that took a wrong unit for a right one

server == <<registered, mutex, job, served, closed>>
clients == <<away, reader, garbled>>
framesVars == <<server, pipe, clients, kicked>>

Threads == Clients \cup {Accept, Main}

\* (hello stands for the three packets of the handshake.)
Kinds == {"hello", "joined", "left", "kick", "kickAll"}
Size(kind) == IF kind \in {"kick", "kickAll"} THEN KickSize ELSE 1
Locking == {"joined", "left", "kickAll"}

Resting == [kind |-> "none", about |-> Nobody, todo |-> {}, to |-> Nobody, part |-> 0]
Job(kind, c) == [Resting EXCEPT !.kind = kind, !.about = c]
Unlocked(kind, c) == [Job(kind, c) EXCEPT !.to = c]

Unit(j) == [kind |-> j.kind, about |-> j.about, part |-> j.part]

AtHeader == [left |-> 0, kind |-> "none", about |-> Nobody]
Ended == [AtHeader EXCEPT !.kind = "ended"]
Deaf == [AtHeader EXCEPT !.kind = "deaf"]
Listens(c) == reader[c].kind \notin {"ended", "deaf"}

FramesInit ==
    /\ registered = Present /\ served = Present
    /\ mutex = Nobody
    /\ job = [t \in Threads |-> Resting]
    /\ pipe = [c \in Clients |-> <<>>]
    /\ closed = {} /\ away = {}
    /\ reader = [c \in Clients |-> AtHeader]
    /\ kicked = {} /\ garbled = {}

Idle(t) == job[t] = Resting

\* (The main thread writes once, in Server::stop.)
After(t) == IF t = Main THEN Job("none", Main) ELSE Resting

\* A client's thread lives from its registration to its farewell.
Handled(c) == c \in registered /\ Idle(c) /\ job[Accept].about # c

----------------------------------------------------------------------------
(* Writing *)

\* Defect: broadcasts do not wait for each other.
HeldByNone(t) == TRUE
Free(t) == mutex = Nobody

TakeLock(t) ==
    /\ job[t].kind \in Locking /\ job[t].todo = {} /\ job[t].to = Nobody /\ job[t].part = 0
    /\ Free(t)
    /\ mutex' = IF registered = {} THEN mutex ELSE t
    /\ job' = [job EXCEPT ![t] = IF registered = {} THEN After(t) ELSE [@ EXCEPT !.todo = registered]]
    /\ UNCHANGED <<registered, served, closed, pipe, clients, kicked>>

NextClient(t) ==
    \E c \in job[t].todo :
        /\ job[t].to = Nobody
        /\ job' = [job EXCEPT ![t].to = c, ![t].todo = @ \ {c}, ![t].part = 0]
        /\ UNCHANGED <<registered, mutex, served, closed, pipe, clients, kicked>>

Broken(c) == c \in closed \/ c \in away

\* One call of boost::asio::write; after an error the frame is given up.
WriteUnit(t) ==
    LET j == job[t]
    IN  /\ j.to # Nobody /\ j.part <= Size(j.kind) /\ ~Broken(j.to)
        /\ Len(pipe[j.to]) < Room
        /\ pipe' = [pipe EXCEPT ![j.to] = Append(@, Unit(j))]
        /\ job' = [job EXCEPT ![t].part = @ + 1]
        /\ UNCHANGED <<registered, mutex, served, closed, clients, kicked>>

Written(t) == job[t].to # Nobody /\ (Broken(job[t].to) \/ job[t].part > Size(job[t].kind))

\* A broadcast goes on to the next client, or ends; kickAll closes each socket.
FrameOut(t) ==
    /\ Written(t) /\ job[t].kind \in Locking
    /\ closed' = IF job[t].kind = "kickAll" THEN closed \cup {job[t].to} ELSE closed
    /\ IF job[t].todo = {}
         THEN mutex' = Nobody /\ job' = [job EXCEPT ![t] = After(t)]
         ELSE mutex' = mutex /\ job' = [job EXCEPT ![t].to = Nobody, ![t].part = 0]
    /\ UNCHANGED <<registered, served, pipe, clients, kicked>>

----------------------------------------------------------------------------
(* The accept thread, the clients' threads, the main thread *)

BeginHandshake(c) ==
    /\ Idle(Accept) /\ Idle(Main) /\ c \notin served
    /\ served' = served \cup {c}
    /\ job' = [job EXCEPT ![Accept] = Unlocked("hello", c)]
    /\ UNCHANGED <<registered, mutex, closed, pipe, clients, kicked>>

\* The handshake is out: the client is registered, then announced.  (A write
\* that failed closes the socket and announces nobody.)
WhenWritten(c) == job[Accept].part > Size("hello") /\ c \notin registered

Register(c) ==
    /\ job[Accept].kind = "hello" /\ job[Accept].about = c
    /\ WhenWritten(c) /\ mutex = Nobody
    /\ registered' = registered \cup {c}
    /\ UNCHANGED <<mutex, job, served, closed, pipe, clients, kicked>>

Announce(c) ==
    /\ job[Accept].kind = "hello" /\ job[Accept].about = c
    /\ \/ c \in registered
          /\ job' = [job EXCEPT ![Accept] = Job("joined", c)] /\ closed' = closed
          /\ Written(Accept)
       \/ c \notin registered /\ Broken(c) /\ job[Accept].part <= Size("hello")
          /\ job' = [job EXCEPT ![Accept] = Resting] /\ closed' = closed \cup {c}
    /\ UNCHANGED <<registered, mutex, served, pipe, clients, kicked>>

BeginKick(c) ==
    /\ Handled(c) /\ c \notin closed /\ c \notin away
    /\ kicked' = kicked \cup {c}
    /\ job' = [job EXCEPT ![c] = Unlocked("kick", c)]
    /\ UNCHANGED <<registered, mutex, served, closed, pipe, clients>>

\* kickClient and the end of handleTcpClient close the socket.
ClosedAfter(c) == closed \cup {c}

HandlerCloses(c) ==
    /\ c \in registered
    /\ \/ job[c].kind = "kick" /\ Written(c)
       \/ Handled(c) /\ Broken(c)
    /\ closed' = ClosedAfter(c)
    /\ job' = [job EXCEPT ![c] = [Job("left", c) EXCEPT !.part = 9]]
    /\ UNCHANGED <<registered, mutex, served, pipe, clients, kicked>>

\* (part 9: the thread is about to erase the client.)
HandlerErases(c) ==
    /\ job[c].kind = "left" /\ job[c].part = 9
    /\ mutex = Nobody
    /\ registered' = registered \ {c}
    /\ job' = [job EXCEPT ![c] = Job("left", c)]
    /\ UNCHANGED <<mutex, served, closed, pipe, clients, kicked>>

BeginKickAll ==
    /\ Idle(Main)
    /\ job' = [job EXCEPT ![Main] = Job("kickAll", Main)]
    /\ UNCHANGED <<registered, mutex, served, closed, pipe, clients, kicked>>

Writer(t) == TakeLock(t) \/ NextClient(t) \/ WriteUnit(t) \/ FrameOut(t)
AcceptThread == Writer(Accept) \/ \E c \in Clients : BeginHandshake(c) \/ Register(c) \/ Announce(c)
Handler(c) == Writer(c) \/ HandlerCloses(c) \/ HandlerErases(c)

----------------------------------------------------------------------------
(* Reading *)

Take(c) == pipe' = [pipe EXCEPT ![c] = Tail(@)]

\* A unit that is no header announces any size: too large, or one that fits.
ReadHeader(c) ==
    /\ Listens(c) /\ c \notin away /\ reader[c].left = 0 /\ pipe[c] # <<>>
    /\ Take(c)
    /\ LET u == Head(pipe[c])
       IN  IF u.part = 0
             THEN /\ reader' = [reader EXCEPT ![c] = [left |-> Size(u.kind), kind |-> u.kind,
                                                      about |-> u.about]]
                  /\ UNCHANGED garbled
             ELSE /\ \E r \in {Ended} \cup [left : 1..KickSize, kind : {"left"}, about : {Nobody}] :
                         reader' = [reader EXCEPT ![c] = r]
                  /\ garbled' = garbled \cup {c}
    /\ UNCHANGED <<server, away, kicked>>

\* The body is complete; a kick ends the client's loop, as does an error.
ReadBody(c) ==
    /\ Listens(c) /\ c \notin away /\ reader[c].left > 0 /\ pipe[c] # <<>>
    /\ Take(c)
    /\ LET u == Head(pipe[c])
           r == reader[c]
           right == /\ u.kind = r.kind /\ u.about = r.about
                    /\ u.part = Size(r.kind) + 1 - r.left
       IN  /\ garbled' = IF right THEN garbled ELSE garbled \cup {c}
           /\ reader' = [reader EXCEPT ![c] =
                            IF r.left > 1 THEN [r EXCEPT !.left = @ - 1]
                            ELSE IF r.kind \in {"kick", "kickAll"} THEN Ended ELSE AtHeader]
    /\ UNCHANGED <<server, away, kicked>>

ReadEnd(c) ==
    /\ Listens(c) /\ c \notin away /\ pipe[c] = <<>> /\ c \in closed
    /\ reader' = [reader EXCEPT ![c] = Ended]
    /\ UNCHANGED <<server, pipe, away, garbled, kicked>>

\* The program ends.
GoAway(c) ==
    /\ c \in served /\ c \notin away
    /\ away' = away \cup {c}
    /\ UNCHANGED <<server, pipe, reader, garbled, kicked>>

\* The UDP thread has cleared m_running: the TCP thread reads no more, and the
\* socket stays open until the program ends.
StopReading(c) ==
    /\ c \in served /\ Listens(c) /\ c \notin away /\ reader[c].left = 0
    /\ reader' = [reader EXCEPT ![c] = Deaf]
    /\ UNCHANGED <<server, pipe, away, garbled, kicked>>

Reads(c) == ReadHeader(c) \/ ReadBody(c) \/ ReadEnd(c)

FramesNext == \/ AcceptThread \/ Writer(Main) \/ BeginKickAll
        \/ \E c \in Clients : \/ Handler(c) \/ BeginKick(c)
                              \/ Reads(c) \/ GoAway(c) \/ StopReading(c)

FramesSpec == FramesInit /\ [][FramesNext]_framesVars

----------------------------------------------------------------------------
(* Properties *)

\* Every variable keeps its type; only the holder of the mutex is amid a broadcast.
FramesTypeOK ==
    /\ registered \subseteq Clients /\ served \subseteq Clients
    /\ mutex \in Threads \cup {Nobody}
    /\ \A t \in Threads : job[t].kind \in Kinds \cup {"none"} /\ job[t].to \in Clients \cup {Nobody}
    /\ \A t \in Threads : job[t].kind \in Locking /\ (job[t].to # Nobody \/ job[t].todo # {})
                              => mutex = t
    /\ \A c \in Clients : Len(pipe[c]) <= Room /\ reader[c].left \in 0..KickSize
    /\ closed \subseteq Clients /\ away \subseteq Clients
    /\ kicked \subseteq Clients /\ garbled \subseteq Clients

\* A client reads whole frames, unless its own thread kicks it: only kickClient
\* may write between the two halves of somebody else's frame.
ReadsWhole == garbled \subseteq kicked

\* Nothing but its own handshake reaches a client before that is complete.
HandshakeUndisturbed ==
    \A c \in Clients :
        job[Accept].kind = "hello" /\ job[Accept].to = c /\ job[Accept].part <= Size("hello")
            => \A i \in 1..Len(pipe[c]) : pipe[c][i].kind = "hello"

(* Frames of different threads do not mix on a socket, except those of a kick:
   the broadcasts have the mutex, and the handshake a socket of its own. *)
MixedOnlyByKicks == FramesTypeOK /\ ReadsWhole /\ HandshakeUndisturbed

====
