-------------------------- MODULE MCPhysicsChannel --------------------------
(***************************************************************************)
(* PhysicsSync over a lossy channel under fair scheduling, for TLC.  Two   *)
(* stories, each with the bounds it needs: "hello", in which players       *)
(* connect, learn that their channel works and leave; and "follow", in     *)
(* which connected players stay, one of them claims objects, and several   *)
(* datagrams are on their way.                                             *)
(***************************************************************************)
EXTENDS PhysicsSync, TLC

VARIABLE story

Greet == INSTANCE PhysicsSync WITH Claimant <- {}, MaxInFlight <- 1

channelVars == <<vars, story>>

ChannelInit ==
    \/ story = "hello" /\ Init
    \/ story = "follow" /\ InitFrom(Everybody("registered"), Player, Player)

ChannelNext ==
    /\ story' = story
    /\ \/ story = "hello" /\ Greet!Next
       \/ story = "follow" /\ Next /\ UNCHANGED <<seat, alive>>

-----------------------------------------------------------------------------
(* A datagram that is sent again and again gets through, and is read: a     *)
(* hello and its answer, and the state of an object on its way through the  *)
(* server.                                                                  *)

HelloSent(p) == story = "hello" /\ Greet!SendHello(p) /\ Hello(p) \in net'
HelloRead(p) ==
    /\ story = "hello" /\ Greet!ReceiveHello(p)
    /\ Registered(p) /\ p \in alive => Ack(p) \in net'
StateBroadcast(p, o) ==
    story = "follow" /\ EndRound /\ Update(p, o, Server) \in net' \ net
StateSent(p, o) == story = "follow" /\ SendState(p, o) /\ State(p, o) \in net'
StateRelayed(p, o) ==
    /\ story = "follow" /\ Relay
    /\ \E c \in Claimant : Update(p, o, c) \in net' \ net

\* Two of the fairness conditions of each story are stated together.
ChannelSpec ==
    /\ ChannelInit /\ [][ChannelNext]_channelVars /\ Fairness
    /\ \A p \in Player, o \in Object :
          /\ SF_vars(HelloSent(p) \/ StateBroadcast(p, o))
          /\ SF_vars(HelloRead(p) \/ IF p \in Claimant THEN StateSent(p, o)
                                                      ELSE StateRelayed(p, o))
          /\ \A a \in Player \cup {Server} : WF_vars(story = "follow" /\ ReceiveUpdate(p, o, a))
    /\ \A p \in Claimant, o \in Object : SF_vars(story = "follow" /\ ReceiveState(p, o))

-----------------------------------------------------------------------------
(* Every registered client whose hellos are not all lost learns that its    *)
(* channel works, even if the first came before its registration.           *)
ChannelsWork == story = "hello" => UdpConfirmed

(* Every client whose channel works follows whoever simulates an object.    *)
EverybodyFollows == story = "follow" => ClientsFollow
=============================================================================
