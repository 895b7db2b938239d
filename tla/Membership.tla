----------------------------- MODULE Membership -----------------------------
(***************************************************************************)
(* What the server promises about its players, without threads, packets or *)
(* queues: a player is registered at most once and never shares a nickname *)
(* with another registered player; the world's humanoid of a player        *)
(* appears only after the registration and disappears for good only after  *)
(* the player is no longer registered.  Session implements it.             *)
(***************************************************************************)
CONSTANTS Player, Nick, NoNick

VARIABLES
    seat,      \* "new", "registered" or "left"
    name,      \* the nickname a player is registered with
    avatar     \* "absent", "present" or "removed"

vars == <<seat, name, avatar>>

Init ==
    /\ seat = [p \in Player |-> "new"]
    /\ name = [p \in Player |-> NoNick]
    /\ avatar = [p \in Player |-> "absent"]

Register(p) ==
    /\ seat[p] = "new"
    /\ \E n \in Nick :
          /\ \A q \in Player : seat[q] = "registered" => name[q] # n
          /\ name' = [name EXCEPT ![p] = n]
    /\ seat' = [seat EXCEPT ![p] = "registered"]
    /\ UNCHANGED avatar

Leave(p) ==
    /\ seat[p] = "registered"
    /\ seat' = [seat EXCEPT ![p] = "left"]
    /\ UNCHANGED <<name, avatar>>

Appear(p) ==
    /\ seat[p] # "new" /\ avatar[p] = "absent"
    /\ avatar' = [avatar EXCEPT ![p] = "present"]
    /\ UNCHANGED <<seat, name>>

Disappear(p) ==
    /\ seat[p] = "left" /\ avatar[p] = "present"
    /\ avatar' = [avatar EXCEPT ![p] = "removed"]
    /\ UNCHANGED <<seat, name>>

Next == \E p \in Player : Register(p) \/ Leave(p) \/ Appear(p) \/ Disappear(p)

Spec == Init /\ [][Next]_vars

=============================================================================
