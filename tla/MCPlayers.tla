------------------------------ MODULE MCPlayers ------------------------------
(***************************************************************************)
(* Players over time, for TLC: they die and come back (Humanoids), and     *)
(* what they leave alone is handed back (ClientOwnership).  A behaviour is *)
(* about two rigs with frames of one tick or two, about the respawns of    *)
(* one rig, or about the objects of one client; the models share no state, *)
(* and the other one keeps the state it starts in.  Parts are edited once  *)
(* with two rigs, EditsOfOne times with one.                               *)
(***************************************************************************)
EXTENDS Humanoids, TLC

CONSTANTS o1, o2, NoObject, EditsOfOne

VARIABLES
    subject, edits,
    bodies, rig, contact, far, order, reported, dynamic, asleep, target, main, todo,
    pending, udp, said, unseen                                    \* ClientOwnership

\* Two objects and room for one.
Books == INSTANCE ClientOwnership WITH Object <- {o1, o2}, Cap <- 1

\* One rig, whose frames are of one tick: `Slow` for its steps, `OneRig` for
\* what is said of it.
Slow == INSTANCE Humanoids WITH Ticks <- {1}
OneRig == INSTANCE Humanoids WITH Rig <- {"r1"}, Ticks <- {1}

\* Parts are made in the order of their numbers, the root of a rig before its
\* limb.
PartsInOrder ==
    \A p, q \in Part :
        p < q /\ at'[q] # Unmade =>
            /\ at'[p] # Unmade
            /\ at[p] = Unmade => name'[p] = "RootPart"

\* Parts are added, dragged, renamed and deleted n times.
Edits(n) ==
    IF used' = used /\ placed' = placed /\ <<at, name>>' # <<at, name>>
    THEN edits < n /\ edits' = edits + 1
    ELSE edits' = edits

-----------------------------------------------------------------------------
objectVars == <<bodies, rig, contact, far, order, reported, dynamic, asleep, target, main, todo,
                pending, udp, said, unseen>>
playerVars == <<subject, edits, vars, objectVars>>

PlayersInit ==
    /\ subject \in {"objects", "rigs", "respawn"} /\ edits = 0
    /\ subject = "objects" => spawns = TRUE
    /\ Init /\ Books!Init

PlayersNext ==
    /\ subject' = subject
    /\ \/ subject = "objects" /\ Books!Next /\ UNCHANGED <<edits, vars>>
       \/ subject = "rigs" /\ Next /\ PartsInOrder /\ Edits(1) /\ UNCHANGED objectVars
       \/ /\ subject = "respawn" /\ Slow!Next /\ used' \subseteq {"r1"}
          /\ PartsInOrder /\ Edits(EditsOfOne)
          /\ UNCHANGED objectVars

\* The fairness of ClientOwnership, whose actions follow on the beginning of a
\* frame, and frames of the humanoids that keep coming.
PlayersSpec ==
    /\ PlayersInit /\ [][PlayersNext]_playerVars
    /\ SF_objectVars(subject = "objects" /\ Books!BeginFrame) /\ WF_objectVars(Books!ClaimOne)
    /\ SF_objectVars(Books!StatesAreDue) /\ WF_objectVars(Books!SendOne)
    /\ WF_objectVars(~rig /\ Books!DieOrRespawn) /\ WF_objectVars(Books!ApplyState)
    /\ \A o \in {o1, o2} : SF_objectVars(Books!FallAsleep(o))
    /\ WF_vars(subject = "respawn" /\ Slow!Frame)

-----------------------------------------------------------------------------
(* What a player has left alone is released in the end (ClientOwnership).   *)
LeftAloneHandedBack == subject = "objects" => Books!LeftAloneReleased

(* Who died stands again, not before the delay; a whole rig does not stay   *)
(* pending; and a player waiting for a spawn location finds one once there  *)
(* is one (humanoid_manager.cpp).                                           *)
PlayersComeBack ==
    /\ RespawnTakesItsTime
    /\ subject = "respawn" => OneRig!DeadRespawn /\ OneRig!PendingAdopted /\ OneRig!WaitersSpawn
=============================================================================
