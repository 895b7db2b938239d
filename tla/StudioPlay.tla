----------------------------- MODULE StudioPlay -----------------------------
(***************************************************************************)
(* Editing and trying out a map in the development tools: the gizmo that   *)
(* moves the selected part, or all parts of the selected model, and the    *)
(* Play and Stop commands with the snapshot of the physics world.          *)
(* A part has a place and, apart from it, its rigid body has one.  While   *)
(* the gizmo is dragged the part moves silently and its body stays; when   *)
(* the drag ends the move is announced and the body follows.  Play saves   *)
(* the places of all bodies under their addresses; Stop puts them back and *)
(* the parts with them.                                                    *)
(* A frame is an event of the user or of the physics, followed by the      *)
(* drawing of the gizmo in the overlay.                                    *)
(***************************************************************************)
EXTENDS Naturals, FiniteSets

CONSTANTS Parts,      \* parts the map may have
          Spare,      \* the one of them that does not exist at first
          Model,      \* a model and
          Inside,     \* the parts in it
          Places, Addrs,
          None

ASSUME PlayAssumption ==
    /\ Spare \in Parts /\ Inside \subseteq Parts \ {Spare}
    /\ Model \notin Parts
    /\ None \notin Parts \cup {Model} \cup Places \cup Addrs
    /\ Places # {}
    /\ Cardinality(Addrs) >= Cardinality(Parts)

Ops == {"Translate", "Scale"}    \* Rotate is treated as Translate throughout

VARIABLES there,      \* parts below the workspace, each with its body
          pos,        \* m_position of the parts
          bodyPos,    \* the place of their bodies
          addr,       \* the address of their bodies
          saved,      \* m_savedStates of the physics world, by address
          playing,
          selected,
          op,         \* m_gizmoOperation
          grabbed,    \* the mouse holds the gizmo: ImGuizmo::IsUsing()
          wasUsing,   \* m_gizmoWasUsing
          pending,    \* m_gizmoHasPendingCommit
          abandoned,  \* parts whose drag was cut off before it was announced
          before,     \* the parts when Play was pressed, with their places
          phase

edit == <<selected, op, grabbed, wasUsing, pending>>
world == <<there, pos, bodyPos, addr>>
playVars == <<there, pos, bodyPos, addr, saved, playing, edit, abandoned, before, phase>>

Nothing == [p \in Parts |-> None]

PlayInit ==
    /\ there = Parts \ {Spare}
    /\ pos \in [Parts -> Places] /\ pos[Spare] = CHOOSE x \in Places : TRUE
    /\ bodyPos = pos
    /\ addr \in {f \in [Parts -> Addrs \cup {None}] :
                   /\ f[Spare] = None
                   /\ \A p, q \in there : f[p] # None /\ (p # q => f[p] # f[q])}
    /\ saved = [a \in Addrs |-> None]
    /\ playing = FALSE /\ selected = None /\ op = "Translate"
    /\ grabbed = FALSE /\ wasUsing = FALSE /\ pending = FALSE
    /\ abandoned = {} /\ before = Nothing
    /\ phase = "event"

(* The parts the gizmo acts on.                                            *)
Target == IF selected \in Parts THEN {selected}
          ELSE IF selected = Model THEN Inside
          ELSE {}

Silent == {p \in there : pos[p] # bodyPos[p]}

Handled == phase = "event" /\ phase' = "gizmo"

-----------------------------------------------------------------------------
(* Events.  While the mouse holds the gizmo only keys can be used.         *)
Quiet == Handled /\ UNCHANGED <<world, saved, playing, edit, abandoned, before>>

Select(x) == /\ Handled /\ ~grabbed
             /\ x \in there \cup {Model}
             /\ selected' = x
             /\ UNCHANGED <<world, saved, playing, op, grabbed, wasUsing, pending, abandoned, before>>

Switch(o) == /\ Handled /\ op' = o
             /\ abandoned' = IF selected = Model /\ o = "Scale" /\ ~playing
                             THEN abandoned \cup Silent ELSE abandoned
             /\ UNCHANGED <<world, saved, playing, selected, grabbed, wasUsing, pending, before>>

(* The gizmo is drawn for parts and models, and for a model not to scale.  *)
Grab == /\ Handled /\ ~grabbed /\ ~playing
        /\ Target # {} /\ ~(selected = Model /\ op = "Scale")
        /\ grabbed' = TRUE
        /\ UNCHANGED <<world, saved, playing, selected, op, wasUsing, pending, abandoned, before>>

LetGo == /\ Handled /\ grabbed /\ grabbed' = FALSE
         /\ UNCHANGED <<world, saved, playing, selected, op, wasUsing, pending, abandoned, before>>

(* The callback on the workspace: the body of an announced part takes its  *)
(* shape and its place.                                                    *)
Announced(P) == [p \in Parts |-> IF p \in P THEN pos[p] ELSE bodyPos[p]]

(* A field of the properties panel is edited.                              *)
Edit(x) == /\ Handled /\ ~grabbed /\ selected \in Parts
           /\ pos' = [pos EXCEPT ![selected] = x]
           /\ bodyPos' = [bodyPos EXCEPT ![selected] = x]
           /\ abandoned' = abandoned \ {selected}
           /\ UNCHANGED <<there, addr, saved, playing, edit, before>>

(* New, by the mouse, or Paste, by keys and not while playing: the new     *)
(* part is selected, whatever the gizmo was doing.                         *)
Appear(x, a) ==
  /\ Handled /\ Spare \notin there
  /\ grabbed => ~playing
  /\ a \notin {addr[p] : p \in there}
  /\ there' = there \cup {Spare}
  /\ pos' = [pos EXCEPT ![Spare] = x] /\ bodyPos' = [bodyPos EXCEPT ![Spare] = x]
  /\ addr' = [addr EXCEPT ![Spare] = a]
  /\ selected' = Spare
  /\ abandoned' = abandoned \cup Silent
  /\ UNCHANGED <<saved, playing, op, grabbed, wasUsing, pending, before>>

AddrWithout(x) == [addr EXCEPT ![x] = None]

(* destroyRigidBody, with the part.                                        *)
Gone(x) == /\ there' = there \ {x}
           /\ addr' = AddrWithout(x)
           /\ bodyPos' = [bodyPos EXCEPT ![x] = pos[x]]
           /\ abandoned' = abandoned \ {x}
           /\ before' = [before EXCEPT ![x] = None]

Delete(x) == /\ Handled /\ ~grabbed /\ x \in there
             /\ Gone(x)
             /\ selected' = IF selected = x THEN None ELSE selected
             /\ UNCHANGED <<pos, saved, playing, op, grabbed, wasUsing, pending>>

Saved == [a \in Addrs |-> IF \E p \in there : addr[p] = a
                          THEN bodyPos[CHOOSE p \in there : addr[p] = a] ELSE None]

(* play(): the gizmo forgets its drag, but not what it has moved.          *)
Play == /\ Handled /\ ~playing
        /\ saved' = Saved
        /\ playing' = TRUE
        /\ wasUsing' = FALSE /\ pending' = FALSE
        /\ before' = [p \in Parts |-> IF p \in there \ Silent THEN pos[p] ELSE None]
        /\ abandoned' = abandoned \cup Silent
        /\ UNCHANGED <<world, selected, op, grabbed>>

(* No local player could be made: the physics is stopped again.            *)
PlayFails == /\ Handled /\ ~playing
             /\ pos' = [p \in Parts |-> IF p \in there THEN bodyPos[p] ELSE pos[p]]
             /\ abandoned' = {}
             /\ UNCHANGED <<there, bodyPos, addr, saved, playing, edit, before>>

StateOf(p) == IF addr[p] = None THEN None ELSE saved[addr[p]]

RestoredBodies == [p \in Parts |-> IF StateOf(p) = None THEN bodyPos[p] ELSE StateOf(p)]

(* Defect: the motion states are not told, the parts stay.                 *)
StayingParts == pos

RestoredParts == [p \in Parts |-> IF StateOf(p) = None THEN pos[p] ELSE StateOf(p)]

Stop == /\ Handled /\ playing
        /\ playing' = FALSE
        /\ bodyPos' = RestoredBodies /\ pos' = RestoredParts
        /\ saved' = [a \in Addrs |-> None]
        /\ abandoned' = {p \in abandoned : RestoredParts[p] # RestoredBodies[p]}
        /\ UNCHANGED <<there, addr, edit, before>>

(* A step of the physics moves a body, and its part silently with it.      *)
Simulate(p, x) == /\ Handled /\ playing /\ p \in there
                  /\ bodyPos' = [bodyPos EXCEPT ![p] = x] /\ pos' = [pos EXCEPT ![p] = x]
                  /\ abandoned' = abandoned \ {p}
                  /\ UNCHANGED <<there, addr, saved, playing, edit, before>>

(* A part falls below the world and is destroyed; it may stay selected.    *)
Fall(p) == /\ Handled /\ playing /\ p \in there
           /\ Gone(p)
           /\ UNCHANGED <<pos, saved, playing, edit>>

-----------------------------------------------------------------------------
(* drawGizmo, drawPartGizmo and drawModelGizmo.                            *)
Drawn == phase = "gizmo" /\ phase' = "event"

NoGizmo == /\ Drawn
           /\ Target = {} \/ playing
           /\ UNCHANGED <<world, saved, playing, edit, abandoned, before>>

ScaledModel == /\ Drawn /\ ~playing /\ selected = Model /\ op = "Scale"
               /\ wasUsing' = FALSE /\ pending' = FALSE
               /\ UNCHANGED <<world, saved, playing, selected, op, grabbed, abandoned, before>>

HasGizmo == Target # {} /\ ~playing /\ ~(selected = Model /\ op = "Scale")

(* setPosition of a part, or setPivot of a model, silently.                *)
Moved(S, x) == [p \in Parts |-> IF p \in S THEN x ELSE pos[p]]

(* The mouse has moved the gizmo: the parts take the new place silently.   *)
Drag(x) == /\ Drawn /\ HasGizmo /\ grabbed
           /\ pos' = Moved(Target, x)
           /\ pending' = TRUE /\ wasUsing' = TRUE
           /\ abandoned' = abandoned \ Target
           /\ UNCHANGED <<there, bodyPos, addr, saved, playing, selected, op, grabbed, before>>

Commits == wasUsing /\ ~grabbed /\ pending

(* Without a movement: the end of a drag announces what was moved.         *)
Rest == /\ Drawn /\ HasGizmo
        /\ wasUsing' = grabbed
        /\ IF Commits
           THEN /\ bodyPos' = Announced(Target)
                /\ abandoned' = abandoned \ Target
                /\ pending' = FALSE
           ELSE UNCHANGED <<bodyPos, abandoned, pending>>
        /\ UNCHANGED <<there, pos, addr, saved, playing, selected, op, grabbed, before>>

-----------------------------------------------------------------------------
PlayNext ==
    \/ Quiet \/ Grab \/ LetGo \/ Play \/ PlayFails \/ Stop
    \/ \E x \in Parts \cup {Model} : Select(x) \/ Delete(x)
    \/ \E o \in Ops : Switch(o)
    \/ \E x \in Places : Edit(x) \/ Drag(x)
    \/ \E x \in Places, a \in Addrs : Appear(x, a)
    \/ \E p \in Parts, x \in Places : Simulate(p, x)
    \/ \E p \in Parts : Fall(p)
    \/ NoGizmo \/ ScaledModel \/ Rest

PlaySpec == PlayInit /\ [][PlayNext]_playVars

-----------------------------------------------------------------------------
(* The variables keep their types, every body has an address of its own,   *)
(* and nothing is saved outside Play.                                      *)
PlayTypeOK ==
    /\ there \subseteq Parts
    /\ pos \in [Parts -> Places] /\ bodyPos \in [Parts -> Places]
    /\ addr \in [Parts -> Addrs \cup {None}]
    /\ \A p \in Parts : addr[p] = None <=> p \notin there
    /\ \A p, q \in there : addr[p] = addr[q] => p = q
    /\ saved \in [Addrs -> Places \cup {None}]
    /\ before \in [Parts -> Places \cup {None}] /\ abandoned \subseteq Parts
    /\ playing \/ \A a \in Addrs : saved[a] = None
    /\ selected \in Parts \cup {Model, None} /\ op \in Ops
    /\ grabbed \in BOOLEAN /\ wasUsing \in BOOLEAN
    /\ pending \in BOOLEAN /\ playing \in BOOLEAN
    /\ phase \in {"event", "gizmo"}

(* A part and its body are in different places only while the gizmo holds  *)
(* the part and will announce the move when it is let go, or when the drag *)
(* was cut off: by Play, by a paste, or by asking to scale a model.        *)
SilentOnlyInHand ==
  \A p \in Silent \ abandoned : p \in Target /\ pending /\ (grabbed \/ wasUsing)

(* Stop returns every part that was there at Play, has not been destroyed  *)
(* since, and was not in the middle of a drag, to its place at Play:       *)
(* whatever the simulation and the user have done with it.                 *)
PutsBack ==
  playing /\ ~playing' => \A p \in there : before[p] # None => pos'[p] = before[p]

(* A part that came during Play keeps its place on Stop, unless its body   *)
(* was given the address of a body that had been destroyed.                *)
KeepsTheNew ==
  playing /\ ~playing' => \A p \in there :
        (\A a \in Addrs : addr[p] = a => saved[a] = None) =>
          pos'[p] = pos[p] /\ bodyPos'[p] = bodyPos[p]

(* A part is silently away from its body only while the gizmo has it, and  *)
(* Stop puts back what was there at Play and keeps what came since         *)
(* (devtools.cpp 810-864, physics.cpp 644-698).                            *)
StopRestores ==
  /\ [](PlayTypeOK /\ SilentOnlyInHand)
  /\ [][PutsBack /\ KeepsTheNew]_playVars
=============================================================================
