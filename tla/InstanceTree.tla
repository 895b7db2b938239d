---------------------------- MODULE InstanceTree ----------------------------
(***************************************************************************)
(* The tree of a running game and those that listen to it.  The user of    *)
(* the development tools creates, moves, unparents and deletes instances;  *)
(* the physics world keeps a body for every part below the workspace,      *)
(* told by onDescendantAdded and onDescendantDestroy; the renderer keeps a *)
(* list of what is below the workspace, rebuilt in the frame after a       *)
(* change was announced.  Instances live by shared pointers: the game      *)
(* holds its root and workspace, the tools hold the selected instance.     *)
(***************************************************************************)
EXTENDS Instances

CONSTANTS Game, Workspace

ASSUME RootsAssumption == /\ Game \in Nodes /\ Kind[Game] = "Game"
                          /\ Workspace \in Nodes /\ Kind[Workspace] = "Workspace"
                          /\ Protected = {Game, Workspace}   \* nothing creates others

VARIABLES tree,
          used,       \* instances created so far
          selected,   \* m_selectedInstance of the tools
          bodies,     \* parts with a rigid body in the physics world
          strays,     \* parts that left the workspace with their body
          dirty,      \* m_dirty of the render context
          picture     \* what the render context last collected

vars == <<tree, used, selected, bodies, strays, dirty, picture>>

Held(sel) == {Game, Workspace} \cup ({sel} \ {None})
Shown(t) == Subtree(t, Game)
World(t) == Subtree(t, Workspace)
InWorld(t, n) == Workspace \in Upwards(t, n)

Init == /\ tree = [parent |-> [n \in Nodes |-> IF n = Workspace THEN Game ELSE None],
                   children |-> [n \in Nodes |-> IF n = Game THEN <<Workspace>> ELSE <<>>]]
        /\ used = {Game, Workspace}
        /\ selected = None
        /\ bodies = {} /\ strays = {}
        /\ dirty = TRUE
        /\ picture = <<>>

(* bindToWorkspace: the added instance and all below it get their bodies;  *)
(* the limbs of a rig are left to the humanoids.                           *)
Ensured(t, x) == {n \in Subtree(t, x) \cap Parts : t.parent[n] = None \/ Kind[t.parent[n]] # "Rig"}

Settle(t, sel) == /\ tree' = Freed(t, Held(sel))
                  /\ selected' = sel

(* setParent with all its callbacks, when it is not refused.               *)
Put(x, p, sel) ==
  LET t == Linked(tree, x, p)
      arrives == p # None /\ InWorld(tree, p)
  IN  /\ SetParentActs(tree, x, p)
      /\ Settle(t, sel)
      /\ bodies' = bodies \cup (IF arrives THEN Ensured(t, x) ELSE {})
      /\ strays' = {b \in bodies' : ~InWorld(t, b)}
      /\ dirty' = (dirty \/ Workspace \in HearMove(tree, x, p))
      /\ UNCHANGED picture

(* The "New" popup: an instance of some type under the chosen parent,      *)
(* selected at once.                                                       *)
Create(n, p) == /\ n \notin used /\ p \in Shown(tree)
                /\ used' = used \cup {n}
                /\ Put(n, p, n)

(* Drag and drop in the explorer, or onto the Parent field of the selected.*)
Move(x, p) == /\ p \in Shown(tree)
              /\ x \in Shown(tree) \cup ({selected} \ {None})
              /\ Put(x, p, selected)
              /\ UNCHANGED used

(* The "x" of the Parent field.                                            *)
Unparent == /\ selected # None
            /\ Put(selected, None, selected)
            /\ UNCHANGED used

Erased(x, sel) ==
  /\ Settle(Destroyed(tree, x), sel)
  /\ bodies' = bodies \ HeardDoomed(tree, x, Workspace)
  /\ strays' = strays \cap bodies'
  /\ dirty' = (dirty \/ Workspace \in HearDestroy(tree, x))
  /\ UNCHANGED <<used, picture>>

(* "Delete" in the explorer: first the selection is let go.                *)
Delete(x) == /\ x \in Shown(tree)
             /\ Erased(x, IF selected \in Subtree(tree, x) THEN None ELSE selected)

(* A part that falls out of the world is destroyed by the physics step.    *)
Fall(x) == /\ x \in bodies \cap Alive(tree, Held(selected))
           /\ Erased(x, selected)

Select(x) == /\ x \in Shown(tree) \ {selected}
             /\ Settle(tree, x)
             /\ UNCHANGED <<used, bodies, strays, dirty, picture>>

(* A frame of the renderer.                                                *)
Collect == /\ dirty
           /\ dirty' = FALSE
           /\ picture' = Descendants(tree, Workspace)
           /\ UNCHANGED <<tree, used, selected, bodies, strays>>

Next == \/ \E n, p \in Nodes : Create(n, p) \/ Move(n, p)
        \/ Unparent
        \/ \E x \in Nodes : Delete(x) \/ Fall(x) \/ Select(x)
        \/ Collect

Spec == Init /\ [][Next]_vars

-----------------------------------------------------------------------------
(* The variables keep their types and only created instances are linked.   *)
TypeOK == /\ tree.parent \in [Nodes -> used \cup {None}]
          /\ tree.children \in [Nodes -> Seq(used)]
          /\ used \subseteq Nodes /\ {Game, Workspace} \subseteq used
          /\ selected \in used \cup {None}
          /\ bodies \subseteq Parts \cap used /\ strays \subseteq bodies
          /\ dirty \in BOOLEAN

(* Following parents never comes back to where it started: setParent       *)
(* refuses to put an instance below itself, so the walks of the code end.  *)
NoLoops == \A S \in SUBSET Nodes : S # {} => \E y \in S : tree.parent[y] \notin S

(* The two directions of a link agree, and no instance is a child twice:   *)
(* whatever was moved, destroyed or freed in between.  Only Game and       *)
(* Workspace may keep a parent that has forgotten them, because their      *)
(* destroy() does nothing while the parent's clears its children.          *)
LinksAgree ==
  \A p \in Nodes :
    LET kids == ToSet(tree.children[p])
    IN  /\ IsInjective(tree.children[p])
        /\ \A n \in kids : tree.parent[n] = p
        /\ \A n \in Nodes \ (kids \cup Protected) : tree.parent[n] # p

(* Every part below the workspace has its body, however deep in a moved    *)
(* subtree it came: only the root of the subtree is announced.             *)
PartsHaveBodies == \A n \in World(tree) \cap (Parts \ bodies) :
                     Kind[tree.parent[n]] = "Rig"

(* A body outlives its part's stay below the workspace only when the part  *)
(* was moved away or unparented; a destruction, of whatever ancestor,      *)
(* takes every body with it.                                               *)
BodiesLeaveWithParts == bodies \ strays \subseteq World(tree)

(* What the renderer collected is what is below the workspace, in order,   *)
(* unless the next frame knows that it must collect again.                 *)
PictureFollows == dirty \/ picture = Descendants(tree, Workspace)

(* The tree is sound, the bodies are those of the parts below the          *)
(* workspace, and the picture follows (instance.hpp, physics.cpp,          *)
(* render_context.cpp).                                                    *)
WorldFollowsTree ==
  TypeOK /\ LinksAgree /\ PartsHaveBodies /\ BodiesLeaveWithParts /\ PictureFollows
=============================================================================
