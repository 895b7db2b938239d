------------------------------ MODULE Instances ------------------------------
(***************************************************************************)
(* The instance tree of the game as data: game/types/instance.hpp.         *)
(* Every instance owns the sequence of its children (m_children holds      *)
(* shared pointers) and knows its parent (m_parent is a weak pointer).     *)
(* A tree is a record [parent, children]; the operators below are what     *)
(* setParent, destroy and the walks over children compute.                 *)
(* A callback registered on an instance is called for its own changes or   *)
(* for those of everything below it; what a change is announced to is a    *)
(* set of instances, computed on the tree as it is at that moment.         *)
(***************************************************************************)
EXTENDS Naturals, FiniteSets, Sequences, SequencesExt

CONSTANTS Nodes,        \* the instances
          Kind,         \* their types
          None          \* no instance

ASSUME NodesAssumption == /\ IsFiniteSet(Nodes)
                          /\ None \notin Nodes
                          /\ DOMAIN Kind = Nodes

(* Game and Workspace override destroy() with a function that returns.     *)
Protected == {n \in Nodes : Kind[n] \in {"Game", "Workspace"}}
Parts == {n \in Nodes : Kind[n] = "Part"}

(* The instances a change of n bubbles up through: n, its parent and so on.*)
Upwards(t, n) ==
  LET up[x \in Nodes] == {x} \cup (IF t.parent[x] = None THEN {} ELSE up[t.parent[x]])
  IN  IF n = None THEN {} ELSE up[n]

(* Everything reached from H by following the pointers to children.        *)
Reached(t, H) ==
  LET grow[S \in SUBSET Nodes] ==
        LET more == S \cup UNION {ToSet(t.children[x]) : x \in S}
        IN  IF more = S THEN S ELSE grow[more]
  IN  grow[H]

Subtree(t, n) == Reached(t, {n})

(* collectDescendants: depth first, each child before what is below it.    *)
DepthFirst(children, n) ==
  LET below[x \in DOMAIN children] ==
        FlattenSeq([i \in DOMAIN children[x] |-> <<children[x][i]>> \o below[children[x][i]]])
  IN  below[n]

Descendants(t, n) == DepthFirst([x \in Subtree(t, n) |-> t.children[x]], n)

(* A list of children holds an instance once.                              *)
Erase(s, n) ==
  IF n \in ToSet(s) THEN RemoveAt(s, CHOOSE i \in DOMAIN s : s[i] = n) ELSE s

ClosedUpwards(par, S) == \A y \in S : par[y] \in S \cup {None}

WalkAvoidsParent(par, x, p) == x # p    \* Defect: only the new parent is looked at.

(* The walk of setParent from the new parent to the top never meets x:     *)
(* some set of instances without x holds p and everything above it.        *)
WalkAvoids(par, x, p) ==
  p # None => \E S \in SUBSET (Nodes \ {x}) : p \in S /\ ClosedUpwards(par, S)

SetParentActs(t, x, p) == t.parent[x] # p /\ WalkAvoids(t.parent, x, p)

(* Defect: the old parent keeps its pointer to the child.                  *)
LinkedTwice(t, x, p) ==
  [parent   |-> [t.parent EXCEPT ![x] = p],
   children |-> [n \in Nodes |->
                   IF n = p THEN Append(t.children[n], x) ELSE t.children[n]]]

(* x leaves the sequence of its old parent and goes last in the new one.   *)
Linked(t, x, p) ==
  [parent   |-> [t.parent EXCEPT ![x] = p],
   children |-> [n \in Nodes |->
                   LET rest == IF n = t.parent[x] THEN Erase(t.children[n], x)
                                                  ELSE t.children[n]
                   IN  IF n = p THEN Append(rest, x) ELSE rest]]

SetParent(t, x, p) == IF SetParentActs(t, x, p) THEN Linked(t, x, p) ELSE t

(* Who hears childrenChanged or descendantChildrenChanged of setParent:    *)
(* everything above the old place, and everything above the new one.       *)
HearMove(t, x, p) == Upwards(t, t.parent[x]) \cup Upwards(t, p)

(* destroy() calls itself on every child, then forgets the children; a     *)
(* child whose destroy() does nothing is forgotten with all it holds.      *)
Doomed(t, n) ==
  LET down[x \in Nodes] ==
        IF x \in Protected THEN {}
        ELSE {x} \cup UNION {down[c] : c \in ToSet(t.children[x])}
  IN  down[n]

Destroyed(t, n) ==
  LET D == Doomed(t, n)
  IN  [parent   |-> [x \in Nodes |-> IF x \in D THEN None ELSE t.parent[x]],
       children |-> [x \in Nodes |->
                       IF x \in D THEN <<>>
                       ELSE IF D # {} /\ x = t.parent[n] THEN Erase(t.children[x], n)
                       ELSE t.children[x]]]

(* Which of the doomed the callbacks on w hear of: each is announced to    *)
(* everything above it before anything of the subtree is taken apart.      *)
HeardDoomed(t, n, w) == {x \in Doomed(t, n) : w \in Upwards(t, t.parent[x])}

(* childrenChanged of destroy: each doomed instance leaves its parent.     *)
HearDestroy(t, n) == UNION {Upwards(t, t.parent[x]) : x \in Doomed(t, n)}

(* Shared pointers: what is reachable from the held instances stays in     *)
(* memory, the rest is freed, and a weak pointer to it reads as null.      *)
Alive(t, held) == Reached(t, held)

Freed(t, held) ==
  LET alive == Alive(t, held)
  IN  [parent   |-> [x \in Nodes |-> IF x \in alive /\ t.parent[x] \in alive
                                     THEN t.parent[x] ELSE None],
       children |-> [x \in Nodes |-> IF x \in alive THEN t.children[x] ELSE <<>>]]
=============================================================================
