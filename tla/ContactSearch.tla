---- MODULE ContactSearch ----
(***************************************************************************)
(* The search with which ClientOwnership::update finds the objects a       *)
(* player moves: what the player touches, what those touch, and so on,     *)
(* MaxDepth contacts deep.  It is a depth-first search over a stack, and   *)
(* a thing is examined once, at the depth of the first visit.              *)
(***************************************************************************)
EXTENDS Integers, Sequences, FiniteSets

CONSTANTS
    Things,  \* network ids of bodies other than the player's
    MaxDepth \* kMaxCollisionDepth

ASSUME SearchAssumption == IsFiniteSet(Things) /\ MaxDepth \in Nat

VARIABLES
    touched,    \* what the player's body touches
    contacts,   \* pairs of things that touch each other
    loose,      \* the things that are parts and not anchored
    frontier,   \* the stack
    visited,
    candidates

world == <<touched, contacts, loose>>
searchVars == <<world, frontier, visited, candidates>>

Orders(S) == {s \in [1..Cardinality(S) -> S] : \A x \in S : \E i \in DOMAIN s : s[i] = x}
Nodes(s, d) == [i \in DOMAIN s |-> [id |-> s[i], depth |-> d]]

\* Physics::getBodyCollisions: in the order of the engine's manifolds, which
\* may be any.
BodyCollisions(x) == {y \in Things : {x, y} \in contacts /\ x # y}

SearchInit ==
    /\ touched \in SUBSET Things
    /\ contacts \in SUBSET {p \in SUBSET Things : Cardinality(p) = 2}
    /\ loose \in SUBSET Things
    /\ \E s \in Orders(touched) : frontier = Nodes(s, 0)
    /\ visited = {} /\ candidates = {}

Top == frontier[Len(frontier)]
Rest == SubSeq(frontier, 1, Len(frontier) - 1)

\* Defect: the limit is applied one contact too late.
GoesOnOneMore(n) == n.depth <= MaxDepth
GoesOn(n) == n.depth < MaxDepth

Collected(n) == candidates \cup {n.id}

Fresh(n) == BodyCollisions(n.id) \ (visited \cup {n.id})

Visit(n) == visited' = visited \cup {n.id}

AlreadyVisited ==
    /\ frontier # <<>> /\ Top.id \in visited
    /\ frontier' = Rest
    /\ UNCHANGED <<world, visited, candidates>>

\* An anchored part, another player, an id the client does not know.
NotMovable ==
    /\ frontier # <<>> /\ Top.id \notin visited /\ Top.id \notin loose
    /\ Visit(Top)
    /\ frontier' = Rest
    /\ UNCHANGED <<world, candidates>>

Examine ==
    /\ frontier # <<>> /\ Top.id \notin visited /\ Top.id \in loose
    /\ Visit(Top)
    /\ candidates' = Collected(Top)
    /\ IF GoesOn(Top)
         THEN \E s \in Orders(Fresh(Top)) : frontier' = Rest \o Nodes(s, Top.depth + 1)
         ELSE frontier' = Rest
    /\ UNCHANGED world

SearchNext == AlreadyVisited \/ NotMovable \/ Examine

SearchSpec == SearchInit /\ [][SearchNext]_searchVars

----------------------------------------------------------------------------
(* Reference: routes of contacts from the player to a thing *)

Route(p, n) == /\ p \in [0..n -> loose]
               /\ p[0] \in touched
               /\ \A i \in 0..n-1 : p[i+1] \in BodyCollisions(p[i])

InReach(x, k) == \E n \in 0..k : \E p \in [0..n -> loose] : Route(p, n) /\ p[n] = x

----------------------------------------------------------------------------
(* Properties *)

\* The stack holds things at depths up to the limit, and what was found was
\* visited.
SearchTypeOK ==
    /\ touched \subseteq Things /\ loose \subseteq Things
    /\ contacts \subseteq SUBSET Things
    /\ frontier \in Seq([id : Things, depth : 0..MaxDepth])
    /\ visited \subseteq Things
    /\ candidates = visited \cap loose

\* Nothing is owned that no chain of at most MaxDepth + 1 contacts, through
\* movable parts only, joins to the player.
NothingOutOfReach == \A x \in candidates : InReach(x, MaxDepth)

\* Whatever the order of the manifolds, what the player itself touches is owned.
TouchedAreFound == frontier = <<>> => touched \cap loose \subseteq candidates

\* What is claimed is what the player moves: nothing out of reach, and all it
\* touches, whatever the order of the manifolds.  (Between the two, a thing first
\* met on a detour may be missed.)
ClaimsAreRight == NothingOutOfReach /\ TouchedAreFound
====
