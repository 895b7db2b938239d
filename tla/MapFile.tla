------------------------------- MODULE MapFile -------------------------------
(***************************************************************************)
(* Saving, opening, copying and pasting instances: game/utils/nbx_file.cpp *)
(* and its callers in the development tools.  A buffer is a sequence of    *)
(* records in the order of the walk: the type of the instance, its id and  *)
(* the id of its parent.  Ids are given to live instances when they are    *)
(* first written; an instance read from a buffer is linked to the one that *)
(* carries its parent's id, when the buffer has it.  Game and Workspace    *)
(* are written like all others, but nothing can create them when they are  *)
(* read: their records are skipped.                                        *)
(* Nodes are numbers: an operation that makes instances takes the lowest   *)
(* unused ones of their types.                                             *)
(***************************************************************************)
EXTENDS Instances

CONSTANTS Game, Workspace,
          Places,     \* where the user creates instances and drops them
          MaxSteps    \* operations of the user

RootsAssumption == /\ Game \in Nodes /\ Kind[Game] = "Game"
                          /\ Workspace \in Nodes /\ Kind[Workspace] = "Workspace"
                          /\ Nodes \subseteq Nat

VARIABLES tree,
          id,         \* m_id of every instance, 0 until it is written
          used,       \* instances created so far
          clip,       \* m_clipboard, with what was copied
          file,       \* the map file, with what was saved
          steps

vars == <<tree, id, used, clip, file, steps>>

Readable(k) == k \notin {"Game", "Workspace"}

NoBuffer == [recs |-> <<>>, forest |-> <<>>, outside |-> FALSE]

Unlinked == [parent |-> [n \in Nodes |-> None], children |-> [n \in Nodes |-> <<>>]]

Init == /\ tree = Linked(Unlinked, Workspace, Game)
        /\ id = [n \in Nodes |-> 0]
        /\ used = {Game, Workspace}
        /\ clip = NoBuffer /\ file = NoBuffer
        /\ steps = 0

-----------------------------------------------------------------------------
(* What an instance holds, as far as it can be read back: the types of its *)
(* children and of theirs, without what is below something unreadable.     *)
Shape(t, n) ==
  LET shape[x \in Nodes] ==
        LET kids == SelectSeq(t.children[x], LAMBDA c : Readable(Kind[c]))
        IN  <<Kind[x], [i \in DOMAIN kids |-> shape[kids[i]]]>>
  IN  shape[n]

Flatten(t, n) == <<n>> \o Descendants(t, n)

(* The shapes of the instances that have no readable parent, as met.       *)
Forest(t, n) ==
  LET tops == SelectSeq(Flatten(t, n),
                LAMBDA x : Readable(Kind[x])
                           /\ (x = n \/ ~Readable(Kind[t.parent[x]])))
  IN  [i \in DOMAIN tops |-> Shape(t, tops[i])]

(* Defect: only new instances are numbered, two with one id stay so.       *)
NumberedNew(ids, all) ==
  LET top == CHOOSE m \in {ids[n] : n \in ToSet(all)} :
               \A n \in ToSet(all) : ids[n] <= m
  IN  FoldLeft(LAMBDA acc, n : IF acc.ids[n] # 0 THEN acc
                               ELSE [ids |-> [acc.ids EXCEPT ![n] = acc.max + 1],
                                     max |-> acc.max + 1],
               [ids |-> ids, max |-> top], all).ids

(* serializeNbxlBuffer: an instance with no id, or with the id of one      *)
(* before it, gets the next id above the largest.                          *)
Numbered(ids, all) ==
  LET top == CHOOSE m \in {ids[n] : n \in ToSet(all)} :
               \A n \in ToSet(all) : ids[n] <= m
      step(acc, n) ==
        IF acc.ids[n] # 0 /\ acc.ids[n] \notin acc.seen
        THEN [acc EXCEPT !.seen = @ \cup {acc.ids[n]}]
        ELSE [ids  |-> [acc.ids EXCEPT ![n] = acc.max + 1],
              seen |-> acc.seen \cup {acc.max + 1},
              max  |-> acc.max + 1]
  IN  FoldLeft(step, [ids |-> ids, seen |-> {}, max |-> top], all).ids

ParentId(t, ids, n) == IF t.parent[n] = None THEN 0 ELSE ids[t.parent[n]]

Records(t, ids, all) ==
  [i \in DOMAIN all |-> [kind |-> Kind[all[i]], id |-> ids[all[i]],
                         up |-> ParentId(t, ids, all[i])]]

Serialize(t, ids, n) == Records(t, Numbered(ids, Flatten(t, n)), Flatten(t, n))

(* Does the id of the parent outside the buffer name a record inside it ?  *)
OutsideNamed(recs) == recs[1].up # 0 /\ \E i \in DOMAIN recs :
                         Readable(recs[i].kind) /\ recs[i].id = recs[1].up

-----------------------------------------------------------------------------
Lowest(S) == CHOOSE n \in S : \A m \in S : n <= m

Unused(S, k) == {n \in Nodes \ S : Kind[n] = k}

(* The instances a buffer becomes, in its order; <<>> when there are not   *)
(* enough unused ones.                                                     *)
Fresh(recs, S) ==
  LET kinds == SelectSeq(recs, LAMBDA r : Readable(r.kind))
      take(acc, r) == Append(acc, Lowest(Unused(S \cup ToSet(acc), r.kind)))
      enough == \A k \in {kinds[i].kind : i \in DOMAIN kinds} :
                  Cardinality(Unused(S, k)) >= Cardinality({i \in DOMAIN kinds : kinds[i].kind = k})
  IN  IF enough THEN FoldLeft(take, <<>>, kinds) ELSE <<>>

(* parseNbxlBuffer, second pass: every instance in the order of the buffer *)
(* is put below the last one that carries the id of its parent.            *)
LinkAll(t, recs, nodes) ==
  LET read == SelectSeq(recs, LAMBDA r : Readable(r.kind))
      named(i) == {j \in DOMAIN read : read[j].id = read[i].up}
      link(acc, i) == IF read[i].up = 0 \/ named(i) = {} THEN acc
                      ELSE SetParent(acc, nodes[i],
                             nodes[CHOOSE j \in named(i) : \A k \in named(i) : k <= j])
  IN  FoldLeft(link, t, [i \in DOMAIN read |-> i])

(* The instances of a buffer that found no parent, in its order.           *)
Tops(t, nodes) == SelectSeq(nodes, LAMBDA n : t.parent[n] = None)

ReadBack(recs) == LET nodes == Fresh(recs, {})
                      t == LinkAll(Unlinked, recs, nodes)
                      tops == Tops(t, nodes)
                  IN  [i \in DOMAIN tops |-> Shape(t, tops[i])]

-----------------------------------------------------------------------------
Shown == Subtree(tree, Game)

Create(k, p) ==
  /\ p \in Shown /\ Unused(used, k) # {}
  /\ LET n == Lowest(Unused(used, k))
     IN  tree' = Linked(tree, n, p) /\ used' = used \cup {n}
  /\ UNCHANGED <<id, clip, file>>

Move(x, p) ==
  /\ {x, p} \subseteq Shown /\ SetParentActs(tree, x, p)
  /\ tree' = Linked(tree, x, p)
  /\ UNCHANGED <<id, used, clip, file>>

Written(n) == LET recs == Serialize(tree, id, n)
              IN  [recs |-> recs, forest |-> Forest(tree, n), outside |-> OutsideNamed(recs)]

(* copySelected: the game itself has no parent and cannot be copied.       *)
Copy(selected) ==
  /\ selected \in Shown \ {Game}
  /\ clip' = Written(selected)
  /\ id' = Numbered(id, Flatten(tree, selected))
  /\ UNCHANGED <<tree, used, file>>

(* Beside the selected instance, or into it when it has no parent.         *)
PasteParent(selected) == IF tree.parent[selected] # None THEN tree.parent[selected]
                                                         ELSE selected

(* pasteClipboard: of the instances that found no parent only the first is *)
(* kept; ids are reset.                                                    *)
Paste(selected) ==
  /\ clip.recs # <<>> /\ selected \in Shown
  /\ LET nodes == Fresh(clip.recs, used)
         t == LinkAll(tree, clip.recs, nodes)
         top == Tops(t, nodes)[1]
     IN  /\ nodes # <<>>
         /\ tree' = Freed(SetParent(t, top, PasteParent(selected)), {Game, Workspace})
         /\ used' = used \cup ToSet(nodes)
  /\ UNCHANGED <<id, clip, file>>

(* writeMap: the whole tree of the game.                                   *)
Save == /\ file' = Written(Game)
        /\ id' = Numbered(id, Flatten(tree, Game))
        /\ UNCHANGED <<tree, used, clip>>

(* loadMap: every top instance goes below the game, as none is a Game.     *)
Open ==
  /\ file.recs # <<>>
  /\ LET nodes == Fresh(file.recs, used)
         read == SelectSeq(file.recs, LAMBDA r : Readable(r.kind))
         t == LinkAll(tree, file.recs, nodes)
     IN  /\ nodes # <<>>
         /\ tree' = FoldLeft(LAMBDA acc, n : SetParent(acc, n, Game), t, Tops(t, nodes))
         /\ id' = [n \in Nodes |-> IF n \in ToSet(nodes)
                                   THEN read[CHOOSE i \in DOMAIN nodes : nodes[i] = n].id
                                   ELSE id[n]]
         /\ used' = used \cup ToSet(nodes)
  /\ UNCHANGED <<clip, file>>

Step == \/ \E k \in {Kind[n] : n \in Nodes}, p \in Places : Create(k, p)
        \/ \E x \in Nodes, p \in Places : Move(x, p)
        \/ \E x \in Nodes : Copy(x) \/ Paste(x)
        \/ Save \/ Open

Next == steps < MaxSteps /\ steps' = steps + 1 /\ Step

Spec == Init /\ [][Next]_vars

-----------------------------------------------------------------------------
Buffers == {clip, file}

(* The variables keep their types; an id is at most as large as there are  *)
(* instances in a buffer it was given in.                                  *)
TypeOK == /\ tree.parent \in [Nodes -> used \cup {None}]
          /\ id \in [Nodes -> 0..Cardinality(Nodes)]
          /\ \A n \in Nodes \ used : id[n] = 0
           /\ \A b \in Buffers : \A i \in DOMAIN b.recs :
               b.recs[i].id \in 1..Cardinality(Nodes)

(* An id names one record of a buffer, however the ids of the live         *)
(* instances came about: from saves, copies of parts of the tree, and      *)
(* files opened twice.                                                     *)
IdsNameOneRecord ==
  \A b \in Buffers : \A i, j \in DOMAIN b.recs :
    b.recs[i].id = b.recs[j].id => i = j

(* A saved map reads back as what was saved, wherever Game and Workspace   *)
(* are in it: a game that plays the map gets every instance it can create. *)
FileReadsBack == ReadBack(file.recs) = file.forest

(* A copied subtree reads back as what was copied, unless the id of its    *)
(* parent, which is not in the buffer, is also the id of a record in it.   *)
ClipReadsBack == clip.outside \/ ReadBack(clip.recs) = clip.forest

(* Pasting puts the copied instance with all that could be read into the   *)
(* tree, last where it goes; everything that was there keeps its place.    *)
PasteAddsTheCopy ==
  [][clip.recs # <<>> /\ ~clip.outside /\ used' # used /\ id' = id =>
     \A x \in Nodes : Paste(x) =>
       /\ Shape(tree', Last(tree'.children[PasteParent(x)])) = clip.forest[1]
       /\ \A n \in Shown : IsPrefix(tree.children[n], tree'.children[n])]_vars
=============================================================================
