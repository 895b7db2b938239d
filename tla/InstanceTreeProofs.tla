------------------------- MODULE InstanceTreeProofs -------------------------
(***************************************************************************)
(* A tree of any instances of any types, edited in any order, stays sound: *)
(* no instance is its own ancestor and both directions of every link       *)
(* agree; and what listens to it, the bodies and the picture, follows.     *)
(* First what the walks of Instances compute, then lists of children, then *)
(* what each operation keeps of a tree, at last the steps.  The second     *)
(* half is about RenderBuckets: what a rebuild collects of such a tree is  *)
(* the tree, as long as no change came between.                            *)
(***************************************************************************)
EXTENDS InstanceTree, RenderBuckets, TLAPS, FiniteSetTheorems, FunctionTheorems,
        SequenceTheorems, WellFoundedInduction

Loopless(par) == \A S \in SUBSET Nodes : S # {} => \E y \in S : par[y] \notin S

ParentsOK(par) == par \in [Nodes -> Nodes \cup {None}]

(* Resetting parents makes no loop: a loop of what is left was there before.*)
LEMMA CutKeepsLoopless ==
  ASSUME NEW par, NEW cut, ParentsOK(par), Loopless(par),
         \A n \in Nodes : cut[n] \in {par[n], None}
  PROVE  Loopless(cut)
<1> SUFFICES ASSUME NEW S \in SUBSET Nodes, S # {}
             PROVE  \E y \in S : cut[y] \notin S
    BY DEF Loopless
<1>1. PICK y \in S : par[y] \notin S
    BY DEF Loopless
<1>2. cut[y] \notin S
    BY <1>1, NodesAssumption
<1> QED BY <1>2

(* Setting one parent after the walk makes no loop.  The walk gives a set   *)
(* W closed upwards, with the new parent and without the moved instance; a  *)
(* loop through the moved instance would leave a loop inside W.             *)
LEMMA SetKeepsLoopless ==
  ASSUME NEW par, NEW x \in Nodes, NEW p \in Nodes \cup {None},
         ParentsOK(par), Loopless(par), WalkAvoids(par, x, p)
  PROVE  Loopless([par EXCEPT ![x] = p])
<1> DEFINE new == [par EXCEPT ![x] = p]
<1>1. /\ new[x] = p
      /\ \A n \in Nodes \ {x} : new[n] = par[n]
    BY DEF ParentsOK
<1> HIDE DEF new
<1>2. SUFFICES ASSUME NEW S \in SUBSET Nodes, S # {}, \A y \in S : new[y] \in S
               PROVE  FALSE
    BY DEF Loopless, new
<1>3. CASE x \notin S
  <2>1. \A y \in S : par[y] \in S
      BY <1>1, <1>2, <1>3
  <2> QED BY <1>2, <2>1 DEF Loopless
<1>4. CASE x \in S
  <2>1. p \in S /\ p # None
      BY <1>1, <1>2, <1>4, NodesAssumption
  <2>2. PICK W \in SUBSET (Nodes \ {x}) : p \in W /\ ClosedUpwards(par, W)
      BY <2>1 DEF WalkAvoids
  <2> DEFINE L == S \cap W
  <2>3. L \in SUBSET Nodes /\ L # {}
      BY <2>1, <2>2
  <2>4. \A y \in L : par[y] \in L
    <3> SUFFICES ASSUME NEW y \in L PROVE par[y] \in L
        OBVIOUS
    <3>1. y # x /\ y \in Nodes
        BY <2>2
    <3>2. par[y] \in S
        BY <1>1, <1>2, <3>1
    <3>3. par[y] # None
        BY <3>2, NodesAssumption
    <3>4. par[y] \in W
        BY <2>2, <3>3 DEF ClosedUpwards
    <3> QED BY <3>2, <3>4
  <2> QED BY <2>3, <2>4 DEF Loopless
<1> QED BY <1>3, <1>4

-----------------------------------------------------------------------------
(* The walks of Instances are recursive functions.  What each computes is   *)
(* the smallest set closed under the steps it takes: that function solves   *)
(* the equation, and an argument of the walk where another solution differs *)
(* leads to one where it does not.                                          *)

ClosedUnder(step, S) == \A x \in S : step[x] \subseteq S

Closure(H, step) == {n \in Nodes : \A S \in SUBSET Nodes :
                       H \subseteq S /\ ClosedUnder(step, S) => n \in S}

LEMMA ClosureFacts ==
  ASSUME NEW step \in [Nodes -> SUBSET Nodes], NEW H \in SUBSET Nodes
  PROVE  /\ Closure(H, step) \in SUBSET Nodes
         /\ H \subseteq Closure(H, step)
         /\ ClosedUnder(step, Closure(H, step))
         /\ \A S \in SUBSET Nodes :
              H \subseteq S /\ ClosedUnder(step, S) => Closure(H, step) \subseteq S
<1>1. ClosedUnder(step, Closure(H, step))
  <2> SUFFICES ASSUME NEW x \in Closure(H, step), NEW y \in step[x]
               PROVE  y \in Closure(H, step)
      BY DEF ClosedUnder
  <2>1. x \in Nodes /\ y \in Nodes
      BY DEF Closure
  <2>2. ASSUME NEW S \in SUBSET Nodes, H \subseteq S, ClosedUnder(step, S) PROVE y \in S
      BY <2>2 DEF Closure, ClosedUnder
  <2> QED BY <2>1, <2>2 DEF Closure
<1> QED BY <1>1 DEF Closure

(* Taking a step first changes nothing.                                     *)
LEMMA ClosureSteps ==
  ASSUME NEW step \in [Nodes -> SUBSET Nodes], NEW H \in SUBSET Nodes,
         NEW G \in SUBSET Nodes, H \subseteq G, G \subseteq Closure(H, step)
  PROVE  Closure(G, step) = Closure(H, step)
<1>1. Closure(G, step) \subseteq Closure(H, step)
    BY ClosureFacts
<1>2. H \subseteq Closure(G, step) /\ ClosedUnder(step, Closure(G, step))
      /\ Closure(G, step) \in SUBSET Nodes
    BY ClosureFacts
<1>3. Closure(H, step) \subseteq Closure(G, step)
    BY <1>2, ClosureFacts
<1> QED BY <1>1, <1>3

LEMMA ClosureParts ==
  ASSUME NEW step \in [Nodes -> SUBSET Nodes], NEW x \in Nodes
  PROVE  Closure({x}, step) = {x} \cup UNION {Closure({c}, step) : c \in step[x]}
<1> DEFINE C == Closure({x}, step)
           U == {x} \cup UNION {Closure({c}, step) : c \in step[x]}
<1>1. /\ C \in SUBSET Nodes /\ x \in C /\ ClosedUnder(step, C)
      /\ \A S \in SUBSET Nodes : {x} \subseteq S /\ ClosedUnder(step, S) => C \subseteq S
    BY ClosureFacts
<1>2. \A c \in step[x] :
        /\ Closure({c}, step) \in SUBSET Nodes /\ c \in Closure({c}, step)
        /\ ClosedUnder(step, Closure({c}, step))
  <2> TAKE c \in step[x]
  <2>1. {c} \in SUBSET Nodes
      OBVIOUS
  <2> QED BY <2>1, ClosureFacts
<1>3. \A c \in step[x] : Closure({c}, step) \subseteq C
  <2> TAKE c \in step[x]
  <2>1. {c} \in SUBSET Nodes /\ {c} \subseteq C
      BY <1>1 DEF ClosedUnder
  <2> HIDE DEF C
  <2> QED BY <2>1, <1>1, ClosureFacts
<1>4. U \in SUBSET Nodes /\ {x} \subseteq U
    BY <1>2
<1>5. ClosedUnder(step, U)
  <2> SUFFICES ASSUME NEW y \in U PROVE step[y] \subseteq U
      BY DEF ClosedUnder
  <2>1. CASE y = x
      BY <2>1, <1>2
  <2>2. CASE y # x
      BY <2>2, <1>2 DEF ClosedUnder
  <2> QED BY <2>1, <2>2
<1>6. U \subseteq C
    BY <1>1, <1>3
<1> HIDE DEF U, C
<1>7. C \subseteq U
    BY <1>1, <1>4, <1>5
<1> QED BY <1>6, <1>7 DEF U, C

Kids(t) == [x \in Nodes |-> ToSet(t.children[x])]

Shaped(t) == /\ ParentsOK(t.parent) /\ Loopless(t.parent)
             /\ t.children \in [Nodes -> Seq(Nodes)]

LEMMA KidsType == ASSUME NEW t, Shaped(t) PROVE Kids(t) \in [Nodes -> SUBSET Nodes]
<1> SUFFICES ASSUME NEW x \in Nodes PROVE ToSet(t.children[x]) \subseteq Nodes
    BY DEF Kids
<1>1. t.children[x] \in Seq(Nodes)
    BY DEF Shaped
<1> QED BY <1>1 DEF ToSet

LEMMA ReachedIs ==
  ASSUME NEW t, Shaped(t), NEW H \in SUBSET Nodes
  PROVE  Reached(t, H) = Closure(H, Kids(t))
<1> DEFINE more(S) == S \cup UNION {ToSet(t.children[x]) : x \in S}
           Solves(g) == g = [S \in SUBSET Nodes |-> IF more(S) = S THEN S ELSE g[more(S)]]
           k == Kids(t)
           clo == [S \in SUBSET Nodes |-> Closure(S, k)]
           grow == CHOOSE g : Solves(g)
<1>0. k \in [Nodes -> SUBSET Nodes]
    BY KidsType
<1>1. Reached(t, H) = grow[H]
    BY Zenon DEF Reached
<1>2. \A S \in SUBSET Nodes : more(S) = S \cup UNION {k[x] : x \in S}
    BY DEF Kids
<1> HIDE DEF k, more
<1>3. ASSUME NEW S \in SUBSET Nodes
      PROVE  /\ more(S) \in SUBSET Nodes
             /\ S \subseteq more(S)
             /\ more(S) = S => Closure(S, k) = S
             /\ Closure(more(S), k) = Closure(S, k)
  <2>1. more(S) \in SUBSET Nodes /\ S \subseteq more(S)
      BY <1>0, <1>2
  <2>2. S \subseteq Closure(S, k) /\ ClosedUnder(k, Closure(S, k))
      BY <1>0, ClosureFacts
  <2>3. more(S) \subseteq Closure(S, k)
      BY <1>2, <2>2 DEF ClosedUnder
  <2>4. Closure(more(S), k) = Closure(S, k)
      BY <1>0, <2>1, <2>3, ClosureSteps
  <2>5. ASSUME more(S) = S PROVE Closure(S, k) = S
    <3>1. ClosedUnder(k, S)
        BY <1>2, <2>5 DEF ClosedUnder
    <3> QED BY <3>1, <1>0, <2>2, ClosureFacts
  <2> QED BY <2>1, <2>4, <2>5
<1>4. Solves(clo)
    BY <1>3
<1>5. Solves(grow)
    BY <1>4
<1> HIDE DEF grow, clo
<1>6. ASSUME NEW S \in SUBSET Nodes
      PROVE  grow[S] = IF more(S) = S THEN S ELSE grow[more(S)]
    BY <1>5
<1> HIDE DEF Solves
<1> DEFINE Bad == {S \in SUBSET Nodes : grow[S] # Closure(S, k)}
           Rests == {Nodes \ S : S \in Bad}
<1>7. SUFFICES ASSUME grow[H] # Closure(H, k) PROVE FALSE
    BY <1>1 DEF k
<1>8. Bad # {}
    BY <1>7
<1>9. PICK R \in Rests : \A Q \in Rests : ~(<<Q, R>> \in StrictSubsetOrdering(Nodes))
  <2>0. \A Q \in SUBSET Nodes : IsFiniteSet(Q)
      BY NodesAssumption, FS_Subset
  <2>1. Rests \subseteq FiniteSubsetsOf(Nodes) /\ Rests # {}
      BY <1>8, <2>0 DEF FiniteSubsetsOf
  <2> QED BY <2>1, FS_StrictSubsetOrderingWellFounded, WFMin
<1>10. PICK S \in Bad : R = Nodes \ S
    OBVIOUS
<1>11. more(S) # S
    BY <1>3, <1>6, <1>10
<1>12. more(S) \in Bad
    BY <1>3, <1>6, <1>11
<1>13. <<Nodes \ more(S), R>> \in StrictSubsetOrdering(Nodes)
    BY <1>3, <1>10, <1>11 DEF StrictSubsetOrdering
<1> QED BY <1>9, <1>12, <1>13

LEMMA ReachedFacts ==
  ASSUME NEW t, Shaped(t), NEW H \in SUBSET Nodes
  PROVE  /\ Reached(t, H) \in SUBSET Nodes /\ H \subseteq Reached(t, H)
         /\ \A x \in Reached(t, H) : ToSet(t.children[x]) \subseteq Reached(t, H)
         /\ \A S \in SUBSET Nodes :
              H \subseteq S /\ (\A x \in S : ToSet(t.children[x]) \subseteq S)
              => Reached(t, H) \subseteq S
<1>1. Kids(t) \in [Nodes -> SUBSET Nodes] /\ Reached(t, H) = Closure(H, Kids(t))
    BY KidsType, ReachedIs
<1>2. \A S \in SUBSET Nodes :
        ClosedUnder(Kids(t), S) <=> \A x \in S : ToSet(t.children[x]) \subseteq S
    BY DEF ClosedUnder, Kids
<1>3. Reached(t, H) \in SUBSET Nodes /\ H \subseteq Reached(t, H)
    BY <1>1, ClosureFacts
<1>4. ClosedUnder(Kids(t), Reached(t, H))
    BY <1>1, ClosureFacts
<1>5. \A S \in SUBSET Nodes :
        H \subseteq S /\ ClosedUnder(Kids(t), S) => Reached(t, H) \subseteq S
    BY <1>1, ClosureFacts
<1> QED BY <1>2, <1>3, <1>4, <1>5

Up(t) == [x \in Nodes |-> {t.parent[x]} \ {None}]

LEMMA UpType == ASSUME NEW t, Shaped(t) PROVE Up(t) \in [Nodes -> SUBSET Nodes]
BY DEF Up, Shaped, ParentsOK

LEMMA UpwardsIs ==
  ASSUME NEW t, Shaped(t), NEW n \in Nodes
  PROVE  Upwards(t, n) = Closure({n}, Up(t))
<1> DEFINE Solves(g) == g = [x \in Nodes |->
                               {x} \cup (IF t.parent[x] = None THEN {} ELSE g[t.parent[x]])]
           u == Up(t)
           clo == [x \in Nodes |-> Closure({x}, u)]
           up == CHOOSE g : Solves(g)
<1>0. u \in [Nodes -> SUBSET Nodes]
    BY UpType
<1>1. Upwards(t, n) = up[n]
  <2>1. n # None
      BY NodesAssumption
  <2> QED BY <2>1, Zenon DEF Upwards
<1>2. \A x \in Nodes : u[x] = IF t.parent[x] = None THEN {} ELSE {t.parent[x]}
    BY DEF Up
<1>3. \A x \in Nodes : t.parent[x] \in Nodes \cup {None}
    BY DEF Shaped, ParentsOK
<1> HIDE DEF u
<1>4. ASSUME NEW x \in Nodes
      PROVE  Closure({x}, u) = {x} \cup (IF t.parent[x] = None THEN {}
                                         ELSE Closure({t.parent[x]}, u))
  <2>1. Closure({x}, u) = {x} \cup UNION {Closure({c}, u) : c \in u[x]}
      BY <1>0, ClosureParts
  <2> QED BY <1>2, <2>1
<1>5. Solves(clo)
    BY <1>3, <1>4, NodesAssumption
<1>6. Solves(up)
    BY <1>5
<1> HIDE DEF up, clo
<1>7. \A x \in Nodes : up[x] = {x} \cup (IF t.parent[x] = None THEN {} ELSE up[t.parent[x]])
    BY <1>6
<1> HIDE DEF Solves
<1> DEFINE Bad == {x \in Nodes : up[x] # Closure({x}, u)}
<1>8. SUFFICES ASSUME up[n] # Closure({n}, u) PROVE FALSE
    BY <1>1 DEF u
<1>9. PICK x \in Bad : t.parent[x] \notin Bad
  <2>1. Bad \in SUBSET Nodes /\ Bad # {}
      BY <1>8
  <2> HIDE DEF Bad
  <2> QED BY <2>1 DEF Shaped, Loopless
<1> QED BY <1>3, <1>4, <1>7, <1>9

LEMMA UpwardsFacts ==
  ASSUME NEW t, Shaped(t), NEW n \in Nodes
  PROVE  /\ Upwards(t, n) \in SUBSET Nodes /\ n \in Upwards(t, n)
         /\ ClosedUpwards(t.parent, Upwards(t, n))
         /\ \A S \in SUBSET Nodes :
              n \in S /\ ClosedUpwards(t.parent, S) => Upwards(t, n) \subseteq S
<1>1. Up(t) \in [Nodes -> SUBSET Nodes] /\ Upwards(t, n) = Closure({n}, Up(t))
    BY UpType, UpwardsIs
<1>2. \A S \in SUBSET Nodes : ClosedUnder(Up(t), S) <=> ClosedUpwards(t.parent, S)
    BY DEF ClosedUnder, Up, ClosedUpwards
<1>3. Upwards(t, n) \in SUBSET Nodes /\ n \in Upwards(t, n)
    BY <1>1, ClosureFacts
<1>4. ClosedUnder(Up(t), Upwards(t, n))
    BY <1>1, ClosureFacts
<1>5. \A S \in SUBSET Nodes :
        n \in S /\ ClosedUnder(Up(t), S) => Upwards(t, n) \subseteq S
    BY <1>1, ClosureFacts
<1> QED BY <1>2, <1>3, <1>4, <1>5

LEMMA UpwardsNone == ASSUME NEW t PROVE Upwards(t, None) = {}
BY DEF Upwards

-----------------------------------------------------------------------------
(* Lists of children.                                                       *)

LEMMA AppendFacts ==
  ASSUME NEW S, NEW s \in Seq(S), NEW x \in S
  PROVE  /\ Append(s, x) \in Seq(S)
         /\ ToSet(Append(s, x)) = ToSet(s) \cup {x}
         /\ IsInjective(s) /\ x \notin ToSet(s) => IsInjective(Append(s, x))
<1>1. /\ Append(s, x) \in Seq(S) /\ DOMAIN Append(s, x) = 1..(Len(s) + 1)
      /\ DOMAIN s = 1..Len(s) /\ Len(s) \in Nat
      /\ \A i \in 1..Len(s) : Append(s, x)[i] = s[i]
      /\ Append(s, x)[Len(s) + 1] = x
    OBVIOUS
<1>2. ToSet(Append(s, x)) = ToSet(s) \cup {x}
    BY <1>1 DEF ToSet
<1>3. ASSUME IsInjective(s), x \notin ToSet(s) PROVE IsInjective(Append(s, x))
    BY <1>1, <1>3 DEF ToSet, IsInjective
<1> QED BY <1>1, <1>2, <1>3

LEMMA RemoveAtFacts ==
  ASSUME NEW S, NEW s \in Seq(S), NEW k \in 1..Len(s)
  PROVE  /\ RemoveAt(s, k) \in Seq(S)
         /\ Len(RemoveAt(s, k)) = Len(s) - 1
         /\ \A i \in 1..(Len(s) - 1) : RemoveAt(s, k)[i] = s[IF i < k THEN i ELSE i + 1]
<1> DEFINE a == SubSeq(s, 1, k - 1)
           b == SubSeq(s, k + 1, Len(s))
<1>1. a \in Seq(S) /\ Len(a) = k - 1 /\ \A i \in 1..(k - 1) : a[i] = s[i]
    OBVIOUS
<1>2. /\ b \in Seq(S) /\ Len(b) = Len(s) - k
      /\ \A i \in 1..(Len(s) - k) : b[i] = s[i + k]
    OBVIOUS
<1>3. RemoveAt(s, k) = a \o b
    BY DEF RemoveAt
<1> HIDE DEF a, b
<1>4. a \o b \in Seq(S) /\ Len(a \o b) = Len(s) - 1
  <2>1. a \o b \in Seq(S) /\ Len(a \o b) = Len(a) + Len(b)
      BY <1>1, <1>2, ConcatProperties
  <2> QED BY <1>1, <1>2, <2>1
<1>5. ASSUME NEW i \in 1..(Len(s) - 1)
      PROVE  (a \o b)[i] = s[IF i < k THEN i ELSE i + 1]
  <2>1. CASE i < k
      BY <1>1, <1>2, <2>1
  <2>2. CASE ~(i < k)
    <3>1. (a \o b)[i] = b[i - (k - 1)]
        BY <1>1, <1>2, <2>2
    <3> QED BY <1>2, <2>2, <3>1
  <2> QED BY <2>1, <2>2
<1> QED BY <1>3, <1>4, <1>5

LEMMA EraseFacts ==
  ASSUME NEW S, NEW s \in Seq(S), IsInjective(s), NEW x
  PROVE  /\ Erase(s, x) \in Seq(S)
         /\ ToSet(Erase(s, x)) = ToSet(s) \ {x}
         /\ IsInjective(Erase(s, x))
<1>1. CASE x \notin ToSet(s)
    BY <1>1 DEF Erase
<1>2. CASE x \in ToSet(s)
  <2> DEFINE k == CHOOSE i \in DOMAIN s : s[i] = x
             e == RemoveAt(s, k)
  <2>1. k \in 1..Len(s) /\ s[k] = x
      BY <1>2 DEF ToSet
  <2>2. Erase(s, x) = e
      BY <1>2 DEF Erase
  <2> HIDE DEF k
  <2>3. /\ e \in Seq(S) /\ Len(e) = Len(s) - 1
        /\ \A i \in 1..(Len(s) - 1) : e[i] = s[IF i < k THEN i ELSE i + 1]
      BY <2>1, RemoveAtFacts
  <2> HIDE DEF e
  <2>4. DOMAIN e = 1..(Len(s) - 1) /\ DOMAIN s = 1..Len(s) /\ Len(s) \in Nat
      BY <2>3
  <2>5. \A i \in 1..(Len(s) - 1) :
          (IF i < k THEN i ELSE i + 1) \in 1..Len(s) /\ (IF i < k THEN i ELSE i + 1) # k
      BY <2>1, <2>4
  <2>6. \A i \in 1..Len(s) : i # k => \E j \in 1..(Len(s) - 1) : i = IF j < k THEN j ELSE j + 1
    <3> SUFFICES ASSUME NEW i \in 1..Len(s), i # k
                 PROVE  \E j \in 1..(Len(s) - 1) : i = IF j < k THEN j ELSE j + 1
        OBVIOUS
    <3>1. CASE i < k
        BY SMTT(30), <2>1, <2>4, <3>1
    <3>2. CASE i > k
      <4>1. i - 1 \in 1..(Len(s) - 1) /\ ~(i - 1 < k) /\ i = (i - 1) + 1
          BY <2>1, <2>4, <3>2
      <4> QED BY <4>1
    <3> QED BY <2>1, <2>4, <3>1, <3>2
  <2>7. \A i \in 1..Len(s) : s[i] = x => i = k
      BY <2>1, <2>4 DEF IsInjective
  <2>8. ToSet(e) \subseteq ToSet(s) \ {x}
      BY <2>3, <2>4, <2>5, <2>7 DEF ToSet
  <2>9. ToSet(s) \ {x} \subseteq ToSet(e)
    <3> SUFFICES ASSUME NEW i \in DOMAIN s, s[i] # x PROVE s[i] \in ToSet(e)
        BY DEF ToSet
    <3>1. PICK j \in 1..(Len(s) - 1) : i = IF j < k THEN j ELSE j + 1
        BY <2>1, <2>4, <2>6
    <3>2. e[j] = s[i]
        BY <2>3, <3>1
    <3> QED BY <2>4, <3>2 DEF ToSet
  <2>10. IsInjective(e)
    <3> SUFFICES ASSUME NEW i \in 1..(Len(s) - 1), NEW j \in 1..(Len(s) - 1), e[i] = e[j]
                 PROVE  i = j
        BY <2>4 DEF IsInjective
    <3>1. (IF i < k THEN i ELSE i + 1) = (IF j < k THEN j ELSE j + 1)
        BY <2>3, <2>4, <2>5 DEF IsInjective
    <3> QED BY <2>1, <2>4, <3>1
  <2> QED BY <2>2, <2>3, <2>8, <2>9, <2>10
<1> QED BY <1>1, <1>2

-----------------------------------------------------------------------------
(* A sound tree: the links agree, without loops, and Game has no parent.    *)

Linkage(t) ==
  \A p \in Nodes :
    LET kids == ToSet(t.children[p])
    IN  /\ IsInjective(t.children[p])
        /\ \A n \in kids : t.parent[n] = p
        /\ \A n \in Nodes \ (kids \cup Protected) : t.parent[n] # p

Sound(t) == Shaped(t) /\ Linkage(t) /\ t.parent[Game] = None

LEMMA KidsAre ==
  ASSUME NEW t, Sound(t), NEW p \in Nodes
  PROVE  /\ t.children[p] \in Seq(Nodes) /\ IsInjective(t.children[p])
         /\ ToSet(t.children[p]) \subseteq Nodes
         /\ \A n \in ToSet(t.children[p]) : t.parent[n] = p
         /\ \A n \in Nodes \ Protected : t.parent[n] = p => n \in ToSet(t.children[p])
<1>1. t.children[p] \in Seq(Nodes)
    BY DEF Sound, Shaped
<1>2. ToSet(t.children[p]) \subseteq Nodes
    BY <1>1 DEF ToSet
<1> QED BY <1>1, <1>2 DEF Sound, Linkage

LEMMA ParentsAre ==
  ASSUME NEW t, Sound(t)
  PROVE  /\ t.parent \in [Nodes -> Nodes \cup {None}] /\ Loopless(t.parent)
         /\ t.parent[Game] = None /\ Shaped(t)
BY DEF Sound, Shaped, ParentsOK

(* Somewhere down a set of instances the children are outside: otherwise a  *)
(* choice of children would fill the set, and all parents would be in it.   *)
LEMMA Leaves ==
  ASSUME NEW t, Sound(t), NEW S \in SUBSET Nodes, S # {}
  PROVE  \E y \in S : ToSet(t.children[y]) \cap S = {}
<1> SUFFICES ASSUME \A y \in S : ToSet(t.children[y]) \cap S # {} PROVE FALSE
    OBVIOUS
<1> DEFINE f == [y \in S |-> CHOOSE c \in ToSet(t.children[y]) : c \in S]
<1>1. \A y \in S : f[y] \in S /\ t.parent[f[y]] = y
  <2> TAKE y \in S
  <2>1. f[y] \in ToSet(t.children[y]) /\ f[y] \in S
      OBVIOUS
  <2> QED BY <2>1, KidsAre
<1>2. f \in [S -> S]
    BY <1>1
<1> HIDE DEF f
<1>3. f \in Injection(S, S)
    BY <1>1, <1>2, Fun_IsInj
<1>4. IsFiniteSet(S)
    BY NodesAssumption, FS_Subset
<1>5. f \in Surjection(S, S)
    BY <1>3, <1>4, FS_Injection
<1>6. \A c \in S : \E y \in S : f[y] = c
    BY <1>5 DEF Surjection
<1>7. \A c \in S : t.parent[c] \in S
    BY <1>1, <1>6
<1> QED BY <1>7, ParentsAre DEF Loopless

Below(t) == [x \in Nodes |-> ToSet(t.children[x]) \ Protected]

LEMMA BelowType == ASSUME NEW t, Sound(t) PROVE Below(t) \in [Nodes -> SUBSET Nodes]
BY KidsAre DEF Below

LEMMA DoomedIs ==
  ASSUME NEW t, Sound(t), NEW n \in Nodes
  PROVE  Doomed(t, n) = IF n \in Protected THEN {} ELSE Closure({n}, Below(t))
<1> DEFINE Solves(g) == g = [x \in Nodes |->
                               IF x \in Protected THEN {}
                               ELSE {x} \cup UNION {g[c] : c \in ToSet(t.children[x])}]
           b == Below(t)
           clo(x) == IF x \in Protected THEN {} ELSE Closure({x}, b)
           all == [x \in Nodes |-> clo(x)]
           down == CHOOSE g : Solves(g)
<1>0. b \in [Nodes -> SUBSET Nodes]
    BY BelowType
<1>1. Doomed(t, n) = down[n]
    BY Zenon DEF Doomed
<1>2. \A x \in Nodes : b[x] = ToSet(t.children[x]) \ Protected
    BY DEF Below
<1>3. \A x \in Nodes : ToSet(t.children[x]) \subseteq Nodes
    BY KidsAre
<1> HIDE DEF b
<1>4. ASSUME NEW x \in Nodes
      PROVE  clo(x) = IF x \in Protected THEN {}
                      ELSE {x} \cup UNION {clo(c) : c \in ToSet(t.children[x])}
  <2>1. Closure({x}, b) = {x} \cup UNION {Closure({c}, b) : c \in b[x]}
      BY <1>0, ClosureParts
  <2>2. UNION {clo(c) : c \in ToSet(t.children[x])} = UNION {Closure({c}, b) : c \in b[x]}
      BY <1>2
  <2> QED BY <2>1, <2>2
<1> HIDE DEF clo
<1>5. Solves(all)
  <2>1. \A x \in Nodes : \A c \in ToSet(t.children[x]) : all[c] = clo(c)
      BY <1>3
  <2>2. \A x \in Nodes :
          UNION {all[c] : c \in ToSet(t.children[x])} = UNION {clo(c) : c \in ToSet(t.children[x])}
      BY <2>1
  <2>3. \A x \in Nodes : all[x] = IF x \in Protected THEN {}
                      ELSE {x} \cup UNION {all[c] : c \in ToSet(t.children[x])}
      BY <1>4, <2>2
  <2> QED BY <2>3
<1>6. Solves(down)
    BY <1>5
<1> HIDE DEF down, all
<1>7. \A x \in Nodes : down[x] = IF x \in Protected THEN {}
                        ELSE {x} \cup UNION {down[c] : c \in ToSet(t.children[x])}
    BY <1>6
<1> HIDE DEF Solves
<1> DEFINE Bad == {x \in Nodes : down[x] # clo(x)}
<1>8. SUFFICES ASSUME down[n] # clo(n) PROVE FALSE
    BY <1>1 DEF b, clo
<1>9. PICK x \in Bad : ToSet(t.children[x]) \cap Bad = {}
  <2>1. Bad \in SUBSET Nodes /\ Bad # {}
      BY <1>8
  <2> HIDE DEF Bad
  <2> QED BY <2>1, Leaves
<1>10. \A c \in ToSet(t.children[x]) : down[c] = clo(c)
    BY <1>3, <1>9
<1>11. UNION {down[c] : c \in ToSet(t.children[x])} = UNION {clo(c) : c \in ToSet(t.children[x])}
    BY <1>10
<1> QED BY <1>4, <1>7, <1>9, <1>11

LEMMA DoomedFacts ==
  ASSUME NEW t, Sound(t), NEW n \in Nodes
  PROVE  LET D == Doomed(t, n)
         IN  /\ D \in SUBSET (Nodes \ Protected)
             /\ n \in D <=> D # {}
             /\ n \in Protected <=> D = {}
             /\ \A x \in D : ToSet(t.children[x]) \ Protected \subseteq D
             /\ \A x \in D \ {n} : t.parent[x] \in D
<1>1. CASE n \in Protected
    BY <1>1, DoomedIs
<1>2. CASE n \notin Protected
  <2> DEFINE D == Doomed(t, n)
  <2>1. D = Closure({n}, Below(t)) /\ Below(t) \in [Nodes -> SUBSET Nodes]
      BY <1>2, DoomedIs, BelowType
  <2>2. \A S \in SUBSET Nodes :
          ClosedUnder(Below(t), S) <=> \A x \in S : ToSet(t.children[x]) \ Protected \subseteq S
      BY DEF ClosedUnder, Below
  <2>3. D \in SUBSET Nodes /\ n \in D /\ ClosedUnder(Below(t), D)
      BY <2>1, ClosureFacts
  <2>4. \A S \in SUBSET Nodes : n \in S /\ ClosedUnder(Below(t), S) => D \subseteq S
      BY <2>1, ClosureFacts
  <2> HIDE DEF D
  <2>5. \A x \in D : ToSet(t.children[x]) \ Protected \subseteq D
      BY <2>2, <2>3
  <2> DEFINE S == {x \in D \ Protected : x = n \/ t.parent[x] \in D}
  <2>6. D \subseteq S
    <3>1. S \in SUBSET Nodes /\ n \in S
        BY <1>2, <2>3
    <3>2. \A x \in S : ToSet(t.children[x]) \ Protected \subseteq S
      <4> SUFFICES ASSUME NEW x \in S, NEW c \in ToSet(t.children[x]) \ Protected
                   PROVE  c \in S
          OBVIOUS
      <4>1. x \in Nodes /\ x \in D
          BY <2>3
      <4>2. t.parent[c] = x
          BY <4>1, KidsAre
      <4> QED BY <2>5, <4>1, <4>2
    <3> HIDE DEF S
    <3> QED BY <2>2, <2>4, <3>1, <3>2
  <2> QED BY <1>2, <2>3, <2>5, <2>6 DEF D
<1> QED BY <1>1, <1>2

-----------------------------------------------------------------------------
(* Walks up and down a sound tree meet the same instances.                  *)

LEMMA SubtreeFacts ==
  ASSUME NEW t, Sound(t), NEW h \in Nodes
  PROVE  /\ Subtree(t, h) \in SUBSET Nodes /\ h \in Subtree(t, h)
         /\ \A x \in Subtree(t, h) : ToSet(t.children[x]) \subseteq Subtree(t, h)
         /\ \A S \in SUBSET Nodes :
              h \in S /\ (\A x \in S : ToSet(t.children[x]) \subseteq S)
              => Subtree(t, h) \subseteq S
<1>1. Shaped(t) /\ {h} \in SUBSET Nodes
    BY ParentsAre
<1> QED BY <1>1, ReachedFacts DEF Subtree

LEMMA SubtreeParent ==
  ASSUME NEW t, Sound(t), NEW h \in Nodes, NEW n \in Subtree(t, h), n # h
  PROVE  t.parent[n] \in Subtree(t, h) /\ n \in ToSet(t.children[t.parent[n]])
<1> DEFINE B == Subtree(t, h)
           S == {x \in B : x = h \/ (t.parent[x] \in B /\ x \in ToSet(t.children[t.parent[x]]))}
<1>1. B \in SUBSET Nodes /\ h \in B /\ \A x \in B : ToSet(t.children[x]) \subseteq B
    BY SubtreeFacts
<1>2. \A x \in S : ToSet(t.children[x]) \subseteq S
    BY <1>1, KidsAre
<1>3. S \in SUBSET Nodes /\ h \in S
    BY <1>1
<1> HIDE DEF S
<1>4. B \subseteq S
    BY <1>2, <1>3, SubtreeFacts
<1> QED BY <1>4 DEF S

LEMMA WorldIsBelow ==
  ASSUME NEW t, Sound(t), NEW n \in Nodes
  PROVE  InWorld(t, n) <=> n \in World(t)
<1>1. /\ World(t) \in SUBSET Nodes /\ Workspace \in World(t)
      /\ \A x \in World(t) : ToSet(t.children[x]) \subseteq World(t)
      /\ \A S \in SUBSET Nodes :
           Workspace \in S /\ (\A x \in S : ToSet(t.children[x]) \subseteq S)
           => World(t) \subseteq S
    BY SubtreeFacts, RootsAssumption DEF World
<1>2. \A x \in Nodes : /\ x \in Upwards(t, x) /\ Upwards(t, x) \in SUBSET Nodes
                       /\ ClosedUpwards(t.parent, Upwards(t, x))
    BY UpwardsFacts, ParentsAre
<1>3. ASSUME n \in World(t) PROVE InWorld(t, n)
  <2> DEFINE S == {x \in Nodes : Workspace \in Upwards(t, x)}
  <2>1. Workspace \in S
      BY <1>2, RootsAssumption
  <2>2. ASSUME NEW x \in S, NEW c \in ToSet(t.children[x]) PROVE c \in S
    <3>1. x \in Nodes /\ c \in Nodes /\ t.parent[c] = x
        BY KidsAre
    <3>2. x \in Upwards(t, c)
        BY <1>2, <3>1, NodesAssumption DEF ClosedUpwards
    <3>3. Upwards(t, x) \subseteq Upwards(t, c)
        BY <1>2, <3>1, <3>2, UpwardsFacts, ParentsAre
    <3> QED BY <3>1, <3>3
  <2> HIDE DEF S
  <2>3. S \in SUBSET Nodes
      BY DEF S
  <2>4. World(t) \subseteq S
      BY <1>1, <2>1, <2>2, <2>3
  <2> QED BY <1>3, <2>4 DEF S, InWorld
<1>4. ASSUME InWorld(t, n), n \notin World(t) PROVE FALSE
  <2> DEFINE S == Nodes \ World(t)
  <2>1. ASSUME NEW y \in S, t.parent[y] \notin S \cup {None} PROVE FALSE
    <3>1. t.parent[y] \in World(t)
        BY <2>1, ParentsAre
    <3>2. y \notin Protected
        BY <1>1, <3>1, ParentsAre, RootsAssumption, NodesAssumption
    <3>3. y \in ToSet(t.children[t.parent[y]])
        BY <1>1, <3>1, <3>2, KidsAre
    <3> QED BY <1>1, <3>1, <3>3
  <2>2. ClosedUpwards(t.parent, S)
      BY <2>1 DEF ClosedUpwards
  <2>3. Upwards(t, n) \subseteq S
      BY <1>4, <2>2, UpwardsFacts, ParentsAre
  <2> QED BY <1>1, <1>4, <2>3 DEF InWorld
<1> QED BY <1>3, <1>4

LEMMA NoneOutside == ASSUME NEW t PROVE ~InWorld(t, None)
BY UpwardsNone DEF InWorld

(* Nothing below the workspace holds the workspace.                         *)
LEMMA NotBelowItself ==
  ASSUME NEW t, Sound(t), NEW y \in World(t)
  PROVE  Workspace \notin ToSet(t.children[y])
<1> SUFFICES ASSUME Workspace \in ToSet(t.children[y]) PROVE FALSE
    OBVIOUS
<1>1. World(t) \in SUBSET Nodes /\ Workspace \in World(t)
    BY SubtreeFacts, RootsAssumption DEF World
<1>2. t.parent[Workspace] = y
    BY <1>1, KidsAre
<1>3. \A x \in World(t) : t.parent[x] \in World(t)
  <2> TAKE x \in World(t)
  <2>1. CASE x = Workspace
      BY <1>2, <2>1
  <2>2. CASE x # Workspace
      BY <2>2, SubtreeParent, RootsAssumption DEF World
  <2> QED BY <2>1, <2>2
<1> QED BY <1>1, <1>3, ParentsAre DEF Loopless

(* No other list of children below h: the same instances in the same order. *)
LEMMA SameBelow ==
  ASSUME NEW t, NEW u, Sound(t), Sound(u), NEW h \in Nodes,
         \A x \in Subtree(t, h) : u.children[x] = t.children[x]
  PROVE  Subtree(u, h) = Subtree(t, h) /\ Descendants(u, h) = Descendants(t, h)
<1>1. /\ Subtree(t, h) \in SUBSET Nodes /\ h \in Subtree(t, h)
      /\ \A x \in Subtree(t, h) : ToSet(t.children[x]) \subseteq Subtree(t, h)
      /\ Subtree(u, h) \in SUBSET Nodes /\ h \in Subtree(u, h)
      /\ \A x \in Subtree(u, h) : ToSet(u.children[x]) \subseteq Subtree(u, h)
    BY SubtreeFacts
<1>2. Subtree(u, h) \subseteq Subtree(t, h)
    BY <1>1, SubtreeFacts
<1>3. Subtree(t, h) \subseteq Subtree(u, h)
  <2> DEFINE S == Subtree(t, h) \cap Subtree(u, h)
  <2>1. S \in SUBSET Nodes /\ h \in S /\ \A x \in S : ToSet(t.children[x]) \subseteq S
      BY <1>1
  <2> HIDE DEF S
  <2>2. Subtree(t, h) \subseteq S
      BY <2>1, SubtreeFacts
  <2> QED BY <2>2 DEF S
<1>4. Subtree(u, h) = Subtree(t, h)
    BY <1>2, <1>3
<1>5. [x \in Subtree(u, h) |-> u.children[x]] = [x \in Subtree(t, h) |-> t.children[x]]
    BY <1>4
<1> QED BY <1>4, <1>5, Zenon DEF Descendants

-----------------------------------------------------------------------------
(* What the operations keep of a tree.                                      *)

(* Freeing what is not held leaves all that is below something held.        *)
LEMMA FreedKeeps ==
  ASSUME NEW t, Sound(t), NEW H \in SUBSET Nodes, Game \in H
  PROVE  /\ Sound(Freed(t, H))
         /\ \A x \in Nodes : Freed(t, H).parent[x] \in {t.parent[x], None}
         /\ \A x \in Nodes : ToSet(Freed(t, H).children[x]) \subseteq ToSet(t.children[x])
         /\ \A h \in H : \A x \in Subtree(t, h) :
              Freed(t, H).children[x] = t.children[x]
<1> DEFINE u == Freed(t, H)
           R == Reached(t, H)
<1>1. /\ R \in SUBSET Nodes /\ H \subseteq R
      /\ \A x \in R : ToSet(t.children[x]) \subseteq R
    BY ReachedFacts, ParentsAre
<1>2. /\ u.parent = [x \in Nodes |-> IF x \in R /\ t.parent[x] \in R THEN t.parent[x] ELSE None]
      /\ u.children = [x \in Nodes |-> IF x \in R THEN t.children[x] ELSE <<>>]
    BY DEF Freed, Alive
<1> HIDE DEF u, R
<1>3. \A x \in Nodes : u.parent[x] \in {t.parent[x], None}
    BY <1>2
<1>4. <<>> \in Seq(Nodes) /\ ToSet(<<>>) = {} /\ IsInjective(<<>>)
    BY DEF ToSet, IsInjective
<1>5. Shaped(u)
  <2>1. ParentsOK(u.parent)
      BY <1>2, ParentsAre DEF ParentsOK
  <2>2. Loopless(u.parent)
      BY <1>3, ParentsAre, CutKeepsLoopless DEF ParentsOK
  <2>3. u.children \in [Nodes -> Seq(Nodes)]
      BY <1>2, <1>4, KidsAre
  <2> QED BY <2>1, <2>2, <2>3 DEF Shaped
<1>6. Linkage(u)
  <2> SUFFICES ASSUME NEW p \in Nodes
               PROVE  /\ IsInjective(u.children[p])
                      /\ \A n \in ToSet(u.children[p]) : u.parent[n] = p
                      /\ \A n \in Nodes \ Protected :
                           u.parent[n] = p => n \in ToSet(u.children[p])
      BY DEF Linkage
  <2>1. CASE p \in R
    <3>1. u.children[p] = t.children[p]
        BY <1>2, <2>1
    <3>2. \A n \in ToSet(t.children[p]) : n \in R /\ t.parent[n] = p
        BY <1>1, <2>1, KidsAre
    <3>3. \A n \in ToSet(t.children[p]) : u.parent[n] = p
        BY <1>1, <1>2, <2>1, <3>2
    <3>4. \A n \in Nodes \ Protected : u.parent[n] = p => n \in ToSet(t.children[p])
        BY <1>3, KidsAre, NodesAssumption
    <3> QED BY <3>1, <3>3, <3>4, KidsAre
  <2>2. CASE p \notin R
    <3>1. u.children[p] = <<>>
        BY <1>2, <2>2
    <3>2. \A n \in Nodes : u.parent[n] # p
        BY <1>2, <2>2, NodesAssumption
    <3> QED BY <1>4, <3>1, <3>2
  <2> QED BY <2>1, <2>2
<1>7. u.parent[Game] = None
    BY <1>3, ParentsAre, RootsAssumption
<1>8. Sound(u)
    BY <1>5, <1>6, <1>7 DEF Sound
<1>9. \A x \in Nodes : ToSet(u.children[x]) \subseteq ToSet(t.children[x])
    BY <1>2, <1>4
<1>10. ASSUME NEW h \in H PROVE \A x \in Subtree(t, h) : u.children[x] = t.children[x]
  <2>1. Subtree(t, h) \subseteq R
      BY <1>1, SubtreeFacts
  <2> QED BY <1>1, <1>2, <2>1
<1> QED BY <1>3, <1>8, <1>9, <1>10 DEF u

LEMMA FreedKeepsWorld ==
  ASSUME NEW t, Sound(t), NEW H \in SUBSET Nodes, {Game, Workspace} \subseteq H
  PROVE  /\ World(Freed(t, H)) = World(t)
         /\ Descendants(Freed(t, H), Workspace) = Descendants(t, Workspace)
<1>1. /\ Sound(Freed(t, H))
      /\ \A x \in Subtree(t, Workspace) : Freed(t, H).children[x] = t.children[x]
    BY FreedKeeps
<1> QED BY <1>1, SameBelow, RootsAssumption DEF World

(* The lists of children after a move.                                      *)
LEMMA LinkedKids ==
  ASSUME NEW t, Sound(t), NEW x \in Nodes, NEW p \in Nodes \cup {None}, t.parent[x] # p
  PROVE  /\ Linked(t, x, p).parent = [t.parent EXCEPT ![x] = p]
         /\ Linked(t, x, p).children \in [Nodes -> Seq(Nodes)]
         /\ \A n \in Nodes :
              /\ IsInjective(Linked(t, x, p).children[n])
              /\ \A c : c \in ToSet(Linked(t, x, p).children[n])
                        <=> IF c = x THEN n = p ELSE c \in ToSet(t.children[n])
<1> DEFINE u == Linked(t, x, p)
           rest(n) == IF n = t.parent[x] THEN Erase(t.children[n], x) ELSE t.children[n]
<1>1. /\ u.parent = [t.parent EXCEPT ![x] = p]
      /\ u.children = [n \in Nodes |-> IF n = p THEN Append(rest(n), x) ELSE rest(n)]
    BY DEF Linked
<1>2. ASSUME NEW n \in Nodes
      PROVE  /\ rest(n) \in Seq(Nodes) /\ IsInjective(rest(n))
             /\ ToSet(rest(n)) = ToSet(t.children[n]) \ {x}
  <2>1. t.children[n] \in Seq(Nodes) /\ IsInjective(t.children[n])
      BY KidsAre
  <2>2. CASE n = t.parent[x]
      BY <2>1, <2>2, EraseFacts
  <2>3. CASE n # t.parent[x]
    <3>1. x \notin ToSet(t.children[n])
        BY <2>3, KidsAre
    <3> QED BY <2>1, <2>3, <3>1
  <2> QED BY <2>2, <2>3
<1> HIDE DEF rest, u
<1>3. ASSUME NEW n \in Nodes
      PROVE  /\ u.children[n] \in Seq(Nodes) /\ IsInjective(u.children[n])
             /\ ToSet(u.children[n]) = (ToSet(t.children[n]) \ {x})
                                       \cup (IF n = p THEN {x} ELSE {})
  <2>1. CASE n = p
    <3>1. u.children[n] = Append(rest(n), x)
        BY <1>1, <2>1
    <3> QED BY <1>2, <2>1, <3>1, AppendFacts
  <2>2. CASE n # p
      BY <1>1, <1>2, <2>2
  <2> QED BY <2>1, <2>2
<1>4. u.children \in [Nodes -> Seq(Nodes)]
    BY <1>1, <1>3
<1>5. \A n \in Nodes : \A c : c \in ToSet(u.children[n])
                               <=> IF c = x THEN n = p ELSE c \in ToSet(t.children[n])
  <2> TAKE n \in Nodes
  <2>1. ToSet(u.children[n]) = (ToSet(t.children[n]) \ {x}) \cup (IF n = p THEN {x} ELSE {})
      BY <1>3
  <2> QED BY <2>1
<1> QED BY <1>1, <1>3, <1>4, <1>5 DEF u

LEMMA LinkedKeeps ==
  ASSUME NEW t, Sound(t), NEW x \in Nodes, x # Game, NEW p \in Nodes \cup {None},
         SetParentActs(t, x, p)
  PROVE  Sound(Linked(t, x, p))
<1> DEFINE u == Linked(t, x, p)
<1>0. t.parent[x] # p /\ WalkAvoids(t.parent, x, p)
    BY DEF SetParentActs
<1>1. /\ u.parent = [t.parent EXCEPT ![x] = p]
      /\ u.children \in [Nodes -> Seq(Nodes)]
      /\ \A n \in Nodes : IsInjective(u.children[n])
    BY <1>0, LinkedKids
<1>2. \A n \in Nodes : \A c : c \in ToSet(u.children[n])
                               <=> IF c = x THEN n = p ELSE c \in ToSet(t.children[n])
    BY <1>0, LinkedKids, Zenon
<1> HIDE DEF u
<1>6. ParentsOK(u.parent) /\ Loopless(u.parent)
  <2>1. ParentsOK(t.parent) /\ Loopless(t.parent)
      BY ParentsAre DEF ParentsOK
  <2>2. ParentsOK(u.parent)
      BY <1>1, <2>1 DEF ParentsOK
  <2> QED BY <1>0, <1>1, <2>1, <2>2, SetKeepsLoopless
<1>3. \A n \in Nodes : u.parent[n] = IF n = x THEN p ELSE t.parent[n]
    BY <1>1, ParentsAre
<1>4. Linkage(u)
  <2> SUFFICES ASSUME NEW q \in Nodes
               PROVE  /\ \A n \in ToSet(u.children[q]) : u.parent[n] = q
                      /\ \A n \in Nodes \ Protected :
                           u.parent[n] = q => n \in ToSet(u.children[q])
      BY <1>1 DEF Linkage
  <2>1. \A n \in ToSet(t.children[q]) : n \in Nodes /\ t.parent[n] = q
      BY KidsAre
  <2>4. \A c : c \in ToSet(u.children[q])
                 <=> IF c = x THEN q = p ELSE c \in ToSet(t.children[q])
      BY <1>2
  <2>2. \A n \in ToSet(u.children[q]) : u.parent[n] = q
      BY <1>0, <1>3, <2>1, <2>4
  <2>5. \A n \in Nodes \ Protected : t.parent[n] = q => n \in ToSet(t.children[q])
      BY KidsAre
  <2>3. \A n \in Nodes \ Protected : u.parent[n] = q => n \in ToSet(u.children[q])
      BY <1>3, <2>4, <2>5
  <2> QED BY <2>2, <2>3
<1>5. u.parent[Game] = None
    BY <1>3, ParentsAre, RootsAssumption
<1> QED BY <1>1, <1>4, <1>5, <1>6 DEF Sound, Shaped, u

(* The lists of children after a destruction.                               *)
LEMMA DestroyedKids ==
  ASSUME NEW t, Sound(t), NEW x \in Nodes
  PROVE  LET u == Destroyed(t, x)
             D == Doomed(t, x)
         IN  /\ u.parent = [n \in Nodes |-> IF n \in D THEN None ELSE t.parent[n]]
             /\ u.children \in [Nodes -> Seq(Nodes)]
             /\ \A n \in Nodes : IsInjective(u.children[n])
             /\ \A n \in D : u.children[n] = <<>>
             /\ \A n \in Nodes \ D : ToSet(u.children[n]) = ToSet(t.children[n]) \ D
             /\ \A n \in Nodes \ D :
                  D = {} \/ n # t.parent[x] => u.children[n] = t.children[n]
<1> DEFINE u == Destroyed(t, x)
           D == Doomed(t, x)
<1>0. /\ D \in SUBSET (Nodes \ Protected)
      /\ x \in D <=> D # {}
      /\ \A n \in D \ {x} : t.parent[n] \in D
    BY DoomedFacts
<1>1. /\ u.parent = [n \in Nodes |-> IF n \in D THEN None ELSE t.parent[n]]
      /\ u.children = [n \in Nodes |->
                         IF n \in D THEN <<>>
                         ELSE IF D # {} /\ n = t.parent[x] THEN Erase(t.children[n], x)
                         ELSE t.children[n]]
    BY DEF Destroyed
<1> HIDE DEF u, D
<1>2. <<>> \in Seq(Nodes) /\ IsInjective(<<>>)
    BY DEF IsInjective
<1>3. ASSUME NEW n \in Nodes \ D
      PROVE  /\ u.children[n] \in Seq(Nodes) /\ IsInjective(u.children[n])
             /\ ToSet(u.children[n]) = ToSet(t.children[n]) \ D
  <2>1. t.children[n] \in Seq(Nodes) /\ IsInjective(t.children[n])
      BY KidsAre
  <2>2. \A c \in ToSet(t.children[n]) : t.parent[c] = n
      BY KidsAre
  <2>3. \A c \in ToSet(t.children[n]) : c \in D => c = x
      BY <1>0, <2>2
  <2>4. CASE D # {} /\ n = t.parent[x]
    <3>1. u.children[n] = Erase(t.children[n], x)
        BY <1>1, <2>4
    <3> QED BY <1>0, <2>1, <2>3, <2>4, <3>1, EraseFacts
  <2>5. CASE ~(D # {} /\ n = t.parent[x])
    <3>1. u.children[n] = t.children[n]
        BY <1>1, <2>5
    <3>2. ToSet(t.children[n]) \cap D = {}
        BY <1>0, <2>2, <2>3, <2>5
    <3> QED BY <2>1, <3>1, <3>2
  <2> QED BY <2>4, <2>5
<1>4. \A n \in D : n \in Nodes /\ u.children[n] = <<>>
    BY <1>0, <1>1
<1>5. u.children \in [Nodes -> Seq(Nodes)] /\ \A n \in Nodes : IsInjective(u.children[n])
    BY <1>1, <1>2, <1>3, <1>4
<1>6. \A n \in Nodes \ D : D = {} \/ n # t.parent[x] => u.children[n] = t.children[n]
    BY <1>1
<1> QED BY <1>1, <1>3, <1>4, <1>5, <1>6 DEF u, D

LEMMA DestroyedKeeps ==
  ASSUME NEW t, Sound(t), NEW x \in Nodes
  PROVE  Sound(Destroyed(t, x))
<1> DEFINE u == Destroyed(t, x)
           D == Doomed(t, x)
<1>0. /\ D \in SUBSET (Nodes \ Protected)
      /\ \A n \in D : ToSet(t.children[n]) \ Protected \subseteq D
    BY DoomedFacts
<1>1. /\ u.parent = [n \in Nodes |-> IF n \in D THEN None ELSE t.parent[n]]
      /\ u.children \in [Nodes -> Seq(Nodes)]
      /\ \A n \in Nodes : IsInjective(u.children[n])
      /\ \A n \in D : u.children[n] = <<>>
      /\ \A n \in Nodes \ D : ToSet(u.children[n]) = ToSet(t.children[n]) \ D
    BY DestroyedKids
<1> HIDE DEF u, D
<1>2. Shaped(u)
  <2>1. ParentsOK(t.parent) /\ Loopless(t.parent)
      BY ParentsAre DEF ParentsOK
  <2>2. ParentsOK(u.parent)
      BY <1>1, ParentsAre DEF ParentsOK
  <2>3. \A n \in Nodes : u.parent[n] \in {t.parent[n], None}
      BY <1>1
  <2>4. Loopless(u.parent)
      BY <2>1, <2>3, CutKeepsLoopless
  <2> QED BY <1>1, <2>2, <2>4 DEF Shaped
<1>3. Linkage(u)
  <2> SUFFICES ASSUME NEW q \in Nodes
               PROVE  /\ \A n \in ToSet(u.children[q]) : u.parent[n] = q
                      /\ \A n \in Nodes \ Protected :
                           u.parent[n] = q => n \in ToSet(u.children[q])
      BY <1>1 DEF Linkage
  <2>1. \A n \in ToSet(t.children[q]) : n \in Nodes /\ t.parent[n] = q
      BY KidsAre
  <2>2. CASE q \in D
    <3>1. ToSet(u.children[q]) = {}
        BY <1>1, <2>2 DEF ToSet
    <3>2. \A n \in Nodes \ Protected : t.parent[n] = q => n \in D
        BY <1>0, <2>2, KidsAre
    <3> QED BY <1>1, <3>1, <3>2, NodesAssumption
  <2>3. CASE q \notin D
    <3>1. ToSet(u.children[q]) = ToSet(t.children[q]) \ D
        BY <1>1, <2>3
    <3>2. \A n \in Nodes \ Protected : t.parent[n] = q => n \in ToSet(t.children[q])
        BY KidsAre
    <3> QED BY <1>1, <2>1, <3>1, <3>2, NodesAssumption
  <2> QED BY <2>2, <2>3
<1>4. u.parent[Game] = None
    BY <1>1, ParentsAre, RootsAssumption
<1> QED BY <1>2, <1>3, <1>4 DEF Sound, u

-----------------------------------------------------------------------------
(* The steps.                                                               *)

IInv == TypeOK /\ Sound(tree) /\ PartsHaveBodies /\ BodiesLeaveWithParts /\ PictureFollows

(* Whatever the operation left of the tree, what is not held goes.          *)
LEMMA SettleKeeps ==
  ASSUME NEW u, Sound(u), NEW U \in SUBSET Nodes, {Game, Workspace} \subseteq U,
         u.parent \in [Nodes -> U \cup {None}],
         \A n \in Nodes : ToSet(u.children[n]) \subseteq U,
         NEW sel \in U \cup {None}, Settle(u, sel)
  PROVE  /\ Sound(tree')
         /\ tree'.parent \in [Nodes -> U \cup {None}]
         /\ tree'.children \in [Nodes -> Seq(U)]
         /\ selected' = sel
         /\ World(tree') = World(u)
         /\ Descendants(tree', Workspace) = Descendants(u, Workspace)
         /\ \A n \in World(u) \ {Workspace} : tree'.parent[n] = u.parent[n]
<1> DEFINE v == Freed(u, Held(sel))
<1>1. tree' = v /\ selected' = sel
    BY DEF Settle
<1>2. Held(sel) \in SUBSET Nodes /\ {Game, Workspace} \subseteq Held(sel)
    BY RootsAssumption DEF Held
<1>3. /\ Sound(v)
      /\ \A x \in Nodes : v.parent[x] \in {u.parent[x], None}
      /\ \A x \in Nodes : ToSet(v.children[x]) \subseteq ToSet(u.children[x])
    BY <1>2, FreedKeeps
<1>4. World(v) = World(u) /\ Descendants(v, Workspace) = Descendants(u, Workspace)
    BY <1>2, FreedKeepsWorld
<1> HIDE DEF v
<1>5. v.parent \in [Nodes -> U \cup {None}]
    BY <1>3, ParentsAre
<1>6. v.children \in [Nodes -> Seq(U)]
  <2>1. v.children \in [Nodes -> Seq(Nodes)]
      BY <1>3 DEF Sound, Shaped
  <2>2. ASSUME NEW n \in Nodes PROVE v.children[n] \in Seq(U)
    <3>1. v.children[n] \in Seq(Nodes)
        BY <2>1
    <3>2. ToSet(v.children[n]) \subseteq U
        BY <1>3
    <3>3. \A i \in 1..Len(v.children[n]) : v.children[n][i] \in U
        BY <3>1, <3>2 DEF ToSet
    <3> QED BY <3>1, <3>3
  <2> QED BY <2>1, <2>2
<1>7. ASSUME NEW n \in World(u) \ {Workspace} PROVE v.parent[n] = u.parent[n]
  <2>1. /\ v.parent[n] \in Subtree(v, Workspace)
        /\ n \in ToSet(v.children[v.parent[n]])
      BY <1>3, <1>4, SubtreeParent, RootsAssumption DEF World
  <2>2. v.parent[n] \in Nodes
      BY <1>3, <2>1, SubtreeFacts, RootsAssumption
  <2>3. n \in ToSet(u.children[v.parent[n]])
      BY <1>3, <2>1, <2>2
  <2> QED BY <2>2, <2>3, KidsAre
<1> QED BY <1>1, <1>3, <1>4, <1>5, <1>6, <1>7

LEMMA WorldFacts ==
  ASSUME NEW t, Sound(t)
  PROVE  /\ World(t) \in SUBSET Nodes /\ Workspace \in World(t)
         /\ \A x \in World(t) : ToSet(t.children[x]) \subseteq World(t)
         /\ \A S \in SUBSET Nodes :
              Workspace \in S /\ (\A x \in S : ToSet(t.children[x]) \subseteq S)
              => World(t) \subseteq S
         /\ \A n \in World(t) \ {Workspace} :
              t.parent[n] \in World(t) /\ n \in ToSet(t.children[t.parent[n]])
BY SubtreeFacts, SubtreeParent, RootsAssumption DEF World

LEMMA UsedKids ==
  ASSUME IInv, NEW n \in Nodes
  PROVE  ToSet(tree.children[n]) \subseteq used
<1>1. tree.children[n] \in Seq(used)
    BY DEF IInv, TypeOK
<1> QED BY <1>1 DEF ToSet

LEMMA PutKeeps ==
  ASSUME IInv, NEW x \in Nodes, x # Game, NEW p \in Nodes \cup {None},
         NEW sel, Put(x, p, sel),
         used' \in SUBSET Nodes, used \subseteq used', x \in used',
         p \in used' \cup {None}, sel \in used' \cup {None}
  PROVE  IInv'
<1> DEFINE u == Linked(tree, x, p)
           arrives == p # None /\ InWorld(tree, p)
<1>0. /\ SetParentActs(tree, x, p) /\ tree.parent[x] # p
      /\ Settle(u, sel)
      /\ bodies' = bodies \cup (IF arrives THEN Ensured(u, x) ELSE {})
      /\ strays' = {b \in bodies' : ~InWorld(u, b)}
      /\ dirty' = (dirty \/ Workspace \in HearMove(tree, x, p))
      /\ picture' = picture
    BY DEF Put, SetParentActs
<1>1. Sound(tree) /\ Sound(u)
    BY <1>0, LinkedKeeps DEF IInv
<1>2. u.parent = [tree.parent EXCEPT ![x] = p]
    BY <1>0, <1>1, LinkedKids
<1>3. \A n \in Nodes : \A c : c \in ToSet(u.children[n])
                               <=> IF c = x THEN n = p ELSE c \in ToSet(tree.children[n])
    BY <1>0, <1>1, LinkedKids, Zenon
<1>4. \A n \in Nodes \ {p, tree.parent[x]} : u.children[n] = tree.children[n]
    BY DEF Linked
<1>5. \A n \in Nodes : u.parent[n] = IF n = x THEN p ELSE tree.parent[n]
    BY <1>1, <1>2, ParentsAre
<1>6. arrives <=> p \in World(tree)
    BY <1>1, WorldIsBelow, WorldFacts, NodesAssumption
<1> HIDE DEF u, arrives
<1> DEFINE V == World(tree)
<1>7. /\ V \in SUBSET Nodes /\ Workspace \in V
      /\ \A n \in V : ToSet(tree.children[n]) \subseteq V
    BY <1>1, WorldFacts
<1>8. /\ Subtree(u, x) \in SUBSET Nodes /\ x \in Subtree(u, x)
      /\ \A n \in Subtree(u, x) : ToSet(u.children[n]) \subseteq Subtree(u, x)
    BY <1>1, SubtreeFacts
<1>9. World(u) \subseteq V \cup (IF arrives THEN Subtree(u, x) ELSE {})
  <2> DEFINE S == V \cup (IF arrives THEN Subtree(u, x) ELSE {})
  <2>1. S \in SUBSET Nodes /\ Workspace \in S
      BY <1>7, <1>8
  <2>2. ASSUME NEW n \in S, NEW c \in ToSet(u.children[n]) PROVE c \in S
    <3>1. CASE n \in V
      <4>1. CASE c = x
          BY <1>3, <1>6, <1>7, <1>8, <3>1, <4>1
      <4>2. CASE c # x
          BY <1>3, <1>7, <3>1, <4>2
      <4> QED BY <4>1, <4>2
    <3>2. CASE n \notin V
        BY <1>8, <3>2
    <3> QED BY <3>1, <3>2
  <2> HIDE DEF S
  <2>3. World(u) \subseteq S
      BY <1>1, <2>1, <2>2, WorldFacts
  <2> QED BY <2>3 DEF S
<1>10. /\ World(u) \in SUBSET Nodes /\ Workspace \in World(u)
       /\ \A n \in World(u) \ {Workspace} : u.parent[n] \in World(u)
    BY <1>1, WorldFacts
<1>11. ASSUME NEW n \in World(u) \cap (Parts \ bodies') PROVE Kind[u.parent[n]] = "Rig"
  <2>1. n \in Nodes /\ n # Workspace /\ n \notin bodies
      BY <1>0, RootsAssumption DEF Parts
  <2>2. CASE arrives /\ n \in Subtree(u, x)
    <3>1. n \notin Ensured(u, x)
        BY <1>0, <2>2
    <3> QED BY <2>2, <3>1 DEF Ensured
  <2>3. CASE n \in V /\ n # x
    <3>1. Kind[tree.parent[n]] = "Rig"
        BY <2>1, <2>3 DEF IInv, PartsHaveBodies
    <3> QED BY <1>5, <2>1, <2>3, <3>1
  <2>4. CASE n \in V /\ n = x
    <3>1. p \in World(u)
        BY <1>5, <1>10, <2>1, <2>4
    <3>2. arrives
        BY <1>6, <1>9, <3>1
    <3> QED BY <1>8, <2>2, <2>4, <3>2
  <2> QED BY <1>9, <2>2, <2>3, <2>4
<1>12. bodies' \subseteq Parts \cap used'
  <2>1. Subtree(u, x) \subseteq used'
    <3>1. \A n \in used' : ToSet(u.children[n]) \subseteq used'
        BY <1>3, UsedKids
    <3> QED BY <1>1, <3>1, SubtreeFacts
  <2>2. Ensured(u, x) \subseteq Parts \cap used'
      BY <2>1 DEF Ensured
  <2> QED BY <1>0, <2>2 DEF IInv, TypeOK
<1>13. ASSUME NEW b \in bodies' \ strays' PROVE b \in World(u)
  <2>1. b \in Nodes /\ InWorld(u, b)
      BY <1>0, <1>12
  <2> QED BY <1>1, <2>1, WorldIsBelow
<1>14. ASSUME ~dirty' PROVE Descendants(u, Workspace) = picture
  <2>1. ~dirty /\ Workspace \notin Upwards(tree, tree.parent[x])
        /\ Workspace \notin Upwards(tree, p)
      BY <1>0, <1>14 DEF HearMove
  <2>2. p \notin V /\ tree.parent[x] \notin V
      BY <1>1, <1>7, <2>1, WorldIsBelow DEF InWorld
  <2>3. \A n \in V : u.children[n] = tree.children[n]
      BY <1>4, <1>7, <2>2
  <2>4. Descendants(u, Workspace) = Descendants(tree, Workspace)
      BY <1>1, <2>3, SameBelow, RootsAssumption DEF World
  <2> QED BY <2>1, <2>4 DEF IInv, PictureFollows
<1>15. u.parent \in [Nodes -> used' \cup {None}]
    BY <1>2, <1>1, ParentsAre DEF IInv, TypeOK
<1>16. \A n \in Nodes : ToSet(u.children[n]) \subseteq used'
    BY <1>3, UsedKids
<1>17. {Game, Workspace} \subseteq used'
    BY DEF IInv, TypeOK
<1> HIDE DEF V
<1>18. /\ Sound(tree')
       /\ tree'.parent \in [Nodes -> used' \cup {None}]
       /\ tree'.children \in [Nodes -> Seq(used')]
       /\ selected' = sel
       /\ World(tree') = World(u)
       /\ Descendants(tree', Workspace) = Descendants(u, Workspace)
       /\ \A n \in World(u) \ {Workspace} : tree'.parent[n] = u.parent[n]
    BY <1>0, <1>1, <1>15, <1>16, <1>17, SettleKeeps
<1>19. TypeOK'
    BY <1>0, <1>12, <1>17, <1>18 DEF IInv, TypeOK
<1>20. PartsHaveBodies'
    BY <1>11, <1>18, RootsAssumption DEF PartsHaveBodies, Parts
<1>21. BodiesLeaveWithParts'
    BY <1>13, <1>18 DEF BodiesLeaveWithParts
<1>22. PictureFollows'
    BY <1>0, <1>14, <1>18 DEF PictureFollows
<1> QED BY <1>18, <1>19, <1>20, <1>21, <1>22 DEF IInv

LEMMA ErasedKeeps ==
  ASSUME IInv, NEW x \in Nodes, NEW sel \in used \cup {None}, Erased(x, sel)
  PROVE  IInv'
<1> DEFINE u == Destroyed(tree, x)
           D == Doomed(tree, x)
           V == World(tree)
<1>0. /\ Settle(u, sel)
      /\ bodies' = bodies \ HeardDoomed(tree, x, Workspace)
      /\ strays' = strays \cap bodies'
      /\ dirty' = (dirty \/ Workspace \in HearDestroy(tree, x))
      /\ used' = used /\ picture' = picture
    BY DEF Erased
<1>1. Sound(tree) /\ Sound(u)
    BY DestroyedKeeps DEF IInv
<1>2. /\ D \in SUBSET (Nodes \ Protected)
      /\ x \in D <=> D # {}
      /\ \A n \in D : ToSet(tree.children[n]) \ Protected \subseteq D
    BY <1>1, DoomedFacts
<1>3. /\ u.parent = [n \in Nodes |-> IF n \in D THEN None ELSE tree.parent[n]]
      /\ \A n \in D : u.children[n] = <<>>
      /\ \A n \in Nodes \ D : ToSet(u.children[n]) = ToSet(tree.children[n]) \ D
      /\ \A n \in Nodes \ D : D = {} \/ n # tree.parent[x] => u.children[n] = tree.children[n]
    BY <1>1, DestroyedKids
<1>4. /\ \A n \in D : n \notin HeardDoomed(tree, x, Workspace)
                        <=> ~InWorld(tree, tree.parent[n])
      /\ Workspace \in HearDestroy(tree, x)
           <=> \E n \in D : InWorld(tree, tree.parent[n])
      /\ HeardDoomed(tree, x, Workspace) \subseteq D
    BY DEF HeardDoomed, HearDestroy, InWorld
<1> HIDE DEF u, D
<1>5. /\ V \in SUBSET Nodes /\ Workspace \in V
      /\ \A n \in V : ToSet(tree.children[n]) \subseteq V
      /\ \A n \in V \ {Workspace} :
           tree.parent[n] \in V /\ n \in ToSet(tree.children[tree.parent[n]])
    BY <1>1, WorldFacts
<1>6. \A n \in V : InWorld(tree, n)
    BY <1>1, <1>5, WorldIsBelow
<1>7. /\ World(u) \in SUBSET Nodes /\ Workspace \in World(u)
      /\ \A n \in World(u) : ToSet(u.children[n]) \subseteq World(u)
      /\ \A n \in World(u) \ {Workspace} :
           u.parent[n] \in World(u) /\ n \in ToSet(u.children[u.parent[n]])
    BY <1>1, WorldFacts
<1>8. Workspace \notin D /\ Game \notin D
    BY <1>2, RootsAssumption
<1>9. \A n \in Nodes : ToSet(u.children[n]) \subseteq ToSet(tree.children[n])
  <2>1. \A n \in D : ToSet(u.children[n]) = {}
      BY <1>3 DEF ToSet
  <2> QED BY <1>3, <2>1
<1>10. World(u) \subseteq V
  <2>1. \A n \in V : ToSet(u.children[n]) \subseteq V
      BY <1>5, <1>9
  <2> HIDE DEF V
  <2> QED BY <1>1, <1>5, <2>1, WorldFacts
<1>11. ASSUME NEW n \in World(u), n \in D PROVE FALSE
  <2>1. u.parent[n] \in Nodes /\ n \in ToSet(u.children[u.parent[n]])
      BY <1>7, <1>8, <1>11
  <2>2. u.parent[n] = None
      BY <1>2, <1>3, <1>11
  <2> QED BY <2>1, <2>2, NodesAssumption
<1>12. ASSUME NEW n \in V \cap D PROVE InWorld(tree, tree.parent[n])
    BY <1>5, <1>6, <1>8
<1>13. V \subseteq World(u) \cup (V \cap D)
  <2> DEFINE S == World(u) \cup (V \cap D)
  <2>1. S \in SUBSET Nodes /\ Workspace \in S
      BY <1>5, <1>7
  <2>2. ASSUME NEW n \in S, NEW c \in ToSet(tree.children[n]) PROVE c \in S
    <3>1. n \in V /\ n \in Nodes /\ c \in V /\ tree.parent[c] = n
        BY <1>1, <1>5, <1>10, KidsAre
    <3>2. CASE n \in D
      <4>1. c # Workspace
          BY <1>1, <3>1, NotBelowItself
      <4>2. c # Game
          BY <1>1, <3>1, ParentsAre, NodesAssumption
      <4>3. c \in D
          BY <1>2, <3>2, <4>1, <4>2, RootsAssumption
      <4> QED BY <3>1, <4>3
    <3>3. CASE n \notin D
      <4>1. n \in World(u)
          BY <3>3
      <4>2. c \in D \/ c \in ToSet(u.children[n])
          BY <1>3, <3>1, <3>3
      <4> QED BY <1>7, <3>1, <4>1, <4>2
    <3> QED BY <3>2, <3>3
  <2> HIDE DEF S
  <2>3. V \subseteq S
      BY <1>1, <2>1, <2>2, WorldFacts
  <2> QED BY <2>3 DEF S
<1>14. ASSUME NEW n \in World(u) \cap (Parts \ bodies') PROVE Kind[u.parent[n]] = "Rig"
  <2>1. n \in V /\ n \notin D /\ n \in Nodes
      BY <1>7, <1>10, <1>11
  <2>2. n \notin bodies
      BY <1>0, <1>4, <2>1
  <2>3. Kind[tree.parent[n]] = "Rig"
      BY <2>1, <2>2 DEF IInv, PartsHaveBodies
  <2> QED BY <1>3, <2>1, <2>3
<1>15. ASSUME NEW b \in bodies' \ strays' PROVE b \in World(u)
  <2>1. b \in bodies \ strays /\ b \notin HeardDoomed(tree, x, Workspace)
      BY <1>0
  <2>2. b \in V
      BY <2>1 DEF IInv, BodiesLeaveWithParts
  <2>3. b \notin D
      BY <1>4, <1>12, <2>1, <2>2
  <2> QED BY <1>13, <2>2, <2>3
<1>16. ASSUME ~dirty' PROVE Descendants(u, Workspace) = picture
  <2>1. ~dirty /\ \A n \in D : ~InWorld(tree, tree.parent[n])
      BY <1>0, <1>4, <1>16
  <2>2. V \cap D = {}
      BY <1>12, <2>1
  <2>3. D # {} => tree.parent[x] \notin V
      BY <1>2, <1>6, <2>1
  <2>4. \A n \in V : u.children[n] = tree.children[n]
      BY <1>3, <1>5, <2>2, <2>3
  <2>5. Descendants(u, Workspace) = Descendants(tree, Workspace)
      BY <1>1, <2>4, SameBelow, RootsAssumption DEF World
  <2> QED BY <2>1, <2>5 DEF IInv, PictureFollows
<1>17. u.parent \in [Nodes -> used \cup {None}]
    BY <1>3 DEF IInv, TypeOK
<1>18. \A n \in Nodes : ToSet(u.children[n]) \subseteq used
    BY <1>9, UsedKids
<1>19. {Game, Workspace} \subseteq used /\ used \in SUBSET Nodes
    BY DEF IInv, TypeOK
<1> HIDE DEF V
<1>20. /\ Sound(tree')
       /\ tree'.parent \in [Nodes -> used \cup {None}]
       /\ tree'.children \in [Nodes -> Seq(used)]
       /\ selected' = sel
       /\ World(tree') = World(u)
       /\ Descendants(tree', Workspace) = Descendants(u, Workspace)
       /\ \A n \in World(u) \ {Workspace} : tree'.parent[n] = u.parent[n]
    BY <1>0, <1>1, <1>17, <1>18, <1>19, SettleKeeps
<1>21. TypeOK'
    BY <1>0, <1>20 DEF IInv, TypeOK
<1>22. PartsHaveBodies'
    BY <1>14, <1>20, RootsAssumption DEF PartsHaveBodies, Parts
<1>23. BodiesLeaveWithParts'
    BY <1>15, <1>20 DEF BodiesLeaveWithParts
<1>24. PictureFollows'
    BY <1>0, <1>16, <1>20 DEF PictureFollows
<1> QED BY <1>20, <1>21, <1>22, <1>23, <1>24 DEF IInv

LEMMA SelectKeeps ==
  ASSUME IInv, NEW x \in Nodes, Select(x)
  PROVE  IInv'
<1>1. x \in used
  <2>1. \A n \in used : ToSet(tree.children[n]) \subseteq used
      BY UsedKids DEF IInv, TypeOK
  <2>2. used \in SUBSET Nodes /\ Game \in used
      BY DEF IInv, TypeOK
  <2>3. Shown(tree) \subseteq used
      BY <2>1, <2>2, SubtreeFacts, RootsAssumption DEF IInv, Shown
  <2> QED BY <2>3 DEF Select
<1>2. /\ Settle(tree, x)
      /\ used' = used /\ bodies' = bodies /\ strays' = strays
      /\ dirty' = dirty /\ picture' = picture
    BY DEF Select
<1>3. /\ Sound(tree) /\ tree.parent \in [Nodes -> used \cup {None}]
      /\ \A n \in Nodes : ToSet(tree.children[n]) \subseteq used
      /\ {Game, Workspace} \subseteq used /\ used \in SUBSET Nodes
    BY UsedKids DEF IInv, TypeOK
<1>4. /\ Sound(tree')
      /\ tree'.parent \in [Nodes -> used \cup {None}]
      /\ tree'.children \in [Nodes -> Seq(used)]
      /\ selected' = x
      /\ World(tree') = World(tree)
      /\ Descendants(tree', Workspace) = Descendants(tree, Workspace)
      /\ \A n \in World(tree) \ {Workspace} : tree'.parent[n] = tree.parent[n]
    BY <1>1, <1>2, <1>3, SettleKeeps
<1>5. TypeOK'
    BY <1>1, <1>2, <1>4 DEF IInv, TypeOK
<1>6. PartsHaveBodies'
    BY <1>2, <1>4, RootsAssumption DEF IInv, PartsHaveBodies, Parts
<1>7. BodiesLeaveWithParts'
    BY <1>2, <1>4 DEF IInv, BodiesLeaveWithParts
<1>8. PictureFollows'
    BY <1>2, <1>4 DEF IInv, PictureFollows
<1> QED BY <1>4, <1>5, <1>6, <1>7, <1>8 DEF IInv

LEMMA InitEstablishes == Init => IInv
<1> SUFFICES ASSUME Init PROVE IInv
    OBVIOUS
<1>1. /\ tree.parent = [n \in Nodes |-> IF n = Workspace THEN Game ELSE None]
      /\ tree.children = [n \in Nodes |-> IF n = Game THEN <<Workspace>> ELSE <<>>]
      /\ used = {Game, Workspace} /\ selected = None
      /\ bodies = {} /\ strays = {} /\ dirty = TRUE
    BY DEF Init
<1>2. Game # Workspace /\ Game \in Nodes /\ Workspace \in Nodes
    BY RootsAssumption
<1>3. /\ <<Workspace>> \in Seq(used) /\ <<>> \in Seq(used)
      /\ ToSet(<<Workspace>>) = {Workspace} /\ ToSet(<<>>) = {}
      /\ IsInjective(<<Workspace>>) /\ IsInjective(<<>>)
    BY <1>1 DEF ToSet, IsInjective
<1>4. TypeOK
    BY <1>1, <1>2, <1>3 DEF TypeOK
<1>5. ParentsOK(tree.parent)
    BY <1>1, <1>2 DEF ParentsOK
<1>6. Loopless(tree.parent)
  <2> SUFFICES ASSUME NEW S \in SUBSET Nodes, S # {}
               PROVE  \E y \in S : tree.parent[y] \notin S
      BY DEF Loopless
  <2>1. PICK y \in S : TRUE
      OBVIOUS
  <2>2. CASE Game \in S
      BY <1>1, <1>2, <2>2, NodesAssumption
  <2>3. CASE Game \notin S
      BY <1>1, <2>1, <2>3, NodesAssumption
  <2> QED BY <2>2, <2>3
<1>7. Shaped(tree)
  <2>1. <<Workspace>> \in Seq(Nodes) /\ <<>> \in Seq(Nodes)
      BY <1>2
  <2> QED BY <1>1, <1>5, <1>6, <2>1 DEF Shaped
<1>8. Linkage(tree)
  <2> SUFFICES ASSUME NEW p \in Nodes
               PROVE  /\ IsInjective(tree.children[p])
                      /\ \A n \in ToSet(tree.children[p]) : tree.parent[n] = p
                      /\ \A n \in Nodes \ Protected : tree.parent[n] # p
      BY DEF Linkage
  <2> QED BY <1>1, <1>2, <1>3, RootsAssumption, NodesAssumption
<1>9. Sound(tree)
    BY <1>1, <1>2, <1>7, <1>8 DEF Sound
<1>10. PartsHaveBodies
  <2> DEFINE S == {Workspace}
  <2>1. S \in SUBSET Nodes /\ \A n \in S : ToSet(tree.children[n]) \subseteq S
      BY <1>1, <1>2, <1>3
  <2> HIDE DEF S
  <2>2. World(tree) \subseteq S
      BY <1>9, <2>1, WorldFacts DEF S
  <2> QED BY <2>2, RootsAssumption DEF PartsHaveBodies, Parts, S
<1> QED BY <1>1, <1>4, <1>9, <1>10 DEF IInv, BodiesLeaveWithParts, PictureFollows

(* Game goes below nothing: all that is shown is below it already.          *)
LEMMA GameStays ==
  ASSUME IInv, NEW p \in Shown(tree), WalkAvoids(tree.parent, Game, p)
  PROVE  FALSE
<1>1. Sound(tree) /\ Shaped(tree) /\ tree.parent \in [Nodes -> Nodes \cup {None}]
    BY ParentsAre DEF IInv
<1>2. Shown(tree) \in SUBSET Nodes
    BY <1>1, SubtreeFacts, RootsAssumption DEF Shown
<1>3. PICK S \in SUBSET (Nodes \ {Game}) : p \in S /\ ClosedUpwards(tree.parent, S)
    BY <1>2, NodesAssumption DEF WalkAvoids
<1> DEFINE T == Nodes \ S
<1>4. Game \in T /\ T \in SUBSET Nodes
    BY <1>3, RootsAssumption
<1>5. ASSUME NEW y \in T, NEW c \in ToSet(tree.children[y]) PROVE c \in T
  <2>1. c \in Nodes /\ tree.parent[c] = y
      BY <1>1, KidsAre
  <2> QED BY <1>3, <2>1, NodesAssumption DEF ClosedUpwards
<1> HIDE DEF T
<1>6. Shown(tree) \subseteq T
    BY <1>1, <1>4, <1>5, SubtreeFacts, RootsAssumption DEF Shown
<1> QED BY <1>3, <1>6 DEF T

LEMMA NextKeeps == IInv /\ [Next]_vars => IInv'
<1> SUFFICES ASSUME IInv, [Next]_vars PROVE IInv'
    OBVIOUS
<1>0. /\ used \in SUBSET Nodes /\ {Game, Workspace} \subseteq used
      /\ selected \in used \cup {None} /\ Shown(tree) \subseteq used
  <2>1. \A n \in used : ToSet(tree.children[n]) \subseteq used
      BY UsedKids DEF IInv, TypeOK
  <2>2. used \in SUBSET Nodes /\ Game \in used
      BY DEF IInv, TypeOK
  <2>3. Shown(tree) \subseteq used
      BY <2>1, <2>2, SubtreeFacts, RootsAssumption DEF IInv, Shown
  <2> QED BY <2>3 DEF IInv, TypeOK
<1>1. ASSUME NEW n \in Nodes, NEW p \in Nodes, Create(n, p) PROVE IInv'
  <2>1. n # Game /\ used' = used \cup {n} /\ p \in used /\ Put(n, p, n)
      BY <1>0, <1>1 DEF Create
  <2> QED BY <1>0, <2>1, PutKeeps
<1>2. ASSUME NEW x \in Nodes, NEW p \in Nodes, Move(x, p) PROVE IInv'
  <2>1. x \in used /\ p \in used /\ used' = used /\ Put(x, p, selected)
      BY <1>0, <1>2 DEF Move
  <2>2. x # Game
      BY <1>2, <2>1, GameStays DEF Move, Put, SetParentActs
  <2> QED BY <1>0, <2>1, <2>2, PutKeeps
<1>3. CASE Unparent
  <2>1. selected \in used /\ used' = used /\ Put(selected, None, selected)
      BY <1>0, <1>3 DEF Unparent
  <2>2. selected # Game
      BY <2>1, ParentsAre DEF IInv, Put, SetParentActs
  <2> QED BY <1>0, <2>1, <2>2, PutKeeps
<1>4. ASSUME NEW x \in Nodes, Delete(x) PROVE IInv'
  <2> DEFINE sel == IF selected \in Subtree(tree, x) THEN None ELSE selected
  <2>1. sel \in used \cup {None}
      BY <1>0
  <2>2. Erased(x, sel)
      BY <1>4 DEF Delete
  <2> HIDE DEF sel
  <2> QED BY <2>1, <2>2, ErasedKeeps
<1>5. ASSUME NEW x \in Nodes, Fall(x) PROVE IInv'
    BY <1>0, <1>5, ErasedKeeps DEF Fall
<1>6. ASSUME NEW x \in Nodes, Select(x) PROVE IInv'
    BY <1>6, SelectKeeps
<1>7. CASE Collect
    BY <1>7 DEF Collect, IInv, TypeOK, PartsHaveBodies, BodiesLeaveWithParts, PictureFollows
<1>8. CASE UNCHANGED vars
    BY <1>8 DEF vars, IInv, TypeOK, PartsHaveBodies, BodiesLeaveWithParts, PictureFollows
<1> QED BY <1>1, <1>2, <1>3, <1>4, <1>5, <1>6, <1>7, <1>8 DEF Next

LEMMA Inductive == Spec => []IInv
<1> QED BY InitEstablishes, NextKeeps, PTL DEF Spec

(* Whatever is created, moved, unparented, deleted, destroyed by a fall or  *)
(* let go of, in a tree of any instances, no instance becomes its own       *)
(* ancestor: getDescendants and the walks up the parents always end.        *)
THEOREM NeverLoops == Spec => []NoLoops
<1>1. IInv => NoLoops
    BY DEF IInv, Sound, Shaped, Loopless, NoLoops
<1> QED BY <1>1, Inductive, PTL

(* In the same trees, the two directions of every link agree, what is below *)
(* the workspace has its bodies and nothing else but what was moved away    *)
(* has, and the renderer shows it or knows that it does not (instance.hpp   *)
(* 150-351, physics.cpp 76-183, render_manager.cpp 45-91).                  *)
THEOREM WorldAlwaysFollowsTree == Spec => []WorldFollowsTree
<1>1. IInv => WorldFollowsTree
    BY DEF IInv, Sound, Linkage, LinksAgree, WorldFollowsTree
<1> QED BY <1>1, Inductive, PTL

-----------------------------------------------------------------------------
(* RenderBuckets: what a walk of a tree leaves of it.                       *)

HasSlot(o) == \E k \in BucketKeys : \E i \in DOMAIN buckets[k] : buckets[k][i].obj = o
Awaited(o) == \E j \in DOMAIN todo : todo[j] \in Chain[o]
Walks(r) == walkPc = "walk" /\ root = r
Reliable(r) == r \notin overlap /\ (r \notin stale \/ Walks(r))

BucketTypes ==
    /\ tops \in [Roots -> Seq(Top)] /\ edits \in 0 .. EditBound
    /\ stale \subseteq Roots /\ heard \subseteq Roots /\ overlap \subseteq Roots
    /\ walkPc \in {"check", "walk", "draw"} /\ root \in Roots /\ todo \in Seq(Obj)
    /\ DOMAIN prop = DOMAIN Start /\ \A o \in Obj : prop[o] \in Properties(o)
    /\ buckets \in [BucketKeys -> Seq(Slot)]
    /\ targets \subseteq [obj : Obj, key : BucketKeys, at : Nat \ {0}]

TopsRight ==
    \A r \in Roots : IsInjective(tops[r]) /\ \A i \in DOMAIN tops[r] : RootOf[tops[r][i]] = r

(* What is still to visit: no object is below another, so none comes twice. *)
TodoRight ==
    /\ \A i \in DOMAIN todo : RootOf[todo[i]] = root
    /\ \A i, j \in DOMAIN todo : todo[i] \in Chain[todo[j]] => i = j
    /\ walkPc # "walk" => todo = <<>>

(* Every object has one slot at most, and none that the walk has yet to     *)
(* reach has one.                                                           *)
SlotsApart ==
    \A k, l \in BucketKeys : \A i \in DOMAIN buckets[k], j \in DOMAIN buckets[l] :
        buckets[k][i].obj = buckets[l][j].obj => k = l /\ i = j
SlotsRooted ==
    \A k \in BucketKeys : \A i \in DOMAIN buckets[k] :
        RootOf[buckets[k][i].obj] = RootOfKey(k) /\ ~Awaited(buckets[k][i].obj)

WalkHeard == \A r \in Roots : r \notin stale \/ Walks(r) => r \in heard

(* While what a walk saw is still true: its slots are those of the objects  *)
(* to be seen that it has reached, and it is right to go where it goes.     *)
SlotRight(k, i) ==
    /\ Seen(buckets[k][i].obj) /\ k = BucketKey(buckets[k][i].obj)
    /\ buckets[k][i].faces = FacesOf(buckets[k][i].obj)
    /\ Moves(buckets[k][i].obj) => [obj |-> buckets[k][i].obj, key |-> k, at |-> i] \in targets
SlotsRight(r) ==
    \A k \in BucketKeys : RootOfKey(k) = r => \A i \in DOMAIN buckets[k] : SlotRight(k, i)
AllThere(r) == \A o \in Obj : RootOf[o] = r /\ Seen(o) => HasSlot(o) \/ Awaited(o)
Visitable(o) == InTree(o) /\ \A a \in Chain[o] \ {o} : ~Cut(a)
TodoReached(r) == Walks(r) => \A j \in DOMAIN todo : Visitable(todo[j])
PictureOf(r) == SlotsRight(r) /\ AllThere(r) /\ TodoReached(r)
PictureRight == \A r \in Roots : Reliable(r) => PictureOf(r)

BucketInv ==
    /\ BucketTypes /\ TopsRight /\ TodoRight /\ SlotsApart /\ SlotsRooted
    /\ TargetsOwnTheirSlots /\ WalkHeard /\ PictureRight

(* The chain of an object: itself and what it is below.                     *)

LEMMA ChainIs ==
  ASSUME NEW o \in Obj
  PROVE  Chain[o] = {a \in Obj : \A S \in SUBSET Obj :
                        (o \in S /\ \A x \in S : Home[x] \in S) => a \in S}
BY Zenon DEF Chain

LEMMA ChainFacts ==
  ASSUME NEW o \in Obj
  PROVE  /\ Chain[o] \subseteq Obj /\ o \in Chain[o]
         /\ \A x \in Chain[o] : Home[x] \in Chain[o]
<1>1. \A x \in Obj : Home[x] \in Obj
    BY ObjectsAssumption DEF ObjectsAssumption
<1> QED BY ChainIs, <1>1, Zenon

LEMMA ChainLeast ==
  ASSUME NEW o \in Obj, NEW S \in SUBSET Obj, o \in S, \A x \in S : Home[x] \in S
  PROVE  Chain[o] \subseteq S
BY ChainIs, Zenon

LEMMA ChainTrans ==
  ASSUME NEW o \in Obj, NEW x \in Chain[o]
  PROVE  x \in Obj /\ Chain[x] \subseteq Chain[o]
<1>1. x \in Obj
    BY ChainFacts
<1> QED BY <1>1, ChainFacts, ChainLeast

LEMMA ChainUp ==
  ASSUME NEW o \in Obj
  PROVE  Home[o] \in Obj /\ Chain[o] = {o} \cup Chain[Home[o]]
<1>1. Home[o] \in Obj
    BY ObjectsAssumption DEF ObjectsAssumption
<1>2. Chain[Home[o]] \subseteq Chain[o] /\ o \in Chain[o]
    BY ChainFacts, ChainTrans
<1> DEFINE S == {o} \cup Chain[Home[o]]
<1>3. S \in SUBSET Obj /\ o \in S /\ \A x \in S : Home[x] \in S
    BY <1>1, ChainFacts
<1> HIDE DEF S
<1>4. Chain[o] \subseteq S
    BY <1>3, ChainLeast
<1> QED BY <1>1, <1>2, <1>4 DEF S

LEMMA ChainTop == ASSUME NEW o \in Top PROVE o \in Obj /\ Chain[o] = {o}
<1>1. o \in Obj /\ Home[o] = o
    BY ObjectsAssumption DEF ObjectsAssumption
<1> DEFINE S == {o}
<1>2. S \in SUBSET Obj /\ o \in S /\ \A x \in S : Home[x] \in S
    BY <1>1
<1> HIDE DEF S
<1>3. Chain[o] \subseteq S
    BY <1>1, <1>2, ChainLeast
<1> QED BY <1>1, <1>3, ChainFacts DEF S

(* Below the object is the child the chain comes through.                   *)
LEMMA ChainChild ==
  ASSUME NEW o \in Obj, NEW x \in Chain[o], x # o
  PROVE  \E c \in Chain[o] : c \in Range(Branches[x])
<1>1. /\ Chain[o] \subseteq Obj /\ o \in Chain[o]
      /\ \A y \in Chain[o] : Home[y] \in Chain[o]
    BY ChainFacts
<1> DEFINE S == Chain[o] \ {x}
<1>2. S \in SUBSET Obj /\ o \in S /\ ~(Chain[o] \subseteq S)
    BY <1>1
<1> HIDE DEF S
<1>3. PICK c \in S : Home[c] \notin S
    BY <1>2, ChainLeast
<1>4. c \in Chain[o] /\ c \in Obj /\ c # x /\ Home[c] = x
    BY <1>1, <1>3 DEF S
<1>5. c \notin Top
    BY <1>4, ObjectsAssumption DEF ObjectsAssumption
<1> QED BY <1>1, <1>4, <1>5, ObjectsAssumption DEF ObjectsAssumption

LEMMA ChainApart ==
  ASSUME NEW x \in Obj, NEW y \in Chain[x], x \in Chain[y]
  PROVE  x = y
<1> DEFINE S == {a \in Chain[x] : x \in Chain[a]}
<1>1. /\ Chain[x] \subseteq Obj /\ x \in Chain[x]
      /\ \A a \in Chain[x] : Home[a] \in Chain[x]
    BY ChainFacts
<1>2. S \subseteq Obj /\ x \in S
    BY <1>1
<1>3. CASE \E t \in S : t \in Top
  <2>1. PICK t \in S : t \in Top
      BY <1>3
  <2>2. x = t
      BY <2>1, ChainTop
  <2> QED BY <2>1, <2>2, ChainTop
<1>4. CASE S \in SUBSET (Obj \ Top)
  <2> SUFFICES ASSUME x # y PROVE FALSE
      OBVIOUS
  <2>1. S # {}
      BY <1>2
  <2>2. PICK o \in S : Home[o] \notin S
    <3> HIDE DEF S
    <3> QED BY <1>4, <2>1, ObjectsAssumption DEF ObjectsAssumption
  <2>3. o \in Obj /\ Home[o] \in Chain[x] /\ x \notin Chain[Home[o]]
      BY <1>1, <2>2
  <2>4. x = o
      BY <2>2, <2>3, ChainUp
  <2>5. y \in Chain[Home[x]] /\ Home[x] \in Obj
      BY ChainUp
  <2>6. Chain[y] \subseteq Chain[Home[x]]
      BY <2>5, ChainTrans
  <2> QED BY <2>3, <2>4, <2>6
<1> QED BY <1>2, <1>3, <1>4

LEMMA ChainRoot ==
  ASSUME NEW o \in Obj, NEW x \in Chain[o]
  PROVE  RootOf[x] = RootOf[o]
<1> DEFINE S == {a \in Obj : RootOf[a] = RootOf[o]}
<1>1. S \in SUBSET Obj /\ o \in S /\ \A a \in S : Home[a] \in S
    BY ObjectsAssumption DEF ObjectsAssumption
<1>2. Chain[o] \subseteq S
  <2> HIDE DEF S
  <2> QED BY <1>1, ChainLeast
<1> QED BY <1>2

LEMMA BranchFacts ==
  ASSUME NEW o \in Obj
  PROVE  /\ Branches[o] \in Seq(Obj) /\ IsInjective(Branches[o])
         /\ \A i \in DOMAIN Branches[o] :
               LET c == Branches[o][i]
               IN c \in Obj \ Top /\ Home[c] = o /\ c # o /\ Chain[c] = {c} \cup Chain[o]
<1>1. /\ Branches[o] \in Seq(Obj) /\ IsInjective(Branches[o])
      /\ Range(Branches[o]) = {c \in Obj \ Top : Home[c] = o}
    BY ObjectsAssumption DEF ObjectsAssumption
<1>2. ASSUME NEW i \in DOMAIN Branches[o]
      PROVE  LET c == Branches[o][i]
             IN c \in Obj \ Top /\ Home[c] = o /\ c # o /\ Chain[c] = {c} \cup Chain[o]
  <2> DEFINE c == Branches[o][i]
  <2>1. c \in Range(Branches[o])
      BY DEF Range
  <2> HIDE DEF c
  <2>2. c \in Obj \ Top /\ Home[c] = o
      BY <1>1, <2>1
  <2>3. c # o
    <3> SUFFICES ASSUME c = o PROVE FALSE
        OBVIOUS
    <3>1. {o} \in SUBSET (Obj \ Top) /\ {o} # {}
        BY <2>2
    <3>2. \E x \in {o} : Home[x] \notin {o}
        BY <3>1, ObjectsAssumption, Zenon DEF ObjectsAssumption
    <3> QED BY <2>2, <3>2
  <2> QED BY <2>2, <2>3, ChainUp DEF c
<1> QED BY <1>1, <1>2

(* A turn of the walk: the children of an object before the rest.           *)
LEMMA ConcatFacts ==
  ASSUME NEW B \in Seq(Obj), NEW t \in Seq(Obj), t # <<>>
  PROVE  LET new == B \o Tail(t)
         IN /\ new \in Seq(Obj) /\ Len(new) = Len(B) + Len(t) - 1
            /\ \A j \in 1 .. Len(B) : new[j] = B[j]
            /\ \A j \in Len(B) + 1 .. Len(new) :
                 j - Len(B) + 1 \in 2 .. Len(t) /\ new[j] = t[j - Len(B) + 1]
            /\ \A i \in 2 .. Len(t) :
                 i + Len(B) - 1 \in 1 .. Len(new) /\ new[i + Len(B) - 1] = t[i]
<1>1. Tail(t) \in Seq(Obj) /\ Len(Tail(t)) = Len(t) - 1
      /\ \A i \in 1 .. Len(t) - 1 : Tail(t)[i] = t[i + 1]
    OBVIOUS
<1> DEFINE r == Tail(t)
           new == B \o r
<1>2. r \in Seq(Obj) /\ Len(r) = Len(t) - 1 /\ Len(r) \in Nat /\ Len(B) \in Nat /\ Len(t) \in Nat
    BY <1>1
<1> HIDE DEF r
<1>3. new \in Seq(Obj) /\ Len(new) = Len(B) + Len(r)
    BY <1>2
<1>4. \A j \in 1 .. Len(B) : new[j] = B[j]
    BY <1>2
<1>5. \A j \in Len(B) + 1 .. Len(B) + Len(r) : new[j] = r[j - Len(B)]
    BY <1>2
<1>6. \A i \in 1 .. Len(r) : r[i] = t[i + 1]
    BY <1>1, <1>2 DEF r
<1> HIDE DEF new
<1>7. ASSUME NEW j \in Len(B) + 1 .. Len(new)
      PROVE  j - Len(B) + 1 \in 2 .. Len(t) /\ new[j] = t[j - Len(B) + 1]
  <2>1. j - Len(B) \in 1 .. Len(r) /\ (j - Len(B)) + 1 = j - Len(B) + 1
      BY <1>2, <1>3
  <2>2. new[j] = r[j - Len(B)]
      BY <1>3, <1>5
  <2>3. r[j - Len(B)] = t[j - Len(B) + 1]
      BY <1>6, <2>1
  <2> QED BY <1>2, <1>3, <2>2, <2>3
<1>8. ASSUME NEW i \in 2 .. Len(t)
      PROVE  i + Len(B) - 1 \in 1 .. Len(new) /\ new[i + Len(B) - 1] = t[i]
  <2>1. i + Len(B) - 1 \in Len(B) + 1 .. Len(new)
        /\ (i + Len(B) - 1) - Len(B) + 1 = i
      BY <1>2, <1>3
  <2>2. i + Len(B) - 1 \in 1 .. Len(new)
      BY <1>2, <2>1
  <2> QED BY <1>7, <2>1, <2>2
<1> QED BY <1>2, <1>3, <1>4, <1>7, <1>8 DEF new, r

(* The jth of what is to visit next is the jth child of the object visited, *)
(* or what was n - 1 places further on.                                     *)
IsChild(x, j) == ~Cut(x) /\ j \in DOMAIN Branches[x] /\ todo'[j] = Branches[x][j]
IsRest(n, j) ==
    j > n /\ j - n + 1 \in DOMAIN todo /\ j - n + 1 > 1 /\ todo'[j] = todo[j - n + 1]

LEMMA VisitTodo ==
  ASSUME BucketTypes, Visit
  PROVE  /\ Head(todo) \in Obj /\ Head(todo) = todo[1] /\ 1 \in DOMAIN todo
         /\ todo' \in Seq(Obj)
         /\ \E n \in Nat : \A j \in DOMAIN todo' : IsChild(Head(todo), j) \/ IsRest(n, j)
         /\ \A i \in DOMAIN todo : i > 1 => \E j \in DOMAIN todo' : todo'[j] = todo[i]
         /\ ~Cut(Head(todo)) =>
              \A i \in DOMAIN Branches[Head(todo)] :
                 \E j \in DOMAIN todo' : todo'[j] = Branches[Head(todo)][i]
<1> DEFINE o == Head(todo)
           B == IF Cut(o) THEN <<>> ELSE Branches[o]
<1>1. todo \in Seq(Obj) /\ todo # <<>>
    BY DEF BucketTypes, Visit
<1>2. o \in Obj /\ o = todo[1] /\ 1 \in DOMAIN todo /\ DOMAIN todo = 1 .. Len(todo) /\ Len(todo) \in Nat
    BY <1>1
<1>3. todo' = B \o Tail(todo)
    BY DEF Visit
<1> HIDE DEF o
<1>4. Branches[o] \in Seq(Obj)
    BY <1>2, BranchFacts
<1>5. B \in Seq(Obj) /\ DOMAIN B = 1 .. Len(B) /\ Len(B) \in Nat
  <2>1. B \in Seq(Obj)
      BY <1>4
  <2> HIDE DEF B
  <2> QED BY <2>1
<1>6. \A j \in DOMAIN B : ~Cut(o) /\ j \in DOMAIN Branches[o] /\ B[j] = Branches[o][j]
  <2>1. CASE Cut(o)
    <3>1. B = <<>>
        BY <2>1
    <3>2. DOMAIN B = {}
        BY <3>1
    <3> QED BY <3>2
  <2>2. CASE ~Cut(o)
      BY <2>2
  <2> QED BY <2>1, <2>2
<1>7. ~Cut(o) => DOMAIN Branches[o] = DOMAIN B /\ \A i \in DOMAIN B : B[i] = Branches[o][i]
    OBVIOUS
<1> HIDE DEF B
<1>8. /\ todo' \in Seq(Obj) /\ Len(todo') = Len(B) + Len(todo) - 1
      /\ \A j \in 1 .. Len(B) : todo'[j] = B[j]
      /\ \A j \in Len(B) + 1 .. Len(todo') :
           j - Len(B) + 1 \in 2 .. Len(todo) /\ todo'[j] = todo[j - Len(B) + 1]
      /\ \A i \in 2 .. Len(todo) :
           i + Len(B) - 1 \in 1 .. Len(todo') /\ todo'[i + Len(B) - 1] = todo[i]
    BY <1>1, <1>3, <1>5, ConcatFacts
<1>9. DOMAIN todo' = 1 .. Len(todo')
    BY <1>8
<1>10. ASSUME NEW j \in DOMAIN todo'
       PROVE  IsChild(o, j) \/ IsRest(Len(B), j)
  <2>1. CASE j \in 1 .. Len(B)
      BY <1>5, <1>6, <1>8, <2>1 DEF IsChild
  <2>2. CASE j \in Len(B) + 1 .. Len(todo')
    <3>1. j - Len(B) + 1 \in 2 .. Len(todo) /\ todo'[j] = todo[j - Len(B) + 1]
        BY <1>8, <2>2
    <3>2. j - Len(B) + 1 \in DOMAIN todo /\ j - Len(B) + 1 > 1 /\ j > Len(B)
        BY <1>2, <1>5, <2>2, <3>1
    <3> QED BY <3>1, <3>2 DEF IsRest
  <2>3. j \in 1 .. Len(B) \/ j \in Len(B) + 1 .. Len(todo')
      BY <1>5, <1>9
  <2> QED BY <2>1, <2>2, <2>3
<1>11. ASSUME NEW i \in DOMAIN todo, i > 1
       PROVE  \E j \in DOMAIN todo' : todo'[j] = todo[i]
  <2>1. i \in 2 .. Len(todo)
      BY <1>2, <1>11
  <2> QED BY <1>8, <1>9, <2>1
<1>12. ASSUME ~Cut(o), NEW i \in DOMAIN Branches[o]
       PROVE  \E j \in DOMAIN todo' : todo'[j] = Branches[o][i]
  <2>1. i \in 1 .. Len(B) /\ B[i] = Branches[o][i]
      BY <1>5, <1>7, <1>12
  <2>2. i \in 1 .. Len(todo')
      BY <1>2, <1>5, <1>8, <2>1
  <2> QED BY <1>8, <1>9, <2>1, <2>2
<1> QED BY <1>2, <1>5, <1>8, <1>10, <1>11, <1>12 DEF o

LEMMA VisitKeepsTodo ==
  ASSUME BucketTypes, TodoRight, Visit
  PROVE  /\ TodoRight'
         /\ \A o \in Obj : Awaited(o)' => Awaited(o) /\ o # Head(todo)
         /\ \A o \in Obj : Awaited(o) /\ o # Head(todo)
                           /\ ~(Head(todo) \in Chain[o] /\ Cut(Head(todo))) => Awaited(o)'
<1> DEFINE x == Head(todo)
<1>1. /\ x \in Obj /\ x = todo[1] /\ 1 \in DOMAIN todo
      /\ todo' \in Seq(Obj)
      /\ \E n \in Nat : \A j \in DOMAIN todo' : IsChild(x, j) \/ IsRest(n, j)
      /\ \A i \in DOMAIN todo : i > 1 => \E j \in DOMAIN todo' : todo'[j] = todo[i]
      /\ ~Cut(x) =>
           \A i \in DOMAIN Branches[x] : \E j \in DOMAIN todo' : todo'[j] = Branches[x][i]
    BY VisitTodo
<1>2. /\ DOMAIN todo \subseteq Nat /\ \A i \in DOMAIN todo : todo[i] \in Obj /\ i >= 1
      /\ DOMAIN todo' \subseteq Nat
    BY <1>1 DEF BucketTypes
<1>3. /\ \A i \in DOMAIN todo : RootOf[todo[i]] = root
      /\ \A i, j \in DOMAIN todo : todo[i] \in Chain[todo[j]] => i = j
    BY DEF TodoRight
<1>4. walkPc' = "walk" /\ root' = root
    BY DEF Visit
<1> HIDE DEF x
<1>5. /\ IsInjective(Branches[x])
      /\ \A i \in DOMAIN Branches[x] :
           /\ Branches[x][i] \in Obj \ Top /\ Home[Branches[x][i]] = x /\ Branches[x][i] # x
           /\ Chain[Branches[x][i]] = {Branches[x][i]} \cup Chain[x]
    BY <1>1, BranchFacts, Zenon
<1>6. x \in Chain[x]
    BY <1>1, ChainFacts
<1>7. PICK n \in Nat : \A j \in DOMAIN todo' : IsChild(x, j) \/ IsRest(n, j)
    BY <1>1
<1>8. ASSUME NEW c \in DOMAIN Branches[x], NEW i \in DOMAIN todo, i > 1
      PROVE  Branches[x][c] \notin Chain[todo[i]] /\ todo[i] \notin Chain[Branches[x][c]]
  <2>1. x \notin Chain[todo[i]] /\ todo[i] \notin Chain[x]
      BY <1>1, <1>2, <1>3, <1>8
  <2>2. Branches[x][c] \notin Chain[todo[i]]
      BY <1>2, <1>5, <2>1, ChainFacts
  <2>3. todo[i] # Branches[x][c]
      BY <1>2, <2>2, ChainFacts
  <2> QED BY <1>5, <2>1, <2>2, <2>3
<1>9. \A c, d \in DOMAIN Branches[x] : Branches[x][c] \in Chain[Branches[x][d]] => c = d
  <2> SUFFICES ASSUME NEW c \in DOMAIN Branches[x], NEW d \in DOMAIN Branches[x],
                      Branches[x][c] \in Chain[Branches[x][d]]
               PROVE  c = d
      OBVIOUS
  <2>1. CASE Branches[x][c] = Branches[x][d]
      BY <1>5, <2>1 DEF IsInjective
  <2>2. CASE Branches[x][c] \in Chain[x]
    <3>1. x \in Chain[Branches[x][c]]
        BY <1>5, <1>6
    <3>2. x = Branches[x][c]
        BY <1>1, <2>2, <3>1, ChainApart
    <3> QED BY <1>5, <3>2
  <2> QED BY <1>5, <2>1, <2>2
<1>10. TodoRight'
  <2>1. ASSUME NEW i \in DOMAIN todo', NEW j \in DOMAIN todo', todo'[i] \in Chain[todo'[j]]
        PROVE  i = j
    <3>1. CASE IsChild(x, i) /\ IsChild(x, j)
        BY <1>9, <2>1, <3>1 DEF IsChild
    <3>2. CASE IsChild(x, i) /\ IsRest(n, j)
        BY <1>8, <2>1, <3>2 DEF IsChild, IsRest
    <3>3. CASE IsRest(n, i) /\ IsChild(x, j)
        BY <1>8, <2>1, <3>3 DEF IsChild, IsRest
    <3>4. CASE IsRest(n, i) /\ IsRest(n, j)
      <4>1. i - n + 1 = j - n + 1
          BY <1>3, <2>1, <3>4 DEF IsRest
      <4> QED BY <1>2, <4>1
    <3> QED BY <1>7, <3>1, <3>2, <3>3, <3>4
  <2>2. ASSUME NEW j \in DOMAIN todo'
        PROVE  RootOf[todo'[j]] = root'
    <3>1. CASE IsChild(x, j)
      <4>1. todo'[j] \in Obj /\ x \in Chain[todo'[j]]
          BY <1>5, <1>6, <3>1 DEF IsChild
      <4>2. RootOf[todo'[j]] = RootOf[x]
          BY <4>1, ChainRoot
      <4> QED BY <1>1, <1>3, <1>4, <4>2
    <3>2. CASE IsRest(n, j)
        BY <1>3, <1>4, <3>2 DEF IsRest
    <3> QED BY <1>7, <3>1, <3>2
  <2> QED BY <1>4, <2>1, <2>2 DEF TodoRight
<1>11. ASSUME NEW o \in Obj, NEW j \in DOMAIN todo', todo'[j] \in Chain[o]
       PROVE  Awaited(o)
  <2>1. CASE IsChild(x, j)
    <3>1. x \in Chain[o]
        BY <1>5, <1>11, <2>1, ChainFacts DEF IsChild
    <3> QED BY <1>1, <3>1 DEF Awaited
  <2>2. CASE IsRest(n, j)
      BY <1>11, <2>2 DEF IsRest, Awaited
  <2> QED BY <1>7, <2>1, <2>2
<1>12. ASSUME NEW j \in DOMAIN todo', todo'[j] \in Chain[x]
       PROVE  FALSE
  <2>1. CASE IsChild(x, j)
    <3>1. todo'[j] \in Obj /\ x \in Chain[todo'[j]] /\ todo'[j] # x
        BY <1>5, <1>6, <2>1 DEF IsChild
    <3> QED BY <1>1, <1>12, <3>1, ChainApart
  <2>2. CASE IsRest(n, j)
      BY <1>1, <1>3, <1>12, <2>2 DEF IsRest
  <2> QED BY <1>7, <2>1, <2>2
<1>13. ASSUME NEW o \in Obj, NEW i \in DOMAIN todo, todo[i] \in Chain[o], o # x,
              ~(x \in Chain[o] /\ Cut(x))
       PROVE  Awaited(o)'
  <2>1. CASE i > 1
      BY <1>1, <1>13, <2>1 DEF Awaited
  <2>2. CASE i = 1
    <3>1. x \in Chain[o] /\ ~Cut(x)
        BY <1>1, <1>13, <2>2
    <3>2. PICK c \in Chain[o] : c \in Range(Branches[x])
        BY <1>13, <3>1, ChainChild
    <3>3. PICK d \in DOMAIN Branches[x] : c = Branches[x][d]
        BY <3>2 DEF Range
    <3> QED BY <1>1, <3>1, <3>2, <3>3 DEF Awaited
  <2> QED BY <1>2, <2>1, <2>2
<1>14. \A o \in Obj : Awaited(o)' => Awaited(o) /\ o # x
    BY <1>11, <1>12 DEF Awaited
<1>16. \A o \in Obj : Awaited(o) /\ o # x /\ ~(x \in Chain[o] /\ Cut(x)) => Awaited(o)'
    BY <1>13 DEF Awaited
<1> QED BY <1>10, <1>14, <1>16 DEF x

(* What an object is drawn with.                                            *)

LEMMA PropFacts ==
  ASSUME BucketTypes, NEW o \in Obj
  PROVE  /\ prop[o].alpha \in {"opaque", "clear", "hidden"}
         /\ Class[o] \in Texts => prop[o].mesh \in TextFonts
         /\ Class[o] \notin Texts => prop[o].mesh \in Meshes
         /\ prop[o].place \in Nat /\ prop[o].skin \in Skins
<1>1. prop[o] \in Properties(o)
    BY DEF BucketTypes
<1> QED BY <1>1 DEF Properties

LEMMA CarrierFacts ==
  ASSUME NEW o \in Obj
  PROVE  Class[o] \in Classes /\ Home[o] \in Obj /\ Carrier(o) \in Obj
BY ObjectsAssumption DEF ObjectsAssumption, Carrier

LEMMA DrawnKey ==
  ASSUME BucketTypes, NEW o \in Obj, Drawn(o)
  PROVE  BucketKey(o) \in BucketKeys /\ RootOfKey(BucketKey(o)) = RootOf[o]
<1>1. RootOf[o] \in Roots /\ Class[o] \in Classes /\ Home[o] \in Obj
    BY ObjectsAssumption DEF ObjectsAssumption
<1> DEFINE m == prop[IF Class[o] = "box" THEN Home[o] ELSE o].mesh
<1>2. BucketKey(o) = <<Class[o], Pass(o), m>>
    BY DEF BucketKey
<1>3. CASE Class[o] \in Texts
  <2>1. m \in TextFonts
      BY <1>3, PropFacts DEF Texts
  <2>2. Pass(o) = "clear"
      BY <1>3 DEF Pass
  <2>3. BucketKey(o) \in Texts \X {"clear"} \X TextFonts
    <3> HIDE DEF m
    <3> QED BY <1>2, <1>3, <2>1, <2>2
  <2>4. RootOf[o] = IF Class[o] = "label" THEN "gui" ELSE "map"
      BY <1>1, <1>3 DEF Drawn, Texts, Roots
  <2>5. BucketKey(o)[1] = Class[o]
      BY <1>2
  <2> QED BY <2>3, <2>4, <2>5 DEF BucketKeys, RootOfKey
<1>4. CASE Class[o] \notin Texts
  <2>1. RootOf[o] = "map" /\ Class[o] \in Solids
      BY <1>1, <1>4 DEF Drawn, Texts, Roots, Classes, Solids
  <2>2. m \in Meshes
    <3>1. CASE Class[o] = "box"
      <4>1. Class[Home[o]] = "part"
          BY <2>1, <3>1 DEF Drawn, Cut
      <4> QED BY <1>1, <3>1, <4>1, PropFacts DEF Texts
    <3>2. CASE Class[o] # "box"
        BY <1>4, <3>2, PropFacts
    <3> QED BY <3>1, <3>2
  <2>3. Pass(o) \in {"clear", "opaque"}
      BY DEF Pass
  <2>4. BucketKey(o) \in Solids \X {"clear", "opaque"} \X Meshes
    <3> HIDE DEF m
    <3> QED BY <1>2, <2>1, <2>2, <2>3
  <2>5. BucketKey(o)[1] = Class[o] /\ Class[o] # "label"
      BY <1>2, <1>4 DEF Texts
  <2> QED BY <2>1, <2>4, <2>5 DEF BucketKeys, RootOfKey
<1> QED BY <1>3, <1>4

LEMMA SlotType ==
  ASSUME BucketTypes, NEW o \in Obj
  PROVE  /\ SlotOf(o) \in Slot
         /\ SlotOf(o).obj = o /\ SlotOf(o).faces = FacesOf(o)
         /\ SlotOf(o).place = prop[Carrier(o)].place
<1>1. prop[Carrier(o)].place \in Nat
    BY CarrierFacts, PropFacts
<1>2. \A f \in Faces : FaceOf(o, f) \in Skins
  <2>0. "decal" \in Skins /\ "smooth" \in Skins
      BY DEF Skins
  <2>1. Skin(o) \in Skins
    <3>1. prop[o].skin \in Skins
        BY PropFacts
    <3>2. Skin(o) = prop[o].skin \/ Skin(o) = "smooth"
        BY DEF Skin
    <3> QED BY <2>0, <3>1, <3>2
  <2>2. \A f \in Faces : FaceOf(o, f) = "decal" \/ FaceOf(o, f) = Skin(o)
      BY DEF FaceOf
  <2> QED BY <2>0, <2>1, <2>2, Zenon
<1>3. FacesOf(o) \in [Faces -> Skins]
    BY <1>2 DEF FacesOf
<1> QED BY <1>1, <1>3 DEF SlotOf, Slot

(* A slot is added to one bucket, and the object's target names it.         *)
Gains(k, s) ==
    /\ buckets' \in [BucketKeys -> Seq(Slot)]
    /\ \A l \in BucketKeys : l # k => buckets'[l] = buckets[l]
    /\ Len(buckets'[k]) = Len(buckets[k]) + 1
    /\ DOMAIN buckets'[k] = DOMAIN buckets[k] \cup {Len(buckets[k]) + 1}
    /\ \A i \in DOMAIN buckets[k] : buckets'[k][i] = buckets[k][i]
    /\ buckets'[k][Len(buckets[k]) + 1] = s

LEMMA VisitDraws ==
  ASSUME BucketTypes, Visit, Drawn(Head(todo))
  PROVE  LET x == Head(todo)
             k == BucketKey(x)
         IN /\ k \in BucketKeys /\ Gains(k, SlotOf(x))
            /\ Len(buckets[k]) + 1 \in Nat \ {0}
            /\ targets' = IF Moves(x)
                          THEN targets \cup {[obj |-> x, key |-> k, at |-> Len(buckets[k]) + 1]}
                          ELSE targets
<1> DEFINE x == Head(todo)
           k == BucketKey(x)
           s == SlotOf(x)
<1>1. x \in Obj /\ Drawn(x)
    BY VisitTodo
<1>2. /\ buckets' = [buckets EXCEPT ![k] = Append(@, s)]
      /\ targets' = IF Moves(x)
                    THEN targets \cup {[obj |-> x, key |-> k, at |-> Len(buckets[k]) + 1]}
                    ELSE targets
    BY DEF Visit, Appended
<1> HIDE DEF x
<1>3. k \in BucketKeys /\ s \in Slot
    BY <1>1, DrawnKey, SlotType
<1> HIDE DEF k, s
<1>4. buckets \in [BucketKeys -> Seq(Slot)] /\ buckets[k] \in Seq(Slot)
    BY <1>3 DEF BucketTypes
<1> DEFINE new == Append(buckets[k], s)
<1>5. /\ new \in Seq(Slot) /\ Len(new) = Len(buckets[k]) + 1 /\ Len(buckets[k]) \in Nat
      /\ \A i \in 1 .. Len(buckets[k]) : new[i] = buckets[k][i]
      /\ new[Len(buckets[k]) + 1] = s
      /\ DOMAIN new = 1 .. Len(new) /\ DOMAIN buckets[k] = 1 .. Len(buckets[k])
    BY <1>3, <1>4
<1>6. buckets'[k] = new /\ \A l \in BucketKeys : l # k => buckets'[l] = buckets[l]
    BY <1>2, <1>3, <1>4
<1>7. buckets' \in [BucketKeys -> Seq(Slot)]
  <2> HIDE DEF new
  <2>1. buckets' = [buckets EXCEPT ![k] = new]
      BY <1>2 DEF new
  <2> QED BY <1>4, <1>5, <2>1
<1>8. DOMAIN new = DOMAIN buckets[k] \cup {Len(buckets[k]) + 1}
  <2> HIDE DEF new
  <2> QED BY <1>5
<1>9. Gains(k, s)
  <2> HIDE DEF new
  <2> QED BY <1>5, <1>6, <1>7, <1>8 DEF Gains
<1> QED BY <1>2, <1>3, <1>5, <1>9 DEF k, s, x

LEMMA BelowInTree ==
  ASSUME NEW o \in Obj, NEW x \in Chain[o], InTree(x)
  PROVE  InTree(o)
<1>1. RootOf[x] = RootOf[o] /\ Chain[x] \subseteq Chain[o]
    BY ChainRoot, ChainTrans
<1> QED BY <1>1 DEF InTree

LEMMA AboveInTree ==
  ASSUME BucketTypes, NEW o \in Obj, InTree(o), NEW x \in Chain[o]
  PROVE  InTree(x)
<1>1. PICK i \in DOMAIN tops[RootOf[o]] : tops[RootOf[o]][i] \in Chain[o]
    BY DEF InTree
<1> DEFINE t == tops[RootOf[o]][i]
<1>2. RootOf[o] \in Roots
    BY ObjectsAssumption DEF ObjectsAssumption
<1>3. t \in Top
    BY <1>2 DEF BucketTypes
<1>4. t \in Chain[o]
    BY <1>1
<1> HIDE DEF t
<1>5. t \in Obj /\ Home[t] = t /\ t \in Chain[t]
    BY <1>3, ChainTop, ObjectsAssumption DEF ObjectsAssumption
<1> DEFINE S == {a \in Chain[o] : t \in Chain[a]}
<1>6. S \in SUBSET Obj /\ o \in S
    BY <1>4, ChainFacts
<1>7. \A a \in S : Home[a] \in S
  <2> SUFFICES ASSUME NEW a \in S PROVE Home[a] \in S
      OBVIOUS
  <2>1. a \in Obj /\ Home[a] \in Chain[o] /\ t \in Chain[a]
      BY <1>6, ChainFacts
  <2>2. CASE a = t
      BY <1>5, <2>1, <2>2
  <2>3. CASE a # t
      BY <2>1, <2>3, ChainUp
  <2> QED BY <2>2, <2>3
<1>8. Chain[o] \subseteq S
  <2> HIDE DEF S
  <2> QED BY <1>6, <1>7, ChainLeast
<1>9. t \in Chain[x] /\ RootOf[x] = RootOf[o]
    BY <1>8, ChainRoot
<1> QED BY <1>9 DEF InTree, t

(* What a change leaves as it was.                                          *)
LooksSame(x) ==
    /\ prop'[x].alpha = prop[x].alpha /\ prop'[x].mesh = prop[x].mesh
    /\ prop'[x].anchored = prop[x].anchored /\ prop'[x].skin = prop[x].skin

LEMMA HasLeast ==
    ASSUME NEW S \in SUBSET Nat, S # {}
    PROVE  \E x \in S : \A y \in S : x <= y
<1>1. PICK x \in S : \A y \in S : ~(<<y, x>> \in OpToRel(<, Nat))
    BY NatLessThanWellFounded, WFMin
<1>2. \A y \in S : y < x => <<y, x>> \in OpToRel(<, Nat)
    BY DEF OpToRel
<1>3. \A y \in S : ~(y < x)
    BY <1>1, <1>2, Zenon
<1> QED BY <1>3

LEMMA FirstDecalIs ==
  ASSUME NEW o \in Obj, Decals(o) # {}
  PROVE  \E i \in DOMAIN Branches[o] : FirstDecal(o) = Branches[o][i]
<1>1. DOMAIN Branches[o] \subseteq Nat
    BY BranchFacts
<1>2. Decals(o) \in SUBSET Nat /\ Decals(o) \subseteq DOMAIN Branches[o]
    BY <1>1 DEF Decals
<1> DEFINE D == Decals(o)
<1>3. D \in SUBSET Nat /\ D # {}
    BY <1>2
<1> HIDE DEF D
<1>4. \E i \in D : \A j \in D : i <= j
    BY <1>3, HasLeast
<1> DEFINE least == CHOOSE i \in D : \A j \in D : i <= j
<1>5. least \in D
    BY <1>4
<1>6. FirstDecal(o) = Branches[o][least]
    BY DEF FirstDecal, D
<1> HIDE DEF least
<1> QED BY <1>2, <1>5, <1>6 DEF D

LEMMA SameLooks ==
  ASSUME NEW o \in Obj, \A x \in Chain[o] : LooksSame(x),
         \A i \in DOMAIN Branches[o] : LooksSame(Branches[o][i])
  PROVE  /\ Drawn(o)' <=> Drawn(o)
         /\ \A a \in Chain[o] : Cut(a)' <=> Cut(a)
         /\ BucketKey(o)' = BucketKey(o) /\ FacesOf(o)' = FacesOf(o)
         /\ Moves(o)' <=> Moves(o)
<1>1. o \in Chain[o] /\ Home[o] \in Chain[o]
    BY ChainFacts
<1>2. LooksSame(o) /\ LooksSame(Home[o])
    BY <1>1
<1>3. \A a \in Chain[o] : Cut(a)' <=> Cut(a)
    BY DEF Cut, LooksSame
<1>4. Drawn(o)' <=> Drawn(o)
    BY <1>1, <1>2, <1>3 DEF Drawn, LooksSame
<1>5. BucketKey(o)' = BucketKey(o)
    BY <1>2 DEF BucketKey, Pass, LooksSame
<1>6. Skin(o)' = Skin(o)
    BY <1>2 DEF Skin, LooksSame
<1>7. \A f \in Faces : FaceOf(o, f)' = FaceOf(o, f)
  <2>1. CASE Decals(o) = {}
      BY <1>6, <2>1 DEF FaceOf
  <2>2. CASE Decals(o) # {}
    <3>1. LooksSame(FirstDecal(o))
        BY <2>2, FirstDecalIs
    <3> QED BY <1>6, <3>1 DEF FaceOf, LooksSame
  <2> QED BY <2>1, <2>2
<1>8. FacesOf(o)' = FacesOf(o)
    BY <1>7 DEF FacesOf
<1>9. Moves(o)' <=> Moves(o)
    BY <1>2 DEF Moves, Carrier, LooksSame
<1> QED BY <1>3, <1>4, <1>5, <1>8, <1>9

(* A change that no object of the tree of a root shows.                     *)
Untouched(r) ==
    /\ tops'[r] = tops[r]
    /\ \A x \in Obj : RootOf[x] = r /\ InTree(x) => LooksSame(x)

LEMMA UntouchedLooks ==
  ASSUME BucketTypes, NEW r \in Roots, Untouched(r), NEW o \in Obj, RootOf[o] = r
  PROVE  /\ InTree(o)' <=> InTree(o)
         /\ InTree(o) => /\ Seen(o)' <=> Seen(o)
                         /\ \A a \in Chain[o] : Cut(a)' <=> Cut(a)
                         /\ BucketKey(o)' = BucketKey(o) /\ FacesOf(o)' = FacesOf(o)
                         /\ Moves(o)' <=> Moves(o)
<1>1. InTree(o)' <=> InTree(o)
    BY DEF Untouched, InTree
<1>2. ASSUME InTree(o)
      PROVE  /\ Drawn(o)' <=> Drawn(o)
             /\ \A a \in Chain[o] : Cut(a)' <=> Cut(a)
             /\ BucketKey(o)' = BucketKey(o) /\ FacesOf(o)' = FacesOf(o)
             /\ Moves(o)' <=> Moves(o)
  <2>1. \A x \in Chain[o] : LooksSame(x)
    <3> TAKE x \in Chain[o]
    <3>1. InTree(x) /\ x \in Obj /\ RootOf[x] = r
        BY <1>2, AboveInTree, ChainFacts, ChainRoot
    <3> QED BY <3>1 DEF Untouched
  <2>2. \A i \in DOMAIN Branches[o] : LooksSame(Branches[o][i])
    <3> TAKE i \in DOMAIN Branches[o]
    <3> DEFINE c == Branches[o][i]
    <3>1. c \in Obj /\ o \in Chain[c]
        BY BranchFacts, ChainFacts
    <3> HIDE DEF c
    <3>2. InTree(c) /\ RootOf[c] = r
        BY <1>2, <3>1, BelowInTree, ChainRoot
    <3>3. LooksSame(c)
        BY <3>1, <3>2 DEF Untouched
    <3> QED BY <3>3 DEF c
  <2> QED BY <2>1, <2>2, SameLooks
<1> QED BY <1>1, <1>2 DEF Seen

LEMMA SlotFacts ==
  ASSUME BucketTypes, NEW k \in BucketKeys, NEW i \in DOMAIN buckets[k]
  PROVE  /\ buckets[k][i] \in Slot /\ buckets[k][i].obj \in Obj
         /\ buckets[k] \in Seq(Slot) /\ DOMAIN buckets[k] = 1 .. Len(buckets[k])
         /\ Len(buckets[k]) \in Nat
<1>1. buckets[k] \in Seq(Slot)
    BY DEF BucketTypes
<1>2. buckets[k][i] \in Slot
    BY <1>1
<1> QED BY <1>1, <1>2 DEF Slot

LEMMA UntouchedSlots ==
  ASSUME BucketTypes, TodoRight, SlotsRooted, NEW r \in Roots, Untouched(r),
         UNCHANGED <<todo, buckets, targets>>, PictureOf(r)
  PROVE  SlotsRight(r)' /\ AllThere(r)'
<1>1. ASSUME NEW k \in BucketKeys, RootOfKey(k) = r, NEW i \in DOMAIN buckets[k]
      PROVE  SlotRight(k, i)'
  <2> DEFINE o == buckets[k][i].obj
  <2>1. o \in Obj /\ RootOf[o] = r /\ SlotRight(k, i)
      BY <1>1, SlotFacts DEF SlotsRooted, PictureOf, SlotsRight
  <2>2. PICK x \in Obj : x = o
      BY <2>1
  <2>3. /\ Seen(x) /\ k = BucketKey(x) /\ buckets[k][i].faces = FacesOf(x)
        /\ Moves(x) => [obj |-> x, key |-> k, at |-> i] \in targets
      BY <2>1, <2>2 DEF SlotRight
  <2>4. /\ Seen(x)' /\ k = BucketKey(x)' /\ buckets[k][i].faces = FacesOf(x)'
        /\ Moves(x)' => [obj |-> x, key |-> k, at |-> i] \in targets
    <3>1. InTree(x) /\ RootOf[x] = r
        BY <2>1, <2>2, <2>3 DEF Seen
    <3>2. /\ Seen(x)' <=> Seen(x)
          /\ BucketKey(x)' = BucketKey(x) /\ FacesOf(x)' = FacesOf(x)
          /\ Moves(x)' <=> Moves(x)
        BY <3>1, UntouchedLooks
    <3> QED BY <2>3, <3>2
  <2>5. buckets'[k][i].obj = x /\ buckets'[k][i].faces = buckets[k][i].faces /\ targets' = targets
      BY <2>2
  <2> QED BY <2>4, <2>5 DEF SlotRight
<1>2. SlotsRight(r)'
    BY <1>1 DEF SlotsRight
<1>3. AllThere(r)'
  <2> SUFFICES ASSUME NEW o \in Obj, RootOf[o] = r, Seen(o)'
               PROVE  HasSlot(o)' \/ Awaited(o)'
      BY DEF AllThere
  <2>1. InTree(o)
      BY UntouchedLooks DEF Seen
  <2>2. Seen(o)
      BY <2>1, UntouchedLooks
  <2>3. HasSlot(o) \/ Awaited(o)
      BY <2>2 DEF PictureOf, AllThere
  <2> QED BY <2>3 DEF HasSlot, Awaited
<1> QED BY <1>2, <1>3

LEMMA UntouchedKeeps ==
  ASSUME BucketTypes, TodoRight, SlotsRooted, NEW r \in Roots, Untouched(r),
         UNCHANGED <<todo, buckets, targets, walkPc, root>>, PictureOf(r)
  PROVE  PictureOf(r)'
<1>1. SlotsRight(r)' /\ AllThere(r)'
    BY UntouchedSlots
<1>2. TodoReached(r)'
  <2> SUFFICES ASSUME Walks(r), NEW j \in DOMAIN todo
               PROVE  Visitable(todo[j])'
      BY DEF TodoReached, Walks
  <2>1. PICK o \in Obj : o = todo[j]
      BY DEF BucketTypes
  <2>2. RootOf[o] = r /\ Visitable(o)
      BY <2>1 DEF TodoRight, Walks, PictureOf, TodoReached
  <2>3. Visitable(o)'
      BY <2>2, UntouchedLooks DEF Visitable
  <2> QED BY <2>1, <2>3 DEF Visitable
<1> QED BY <1>1, <1>2 DEF PictureOf

(* A change while its tree is walked, or of a tree that is listened to,     *)
(* leaves nothing reliable of that tree.                                    *)
LEMMA ChangedReliable ==
  ASSUME WalkHeard, NEW o \in Obj, Changed(o), stale \subseteq stale',
         NEW r \in Roots, Reliable(r)'
  PROVE  /\ Reliable(r)
         /\ r = RootOf[o] => r \in heard /\ r \notin stale'
<1>1. /\ overlap' = IF walkPc = "walk" THEN overlap \cup ({root} \cap {RootOf[o]}) ELSE overlap
      /\ walkPc' = walkPc /\ root' = root
    BY DEF Changed
<1>2. r \notin overlap' /\ (r \notin stale' \/ Walks(r))
    BY <1>1 DEF Reliable, Walks
<1>3. Reliable(r)
    BY <1>1, <1>2 DEF Reliable
<1>4. r = RootOf[o] => ~Walks(r)
    BY <1>1, <1>2 DEF Walks
<1> QED BY <1>2, <1>3, <1>4 DEF WalkHeard

(* What no change of a tree touches.                                        *)
LEMMA ChangedKeeps ==
  ASSUME BucketInv, NEW o \in Obj, Changed(o), stale \subseteq stale'
  PROVE  /\ edits' \in 0 .. EditBound /\ overlap' \subseteq Roots
         /\ TodoRight' /\ SlotsApart' /\ SlotsRooted' /\ TargetsOwnTheirSlots' /\ WalkHeard'
         /\ UNCHANGED <<todo, buckets, targets, walkPc, root, heard>>
<1>1. UNCHANGED <<todo, buckets, targets, walkPc, root, heard>>
    BY DEF Changed
<1>2. edits' \in 0 .. EditBound /\ overlap' \subseteq Roots
    BY ObjectsAssumption DEF Changed, BucketInv, BucketTypes, ObjectsAssumption
<1>3. TodoRight'
    BY <1>1 DEF BucketInv, TodoRight
<1>4. SlotsApart'
    BY <1>1 DEF BucketInv, SlotsApart
<1>5. SlotsRooted'
    BY <1>1 DEF BucketInv, SlotsRooted, Awaited
<1>6. TargetsOwnTheirSlots'
    BY <1>1 DEF BucketInv, TargetsOwnTheirSlots
<1>7. WalkHeard'
    BY <1>1 DEF BucketInv, WalkHeard, Walks
<1> QED BY <1>1, <1>2, <1>3, <1>4, <1>5, <1>6, <1>7

LEMMA EditedType ==
  ASSUME NEW e \in Edit, NEW r \in Properties(e.obj)
  PROVE  Edited(r, e) \in Properties(e.obj)
<1> DEFINE s == Start[e.obj]
<1>1. Edited(s, e) \in Properties(e.obj)
    BY ObjectsAssumption DEF ObjectsAssumption
<1> HIDE DEF s
<1>2. /\ Edited(s, e).alpha \in {"opaque", "clear", "hidden"}
      /\ Edited(s, e).mesh \in IF Class[e.obj] \in Texts THEN TextFonts ELSE Meshes
      /\ Edited(s, e).anchored \in {"yes", "no"}
      /\ Edited(s, e).place \in Nat /\ Edited(s, e).skin \in Skins
    BY <1>1 DEF Properties
<1>3. /\ r.alpha \in {"opaque", "clear", "hidden"}
      /\ r.mesh \in IF Class[e.obj] \in Texts THEN TextFonts ELSE Meshes
      /\ r.anchored \in {"yes", "no"}
      /\ r.place \in Nat /\ r.skin \in Skins
    BY DEF Properties
<1>4. /\ Edited(r, e).alpha = IF e.field = "alpha" THEN Edited(s, e).alpha ELSE r.alpha
      /\ Edited(r, e).mesh = IF e.field = "mesh" THEN Edited(s, e).mesh ELSE r.mesh
      /\ Edited(r, e).anchored = IF e.field = "anchored" THEN Edited(s, e).anchored ELSE r.anchored
      /\ Edited(r, e).place = IF e.field = "place" THEN Edited(s, e).place ELSE r.place
      /\ Edited(r, e).skin = IF e.field = "skin" THEN Edited(s, e).skin ELSE r.skin
    BY DEF Edited
<1>5. Edited(r, e) = [alpha |-> Edited(r, e).alpha, mesh |-> Edited(r, e).mesh,
                      anchored |-> Edited(r, e).anchored, place |-> Edited(r, e).place,
                      skin |-> Edited(r, e).skin]
    BY DEF Edited
<1>6. /\ Edited(r, e).alpha \in {"opaque", "clear", "hidden"}
      /\ Edited(r, e).mesh \in IF Class[e.obj] \in Texts THEN TextFonts ELSE Meshes
      /\ Edited(r, e).anchored \in {"yes", "no"}
      /\ Edited(r, e).place \in Nat /\ Edited(r, e).skin \in Skins
    BY <1>2, <1>3, <1>4
<1> QED BY <1>5, <1>6 DEF Properties

(* The steps of other threads.                                              *)

LEMMA EditFacts ==
  ASSUME BucketTypes, NEW e \in Edit, prop' = [prop EXCEPT ![e.obj] = Edited(@, e)]
  PROVE  /\ e.obj \in Obj /\ DOMAIN prop' = DOMAIN Start
         /\ \A o \in Obj : prop'[o] \in Properties(o)
         /\ \A o \in Obj : o # e.obj => prop'[o] = prop[o]
         /\ prop'[e.obj] = Edited(prop[e.obj], e)
<1>1. e.obj \in Obj /\ e.obj \in DOMAIN prop
    BY ObjectsAssumption DEF ObjectsAssumption, BucketTypes
<1>2. prop'[e.obj] = Edited(prop[e.obj], e)
    BY <1>1
<1>3. \A o \in Obj : o \in DOMAIN prop
    BY ObjectsAssumption DEF ObjectsAssumption, BucketTypes
<1>4. \A o \in Obj : o # e.obj => prop'[o] = prop[o]
    BY <1>3
<1>5. prop'[e.obj] \in Properties(e.obj)
    BY <1>1, <1>2, EditedType DEF BucketTypes
<1>6. \A o \in Obj : prop'[o] \in Properties(o)
    BY <1>4, <1>5 DEF BucketTypes
<1> QED BY <1>1, <1>2, <1>4, <1>6 DEF BucketTypes

LEMMA SetPropertyKeeps ==
  ASSUME BucketInv, NEW e \in Edit, SetProperty(e)
  PROVE  BucketInv'
<1>1. /\ Changed(e.obj) /\ prop' = [prop EXCEPT ![e.obj] = Edited(@, e)] /\ tops' = tops
      /\ stale' = stale \cup (IF InTree(e.obj) THEN Hears(e.obj) ELSE {})
    BY DEF SetProperty
<1>2. /\ e.obj \in Obj /\ DOMAIN prop' = DOMAIN Start
      /\ \A o \in Obj : prop'[o] \in Properties(o)
      /\ \A o \in Obj : o # e.obj => prop'[o] = prop[o]
    BY <1>1, EditFacts DEF BucketInv
<1>3. stale \subseteq stale' /\ stale' \subseteq Roots
    BY <1>1 DEF BucketInv, BucketTypes, Hears
<1>4. /\ edits' \in 0 .. EditBound /\ overlap' \subseteq Roots
      /\ TodoRight' /\ SlotsApart' /\ SlotsRooted' /\ TargetsOwnTheirSlots' /\ WalkHeard'
      /\ UNCHANGED <<todo, buckets, targets, walkPc, root, heard>>
    BY <1>1, <1>2, <1>3, ChangedKeeps
<1>5. BucketTypes'
    BY <1>1, <1>2, <1>3, <1>4 DEF BucketInv, BucketTypes
<1>6. TopsRight'
    BY <1>1 DEF BucketInv, TopsRight
<1>7. ASSUME NEW r \in Roots, Reliable(r)'
      PROVE  PictureOf(r)'
  <2>1. Reliable(r) /\ (r = RootOf[e.obj] => r \in heard /\ r \notin stale')
      BY <1>1, <1>2, <1>3, <1>7, ChangedReliable DEF BucketInv
  <2>2. Untouched(r)
    <3> SUFFICES ASSUME NEW x \in Obj, RootOf[x] = r, InTree(x) PROVE LooksSame(x)
        BY <1>1 DEF Untouched
    <3>1. x # e.obj
        BY <1>1, <2>1 DEF Hears
    <3> QED BY <1>2, <3>1 DEF LooksSame
  <2> QED BY <1>4, <2>1, <2>2, UntouchedKeeps DEF BucketInv, PictureRight
<1> QED BY <1>4, <1>5, <1>6, <1>7 DEF BucketInv, PictureRight

LEMMA MoveSilentlyKeeps ==
  ASSUME BucketInv, NEW e \in Edit, e.field = "place", MoveSilently(e)
  PROVE  BucketInv'
<1>1. /\ Changed(e.obj) /\ prop' = [prop EXCEPT ![e.obj] = Edited(@, e)] /\ tops' = tops
      /\ stale' = stale
    BY DEF MoveSilently
<1>2. /\ e.obj \in Obj /\ DOMAIN prop' = DOMAIN Start
      /\ \A o \in Obj : prop'[o] \in Properties(o)
      /\ \A o \in Obj : o # e.obj => prop'[o] = prop[o]
      /\ prop'[e.obj] = Edited(prop[e.obj], e)
    BY <1>1, EditFacts DEF BucketInv
<1>3. stale \subseteq stale'
    BY <1>1
<1>4. /\ edits' \in 0 .. EditBound /\ overlap' \subseteq Roots
      /\ TodoRight' /\ SlotsApart' /\ SlotsRooted' /\ TargetsOwnTheirSlots' /\ WalkHeard'
      /\ UNCHANGED <<todo, buckets, targets, walkPc, root, heard>>
    BY <1>1, <1>2, <1>3, ChangedKeeps
<1>5. BucketTypes'
    BY <1>1, <1>2, <1>4 DEF BucketInv, BucketTypes
<1>6. TopsRight'
    BY <1>1 DEF BucketInv, TopsRight
<1>7. ASSUME NEW r \in Roots, Reliable(r)'
      PROVE  PictureOf(r)'
  <2>1. Reliable(r)
      BY <1>1, <1>2, <1>3, <1>7, ChangedReliable DEF BucketInv
  <2>2. \A x \in Obj : LooksSame(x)
      BY <1>2 DEF LooksSame, Edited
  <2>3. Untouched(r)
      BY <1>1, <2>2 DEF Untouched
  <2> QED BY <1>4, <2>1, <2>3, UntouchedKeeps DEF BucketInv, PictureRight
<1> QED BY <1>4, <1>5, <1>6, <1>7 DEF BucketInv, PictureRight

LEMMA TopsKeep ==
  ASSUME BucketInv, NEW o \in Top, Changed(o), prop' = prop,
         stale' = stale \cup Hears(o),
         NEW s \in Seq(Top), IsInjective(s), \A i \in DOMAIN s : RootOf[s[i]] = RootOf[o],
         tops' = [tops EXCEPT ![RootOf[o]] = s]
  PROVE  BucketInv'
<1>1. o \in Obj /\ RootOf[o] \in Roots
    BY ObjectsAssumption DEF ObjectsAssumption
<1>2. /\ tops' \in [Roots -> Seq(Top)] /\ tops'[RootOf[o]] = s
      /\ \A r \in Roots : r # RootOf[o] => tops'[r] = tops[r]
    BY <1>1 DEF BucketInv, BucketTypes
<1>3. stale \subseteq stale' /\ stale' \subseteq Roots
    BY DEF BucketInv, BucketTypes, Hears
<1>4. /\ edits' \in 0 .. EditBound /\ overlap' \subseteq Roots
      /\ TodoRight' /\ SlotsApart' /\ SlotsRooted' /\ TargetsOwnTheirSlots' /\ WalkHeard'
      /\ UNCHANGED <<todo, buckets, targets, walkPc, root, heard>>
    BY <1>1, <1>3, ChangedKeeps
<1>5. BucketTypes'
    BY <1>2, <1>3, <1>4 DEF BucketInv, BucketTypes
<1>6. TopsRight'
  <2>1. ASSUME NEW r \in Roots
        PROVE  IsInjective(tops'[r]) /\ \A i \in DOMAIN tops'[r] : RootOf[tops'[r][i]] = r
    <3>1. CASE r = RootOf[o]
        BY <1>2, <3>1
    <3>2. CASE r # RootOf[o]
        BY <1>2, <3>2 DEF BucketInv, TopsRight
    <3> QED BY <3>1, <3>2
  <2> QED BY <2>1 DEF TopsRight
<1>7. ASSUME NEW r \in Roots, Reliable(r)'
      PROVE  PictureOf(r)'
  <2>1. Reliable(r) /\ (r = RootOf[o] => r \in heard /\ r \notin stale')
      BY <1>1, <1>3, <1>7, ChangedReliable DEF BucketInv
  <2>2. r # RootOf[o]
      BY <2>1 DEF Hears
  <2>3. Untouched(r)
      BY <1>2, <2>2 DEF Untouched, LooksSame
  <2> QED BY <1>4, <2>1, <2>3, UntouchedKeeps DEF BucketInv, PictureRight
<1> QED BY <1>4, <1>5, <1>6, <1>7 DEF BucketInv, PictureRight

LEMMA TopFacts ==
  ASSUME BucketInv, NEW o \in Top
  PROVE  /\ RootOf[o] \in Roots /\ tops[RootOf[o]] \in Seq(Top)
         /\ IsInjective(tops[RootOf[o]])
         /\ \A i \in DOMAIN tops[RootOf[o]] : RootOf[tops[RootOf[o]][i]] = RootOf[o]
         /\ DOMAIN tops = Roots
<1>1. RootOf[o] \in Roots
    BY ObjectsAssumption DEF ObjectsAssumption
<1> QED BY <1>1 DEF BucketInv, BucketTypes, TopsRight

LEMMA PutInKeeps ==
  ASSUME BucketInv, NEW o \in Top, PutIn(o)
  PROVE  BucketInv'
<1> DEFINE t == tops[RootOf[o]]
           s == Append(t, o)
<1>1. /\ RootOf[o] \in Roots /\ t \in Seq(Top) /\ IsInjective(t)
      /\ \A i \in DOMAIN t : RootOf[t[i]] = RootOf[o]
      /\ DOMAIN tops = Roots
    BY TopFacts
<1>2. o \notin ToSet(t)
    BY ChainTop DEF PutIn, InTree, ToSet
<1>3. tops' = [tops EXCEPT ![RootOf[o]] = s]
    BY DEF PutIn
<1> HIDE DEF t
<1>4. s \in Seq(Top) /\ ToSet(s) = ToSet(t) \cup {o} /\ IsInjective(s)
    BY <1>1, <1>2, AppendFacts
<1> HIDE DEF s
<1>5. \A i \in DOMAIN s : RootOf[s[i]] = RootOf[o]
  <2> TAKE i \in DOMAIN s
  <2>1. s[i] \in ToSet(t) \cup {o}
      BY <1>4 DEF ToSet
  <2>2. \A x \in ToSet(t) : RootOf[x] = RootOf[o]
      BY <1>1 DEF ToSet
  <2> QED BY <2>1, <2>2
<1> QED BY <1>3, <1>4, <1>5, TopsKeep DEF PutIn

LEMMA TakeOutKeeps ==
  ASSUME BucketInv, NEW o \in Top, TakeOut(o)
  PROVE  BucketInv'
<1> DEFINE t == tops[RootOf[o]]
<1>1. /\ RootOf[o] \in Roots /\ t \in Seq(Top) /\ IsInjective(t)
      /\ \A i \in DOMAIN t : RootOf[t[i]] = RootOf[o]
      /\ DOMAIN tops = Roots
    BY TopFacts
<1>2. PICK k \in DOMAIN t : tops' = [tops EXCEPT ![RootOf[o]] = RemoveAt(t, k)]
    BY DEF TakeOut
<1> HIDE DEF t
<1> DEFINE s == RemoveAt(t, k)
<1>3. k \in 1 .. Len(t) /\ Len(t) \in Nat /\ DOMAIN t = 1 .. Len(t)
    BY <1>1
<1>4. /\ s \in Seq(Top) /\ Len(s) = Len(t) - 1
      /\ \A i \in 1 .. Len(t) - 1 : s[i] = t[IF i < k THEN i ELSE i + 1]
    BY <1>1, <1>3, RemoveAtFacts
<1> HIDE DEF s
<1>5. DOMAIN s = 1 .. Len(t) - 1
    BY <1>4
<1>6. \A i \in DOMAIN s : (IF i < k THEN i ELSE i + 1) \in DOMAIN t
    BY <1>3, <1>5
<1>7. \A i \in DOMAIN s : RootOf[s[i]] = RootOf[o]
    BY <1>1, <1>4, <1>5, <1>6
<1>8. IsInjective(s)
  <2> SUFFICES ASSUME NEW i \in DOMAIN s, NEW j \in DOMAIN s, s[i] = s[j] PROVE i = j
      BY DEF IsInjective
  <2>1. (IF i < k THEN i ELSE i + 1) = (IF j < k THEN j ELSE j + 1)
      BY <1>1, <1>4, <1>5, <1>6 DEF IsInjective
  <2> QED BY <1>3, <1>5, <2>1
<1> QED BY <1>2, <1>4, <1>7, <1>8, TopsKeep DEF TakeOut, s

(* The steps of the main thread.                                            *)

LEMMA InitBuckets == BucketsInit => BucketInv
<1> SUFFICES ASSUME BucketsInit PROVE BucketInv
    OBVIOUS
<1>1. /\ tops = [r \in Roots |-> <<>>] /\ prop = Start /\ edits = 0
      /\ stale = Roots /\ heard = {} /\ walkPc = "check" /\ root = "map" /\ todo = <<>>
      /\ buckets = [k \in BucketKeys |-> <<>>] /\ targets = {} /\ overlap = {}
    BY DEF BucketsInit, NoSlots
<1>2. \A S : <<>> \in Seq(S)
    OBVIOUS
<1>3. DOMAIN <<>> = {} /\ IsInjective(<<>>)
    BY DEF IsInjective
<1>4. \A k \in BucketKeys : DOMAIN buckets[k] = {}
    BY <1>1, <1>3
<1>5. BucketTypes
  <2>1. tops \in [Roots -> Seq(Top)] /\ buckets \in [BucketKeys -> Seq(Slot)] /\ todo \in Seq(Obj)
      BY <1>1, <1>2
  <2>2. \A o \in Obj : prop[o] \in Properties(o)
      BY <1>1, ObjectsAssumption DEF ObjectsAssumption
  <2>3. edits \in 0 .. EditBound
      BY <1>1, ObjectsAssumption DEF ObjectsAssumption
  <2> QED BY <1>1, <2>1, <2>2, <2>3 DEF BucketTypes, Roots
<1>6. TopsRight
    BY <1>1, <1>3 DEF TopsRight
<1>7. TodoRight
    BY <1>1, <1>3 DEF TodoRight
<1>8. SlotsApart /\ SlotsRooted /\ TargetsOwnTheirSlots
    BY <1>1, <1>4 DEF SlotsApart, SlotsRooted, TargetsOwnTheirSlots
<1>9. \A r \in Roots : ~Reliable(r) /\ ~Walks(r) /\ r \in stale
    BY <1>1 DEF Reliable, Walks
<1> QED BY <1>5, <1>6, <1>7, <1>8, <1>9 DEF BucketInv, WalkHeard, PictureRight

LEMMA RestedPicture ==
  ASSUME BucketInv, UNCHANGED <<tops, prop, todo, buckets, targets>>, walkPc' # "walk",
         NEW r \in Roots, PictureOf(r)
  PROVE  PictureOf(r)'
<1>1. Untouched(r)
    BY DEF Untouched, LooksSame
<1>2. SlotsRight(r)' /\ AllThere(r)'
    BY <1>1, UntouchedSlots DEF BucketInv
<1>3. TodoReached(r)'
    BY DEF TodoReached, Walks
<1> QED BY <1>2, <1>3 DEF PictureOf

LEMMA EndKeeps ==
  ASSUME BucketInv, RebuildEnd \/ NothingToRebuild \/ SkipFrame
  PROVE  BucketInv'
<1>1. /\ UNCHANGED <<tops, prop, edits, heard, todo, buckets, targets, overlap>>
      /\ walkPc' \in {"check", "draw"} /\ root' \in Roots
      /\ todo = <<>> /\ root \in Roots
      /\ stale' \subseteq stale /\ stale' \subseteq Roots
      /\ \A r \in Roots : r \in stale => r \in stale' \/ Walks(r)
      /\ \A r \in Roots : Walks(r) => r \notin stale'
    BY DEF RebuildEnd, NothingToRebuild, SkipFrame, Onward, BucketInv, BucketTypes, TodoRight, Roots,
           Walks
<1>2. BucketTypes' /\ TopsRight'
    BY <1>1 DEF BucketInv, BucketTypes, TopsRight
<1>3. TodoRight'
    BY <1>1 DEF TodoRight
<1>4. SlotsApart' /\ SlotsRooted' /\ TargetsOwnTheirSlots'
    BY <1>1 DEF BucketInv, SlotsApart, SlotsRooted, TargetsOwnTheirSlots, Awaited
<1>5. WalkHeard'
    BY <1>1 DEF BucketInv, WalkHeard, Walks
<1>6. ASSUME NEW r \in Roots, Reliable(r)'
      PROVE  PictureOf(r)'
  <2>1. Reliable(r)
      BY <1>1, <1>6 DEF Reliable, Walks
  <2> QED BY <1>1, <2>1, RestedPicture DEF BucketInv, PictureRight
<1> QED BY <1>2, <1>3, <1>4, <1>5, <1>6 DEF BucketInv, PictureRight

LEMMA StillLooks ==
  ASSUME UNCHANGED <<tops, prop>>, NEW o \in Obj
  PROVE  /\ InTree(o)' <=> InTree(o)
         /\ Seen(o)' <=> Seen(o)
         /\ Visitable(o)' <=> Visitable(o)
         /\ BucketKey(o)' = BucketKey(o) /\ FacesOf(o)' = FacesOf(o)
         /\ Moves(o)' <=> Moves(o)
<1>1. InTree(o)' <=> InTree(o)
    BY DEF InTree
<1>2. /\ Drawn(o)' <=> Drawn(o)
      /\ \A a \in Chain[o] : Cut(a)' <=> Cut(a)
      /\ BucketKey(o)' = BucketKey(o) /\ FacesOf(o)' = FacesOf(o)
      /\ Moves(o)' <=> Moves(o)
    BY SameLooks DEF LooksSame
<1> QED BY <1>1, <1>2 DEF Seen, Visitable

LEMMA StillRight ==
  ASSUME BucketTypes, UNCHANGED <<tops, prop>>, NEW k \in BucketKeys, NEW i \in DOMAIN buckets[k],
         SlotRight(k, i), buckets'[k][i].obj = buckets[k][i].obj,
         buckets'[k][i].faces = buckets[k][i].faces,
         \A t \in targets : t.key = k => t \in targets'
  PROVE  SlotRight(k, i)'
<1>1. PICK o \in Obj : o = buckets[k][i].obj
    BY SlotFacts
<1> DEFINE t == [obj |-> o, key |-> k, at |-> i]
<1>2. /\ Seen(o) /\ k = BucketKey(o) /\ buckets[k][i].faces = FacesOf(o)
      /\ Moves(o) => t \in targets
    BY <1>1 DEF SlotRight
<1>3. t.key = k
    OBVIOUS
<1>4. /\ Seen(o)' /\ k = BucketKey(o)' /\ buckets'[k][i].faces = FacesOf(o)'
      /\ Moves(o)' => t \in targets'
  <2> HIDE DEF t
  <2> QED BY <1>2, <1>3, StillLooks
<1>5. buckets'[k][i].obj = o
    BY <1>1
<1> QED BY <1>4, <1>5 DEF SlotRight

LEMMA BeginKeeps ==
  ASSUME BucketInv, RebuildBegin
  PROVE  BucketInv'
<1>1. /\ walkPc = "check" /\ root \in stale /\ walkPc' = "walk" /\ heard' = heard \cup {root}
      /\ todo' = tops[root]
      /\ buckets' = [k \in BucketKeys |-> IF RootOfKey(k) = root THEN <<>> ELSE buckets[k]]
      /\ targets' = {t \in targets : RootOfKey(t.key) # root}
      /\ overlap' = overlap \ {root}
      /\ UNCHANGED <<tops, prop, edits, stale, root>>
    BY DEF RebuildBegin
<1>2. BucketTypes /\ TopsRight /\ TodoRight /\ root \in Roots /\ todo = <<>>
    BY <1>1 DEF BucketInv, BucketTypes, TodoRight
<1>3. tops[root] \in Seq(Top) /\ Seq(Top) \subseteq Seq(Obj)
  <2>1. Top \subseteq Obj
      BY ObjectsAssumption DEF ObjectsAssumption
  <2> QED BY <1>2, <2>1 DEF BucketTypes
<1>4. /\ \A j \in DOMAIN todo' : todo'[j] \in Top /\ RootOf[todo'[j]] = root
      /\ IsInjective(todo')
    BY <1>1, <1>2, <1>3 DEF TopsRight
<1>5. \A k \in BucketKeys : /\ RootOfKey(k) # root => buckets'[k] = buckets[k]
                            /\ RootOfKey(k) = root => DOMAIN buckets'[k] = {}
    BY <1>1
<1>6. BucketTypes'
  <2>1. buckets' \in [BucketKeys -> Seq(Slot)]
    <3>1. <<>> \in Seq(Slot)
        OBVIOUS
    <3> QED BY <1>1, <1>2, <3>1 DEF BucketTypes
  <2>2. todo' \in Seq(Obj)
      BY <1>1, <1>3
  <2> QED BY <1>1, <1>2, <2>1, <2>2 DEF BucketTypes
<1>7. TopsRight'
    BY <1>1, <1>2 DEF TopsRight
<1>8. TodoRight'
  <2>1. \A i, j \in DOMAIN todo' : todo'[i] \in Chain[todo'[j]] => i = j
    <3> SUFFICES ASSUME NEW i \in DOMAIN todo', NEW j \in DOMAIN todo', todo'[i] \in Chain[todo'[j]]
                 PROVE  i = j
        OBVIOUS
    <3>1. todo'[i] = todo'[j]
        BY <1>4, ChainTop
    <3> QED BY <1>4, <3>1 DEF IsInjective
  <2> QED BY <1>1, <1>4, <2>1 DEF TodoRight
<1>9. SlotsApart'
  <2>1. \A k \in BucketKeys : \A i \in DOMAIN buckets'[k] :
           i \in DOMAIN buckets[k] /\ buckets'[k][i] = buckets[k][i]
      BY <1>5
  <2> QED BY <2>1 DEF SlotsApart, BucketInv
<1>10. ASSUME NEW k \in BucketKeys, NEW i \in DOMAIN buckets'[k]
       PROVE  RootOf[buckets'[k][i].obj] = RootOfKey(k) /\ ~Awaited(buckets[k][i].obj)'
              /\ buckets'[k] = buckets[k] /\ RootOfKey(k) # root
  <2>1. buckets'[k] = buckets[k] /\ RootOfKey(k) # root
      BY <1>5, <1>10
  <2>2. PICK o \in Obj : o = buckets[k][i].obj
      BY <1>2, <1>10, <2>1, SlotFacts
  <2>3. RootOf[o] = RootOfKey(k)
      BY <1>10, <2>1, <2>2 DEF BucketInv, SlotsRooted
  <2>4. ASSUME NEW j \in DOMAIN todo', todo'[j] \in Chain[o] PROVE FALSE
      BY <1>4, <2>1, <2>3, <2>4, ChainRoot
  <2> QED BY <2>1, <2>2, <2>3, <2>4 DEF Awaited
<1>11. SlotsRooted'
    BY <1>10 DEF SlotsRooted, Awaited
<1>12. TargetsOwnTheirSlots'
  <2> SUFFICES ASSUME NEW t \in targets'
               PROVE  t.at \in DOMAIN buckets'[t.key] /\ buckets'[t.key][t.at].obj = t.obj
      BY DEF TargetsOwnTheirSlots
  <2>1. t \in targets /\ RootOfKey(t.key) # root /\ t.key \in BucketKeys
      BY <1>1, <1>2 DEF BucketTypes
  <2>2. buckets'[t.key] = buckets[t.key]
      BY <1>5, <2>1
  <2> QED BY <2>1, <2>2 DEF BucketInv, TargetsOwnTheirSlots
<1>13. WalkHeard'
    BY <1>1 DEF BucketInv, WalkHeard, Walks
<1>14. PictureOf(root)'
  <2>1. SlotsRight(root)'
      BY <1>1, <1>5 DEF SlotsRight
  <2>2. AllThere(root)'
    <3> SUFFICES ASSUME NEW o \in Obj, RootOf[o] = root, Seen(o)' PROVE Awaited(o)'
        BY <1>1 DEF AllThere
    <3>1. InTree(o)
        BY <1>1, StillLooks DEF Seen
    <3> QED BY <1>1, <3>1 DEF InTree, Awaited
  <2>3. TodoReached(root)'
    <3> SUFFICES ASSUME NEW j \in DOMAIN todo' PROVE Visitable(todo[j])'
        BY DEF TodoReached
    <3>1. PICK o \in Top : o = todo'[j]
        BY <1>4
    <3>2. o \in Obj /\ Chain[o] = {o} /\ RootOf[o] = root
        BY <1>4, <3>1, ChainTop
    <3>3. InTree(o)
        BY <1>1, <3>1, <3>2 DEF InTree
    <3>4. Visitable(o)
        BY <3>2, <3>3 DEF Visitable
    <3>5. Visitable(o)'
        BY <1>1, <3>2, <3>4, StillLooks
    <3> QED BY <3>1, <3>5 DEF Visitable
  <2> QED BY <1>1, <2>1, <2>2, <2>3 DEF PictureOf
<1>15. ASSUME NEW r \in Roots, r # root, Reliable(r)'
       PROVE  PictureOf(r)'
  <2>1. PictureOf(r)
      BY <1>1, <1>15 DEF Reliable, Walks, BucketInv, PictureRight
  <2>2. SlotsRight(r)'
    <3> SUFFICES ASSUME NEW k \in BucketKeys, RootOfKey(k) = r, NEW i \in DOMAIN buckets'[k]
                 PROVE  SlotRight(k, i)'
        BY DEF SlotsRight
    <3>1. buckets'[k] = buckets[k] /\ SlotRight(k, i)
        BY <1>5, <1>15, <2>1 DEF PictureOf, SlotsRight
    <3>2. \A t \in targets : t.key = k => t \in targets'
        BY <1>1, <1>15
    <3> QED BY <1>1, <1>2, <3>1, <3>2, StillRight
  <2>3. AllThere(r)'
    <3> SUFFICES ASSUME NEW o \in Obj, RootOf[o] = r, Seen(o)' PROVE HasSlot(o)'
        BY DEF AllThere
    <3>1. Seen(o)
        BY <1>1, StillLooks
    <3>2. HasSlot(o)
        BY <1>2, <2>1, <3>1 DEF PictureOf, AllThere, Awaited
    <3>3. PICK k \in BucketKeys : \E i \in DOMAIN buckets[k] : buckets[k][i].obj = o
        BY <3>2 DEF HasSlot
    <3>4. PICK i \in DOMAIN buckets[k] : buckets[k][i].obj = o
        BY <3>3
    <3>5. RootOfKey(k) = r
        BY <3>4 DEF BucketInv, SlotsRooted
    <3>6. buckets'[k] = buckets[k]
        BY <1>5, <1>15, <3>5
    <3> QED BY <3>4, <3>6 DEF HasSlot
  <2>4. TodoReached(r)'
      BY <1>1, <1>15 DEF TodoReached, Walks
  <2> QED BY <2>2, <2>3, <2>4 DEF PictureOf
<1>16. PictureRight'
    BY <1>1, <1>14, <1>15 DEF PictureRight
<1> QED BY <1>6, <1>7, <1>8, <1>9, <1>11, <1>12, <1>13, <1>16 DEF BucketInv

Kept(k, i) ==
    i \in DOMAIN buckets[k] /\ i \in DOMAIN buckets'[k] /\ buckets'[k][i] = buckets[k][i]
Added(x, k, i) ==
    /\ Drawn(x) /\ k = BucketKey(x) /\ i = Len(buckets[k]) + 1
    /\ i \in DOMAIN buckets'[k] /\ buckets'[k][i] = SlotOf(x)

LEMMA VisitSlots ==
  ASSUME BucketTypes, Visit
  PROVE  LET x == Head(todo)
             at == Len(buckets[BucketKey(x)]) + 1
             new == [obj |-> x, key |-> BucketKey(x), at |-> at]
         IN /\ buckets' \in [BucketKeys -> Seq(Slot)]
            /\ \A k \in BucketKeys : \A i \in DOMAIN buckets'[k] : Kept(k, i) \/ Added(x, k, i)
            /\ \A k \in BucketKeys : \A i \in DOMAIN buckets[k] : Kept(k, i)
            /\ Drawn(x) => BucketKey(x) \in BucketKeys /\ Added(x, BucketKey(x), at)
            /\ targets \subseteq targets'
            /\ \A t \in targets' : t \in targets \/ (Drawn(x) /\ t = new)
            /\ Drawn(x) /\ Moves(x) => new \in targets'
            /\ Drawn(x) => at \in Nat \ {0}
<1> DEFINE x == Head(todo)
           k0 == BucketKey(x)
           at == Len(buckets[k0]) + 1
           new == [obj |-> x, key |-> k0, at |-> at]
<1>1. CASE Drawn(x)
  <2>1. /\ k0 \in BucketKeys /\ Gains(k0, SlotOf(x)) /\ at \in Nat \ {0}
        /\ targets' = IF Moves(x) THEN targets \cup {new} ELSE targets
      BY <1>1, VisitDraws
  <2> HIDE DEF new, x
  <2>2. /\ buckets' \in [BucketKeys -> Seq(Slot)]
        /\ \A l \in BucketKeys : l # k0 => buckets'[l] = buckets[l]
        /\ DOMAIN buckets'[k0] = DOMAIN buckets[k0] \cup {at}
        /\ \A i \in DOMAIN buckets[k0] : buckets'[k0][i] = buckets[k0][i]
        /\ buckets'[k0][at] = SlotOf(x)
      BY <2>1 DEF Gains
  <2> HIDE DEF k0, at
  <2>3. Added(x, k0, at)
      BY <1>1, <2>2 DEF Added, k0, at
  <2>4. ASSUME NEW k \in BucketKeys, NEW i \in DOMAIN buckets[k]
        PROVE  Kept(k, i)
    <3>1. CASE k = k0
        BY <2>2, <2>4, <3>1 DEF Kept
    <3>2. CASE k # k0
        BY <2>2, <2>4, <3>2 DEF Kept
    <3> QED BY <3>1, <3>2
  <2>5. ASSUME NEW k \in BucketKeys, NEW i \in DOMAIN buckets'[k]
        PROVE  Kept(k, i) \/ Added(x, k, i)
    <3>1. CASE k = k0
      <4>1. i \in DOMAIN buckets[k0] \/ i = at
          BY <2>2, <2>5, <3>1
      <4> QED BY <2>3, <2>4, <2>5, <3>1, <4>1
    <3>2. CASE k # k0
        BY <2>2, <2>4, <2>5, <3>2
    <3> QED BY <3>1, <3>2
  <2>6. /\ targets \subseteq targets'
        /\ \A t \in targets' : t \in targets \/ t = new
        /\ Moves(x) => new \in targets'
      BY <2>1
  <2> QED BY <1>1, <2>1, <2>2, <2>3, <2>4, <2>5, <2>6 DEF x, k0, at, new
<1>2. CASE ~Drawn(x)
  <2>1. UNCHANGED <<buckets, targets>>
      BY <1>2 DEF Visit
  <2> QED BY <1>2, <2>1 DEF BucketTypes, Kept
<1> QED BY <1>1, <1>2

LEMMA VisitKeeps ==
  ASSUME BucketInv, Visit
  PROVE  BucketInv'
<1> DEFINE x == Head(todo)
           at == Len(buckets[BucketKey(x)]) + 1
           new == [obj |-> x, key |-> BucketKey(x), at |-> at]
<1>1. walkPc = "walk" /\ UNCHANGED <<tops, prop, edits, stale, heard, walkPc, root, overlap>>
    BY DEF Visit
<1>2. /\ BucketTypes /\ TodoRight /\ TopsRight /\ SlotsApart /\ SlotsRooted /\ TargetsOwnTheirSlots
      /\ WalkHeard /\ PictureRight
    BY DEF BucketInv
<1>3. x \in Obj /\ x = todo[1] /\ 1 \in DOMAIN todo /\ todo' \in Seq(Obj)
      /\ \E n \in Nat : \A j \in DOMAIN todo' : IsChild(x, j) \/ IsRest(n, j)
    BY <1>2, VisitTodo
<1>4. /\ TodoRight'
      /\ \A o \in Obj : Awaited(o)' => Awaited(o) /\ o # x
      /\ \A o \in Obj : Awaited(o) /\ o # x /\ ~(x \in Chain[o] /\ Cut(x)) => Awaited(o)'
    BY <1>2, VisitKeepsTodo
<1>5. /\ buckets' \in [BucketKeys -> Seq(Slot)]
      /\ \A k \in BucketKeys : \A i \in DOMAIN buckets'[k] : Kept(k, i) \/ Added(x, k, i)
      /\ \A k \in BucketKeys : \A i \in DOMAIN buckets[k] : Kept(k, i)
      /\ Drawn(x) => BucketKey(x) \in BucketKeys /\ Added(x, BucketKey(x), at)
      /\ targets \subseteq targets'
      /\ \A t \in targets' : t \in targets \/ (Drawn(x) /\ t = new)
      /\ Drawn(x) /\ Moves(x) => new \in targets'
      /\ Drawn(x) => at \in Nat \ {0}
    BY <1>2, VisitSlots
<1>6. PICK z \in Obj : z = x
    BY <1>3
<1>7. Awaited(z) /\ RootOf[z] = root /\ Walks(root)
    BY <1>1, <1>2, <1>3, <1>6, ChainFacts DEF Awaited, TodoRight, Walks
<1>8. /\ SlotOf(z) \in Slot /\ SlotOf(z).obj = z /\ SlotOf(z).faces = FacesOf(z)
      /\ Drawn(z) => RootOfKey(BucketKey(z)) = RootOf[z]
    BY <1>2, SlotType, DrawnKey
<1> HIDE DEF x
<1>9. BucketTypes'
  <2>1. \A t \in targets' : t \in [obj : Obj, key : BucketKeys, at : Nat \ {0}]
      BY <1>2, <1>3, <1>5 DEF BucketTypes
  <2> HIDE DEF new, at
  <2> QED BY <1>1, <1>2, <1>3, <1>5, <2>1 DEF BucketTypes
<1>10. TopsRight' /\ WalkHeard'
    BY <1>1, <1>2 DEF TopsRight, WalkHeard, Walks
<1>11. \A k \in BucketKeys : \A i \in DOMAIN buckets[k] : buckets[k][i].obj # z
    BY <1>2, <1>7 DEF SlotsRooted
<1>12. SlotsApart'
  <2> SUFFICES ASSUME NEW k \in BucketKeys, NEW l \in BucketKeys,
                      NEW i \in DOMAIN buckets'[k], NEW j \in DOMAIN buckets'[l],
                      buckets'[k][i].obj = buckets'[l][j].obj
               PROVE  k = l /\ i = j
      BY DEF SlotsApart
  <2>1. CASE Kept(k, i) /\ Kept(l, j)
      BY <1>2, <2>1 DEF Kept, SlotsApart
  <2>2. CASE Kept(k, i) /\ Added(x, l, j)
      BY <1>6, <1>8, <1>11, <2>2 DEF Kept, Added
  <2>3. CASE Added(x, k, i) /\ Kept(l, j)
      BY <1>6, <1>8, <1>11, <2>3 DEF Kept, Added
  <2>4. CASE Added(x, k, i) /\ Added(x, l, j)
      BY <2>4 DEF Added
  <2> QED BY <1>5, <2>1, <2>2, <2>3, <2>4
<1>13. SlotsRooted'
  <2> SUFFICES ASSUME NEW k \in BucketKeys, NEW i \in DOMAIN buckets'[k]
               PROVE  RootOf[buckets'[k][i].obj] = RootOfKey(k) /\ ~Awaited(buckets[k][i].obj)'
      BY DEF SlotsRooted, Awaited
  <2>1. CASE Kept(k, i)
    <3>1. PICK o \in Obj : o = buckets[k][i].obj
        BY <1>2, <2>1, SlotFacts DEF Kept
    <3>2. RootOf[o] = RootOfKey(k) /\ ~Awaited(o)
        BY <1>2, <2>1, <3>1 DEF Kept, SlotsRooted
    <3>3. ~Awaited(o)'
        BY <1>4, <3>2
    <3> QED BY <2>1, <3>1, <3>2, <3>3 DEF Kept, Awaited
  <2>2. CASE Added(x, k, i)
    <3>1. ~Awaited(z)'
        BY <1>4, <1>6
    <3>2. buckets'[k][i].obj = z /\ RootOf[z] = RootOfKey(k)
        BY <1>6, <1>8, <2>2 DEF Added
    <3> QED BY <3>1, <3>2 DEF Awaited
  <2> QED BY <1>5, <2>1, <2>2
<1>14. TargetsOwnTheirSlots'
  <2> SUFFICES ASSUME NEW t \in targets'
               PROVE  t.at \in DOMAIN buckets'[t.key] /\ buckets'[t.key][t.at].obj = t.obj
      BY DEF TargetsOwnTheirSlots
  <2>1. CASE t \in targets
    <3>1. t.key \in BucketKeys /\ t.at \in DOMAIN buckets[t.key] /\ buckets[t.key][t.at].obj = t.obj
        BY <1>2, <2>1 DEF BucketTypes, TargetsOwnTheirSlots
    <3> QED BY <1>5, <3>1 DEF Kept
  <2>2. CASE Drawn(x) /\ t = new
    <3>1. t.key = BucketKey(x) /\ t.at = at /\ t.obj = x
        BY <2>2
    <3>2. Added(x, BucketKey(x), at)
        BY <1>5, <2>2
    <3> HIDE DEF new, at
    <3> QED BY <1>6, <1>8, <3>1, <3>2 DEF Added
  <2> QED BY <1>5, <2>1, <2>2
<1>15. ASSUME NEW r \in Roots, Reliable(r)'
       PROVE  PictureOf(r)'
  <2>1. PictureOf(r)
      BY <1>1, <1>2, <1>15 DEF Reliable, Walks, PictureRight
  <2>2. r = root => Visitable(z)
      BY <1>3, <1>6, <1>7, <2>1 DEF PictureOf, TodoReached
  <2>3. SlotsRight(r)'
    <3> SUFFICES ASSUME NEW k \in BucketKeys, RootOfKey(k) = r, NEW i \in DOMAIN buckets'[k]
                 PROVE  SlotRight(k, i)'
        BY DEF SlotsRight
    <3>1. CASE Kept(k, i)
      <4>1. SlotRight(k, i)
          BY <2>1, <3>1 DEF PictureOf, SlotsRight, Kept
      <4> QED BY <1>1, <1>2, <1>5, <3>1, <4>1, StillRight DEF Kept
    <3>2. CASE Added(x, k, i)
      <4>1. Drawn(z) /\ k = BucketKey(z) /\ i = at /\ r = root
          BY <1>6, <1>7, <1>8, <3>2 DEF Added
      <4>2. Seen(z)
          BY <2>2, <4>1 DEF Visitable, Seen
      <4>3. Moves(z) => [obj |-> z, key |-> k, at |-> i] \in targets'
          BY <1>5, <1>6, <4>1
      <4>4. buckets'[k][i].obj = z /\ buckets'[k][i].faces = FacesOf(z)
          BY <1>6, <1>8, <3>2 DEF Added
      <4>5. /\ Seen(z)' /\ k = BucketKey(z)' /\ buckets'[k][i].faces = FacesOf(z)'
            /\ Moves(z)' => [obj |-> z, key |-> k, at |-> i] \in targets'
          BY <1>1, <4>1, <4>2, <4>3, <4>4, StillLooks
      <4> QED BY <4>4, <4>5 DEF SlotRight
    <3> QED BY <1>5, <3>1, <3>2
  <2>4. AllThere(r)'
    <3> SUFFICES ASSUME NEW o \in Obj, RootOf[o] = r, Seen(o)' PROVE HasSlot(o)' \/ Awaited(o)'
        BY DEF AllThere
    <3>1. Seen(o)
        BY <1>1, StillLooks
    <3>2. CASE HasSlot(o)
        BY <1>5, <3>2 DEF HasSlot, Kept
    <3>3. CASE o = x
      <4>1. Drawn(x)
          BY <3>1, <3>3 DEF Seen
      <4>2. BucketKey(x) \in BucketKeys /\ Added(x, BucketKey(x), at)
          BY <1>5, <4>1
      <4> HIDE DEF at
      <4>3. at \in DOMAIN buckets'[BucketKey(x)] /\ buckets'[BucketKey(x)][at].obj = o
          BY <1>6, <1>8, <3>3, <4>2 DEF Added
      <4>4. PICK k \in BucketKeys : k = BucketKey(x)
          BY <4>2
      <4>5. \E i \in DOMAIN buckets'[k] : buckets'[k][i].obj = o
          BY <4>3, <4>4
      <4> QED BY <4>5 DEF HasSlot
    <3>4. CASE Awaited(o) /\ o # x
      <4>1. ~(x \in Chain[o] /\ Cut(x))
          BY <3>1, <3>4 DEF Seen
      <4> QED BY <1>4, <3>4, <4>1
    <3> QED BY <2>1, <3>1, <3>2, <3>3, <3>4 DEF PictureOf, AllThere
  <2>5. TodoReached(r)'
    <3> SUFFICES ASSUME Walks(r), NEW j \in DOMAIN todo' PROVE Visitable(todo[j])'
        BY <1>1 DEF TodoReached, Walks
    <3>1. PICK o \in Obj : o = todo'[j]
        BY <1>3
    <3>2. r = root /\ TodoReached(r)
        BY <2>1 DEF Walks, PictureOf
    <3>3. ASSUME IsChild(x, j) PROVE Visitable(o)
      <4>1. /\ o \in Obj /\ Chain[o] = {o} \cup Chain[z] /\ ~Cut(z) /\ z \in Chain[z]
            /\ RootOf[o] = RootOf[z]
        <5>1. Chain[o] = {o} \cup Chain[z] /\ ~Cut(z)
            BY <1>6, <3>1, <3>3, BranchFacts DEF IsChild
        <5> QED BY <5>1, ChainFacts, ChainRoot
      <4>2. Visitable(z)
          BY <2>2, <3>2
      <4>3. InTree(o)
          BY <4>1, <4>2, BelowInTree DEF Visitable
      <4>4. \A a \in Chain[o] \ {o} : ~Cut(a)
          BY <4>1, <4>2 DEF Visitable
      <4> QED BY <4>3, <4>4 DEF Visitable
    <3>4. ASSUME NEW n \in Nat, IsRest(n, j)
          PROVE  Visitable(o)
        BY <3>1, <3>2, <3>4 DEF IsRest, TodoReached
    <3>5. Visitable(o)
      <4>1. PICK n \in Nat : \A i \in DOMAIN todo' : IsChild(x, i) \/ IsRest(n, i)
          BY <1>3
      <4>2. IsChild(x, j) \/ IsRest(n, j)
          BY <4>1
      <4> QED BY <3>3, <3>4, <4>2
    <3>6. Visitable(o)'
        BY <1>1, <3>5, StillLooks
    <3> QED BY <3>1, <3>6 DEF Visitable
  <2> QED BY <2>3, <2>4, <2>5 DEF PictureOf
<1>16. PictureRight'
    BY <1>15 DEF PictureRight
<1> QED BY <1>4, <1>9, <1>10, <1>12, <1>13, <1>14, <1>16 DEF BucketInv

(* A frame rewrites the places of the slots that are targeted, no more.     *)
Targeted(k, i) == [obj |-> buckets[k][i].obj, key |-> k, at |-> i] \in targets

LEMMA SeqOfFunction ==
  ASSUME NEW S, NEW n \in Nat, NEW f \in [1 .. n -> S]
  PROVE  f \in Seq(S) /\ Len(f) = n
<1>1. f \in Seq(S)
    BY SeqDef
<1>2. DOMAIN f = 1 .. n /\ DOMAIN f = 1 .. Len(f) /\ Len(f) \in Nat
    BY <1>1
<1> QED BY <1>1, <1>2

LEMMA UpdatedFacts ==
  ASSUME BucketTypes
  PROVE  LET bs == UpdateDynamicTransforms(buckets)
         IN /\ bs \in [BucketKeys -> Seq(Slot)]
            /\ \A k \in BucketKeys : Len(bs[k]) = Len(buckets[k])
            /\ \A k \in BucketKeys : DOMAIN bs[k] = DOMAIN buckets[k]
            /\ \A k \in BucketKeys : \A i \in DOMAIN buckets[k] :
                 /\ bs[k][i].obj = buckets[k][i].obj /\ bs[k][i].faces = buckets[k][i].faces
                 /\ Targeted(k, i) => bs[k][i].place = prop[Carrier(buckets[k][i].obj)].place
<1> DEFINE bs == UpdateDynamicTransforms(buckets)
           new(k, i) == IF Targeted(k, i) THEN InPlace(buckets[k][i]) ELSE buckets[k][i]
<1>1. bs = [k \in BucketKeys |-> [i \in DOMAIN buckets[k] |-> new(k, i)]]
    BY DEF UpdateDynamicTransforms, Targeted
<1>2. ASSUME NEW k \in BucketKeys, NEW i \in DOMAIN buckets[k]
      PROVE  /\ new(k, i) \in Slot
             /\ new(k, i).obj = buckets[k][i].obj /\ new(k, i).faces = buckets[k][i].faces
             /\ Targeted(k, i) => new(k, i).place = prop[Carrier(buckets[k][i].obj)].place
  <2>1. PICK s \in Slot : s = buckets[k][i] /\ s.obj \in Obj
      BY SlotFacts
  <2>2. PICK p \in Nat : p = prop[Carrier(s.obj)].place
      BY <2>1, CarrierFacts, PropFacts
  <2>3. InPlace(s) = [s EXCEPT !.place = p]
      BY <2>2 DEF InPlace
  <2>4. InPlace(s) \in Slot /\ InPlace(s).obj = s.obj /\ InPlace(s).faces = s.faces
        /\ InPlace(s).place = p
      BY <2>1, <2>3 DEF Slot
  <2> QED BY <2>1, <2>2, <2>4
<1> HIDE DEF new
<1>3. ASSUME NEW k \in BucketKeys
      PROVE  /\ bs[k] \in Seq(Slot) /\ Len(bs[k]) = Len(buckets[k]) /\ DOMAIN bs[k] = DOMAIN buckets[k]
             /\ \A i \in DOMAIN buckets[k] : bs[k][i] = new(k, i)
  <2>1. bs[k] = [i \in DOMAIN buckets[k] |-> new(k, i)]
      BY <1>1
  <2>2. PICK n \in Nat : n = Len(buckets[k]) /\ DOMAIN buckets[k] = 1 .. n
      BY DEF BucketTypes
  <2> HIDE DEF bs
  <2>3. bs[k] \in [1 .. n -> Slot]
      BY <1>2, <2>1, <2>2
  <2>4. bs[k] \in Seq(Slot) /\ Len(bs[k]) = n
      BY <2>3, SeqOfFunction
  <2> QED BY <2>1, <2>2, <2>4
<1>4. bs \in [BucketKeys -> Seq(Slot)]
  <2>1. DOMAIN bs = BucketKeys /\ bs = [k \in BucketKeys |-> bs[k]]
      BY <1>1
  <2> HIDE DEF bs
  <2> QED BY <1>3, <2>1
<1> HIDE DEF bs
<1> QED BY <1>2, <1>3, <1>4 DEF bs

LEMMA DrawKeeps ==
  ASSUME BucketInv, DrawFrame
  PROVE  BucketInv'
<1>1. /\ walkPc = "draw" /\ walkPc' = "check"
      /\ UNCHANGED <<tops, prop, edits, stale, heard, root, todo, targets, overlap>>
      /\ buckets' = UpdateDynamicTransforms(buckets)
    BY DEF DrawFrame
<1>2. /\ BucketTypes /\ TopsRight /\ TodoRight /\ SlotsApart /\ SlotsRooted /\ TargetsOwnTheirSlots
      /\ WalkHeard /\ PictureRight
    BY DEF BucketInv
<1>3. todo = <<>>
    BY <1>1, <1>2 DEF TodoRight
<1>4. /\ buckets' \in [BucketKeys -> Seq(Slot)]
      /\ \A k \in BucketKeys : DOMAIN buckets'[k] = DOMAIN buckets[k]
      /\ \A k \in BucketKeys : \A i \in DOMAIN buckets[k] :
           buckets'[k][i].obj = buckets[k][i].obj /\ buckets'[k][i].faces = buckets[k][i].faces
    BY <1>1, <1>2, UpdatedFacts
<1>5. BucketTypes' /\ TopsRight' /\ TodoRight' /\ WalkHeard'
    BY <1>1, <1>2, <1>4 DEF BucketTypes, TopsRight, TodoRight, WalkHeard, Walks
<1>6. SlotsApart'
    BY <1>2, <1>4 DEF SlotsApart
<1>7. SlotsRooted'
    BY <1>1, <1>2, <1>4 DEF SlotsRooted, Awaited
<1>8. TargetsOwnTheirSlots'
    BY <1>1, <1>2, <1>4 DEF TargetsOwnTheirSlots, BucketTypes
<1>9. ASSUME NEW r \in Roots, Reliable(r)'
      PROVE  PictureOf(r)'
  <2>1. PictureOf(r)
      BY <1>1, <1>2, <1>9 DEF Reliable, Walks, PictureRight
  <2>2. SlotsRight(r)'
    <3> SUFFICES ASSUME NEW k \in BucketKeys, RootOfKey(k) = r, NEW i \in DOMAIN buckets'[k]
                 PROVE  SlotRight(k, i)'
        BY DEF SlotsRight
    <3>1. SlotRight(k, i)
        BY <1>4, <2>1 DEF PictureOf, SlotsRight
    <3> QED BY <1>1, <1>2, <1>4, <3>1, StillRight
  <2>3. AllThere(r)'
    <3> SUFFICES ASSUME NEW o \in Obj, RootOf[o] = r, Seen(o)' PROVE HasSlot(o)'
        BY DEF AllThere
    <3>1. Seen(o)
        BY <1>1, StillLooks
    <3>2. HasSlot(o)
        BY <1>3, <2>1, <3>1 DEF PictureOf, AllThere, Awaited
    <3> QED BY <1>4, <3>2 DEF HasSlot
  <2>4. TodoReached(r)'
      BY <1>1 DEF TodoReached, Walks
  <2> QED BY <2>2, <2>3, <2>4 DEF PictureOf
<1> QED BY <1>5, <1>6, <1>7, <1>8, <1>9 DEF BucketInv, PictureRight

LEMMA StillPicture ==
  ASSUME BucketInv, UNCHANGED bucketVars, NEW r \in Roots, PictureOf(r)
  PROVE  PictureOf(r)'
<1>1. UNCHANGED <<tops, prop, walkPc, root, todo, buckets, targets>>
    BY DEF bucketVars
<1>2. BucketTypes /\ SlotsRooted /\ TodoRight
    BY DEF BucketInv
<1>3. Untouched(r)
    BY <1>1 DEF Untouched, LooksSame
<1>4. SlotsRight(r)' /\ AllThere(r)'
    BY <1>1, <1>2, <1>3, UntouchedSlots
<1>5. TodoReached(r)'
  <2> SUFFICES ASSUME Walks(r), NEW j \in DOMAIN todo PROVE Visitable(todo[j])'
      BY <1>1 DEF TodoReached, Walks
  <2>1. PICK o \in Obj : o = todo[j]
      BY <1>2 DEF BucketTypes
  <2>2. Visitable(o)
      BY <2>1 DEF PictureOf, TodoReached
  <2>3. Visitable(o)'
      BY <1>1, <2>2, StillLooks
  <2>4. todo'[j] = o
      BY <1>1, <2>1
  <2> QED BY <2>3, <2>4 DEF Visitable
<1> QED BY <1>4, <1>5 DEF PictureOf

LEMMA NextKeepsBuckets == BucketInv /\ [BucketsNext]_bucketVars => BucketInv'
<1> SUFFICES ASSUME BucketInv, [BucketsNext]_bucketVars PROVE BucketInv'
    OBVIOUS
<1>1. CASE RebuildBegin
    BY <1>1, BeginKeeps
<1>2. CASE Visit
    BY <1>2, VisitKeeps
<1>3. CASE RebuildEnd \/ NothingToRebuild \/ SkipFrame
    BY <1>3, EndKeeps
<1>4. CASE DrawFrame
    BY <1>4, DrawKeeps
<1>5. ASSUME NEW o \in Top, PutIn(o) \/ TakeOut(o)
      PROVE  BucketInv'
    BY <1>5, PutInKeeps, TakeOutKeeps
<1>6. ASSUME NEW e \in Edit, IF e.field = "place" THEN MoveSilently(e) ELSE SetProperty(e)
      PROVE  BucketInv'
    BY <1>6, MoveSilentlyKeeps, SetPropertyKeeps
<1>7. CASE UNCHANGED bucketVars
  <2>1. /\ UNCHANGED <<tops, prop, edits, stale, heard, walkPc, root>>
        /\ UNCHANGED <<todo, buckets, targets, overlap>>
      BY <1>7 DEF bucketVars
  <2>2. BucketTypes' /\ TopsRight' /\ TodoRight' /\ WalkHeard'
      BY <2>1 DEF BucketInv, BucketTypes, TopsRight, TodoRight, WalkHeard, Walks
  <2>3. SlotsApart' /\ SlotsRooted' /\ TargetsOwnTheirSlots'
      BY <2>1 DEF BucketInv, SlotsApart, SlotsRooted, TargetsOwnTheirSlots, Awaited
  <2>4. ASSUME NEW r \in Roots, Reliable(r)' PROVE PictureOf(r)'
      BY <1>7, <2>1, <2>4, StillPicture DEF BucketInv, PictureRight, Reliable, Walks
  <2> QED BY <2>2, <2>3, <2>4 DEF BucketInv, PictureRight
<1> QED BY <1>1, <1>2, <1>3, <1>4, <1>5, <1>6, <1>7 DEF BucketsNext

LEMMA BucketInvAlways == BucketsSpec => []BucketInv
<1>1. BucketsInit => BucketInv
    BY InitBuckets
<1>2. BucketInv /\ [BucketsNext]_bucketVars => BucketInv'
    BY NextKeepsBuckets
<1> QED BY <1>1, <1>2, PTL DEF BucketsSpec

(* What the tree shows is where it is to be.                                *)
LEMMA WhereIs ==
  ASSUME NEW o
  PROVE  /\ \A w \in Where(o) : \E k \in BucketKeys : \E i \in DOMAIN buckets[k] :
              w = <<k, i>> /\ buckets[k][i].obj = o
         /\ \A k \in BucketKeys : \A i \in DOMAIN buckets[k] :
              buckets[k][i].obj = o => <<k, i>> \in Where(o)
BY DEF Where

LEMMA BucketsMatch == BucketInv => BucketsMatchTree
<1> SUFFICES ASSUME BucketInv, NEW o \in Obj, Current(RootOf[o]),
                    ~(walkPc = "walk" /\ root = RootOf[o])
             PROVE  IF Seen(o)
                    THEN \E i \in DOMAIN buckets[BucketKey(o)] :
                           /\ Where(o) = {<<BucketKey(o), i>>}
                           /\ buckets[BucketKey(o)][i].faces = FacesOf(o)
                    ELSE Where(o) = {}
    BY DEF BucketsMatchTree
<1>1. PICK r \in Roots : r = RootOf[o]
    BY ObjectsAssumption DEF ObjectsAssumption
<1>2. PictureOf(r) /\ BucketTypes /\ SlotsApart /\ SlotsRooted /\ TodoRight
    BY <1>1 DEF BucketInv, PictureRight, Current, Reliable
<1>3. ~Awaited(o)
  <2> SUFFICES ASSUME Awaited(o) PROVE FALSE
      OBVIOUS
  <2>1. PICK j \in DOMAIN todo : todo[j] \in Chain[o]
      BY DEF Awaited
  <2>2. walkPc = "walk"
      BY <1>2 DEF TodoRight
  <2>3. RootOf[todo[j]] = RootOf[o]
      BY <2>1, ChainRoot
  <2> QED BY <1>2, <2>2, <2>3 DEF TodoRight
<1>4. ASSUME NEW k \in BucketKeys, NEW i \in DOMAIN buckets[k], buckets[k][i].obj = o
      PROVE  Seen(o) /\ k = BucketKey(o) /\ buckets[k][i].faces = FacesOf(o)
  <2>1. RootOfKey(k) = r
      BY <1>1, <1>2, <1>4 DEF SlotsRooted
  <2>2. SlotRight(k, i)
      BY <1>2, <2>1 DEF PictureOf, SlotsRight
  <2> QED BY <1>4, <2>2 DEF SlotRight
<1>5. CASE ~Seen(o)
  <2>1. \A w \in Where(o) : FALSE
      BY <1>4, <1>5, WhereIs
  <2> QED BY <1>5, <2>1
<1>6. CASE Seen(o)
  <2>1. HasSlot(o)
      BY <1>1, <1>2, <1>3, <1>6 DEF PictureOf, AllThere
  <2>2. PICK k \in BucketKeys : \E i \in DOMAIN buckets[k] : buckets[k][i].obj = o
      BY <2>1 DEF HasSlot
  <2>3. PICK i \in DOMAIN buckets[k] : buckets[k][i].obj = o
      BY <2>2
  <2>4. k = BucketKey(o) /\ buckets[k][i].faces = FacesOf(o)
      BY <1>4, <2>3
  <2>5. \A w \in Where(o) : w = <<k, i>>
    <3> TAKE w \in Where(o)
    <3>1. PICK l \in BucketKeys :
             \E j \in DOMAIN buckets[l] : w = <<l, j>> /\ buckets[l][j].obj = o
        BY WhereIs
    <3>2. PICK j \in DOMAIN buckets[l] : w = <<l, j>> /\ buckets[l][j].obj = o
        BY <3>1
    <3> QED BY <1>2, <2>3, <3>2 DEF SlotsApart
  <2>6. <<k, i>> \in Where(o)
      BY <2>3, WhereIs
  <2> QED BY <1>6, <2>4, <2>5, <2>6
<1> QED BY <1>5, <1>6

(* Every finite set has an arrangement: its element of least rank goes last. *)
LEMMA FromZeroOn ==
    ASSUME NEW S, 0 \in S, \A k \in Nat : k \in S => k + 1 \in S
    PROVE  \A k \in Nat : k \in S
<1> DEFINE T == {k \in Nat : k \notin S}
<1>1. SUFFICES ASSUME T # {} PROVE FALSE
    OBVIOUS
<1>2. PICK x \in T : \A y \in T : x <= y
    BY <1>1, HasLeast
<1>3. x \in Nat /\ x \notin S /\ x # 0
    BY <1>2
<1>4. x - 1 \in Nat /\ ~(x <= x - 1) /\ (x - 1) + 1 = x
    BY <1>3
<1>5. x - 1 \in S
    BY <1>2, <1>4
<1> QED BY <1>3, <1>4, <1>5

LEMMA LeastRanked ==
  ASSUME NEW T, T # {}, NEW rank, \A x \in T : rank[x] \in Nat
  PROVE  \E x \in T : \A y \in T : rank[y] >= rank[x]
<1> DEFINE R == {rank[x] : x \in T}
<1>1. R \in SUBSET Nat /\ R # {}
    OBVIOUS
<1>2. PICK m \in R : \A n \in R : m <= n
    BY <1>1, HasLeast
<1>3. PICK x \in T : m = rank[x]
    BY <1>2
<1>4. \A y \in T : rank[y] >= rank[x]
    BY <1>2, <1>3
<1> QED BY <1>4

LEMMA ArrangeOneMore ==
  ASSUME NEW n \in Nat, NEW T, NEW x \in T, NEW rank, \A y \in T : rank[y] \in Nat,
         \A y \in T : rank[y] >= rank[x],
         Cardinality(T) = n + 1, Cardinality(T \ {x}) = n,
         NEW f, Arranges(f, T \ {x}, rank)
  PROVE  \E g : Arranges(g, T, rank)
<1>1. /\ f \in [1 .. n -> T \ {x}] /\ Range(f) = T \ {x}
      /\ \A i, j \in DOMAIN f : i < j => rank[f[i]] >= rank[f[j]]
    BY DEF Arranges
<1> DEFINE g == [i \in 1 .. n + 1 |-> IF i <= n THEN f[i] ELSE x]
<1>2. /\ DOMAIN g = 1 .. n + 1 /\ DOMAIN f = 1 .. n /\ g[n + 1] = x
      /\ \A i \in 1 .. n : g[i] = f[i] /\ f[i] \in T \ {x} /\ i \in 1 .. n + 1
      /\ n + 1 \in 1 .. n + 1
      /\ \A i \in 1 .. n + 1 : i \in 1 .. n \/ i = n + 1
    BY <1>1
<1>3. g \in [1 .. n + 1 -> T]
    BY <1>1
<1> HIDE DEF g
<1>4. Range(g) = T
  <2>1. \A y \in T : \E i \in DOMAIN g : y = g[i]
    <3> TAKE y \in T
    <3>1. CASE y = x
        BY <1>2, <3>1
    <3>2. CASE y # x
      <4>1. y \in Range(f)
          BY <1>1, <3>2
      <4>2. PICK i \in DOMAIN f : y = f[i]
          BY <4>1 DEF Range
      <4> QED BY <1>2, <4>2
    <3> QED BY <3>1, <3>2
  <2> QED BY <1>2, <1>3, <2>1 DEF Range
<1>5. ASSUME NEW i \in DOMAIN g, NEW j \in DOMAIN g, i < j
      PROVE  rank[g[i]] >= rank[g[j]]
  <2>1. i \in 1 .. n
      BY <1>2, <1>5
  <2>2. CASE j \in 1 .. n
      BY <1>1, <1>2, <1>5, <2>1, <2>2
  <2>3. CASE j = n + 1
      BY <1>2, <2>1, <2>3
  <2> QED BY <1>2, <2>2, <2>3
<1>6. Arranges(g, T, rank)
    BY <1>3, <1>4, <1>5 DEF Arranges
<1> QED BY <1>6

LEMMA ArrangementIs ==
  ASSUME NEW S, IsFiniteSet(S), NEW rank, \A x \in S : rank[x] \in Nat
  PROVE  Arranges(Arranged(S, rank), S, rank)
<1> DEFINE P == {n \in Nat : \A T \in SUBSET S :
                               Cardinality(T) = n => \E f : Arranges(f, T, rank)}
<1>1. 0 \in P
  <2> SUFFICES ASSUME NEW T \in SUBSET S, Cardinality(T) = 0 PROVE \E f : Arranges(f, T, rank)
      OBVIOUS
  <2>1. T = {}
      BY FS_Subset, FS_EmptySet
  <2> DEFINE f == [i \in 1 .. 0 |-> i]
  <2>2. f \in [1 .. 0 -> {}] /\ DOMAIN f = {}
      OBVIOUS
  <2> HIDE DEF f
  <2>3. Range(f) = {}
      BY <2>2 DEF Range
  <2>4. Arranges(f, T, rank)
      BY <2>1, <2>2, <2>3 DEF Arranges
  <2> QED BY <2>4
<1>2. ASSUME NEW n \in Nat, n \in P
      PROVE  n + 1 \in P
  <2> SUFFICES ASSUME NEW T \in SUBSET S, Cardinality(T) = n + 1
               PROVE  \E f : Arranges(f, T, rank)
      OBVIOUS
  <2>1. IsFiniteSet(T) /\ T # {}
      BY FS_Subset, FS_EmptySet
  <2>2. PICK x \in T : \A y \in T : rank[y] >= rank[x]
      BY <2>1, LeastRanked
  <2>3. Cardinality(T \ {x}) = n
    <3>1. Cardinality(T \ {x}) = Cardinality(T) - 1
        BY <2>1, FS_RemoveElement
    <3> QED BY <3>1
  <2>4. PICK f : Arranges(f, T \ {x}, rank)
      BY <1>2, <2>3
  <2> QED BY <2>2, <2>3, <2>4, ArrangeOneMore
<1>3. \A n \in Nat : n \in P
  <2> HIDE DEF P
  <2> QED BY <1>1, <1>2, FromZeroOn
<1>4. Cardinality(S) \in Nat
    BY FS_CardinalityType
<1>5. PICK f : Arranges(f, S, rank)
    BY <1>3, <1>4
<1>6. \E g \in [1 .. Cardinality(S) -> S] : Arranges(g, S, rank)
    BY <1>5 DEF Arranges
<1> QED BY <1>6, Zenon DEF Arranged

(* Culling keeps the last of the arrangement by distance: the nearest.      *)
LEMMA RankFacts ==
  ASSUME NEW ss \in Seq(Slot)
  PROVE  /\ InReach(ss) \subseteq DOMAIN ss /\ IsFiniteSet(InReach(ss))
         /\ \A i \in DOMAIN ss : /\ Distance(ss)[i] = ss[i].place /\ Distance(ss)[i] \in Nat
                                 /\ BucketOrder(ss)[i] \in Nat
         /\ \A i \in InReach(ss) : ss[i].place <= Reach
<1>1. DOMAIN ss = 1 .. Len(ss) /\ Len(ss) \in Nat /\ \A i \in DOMAIN ss : ss[i] \in Slot
    OBVIOUS
<1>2. \A i \in DOMAIN ss : ss[i].place \in Nat
    BY <1>1 DEF Slot
<1>3. InReach(ss) \subseteq DOMAIN ss /\ \A i \in InReach(ss) : ss[i].place <= Reach
    BY DEF InReach
<1>4. IsFiniteSet(InReach(ss))
  <2>1. IsFiniteSet(1 .. Len(ss))
      BY <1>1, FS_Interval
  <2> QED BY <1>1, <1>3, <2>1, FS_Subset
<1>5. \A i \in DOMAIN ss : Distance(ss)[i] = ss[i].place
    BY DEF Distance
<1>6. \A i \in DOMAIN ss : BucketOrder(ss)[i] \in Nat
  <2> SUFFICES ASSUME NEW i \in DOMAIN ss PROVE Len(ss) - i \in Nat
      BY DEF BucketOrder
  <2> QED BY <1>1
<1> QED BY <1>2, <1>3, <1>4, <1>5, <1>6

LEMMA LastOnes ==
  ASSUME NEW n \in Nat, NEW m \in Nat
  PROVE  LET D == {j \in 1 .. n : n - j < m}
         IN IsFiniteSet(D) /\ Cardinality(D) <= m /\ (m <= n => Cardinality(D) = m)
<1> DEFINE D == {j \in 1 .. n : n - j < m}
<1>1. D \subseteq (n - m) + 1 .. n /\ (n - m) + 1 \in Int
    OBVIOUS
<1>2. /\ IsFiniteSet((n - m) + 1 .. n)
      /\ Cardinality((n - m) + 1 .. n) =
           IF (n - m) + 1 > n THEN 0 ELSE n - ((n - m) + 1) + 1
    BY <1>1, FS_Interval
<1>3. Cardinality((n - m) + 1 .. n) = m
    BY <1>2
<1>4. m <= n => D = (n - m) + 1 .. n
    OBVIOUS
<1> HIDE DEF D
<1>5. IsFiniteSet(D) /\ Cardinality(D) <= Cardinality((n - m) + 1 .. n)
    BY <1>1, <1>2, FS_Subset
<1> QED BY <1>3, <1>4, <1>5 DEF D

LEMMA NearestFacts ==
  ASSUME NEW ss \in Seq(Slot)
  PROVE  /\ Nearest(ss) \subseteq InReach(ss)
         /\ IsFiniteSet(Nearest(ss)) /\ Cardinality(Nearest(ss)) \in 0 .. MaxInstances
         /\ \A i \in Nearest(ss), j \in DOMAIN ss : j \in Nearest(ss) \/ ss[j].place >= ss[i].place
         /\ InReach(ss) \subseteq Nearest(ss) \/ Cardinality(Nearest(ss)) = MaxInstances
<1> DEFINE far == Arranged(InReach(ss), Distance(ss))
           n == Cardinality(InReach(ss))
           D == {j \in DOMAIN far : Len(far) - j < MaxInstances}
<1>1. /\ InReach(ss) \subseteq DOMAIN ss /\ IsFiniteSet(InReach(ss))
      /\ \A i \in DOMAIN ss : Distance(ss)[i] = ss[i].place /\ Distance(ss)[i] \in Nat
      /\ \A i \in InReach(ss) : ss[i].place <= Reach
    BY RankFacts
<1>2. Arranges(far, InReach(ss), Distance(ss))
    BY <1>1, ArrangementIs
<1>3. n \in Nat
    BY <1>1, FS_CardinalityType
<1>4. Nearest(ss) = {far[i] : i \in D}
    BY DEF Nearest
<1>5. far \in [1 .. n -> InReach(ss)] /\ Range(far) = InReach(ss)
      /\ \A i, j \in DOMAIN far : i < j => Distance(ss)[far[i]] >= Distance(ss)[far[j]]
    BY <1>2 DEF Arranges
<1>i. n = Cardinality(InReach(ss))
    OBVIOUS
<1> HIDE DEF far, n
<1>6. Len(far) = n /\ DOMAIN far = 1 .. n
    BY <1>3, <1>5, SeqOfFunction
<1>7. MaxInstances \in Nat /\ Reach \in Nat
    BY ObjectsAssumption DEF ObjectsAssumption
<1>8. D = {j \in 1 .. n : n - j < MaxInstances}
    BY <1>6
<1>9. /\ IsFiniteSet(D) /\ Cardinality(D) <= MaxInstances
      /\ MaxInstances <= n => Cardinality(D) = MaxInstances
    BY <1>3, <1>7, <1>8, LastOnes
<1>10. D \subseteq DOMAIN far
    OBVIOUS
<1> HIDE DEF D
<1>11. Nearest(ss) \subseteq InReach(ss)
    BY <1>4, <1>5, <1>6, <1>10
<1>12. IsFiniteSet(Nearest(ss)) /\ Cardinality(Nearest(ss)) <= Cardinality(D)
  <2> DEFINE h == [i \in D |-> far[i]]
  <2>1. h \in Surjection(D, Nearest(ss))
    <3>1. h \in [D -> Nearest(ss)]
        BY <1>4
    <3>2. \A y \in Nearest(ss) : \E i \in D : h[i] = y
        BY <1>4
    <3> HIDE DEF h
    <3> QED BY <3>1, <3>2 DEF Surjection
  <2> HIDE DEF h
  <2> QED BY <1>9, <2>1, FS_Surjection
<1>13. Cardinality(Nearest(ss)) \in 0 .. MaxInstances
  <2>1. Cardinality(Nearest(ss)) \in Nat /\ Cardinality(D) \in Nat
      BY <1>9, <1>12, FS_CardinalityType
  <2> QED BY <1>7, <1>9, <1>12, <2>1
<1>14. ASSUME NEW i \in Nearest(ss), NEW j \in DOMAIN ss, j \notin Nearest(ss)
       PROVE  ss[j].place >= ss[i].place
  <2>1. i \in InReach(ss) /\ i \in DOMAIN ss /\ ss[i].place \in Nat /\ ss[j].place \in Nat
        /\ ss[i].place <= Reach
      BY <1>1, <1>11, <1>14
  <2>2. CASE j \notin InReach(ss)
    <3>1. ~(ss[j].place <= Reach)
        BY <2>2 DEF InReach
    <3> QED BY <1>7, <2>1, <3>1
  <2>3. CASE j \in InReach(ss)
    <3>1. PICK a \in DOMAIN far : j = far[a]
        BY <1>5, <2>3 DEF Range
    <3>2. PICK b \in D : i = far[b]
        BY <1>4
    <3>3. a \notin D /\ b \in DOMAIN far
        BY <1>4, <1>10, <1>14, <3>1, <3>2
    <3>4. a < b
        BY <1>3, <1>6, <1>7, <1>8, <3>2, <3>3
    <3>5. Distance(ss)[far[a]] >= Distance(ss)[far[b]]
        BY <1>5, <3>3, <3>4
    <3> QED BY <1>1, <2>1, <3>1, <3>2, <3>5
  <2> QED BY <2>2, <2>3
<1>15. ASSUME NEW j \in InReach(ss), j \notin Nearest(ss)
       PROVE  Cardinality(Nearest(ss)) = MaxInstances
  <2>1. far \in Injection(1 .. n, InReach(ss))
    <3>1. IsFiniteSet(1 .. n) /\ Cardinality(1 .. n) = n
        BY <1>3, FS_Interval
    <3>2. \A y \in InReach(ss) : \E x \in 1 .. n : far[x] = y
        BY <1>5, <1>6 DEF Range
    <3>3. far \in Surjection(1 .. n, InReach(ss))
        BY <1>5, <3>2 DEF Surjection
    <3> QED BY <1>i, <3>1, <3>3, FS_SurjSameCardinalityImpliesInj
  <2>2. PICK a \in 1 .. n : j = far[a]
      BY <1>5, <1>6, <1>15 DEF Range
  <2>3. MaxInstances <= n
    <3>1. a \notin D
        BY <1>4, <1>15, <2>2
    <3> QED BY <1>3, <1>7, <1>8, <2>2, <3>1
  <2> DEFINE h == [i \in D |-> far[i]]
  <2>4. h \in Bijection(D, Nearest(ss))
    <3>1. h \in [D -> Nearest(ss)] /\ \A y \in Nearest(ss) : \E i \in D : h[i] = y
        BY <1>4
    <3>2. \A x, y \in D : h[x] = h[y] => x = y
      <4>1. \A x, y \in 1 .. n : far[x] = far[y] => x = y
          BY <1>5, <2>1 DEF Injection, IsInjective
      <4> QED BY <1>6, <1>10, <4>1
    <3> HIDE DEF h
    <3> QED BY <3>1, <3>2 DEF Bijection, Injection, IsInjective, Surjection
  <2> HIDE DEF h
  <2>5. Cardinality(D) = Cardinality(Nearest(ss))
      BY <1>9, <2>4, FS_Bijection DEF ExistsBijection
  <2> QED BY <1>9, <2>3, <2>5
<1>16. InReach(ss) \subseteq Nearest(ss) \/ Cardinality(Nearest(ss)) = MaxInstances
    BY <1>15
<1> QED BY <1>11, <1>12, <1>13, <1>14, <1>16

LEMMA CullFacts ==
  ASSUME NEW ss \in Seq(Slot), NEW pass
  PROVE  LET vs == Cull(ss, pass)
         IN /\ vs \in Seq(Slot) /\ Len(vs) <= MaxInstances
            /\ \A i \in DOMAIN vs : vs[i].place <= Reach /\ \E j \in DOMAIN ss : vs[i] = ss[j]
            /\ pass = "clear" =>
                 \A i, j \in DOMAIN vs : i < j => vs[i].place >= vs[j].place
            /\ \A t \in Range(ss) \ Range(vs) :
                 /\ t.place <= Reach => Len(vs) = MaxInstances
                 /\ \A s \in Range(vs) : t.place >= s.place
<1> DEFINE N == Nearest(ss)
           rank == IF pass = "clear" THEN Distance(ss) ELSE BucketOrder(ss)
           order == Arranged(N, rank)
           vs == Cull(ss, pass)
<1>1. /\ InReach(ss) \subseteq DOMAIN ss
      /\ \A i \in DOMAIN ss : /\ Distance(ss)[i] = ss[i].place /\ Distance(ss)[i] \in Nat
                              /\ BucketOrder(ss)[i] \in Nat
      /\ \A i \in InReach(ss) : ss[i].place <= Reach
    BY RankFacts
<1>2. /\ N \subseteq InReach(ss) /\ IsFiniteSet(N) /\ Cardinality(N) \in 0 .. MaxInstances
      /\ \A i \in N, j \in DOMAIN ss : j \in N \/ ss[j].place >= ss[i].place
      /\ InReach(ss) \subseteq N \/ Cardinality(N) = MaxInstances
    BY NearestFacts
<1> HIDE DEF N
<1>3. vs = [i \in DOMAIN order |-> ss[order[i]]]
    BY DEF Cull, N
<1>4. \A x \in N : rank[x] \in Nat
    BY <1>1, <1>2
<1>5. pass = "clear" => rank = Distance(ss)
    OBVIOUS
<1> HIDE DEF rank, vs
<1>6. Arranges(order, N, rank)
    BY <1>2, <1>4, ArrangementIs
<1> HIDE DEF order
<1> DEFINE n == Cardinality(N)
<1>7. order \in [1 .. n -> N] /\ Range(order) = N /\ DOMAIN order = 1 .. n
      /\ \A i, j \in DOMAIN order : i < j => rank[order[i]] >= rank[order[j]]
    BY <1>6 DEF Arranges
<1>8. n \in Nat /\ n <= MaxInstances /\ (InReach(ss) \subseteq N \/ n = MaxInstances)
    BY <1>2, ObjectsAssumption DEF ObjectsAssumption
<1> HIDE DEF n
<1>9. /\ DOMAIN vs = 1 .. n
      /\ \A i \in DOMAIN vs : vs[i] = ss[order[i]] /\ order[i] \in N /\ order[i] \in DOMAIN ss
    BY <1>1, <1>2, <1>3, <1>7
<1>10. Len(vs) = n /\ vs \in Seq(Slot)
  <2>1. \A i \in 1 .. n : ss[order[i]] \in Slot
      BY <1>9
  <2>2. vs \in [1 .. n -> Slot]
      BY <1>3, <1>7, <2>1
  <2> QED BY <1>8, <2>2, SeqOfFunction
<1>11. ASSUME pass = "clear", NEW i \in DOMAIN vs, NEW j \in DOMAIN vs, i < j
       PROVE  vs[i].place >= vs[j].place
  <2>1. Distance(ss)[order[i]] >= Distance(ss)[order[j]]
      BY <1>5, <1>7, <1>9, <1>11
  <2> QED BY <1>1, <1>9, <2>1
<1>12. \A i \in DOMAIN vs : vs[i].place <= Reach /\ \E j \in DOMAIN ss : vs[i] = ss[j]
    BY <1>1, <1>2, <1>9
<1>13. ASSUME NEW t \in Range(ss), t \notin Range(vs)
       PROVE  /\ t.place <= Reach => Len(vs) = MaxInstances
              /\ \A s \in Range(vs) : t.place >= s.place
  <2>1. PICK j \in DOMAIN ss : t = ss[j]
      BY DEF Range
  <2>2. j \notin N
    <3> SUFFICES ASSUME j \in N PROVE FALSE
        OBVIOUS
    <3>1. PICK a \in DOMAIN order : j = order[a]
        BY <1>7 DEF Range
    <3>2. a \in DOMAIN vs /\ t = vs[a]
        BY <1>7, <1>9, <2>1, <3>1
    <3>3. t \in Range(vs)
        BY <3>2 DEF Range
    <3> QED BY <1>13, <3>3
  <2>3. t.place <= Reach => Len(vs) = MaxInstances
    <3>1. t.place <= Reach => j \in InReach(ss)
        BY <2>1 DEF InReach
    <3> QED BY <1>8, <1>10, <2>2, <3>1
  <2>4. ASSUME NEW s \in Range(vs) PROVE t.place >= s.place
    <3>1. PICK i \in DOMAIN vs : s = vs[i]
        BY DEF Range
    <3> QED BY <1>2, <1>9, <2>1, <2>2, <3>1
  <2> QED BY <2>3, <2>4
<1>14. \A t \in Range(ss) \ Range(vs) :
         /\ t.place <= Reach => Len(vs) = MaxInstances
         /\ \A s \in Range(vs) : t.place >= s.place
    BY <1>13
<1> QED BY <1>8, <1>10, <1>11, <1>12, <1>14 DEF vs

(* What a frame draws.                                                      *)
ScreenFits == \A k \in BucketKeys : Len(screen[k]) \in 0 .. MaxInstances

LEMMA DrawModelFacts ==
  ASSUME NEW ss \in Seq(Slot)
  PROVE  /\ DrawModel(ss) \in Seq(Slot) /\ Len(DrawModel(ss)) \in 0 .. MaxInstances
         /\ DOMAIN DrawModel(ss) \subseteq DOMAIN ss
         /\ \A i \in DOMAIN DrawModel(ss) : DrawModel(ss)[i] = ss[i]
<1> DEFINE n == IF Len(ss) > MaxInstances THEN MaxInstances ELSE Len(ss)
<1>1. n \in Nat /\ n <= Len(ss) /\ n <= MaxInstances /\ Len(ss) \in Nat
    BY ObjectsAssumption DEF ObjectsAssumption
<1>2. DrawModel(ss) = SubSeq(ss, 1, n)
    BY DEF DrawModel
<1> HIDE DEF n
<1>3. SubSeq(ss, 1, n) \in Seq(Slot) /\ Len(SubSeq(ss, 1, n)) = n
    BY <1>1
<1>4. \A i \in 1 .. n : SubSeq(ss, 1, n)[i] = ss[i]
    BY <1>1
<1>5. DOMAIN SubSeq(ss, 1, n) = 1 .. n /\ DOMAIN ss = 1 .. Len(ss)
    BY <1>3
<1> QED BY <1>1, <1>2, <1>3, <1>4, <1>5, ObjectsAssumption DEF ObjectsAssumption

LEMMA OverlayFacts ==
  ASSUME NEW under \in Seq(Slot), NEW over \in Seq(Slot)
  PROVE  Overlay(under, over) \in Seq(Slot) /\ Len(Overlay(under, over)) = Len(under)
<1> DEFINE f == [i \in DOMAIN under |-> IF i \in DOMAIN over THEN over[i] ELSE under[i]]
           n == Len(under)
<1>1. n \in Nat /\ DOMAIN under = 1 .. n
    OBVIOUS
<1>2. \A i \in DOMAIN under : (IF i \in DOMAIN over THEN over[i] ELSE under[i]) \in Slot
    OBVIOUS
<1>3. f \in [1 .. n -> Slot]
    BY <1>1, <1>2
<1>4. Overlay(under, over) = f
    BY DEF Overlay
<1> HIDE DEF f, n
<1> QED BY <1>1, <1>3, <1>4, SeqOfFunction DEF n

LEMMA OverlaySelf == ASSUME NEW ss \in Seq(Slot) PROVE Overlay(ss, ss) = ss
<1>1. Overlay(ss, ss) = [i \in DOMAIN ss |-> ss[i]]
    BY DEF Overlay
<1>2. ss = [i \in DOMAIN ss |-> ss[i]]
    OBVIOUS
<1> QED BY <1>1, <1>2

LEMMA KeyFacts ==
  ASSUME NEW k \in BucketKeys
  PROVE  /\ k[1] \in Texts => k[3] \in TextFonts /\ k = <<k[1], "clear", k[3]>>
         /\ k[1] \in Texts \/ k[1] \in Solids
         /\ k[1] \notin Texts => k[1] \in Solids
<1>1. CASE k \in Texts \X {"clear"} \X TextFonts
    BY <1>1
<1>2. CASE k \in Solids \X {"clear", "opaque"} \X Meshes
    BY <1>2 DEF Solids, Texts
<1> QED BY <1>1, <1>2 DEF BucketKeys

LEMMA TextKey ==
  ASSUME NEW c \in Texts, NEW f \in TextFonts PROVE <<c, "clear", f>> \in BucketKeys
BY DEF BucketKeys

(* The passes draw the culled bucket whole.                                 *)
LEMMA DrawModelWhole ==
  ASSUME NEW ss \in Seq(Slot), Len(ss) <= MaxInstances
  PROVE  DrawModel(ss) = ss
<1>1. ~(Len(ss) > MaxInstances)
    BY ObjectsAssumption DEF ObjectsAssumption
<1>2. DrawModel(ss) = SubSeq(ss, 1, Len(ss))
    BY <1>1 DEF DrawModel
<1> QED BY <1>2

LEMMA SolidsDrawn ==
  ASSUME BucketInv, DrawFrame, NEW k \in BucketKeys, k[1] \in Solids
  PROVE  /\ buckets'[k] \in Seq(Slot)
         /\ screen'[k] = IF k[3] \in Loaded THEN Cull(buckets'[k], k[2]) ELSE <<>>
<1>1. PICK bs \in [BucketKeys -> Seq(Slot)] :
        bs = buckets' /\ bs = UpdateDynamicTransforms(buckets)
    BY UpdatedFacts DEF BucketInv, DrawFrame
<1> DEFINE vs == CullInstances(bs)
<1>2. k[1] \notin Texts
    BY DEF Solids, Texts
<1>3. screen'[k] = DrawModels(vs)[k]
    BY <1>1, <1>2 DEF DrawFrame
<1>4. PICK ss \in Seq(Slot) : ss = buckets'[k]
    BY <1>1
<1>5. vs[k] = Cull(ss, k[2])
    BY <1>1, <1>4 DEF CullInstances
<1>6. PICK cs : cs = Cull(ss, k[2])
    OBVIOUS
<1>7. cs \in Seq(Slot) /\ Len(cs) <= MaxInstances
    BY <1>6, CullFacts
<1>8. DrawModel(cs) = cs
    BY <1>7, DrawModelWhole
<1> QED BY <1>3, <1>4, <1>5, <1>6, <1>8 DEF DrawModels

(* One bucket on the screen: it fits, and with one font each draw shows a   *)
(* slot of the bucket.                                                      *)
LEMMA DrawnScreen ==
  ASSUME BucketInv, DrawFrame, NEW k \in BucketKeys
  PROVE  /\ screen'[k] \in Seq(Slot) /\ Len(screen'[k]) \in 0 .. MaxInstances
         /\ OneFont => \A i \in DOMAIN screen'[k] :
              \E j \in DOMAIN buckets[k] : screen'[k][i] = buckets'[k][j]
<1>1. PICK bs \in [BucketKeys -> Seq(Slot)] :
        /\ bs = buckets' /\ \A l \in BucketKeys : Len(bs[l]) = Len(buckets[l])
        /\ bs = UpdateDynamicTransforms(buckets)
        /\ \A l \in BucketKeys : DOMAIN bs[l] = DOMAIN buckets[l]
    BY UpdatedFacts DEF BucketInv, DrawFrame
<1>2. PICK last \in [Texts -> TextFonts] :
        /\ \A class \in Texts : Filled(bs, class) # {} => last[class] \in Filled(bs, class)
        /\ \A l \in BucketKeys :
             l[1] \in Texts => screen'[l] = DrawTexts(bs, l[1], last[l[1]])[l[3]]
    BY <1>1 DEF DrawFrame
<1>3. CASE k[1] \in Texts
  <2>1. PICK c \in Texts, f \in TextFonts, g \in TextFonts :
          c = k[1] /\ f = k[3] /\ g = last[c] /\ k = <<c, "clear", f>>
      BY <1>3, KeyFacts
  <2>2. <<c, "clear", f>> \in BucketKeys /\ <<c, "clear", g>> \in BucketKeys
      BY TextKey
  <2>3. PICK u \in Seq(Slot), v \in Seq(Slot) :
          u = bs[<<c, "clear", f>>] /\ v = bs[<<c, "clear", g>>]
      BY <2>2
  <2>4. screen'[k] = DrawTexts(bs, c, g)[f]
      BY <1>2, <1>3, <2>1
  <2>5. DrawTexts(bs, c, g)[f] = Overlay(DrawModel(u), DrawModel(v))
      BY <2>3 DEF DrawTexts
  <2>6. /\ DrawModel(u) \in Seq(Slot) /\ DrawModel(v) \in Seq(Slot)
        /\ Len(DrawModel(u)) \in 0 .. MaxInstances
        /\ DOMAIN DrawModel(u) \subseteq DOMAIN u
        /\ \A i \in DOMAIN DrawModel(u) : DrawModel(u)[i] = u[i]
      BY DrawModelFacts
  <2>7. screen'[k] \in Seq(Slot) /\ Len(screen'[k]) = Len(DrawModel(u))
      BY <2>4, <2>5, <2>6, OverlayFacts
  <2>8. ASSUME OneFont, NEW i \in DOMAIN screen'[k]
        PROVE  i \in DOMAIN buckets[k] /\ screen'[k][i] = buckets'[k][i]
    <3>1. i \in DOMAIN DrawModel(u)
      <4>1. DOMAIN screen'[k] = DOMAIN DrawModel(u)
          BY <2>6, <2>7
      <4> QED BY <2>8, <4>1
    <3>2. u # <<>>
        BY <2>6, <3>1
    <3>3. f \in Filled(bs, c)
        BY <2>3, <3>2 DEF Filled
    <3>4. g \in Filled(bs, c)
        BY <1>2, <2>1, <3>3
    <3>5. Filled(bs, c) \subseteq Filled(buckets, c)
      <4> SUFFICES ASSUME NEW h \in TextFonts, bs[<<c, "clear", h>>] # <<>>
                   PROVE  buckets[<<c, "clear", h>>] # <<>>
          BY DEF Filled
      <4>1. PICK l \in BucketKeys : l = <<c, "clear", h>>
          BY TextKey
      <4>2. bs[l] \in Seq(Slot) /\ buckets[l] \in Seq(Slot) /\ Len(bs[l]) = Len(buckets[l])
          BY <1>1 DEF BucketInv, BucketTypes
      <4>3. bs[l] # <<>> => buckets[l] # <<>>
          BY <4>2
      <4> QED BY <4>1, <4>3
    <3>6. f = g
        BY <2>8, <3>3, <3>4, <3>5 DEF OneFont
    <3>7. screen'[k] = DrawModel(u)
        BY <2>3, <2>4, <2>5, <2>6, <3>6, OverlaySelf
    <3> QED BY <1>1, <2>1, <2>3, <2>6, <3>1, <3>7
  <2> QED BY <2>6, <2>7, <2>8
<1>4. CASE k[1] \notin Texts
  <2>1. k[1] \in Solids
      BY <1>4, KeyFacts
  <2>2. PICK ss \in Seq(Slot) : ss = buckets'[k] /\ DOMAIN ss = DOMAIN buckets[k]
      BY <1>1
  <2>3. screen'[k] = IF k[3] \in Loaded THEN Cull(ss, k[2]) ELSE <<>>
      BY <2>1, <2>2, SolidsDrawn
  <2>4. CASE k[3] \in Loaded
    <3>1. PICK cs : cs = Cull(ss, k[2])
        OBVIOUS
    <3>2. /\ cs \in Seq(Slot) /\ Len(cs) <= MaxInstances
          /\ \A i \in DOMAIN cs : \E j \in DOMAIN ss : cs[i] = ss[j]
        BY <3>1, CullFacts
    <3>3. Len(cs) \in 0 .. MaxInstances
        BY <3>2, ObjectsAssumption DEF ObjectsAssumption
    <3> QED BY <2>2, <2>3, <2>4, <3>1, <3>2, <3>3
  <2>5. CASE k[3] \notin Loaded
    <3>1. screen'[k] = <<>>
        BY <2>3, <2>5
    <3>2. 0 \in 0 .. MaxInstances
        BY ObjectsAssumption DEF ObjectsAssumption
    <3> QED BY <3>1, <3>2
  <2> QED BY <2>4, <2>5
<1> QED BY <1>3, <1>4

LEMMA ScreenUnlessDrawn ==
  ASSUME [BucketsNext]_bucketVars, ~DrawFrame
  PROVE  screen' = screen /\ visible' = visible
BY DEF BucketsNext, bucketVars, RebuildBegin, Visit, RebuildEnd, NothingToRebuild, SkipFrame,
       PutIn, TakeOut, MoveSilently, SetProperty, Changed

LEMMA ScreenAlwaysFits == BucketInv /\ ScreenFits /\ [BucketsNext]_bucketVars => ScreenFits'
<1> SUFFICES ASSUME BucketInv, ScreenFits, [BucketsNext]_bucketVars PROVE ScreenFits'
    OBVIOUS
<1>1. CASE DrawFrame
    BY <1>1, DrawnScreen DEF ScreenFits
<1>2. CASE ~DrawFrame
    BY <1>2, ScreenUnlessDrawn DEF ScreenFits
<1> QED BY <1>1, <1>2

(* What moves is drawn where it is, in a tree that is up to date.           *)
DrawnInPlace ==
    DrawFrame /\ OneFont =>
        \A k \in BucketKeys : Current(RootOfKey(k)) =>
            \A s \in Range(screen'[k]) :
                Moves(s.obj) => s.place = prop[Carrier(s.obj)].place

LEMMA AlwaysDrawnInPlace == BucketInv => DrawnInPlace
<1> SUFFICES ASSUME BucketInv, DrawFrame, OneFont,
                    NEW k \in BucketKeys, Current(RootOfKey(k)), NEW s \in Range(screen'[k]),
                    Moves(s.obj)
             PROVE  s.place = prop[Carrier(s.obj)].place
    BY DEF DrawnInPlace
<1>2. BucketTypes /\ buckets' = UpdateDynamicTransforms(buckets)
    BY DEF DrawFrame, BucketInv
<1>3. PICK h \in DOMAIN screen'[k] : s = screen'[k][h]
    BY DEF Range
<1>4. PICK i \in DOMAIN buckets[k] : s = buckets'[k][i]
    BY <1>3, DrawnScreen
<1>5. /\ s.obj = buckets[k][i].obj
      /\ Targeted(k, i) => s.place = prop[Carrier(buckets[k][i].obj)].place
    BY <1>2, <1>4, UpdatedFacts
<1>6. RootOfKey(k) \in Roots
    BY DEF RootOfKey, Roots
<1>7. SlotRight(k, i)
    BY <1>4, <1>6 DEF BucketInv, PictureRight, PictureOf, SlotsRight, Current, Reliable
<1>8. Targeted(k, i)
    BY <1>5, <1>7 DEF SlotRight, Targeted
<1> QED BY <1>5, <1>8

(* A frame draws the nearest of what is in reach.                           *)
NearestKept ==
    DrawFrame => \A k \in {x \in BucketKeys : x[1] \in Solids /\ x[3] \in Loaded} :
        \A t \in Range(buckets'[k]) \ Range(screen'[k]) :
            /\ t.place <= Reach => Len(screen'[k]) = MaxInstances
            /\ \A s \in Range(screen'[k]) : t.place >= s.place

LEMMA FrameKeepsNearest == BucketInv => NearestKept
<1> SUFFICES ASSUME BucketInv, DrawFrame, NEW k \in BucketKeys, k[1] \in Solids, k[3] \in Loaded,
                    NEW t \in Range(buckets'[k]) \ Range(screen'[k])
             PROVE  /\ t.place <= Reach => Len(screen'[k]) = MaxInstances
                    /\ \A s \in Range(screen'[k]) : t.place >= s.place
    BY DEF NearestKept
<1>0. PICK ss \in Seq(Slot) : ss = buckets'[k] /\ screen'[k] = Cull(ss, k[2])
    BY SolidsDrawn
<1>1. PICK vs : vs = Cull(ss, k[2])
    OBVIOUS
<1>2. \A u \in Range(ss) \ Range(vs) :
        /\ u.place <= Reach => Len(vs) = MaxInstances
        /\ \A s \in Range(vs) : u.place >= s.place
    BY <1>1, CullFacts
<1> QED BY <1>0, <1>1, <1>2

LEMMA FrameDrawsFarToNear == ASSUME BucketInv, DrawFrame PROVE DrawnFarToNear'
<1>1. ASSUME NEW k \in BucketKeys, k[1] \in Solids
      PROVE  /\ \A i \in DOMAIN screen'[k] : screen'[k][i].place <= Reach
             /\ k[2] = "clear" =>
                  \A i, j \in DOMAIN screen'[k] : i < j => screen'[k][i].place >= screen'[k][j].place
  <2>0. PICK ss \in Seq(Slot) :
          /\ ss = buckets'[k]
          /\ screen'[k] = IF k[3] \in Loaded THEN Cull(ss, k[2]) ELSE <<>>
      BY <1>1, SolidsDrawn
  <2>1. PICK vs : vs = Cull(ss, k[2])
      OBVIOUS
  <2>2. /\ \A i \in DOMAIN vs : vs[i].place <= Reach
        /\ k[2] = "clear" =>
             \A i, j \in DOMAIN vs : i < j => vs[i].place >= vs[j].place
      BY <2>1, CullFacts
  <2>3. CASE k[3] \in Loaded
      BY <2>0, <2>1, <2>2, <2>3
  <2>4. CASE k[3] \notin Loaded
      BY <2>0, <2>4
  <2> QED BY <2>3, <2>4
<1> QED BY <1>1 DEF DrawnFarToNear

LEMMA InitScreen == BucketsInit => DrawnFarToNear /\ ScreenFits
<1> SUFFICES ASSUME BucketsInit PROVE DrawnFarToNear /\ ScreenFits
    OBVIOUS
<1>1. \A k \in BucketKeys : screen[k] = <<>>
    BY DEF BucketsInit, NoSlots
<1>2. MaxInstances \in Nat
    BY ObjectsAssumption DEF ObjectsAssumption
<1>3. ScreenFits
    BY <1>1, <1>2 DEF ScreenFits
<1>4. \A k \in BucketKeys : DOMAIN screen[k] = {}
    BY <1>1
<1> QED BY <1>3, <1>4 DEF DrawnFarToNear

LEMMA NextDrawsFarToNear ==
    BucketInv /\ DrawnFarToNear /\ [BucketsNext]_bucketVars => DrawnFarToNear'
<1> SUFFICES ASSUME BucketInv, DrawnFarToNear, [BucketsNext]_bucketVars PROVE DrawnFarToNear'
    OBVIOUS
<1>1. CASE DrawFrame
    BY <1>1, FrameDrawsFarToNear
<1>2. CASE ~DrawFrame
    BY <1>2, ScreenUnlessDrawn DEF DrawnFarToNear
<1> QED BY <1>1, <1>2

LEMMA BucketsTyped == BucketInv /\ ScreenFits => BucketsTypeOK
BY DEF BucketInv, BucketTypes, ScreenFits, BucketsTypeOK

(* In any two trees of any objects, whatever the interleaving of rebuilds,  *)
(* frames and changes from other threads: once a tree was walked without a  *)
(* change, its buckets hold one right slot for each object to be seen and   *)
(* nothing else; a target always names its own object's slot, what moves is *)
(* drawn where it is, no draw outgrows the instance buffer, and a frame     *)
(* draws the nearest solids in reach, far to near where they blend          *)
(* (render_manager.cpp 17-502, render_manager.hpp 56-78, game_client.cpp    *)
(* 214-266, model.cpp, text.cpp).                                           *)
THEOREM PictureAlwaysMatches == BucketsSpec => PictureMatchesTree
<1> DEFINE Inv == BucketInv /\ ScreenFits /\ DrawnFarToNear
<1>1. BucketsInit => Inv
    BY InitBuckets, InitScreen
<1>2. Inv /\ [BucketsNext]_bucketVars => Inv'
    BY NextKeepsBuckets, ScreenAlwaysFits, NextDrawsFarToNear
<1>3. Inv => BucketsTypeOK /\ TargetsOwnTheirSlots /\ BucketsMatchTree /\ DrawnFarToNear
    BY BucketsTyped, BucketsMatch DEF BucketInv
<1>4. Inv /\ [BucketsNext]_bucketVars => [NearestKept]_bucketVars /\ [DrawnInPlace]_bucketVars
    BY FrameKeepsNearest, AlwaysDrawnInPlace
<1>5. NearestDrawn <=> [][NearestKept]_bucketVars
    BY DEF NearestDrawn, NearestKept
<1>6. MovingDrawnInPlace <=> [][DrawnInPlace]_bucketVars
    BY DEF MovingDrawnInPlace, DrawnInPlace
<1> QED BY <1>1, <1>2, <1>3, <1>4, <1>5, <1>6, PTL DEF BucketsSpec, PictureMatchesTree
=============================================================================
