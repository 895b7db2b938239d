------------------------ MODULE ClientOwnershipProofs ------------------------
(***************************************************************************)
(* What ClientOwnership promises for any set of objects and any cap: the   *)
(* books of ownership are right, the cap never costs an object that moves  *)
(* its owner, and the last word about an object is current; and what the   *)
(* search for touched objects (ContactSearch) promises for any number of   *)
(* things and any depth: nothing out of reach is claimed, and everything   *)
(* the player touches is.                                                  *)
(***************************************************************************)
EXTENDS ClientOwnership, ContactSearch, SequenceTheorems, FiniteSetTheorems,
        WellFoundedInduction, TLAPS

-----------------------------------------------------------------------------
(* Sequences without repetition.                                           *)

Distinct(s) == \A i, j \in 1 .. Len(s) : i # j => s[i] # s[j]

(* A set of indices has a least one. *)
LEMMA LeastIndex ==
    ASSUME NEW I, I \subseteq Nat, I # {}
    PROVE  Min(I) \in I
<1>1. \E x \in I : \A y \in I : ~ (<<y, x>> \in OpToRel(<, Nat))
  BY NatLessThanWellFounded, WFMin
<1>2. \A x, y \in Nat : y < x => <<y, x>> \in OpToRel(<, Nat)
  BY DEF OpToRel
<1>3. PICK x \in I : \A y \in I : ~ (<<y, x>> \in OpToRel(<, Nat))
  BY <1>1
<1>4. \A y \in I : ~ (y < x)
  BY <1>2, <1>3, Zenon
<1>5. \A y \in I : x =< y
  BY <1>4
<1>. QED
  BY <1>5 DEF Min

(* Taking out the element at an index. *)
LEMMA RemovedAt ==
    ASSUME NEW S, NEW s \in Seq(S), Distinct(s), NEW k \in 1 .. Len(s)
    PROVE  /\ RemoveAt(s, k) \in Seq(S)
           /\ Len(RemoveAt(s, k)) = Len(s) - 1
           /\ Distinct(RemoveAt(s, k))
           /\ ToSet(RemoveAt(s, k)) = ToSet(s) \ {s[k]}
<1> DEFINE a == SubSeq(s, 1, k - 1)
           b == SubSeq(s, k + 1, Len(s))
           r == RemoveAt(s, k)
<1>1. Len(s) \in Nat /\ k \in Nat /\ DOMAIN s = 1 .. Len(s) /\ \A i \in 1 .. Len(s) : s[i] \in S
  BY LenProperties, ElementOfSeq
<1>2. a \in Seq(S) /\ Len(a) = k - 1 /\ \A i \in 1 .. k - 1 : a[i] = s[i]
  BY <1>1, SubSeqProperties
<1>3. b \in Seq(S) /\ Len(b) = Len(s) - k /\ \A i \in 1 .. Len(s) - k : b[i] = s[k + i]
  <2>1. \A i \in k + 1 .. Len(s) : s[i] \in S
    BY <1>1
  <2>2. /\ b \in Seq(S)
        /\ Len(b) = IF k + 1 <= Len(s) THEN Len(s) - (k + 1) + 1 ELSE 0
        /\ \A i \in 1 .. Len(s) - (k + 1) + 1 : b[i] = s[(k + 1) + i - 1]
    BY <1>1, <2>1, SubSeqProperties
  <2> HIDE DEF b
  <2>3. Len(b) = Len(s) - k
    <3>1. Len(s) \in Int /\ k \in Int /\ k <= Len(s)
      BY <1>1
    <3>2. Len(b) = IF k + 1 <= Len(s) THEN Len(s) - (k + 1) + 1 ELSE 0
      BY <2>2
    <3>. QED
      BY <3>1, <3>2
  <2>4. \A i \in 1 .. Len(s) - k : b[i] = s[k + i]
    <3>1. Len(s) \in Int /\ k \in Int
      BY <1>1
    <3>2. \A i \in 1 .. Len(s) - (k + 1) + 1 : b[i] = s[(k + 1) + i - 1]
      BY <2>2
    <3>. QED
      BY <3>1, <3>2
  <2>. QED
    BY <2>2, <2>3, <2>4
<1>4. r = a \o b
  BY DEF RemoveAt
<1> HIDE DEF a, b, r
<1>5. r \in Seq(S) /\ Len(r) = Len(s) - 1
  <2>1. r \in Seq(S) /\ Len(r) = Len(a) + Len(b)
    BY <1>2, <1>3, <1>4, ConcatProperties
  <2>. QED
    BY <1>1, <1>2, <1>3, <2>1
<1>6. \A i \in 1 .. Len(s) - 1 : r[i] = IF i < k THEN s[i] ELSE s[i + 1]
  <2> SUFFICES ASSUME NEW i \in 1 .. Len(s) - 1 PROVE r[i] = IF i < k THEN s[i] ELSE s[i + 1]
    OBVIOUS
  <2>1. r[i] = IF i <= k - 1 THEN a[i] ELSE b[i - (k - 1)]
    BY <1>1, <1>2, <1>3, <1>4, ConcatProperties
  <2>2. CASE i < k
    BY <1>1, <1>2, <2>1, <2>2
  <2>3. CASE ~(i < k)
    <3>1. i - (k - 1) \in 1 .. Len(s) - k /\ k + (i - (k - 1)) = i + 1
      BY <1>1, <2>3
    <3>. QED
      BY <1>1, <1>3, <2>1, <2>3, <3>1
  <2>. QED
    BY <2>2, <2>3
<1>7. Distinct(r)
  BY SMTT(30), <1>1, <1>5, <1>6 DEF Distinct
<1>8. ToSet(r) = {r[i] : i \in 1 .. Len(s) - 1} /\ ToSet(s) = {s[i] : i \in 1 .. Len(s)}
  BY <1>1, <1>5, LenProperties DEF ToSet
<1>9. \A x \in ToSet(r) : x \in ToSet(s) \ {s[k]}
  BY <1>1, <1>6, <1>8 DEF Distinct
<1>10. ASSUME NEW x \in ToSet(s), x # s[k] PROVE x \in ToSet(r)
  <2>1. PICK i \in 1 .. Len(s) : x = s[i]
    BY <1>8
  <2>2. CASE i < k
    BY <1>1, <1>6, <1>8, <2>1, <2>2
  <2>3. CASE i > k
    <3>1. i - 1 \in 1 .. Len(s) - 1 /\ r[i - 1] = s[i]
      BY <1>1, <1>6, <2>3
    <3>. QED
      BY <1>8, <2>1, <3>1
  <2>. QED
    BY <1>1, <1>10, <2>1, <2>2, <2>3
<1>11. ToSet(r) = ToSet(s) \ {s[k]}
  BY <1>9, <1>10
<1>. QED
  BY <1>5, <1>7, <1>11 DEF r

(* Taking out an element. *)
LEMMA RemovedFirst ==
    ASSUME NEW S, NEW s \in Seq(S), Distinct(s), NEW e
    PROVE  /\ RemoveFirst(s, e) \in Seq(S)
           /\ Distinct(RemoveFirst(s, e))
           /\ ToSet(RemoveFirst(s, e)) = ToSet(s) \ {e}
           /\ e \in ToSet(s) => Len(RemoveFirst(s, e)) = Len(s) - 1
           /\ e \notin ToSet(s) => RemoveFirst(s, e) = s
<1>1. Len(s) \in Nat /\ DOMAIN s = 1 .. Len(s)
  BY LenProperties
<1>2. CASE \E i \in 1 .. Len(s) : s[i] = e
  <2>1. PICK k \in 1 .. Len(s) : s[k] = e
    BY <1>2
  <2>2. {i \in 1 .. Len(s) : s[i] = e} = {k}
    BY <2>1 DEF Distinct
  <2>3. SelectInSeq(s, LAMBDA v : v = e) = Min({k})
    BY <2>2 DEF SelectInSeq
  <2>4. Min({k}) = k
    BY SMTT(30), <1>1, LeastIndex
  <2>5. RemoveFirst(s, e) = RemoveAt(s, k)
    BY <1>2, <2>3, <2>4 DEF RemoveFirst
  <2>6. e \in ToSet(s)
    BY <1>1, <2>1 DEF ToSet
  <2>7. /\ RemoveAt(s, k) \in Seq(S) /\ Distinct(RemoveAt(s, k))
        /\ ToSet(RemoveAt(s, k)) = ToSet(s) \ {e} /\ Len(RemoveAt(s, k)) = Len(s) - 1
    BY <2>1, RemovedAt
  <2>. QED
    BY <2>5, <2>6, <2>7
<1>3. CASE ~ \E i \in 1 .. Len(s) : s[i] = e
  <2>1. RemoveFirst(s, e) = s /\ e \notin ToSet(s)
    BY <1>1, <1>3 DEF RemoveFirst, ToSet
  <2>. QED
    BY <2>1
<1>. QED
  BY <1>2, <1>3

(* Adding a new element at the end. *)
LEMMA Appended ==
    ASSUME NEW S, NEW s \in Seq(S), Distinct(s), NEW e \in S, e \notin ToSet(s)
    PROVE  /\ Append(s, e) \in Seq(S)
           /\ Len(Append(s, e)) = Len(s) + 1
           /\ Distinct(Append(s, e))
           /\ ToSet(Append(s, e)) = ToSet(s) \cup {e}
<1>1. Len(s) \in Nat /\ DOMAIN s = 1 .. Len(s)
  BY LenProperties
<1>2. /\ Append(s, e) \in Seq(S) /\ Len(Append(s, e)) = Len(s) + 1
      /\ \A i \in 1 .. Len(s) : Append(s, e)[i] = s[i]
      /\ Append(s, e)[Len(s) + 1] = e
  BY AppendProperties
<1>3. DOMAIN Append(s, e) = 1 .. Len(s) + 1
  BY <1>2, LenProperties
<1>4. \A i \in 1 .. Len(s) : s[i] # e
  BY <1>1 DEF ToSet
<1>5. Distinct(Append(s, e))
  BY <1>1, <1>2, <1>4 DEF Distinct
<1>6. ToSet(Append(s, e)) = ToSet(s) \cup {e}
  BY <1>1, <1>2, <1>3 DEF ToSet
<1>. QED
  BY <1>2, <1>5, <1>6

(* Going on to the rest of a sequence. *)
LEMMA TailOf ==
    ASSUME NEW S, NEW s \in Seq(S), Distinct(s), s # <<>>
    PROVE  /\ Head(s) \in ToSet(s) /\ Tail(s) \in Seq(S) /\ Distinct(Tail(s))
           /\ ToSet(Tail(s)) = ToSet(s) \ {Head(s)}
<1>1. Len(s) \in Nat \ {0} /\ DOMAIN s = 1 .. Len(s) /\ Head(s) = s[1]
  BY LenProperties, EmptySeq
<1>2. /\ Tail(s) \in Seq(S) /\ Len(Tail(s)) = Len(s) - 1
      /\ \A i \in 1 .. Len(s) - 1 : Tail(s)[i] = s[i + 1]
  BY HeadTailProperties
<1>3. DOMAIN Tail(s) = 1 .. Len(s) - 1
  BY <1>2, LenProperties
<1>4. Distinct(Tail(s))
  BY <1>1, <1>2 DEF Distinct
<1>5. \A x \in ToSet(Tail(s)) : x \in ToSet(s) \ {Head(s)}
  BY <1>1, <1>2, <1>3 DEF ToSet, Distinct
<1>6. ASSUME NEW x \in ToSet(s), x # Head(s) PROVE x \in ToSet(Tail(s))
  <2>1. PICK i \in 1 .. Len(s) : x = s[i]
    BY <1>1 DEF ToSet
  <2>2. i - 1 \in 1 .. Len(s) - 1 /\ Tail(s)[i - 1] = s[i]
    BY <1>1, <1>2, <1>6, <2>1
  <2>. QED
    BY <1>3, <2>1, <2>2 DEF ToSet
<1>7. ToSet(Tail(s)) = ToSet(s) \ {Head(s)}
  BY <1>5, <1>6
<1>8. Head(s) \in ToSet(s)
  BY <1>1 DEF ToSet
<1>. QED
  BY <1>2, <1>4, <1>7, <1>8

-----------------------------------------------------------------------------
(* The books as update() changes them.                                     *)

BookType ==
    [order : Seq(Object), reported : SUBSET Object, dynamic : SUBSET Object,
     asleep : SUBSET Object, target : SUBSET Object,
     said : [Object -> {"nothing", "moving", "resting"}]]

(* Books that agree with the bodies, and in which what is reported asleep  *)
(* was not last said to move.                                              *)
Sound(w) ==
    /\ w \in BookType
    /\ w.dynamic \subseteq bodies /\ w.asleep \subseteq w.dynamic /\ w.target \subseteq bodies
    /\ Distinct(w.order)
    /\ w.reported \subseteq Owned(w)
    /\ \A o \in bodies : o \in Owned(w) <=> o \in w.dynamic
    /\ \A o \in w.reported : w.said[o] # "moving"
    /\ \A o \in w.reported \cap w.asleep : w.said[o] = "resting" \/ o \in unseen

(* What forgetting an object changes. *)
LEMMA Forgotten ==
    ASSUME NEW w \in BookType, Distinct(w.order), NEW o
    PROVE  /\ Forget(w, o) \in BookType
           /\ Distinct(Forget(w, o).order)
           /\ Owned(Forget(w, o)) = Owned(w) \ {o}
           /\ o \in Owned(w) => Len(Forget(w, o).order) = Len(w.order) - 1
           /\ Forget(w, o).reported = w.reported \ {o}
           /\ Forget(w, o).dynamic = w.dynamic /\ Forget(w, o).asleep = w.asleep
           /\ Forget(w, o).target = w.target /\ Forget(w, o).said = w.said
<1>1. w.order \in Seq(Object) /\ w.reported \in SUBSET Object
  BY DEF BookType
<1>2. /\ RemoveFirst(w.order, o) \in Seq(Object) /\ Distinct(RemoveFirst(w.order, o))
      /\ ToSet(RemoveFirst(w.order, o)) = ToSet(w.order) \ {o}
      /\ o \in ToSet(w.order) => Len(RemoveFirst(w.order, o)) = Len(w.order) - 1
  BY <1>1, RemovedFirst
<1>3. Forget(w, o) = [w EXCEPT !.order = RemoveFirst(w.order, o), !.reported = w.reported \ {o}]
  BY DEF Forget
<1>4. /\ Forget(w, o).order = RemoveFirst(w.order, o) /\ Forget(w, o).reported = w.reported \ {o}
      /\ Forget(w, o).dynamic = w.dynamic /\ Forget(w, o).asleep = w.asleep
      /\ Forget(w, o).target = w.target /\ Forget(w, o).said = w.said
  BY <1>3 DEF BookType
<1>5. Forget(w, o) \in BookType
  BY <1>1, <1>2, <1>3 DEF BookType
<1>. QED
  BY <1>2, <1>4, <1>5 DEF Owned

(* What taking an object over changes. *)
LEMMA TakenOver ==
    ASSUME NEW w \in BookType, NEW o \in Object, o \notin w.dynamic
    PROVE  /\ TakeOver(w, o) \in BookType
           /\ TakeOver(w, o).order = w.order /\ TakeOver(w, o).reported = w.reported
           /\ TakeOver(w, o).dynamic = w.dynamic \cup {o} /\ TakeOver(w, o).asleep = w.asleep
           /\ TakeOver(w, o).target = w.target \ {o}
           /\ TakeOver(w, o).said = [w.said EXCEPT ![o] = "nothing"]
<1>1. TakeOver(w, o) = [w EXCEPT !.dynamic = w.dynamic \cup {o}, !.target = w.target \ {o},
                                !.said = [w.said EXCEPT ![o] = "nothing"]]
  BY DEF TakeOver
<1>2. /\ w.said \in [Object -> {"nothing", "moving", "resting"}]
      /\ w.dynamic \in SUBSET Object /\ w.target \in SUBSET Object
  BY DEF BookType
<1>3. /\ [w.said EXCEPT ![o] = "nothing"] \in [Object -> {"nothing", "moving", "resting"}]
      /\ w.dynamic \cup {o} \in SUBSET Object /\ w.target \ {o} \in SUBSET Object
  BY <1>2
<1>4. TakeOver(w, o) \in BookType
  BY <1>1, <1>3 DEF BookType
<1>. QED
  BY <1>1, <1>4 DEF BookType

(* What handing an object back changes. *)
LEMMA HandedBack ==
    ASSUME NEW w \in BookType, NEW o \in Object
    PROVE  /\ HandBack(w, o) \in BookType
           /\ HandBack(w, o).order = w.order /\ HandBack(w, o).reported = w.reported
           /\ HandBack(w, o).dynamic = w.dynamic \ {o}
           /\ w.asleep \subseteq w.dynamic => HandBack(w, o).asleep = w.asleep \ {o}
           /\ HandBack(w, o).target \subseteq w.target \cup {o}
           /\ HandBack(w, o).said = w.said
<1>1. CASE o \notin w.dynamic
  BY <1>1 DEF HandBack, BookType
<1>2. CASE o \in w.dynamic
  <2>1. HandBack(w, o) = [w EXCEPT !.dynamic = w.dynamic \ {o}, !.asleep = w.asleep \ {o},
                                  !.target = w.target \cup {o}]
    BY <1>2 DEF HandBack
  <2>2. /\ w.dynamic \in SUBSET Object /\ w.target \in SUBSET Object /\ w.asleep \in SUBSET Object
    BY DEF BookType
  <2>3. /\ w.dynamic \ {o} \in SUBSET Object /\ w.target \cup {o} \in SUBSET Object
        /\ w.asleep \ {o} \in SUBSET Object
    BY <2>2
  <2>4. HandBack(w, o) \in BookType
    BY <2>1, <2>3 DEF BookType
  <2>. QED
    BY <2>1, <2>4 DEF BookType
<1>. QED
  BY <1>1, <1>2

(* What sending a state changes. *)
LEMMA HasSaid ==
    ASSUME NEW w \in BookType, NEW o \in Object
    PROVE  /\ Say(w, o) \in BookType
           /\ Say(w, o).order = w.order /\ Say(w, o).reported = w.reported
           /\ Say(w, o).dynamic = w.dynamic /\ Say(w, o).asleep = w.asleep
           /\ Say(w, o).target = w.target
           /\ \A p \in Object : Say(w, o).said[p] =
                 IF p = o THEN IF IsActive(w, o) THEN "moving" ELSE "resting" ELSE w.said[p]
<1>1. Say(w, o) = [w EXCEPT !.said = [w.said EXCEPT ![o] = IF IsActive(w, o) THEN "moving" ELSE "resting"]]
  BY DEF Say
<1>2. w.said \in [Object -> {"nothing", "moving", "resting"}]
  BY DEF BookType
<1>3. [w.said EXCEPT ![o] = IF IsActive(w, o) THEN "moving" ELSE "resting"]
        \in [Object -> {"nothing", "moving", "resting"}]
  BY <1>2
<1>4. Say(w, o) \in BookType
  BY <1>1, <1>3 DEF BookType
<1>5. Say(w, o).said = [w.said EXCEPT ![o] = IF IsActive(w, o) THEN "moving" ELSE "resting"]
  BY <1>1 DEF BookType
<1>6. /\ Say(w, o).order = w.order /\ Say(w, o).reported = w.reported
      /\ Say(w, o).dynamic = w.dynamic /\ Say(w, o).asleep = w.asleep
      /\ Say(w, o).target = w.target
  BY <1>1 DEF BookType
<1>. QED
  BY <1>2, <1>4, <1>5, <1>6

(* Forgetting and handing back an object keep the books sound. *)
LEMMA LetGo ==
    ASSUME NEW w, Sound(w), NEW o \in bodies, bodies \subseteq Object
    PROVE  /\ Sound(HandBack(Forget(w, o), o))
           /\ Owned(HandBack(Forget(w, o), o)) = Owned(w) \ {o}
           /\ o \in Owned(w) => Len(HandBack(Forget(w, o), o).order) = Len(w.order) - 1
           /\ HandBack(Forget(w, o), o).said = w.said
           /\ HandBack(Forget(w, o), o).dynamic = w.dynamic \ {o}
           /\ HandBack(Forget(w, o), o).asleep = w.asleep \ {o}
<1> DEFINE f == Forget(w, o)
           h == HandBack(f, o)
<1>1. w \in BookType /\ Distinct(w.order) /\ o \in Object /\ w.asleep \subseteq w.dynamic
  BY DEF Sound
<1>2. /\ f \in BookType /\ Distinct(f.order) /\ Owned(f) = Owned(w) \ {o}
      /\ o \in Owned(w) => Len(f.order) = Len(w.order) - 1
      /\ f.reported = w.reported \ {o} /\ f.dynamic = w.dynamic /\ f.asleep = w.asleep
      /\ f.target = w.target /\ f.said = w.said
  BY <1>1, Forgotten
<1> HIDE DEF f
<1>3. /\ h \in BookType /\ h.order = f.order /\ h.reported = f.reported
      /\ h.dynamic = f.dynamic \ {o} /\ h.asleep = f.asleep \ {o}
      /\ h.target \subseteq f.target \cup {o} /\ h.said = f.said
  BY <1>1, <1>2, HandedBack
<1> HIDE DEF h
<1>4. Owned(h) = Owned(w) \ {o}
  BY <1>2, <1>3 DEF Owned
<1>5. Sound(h)
  BY <1>1, <1>2, <1>3, <1>4 DEF Sound
<1>. QED
  BY <1>2, <1>3, <1>4, <1>5 DEF f, h

(* Forgetting an object without a body keeps the books sound. *)
LEMMA LetGoOfLost ==
    ASSUME NEW w, Sound(w), NEW o, o \notin bodies
    PROVE  Sound(Forget(w, o)) /\ Owned(Forget(w, o)) = Owned(w) \ {o}
<1>1. w \in BookType /\ Distinct(w.order)
  BY DEF Sound
<1>2. /\ Forget(w, o) \in BookType /\ Distinct(Forget(w, o).order)
      /\ Owned(Forget(w, o)) = Owned(w) \ {o}
      /\ Forget(w, o).reported = w.reported \ {o} /\ Forget(w, o).dynamic = w.dynamic
      /\ Forget(w, o).asleep = w.asleep /\ Forget(w, o).target = w.target
      /\ Forget(w, o).said = w.said
  BY <1>1, Forgotten
<1>. QED
  BY <1>2 DEF Sound

-----------------------------------------------------------------------------
(* Claims.                                                                  *)

(* Owned objects that may make room. *)
Sleepers(w) == {i \in 1 .. Len(w.order) : w.order[i] \in bodies /\ ~IsActive(w, w.order[i])}

(* An eviction takes an object at rest, if there is one and the cap is     *)
(* reached, and keeps the books sound.                                     *)
LEMMA Evicted ==
    ASSUME NEW w, Sound(w), bodies \subseteq Object
    PROVE  \/ /\ EvictSleeper(w) = w
              /\ Len(w.order) < Cap \/ \A x \in Owned(w) \cap bodies : IsActive(w, x)
           \/ \E x \in Owned(w) \cap bodies :
                /\ ~IsActive(w, x)
                /\ EvictSleeper(w) = HandBack(Forget(w, x), x)
<1>1. w.order \in Seq(Object) /\ DOMAIN w.order = 1 .. Len(w.order) /\ Len(w.order) \in Nat
  BY LenProperties DEF Sound, BookType
<1>2. Owned(w) = {w.order[i] : i \in 1 .. Len(w.order)}
  BY <1>1 DEF Owned, ToSet
<1> DEFINE i == SelectInSeq(w.order, LAMBDA o : o \in bodies /\ ~IsActive(w, o))
<1>3. i = IF Sleepers(w) # {} THEN Min(Sleepers(w)) ELSE 0
  BY DEF SelectInSeq, Sleepers
<1>4. EvictSleeper(w) = IF Len(w.order) < Cap \/ i = 0 THEN w
                        ELSE HandBack(Forget(w, w.order[i]), w.order[i])
  BY DEF EvictSleeper
<1> HIDE DEF i
<1>5. Sleepers(w) # {} => i \in Sleepers(w)
  <2>1. Sleepers(w) \subseteq Nat
    BY <1>1 DEF Sleepers
  <2>. QED
    BY <1>3, <2>1, LeastIndex
<1>6. CASE Len(w.order) < Cap
  BY <1>4, <1>6
<1>7. CASE Sleepers(w) = {}
  <2>1. \A x \in Owned(w) \cap bodies : IsActive(w, x)
    BY <1>2, <1>7 DEF Sleepers
  <2>. QED
    BY <1>3, <1>4, <1>7, <2>1
<1>8. CASE ~(Len(w.order) < Cap) /\ Sleepers(w) # {}
  <2>1. i \in 1 .. Len(w.order) /\ w.order[i] \in bodies /\ ~IsActive(w, w.order[i])
    BY <1>5, <1>8 DEF Sleepers
  <2>2. i # 0
    BY <1>1, <2>1
  <2>3. EvictSleeper(w) = HandBack(Forget(w, w.order[i]), w.order[i])
    BY <1>4, <1>8, <2>2
  <2>. QED
    BY <1>2, <2>1, <2>3
<1>. QED
  BY <1>6, <1>7, <1>8

(* Claiming an object that is not owned yet. *)
LEMMA Claimed ==
    ASSUME NEW w, Sound(w), bodies \subseteq Object, NEW o \in bodies, o \notin Owned(w),
           NEW t, t = [TakeOver(w, o) EXCEPT !.order = Append(@, o)]
    PROVE  /\ Sound(t) /\ Owned(t) = Owned(w) \cup {o} /\ Len(t.order) = Len(w.order) + 1
           /\ t.dynamic = w.dynamic \cup {o} /\ t.asleep = w.asleep
<1> DEFINE v == TakeOver(w, o)
<1>1. w \in BookType /\ Distinct(w.order) /\ o \in Object /\ o \notin w.dynamic
  BY DEF Sound
<1>2. /\ v \in BookType /\ v.order = w.order /\ v.reported = w.reported
      /\ v.dynamic = w.dynamic \cup {o} /\ v.asleep = w.asleep /\ v.target = w.target \ {o}
      /\ v.said = [w.said EXCEPT ![o] = "nothing"]
  BY <1>1, TakenOver
<1>3. t = [v EXCEPT !.order = Append(v.order, o)]
  OBVIOUS
<1> HIDE DEF v
<1>4. w.order \in Seq(Object) /\ w.said \in [Object -> {"nothing", "moving", "resting"}]
  BY <1>1 DEF BookType
<1>5. /\ Append(w.order, o) \in Seq(Object) /\ Len(Append(w.order, o)) = Len(w.order) + 1
      /\ Distinct(Append(w.order, o)) /\ ToSet(Append(w.order, o)) = Owned(w) \cup {o}
  BY <1>1, <1>4, Appended DEF Owned
<1>6. /\ t.order = Append(w.order, o) /\ t.reported = w.reported /\ t.dynamic = w.dynamic \cup {o}
      /\ t.asleep = w.asleep /\ t.target = w.target \ {o}
      /\ t.said = [w.said EXCEPT ![o] = "nothing"]
  BY <1>2, <1>3 DEF BookType
<1>7. t \in BookType
  <2>1. t = [v EXCEPT !.order = Append(w.order, o)]
    BY <1>2, <1>3
  <2>. QED
    BY <1>2, <1>5, <2>1 DEF BookType
<1>8. Owned(t) = Owned(w) \cup {o}
  BY <1>5, <1>6 DEF Owned
<1>9. \A p \in Object : t.said[p] = IF p = o THEN "nothing" ELSE w.said[p]
  BY <1>4, <1>6
<1>10. w.reported \subseteq Object /\ o \notin w.asleep
  BY <1>1 DEF Sound, BookType
<1>11. \A p \in t.reported : t.said[p] # "moving"
  BY <1>6, <1>9, <1>10 DEF Sound
<1>12. \A p \in t.reported \cap t.asleep : t.said[p] = "resting" \/ p \in unseen
  BY <1>6, <1>9, <1>10 DEF Sound
<1>13. t.dynamic \subseteq bodies /\ t.asleep \subseteq t.dynamic /\ t.target \subseteq bodies
       /\ Distinct(t.order) /\ t.reported \subseteq Owned(t)
       /\ \A p \in bodies : p \in Owned(t) <=> p \in t.dynamic
  BY <1>5, <1>6, <1>8 DEF Sound
<1>14. Sound(t)
  BY <1>7, <1>11, <1>12, <1>13 DEF Sound
<1>. QED
  BY <1>5, <1>6, <1>8, <1>14

(* An object that is touched again moves to the back of the order. *)
LEMMA TouchedAgain ==
    ASSUME NEW w, Sound(w), NEW o \in Object, o \in Owned(w),
           NEW t, t = [w EXCEPT !.order = Append(RemoveFirst(@, o), o)]
    PROVE  Sound(t) /\ Owned(t) = Owned(w) /\ Len(t.order) = Len(w.order)
<1> DEFINE q == RemoveFirst(w.order, o)
<1>1. w \in BookType /\ w.order \in Seq(Object) /\ Distinct(w.order) /\ Len(w.order) \in Nat
  BY LenProperties DEF Sound, BookType
<1>2. /\ q \in Seq(Object) /\ Distinct(q) /\ ToSet(q) = Owned(w) \ {o}
      /\ Len(q) = Len(w.order) - 1
  BY <1>1, RemovedFirst DEF Owned
<1> HIDE DEF q
<1>3. /\ Append(q, o) \in Seq(Object) /\ Len(Append(q, o)) = Len(w.order)
      /\ Distinct(Append(q, o)) /\ ToSet(Append(q, o)) = Owned(w)
  <2>1. /\ Append(q, o) \in Seq(Object) /\ Len(Append(q, o)) = Len(q) + 1
        /\ Distinct(Append(q, o)) /\ ToSet(Append(q, o)) = ToSet(q) \cup {o}
    BY <1>2, Appended
  <2>2. Len(Append(q, o)) = Len(w.order)
    BY <1>1, <1>2, <2>1
  <2>. QED
    BY <1>2, <2>1, <2>2
<1>4. t = [w EXCEPT !.order = Append(q, o)]
  BY DEF q
<1>5. t \in BookType
  BY <1>1, <1>3, <1>4 DEF BookType
<1>6. /\ t.order = Append(q, o) /\ t.reported = w.reported /\ t.dynamic = w.dynamic
      /\ t.asleep = w.asleep /\ t.target = w.target /\ t.said = w.said
  BY <1>1, <1>4 DEF BookType
<1>7. Owned(t) = Owned(w)
  BY <1>3, <1>6 DEF Owned
<1>. QED
  BY <1>3, <1>5, <1>6, <1>7 DEF Sound

(* One object the search reached: the books stay sound, what moves stays   *)
(* owned, and the cap is exceeded only when nothing owned rests.           *)
LEMMA Touching ==
    ASSUME NEW w, Sound(w), bodies \subseteq Object, NEW o \in bodies
    PROVE  /\ Sound(Touch(w, o))
           /\ \A x \in Owned(w) : IsActive(w, x) => x \in Owned(Touch(w, o))
           /\ Len(Touch(w, o).order) > Cap /\ Len(Touch(w, o).order) > Len(w.order)
                => Owned(Touch(w, o)) \cap Touch(w, o).asleep = {}
<1> USE ClientOwnershipAssumption
<1> DEFINE t == Touch(w, o)
           e == EvictSleeper(w)
<1>1. Len(w.order) \in Nat /\ w.asleep \subseteq w.dynamic /\ w.dynamic \subseteq bodies
  BY LenProperties DEF Sound, BookType
<1>2. CASE o \in Owned(w)
  <2>1. t = [w EXCEPT !.order = Append(RemoveFirst(@, o), o)]
    BY <1>2 DEF Touch
  <2>2. Sound(t) /\ Owned(t) = Owned(w) /\ Len(t.order) = Len(w.order)
    BY <1>2, <2>1, TouchedAgain
  <2>. QED
    BY <1>1, <2>2
<1>3. CASE o \notin Owned(w)
  <2>1. t = [TakeOver(e, o) EXCEPT !.order = Append(@, o)]
    BY <1>3 DEF Touch
  <2>2. CASE /\ e = w
             /\ Len(w.order) < Cap \/ \A x \in Owned(w) \cap bodies : IsActive(w, x)
    <3>1. /\ Sound(t) /\ Owned(t) = Owned(w) \cup {o} /\ Len(t.order) = Len(w.order) + 1
          /\ t.asleep = w.asleep
      <4>1. t = [TakeOver(w, o) EXCEPT !.order = Append(@, o)]
        BY <2>1, <2>2
      <4> HIDE DEF t, e
      <4>. QED
        BY <1>3, <4>1, Claimed
    <3>2. o \notin w.asleep
      BY <1>1, <1>3 DEF Sound
    <3>3. ASSUME \A x \in Owned(w) \cap bodies : IsActive(w, x)
          PROVE  Owned(t) \cap t.asleep = {}
      BY <1>1, <3>1, <3>2, <3>3 DEF IsActive
    <3>4. Len(w.order) < Cap => ~(Len(t.order) > Cap)
      BY <1>1, <3>1
    <3>. QED
      BY <2>2, <3>1, <3>3, <3>4
  <2>3. CASE \E x \in Owned(w) \cap bodies :
                 ~IsActive(w, x) /\ e = HandBack(Forget(w, x), x)
    <3>1. PICK x \in Owned(w) \cap bodies : ~IsActive(w, x) /\ e = HandBack(Forget(w, x), x)
      BY <2>3
    <3>2. Sound(e) /\ Owned(e) = Owned(w) \ {x} /\ Len(e.order) = Len(w.order) - 1
      BY <3>1, LetGo
    <3>3. Sound(t) /\ Owned(t) = Owned(e) \cup {o} /\ Len(t.order) = Len(e.order) + 1
      BY ZenonT(40), <1>3, <2>1, <3>2, Claimed
    <3>4. ~(Len(t.order) > Len(w.order))
      BY <1>1, <3>2, <3>3
    <3>. QED
      BY <3>1, <3>2, <3>3, <3>4
  <2>. QED
    BY <2>2, <2>3, Evicted
<1>. QED
  BY <1>2, <1>3

-----------------------------------------------------------------------------
(* Reports.                                                                *)

(* Releasing an object with a last state. *)
LEMMA Released ==
    ASSUME NEW w, Sound(w), bodies \subseteq Object, NEW o \in bodies, o \in Owned(w),
           NEW r, r = HandBack(Forget(Say(w, o), o), o)
    PROVE  /\ Sound(r) /\ Owned(r) = Owned(w) \ {o} /\ Len(r.order) = Len(w.order) - 1
           /\ r.said[o] = IF o \in w.asleep THEN "resting" ELSE "moving"
<1> DEFINE s == Say(w, o)
           f == Forget(s, o)
<1>1. w \in BookType /\ Distinct(w.order) /\ o \in Object /\ w.asleep \subseteq w.dynamic
  BY DEF Sound
<1>2. o \in w.dynamic
  BY DEF Sound
<1>3. /\ s \in BookType /\ s.order = w.order /\ s.reported = w.reported
      /\ s.dynamic = w.dynamic /\ s.asleep = w.asleep /\ s.target = w.target
      /\ \A p \in Object : s.said[p] =
            IF p = o THEN IF IsActive(w, o) THEN "moving" ELSE "resting" ELSE w.said[p]
  BY <1>1, HasSaid
<1> HIDE DEF s
<1>4. /\ f \in BookType /\ Distinct(f.order) /\ Owned(f) = Owned(w) \ {o}
      /\ Len(f.order) = Len(w.order) - 1
      /\ f.reported = w.reported \ {o} /\ f.dynamic = w.dynamic /\ f.asleep = w.asleep
      /\ f.target = w.target /\ f.said = s.said
  BY <1>1, <1>3, Forgotten DEF Owned
<1>5. r = HandBack(f, o)
  BY DEF f, s
<1> HIDE DEF f
<1>6. /\ r \in BookType /\ r.order = f.order /\ r.reported = f.reported
      /\ r.dynamic = f.dynamic \ {o} /\ r.asleep = f.asleep \ {o}
      /\ r.target \subseteq f.target \cup {o} /\ r.said = f.said
  BY <1>1, <1>4, <1>5, HandedBack
<1>7. Owned(r) = Owned(w) \ {o}
  BY <1>4, <1>6 DEF Owned
<1>8. \A p \in r.reported : p \in w.reported /\ p \in Object /\ r.said[p] = w.said[p]
  BY <1>1, <1>3, <1>4, <1>6 DEF BookType
<1>9. Sound(r)
  BY <1>1, <1>4, <1>6, <1>7, <1>8 DEF Sound
<1>10. r.said[o] = IF o \in w.asleep THEN "resting" ELSE "moving"
  BY <1>1, <1>2, <1>3, <1>4, <1>6 DEF IsActive
<1>. QED
  BY <1>4, <1>6, <1>7, <1>9, <1>10

(* Sending the state of an object that moves. *)
LEMMA SaidToMove ==
    ASSUME NEW w, Sound(w), bodies \subseteq Object, NEW o \in bodies, IsActive(w, o),
           NEW r, r = Say([w EXCEPT !.reported = @ \ {o}], o)
    PROVE  Sound(r) /\ r.order = w.order
<1> DEFINE v == [w EXCEPT !.reported = @ \ {o}]
<1>1. w \in BookType /\ o \in Object
  BY DEF Sound
<1>2. /\ v \in BookType /\ v.order = w.order /\ v.reported = w.reported \ {o}
      /\ v.dynamic = w.dynamic /\ v.asleep = w.asleep /\ v.target = w.target /\ v.said = w.said
  BY <1>1 DEF BookType
<1> HIDE DEF v
<1>3. /\ r \in BookType /\ r.order = v.order /\ r.reported = v.reported
      /\ r.dynamic = v.dynamic /\ r.asleep = v.asleep /\ r.target = v.target
      /\ \A p \in Object : p # o => r.said[p] = v.said[p]
  <2>1. r = Say(v, o)
    BY DEF v
  <2>2. /\ Say(v, o) \in BookType
        /\ Say(v, o).order = v.order /\ Say(v, o).reported = v.reported
        /\ Say(v, o).dynamic = v.dynamic /\ Say(v, o).asleep = v.asleep
        /\ Say(v, o).target = v.target
        /\ \A p \in Object : Say(v, o).said[p] =
              IF p = o THEN IF IsActive(v, o) THEN "moving" ELSE "resting" ELSE v.said[p]
    BY <1>1, <1>2, HasSaid
  <2>. QED
    BY <2>1, <2>2
<1>4. \A p \in r.reported : p \in w.reported /\ p \in Object /\ r.said[p] = w.said[p]
  BY <1>1, <1>2, <1>3 DEF BookType
<1>. QED
  BY <1>1, <1>2, <1>3, <1>4 DEF Sound, Owned

(* Sending, once, the state of an owned object at rest. *)
LEMMA SaidToRest ==
    ASSUME NEW w, Sound(w), bodies \subseteq Object, NEW o \in bodies, o \in Owned(w),
           ~IsActive(w, o), NEW r, r = Say([w EXCEPT !.reported = @ \cup {o}], o)
    PROVE  Sound(r) /\ r.order = w.order
<1> DEFINE v == [w EXCEPT !.reported = @ \cup {o}]
<1>1. w \in BookType /\ o \in Object
  BY DEF Sound
<1>2. /\ v \in BookType /\ v.order = w.order /\ v.reported = w.reported \cup {o}
      /\ v.dynamic = w.dynamic /\ v.asleep = w.asleep /\ v.target = w.target /\ v.said = w.said
  BY <1>1 DEF BookType
<1> HIDE DEF v
<1>3. ~IsActive(v, o)
  BY <1>2 DEF IsActive
<1>4. /\ r \in BookType /\ r.order = v.order /\ r.reported = v.reported
      /\ r.dynamic = v.dynamic /\ r.asleep = v.asleep /\ r.target = v.target
      /\ \A p \in Object : r.said[p] = IF p = o THEN "resting" ELSE v.said[p]
  <2>1. r = Say(v, o)
    BY DEF v
  <2>2. /\ Say(v, o) \in BookType
        /\ Say(v, o).order = v.order /\ Say(v, o).reported = v.reported
        /\ Say(v, o).dynamic = v.dynamic /\ Say(v, o).asleep = v.asleep
        /\ Say(v, o).target = v.target
        /\ \A p \in Object : Say(v, o).said[p] =
              IF p = o THEN IF IsActive(v, o) THEN "moving" ELSE "resting" ELSE v.said[p]
    BY <1>1, <1>2, HasSaid
  <2>. QED
    BY <1>3, <2>1, <2>2
<1>5. \A p \in r.reported : p \in Object /\ (r.said[p] = "resting" \/ (p \in w.reported /\ r.said[p] = w.said[p]))
  BY ZenonT(40), <1>1, <1>2, <1>4 DEF BookType
<1>. QED
  BY ZenonT(40), <1>1, <1>2, <1>4, <1>5 DEF Sound, Owned

(* One owned object when states are sent: the books stay sound, and only   *)
(* an object far away or at rest is let go, with a true last state.        *)
LEMMA Reporting ==
    ASSUME NEW w, Sound(w), bodies \subseteq Object, NEW o \in Object, o \in Owned(w)
    PROVE  /\ Sound(Report(w, o))
           /\ Owned(Report(w, o)) \in {Owned(w), Owned(w) \ {o}}
           /\ o \notin Owned(Report(w, o)) /\ o \in bodies =>
                /\ o \in far \/ ~IsActive(w, o)
                /\ Report(w, o).said[o] = IF o \in w.asleep THEN "resting" ELSE "moving"
           /\ ~(Len(Report(w, o).order) > Len(w.order))
<1> DEFINE r == Report(w, o)
<1>1. Len(w.order) \in Nat /\ w \in BookType /\ Distinct(w.order)
  BY LenProperties DEF Sound, BookType
<1>2. CASE o \notin bodies
  <2>1. r = Forget(w, o)
    BY <1>2 DEF Report
  <2>2. Sound(r) /\ Owned(r) = Owned(w) \ {o}
    BY <1>2, <2>1, LetGoOfLost
  <2>3. Len(r.order) = Len(w.order) - 1
    BY <1>1, <2>1, Forgotten
  <2>. QED
    BY <1>1, <1>2, <2>2, <2>3
<1>3. CASE o \in bodies /\ ShouldRelease(w, o)
  <2>1. r = HandBack(Forget(Say(w, o), o), o)
    BY <1>3 DEF Report
  <2>2. /\ Sound(r) /\ Owned(r) = Owned(w) \ {o} /\ Len(r.order) = Len(w.order) - 1
        /\ r.said[o] = IF o \in w.asleep THEN "resting" ELSE "moving"
    BY <1>3, <2>1, Released
  <2>3. o \in far \/ ~IsActive(w, o)
    BY <1>3 DEF ShouldRelease
  <2>. QED
    BY <1>1, <2>2, <2>3
<1>4. CASE o \in bodies /\ ~ShouldRelease(w, o) /\ IsActive(w, o)
  <2>1. r = Say([w EXCEPT !.reported = @ \ {o}], o)
    BY <1>4 DEF Report
  <2>2. Sound(r) /\ r.order = w.order
    BY <1>4, <2>1, SaidToMove
  <2>. QED
    BY <1>1, <2>2 DEF Owned
<1>5. CASE o \in bodies /\ ~ShouldRelease(w, o) /\ ~IsActive(w, o)
  <2>1. CASE o \in w.reported
    BY <1>1, <1>5, <2>1 DEF Report
  <2>2. CASE o \notin w.reported
    <3>1. r = Say([w EXCEPT !.reported = @ \cup {o}], o)
      BY <1>5, <2>2 DEF Report
    <3>2. Sound(r) /\ r.order = w.order
      BY <1>5, <3>1, SaidToRest
    <3>. QED
      BY <1>1, <3>2 DEF Owned
  <2>. QED
    BY <2>1, <2>2
<1>. QED
  BY <1>2, <1>3, <1>4, <1>5
-----------------------------------------------------------------------------
(* The invariant.                                                          *)

(* What a frame still has to go through: touched objects while it claims,  *)
(* owned ones, each once, while it sends.                                  *)
FrameInv ==
    /\ main # "claims" => todo = {}
    /\ main = "sends" =>
          pending # <<>> /\ Distinct(pending) /\ ToSet(pending) \subseteq ToSet(order)

IInv == TypeOK /\ Sound(Books) /\ FrameInv

(* The fields of the books are the variables. *)
LEMMA BooksFields ==
    /\ Books.order = order /\ Books.reported = reported /\ Books.dynamic = dynamic
    /\ Books.asleep = asleep /\ Books.target = target /\ Books.said = said
    /\ Owned(Books) = ToSet(order)
    /\ \A o : IsActive(Books, o) <=> o \in dynamic /\ o \notin asleep
BY DEF Books, Owned, IsActive

(* Sound books, in terms of the variables. *)
SoundVariables ==
    /\ order \in Seq(Object) /\ reported \subseteq Object /\ dynamic \subseteq Object
    /\ asleep \subseteq Object /\ target \subseteq Object
    /\ said \in [Object -> {"nothing", "moving", "resting"}]
    /\ dynamic \subseteq bodies /\ asleep \subseteq dynamic /\ target \subseteq bodies
    /\ Distinct(order)
    /\ reported \subseteq ToSet(order)
    /\ \A o \in bodies : o \in ToSet(order) <=> o \in dynamic
    /\ \A o \in reported : said[o] # "moving"
    /\ \A o \in reported \cap asleep : said[o] = "resting" \/ o \in unseen

LEMMA SoundBooks == Sound(Books) <=> SoundVariables
<1>1. Books \in BookType <=>
        /\ order \in Seq(Object) /\ reported \subseteq Object /\ dynamic \subseteq Object
        /\ asleep \subseteq Object /\ target \subseteq Object
        /\ said \in [Object -> {"nothing", "moving", "resting"}]
  BY DEF Books, BookType
<1>. QED
  BY <1>1, BooksFields DEF Sound, SoundVariables

(* The same after a step. *)
LEMMA SoundBooksAfter == Sound(Books)' <=> SoundVariables'
<1>1. Books' \in BookType <=>
        /\ order' \in Seq(Object) /\ reported' \subseteq Object /\ dynamic' \subseteq Object
        /\ asleep' \subseteq Object /\ target' \subseteq Object
        /\ said' \in [Object -> {"nothing", "moving", "resting"}]
  BY DEF Books, BookType
<1>2. /\ Books'.order = order' /\ Books'.reported = reported' /\ Books'.dynamic = dynamic'
      /\ Books'.asleep = asleep' /\ Books'.target = target' /\ Books'.said = said'
  BY DEF Books
<1>. QED
  BY <1>1, <1>2 DEF Sound, SoundVariables, Owned

(* Books changed soundly are sound, and the variables keep their types. *)
LEMMA SoundCarried ==
    ASSUME TypeOK, NEW w, Sound(w), Becomes(w), UNCHANGED worldVars
    PROVE  /\ Sound(Books)'
           /\ order' = w.order /\ ToSet(order') = Owned(w)
           /\ order' \in Seq(Object) /\ reported' \subseteq Object
           /\ dynamic' \subseteq bodies' /\ asleep' \subseteq dynamic' /\ target' \subseteq bodies'
           /\ said' \in [Object -> {"nothing", "moving", "resting"}]
           /\ unseen' \subseteq asleep'
<1>1. /\ w.order \in Seq(Object) /\ w.reported \subseteq Object /\ w.dynamic \subseteq Object
      /\ w.asleep \subseteq Object /\ w.target \subseteq Object
      /\ w.said \in [Object -> {"nothing", "moving", "resting"}]
  BY DEF Sound, BookType
<1>2. /\ order' = w.order /\ reported' = w.reported /\ dynamic' = w.dynamic
      /\ asleep' = w.asleep /\ target' = w.target /\ said' = w.said
      /\ unseen' = unseen \cap w.asleep /\ bodies' = bodies
  BY DEF Becomes, worldVars
<1>3. \A o \in w.reported \cap w.asleep : w.said[o] = "resting" \/ o \in unseen \cap w.asleep
  BY DEF Sound
<1>4. Sound(Books)'
  <2>1. /\ w.dynamic \subseteq bodies /\ w.asleep \subseteq w.dynamic /\ w.target \subseteq bodies
        /\ Distinct(w.order) /\ w.reported \subseteq ToSet(w.order)
        /\ \A o \in bodies : o \in ToSet(w.order) <=> o \in w.dynamic
        /\ \A o \in w.reported : w.said[o] # "moving"
    BY DEF Sound, Owned
  <2>2. Distinct(order')
    BY <1>2, <2>1
  <2>. QED
    BY <1>1, <1>2, <1>3, <2>1, <2>2, SoundBooksAfter DEF SoundVariables
<1>. QED
  BY <1>1, <1>2, <1>4 DEF Sound, Owned

(* Initially nothing is owned. *)
LEMMA InitInv == Init => IInv
<1> SUFFICES ASSUME Init PROVE IInv
  OBVIOUS
<1>1. order = <<>> /\ order \in Seq(Object) /\ ToSet(order) = {} /\ Distinct(order)
  BY DEF Init, ToSet, Distinct
<1>2. TypeOK
  BY <1>1 DEF Init, TypeOK
<1>3. Sound(Books)
  BY <1>1, SoundBooks DEF Init, SoundVariables
<1>. QED
  BY <1>2, <1>3 DEF IInv, FrameInv, Init

-----------------------------------------------------------------------------
(* One lemma per action.                                                   *)

LEMMA BeginFrameInv == IInv /\ BeginFrame => IInv'
<1> SUFFICES ASSUME IInv, BeginFrame PROVE IInv'
  OBVIOUS
<1>1. TypeOK' /\ FrameInv'
  BY DEF IInv, TypeOK, FrameInv, BeginFrame, worldVars, bookVars
<1>2. Sound(Books)'
  BY SoundBooks DEF SoundVariables, IInv, BeginFrame, worldVars, bookVars, Sound, Books
<1>. QED
  BY <1>1, <1>2 DEF IInv

LEMMA ClaimOneInv == IInv /\ ClaimOne => IInv'
<1> SUFFICES ASSUME IInv, ClaimOne PROVE IInv'
  OBVIOUS
<1>1. PICK o \in todo : todo' = todo \ {o} /\ Becomes(Touch(Books, o))
  BY DEF ClaimOne
<1>2. o \in bodies /\ bodies \subseteq Object /\ UNCHANGED worldVars
  BY DEF IInv, TypeOK, ClaimOne
<1>3. Sound(Touch(Books, o))
  BY <1>2, Touching DEF IInv
<1>4. /\ Sound(Books)'
      /\ order' \in Seq(Object) /\ reported' \subseteq Object
      /\ dynamic' \subseteq bodies' /\ asleep' \subseteq dynamic' /\ target' \subseteq bodies'
      /\ said' \in [Object -> {"nothing", "moving", "resting"}]
      /\ unseen' \subseteq asleep'
  BY <1>1, <1>2, <1>3, SoundCarried DEF IInv
<1>5. TypeOK' /\ FrameInv'
  BY <1>1, <1>2, <1>4 DEF IInv, TypeOK, FrameInv, ClaimOne, worldVars
<1>. QED
  BY <1>4, <1>5 DEF IInv

LEMMA EndFrameInv == IInv /\ EndFrame => IInv'
<1> SUFFICES ASSUME IInv, EndFrame PROVE IInv'
  OBVIOUS
<1>1. TypeOK' /\ FrameInv'
  BY DEF IInv, TypeOK, FrameInv, EndFrame, worldVars, bookVars
<1>2. Sound(Books)'
  BY DEF IInv, EndFrame, worldVars, bookVars, Sound, Books
<1>. QED
  BY <1>1, <1>2 DEF IInv

LEMMA StatesAreDueInv == IInv /\ StatesAreDue => IInv'
<1> SUFFICES ASSUME IInv, StatesAreDue PROVE IInv'
  OBVIOUS
<1>1. TypeOK'
  BY DEF IInv, TypeOK, StatesAreDue, worldVars, bookVars
<1>2. Distinct(order)
  BY SoundBooks DEF SoundVariables, IInv
<1>3. FrameInv'
  BY <1>2 DEF IInv, FrameInv, StatesAreDue, bookVars
<1>4. Sound(Books)'
  BY DEF IInv, StatesAreDue, worldVars, bookVars, Sound, Books
<1>. QED
  BY <1>1, <1>3, <1>4 DEF IInv

LEMMA SendOneInv == IInv /\ SendOne => IInv'
<1> SUFFICES ASSUME IInv, SendOne PROVE IInv'
  OBVIOUS
<1> DEFINE o == Head(pending)
<1>1. /\ pending # <<>> /\ Distinct(pending) /\ ToSet(pending) \subseteq ToSet(order)
      /\ pending \in Seq(Object) /\ bodies \subseteq Object /\ UNCHANGED worldVars
      /\ Becomes(Report(Books, o)) /\ TypeOK
  BY DEF IInv, TypeOK, FrameInv, SendOne
<1>2. /\ o \in ToSet(pending) /\ Tail(pending) \in Seq(Object) /\ Distinct(Tail(pending))
      /\ ToSet(Tail(pending)) = ToSet(pending) \ {o}
  BY <1>1, TailOf
<1>3. o \in Object /\ o \in Owned(Books)
  BY <1>1, <1>2, ElementOfSeq, BooksFields, HeadTailProperties
<1> HIDE DEF o
<1>4. Sound(Report(Books, o)) /\ Owned(Report(Books, o)) \in {Owned(Books), Owned(Books) \ {o}}
  BY <1>1, <1>3, Reporting DEF IInv
<1>5. /\ Sound(Books)' /\ ToSet(order') = Owned(Report(Books, o))
      /\ order' \in Seq(Object) /\ reported' \subseteq Object
      /\ dynamic' \subseteq bodies' /\ asleep' \subseteq dynamic' /\ target' \subseteq bodies'
      /\ said' \in [Object -> {"nothing", "moving", "resting"}]
      /\ unseen' \subseteq asleep'
  BY <1>1, <1>4, SoundCarried
<1>6. TypeOK'
  BY <1>1, <1>2, <1>5 DEF TypeOK, SendOne, worldVars
<1>7. FrameInv'
  <2>1. main' = "sends" => Tail(pending) # <<>>
    BY DEF SendOne
  <2>2. ToSet(Tail(pending)) \subseteq ToSet(order')
    BY <1>1, <1>2, <1>4, <1>5, BooksFields
  <2>3. main = "sends" /\ main' # "claims" /\ todo' = todo /\ pending' = Tail(pending)
    BY DEF SendOne
  <2>. QED
    BY <1>2, <2>1, <2>2, <2>3 DEF FrameInv, IInv
<1>. QED
  BY <1>5, <1>6, <1>7 DEF IInv

LEMMA FallAsleepInv == \A o \in Object : IInv /\ FallAsleep(o) => IInv'
<1> SUFFICES ASSUME NEW o \in Object, IInv, FallAsleep(o) PROVE IInv'
  OBVIOUS
<1>1. TypeOK' /\ FrameInv'
  BY DEF IInv, TypeOK, FrameInv, FallAsleep, worldVars, frameVars
<1>2. \A p \in reported' \cap asleep' : said'[p] = "resting" \/ p \in unseen'
  BY SoundBooks DEF SoundVariables, IInv, FallAsleep
<1>3. Sound(Books)'
  BY <1>1, <1>2, SoundBooks, SoundBooksAfter DEF IInv, TypeOK, FallAsleep, worldVars, Distinct,
     SoundVariables
<1>. QED
  BY <1>1, <1>3 DEF IInv

LEMMA WakeUpInv == \A o \in Object : IInv /\ WakeUp(o) => IInv'
<1> SUFFICES ASSUME NEW o \in Object, IInv, WakeUp(o) PROVE IInv'
  OBVIOUS
<1>1. TypeOK' /\ FrameInv'
  BY DEF IInv, TypeOK, FrameInv, WakeUp, worldVars, frameVars
<1>2. \A p \in Object : said'[p] = IF p = o THEN "nothing" ELSE said[p]
  BY DEF IInv, TypeOK, WakeUp
<1>3. reported \subseteq Object
  BY DEF IInv, TypeOK
<1>4. Sound(Books)'
  BY <1>1, <1>2, <1>3, SoundBooks, SoundBooksAfter
  DEF IInv, TypeOK, WakeUp, worldVars, Distinct, SoundVariables
<1>. QED
  BY <1>1, <1>4 DEF IInv

LEMMA VanishInv == \A o \in Object : IInv /\ Vanish(o) => IInv'
<1> SUFFICES ASSUME NEW o \in Object, IInv, Vanish(o) PROVE IInv'
  OBVIOUS
<1>1. TypeOK' /\ FrameInv'
  BY DEF IInv, TypeOK, FrameInv, Vanish, frameVars
<1>2. \A p \in Object : said'[p] = IF p = o THEN "nothing" ELSE said[p]
  BY DEF IInv, TypeOK, Vanish
<1>3. reported \subseteq Object
  BY DEF IInv, TypeOK
<1>4. Sound(Books)'
  BY <1>1, <1>2, <1>3, SoundBooks, SoundBooksAfter
  DEF IInv, TypeOK, Vanish, Distinct, SoundVariables
<1>. QED
  BY <1>1, <1>4 DEF IInv

LEMMA MoveInv == \A o \in Object : IInv /\ Move(o) => IInv'
<1> SUFFICES ASSUME NEW o \in Object, IInv, Move(o) PROVE IInv'
  OBVIOUS
<1>1. TypeOK' /\ FrameInv'
  BY DEF IInv, TypeOK, FrameInv, Move, frameVars, bookVars
<1>2. Sound(Books)'
  BY DEF IInv, Move, bookVars, Sound, Books
<1>. QED
  BY <1>1, <1>2 DEF IInv

LEMMA DieOrRespawnInv == IInv /\ DieOrRespawn => IInv'
<1> SUFFICES ASSUME IInv, DieOrRespawn PROVE IInv'
  OBVIOUS
<1>1. TypeOK' /\ FrameInv'
  BY DEF IInv, TypeOK, FrameInv, DieOrRespawn, frameVars, bookVars
<1>2. Sound(Books)'
  BY DEF IInv, DieOrRespawn, bookVars, Sound, Books
<1>. QED
  BY <1>1, <1>2 DEF IInv

LEMMA ReceiveStateInv == \A o \in Object : IInv /\ ReceiveState(o) => IInv'
<1> SUFFICES ASSUME NEW o \in Object, IInv, ReceiveState(o) PROVE IInv'
  OBVIOUS
<1>1. TypeOK' /\ FrameInv'
  BY DEF IInv, TypeOK, FrameInv, ReceiveState, worldVars, frameVars, bookVars
<1>2. Sound(Books)'
  BY DEF IInv, ReceiveState, worldVars, bookVars, Sound, Books
<1>. QED
  BY <1>1, <1>2 DEF IInv

LEMMA ApplyStateInv == IInv /\ ApplyState => IInv'
<1> SUFFICES ASSUME IInv, ApplyState PROVE IInv'
  OBVIOUS
<1>1. TypeOK' /\ FrameInv'
  BY DEF IInv, TypeOK, FrameInv, ApplyState, worldVars, frameVars
<1>2. Sound(Books)'
  BY <1>1, SoundBooks, SoundBooksAfter DEF IInv, TypeOK, ApplyState, worldVars, Distinct,
     SoundVariables
<1>. QED
  BY <1>1, <1>2 DEF IInv

(* Every step keeps the invariant. *)
LEMMA NextInv == IInv /\ [Next]_vars => IInv'
<1> SUFFICES ASSUME IInv, [Next]_vars PROVE IInv'
  OBVIOUS
<1>1. CASE UNCHANGED vars
  <2>1. TypeOK' /\ FrameInv'
    BY <1>1 DEF IInv, TypeOK, FrameInv, vars, worldVars, frameVars, bookVars
  <2>2. Sound(Books)'
    BY <1>1 DEF IInv, vars, worldVars, bookVars, Sound, Books
  <2>. QED
    BY <2>1, <2>2 DEF IInv
<1>2. CASE Frame
  BY <1>2, BeginFrameInv, ClaimOneInv, EndFrameInv, StatesAreDueInv, SendOneInv DEF Frame
<1>3. CASE World
  BY <1>3, DieOrRespawnInv, FallAsleepInv, WakeUpInv, VanishInv, MoveInv DEF World
<1>4. CASE UdpThread
  BY <1>4, ApplyStateInv, ReceiveStateInv DEF UdpThread
<1>. QED
  BY <1>1, <1>2, <1>3, <1>4 DEF Next

LEMMA Invariant == Spec => []IInv
BY InitInv, NextInv, PTL DEF Spec

-----------------------------------------------------------------------------

(* The books of ownership tell the truth about the bodies and about what   *)
(* the other parties were told, however claims, evictions, releases,       *)
(* destructions and states from the network follow each other              *)
(* (ClientOwnership::update).                                              *)
THEOREM BooksStayRight == Spec => []BooksAreRight
<1>1. IInv => BooksAreRight
  <2> SUFFICES ASSUME IInv PROVE BooksAreRight
    OBVIOUS
  <2>1. BooksAgree
    BY SoundBooks DEF SoundVariables, IInv, BooksAgree, Distinct
  <2>2. SilentOnlyAtRest
    BY SoundBooks DEF SoundVariables, IInv, SilentOnlyAtRest
  <2>. QED
    BY <2>1, <2>2 DEF BooksAreRight, IInv
<1>. QED
  BY <1>1, Invariant, PTL

(* A step changes the order of ownership only by a claim or a report. *)
LEMMA OrderChanges ==
    ASSUME IInv, [Next]_vars
    PROVE  \/ order' = order
           \/ /\ main = "claims" /\ UNCHANGED worldVars
              /\ \E o \in bodies : Becomes(Touch(Books, o))
           \/ /\ UNCHANGED worldVars /\ Becomes(Report(Books, Head(pending)))
              /\ Head(pending) \in Object /\ Head(pending) \in Owned(Books)
<1>1. CASE ClaimOne
  BY <1>1 DEF ClaimOne, IInv, TypeOK
<1>2. CASE SendOne
  <2>1. /\ pending # <<>> /\ Distinct(pending) /\ ToSet(pending) \subseteq ToSet(order)
        /\ pending \in Seq(Object)
    BY <1>2 DEF IInv, TypeOK, FrameInv, SendOne
  <2>2. Head(pending) \in ToSet(pending) /\ Head(pending) \in Object
    BY <2>1, TailOf, HeadTailProperties
  <2>. QED
    BY <1>2, <2>1, <2>2, BooksFields DEF SendOne
<1>3. CASE ~ClaimOne /\ ~SendOne
  <2>1. CASE UNCHANGED vars
    BY <2>1 DEF vars, bookVars
  <2>2. CASE BeginFrame \/ EndFrame \/ StatesAreDue
    BY <2>2 DEF BeginFrame, EndFrame, StatesAreDue, bookVars
  <2>3. CASE World
    BY <2>3 DEF World, DieOrRespawn, FallAsleep, WakeUp, Vanish, Move, bookVars
  <2>4. CASE UdpThread
    BY <2>4 DEF UdpThread, ApplyState, ReceiveState, bookVars
  <2>. QED
    BY <1>3, <2>1, <2>2, <2>3, <2>4 DEF Next, Frame
<1>. QED
  BY <1>1, <1>2, <1>3

(* The cap never costs an object that moves its owner, and is exceeded     *)
(* only when everything owned moves (ClientOwnership::evictOneIfNeeded and *)
(* the claim that follows it).                                             *)
THEOREM MovingAreSpared == Spec => CapSparesTheMoving
<1>1. IInv /\ [Next]_vars
        => /\ \A o \in ToSet(order) \cap (dynamic \ asleep) :
                 o \in far \/ o \notin bodies' \/ o \in ToSet(order')
           /\ Len(order') > Cap /\ Len(order') > Len(order)
                => ToSet(order') \cap asleep' = {}
  <2> SUFFICES ASSUME IInv, [Next]_vars
               PROVE  /\ \A o \in ToSet(order) \cap (dynamic \ asleep) :
                            o \in far \/ o \notin bodies' \/ o \in ToSet(order')
                      /\ Len(order') > Cap /\ Len(order') > Len(order)
                           => ToSet(order') \cap asleep' = {}
    OBVIOUS
  <2>1. TypeOK /\ Sound(Books) /\ bodies \subseteq Object /\ Len(order) \in Nat
    BY LenProperties DEF IInv, TypeOK
  <2>2. CASE order' = order
    BY <2>1, <2>2
  <2>3. CASE UNCHANGED worldVars /\ \E o \in bodies : Becomes(Touch(Books, o))
    <3>1. PICK o \in bodies : Becomes(Touch(Books, o))
      BY <2>3
    <3>2. /\ Sound(Touch(Books, o))
          /\ \A x \in Owned(Books) : IsActive(Books, x) => x \in Owned(Touch(Books, o))
          /\ Len(Touch(Books, o).order) > Cap /\ Len(Touch(Books, o).order) > Len(Books.order)
               => Owned(Touch(Books, o)) \cap Touch(Books, o).asleep = {}
      BY <2>1, Touching
    <3>3. order' = Touch(Books, o).order /\ ToSet(order') = Owned(Touch(Books, o))
      BY <2>1, <2>3, <3>1, <3>2, SoundCarried
    <3>4. asleep' = Touch(Books, o).asleep
      BY <3>1 DEF Becomes
    <3>. QED
      BY <3>2, <3>3, <3>4, BooksFields
  <2>4. CASE /\ UNCHANGED worldVars /\ Becomes(Report(Books, Head(pending)))
             /\ Head(pending) \in Object /\ Head(pending) \in Owned(Books)
    <3> DEFINE o == Head(pending)
               r == Report(Books, o)
    <3>1. /\ Sound(r) /\ Owned(r) \in {Owned(Books), Owned(Books) \ {o}}
          /\ o \notin Owned(r) /\ o \in bodies => o \in far \/ ~IsActive(Books, o)
          /\ ~(Len(r.order) > Len(Books.order))
      BY <2>1, <2>4, Reporting
    <3>2. order' = r.order /\ ToSet(order') = Owned(r) /\ bodies' = bodies
      BY <2>1, <2>4, <3>1, SoundCarried DEF worldVars
    <3> HIDE DEF o, r
    <3>. QED
      BY <3>1, <3>2, BooksFields
  <2>. QED
    BY <2>2, <2>3, <2>4, OrderChanges
<1>. QED
  BY <1>1, Invariant, PTL DEF Spec, CapSparesTheMoving, MovingObjectsKept, CapYieldsOnlyToMoving

(* The last state sent of an object is its state when it is handed back,   *)
(* unless a claim evicts it (the release branch of ClientOwnership::update *)
(* sends a last state before setBodyNetworkMode).                          *)
THEOREM LastWordStays == Spec => LastWordIsCurrent
<1>1. IInv /\ [Next]_vars
        => \A o \in ToSet(order) \ ToSet(order') :
              \/ o \notin bodies \/ main = "claims"
              \/ said'[o] = IF o \in asleep THEN "resting" ELSE "moving"
  <2> SUFFICES ASSUME IInv, [Next]_vars, NEW x \in ToSet(order) \ ToSet(order'),
                      x \in bodies, main # "claims"
               PROVE  said'[x] = IF x \in asleep THEN "resting" ELSE "moving"
    OBVIOUS
  <2>1. TypeOK /\ Sound(Books) /\ bodies \subseteq Object
    BY DEF IInv, TypeOK
  <2> DEFINE o == Head(pending)
             r == Report(Books, o)
  <2>2. UNCHANGED worldVars /\ Becomes(r) /\ o \in Object /\ o \in Owned(Books)
    BY OrderChanges
  <2>3. /\ Sound(r) /\ Owned(r) \in {Owned(Books), Owned(Books) \ {o}}
        /\ o \notin Owned(r) /\ o \in bodies =>
             r.said[o] = IF o \in Books.asleep THEN "resting" ELSE "moving"
    BY <2>1, <2>2, Reporting
  <2>4. ToSet(order') = Owned(r) /\ said' = r.said
    BY <2>1, <2>2, <2>3, SoundCarried DEF Becomes
  <2> HIDE DEF o, r
  <2>. QED
    BY <2>3, <2>4, BooksFields
<1>. QED
  BY <1>1, Invariant, PTL DEF Spec, LastWordIsCurrent

-----------------------------------------------------------------------------
(* The search for what the player touches.                                 *)

RouteTo(x, n) == \E p \in [0..n -> loose] : Route(p, n) /\ p[n] = x

\* How a node got onto the stack.
Offered(n) ==
    IF n.depth = 0 THEN n.id \in touched
    ELSE \E y \in loose : n.id \in BodyCollisions(y) /\ RouteTo(y, n.depth - 1)

OnRoute == \A i \in 1..Len(frontier) : Offered(frontier[i])

\* What the player touches waits on the stack until it is visited.
InHand == \A x \in touched : x \in visited \/ \E i \in 1..Len(frontier) : frontier[i].id = x

SearchInv == SearchTypeOK /\ OnRoute /\ NothingOutOfReach /\ InHand

Node == [id : Things, depth : 0..MaxDepth]

----------------------------------------------------------------------------
(* Lemmas about the stack and about routes *)

LEMMA StackTop ==
    ASSUME NEW S, NEW s \in Seq(S), s # <<>>
    PROVE  /\ Len(s) \in Nat /\ Len(s) > 0
           /\ s[Len(s)] \in S
           /\ SubSeq(s, 1, Len(s) - 1) \in Seq(S)
           /\ Len(SubSeq(s, 1, Len(s) - 1)) = Len(s) - 1
           /\ \A i \in 1..Len(s) - 1 : SubSeq(s, 1, Len(s) - 1)[i] = s[i]
  <1>1. Len(s) \in Nat /\ Len(s) > 0 /\ \A i \in 1..Len(s) : s[i] \in S
    BY EmptySeq, LenProperties, ElementOfSeq
  <1> DEFINE m == Len(s) - 1
  <1>2. m \in Int /\ \A i \in 1..m : s[i] \in S
    BY <1>1
  <1> DEFINE r == SubSeq(s, 1, m)
  <1>3. /\ r \in Seq(S)
        /\ Len(r) = IF 1 <= m THEN m - 1 + 1 ELSE 0
        /\ \A i \in 1..m - 1 + 1 : r[i] = s[1 + i - 1]
    BY <1>2, SubSeqProperties
  <1> HIDE DEF r
  <1>4. Len(r) = m /\ \A i \in 1..m : r[i] = s[i]
    <2>1. ASSUME NEW i \in 1..m
          PROVE  r[i] = s[i]
      <3>1. i \in 1..m - 1 + 1 /\ 1 + i - 1 = i
        BY <1>1, <2>1
      <3> QED
        BY <1>3, <3>1
    <2>2. m \in Nat
      BY <1>1
    <2>3. CASE 1 <= m
      <3>1. Len(r) = m - 1 + 1
        BY <1>3, <2>3
      <3> QED
        BY <2>1, <2>2, <3>1
    <2>4. CASE ~(1 <= m)
      <3>1. Len(r) = 0
        BY <1>3, <2>4, Zenon
      <3>2. m = 0
        <4>1. \A k \in Nat : k > 0 /\ ~(1 <= k - 1) => k - 1 = 0
          OBVIOUS
        <4> QED
          BY <1>1, <2>4, <4>1, Zenon
      <3> QED
        BY <2>1, <3>1, <3>2
    <2> QED
      BY <2>3, <2>4
  <1> QED
    BY <1>1, <1>3, <1>4 DEF r

LEMMA OrdersAreSequences ==
    ASSUME NEW S, IsFiniteSet(S), NEW s \in Orders(S)
    PROVE  /\ s \in Seq(S)
           /\ \A x \in S : \E i \in 1..Len(s) : s[i] = x
  <1>1. Cardinality(S) \in Nat
    BY FS_CardinalityType
  <1>2. s \in [1..Cardinality(S) -> S]
    BY DEF Orders
  <1>3. s \in Seq(S) /\ Len(s) = Cardinality(S)
    BY <1>1, <1>2, SeqDef, LenProperties
  <1> QED
    BY <1>2, <1>3 DEF Orders

LEMMA NodesAreNodes ==
    ASSUME NEW s \in Seq(Things), NEW d \in 0..MaxDepth
    PROVE  /\ Nodes(s, d) \in Seq(Node)
           /\ Len(Nodes(s, d)) = Len(s)
           /\ \A i \in 1..Len(s) : Nodes(s, d)[i] = [id |-> s[i], depth |-> d]
  <1> DEFINE t == Nodes(s, d)
  <1>1. Len(s) \in Nat /\ DOMAIN s = 1..Len(s) /\ \A i \in 1..Len(s) : s[i] \in Things
    BY LenProperties, ElementOfSeq
  <1>2. DOMAIN t = 1..Len(s) /\ \A i \in 1..Len(s) : t[i] = [id |-> s[i], depth |-> d]
    BY <1>1 DEF Nodes
  <1>3. t \in [1..Len(s) -> Node]
    BY <1>1 DEF Nodes, Node
  <1>4. t \in Seq(Node) /\ Len(t) = Len(s)
    BY <1>1, <1>3, SeqDef, LenProperties
  <1> QED
    BY <1>2, <1>4

\* A movable thing that was offered has a route of its own.
LEMMA RouteGoesOn ==
    ASSUME SearchTypeOK, NEW n \in Node, Offered(n), n.id \in loose
    PROVE  RouteTo(n.id, n.depth)
  <1>1. CASE n.depth = 0
    <2> DEFINE p == [i \in 0..0 |-> n.id]
    <2>1. p \in [0..0 -> loose] /\ p[0] = n.id
      OBVIOUS
    <2>2. Route(p, 0)
      BY <1>1, <2>1 DEF Route, Offered
    <2> QED
      BY <1>1, <2>1, <2>2 DEF RouteTo
  <1>2. CASE n.depth # 0
    <2>1. n.depth \in Nat /\ n.depth - 1 \in Nat
      BY <1>2, SearchAssumption DEF Node
    <2>2. PICK y \in loose : n.id \in BodyCollisions(y) /\ RouteTo(y, n.depth - 1)
      BY <1>2 DEF Offered
    <2>3. PICK p \in [0..n.depth - 1 -> loose] : Route(p, n.depth - 1) /\ p[n.depth - 1] = y
      BY <2>2 DEF RouteTo
    <2> DEFINE q == [i \in 0..n.depth |-> IF i = n.depth THEN n.id ELSE p[i]]
    <2>4. q \in [0..n.depth -> loose] /\ q[n.depth] = n.id
      BY <2>1
    <2>5. q[0] \in touched
      BY <1>2, <2>1, <2>3 DEF Route
    <2>6. \A i \in 0..n.depth - 1 : q[i+1] \in BodyCollisions(q[i])
      <3> SUFFICES ASSUME NEW i \in 0..n.depth - 1
                   PROVE  q[i+1] \in BodyCollisions(q[i])
        OBVIOUS
      <3>1. CASE i = n.depth - 1
        BY <2>1, <2>2, <2>3, <3>1
      <3>2. CASE i # n.depth - 1
        <4>1. i \in 0..(n.depth - 1) - 1
          BY <2>1, <3>2
        <4>2. q[i] = p[i] /\ q[i+1] = p[i+1]
          BY <2>1, <4>1
        <4> QED
          BY <2>3, <4>1, <4>2 DEF Route
      <3> QED
        BY <3>1, <3>2
    <2>7. Route(q, n.depth)
      BY <2>4, <2>5, <2>6 DEF Route
    <2> QED
      BY <2>4, <2>7 DEF RouteTo
  <1> QED
    BY <1>1, <1>2

----------------------------------------------------------------------------
(* The invariant *)

LEMMA ThingsFinite ==
    ASSUME NEW S \in SUBSET Things
    PROVE  IsFiniteSet(S)
  BY SearchAssumption, FS_Subset

LEMMA SearchInitHolds == SearchInit => SearchInv
  <1> SUFFICES ASSUME SearchInit PROVE SearchInv
    OBVIOUS
  <1>1. touched \subseteq Things /\ IsFiniteSet(touched)
    BY ThingsFinite DEF SearchInit
  <1>2. PICK s \in Orders(touched) : frontier = Nodes(s, 0)
    BY DEF SearchInit
  <1>3. s \in Seq(touched) /\ \A x \in touched : \E i \in 1..Len(s) : s[i] = x
    BY <1>1, OrdersAreSequences
  <1>4. s \in Seq(Things) /\ \A i \in 1..Len(s) : s[i] \in touched
    BY <1>1, <1>3, SeqMonotonic, ElementOfSeq
  <1>5. 0 \in 0..MaxDepth
    BY SearchAssumption
  <1>6. /\ frontier \in Seq(Node) /\ Len(frontier) = Len(s)
        /\ \A i \in 1..Len(s) : frontier[i] = [id |-> s[i], depth |-> 0]
    BY <1>2, <1>4, <1>5, NodesAreNodes
  <1>a. /\ Len(s) \in Nat
        /\ \A i \in 1..Len(s) : frontier[i].id = s[i] /\ frontier[i].depth = 0
    <2>1. ASSUME NEW i \in 1..Len(s)
          PROVE  frontier[i].id = s[i] /\ frontier[i].depth = 0
      <3>1. frontier[i] = [id |-> s[i], depth |-> 0]
        BY <1>6, <2>1, Zenon
      <3> QED
        BY <3>1
    <2>2. Len(s) \in Nat
      BY <1>4, LenProperties
    <2> QED
      BY <2>1, <2>2
  <1>7. SearchTypeOK
    BY <1>5, <1>6 DEF SearchInit, SearchTypeOK, Node
  <1>8. OnRoute
    BY <1>4, <1>6, <1>a DEF OnRoute, Offered
  <1>9. InHand
    BY <1>3, <1>6, <1>a DEF InHand
  <1>10. NothingOutOfReach
    BY DEF SearchInit, NothingOutOfReach
  <1> QED
    BY <1>7, <1>8, <1>9, <1>10 DEF SearchInv

\* What is taken from the stack, and what stays on it.
LEMMA Popped ==
    ASSUME SearchInv, frontier # <<>>
    PROVE  /\ Top \in Node /\ Offered(Top)
           /\ Rest \in Seq(Node)
           /\ \A i \in 1..Len(Rest) : Offered(Rest[i])
           /\ \A x \in touched : \/ x \in visited \/ x = Top.id
                                  \/ \E i \in 1..Len(Rest) : Rest[i].id = x
  <1>1. frontier \in Seq(Node)
    BY DEF SearchInv, SearchTypeOK, Node
  <1>2. /\ Len(frontier) \in Nat /\ Len(frontier) > 0
        /\ Top \in Node
        /\ Rest \in Seq(Node)
        /\ Len(Rest) = Len(frontier) - 1
        /\ \A i \in 1..Len(frontier) - 1 : Rest[i] = frontier[i]
    BY <1>1, StackTop DEF Top, Rest
  <1> QED
    BY <1>2 DEF SearchInv, OnRoute, InHand, Top

LEMMA AlreadyVisitedKeeps == SearchInv /\ AlreadyVisited => SearchInv'
  <1> SUFFICES ASSUME SearchInv, AlreadyVisited PROVE SearchInv'
    OBVIOUS
  <1>1. frontier # <<>> /\ Top.id \in visited /\ frontier' = Rest
    BY DEF AlreadyVisited
  <1>2. UNCHANGED <<touched, contacts, loose, visited, candidates>>
    BY DEF AlreadyVisited, world
  <1>3. SearchTypeOK'
    BY <1>1, <1>2, Popped DEF SearchInv, SearchTypeOK, Node
  <1>4. OnRoute'
    <2>1. \A i \in 1..Len(frontier') : Offered(frontier'[i])
      BY <1>1, Popped
    <2> QED
      BY <1>2, <2>1 DEF OnRoute, Offered, RouteTo, Route, BodyCollisions
  <1>5. InHand'
    BY <1>1, <1>2, Popped DEF InHand
  <1>6. NothingOutOfReach'
    BY <1>2 DEF SearchInv, NothingOutOfReach, InReach, Route, BodyCollisions
  <1> QED
    BY <1>3, <1>4, <1>5, <1>6 DEF SearchInv

LEMMA NotMovableKeeps == SearchInv /\ NotMovable => SearchInv'
  <1> SUFFICES ASSUME SearchInv, NotMovable PROVE SearchInv'
    OBVIOUS
  <1>1. /\ frontier # <<>> /\ Top.id \notin loose /\ frontier' = Rest
        /\ visited' = visited \cup {Top.id}
    BY DEF NotMovable, Visit
  <1>2. UNCHANGED <<touched, contacts, loose, candidates>>
    BY DEF NotMovable, world
  <1>3. SearchTypeOK'
    BY <1>1, <1>2, Popped DEF SearchInv, SearchTypeOK, Node
  <1>4. OnRoute'
    <2>1. \A i \in 1..Len(frontier') : Offered(frontier'[i])
      BY <1>1, Popped
    <2> QED
      BY <1>2, <2>1 DEF OnRoute, Offered, RouteTo, Route, BodyCollisions
  <1>5. InHand'
    BY <1>1, <1>2, Popped DEF InHand
  <1>6. NothingOutOfReach'
    BY <1>2 DEF SearchInv, NothingOutOfReach, InReach, Route, BodyCollisions
  <1> QED
    BY <1>3, <1>4, <1>5, <1>6 DEF SearchInv

LEMMA ExamineKeeps == SearchInv /\ Examine => SearchInv'
  <1> SUFFICES ASSUME SearchInv, Examine PROVE SearchInv'
    OBVIOUS
  <1>1. /\ frontier # <<>> /\ Top.id \in loose
        /\ visited' = visited \cup {Top.id}
        /\ candidates' = candidates \cup {Top.id}
    BY DEF Examine, Visit, Collected
  <1>2. UNCHANGED <<touched, contacts, loose>>
    BY DEF Examine, world
  <1>3. Top \in Node /\ Rest \in Seq(Node)
    BY <1>1, Popped
  <1>4. RouteTo(Top.id, Top.depth)
    BY <1>1, Popped, RouteGoesOn DEF SearchInv
  <1>5. NothingOutOfReach'
    <2>1. InReach(Top.id, MaxDepth)
      BY <1>3, <1>4 DEF InReach, RouteTo, Node
    <2>2. \A x \in candidates' : InReach(x, MaxDepth)
      BY <1>1, <2>1 DEF SearchInv, NothingOutOfReach
    <2> QED
      BY <1>2, <2>2 DEF NothingOutOfReach, InReach, Route, BodyCollisions
  <1>6. \E t \in Seq(Node) :
           /\ frontier' = Rest \o t
           /\ \A i \in 1..Len(t) : Offered(t[i])
    <2>1. CASE GoesOn(Top)
      <3>1. Fresh(Top) \subseteq BodyCollisions(Top.id) /\ Fresh(Top) \in SUBSET Things
        BY DEF Fresh, BodyCollisions
      <3>2. PICK s \in Orders(Fresh(Top)) : frontier' = Rest \o Nodes(s, Top.depth + 1)
        BY <2>1 DEF Examine
      <3>3. s \in Seq(Fresh(Top))
        BY <3>1, ThingsFinite, OrdersAreSequences
      <3>4. s \in Seq(Things) /\ \A i \in 1..Len(s) : s[i] \in BodyCollisions(Top.id)
        BY <3>1, <3>3, SeqMonotonic, ElementOfSeq
      <3>5. Top.depth \in Nat /\ Top.depth + 1 \in 0..MaxDepth
        BY <1>3, <2>1, SearchAssumption DEF GoesOn, Node
      <3> DEFINE t == Nodes(s, Top.depth + 1)
      <3>6. /\ t \in Seq(Node) /\ Len(t) = Len(s)
            /\ \A i \in 1..Len(s) : t[i] = [id |-> s[i], depth |-> Top.depth + 1]
        BY <3>4, <3>5, NodesAreNodes
      <3>7. ASSUME NEW i \in 1..Len(s)
            PROVE  Offered(t[i])
        <4>1. t[i] = [id |-> s[i], depth |-> Top.depth + 1]
          BY <3>6, <3>7, Zenon
        <4>2. t[i].id \in BodyCollisions(Top.id) /\ t[i].depth = Top.depth + 1
          BY <3>4, <4>1
        <4>3. t[i].depth # 0 /\ t[i].depth - 1 = Top.depth
          BY <3>5, <4>2
        <4> HIDE DEF t
        <4> QED
          BY <1>1, <1>4, <4>2, <4>3 DEF Offered
      <3> QED
        BY <3>2, <3>6, <3>7
    <2>2. CASE ~GoesOn(Top)
      <3>1. frontier' = Rest /\ Rest \o <<>> = Rest
        BY <1>3, <2>2, ConcatEmptySeq DEF Examine
      <3>2. <<>> \in Seq(Node) /\ Len(<<>>) = 0
        BY EmptySeq
      <3>3. \A i \in 1..Len(<<>>) : Offered(<<>>[i])
        BY <3>2
      <3> QED
        BY <3>1, <3>2, <3>3, Zenon
    <2> QED
      BY <2>1, <2>2
  <1>7. PICK t \in Seq(Node) : /\ frontier' = Rest \o t
                              /\ \A i \in 1..Len(t) : Offered(t[i])
    BY <1>6
  <1>8. /\ frontier' \in Seq(Node) /\ Len(frontier') = Len(Rest) + Len(t)
        /\ Len(Rest) \in Nat /\ Len(t) \in Nat
        /\ \A i \in 1..Len(Rest) + Len(t) :
               frontier'[i] = IF i <= Len(Rest) THEN Rest[i] ELSE t[i - Len(Rest)]
    BY <1>3, <1>7, ConcatProperties, LenProperties
  <1>9. SearchTypeOK'
    BY <1>1, <1>2, <1>3, <1>8 DEF SearchInv, SearchTypeOK, Node
  <1>10. \A i \in 1..Len(frontier') : Offered(frontier'[i])
    <2> SUFFICES ASSUME NEW i \in 1..Len(frontier')
                 PROVE  Offered(frontier'[i])
      OBVIOUS
    <2>1. CASE i <= Len(Rest)
      <3>1. i \in 1..Len(Rest) /\ frontier'[i] = Rest[i]
        BY <1>8, <2>1
      <3> QED
        BY <1>1, <3>1, Popped
    <2>2. CASE ~(i <= Len(Rest))
      <3>1. i - Len(Rest) \in 1..Len(t) /\ frontier'[i] = t[i - Len(Rest)]
        BY <1>8, <2>2
      <3> QED
        BY <1>7, <3>1
    <2> QED
      BY <2>1, <2>2
  <1>11. OnRoute'
    BY <1>2, <1>10 DEF OnRoute, Offered, RouteTo, Route, BodyCollisions
  <1>12. InHand'
    <2> SUFFICES ASSUME NEW x \in touched, x \notin visited'
                 PROVE  \E i \in 1..Len(frontier') : frontier'[i].id = x
      BY <1>2 DEF InHand
    <2>1. PICK i \in 1..Len(Rest) : Rest[i].id = x
      BY <1>1, Popped
    <2>2. i \in 1..Len(frontier') /\ frontier'[i] = Rest[i]
      BY <1>8
    <2> QED
      BY <2>1, <2>2
  <1> QED
    BY <1>5, <1>9, <1>11, <1>12 DEF SearchInv

LEMMA SearchStepKeeps == SearchInv /\ [SearchNext]_searchVars => SearchInv'
  <1> SUFFICES ASSUME SearchInv, [SearchNext]_searchVars PROVE SearchInv'
    OBVIOUS
  <1>1. CASE UNCHANGED searchVars
    <2>1. UNCHANGED <<touched, contacts, loose, frontier, visited, candidates>>
      BY <1>1 DEF searchVars, world
    <2>2. SearchTypeOK'
      BY <2>1 DEF SearchInv, SearchTypeOK
    <2>3. OnRoute'
      BY <2>1 DEF SearchInv, OnRoute, Offered, RouteTo, Route, BodyCollisions
    <2>4. NothingOutOfReach'
      BY <2>1 DEF SearchInv, NothingOutOfReach, InReach, Route, BodyCollisions
    <2>5. InHand'
      BY <2>1 DEF SearchInv, InHand
    <2> QED
      BY <2>2, <2>3, <2>4, <2>5 DEF SearchInv
  <1> QED
    BY <1>1, AlreadyVisitedKeeps, NotMovableKeeps, ExamineKeeps DEF SearchNext

----------------------------------------------------------------------------
(* Theorems *)

\* The stack of ClientOwnership::update never holds a depth beyond the limit,
\* and what it collects it has visited.
THEOREM SearchTypeCorrect == SearchSpec => []SearchTypeOK
  <1>1. SearchInv => SearchTypeOK
    BY DEF SearchInv
  <1> QED
    BY <1>1, SearchInitHolds, SearchStepKeeps, PTL DEF SearchSpec

\* ClientOwnership::update never claims a thing that no chain of at most
\* MaxDepth + 1 contacts through movable parts joins to the player.
THEOREM NeverOutOfReach == SearchSpec => []NothingOutOfReach
  <1>1. SearchInv => NothingOutOfReach
    BY DEF SearchInv
  <1> QED
    BY <1>1, SearchInitHolds, SearchStepKeeps, PTL DEF SearchSpec

\* When the search of ClientOwnership::update ends, every movable part the
\* player touches is among its candidates.
THEOREM TouchedAlwaysFound == SearchSpec => []TouchedAreFound
  <1>1. SearchInv => TouchedAreFound
    <2> SUFFICES ASSUME SearchInv, frontier = <<>>, NEW x \in touched, x \in loose
                 PROVE  x \in candidates
      BY DEF TouchedAreFound
    <2>1. ~ \E i \in 1..Len(frontier) : frontier[i].id = x
      <3>1. Len(frontier) = 0
        BY EmptySeq
      <3> QED
        BY <3>1
    <2> QED
      BY <2>1 DEF SearchInv, InHand, SearchTypeOK
  <1> QED
    BY <1>1, SearchInitHolds, SearchStepKeeps, PTL DEF SearchSpec

\* What ClientOwnership::update claims is what the player moves: nothing out of
\* reach, and all it touches.
THEOREM ClaimsAlwaysRight == SearchSpec => []ClaimsAreRight
  <1>1. NothingOutOfReach /\ TouchedAreFound => ClaimsAreRight
    BY DEF ClaimsAreRight
  <1> QED
    BY <1>1, NeverOutOfReach, TouchedAlwaysFound, PTL

=============================================================================
