--------------------------- MODULE HumanoidsProofs ---------------------------
(***************************************************************************)
(* Proofs about Humanoids, for any rigs, parts, ids, delays and lengths of *)
(* a frame: rigs are whole through every way to live and die and every     *)
(* edit of their parts, and a respawn takes its time.  RigsAreWhole lacks  *)
(* where the parts a state holds can be (PartsHeld), what retry holds,     *)
(* and, for the respawn, that the two clocks of a dead rig - the one the   *)
(* code counts down and the one that tells how long it has been dead - add *)
(* up.                                                                     *)
(***************************************************************************)
EXTENDS Humanoids, TLAPS

Retries == {<<>>} \cup {<<n>> : n \in 0 .. RetryInterval}

ClocksAgree == \A r \in dead : deadFor[r] + timer[r] >= RespawnDelay

\* A state holds parts of its own rig, until they are dragged out or deleted;
\* one that has not been touched since is the root or the limb still.
PartsHeld ==
    /\ \A r \in Rig \ Tracked : rootPart[r] = {} /\ limbs[r] = {}
    /\ \A r \in Rig : \A p \in Held(r) : /\ at[p] \in {r, Workspace, Gone}
                                         /\ p \notin strayed => at[p] # Workspace
    /\ \A r \in Rig : /\ \A p \in rootPart[r] \ strayed : name[p] = "RootPart"
                      /\ \A p \in limbs[r] \ strayed : name[p] = "Limb"

\* BodiesMatchLife, part by part.
Matches ==
    /\ \A r \in Tracked : /\ \A p \in AtHome(r, rootPart[r]) : p \in body <=> r \notin dead
                          /\ \A p \in AtHome(r, limbs[r]) : p \in body <=> r \in dead
    /\ \A p \in body \ strayed : at[p] \in Rig => at[p] \in Tracked

PartsInv == Matches /\ NoStrayBodies /\ LoosePartsCollide /\ PartsHeld

IInv == TypeOK /\ TrackedOnce /\ PartsInv /\ retry \in [Rig -> Retries] /\ ClocksAgree

Ids == PlayerId \cup AdoptedId
\* What TrackedOnce says of states, and who is tracked, of any function s.
Once(s) == \A i, j \in DOMAIN s : s[i] = s[j] /\ s[i] # NoRig => i = j
In(s) == {s[i] : i \in DOMAIN s} \ {NoRig}

-----------------------------------------------------------------------------
(* A new rig gets a state of its own, and nobody else loses his.           *)
LEMMA RigEnters ==
    ASSUME NEW s \in [Ids -> Rig \cup {NoRig}], Once(s),
           NEW r \in Rig, r \notin In(s), NEW i \in Ids, s[i] = NoRig
    PROVE  LET t == [s EXCEPT ![i] = r]
           IN  t \in [Ids -> Rig \cup {NoRig}] /\ Once(t) /\ In(t) = In(s) \cup {r}
<1> DEFINE t == [s EXCEPT ![i] = r]
<1>1. /\ t \in [Ids -> Rig \cup {NoRig}] /\ t[i] = r
      /\ \A j \in Ids : j # i => t[j] = s[j]
  OBVIOUS
<1>2. r # NoRig
  BY RigsAssumption
<1>3. \A j \in Ids : s[j] # r
  BY <1>2 DEF In
<1>4. Once(t)
  BY <1>1, <1>3 DEF Once
<1>5. In(t) = In(s) \cup {r}
  BY <1>1, <1>2 DEF In
<1> QED
  BY <1>1, <1>4, <1>5

(* The states of the rigs in R are given up: those of the others stay.     *)
LEMMA RigsLeave ==
    ASSUME NEW s \in [Ids -> Rig \cup {NoRig}], Once(s), NEW R
    PROVE  LET t == [i \in DOMAIN s |-> IF s[i] \in R THEN NoRig ELSE s[i]]
           IN  t \in [Ids -> Rig \cup {NoRig}] /\ Once(t) /\ In(t) = In(s) \ R
<1> DEFINE t == [i \in DOMAIN s |-> IF s[i] \in R THEN NoRig ELSE s[i]]
<1>1. t \in [Ids -> Rig \cup {NoRig}]
  OBVIOUS
<1>2. DOMAIN t = Ids /\ \A i \in Ids : t[i] = IF s[i] \in R THEN NoRig ELSE s[i]
  OBVIOUS
<1>3. Once(t)
  BY <1>2 DEF Once
<1>4. In(t) = In(s) \ R
  BY <1>2 DEF In
<1> QED
  BY <1>1, <1>3, <1>4

(* Adopted rigs get fresh ids, one each, and nobody else loses his.        *)
LEMMA RigsAdopted ==
    ASSUME states \in [Ids -> Rig \cup {NoRig}], Once(states),
           NEW R \in SUBSET Rig, R \cap In(states) = {}, Adopt(R)
    PROVE  /\ states' \in [Ids -> Rig \cup {NoRig}] /\ Once(states')
           /\ In(states') = In(states) \cup R
<1>1. PICK f \in FreshIds(R) :
          states' = [i \in DOMAIN states |-> IF \E r \in R : f[r] = i
                                            THEN CHOOSE r \in R : f[r] = i ELSE states[i]]
  BY DEF Adopt
<1>2. /\ \A r \in R : f[r] \in Ids /\ states[f[r]] = NoRig
      /\ \A r, q \in R : f[r] = f[q] => r = q
  BY <1>1 DEF FreshIds, Ids
<1>3. DOMAIN states' = Ids
  BY <1>1
<1>4. \A i \in Ids : \/ \E r \in R : f[r] = i /\ states'[i] = r
                     \/ (\A r \in R : f[r] # i) /\ states'[i] = states[i]
  <2> TAKE i \in Ids
  <2>1. CASE \E r \in R : f[r] = i
    <3>1. states'[i] = CHOOSE r \in R : f[r] = i
      BY <1>1, <2>1
    <3> QED
      BY <2>1, <3>1
  <2>2. CASE \A r \in R : f[r] # i
    BY <1>1, <2>2
  <2> QED
    BY <2>1, <2>2
<1>5. \A r \in R : states'[f[r]] = r
  BY <1>2, <1>4
<1>6. NoRig \notin R
  BY RigsAssumption
<1>7. states' \in [Ids -> Rig \cup {NoRig}]
  <2>1. \A i \in Ids : states'[i] \in Rig \cup {NoRig}
    BY <1>4
  <2>2. states' = [i \in Ids |-> states'[i]]
    BY <1>1
  <2> QED
    BY <2>1, <2>2
<1>8. Once(states')
  <2> SUFFICES ASSUME NEW i \in Ids, NEW j \in Ids,
                      states'[i] = states'[j], states'[i] # NoRig
               PROVE  i = j
    BY <1>3 DEF Once
  <2>1. \A k \in Ids : states[k] \in R => states[k] = NoRig
    BY DEF In
  <2>2. \A k \in Ids : states[k] \notin R
    BY <2>1, <1>6
  <2> QED
    BY <1>4, <2>2 DEF Once
<1>9. In(states') = In(states) \cup R
  <2>1. In(states') \subseteq In(states) \cup R
    BY <1>3, <1>4 DEF In
  <2>2. R \subseteq In(states')
    BY <1>2, <1>3, <1>5, <1>6 DEF In
  <2>3. ASSUME NEW x \in In(states) PROVE x \in In(states')
    <3>1. PICK i \in Ids : states[i] = x /\ x # NoRig
      BY DEF In
    <3>2. \A r \in R : f[r] # i
      BY <1>2, <3>1
    <3> QED
      BY <1>3, <1>4, <3>1, <3>2 DEF In
  <2> QED
    BY <2>1, <2>2, <2>3
<1> QED
  BY <1>7, <1>8, <1>9

-----------------------------------------------------------------------------
LEMMA TrackedIsIn == Tracked = In(states)
  BY DEF Tracked, In

LEMMA TrackedOnceIs == TrackedOnce <=> Once(states) /\ Tracked \subseteq placed
  BY DEF TrackedOnce, Once

LEMMA InitHolds == Init => IInv
<1> SUFFICES ASSUME Init PROVE IInv
  OBVIOUS
<1> USE RigsAssumption, IdsAssumption, TimesAssumption
<1>1. Tracked = {}
  BY DEF Init, Tracked
<1>2. TypeOK
  BY <1>1 DEF Init, TypeOK, Names
<1>3. TrackedOnce /\ Matches /\ NoStrayBodies
  BY <1>1 DEF Init, TrackedOnce, Matches, NoStrayBodies
<1>4. LoosePartsCollide /\ PartsHeld
  BY <1>1 DEF Init, LoosePartsCollide, PartsHeld, Held, Workspace, Unmade
<1>5. retry \in [Rig -> Retries] /\ ClocksAgree
  BY DEF Init, Retries, ClocksAgree
<1> QED
  BY <1>2, <1>3, <1>4, <1>5 DEF IInv, PartsInv

(* A rig no state had ever heard of is tracked by nobody and dead nowhere. *)
LEMMA NewRigs ==
    IInv => \A r \in Rig \ used : r \notin Tracked \cup dead \cup local \cup placed
  BY DEF IInv, TypeOK, TrackedOnce

LEMMA DeadAreRigs == IInv => dead \subseteq Tracked /\ Tracked \subseteq Rig
  BY DEF IInv, TypeOK, Tracked

(* What the parts of rigs are, by their types.                             *)
LEMMA PartTypes ==
    IInv => /\ \A p \in Part : at[p] \in placed \cup {Workspace, Unmade, Gone} /\ name[p] \in Names
            /\ \A r \in Rig : rootPart[r] \subseteq Part /\ limbs[r] \subseteq Part
            /\ body \subseteq Part /\ placed \subseteq Rig
  BY DEF IInv, TypeOK

-----------------------------------------------------------------------------
(* Parts that come in and rigs that are adopted                            *)

Stays(p) == at'[p] = at[p] /\ name'[p] = name[p]

\* A part put into a rig: if nothing holds it and it has no body yet, it is as
\* good as new.
MovesIn(p) ==
    /\ at'[p] \in Rig
    /\ p \in strayed' \/ (p \notin body /\ \A r \in Rig : p \notin Held(r))
    /\ \A r \in Rig : p \in Held(r) => at'[p] = r

(* States made for the rigs of `now`, with the parts they have then, and   *)
(* bodies for parts put into the workspace, leave the parts in order.      *)
LEMMA PartsEnter ==
    ASSUME IInv, NEW now \in SUBSET Rig, NEW made \in SUBSET Part,
           now \cap Tracked = {}, Tracked' = Tracked \cup now,
           Capture(now), body' = body \cup made \cup Of(rootPart', now), dead' = dead,
           placed \subseteq placed', placed' \subseteq Rig, strayed \subseteq strayed',
           at' \in [Part -> placed' \cup {Workspace, Unmade, Gone}],
           \A p \in made : at'[p] = Workspace /\ p \in strayed',
           \A p \in Part : Stays(p) \/ p \in made \/ MovesIn(p),
           \A p \in Part : at'[p] = Workspace =>
               p \in made \/ (at[p] = Workspace /\ (p \in stripped => p \in stripped'))
    PROVE  PartsInv'
<1> USE RigsAssumption
<1>1. /\ \A r \in now : /\ rootPart'[r] = {p \in Part : at'[p] = r /\ name'[p] = "RootPart"}
                        /\ limbs'[r] = {p \in Part : at'[p] = r /\ name'[p] = "Limb"}
      /\ \A r \in Rig \ now : rootPart'[r] = rootPart[r] /\ limbs'[r] = limbs[r]
  BY DEF Capture, ChildNow
<1>2. /\ \A r \in Rig : \A p \in rootPart[r] \cup limbs[r] : /\ at[p] \in {r, Workspace, Gone}
                                                             /\ p \notin strayed => at[p] # Workspace
      /\ \A r \in Rig : /\ \A p \in rootPart[r] \ strayed : name[p] = "RootPart"
                        /\ \A p \in limbs[r] \ strayed : name[p] = "Limb"
      /\ \A r \in Rig \ Tracked : rootPart[r] = {} /\ limbs[r] = {}
  BY DEF IInv, PartsInv, PartsHeld, Held
<1>3. /\ \A r \in Rig : rootPart[r] \subseteq Part /\ limbs[r] \subseteq Part
      /\ body \subseteq Part /\ dead \subseteq Tracked /\ Tracked \subseteq Rig
  BY PartTypes, DeadAreRigs
<1>4. \A p \in Part : p \in body' <=> \/ p \in body \/ p \in made
                                      \/ \E r \in now : p \in rootPart'[r]
  BY DEF Of
<1>5. \A p \in Part : \/ Stays(p) \/ p \in strayed'
                      \/ at'[p] \in Rig /\ p \notin body /\ \A r \in Rig : p \notin Held(r)
  BY DEF MovesIn
<1>6. PartsHeld'
  <2>1. ASSUME NEW r \in Rig, r \notin Tracked' PROVE rootPart'[r] = {} /\ limbs'[r] = {}
    BY <1>1, <1>2, <2>1
  <2>2. ASSUME NEW r \in Rig, NEW p \in rootPart'[r] \cup limbs'[r]
        PROVE  /\ at'[p] \in {r, Workspace, Gone}
               /\ p \notin strayed' => at'[p] # Workspace
    <3>1. CASE r \in now
      BY <1>1, <3>1
    <3>2. CASE r \notin now
      <4>1. p \in rootPart[r] \cup limbs[r] /\ p \in Part /\ p \in Held(r)
        BY <1>1, <1>3, <2>2, <3>2 DEF Held
      <4>2. CASE Stays(p)
        BY <1>2, <4>1, <4>2 DEF Stays
      <4>3. CASE p \in made
        BY <4>3
      <4>4. CASE MovesIn(p)
        BY <4>1, <4>4 DEF MovesIn
      <4> QED
        BY <4>1, <4>2, <4>3, <4>4
    <3> QED
      BY <3>1, <3>2
  <2>3. ASSUME NEW r \in Rig
        PROVE  /\ \A p \in rootPart'[r] \ strayed' : name'[p] = "RootPart"
               /\ \A p \in limbs'[r] \ strayed' : name'[p] = "Limb"
    <3>1. CASE r \in now
      BY <1>1, <3>1
    <3>2. CASE r \notin now
      <4>1. \A p \in Held(r) \ strayed' : p \in Part /\ Stays(p)
        BY <1>3, <1>5 DEF Held
      <4>2. \A p \in (rootPart[r] \cup limbs[r]) \ strayed' : name'[p] = name[p] /\ p \notin strayed
        BY <4>1 DEF Stays, Held
      <4> QED
        BY <1>1, <1>2, <2>3, <3>2, <4>2
    <3> QED
      BY <3>1, <3>2
  <2> QED
    BY <2>1, <2>2, <2>3 DEF PartsHeld, Held
<1>7. Matches'
  <2>0. Matches
    BY DEF IInv, PartsInv
  <2>1. ASSUME NEW r \in now, NEW p \in Part, at'[p] = r, p \notin strayed'
        PROVE  /\ p \in rootPart'[r] => p \in body'
               /\ p \in limbs'[r] => p \notin body'
    <3>1. p \notin body /\ p \notin made
      <4>1. CASE Stays(p)
        BY <2>0, <2>1, <4>1 DEF Stays, Matches
      <4> QED
        BY <1>5, <2>1, <4>1
    <3>2. p \in limbs'[r] => \A s \in now : p \notin rootPart'[s]
      BY <1>1
    <3> QED
      BY <1>4, <3>1, <3>2
  <2>2. ASSUME NEW r \in Tracked, NEW p \in Held(r), at'[p] = r, p \notin strayed'
        PROVE  at[p] = r /\ p \notin strayed /\ (p \in body' <=> p \in body)
    <3>1. p \in Part /\ Stays(p)
      BY <1>3, <1>5, <2>2 DEF Held
    <3>2. \A s \in now : p \notin rootPart'[s]
      BY <1>1, <2>2
    <3> QED
      BY <1>4, <2>2, <3>1, <3>2 DEF Stays
  <2>3. ASSUME NEW r \in Tracked'
        PROVE  /\ \A p \in AtHome(r, rootPart[r])' : p \in body' <=> r \notin dead'
               /\ \A p \in AtHome(r, limbs[r])' : p \in body' <=> r \in dead'
    <3>1. CASE r \in now
      BY <1>1, <1>3, <2>1, <3>1 DEF AtHome
    <3>2. CASE r \in Tracked
      BY <1>1, <1>3, <2>0, <2>2, <3>2 DEF AtHome, Matches, Held
    <3> QED
      BY <3>1, <3>2
  <2>4. ASSUME NEW p \in body' \ strayed', at'[p] \in Rig PROVE at'[p] \in Tracked'
    <3>1. p \in Part
      BY <1>1, <1>3, <2>4 DEF Of
    <3>2. CASE p \in body
      BY <1>5, <2>0, <2>4, <3>1, <3>2 DEF Stays, Matches
    <3>3. CASE \E s \in now : p \in rootPart'[s]
      BY <1>1, <3>3
    <3> QED
      BY <1>4, <2>4, <3>1, <3>2, <3>3
  <2> QED
    BY <2>3, <2>4 DEF Matches
<1>8. NoStrayBodies'
  <2> SUFFICES ASSUME NEW p \in body'
               PROVE  \/ at'[p] \in Places'
                      \/ at'[p] = Gone /\ \E r \in dead' : p \in limbs'[r]
    BY DEF NoStrayBodies
  <2>1. p \in Part
    BY <1>1, <1>3 DEF Of
  <2>2. at'[p] \in Rig => at'[p] \in placed'
    BY <2>1
  <2>3. CASE Stays(p) /\ p \in body
    <3>1. at[p] \in Places => at'[p] \in Places'
      BY <2>3 DEF Places, Stays
    <3>2. ASSUME at[p] = Gone, NEW r \in dead, p \in limbs[r] PROVE p \in limbs'[r]
      BY <1>1, <1>3, <3>2
    <3> QED
      BY <2>3, <3>1, <3>2 DEF IInv, PartsInv, NoStrayBodies, Stays
  <2>4. CASE p \in made \/ MovesIn(p)
    BY <2>2, <2>4 DEF MovesIn, Places
  <2>5. CASE \E r \in now : p \in rootPart'[r]
    BY <1>1, <2>2, <2>5 DEF Places
  <2> QED
    BY <1>4, <2>1, <2>3, <2>4, <2>5
<1>9. LoosePartsCollide'
  BY <1>4 DEF IInv, PartsInv, LoosePartsCollide
<1> QED
  BY <1>6, <1>7, <1>8, <1>9 DEF PartsInv

(* queueRig for the rigs of `rs`, after an edit that brings in parts or     *)
(* bodies.                                                                 *)
LEMMA QueueKeeps ==
    ASSUME IInv, NEW rs \in SUBSET placed', NEW made \in SUBSET Part, Queue(rs, made),
           placed \subseteq placed', placed' \subseteq used', used' \subseteq Rig,
           strayed \subseteq strayed', strayed' \subseteq Part, stripped' \subseteq Part,
           at' \in [Part -> placed' \cup {Workspace, Unmade, Gone}], name' \in [Part -> Names],
           \A p \in made : at'[p] = Workspace /\ p \in strayed',
           \A p \in Part : Stays(p) \/ p \in made \/ MovesIn(p),
           \A p \in Part : at'[p] = Workspace =>
               p \in made \/ (at[p] = Workspace /\ (p \in stripped => p \in stripped')),
           UNCHANGED <<health, spawns, lifeVars>>
    PROVE  IInv'
<1> USE RigsAssumption, IdsAssumption, TimesAssumption
<1>1. PICK now \in SUBSET (rs \ Tracked) :
          /\ Adopt(now) /\ body' = body \cup made \cup Of(rootPart', now)
          /\ waiting' = waiting \cup (rs \ (Tracked \cup now))
  BY DEF Queue
<1>2. UNCHANGED <<health, spawns, dead, timer, retry, deadFor>>
  BY DEF lifeVars
<1>3. now \subseteq Rig /\ now \cap Tracked = {} /\ now \subseteq placed'
  BY <1>1
<1>4. states \in [Ids -> Rig \cup {NoRig}] /\ Once(states) /\ now \cap In(states) = {}
  BY <1>3, TrackedIsIn, TrackedOnceIs DEF IInv, TypeOK, Ids
<1>5. /\ states' \in [Ids -> Rig \cup {NoRig}] /\ Once(states')
      /\ In(states') = In(states) \cup now
  BY <1>1, <1>3, <1>4, RigsAdopted
<1>6. Tracked' = Tracked \cup now
  BY <1>5 DEF Tracked, In
<1>7. Capture(now) /\ local' = local \cup now
  BY <1>1 DEF Adopt
<1>8. PartsInv'
  BY <1>1, <1>2, <1>3, <1>6, <1>7, PartsEnter
<1>9. rootPart' \in [Rig -> SUBSET Part] /\ limbs' \in [Rig -> SUBSET Part]
  BY <1>7 DEF Capture, ChildNow, IInv, TypeOK
<1>10. TypeOK'
  <2>1. body' \subseteq Part
    BY <1>1, <1>3, <1>9 DEF Of, IInv, TypeOK
  <2>2. waiting' \subseteq placed' /\ local' \subseteq Tracked' /\ dead' \subseteq local'
    BY <1>1, <1>2, <1>6, <1>7 DEF IInv, TypeOK
  <2> QED
    BY <1>2, <1>5, <1>9, <2>1, <2>2 DEF IInv, TypeOK, Ids
<1>11. TrackedOnce'
  <2>1. Tracked' \subseteq placed'
    BY <1>3, <1>6, TrackedOnceIs DEF IInv
  <2> QED
    BY <1>5, <2>1 DEF TrackedOnce, Once
<1> QED
  BY <1>2, <1>8, <1>10, <1>11 DEF IInv, ClocksAgree

(* A part not made yet is held by nobody and has no body.                  *)
LEMMA Unheld ==
    IInv => \A p \in Part : at[p] = Unmade => p \notin body /\ \A r \in Rig : p \notin Held(r)
<1> SUFFICES ASSUME IInv, NEW p \in Part, at[p] = Unmade
             PROVE  p \notin body /\ \A r \in Rig : p \notin Held(r)
  OBVIOUS
<1>1. placed \subseteq Rig
  BY PartTypes
<1>2. p \notin body
  BY <1>1, RigsAssumption DEF IInv, PartsInv, NoStrayBodies, Places, Unmade, Workspace, Gone
<1>3. \A r \in Rig : p \notin Held(r)
  BY RigsAssumption DEF IInv, PartsInv, PartsHeld, Unmade, Workspace, Gone
<1> QED
  BY <1>2, <1>3

LEMMA FurnishKeeps ==
    ASSUME IInv, NEW r \in Rig, NEW p \in Part, NEW q \in Part, Furnish(r, p, q),
           placed' = placed \cup {r}
    PROVE  /\ at' \in [Part -> placed' \cup {Workspace, Unmade, Gone}] /\ name' \in [Part -> Names]
           /\ \A x \in Part : Stays(x) \/ MovesIn(x)
           /\ \A x \in Part : at'[x] = Workspace => at[x] = Workspace
<1>1. /\ at[p] = Unmade /\ at[q] = Unmade /\ p # q
      /\ at' = [at EXCEPT ![p] = r, ![q] = r]
      /\ name' = [name EXCEPT ![p] = "RootPart", ![q] = "Limb"]
  BY DEF Furnish
<1>2. at \in [Part -> placed \cup {Workspace, Unmade, Gone}] /\ name \in [Part -> Names]
  BY DEF IInv, TypeOK
<1>3. at' \in [Part -> placed' \cup {Workspace, Unmade, Gone}] /\ name' \in [Part -> Names]
  BY <1>1, <1>2 DEF Names
<1>4. /\ \A x \in Part \ {p, q} : at'[x] = at[x] /\ name'[x] = name[x]
      /\ at'[p] = r /\ at'[q] = r /\ r # Workspace
  BY <1>1, <1>2, RigsAssumption
<1>5. MovesIn(p) /\ MovesIn(q)
  BY <1>1, <1>4, Unheld DEF MovesIn
<1>6. \A x \in Part \ {p, q} : Stays(x)
  BY <1>4 DEF Stays
<1> QED
  BY <1>3, <1>4, <1>5, <1>6

LEMMA CreateHumanoidKeeps ==
    ASSUME IInv, NEW id \in PlayerId, NEW r \in Rig, NEW isLocal \in BOOLEAN,
           NEW p \in Part, NEW q \in Part, CreateHumanoid(id, r, isLocal, p, q)
    PROVE  IInv'
<1> USE RigsAssumption, IdsAssumption, TimesAssumption
<1>1. r \notin used /\ r \notin Tracked \cup dead \cup local \cup placed
  BY NewRigs DEF CreateHumanoid
<1>2. states' = [states EXCEPT ![id] = r] /\ states[id] = NoRig /\ id \in Ids
  BY DEF CreateHumanoid, TrackThenEnter, Ids
<1>3. states \in [Ids -> Rig \cup {NoRig}] /\ Once(states) /\ r \notin In(states)
  BY <1>1, TrackedIsIn, TrackedOnceIs DEF IInv, TypeOK, Ids
<1>4. states' \in [Ids -> Rig \cup {NoRig}] /\ Once(states') /\ In(states') = In(states) \cup {r}
  BY <1>2, <1>3, RigEnters
<1>5. Tracked' = Tracked \cup {r}
  BY <1>4 DEF Tracked, In
<1>6. /\ used' = used \cup {r} /\ placed' = placed \cup {r} /\ Furnish(r, p, q) /\ Capture({r})
      /\ body' = body \cup {p} /\ local' \in {local, local \cup {r}}
      /\ retry' = [retry EXCEPT ![r] = IF isLocal /\ ~spawns THEN <<0>> ELSE <<>>]
      /\ UNCHANGED <<health, spawns, waiting, dead, timer, deadFor, strayed, stripped>>
  BY DEF CreateHumanoid
<1>7. retry' \in [Rig -> Retries]
  <2>1. <<0>> \in Retries /\ <<>> \in Retries
    BY DEF Retries
  <2> QED
    BY <1>6, <2>1 DEF IInv
<1>8. /\ at' \in [Part -> placed' \cup {Workspace, Unmade, Gone}] /\ name' \in [Part -> Names]
      /\ \A x \in Part : Stays(x) \/ MovesIn(x)
      /\ \A x \in Part : at'[x] = Workspace => at[x] = Workspace
  BY <1>6, FurnishKeeps
<1>9. rootPart' \in [Rig -> SUBSET Part] /\ limbs' \in [Rig -> SUBSET Part]
  BY <1>6 DEF Capture, ChildNow, IInv, TypeOK
<1>10. Of(rootPart', {r}) = {p}
  <2>1. rootPart'[r] = {x \in Part : at'[x] = r /\ name'[x] = "RootPart"}
    BY <1>6 DEF Capture, ChildNow
  <2>2. /\ at \in [Part -> placed \cup {Workspace, Unmade, Gone}] /\ name \in [Part -> Names]
        /\ at' = [at EXCEPT ![p] = r, ![q] = r] /\ p # q
        /\ name' = [name EXCEPT ![p] = "RootPart", ![q] = "Limb"]
    BY <1>6 DEF Furnish, IInv, TypeOK
  <2>3. \A x \in Part : at[x] # r
    BY <1>1, <2>2
  <2>4. \A x \in Part : at'[x] = r /\ name'[x] = "RootPart" <=> x = p
    BY <2>2, <2>3
  <2>5. rootPart'[r] = {p}
    BY <2>1, <2>4
  <2> QED
    BY <2>5 DEF Of
<1>11. PartsInv'
  <2>1. body' = body \cup {} \cup Of(rootPart', {r})
    BY <1>6, <1>10
  <2>2. /\ {r} \cap Tracked = {} /\ dead' = dead /\ placed \subseteq placed'
        /\ strayed \subseteq strayed' /\ placed' \subseteq Rig
    BY <1>1, <1>6, PartTypes
  <2>3. \A x \in Part : at'[x] = Workspace => at[x] = Workspace /\ (x \in stripped => x \in stripped')
    BY <1>6, <1>8
  <2> QED
    BY <1>5, <1>6, <1>8, <2>1, <2>2, <2>3, PartsEnter
<1>12. TypeOK'
  <2>1. \A x \in Rig : retry'[x] = <<>> \/ retry'[x][1] \in 0 .. RetryInterval
    BY <1>7 DEF Retries
  <2>2. waiting' \subseteq placed' /\ local' \subseteq Tracked' /\ dead' \subseteq local'
    BY <1>5, <1>6 DEF IInv, TypeOK
  <2> QED
    BY <1>4, <1>6, <1>8, <1>9, <2>1, <2>2 DEF IInv, TypeOK, Ids
<1>13. TrackedOnce'
  <2>1. Tracked' \subseteq placed'
    BY <1>5, <1>6, TrackedOnceIs DEF IInv
  <2> QED
    BY <1>4, <2>1 DEF TrackedOnce, Once
<1>14. ClocksAgree'
  BY <1>6 DEF IInv, ClocksAgree
<1> QED
  BY <1>7, <1>11, <1>12, <1>13, <1>14 DEF IInv

LEMMA EnterWorkspaceKeeps ==
    ASSUME IInv, NEW r \in Rig, NEW complete \in BOOLEAN, NEW p \in Part, NEW q \in Part,
           EnterWorkspace(r, complete, p, q)
    PROVE  IInv'
<1>1. /\ used' = used \cup {r} /\ placed' = placed \cup {r} /\ Queue({r}, {})
      /\ UNCHANGED <<health, spawns, strayed, stripped, lifeVars>>
  BY DEF EnterWorkspace
<1>2. /\ at' \in [Part -> placed' \cup {Workspace, Unmade, Gone}] /\ name' \in [Part -> Names]
      /\ \A x \in Part : Stays(x) \/ MovesIn(x)
      /\ \A x \in Part : at'[x] = Workspace => at[x] = Workspace
  <2>1. CASE complete
    BY <1>1, <2>1, FurnishKeeps DEF EnterWorkspace
  <2>2. CASE ~complete
    <3>1. UNCHANGED <<at, name>>
      BY <2>2 DEF EnterWorkspace
    <3> QED
      BY <1>1, <3>1 DEF Stays, IInv, TypeOK
  <2> QED
    BY <2>1, <2>2
<1>3. /\ placed \subseteq placed' /\ placed' \subseteq used' /\ used' \subseteq Rig
      /\ strayed' = strayed /\ strayed \subseteq Part /\ stripped' = stripped
      /\ stripped \subseteq Part
  BY <1>1 DEF IInv, TypeOK
<1> QED
  BY <1>1, <1>2, <1>3, QueueKeeps

LEMMA AddPartKeeps ==
    ASSUME IInv, NEW p \in Part, NEW place \in Places, NEW n \in Names, AddPart(p, place, n)
    PROVE  IInv'
<1> USE RigsAssumption
<1>1. /\ at[p] = Unmade /\ at' = [at EXCEPT ![p] = place] /\ name' = [name EXCEPT ![p] = n]
      /\ Queue({place} \cap Rig, BodyForPart(p, place))
      /\ strayed' = strayed \cup BodyForPart(p, place)
      /\ UNCHANGED <<placed, used, health, spawns, stripped, lifeVars>>
  BY DEF AddPart
<1>2. /\ at \in [Part -> placed \cup {Workspace, Unmade, Gone}] /\ name \in [Part -> Names]
      /\ placed \subseteq used /\ used \subseteq Rig /\ strayed \subseteq Part
      /\ stripped \subseteq Part /\ place \in placed \cup {Workspace}
  BY DEF IInv, TypeOK, Places
<1>3. /\ at' \in [Part -> placed' \cup {Workspace, Unmade, Gone}] /\ name' \in [Part -> Names]
      /\ at'[p] = place /\ \A x \in Part \ {p} : at'[x] = at[x] /\ name'[x] = name[x]
  BY <1>1, <1>2
<1>4. BodyForPart(p, place) = IF place = Workspace THEN {p} ELSE {}
  BY DEF BodyForPart
<1>5. place # Workspace => MovesIn(p)
  BY <1>1, <1>2, <1>3, Unheld DEF MovesIn
<1>6. \A x \in Part \ {p} : Stays(x)
  BY <1>3 DEF Stays
<1>7. /\ \A x \in BodyForPart(p, place) : at'[x] = Workspace /\ x \in strayed'
      /\ \A x \in Part : Stays(x) \/ x \in BodyForPart(p, place) \/ MovesIn(x)
      /\ \A x \in Part : at'[x] = Workspace =>
             x \in BodyForPart(p, place) \/ (at[x] = Workspace /\ (x \in stripped => x \in stripped'))
  BY <1>1, <1>3, <1>4, <1>5, <1>6
<1>8. {place} \cap Rig \subseteq placed' /\ BodyForPart(p, place) \subseteq Part
  BY <1>1, <1>2, <1>4
<1>9. strayed \subseteq strayed' /\ strayed' \subseteq Part
  BY <1>1, <1>2, <1>8
<1> QED
  BY <1>1, <1>2, <1>3, <1>7, <1>8, <1>9, QueueKeeps

LEMMA DragPartKeeps ==
    ASSUME IInv, NEW p \in Part, NEW place \in Places, DragPart(p, place)
    PROVE  IInv'
<1> USE RigsAssumption
<1>1. /\ at' = [at EXCEPT ![p] = place] /\ name' = name
      /\ place \in Rig => \A r \in Rig \ {place} : p \notin Held(r)
      /\ Queue({place} \cap Rig, BodyForPart(p, place))
      /\ strayed' = strayed \cup (IF Touched(p) \/ place = Workspace THEN {p} ELSE {})
      /\ stripped' = stripped \ {p}
      /\ UNCHANGED <<placed, used, health, spawns, lifeVars>>
  BY DEF DragPart
<1>2. /\ at \in [Part -> placed \cup {Workspace, Unmade, Gone}] /\ name \in [Part -> Names]
      /\ placed \subseteq used /\ used \subseteq Rig /\ strayed \subseteq Part
      /\ stripped \subseteq Part /\ place \in placed \cup {Workspace}
  BY DEF IInv, TypeOK, Places
<1>3. /\ at' \in [Part -> placed' \cup {Workspace, Unmade, Gone}] /\ name' \in [Part -> Names]
      /\ at'[p] = place /\ \A x \in Part \ {p} : at'[x] = at[x] /\ name'[x] = name[x]
  BY <1>1, <1>2
<1>4. BodyForPart(p, place) = IF place = Workspace THEN {p} ELSE {}
  BY DEF BodyForPart
<1>5. place # Workspace => MovesIn(p)
  <2>1. p \in strayed' \/ (p \notin body /\ \A r \in Rig : p \notin Held(r))
    BY <1>1 DEF Touched
  <2> QED
    BY <1>1, <1>2, <1>3, <2>1 DEF MovesIn
<1>6. \A x \in Part \ {p} : Stays(x)
  BY <1>3 DEF Stays
<1>7. /\ \A x \in BodyForPart(p, place) : at'[x] = Workspace /\ x \in strayed'
      /\ \A x \in Part : Stays(x) \/ x \in BodyForPart(p, place) \/ MovesIn(x)
      /\ \A x \in Part : at'[x] = Workspace =>
             x \in BodyForPart(p, place) \/ (at[x] = Workspace /\ (x \in stripped => x \in stripped'))
  BY <1>1, <1>3, <1>4, <1>5, <1>6
<1>8. {place} \cap Rig \subseteq placed' /\ BodyForPart(p, place) \subseteq Part
  BY <1>1, <1>2, <1>4
<1>9. strayed \subseteq strayed' /\ strayed' \subseteq Part /\ stripped' \subseteq Part
  BY <1>1, <1>2
<1> QED
  BY <1>1, <1>2, <1>3, <1>7, <1>8, <1>9, QueueKeeps

-----------------------------------------------------------------------------
(* What goes, and what an edit leaves alone                                *)

LEMMA DestroyRigKeeps == \A r \in Rig : IInv /\ DestroyRig(r) => IInv' /\ r \notin Tracked'
<1> SUFFICES ASSUME NEW r \in Rig, IInv, DestroyRig(r) PROVE IInv' /\ r \notin Tracked'
  OBVIOUS
<1> USE RigsAssumption, IdsAssumption, TimesAssumption
<1>1. /\ placed' = placed \ {r} /\ waiting' = waiting \ {r}
      /\ at' = [p \in Part |-> IF at[p] = r THEN Gone ELSE at[p]]
      /\ body' = {p \in body : at[p] # r /\ p \notin Held(r)}
      /\ rootPart' = [rootPart EXCEPT ![r] = {}] /\ limbs' = [limbs EXCEPT ![r] = {}]
      /\ local' = local \ {r} /\ dead' = dead \ {r}
      /\ timer' = [timer EXCEPT ![r] = 0] /\ retry' = [retry EXCEPT ![r] = <<>>]
      /\ deadFor' = [deadFor EXCEPT ![r] = 0]
      /\ stripped' = stripped \cup {p \in body \cap Held(r) : at[p] = Workspace}
      /\ UNCHANGED <<used, name, health, spawns, strayed>>
  BY DEF DestroyRig, Forget, Strip
<1>2. states' = [i \in DOMAIN states |-> IF states[i] \in {r} THEN NoRig ELSE states[i]]
  BY DEF DestroyRig, Forget
<1>3. states \in [Ids -> Rig \cup {NoRig}] /\ Once(states)
  BY TrackedOnceIs DEF IInv, TypeOK, Ids
<1>4. states' \in [Ids -> Rig \cup {NoRig}] /\ Once(states') /\ In(states') = In(states) \ {r}
  BY <1>2, <1>3, RigsLeave
<1>5. Tracked' = Tracked \ {r}
  BY <1>4 DEF Tracked, In
<1>6. /\ rootPart'[r] = {} /\ limbs'[r] = {} /\ rootPart' \in [Rig -> SUBSET Part]
      /\ limbs' \in [Rig -> SUBSET Part]
      /\ \A s \in Rig \ {r} : rootPart'[s] = rootPart[s] /\ limbs'[s] = limbs[s]
  BY <1>1 DEF IInv, TypeOK
<1>7. /\ at \in [Part -> placed \cup {Workspace, Unmade, Gone}] /\ placed \subseteq Rig
      /\ \A p \in Part : at'[p] = IF at[p] = r THEN Gone ELSE at[p]
      /\ \A s \in Rig : Held(s) \subseteq Part
  BY <1>1, PartTypes DEF IInv, TypeOK, Held
<1>8. retry' \in [Rig -> Retries]
  <2>1. <<>> \in Retries
    BY DEF Retries
  <2> QED
    BY <1>1, <2>1 DEF IInv
<1>9. TypeOK'
  <2>1. \A q \in Rig : retry'[q] = <<>> \/ retry'[q][1] \in 0 .. RetryInterval
    BY <1>8 DEF Retries
  <2>2. timer' \in [Rig -> 0 .. RespawnDelay] /\ deadFor' \in [Rig -> 0 .. RespawnDelay]
    BY <1>1 DEF IInv, TypeOK
  <2>3. placed' \subseteq used' /\ waiting' \subseteq placed' /\ local' \subseteq Tracked'
    BY <1>1, <1>5 DEF IInv, TypeOK
  <2>4. at' \in [Part -> placed' \cup {Workspace, Unmade, Gone}]
    BY <1>1, <1>7
  <2> QED
    BY <1>1, <1>4, <1>6, <2>1, <2>2, <2>3, <2>4 DEF IInv, TypeOK, Ids
<1>10. TrackedOnce'
  <2>1. Tracked' \subseteq placed'
    BY <1>1, <1>5, TrackedOnceIs DEF IInv
  <2> QED
    BY <1>4, <2>1 DEF TrackedOnce, Once
<1>11. PartsHeld'
  <2>1. PartsHeld
    BY DEF IInv, PartsInv
  <2>2. ASSUME NEW s \in Rig, NEW p \in Held(s)', s # r PROVE p \in Held(s) /\ p \in Part
    BY <1>6, <1>7, <2>2 DEF Held
  <2> QED
    BY <1>1, <1>5, <1>6, <1>7, <2>1, <2>2 DEF PartsHeld, Held, Gone, Workspace
<1>12. Matches'
  <2>1. Matches
    BY DEF IInv, PartsInv
  <2>2. ASSUME NEW s \in Tracked', NEW p \in Held(s), at'[p] = s
        PROVE  at[p] = s /\ p \in Part /\ (p \in body' <=> p \in body)
    <3>1. s \in Rig /\ s # r /\ p \in Part
      BY <1>5, <1>7, DeadAreRigs
    <3>2. at[p] = s
      BY <1>7, <2>2, <3>1
    <3>3. p \notin Held(r)
      BY <3>1, <3>2 DEF IInv, PartsInv, PartsHeld
    <3> QED
      BY <1>1, <3>1, <3>2, <3>3
  <2>3. \A s \in Tracked' : s \in Tracked /\ s \in Rig \ {r} /\ (s \in dead' <=> s \in dead)
    BY <1>1, <1>5, DeadAreRigs
  <2>4. \A s \in Tracked' : /\ \A p \in AtHome(s, rootPart[s])' : p \in body' <=> s \notin dead'
                            /\ \A p \in AtHome(s, limbs[s])' : p \in body' <=> s \in dead'
    <3> TAKE s \in Tracked'
    <3>1. /\ s \in Tracked /\ (s \in dead' <=> s \in dead)
          /\ rootPart'[s] = rootPart[s] /\ limbs'[s] = limbs[s] /\ strayed' = strayed
      BY <1>1, <1>6, <2>3
    <3>2. ASSUME NEW p \in rootPart[s], at'[p] = s, p \notin strayed PROVE p \in body' <=> s \notin dead
      BY <2>1, <2>2, <3>1, <3>2 DEF Matches, AtHome, Held
    <3>3. ASSUME NEW p \in limbs[s], at'[p] = s, p \notin strayed PROVE p \in body' <=> s \in dead
      BY <2>1, <2>2, <3>1, <3>3 DEF Matches, AtHome, Held
    <3> QED
      BY <3>1, <3>2, <3>3 DEF AtHome
  <2>5. \A p \in body' \ strayed' : at'[p] \in Rig => at'[p] \in Tracked'
    BY <1>1, <1>5, <1>7, <2>1, PartTypes DEF Matches
  <2> QED
    BY <2>4, <2>5 DEF Matches
<1>13. NoStrayBodies'
  <2> SUFFICES ASSUME NEW p \in body'
               PROVE  \/ at'[p] \in Places'
                      \/ at'[p] = Gone /\ \E s \in dead' : p \in limbs'[s]
    BY DEF NoStrayBodies
  <2>1. p \in body /\ p \in Part /\ at'[p] = at[p] /\ at[p] # r /\ p \notin limbs[r]
    BY <1>1, <1>7, PartTypes DEF Held
  <2>2. NoStrayBodies
    BY DEF IInv, PartsInv
  <2>3. CASE at[p] \in Places
    BY <1>1, <2>1, <2>3 DEF Places
  <2>4. CASE at[p] = Gone /\ \E s \in dead : p \in limbs[s]
    BY <1>1, <1>6, <2>1, <2>4, DeadAreRigs
  <2> QED
    BY <2>1, <2>2, <2>3, <2>4 DEF NoStrayBodies
<1>14. LoosePartsCollide'
  <2> SUFFICES ASSUME NEW p \in Part, at'[p] = Workspace PROVE p \in body' \cup stripped'
    BY DEF LoosePartsCollide
  <2>1. at[p] = Workspace /\ at[p] # r
    BY <1>7 DEF Gone, Workspace
  <2>2. p \in body \cup stripped
    BY <2>1 DEF IInv, PartsInv, LoosePartsCollide
  <2> QED
    BY <1>1, <2>1, <2>2
<1>15. ClocksAgree'
  <2>1. \A q \in dead' : q \in dead /\ q \in Rig /\ q # r
    BY <1>1, DeadAreRigs
  <2>2. \A q \in dead' : deadFor'[q] = deadFor[q] /\ timer'[q] = timer[q]
    BY <1>1, <2>1 DEF IInv, TypeOK
  <2> QED
    BY <2>1, <2>2 DEF IInv, ClocksAgree
<1> QED
  BY <1>5, <1>8, <1>9, <1>10, <1>11, <1>12, <1>13, <1>14, <1>15 DEF IInv, PartsInv

(* The edits that touch neither states nor lives.                          *)
LEMMA RenamePartKeeps ==
    ASSUME IInv, NEW p \in Part, NEW n \in Names, RenamePart(p, n)
    PROVE  IInv'
<1>1. /\ name' = [name EXCEPT ![p] = n]
      /\ strayed' = strayed \cup (IF Touched(p) THEN {p} ELSE {})
      /\ UNCHANGED <<placed, used, at, body, stripped, health, spawns, states, rootPart, limbs,
                     waiting, local, dead, timer, retry, deadFor>>
  BY DEF RenamePart, stateVars, lifeVars
<1>2. Tracked' = Tracked /\ TrackedOnce' /\ ClocksAgree' /\ NoStrayBodies' /\ LoosePartsCollide'
  BY <1>1 DEF Tracked, IInv, PartsInv, TrackedOnce, ClocksAgree, NoStrayBodies, LoosePartsCollide,
              Places
<1>3. name \in [Part -> Names] /\ strayed \subseteq strayed' /\ strayed' \subseteq Part
  BY <1>1 DEF IInv, TypeOK
<1>4. TypeOK'
  BY <1>1, <1>2, <1>3 DEF IInv, TypeOK
<1>5. \A r \in Rig : \A x \in Held(r) \ strayed' : x \in Part /\ name'[x] = name[x] /\ x \notin strayed
  BY <1>1, <1>3, PartTypes DEF Touched, Held
<1>6. PartsHeld'
  BY <1>1, <1>2, <1>3, <1>5 DEF IInv, PartsInv, PartsHeld, Held
<1>7. Matches'
  BY <1>1, <1>2, <1>3 DEF IInv, PartsInv, Matches, AtHome
<1> QED
  BY <1>1, <1>2, <1>4, <1>6, <1>7 DEF IInv, PartsInv

LEMMA DeletePartKeeps ==
    ASSUME IInv, NEW p \in Part, DeletePart(p)
    PROVE  IInv'
<1> USE RigsAssumption
<1>1. /\ at' = [at EXCEPT ![p] = Gone] /\ body' = body \ {p}
      /\ UNCHANGED <<placed, used, name, strayed, stripped, health, spawns, states, rootPart, limbs,
                     waiting, local, dead, timer, retry, deadFor>>
  BY DEF DeletePart, stateVars, lifeVars
<1>2. Tracked' = Tracked /\ TrackedOnce' /\ ClocksAgree'
  BY <1>1 DEF Tracked, IInv, TrackedOnce, ClocksAgree
<1>3. /\ at \in [Part -> placed \cup {Workspace, Unmade, Gone}]
      /\ at'[p] = Gone /\ \A x \in Part \ {p} : at'[x] = at[x]
      /\ at' \in [Part -> placed \cup {Workspace, Unmade, Gone}]
      /\ Gone \notin Rig /\ Gone # Workspace
  BY <1>1 DEF IInv, TypeOK, Gone, Workspace
<1>4. TypeOK'
  BY <1>1, <1>2, <1>3 DEF IInv, TypeOK
<1>5. PartsHeld'
  <2>1. \A r \in Rig : \A x \in Held(r) : x \in Part
    BY PartTypes DEF Held
  <2> QED
    BY <1>1, <1>2, <1>3, <2>1 DEF IInv, PartsInv, PartsHeld, Held
<1>6. Matches'
  <2>1. \A r \in Tracked : r \in Rig /\ rootPart[r] \subseteq Part /\ limbs[r] \subseteq Part
    BY PartTypes, DeadAreRigs
  <2>2. \A r \in Tracked : /\ \A x \in AtHome(r, rootPart[r])' : x \in AtHome(r, rootPart[r]) /\ x # p
                           /\ \A x \in AtHome(r, limbs[r])' : x \in AtHome(r, limbs[r]) /\ x # p
    BY <1>1, <1>3, <2>1 DEF AtHome
  <2> QED
    BY <1>1, <1>2, <1>3, <2>2, PartTypes DEF IInv, PartsInv, Matches
<1>7. NoStrayBodies' /\ LoosePartsCollide'
  BY <1>1, <1>3, PartTypes DEF IInv, PartsInv, NoStrayBodies, LoosePartsCollide, Places
<1> QED
  BY <1>1, <1>2, <1>4, <1>5, <1>6, <1>7 DEF IInv, PartsInv

LEMMA EditsKeep ==
    IInv /\ ((\E r \in Rig : EditHealth(r)) \/ EditSpawns) => IInv'
<1> SUFFICES ASSUME IInv, (\E r \in Rig : EditHealth(r)) \/ EditSpawns PROVE IInv'
  OBVIOUS
<1>1. UNCHANGED <<placed, used, at, name, body, strayed, stripped, states, rootPart, limbs, waiting,
                  local, dead, timer, retry, deadFor>>
  BY DEF EditHealth, EditSpawns, partVars, stateVars, lifeVars
<1>2. Tracked' = Tracked
  BY <1>1 DEF Tracked
<1>3. TrackedOnce' /\ retry' \in [Rig -> Retries] /\ ClocksAgree' /\ PartsInv'
  BY <1>1, <1>2 DEF IInv, TrackedOnce, ClocksAgree, PartsInv, Matches, AtHome, NoStrayBodies,
                    Places, LoosePartsCollide, PartsHeld, Held
<1>4. health' \in [Rig -> {0, 1}] /\ spawns' \in BOOLEAN
  <2>1. CASE EditSpawns
    BY <2>1 DEF EditSpawns, IInv, TypeOK
  <2>2. CASE \E r \in Rig : EditHealth(r)
    <3>1. PICK r \in Rig : EditHealth(r)
      BY <2>2
    <3>2. health \in [Rig -> {0, 1}] /\ health' = [health EXCEPT ![r] = 1 - health[r]]
      BY <3>1 DEF EditHealth, IInv, TypeOK
    <3>3. health[r] = 0 \/ health[r] = 1
      BY <3>2
    <3>4. 1 - health[r] \in {0, 1}
      BY <3>3
    <3> QED
      BY <3>1, <3>2, <3>4 DEF EditHealth, IInv, TypeOK
  <2> QED
    BY <2>1, <2>2
<1> QED
  BY <1>1, <1>2, <1>3, <1>4 DEF IInv, TypeOK

-----------------------------------------------------------------------------
(* What update does to the two clocks of a rig.                            *)
LEMMA ClocksRun ==
    ASSUME IInv, NEW dt \in Ticks, NEW r \in Rig
    PROVE  /\ TimerAfter(r, dt) \in 0 .. RespawnDelay
           /\ AtMost(deadFor[r] + dt) \in 0 .. RespawnDelay
           /\ r \in dead => AtMost(deadFor[r] + dt) + TimerAfter(r, dt) >= RespawnDelay
           /\ r \in Dying => TimerAfter(r, dt) = RespawnDelay
<1>1. /\ timer[r] \in 0 .. RespawnDelay /\ deadFor[r] \in 0 .. RespawnDelay
      /\ RespawnDelay \in Nat /\ dt \in Nat
  BY TimesAssumption DEF IInv, TypeOK
<1>2. TimerAfter(r, dt) \in 0 .. RespawnDelay
  BY <1>1 DEF TimerAfter, Minus, DelayAfterDeath
<1>3. AtMost(deadFor[r] + dt) \in 0 .. RespawnDelay
  BY <1>1 DEF AtMost
<1>4. r \in dead => AtMost(deadFor[r] + dt) + TimerAfter(r, dt) >= RespawnDelay
  <2>1. r \in dead => deadFor[r] + timer[r] >= RespawnDelay
    BY DEF IInv, ClocksAgree
  <2>2. r \in dead => TimerAfter(r, dt) = Minus(timer[r], dt)
    BY DEF TimerAfter, Dying
  <2> QED
    BY <1>1, <2>1, <2>2 DEF AtMost, Minus
<1>5. r \in Dying => TimerAfter(r, dt) = RespawnDelay
  BY DEF TimerAfter, DelayAfterDeath
<1> QED
  BY <1>2, <1>3, <1>4, <1>5

(* The bodies after a frame in which the rigs of `up` stand again.         *)
LEMMA BodiesOf ==
    ASSUME NEW up \in SUBSET Rig, NEW p \in Part
    PROVE  p \in BodiesAfter(up) <=>
               \/ \E r \in up : at[p] = r /\ name[p] = "RootPart"
               \/ /\ \A r \in Dying : p \notin rootPart'[r]
                  /\ \/ \E r \in Ready : p \in rootPart'[r]
                     \/ /\ p \in body \/ \E r \in Dying : p \in limbs'[r]
                        /\ \A r \in up : p \notin limbs[r]
  BY DEF BodiesAfter, RagdollAfter, Of, Child

LEMMA UpdateKeeps == \A dt \in Ticks : IInv /\ Update(dt) => IInv'
<1> SUFFICES ASSUME NEW dt \in Ticks, IInv, Update(dt) PROVE IInv'
  OBVIOUS
<1> USE RigsAssumption, IdsAssumption, TimesAssumption
<1> DEFINE up == Respawning(dt)
<1>1. /\ UNCHANGED <<placed, used, at, name, strayed, spawns>>
      /\ Adopt(Ready) /\ waiting' = waiting \ (Tracked \cup Ready)
      /\ local' = local \cup Ready
      /\ dead' = (dead \ up) \cup Dying
      /\ timer' = [r \in Rig |-> TimerAfter(r, dt)]
      /\ deadFor' = [r \in Rig |-> IF r \in dead \ up THEN AtMost(deadFor[r] + dt) ELSE 0]
      /\ body' = BodiesAfter(up)
      /\ stripped' = stripped \cup {p \in body \ body' : at[p] = Workspace}
      /\ health' = [r \in Rig |-> IF r \in up THEN 1 ELSE health[r]]
      /\ retry' = [r \in Rig |-> IF r \in Walking THEN RetryAfter(r, dt) ELSE retry[r]]
  BY DEF Update, Adopt, Strip
<1>2. up \subseteq dead
  BY DEF Respawning
<1> HIDE DEF up
<1>3. /\ Ready \subseteq placed \cap Rig /\ Ready \cap Tracked = {} /\ Ready \cap dead = {}
  BY DEF Ready, IInv, TypeOK
<1>4. /\ Dying \cap dead = {} /\ Dying \subseteq local \cup Ready
      /\ dead \subseteq Tracked /\ Tracked \subseteq Rig /\ local \subseteq Tracked
  BY DeadAreRigs DEF Dying, IInv, TypeOK
<1>5. states \in [Ids -> Rig \cup {NoRig}] /\ Once(states) /\ Ready \cap In(states) = {}
  BY <1>3, TrackedIsIn, TrackedOnceIs DEF IInv, TypeOK, Ids
<1>6. /\ states' \in [Ids -> Rig \cup {NoRig}] /\ Once(states')
      /\ In(states') = In(states) \cup Ready
  BY <1>1, <1>3, <1>5, RigsAdopted
<1>7. Tracked' = Tracked \cup Ready
  BY <1>6 DEF Tracked, In
<1>8. retry' \in [Rig -> Retries]
  <2>1. ASSUME NEW r \in Rig PROVE RetryAfter(r, dt) \in Retries
    <3>1. retry[r] \in Retries
      BY DEF IInv
    <3>2. CASE retry[r] = <<>>
      BY <3>2 DEF RetryAfter, Retries
    <3>3. CASE \E n \in 0 .. RetryInterval : retry[r] = <<n>>
      <4>1. PICK n \in 0 .. RetryInterval : retry[r] = <<n>>
        BY <3>3
      <4>2. retry[r] # <<>> /\ retry[r][1] = n
        BY <4>1
      <4>3. RetryAfter(r, dt) = IF n > dt THEN <<n - dt>>
                                ELSE IF spawns THEN <<>> ELSE <<RetryInterval>>
        BY <4>2 DEF RetryAfter
      <4>4. n > dt => n - dt \in 0 .. RetryInterval
        OBVIOUS
      <4> QED
        BY <4>3, <4>4 DEF Retries
    <3> QED
      BY <3>1, <3>2, <3>3 DEF Retries
  <2> QED
    BY <1>1, <2>1 DEF IInv
<1>9. /\ \A r \in Ready : /\ rootPart'[r] = {p \in Part : at[p] = r /\ name[p] = "RootPart"}
                          /\ limbs'[r] = {p \in Part : at[p] = r /\ name[p] = "Limb"}
      /\ \A r \in Rig \ Ready : rootPart'[r] = rootPart[r] /\ limbs'[r] = limbs[r]
      /\ rootPart' \in [Rig -> SUBSET Part] /\ limbs' \in [Rig -> SUBSET Part]
  <2>1. /\ rootPart' = [r \in Rig |-> IF r \in Ready THEN ChildNow(r, "RootPart") ELSE rootPart[r]]
        /\ limbs' = [r \in Rig |-> IF r \in Ready THEN ChildNow(r, "Limb") ELSE limbs[r]]
    BY <1>1 DEF Adopt, Capture
  <2>2. \A r \in Rig, n \in Names : ChildNow(r, n) = {p \in Part : at[p] = r /\ name[p] = n}
    BY <1>1 DEF ChildNow
  <2>3. "RootPart" \in Names /\ "Limb" \in Names
    BY DEF Names
  <2>4. \A r \in Rig : rootPart[r] \subseteq Part /\ limbs[r] \subseteq Part
    BY PartTypes
  <2> QED
    BY <1>3, <2>1, <2>2, <2>3, <2>4
<1>10. /\ at \in [Part -> placed \cup {Workspace, Unmade, Gone}] /\ placed \subseteq Rig
       /\ body \subseteq Part
  BY DEF IInv, TypeOK
<1>11. up \subseteq Rig /\ Dying \subseteq Rig
  BY <1>2, <1>3, <1>4
<1>12. \A p \in Part : p \in body' <=>
               \/ \E r \in up : at[p] = r /\ name[p] = "RootPart"
               \/ /\ \A r \in Dying : p \notin rootPart'[r]
                  /\ \/ \E r \in Ready : p \in rootPart'[r]
                     \/ /\ p \in body \/ \E r \in Dying : p \in limbs'[r]
                        /\ \A r \in up : p \notin limbs[r]
  BY <1>1, <1>11, BodiesOf
<1>13. TypeOK'
  <2>1. waiting' \subseteq placed'
    BY <1>1 DEF IInv, TypeOK
  <2>2. local' \subseteq Tracked' /\ dead' \subseteq local'
    BY <1>1, <1>2, <1>4, <1>7 DEF IInv, TypeOK
  <2>3. timer' \in [Rig -> 0 .. RespawnDelay] /\ deadFor' \in [Rig -> 0 .. RespawnDelay]
    BY <1>1, ClocksRun
  <2>4. body' \subseteq Part
    BY <1>1, <1>3, <1>9, <1>10, <1>11 DEF BodiesAfter, RagdollAfter, Of, Child
  <2>5. \A r \in Rig : retry'[r] = <<>> \/ retry'[r][1] \in 0 .. RetryInterval
    BY <1>8 DEF Retries
  <2>6. health' \in [Rig -> {0, 1}] /\ stripped' \subseteq Part
    BY <1>1, <1>10 DEF IInv, TypeOK
  <2> QED
    BY <1>1, <1>6, <1>9, <2>1, <2>2, <2>3, <2>4, <2>5, <2>6 DEF IInv, TypeOK, Ids
<1>14. TrackedOnce'
  <2>1. Tracked' \subseteq placed'
    BY <1>1, <1>3, <1>7, TrackedOnceIs DEF IInv
  <2> QED
    BY <1>6, <2>1 DEF TrackedOnce, Once
<1>15. PartsHeld'
  <2>1. PartsHeld
    BY DEF IInv, PartsInv
  <2>2. ASSUME NEW r \in Rig
        PROVE  /\ r \notin Tracked' => rootPart'[r] = {} /\ limbs'[r] = {}
               /\ \A p \in rootPart'[r] \cup limbs'[r] : /\ at[p] \in {r, Workspace, Gone}
                                                         /\ p \notin strayed => at[p] # Workspace
               /\ \A p \in rootPart'[r] \ strayed : name[p] = "RootPart"
               /\ \A p \in limbs'[r] \ strayed : name[p] = "Limb"
    <3>1. CASE r \in Ready
      BY <1>7, <1>9, <3>1
    <3>2. CASE r \notin Ready
      BY <1>7, <1>9, <2>1, <3>2 DEF PartsHeld, Held
    <3> QED
      BY <3>1, <3>2
  <2>3. at' = at /\ name' = name /\ strayed' = strayed
    BY <1>1
  <2>4. \A r \in Rig \ Tracked' : rootPart'[r] = {} /\ limbs'[r] = {}
    BY <2>2
  <2>5. \A r \in Rig : \A p \in Held(r)' : /\ at'[p] \in {r, Workspace, Gone}
                                           /\ p \notin strayed' => at'[p] # Workspace
    BY <2>2, <2>3 DEF Held
  <2>6. \A r \in Rig : /\ \A p \in rootPart'[r] \ strayed' : name'[p] = "RootPart"
                       /\ \A p \in limbs'[r] \ strayed' : name'[p] = "Limb"
    BY <2>2, <2>3
  <2> QED
    BY <2>4, <2>5, <2>6 DEF PartsHeld
<1>16. \A r \in Rig : \A p \in Part \ strayed : at[p] = r =>
           /\ \A s \in Rig : p \in rootPart'[s] \cup limbs'[s] => s = r
           /\ p \in rootPart'[r] => name[p] = "RootPart"
           /\ p \in limbs'[r] => name[p] = "Limb"
  BY <1>1, <1>15 DEF PartsHeld, Held, Workspace, Gone
<1>17. Matches'
  <2>1. Matches
    BY DEF IInv, PartsInv
  <2>2. ASSUME NEW r \in Tracked', NEW p \in rootPart'[r], at[p] = r, p \notin strayed
        PROVE  p \in body' <=> r \notin dead'
    <3>1. /\ p \in Part /\ r \in Rig /\ name[p] = "RootPart"
          /\ \A s \in Rig : p \in rootPart'[s] \cup limbs'[s] => s = r
      BY <1>3, <1>4, <1>7, <1>9, <1>16, <2>2
    <3>2. p \notin limbs'[r] /\ \A s \in Rig : p \notin limbs'[s]
      BY <1>16, <2>2, <3>1
    <3>3. \A s \in up : p \notin limbs[s]
      BY <1>2, <1>3, <1>9, <1>11, <3>2
    <3>4. CASE r \in Ready
      BY <1>1, <1>2, <1>3, <1>11, <1>12, <2>2, <3>1, <3>2, <3>4
    <3>5. CASE r \in Tracked
      <4>1. r \notin Ready /\ p \in rootPart[r]
        BY <1>3, <1>9, <2>2, <3>1, <3>5
      <4>2. p \in body <=> r \notin dead
        BY <2>1, <2>2, <3>5, <4>1 DEF Matches, AtHome
      <4> QED
        BY <1>1, <1>2, <1>3, <1>4, <1>11, <1>12, <2>2, <3>1, <3>2, <3>3, <4>1, <4>2
    <3> QED
      BY <1>7, <3>4, <3>5
  <2>3. ASSUME NEW r \in Tracked', NEW p \in limbs'[r], at[p] = r, p \notin strayed
        PROVE  p \in body' <=> r \in dead'
    <3>1. /\ p \in Part /\ r \in Rig /\ name[p] = "Limb"
          /\ \A s \in Rig : p \in rootPart'[s] \cup limbs'[s] => s = r
      BY <1>3, <1>4, <1>7, <1>9, <1>16, <2>3
    <3>2. \A s \in Rig : p \notin rootPart'[s]
      BY <1>16, <2>3, <3>1
    <3>3. \A s \in up : p \in limbs[s] => s = r
      BY <1>2, <1>3, <1>9, <1>11, <3>1
    <3>4. \A s \in Dying : p \in limbs'[s] => s = r
      BY <1>11, <3>1
    <3>5. p \in body' <=> /\ p \in body \/ \E s \in Dying : p \in limbs'[s]
                          /\ \A s \in up : p \notin limbs[s]
      BY <1>3, <1>11, <1>12, <3>1, <3>2
    <3>6. CASE r \in Ready
      <4>1. p \notin body
        BY <1>3, <2>1, <2>3, <3>1, <3>6 DEF Matches
      <4> QED
        BY <1>1, <1>2, <1>3, <2>3, <3>3, <3>4, <3>5, <3>6, <4>1
    <3>7. CASE r \in Tracked
      <4>1. r \notin Ready /\ p \in limbs[r]
        BY <1>3, <1>9, <2>3, <3>1, <3>7
      <4>2. p \in body <=> r \in dead
        BY <2>1, <2>3, <3>7, <4>1 DEF Matches, AtHome
      <4> QED
        BY <1>1, <1>2, <1>4, <2>3, <3>3, <3>4, <3>5, <4>1, <4>2
    <3> QED
      BY <1>7, <3>6, <3>7
  <2>4. ASSUME NEW p \in body' \ strayed, at[p] \in Rig PROVE at[p] \in Tracked'
    <3>1. p \in Part
      BY <1>13 DEF TypeOK
    <3>2. CASE \E r \in up : at[p] = r
      BY <1>2, <1>4, <1>7, <3>2
    <3>3. CASE \E r \in Ready : p \in rootPart'[r]
      BY <1>7, <1>9, <3>3
    <3>4. CASE \E r \in Dying : p \in limbs'[r]
      BY <1>4, <1>7, <1>11, <1>16, <2>4, <3>1, <3>4
    <3>5. CASE p \in body
      BY <1>7, <2>1, <2>4, <3>5 DEF Matches
    <3> QED
      BY <1>12, <2>4, <3>1, <3>2, <3>3, <3>4, <3>5
  <2> QED
    BY <1>1, <2>2, <2>3, <2>4 DEF Matches, AtHome
<1>18. NoStrayBodies'
  <2> SUFFICES ASSUME NEW p \in body'
               PROVE  \/ at[p] \in Places
                      \/ at[p] = Gone /\ \E r \in dead' : p \in limbs'[r]
    BY <1>1 DEF NoStrayBodies, Places
  <2>1. p \in Part /\ \A r \in Rig : at[p] = r => r \in placed
    BY <1>10, <1>13 DEF TypeOK
  <2>2. CASE \E r \in up \cup Ready : at[p] = r
    BY <1>3, <1>11, <2>1, <2>2 DEF Places
  <2>3. CASE \E r \in Dying : p \in limbs'[r]
    <3>1. PICK r \in Dying : p \in limbs'[r]
      BY <2>3
    <3>2. at[p] \in {r, Workspace, Gone} /\ r \in dead' /\ r \in Rig
      BY <1>1, <1>11, <1>15, <3>1 DEF PartsHeld, Held
    <3> QED
      BY <2>1, <3>1, <3>2 DEF Places
  <2>4. CASE p \in body /\ \A r \in up : p \notin limbs[r]
    <3>1. NoStrayBodies
      BY DEF IInv, PartsInv
    <3>2. ASSUME NEW r \in dead, p \in limbs[r] PROVE r \in dead' /\ p \in limbs'[r]
      BY <1>1, <1>3, <1>4, <1>9, <2>4, <3>2
    <3>3. CASE at[p] = Gone /\ \E r \in dead : p \in limbs[r]
      BY <3>2, <3>3
    <3> QED
      BY <2>4, <3>1, <3>3 DEF NoStrayBodies
  <2>5. \A r \in Ready : p \in rootPart'[r] => at[p] = r
    BY <1>9
  <2> QED
    BY <1>12, <2>1, <2>2, <2>3, <2>4, <2>5
<1>19. LoosePartsCollide'
  <2> SUFFICES ASSUME NEW p \in Part, at[p] = Workspace PROVE p \in body' \cup stripped'
    BY <1>1 DEF LoosePartsCollide
  <2>1. p \in body \cup stripped
    BY DEF IInv, PartsInv, LoosePartsCollide
  <2> QED
    BY <1>1, <2>1
<1>20. ClocksAgree'
  <2> SUFFICES ASSUME NEW r \in dead' PROVE deadFor'[r] + timer'[r] >= RespawnDelay
    BY DEF ClocksAgree
  <2>1. r \in Rig
    BY <1>1, <1>4, <1>11
  <2>2. timer'[r] = TimerAfter(r, dt)
    BY <1>1, <2>1
  <2>3. CASE r \in dead \ up
    BY <1>1, <2>1, <2>2, <2>3, ClocksRun
  <2>4. CASE r \in Dying
    <3>1. deadFor'[r] = 0
      BY <1>1, <1>4, <2>1, <2>4
    <3> QED
      BY <2>1, <2>2, <2>4, <3>1, ClocksRun
  <2> QED
    BY <1>1, <2>3, <2>4
<1> QED
  BY <1>8, <1>13, <1>14, <1>15, <1>17, <1>18, <1>19, <1>20 DEF IInv, PartsInv

LEMMA NextKeeps == IInv /\ [Next]_vars => IInv'
<1> SUFFICES ASSUME IInv, [Next]_vars PROVE IInv'
  OBVIOUS
<1>1. CASE UNCHANGED vars
  BY <1>1 DEF vars, partVars, stateVars, lifeVars, IInv, TypeOK, TrackedOnce, PartsInv, Matches,
              AtHome, NoStrayBodies, Places, LoosePartsCollide, PartsHeld, Held, ClocksAgree, Tracked
<1>2. CASE Frame
  BY <1>2, UpdateKeeps DEF Frame
<1>3. CASE \E id \in PlayerId, r \in Rig, isLocal \in BOOLEAN, p, q \in Part :
              CreateHumanoid(id, r, isLocal, p, q)
  BY <1>3, CreateHumanoidKeeps
<1>4. CASE \E r \in Rig : DestroyRig(r)
  BY <1>4, DestroyRigKeeps
<1>5. CASE \E id \in PlayerId : RemoveHumanoid(id)
  <2>1. \A id \in PlayerId : states[id] # NoRig => states[id] \in Rig
    BY DEF IInv, TypeOK
  <2> QED
    BY <1>4, <1>5, <2>1 DEF RemoveHumanoid
<1>6. CASE \E r \in Rig : FallOut(r)
  BY <1>4, <1>6 DEF FallOut
<1>7. CASE \E r \in Rig : \E complete \in BOOLEAN, p, q \in Part : EnterWorkspace(r, complete, p, q)
  BY <1>7, EnterWorkspaceKeeps
<1>8. CASE (\E r \in Rig : EditHealth(r)) \/ EditSpawns
  BY <1>8, EditsKeep
<1>9. CASE \E p \in Part : EditPart(p)
  BY <1>9, AddPartKeeps, DragPartKeeps, RenamePartKeeps, DeletePartKeeps DEF EditPart
<1> QED
  BY <1>1, <1>2, <1>3, <1>4, <1>5, <1>6, <1>7, <1>8, <1>9 DEF Next, Environment

LEMMA Invariant == Spec => []IInv
  BY InitHolds, NextKeeps, PTL DEF Spec

(* Every rig is tracked at most once; alive its root has a body and none   *)
(* of its limbs, dead the other way round, and an untracked one has none;  *)
(* a deleted part leaves no body but as a limb of the dead; and a part     *)
(* dragged out collides until its rig takes the body.  For any number of   *)
(* rigs and parts, any ids and any times, and whatever the explorer adds,  *)
(* drags, renames and deletes (HumanoidManager::createHumanoid, update,    *)
(* queueRig and the callbacks of the workspace).                           *)
THEOREM RigsStayWhole == Spec => []RigsAreWhole
<1>1. IInv => RigsAreWhole
  <2> SUFFICES ASSUME IInv PROVE BodiesMatchLife
    BY DEF IInv, PartsInv, RigsAreWhole
  <2>1. \A r \in Tracked : AtHome(r, rootPart[r]) \subseteq Part /\ AtHome(r, limbs[r]) \subseteq Part
    BY PartTypes, DeadAreRigs DEF AtHome
  <2> QED
    BY <2>1 DEF IInv, PartsInv, Matches, BodiesMatchLife
<1> QED
  BY Invariant, <1>1, PTL

(* Nobody stands again before the delay is over: whoever is dead no more,  *)
(* and still tracked, had been dead for kRespawnDelay by the end of the    *)
(* frame (HumanoidManager::killState and update).                          *)
THEOREM NobodyRespawnsEarly == Spec => RespawnTakesItsTime
<1> DEFINE Timely == \A r \in dead \ dead' :
                        r \in Tracked' => \E dt \in Ticks : deadFor[r] + dt >= RespawnDelay
<1>1. IInv /\ [Next]_vars => [Timely]_vars
  <2> SUFFICES ASSUME IInv, Next, NEW r \in dead, r \notin dead', r \in Tracked'
               PROVE  \E dt \in Ticks : deadFor[r] + dt >= RespawnDelay
    OBVIOUS
  <2>1. CASE Frame
    <3>1. PICK dt \in Ticks : Update(dt)
      BY <2>1 DEF Frame
    <3>2. r \in Respawning(dt)
      BY <3>1 DEF Update
    <3>3. /\ r \in Rig /\ timer[r] <= dt /\ deadFor[r] + timer[r] >= RespawnDelay
      BY <3>2, DeadAreRigs DEF Respawning, IInv, ClocksAgree
    <3>4. timer[r] \in Nat /\ deadFor[r] \in Nat /\ dt \in Nat /\ RespawnDelay \in Nat
      BY <3>3, TimesAssumption DEF IInv, TypeOK
    <3> QED
      BY <3>3, <3>4
  <2>2. ASSUME NEW q \in Rig, DestroyRig(q) PROVE FALSE
    <3>1. dead' = dead \ {q}
      BY <2>2 DEF DestroyRig, Forget
    <3> QED
      BY <2>2, <3>1, DestroyRigKeeps
  <2>3. CASE \E id \in PlayerId : RemoveHumanoid(id)
    <3>1. \A id \in PlayerId : states[id] # NoRig => states[id] \in Rig
      BY DEF IInv, TypeOK
    <3> QED
      BY <2>2, <2>3, <3>1 DEF RemoveHumanoid
  <2>4. CASE \E q \in Rig : FallOut(q) \/ DestroyRig(q)
    BY <2>2, <2>4 DEF FallOut
  <2>5. CASE UNCHANGED dead
    BY <2>5
  <2>6. ASSUME NEW p \in Part, EditPart(p) PROVE UNCHANGED dead
    BY <2>6 DEF EditPart, AddPart, DragPart, RenamePart, DeletePart, lifeVars
  <2> QED
    BY <2>1, <2>3, <2>4, <2>5, <2>6
    DEF Next, Environment, CreateHumanoid, EnterWorkspace, EditHealth, EditSpawns, lifeVars
<1> QED
  BY Invariant, <1>1, PTL DEF Spec, RespawnTakesItsTime
=============================================================================
